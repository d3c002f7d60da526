----------------------------- MODULE InternalEffect -----------------------------
(***************************************************************************)
(* The internal-effect plane of abyss-stack-mcp: effect.py (the executor   *)
(* of one approved restart-and-restore pilot of the read service) and      *)
(* effect_server.py (the MCP process that runs each request in a worker),  *)
(* with the two locks they share with the runtime provisioner of           *)
(* aoa_install_systemd.sh.                                                 *)
(*                                                                         *)
(* A worker is one run of "abyss_stack_mcp.effect execute": spawned by the *)
(* server for one request, or started at a shell (a member of Shells,      *)
(* which takes no part in the request drain).  A process identity (pid and *)
(* start time) is a number that no later process has; 0 is a unit that is  *)
(* not running.  Digests are numbers too: the observation with digest d is *)
(* the d-th one published.                                                 *)
(***************************************************************************)
EXTENDS Naturals, FiniteSets

CONSTANTS
    Plans, Keys,       \* staged restart plans, idempotency keys
    Approvals,         \* the approvals people may give: [plan, key, issue]
    Workers, Shells,   \* the worker processes; those started at a shell
    JournalBound,      \* attempt receipts the journal may hold (1024 in the code)
    MaxObservations,   \* bound: observations published
    MaxKills,          \* bound: unit stops and kills that are not time-outs
    MaxForeign,        \* bound: read-service changes made by others
    MaxProvisions,     \* bound: runs of the provisioner
    MaxEarlier,        \* bound: attempts already in the journal at the start
    NoReplay, Torn     \* model values: no idempotency file, an incomplete one

ASSUME EffectAssumption ==
    /\ Shells \subseteq Workers /\ Approvals # {}
    /\ \A a \in Approvals : a.plan \in Plans /\ a.key \in Keys
    /\ {JournalBound, MaxObservations, MaxKills, MaxForeign, MaxProvisions, MaxEarlier}
          \subseteq Nat
    /\ Torn # NoReplay /\ {NoReplay, Torn} \cap Approvals = {}

VARIABLES
    staged,      \* plan -> digest of the observation it was made from, 0 if not staged
    approval,    \* approval -> "none", "live" or "expired"
    observation, \* the published observation: [digest, process, readable]
    process,     \* identity of the running read service, 0 when it is down
    newest,      \* the newest identity ever given
    replay,      \* key -> its idempotency file: NoReplay, Torn or the approval it binds
    armed,       \* the pre-effect files: <<plan, key>>
    journal,     \* attempt receipts: [count, recent, torn]
    denied, recovered, applied, \* the workers that wrote such a receipt
    worker,      \* worker -> [pc, approval, plan, key, subject, pre, post, ok]
    provisioner, \* the provisioner's progress
    serving,     \* the effect server is up
    budget,      \* what is left of the bounds: [kills, foreign, provisions]
    restarts,    \* history: restarts each worker asked for
    changed      \* history: workers whose restart replaced the process

files == <<staged, approval, replay, armed, journal, denied, recovered, applied>>
unit == <<process, newest>>
history == <<restarts, changed>>
vars == <<files, unit, history, observation, worker, provisioner, serving, budget>>

Idle == [pc |-> "idle", approval |-> CHOOSE a \in Approvals : TRUE,
         plan |-> CHOOSE p \in Plans : TRUE, key |-> CHOOSE k \in Keys : TRUE,
         subject |-> 0, pre |-> 0, post |-> 0, ok |-> TRUE]

Init ==
    /\ staged = [p \in Plans |-> 0]
    /\ approval = [a \in Approvals |-> "none"]
    /\ observation = [digest |-> 1, process |-> 1, readable |-> TRUE]
    /\ process = 1 /\ newest = 1
    /\ replay = [k \in Keys |-> NoReplay]
    /\ armed = {}
    /\ \E n \in 0..MaxEarlier : journal = [count |-> n, recent |-> FALSE, torn |-> FALSE]
    /\ denied = {} /\ recovered = {} /\ applied = {}
    /\ worker = [w \in Workers |-> Idle]
    /\ provisioner = "idle" /\ serving = TRUE
    /\ budget = [kills |-> MaxKills, foreign |-> MaxForeign, provisions |-> MaxProvisions]
    /\ restarts = [w \in Workers |-> 0] /\ changed = {}

---------------------------------------------------------------------------
(* The locks.  A worker holds the execution lock from Acquire to its exit; *)
(* a server request holds the drain lock (shared) from Admit until the     *)
(* server has seen its worker exit.                                        *)

InEffect == {"armed", "restarted", "rollback", "rolledback"}
Executing == {"locked", "claimed", "ended", "receipted"} \cup InEffect
Running == {"queued"} \cup Executing
Draining == {"drained"} \cup {"holding", "stopped", "swapped", "restored"}
Holding == {"holding", "stopped", "swapped", "restored"}

Pc(w) == worker[w].pc
Key(w) == worker[w].key
Plan(w) == worker[w].plan
\* Mutated form: the workers and the provisioner lock different files.
OtherExecutionLock == \A v \in Workers : Pc(v) \notin Executing

ExecutionLockFree ==
    /\ \A v \in Workers : Pc(v) \notin Executing
    /\ provisioner \notin Holding
\* Mutated form: the server closes the drain lock once its worker is spawned.
DrainLockEarly == TRUE

DrainLockFree == \A w \in Workers \ Shells : Pc(w) \notin Running \cup {"exited"}
Goes(w, pc) == worker' = [worker EXCEPT ![w].pc = pc]

---------------------------------------------------------------------------
(* People and the observer. *)

\* stage_plan: the plan file names the digest of the observation it was made from.
StagePlan(p) ==
    /\ staged[p] = 0
    /\ staged' = [staged EXCEPT ![p] = observation.digest]
    /\ UNCHANGED <<approval, replay, armed, journal, denied, recovered, applied,
                   unit, history, observation, worker, provisioner, serving, budget>>

\* create_approval, and the passing of an approval's (or its plan's) expiry.
Approve(a) ==
    /\ \/ approval[a] = "none" /\ staged[a.plan] # 0
          /\ approval' = [approval EXCEPT ![a] = "live"]
       \/ approval[a] = "live"
          /\ approval' = [approval EXCEPT ![a] = "expired"]
    /\ UNCHANGED <<staged, replay, armed, journal, denied, recovered, applied,
                   unit, history, observation, worker, provisioner, serving, budget>>

\* The producer publishes what it saw of the unit some time before; the
\* document may also become unreadable to ObservationStore.load.
Observe ==
    /\ observation.digest < MaxObservations
    /\ \E seen \in observation.process..newest, readable \in BOOLEAN :
          seen # 0 /\ observation' = [digest |-> observation.digest + 1,
                                      process |-> seen, readable |-> readable]
    /\ UNCHANGED <<files, unit, history, worker, provisioner, serving, budget>>

\* systemd or a person replaces or loses the read service.
Foreign ==
    /\ budget.foreign > 0
    /\ budget' = [budget EXCEPT !.foreign = @ - 1]
    /\ \/ process' = newest + 1 /\ newest' = newest + 1
       \/ process' = 0 /\ UNCHANGED newest
    /\ UNCHANGED <<files, history, observation, worker, provisioner, serving>>

\* The last attempt leaves the one-minute window.
MinutePasses ==
    /\ journal.recent
    /\ journal' = [journal EXCEPT !.recent = FALSE]
    /\ UNCHANGED <<staged, approval, replay, armed, denied, recovered, applied,
                   unit, history, observation, worker, provisioner, serving, budget>>

---------------------------------------------------------------------------
(* The server and the shell. *)

\* A request arrives, or a shell starts the executor: any plan with any approval
\* and any key, which need not be the one the approval was given for.
Request(w) ==
    /\ Pc(w) = "idle" /\ (w \in Shells \/ serving)
    /\ \E a \in Approvals, p \in Plans, k \in Keys :
          worker' = [worker EXCEPT ![w].approval = a, ![w].plan = p, ![w].key = k,
                        ![w].pc = IF w \in Shells THEN "queued" ELSE "asking"]
    /\ UNCHANGED <<files, unit, history, observation, provisioner, serving, budget>>

\* _acquire_request_drain_lock, then _run_worker spawns the process.
Admit(w) ==
    /\ Pc(w) = "asking" /\ provisioner \notin Draining
    /\ Goes(w, "queued")
    /\ UNCHANGED <<files, unit, history, observation, provisioner, serving, budget>>

\* Mutated form: a process that is gone is kept in a state of its own.
GoneUnknown(r) == [r EXCEPT !.pc = "gone", !.approval = Idle.approval, !.key = Idle.key,
                     !.subject = 0, !.post = 0, !.ok = TRUE]

\* What is left of a process that is gone.
Gone(r) == [r EXCEPT !.pc = "closed", !.approval = Idle.approval, !.key = Idle.key,
                     !.subject = 0, !.post = 0, !.ok = TRUE]

\* The server has waited for its worker and closes the drain lock.
Close(w) ==
    /\ Pc(w) = "exited"
    /\ worker' = [worker EXCEPT ![w] = Gone(@)]
    /\ UNCHANGED <<files, unit, history, observation, provisioner, serving, budget>>

---------------------------------------------------------------------------
(* The executor. *)

\* flock(LOCK_EX).
Acquire(w) ==
    /\ Pc(w) = "queued" /\ ExecutionLockFree
    /\ Goes(w, "locked")
    /\ UNCHANGED <<files, unit, history, observation, provisioner, serving, budget>>

Exit(w) == Goes(w, "exited")

\* An EffectError leaves a denial receipt; any other exception does not.
Deny(w) == denied' = denied \cup {w} /\ Exit(w)

\* The idempotency file binds exactly this request: its receipt is returned.
Replay(w) ==
    /\ Pc(w) = "locked" /\ replay[Key(w)] = worker[w].approval
    /\ worker[w].approval.plan = Plan(w)
    /\ Exit(w)
    /\ UNCHANGED <<files, unit, history, observation, provisioner, serving, budget>>

\* Mutated form: the idempotency file is not looked at.
AuthorizedAnyKey(w) ==
    /\ staged[Plan(w)] # 0
    /\ worker[w].approval.plan = Plan(w) /\ approval[worker[w].approval] = "live"
    /\ worker[w].approval.key = Key(w)

\* The approval names this plan and this key and is live, and its plan is staged.
Authorized(w) ==
    /\ replay[Key(w)] = NoReplay
    /\ staged[Plan(w)] # 0
    /\ worker[w].approval.plan = Plan(w) /\ approval[worker[w].approval] = "live"
    /\ worker[w].approval.key = Key(w)

\* The observation is still the one the plan was made from.
Current(w) == observation.readable /\ observation.digest = staged[Plan(w)]
SlotFree == ~journal.torn /\ ~journal.recent /\ journal.count <= JournalBound

Refuse(w) ==
    /\ Pc(w) = "locked"
    /\ \/ ~Authorized(w)
       \/ observation.readable /\ ~(Current(w) /\ SlotFree)
    /\ ~(replay[Key(w)] = worker[w].approval /\ worker[w].approval.plan = Plan(w))
    /\ Deny(w)
    /\ UNCHANGED <<staged, approval, replay, armed, journal, recovered, applied,
                   unit, history, observation, provisioner, serving, budget>>

\* ObservationStore.load raises StackMCPError, the parent class of EffectError.
Unreadable(w) ==
    /\ Pc(w) = "locked" /\ Authorized(w) /\ ~observation.readable
    /\ Exit(w)
    /\ UNCHANGED <<files, unit, history, observation, provisioner, serving, budget>>

\* _claim_rate_slot writes the attempt receipt.
Claim(w) ==
    /\ Pc(w) = "locked" /\ Authorized(w) /\ Current(w) /\ SlotFree
    /\ journal' = [journal EXCEPT !.count = @ + 1, !.recent = TRUE]
    /\ worker' = [worker EXCEPT ![w].pc = "claimed", ![w].subject = observation.process]
    /\ UNCHANGED <<staged, approval, replay, armed, denied, recovered, applied,
                   unit, history, observation, provisioner, serving, budget>>

\* Mutated form: any running process will do.
UnmovedAny(w) == process # 0

\* The unit must run, as the very process the observation describes.
Unmoved(w) == process # 0 /\ process = worker[w].subject

\* It moved, or the snapshot itself fails, with an EffectError too.
Drift(w) ==
    /\ Pc(w) = "claimed"
    /\ Deny(w)
    /\ UNCHANGED <<staged, approval, replay, armed, journal, recovered, applied,
                   unit, history, observation, provisioner, serving, budget>>

\* The pre-effect file is created exclusively: FileExistsError ends the worker.
Fresh(w) == <<Plan(w), Key(w)>> \notin armed

Arm(w) ==
    /\ Pc(w) = "claimed" /\ Unmoved(w)
    /\ \/ /\ Fresh(w)
          /\ armed' = armed \cup {<<Plan(w), Key(w)>>}
          /\ worker' = [worker EXCEPT ![w].pc = "armed", ![w].pre = process]
       \/ ~Fresh(w) /\ Exit(w) /\ UNCHANGED armed
    /\ UNCHANGED <<staged, approval, replay, journal, denied, recovered, applied,
                   unit, history, observation, provisioner, serving, budget>>

\* systemctl restart: the process is replaced, or lost, or left; the call
\* succeeds only when it is replaced, and may fail even then (time-out).
Restart(w, next) ==
    /\ restarts' = [restarts EXCEPT ![w] = @ + 1]
    /\ \E new \in {newest + 1, 0, process}, ok \in BOOLEAN :
          /\ ok => new = newest + 1
          /\ process' = new
          /\ newest' = IF new = newest + 1 THEN new ELSE newest
          /\ changed' = IF new = newest + 1 THEN changed \cup {w} ELSE changed
          /\ worker' = [worker EXCEPT ![w].ok = @ /\ ok,
                           ![w].pc = IF ok THEN next ELSE
                                     IF next = "restarted" THEN "rollback" ELSE "ended"]
    /\ UNCHANGED <<files, observation, provisioner, serving, budget>>

Effect(w) == Pc(w) = "armed" /\ Restart(w, "restarted")

\* The snapshot must show a new identity and the canary must pass.
Verify(w) ==
    /\ Pc(w) = "restarted"
    /\ \E canary \in BOOLEAN :
          worker' = [worker EXCEPT ![w].pc = "rollback", ![w].post = process,
                        ![w].ok = canary /\ process \notin {0, worker[w].pre}]
    /\ UNCHANGED <<files, unit, history, observation, provisioner, serving, budget>>

\* The second restart, whatever became of the first.
Rollback(w) == Pc(w) = "rollback" /\ Restart(w, "rolledback")

VerifyRollback(w) ==
    /\ Pc(w) = "rolledback"
    /\ \E canary \in BOOLEAN :
          worker' = [worker EXCEPT ![w].pc = "ended",
                        ![w].ok = @ /\ canary
                                  /\ process \notin {0, worker[w].pre, worker[w].post}]
    /\ UNCHANGED <<files, unit, history, observation, provisioner, serving, budget>>

\* Mutated form: EffectRecoveryError is handled like any EffectError.
RecoverAndDeny(w) ==
    /\ Pc(w) = "ended" /\ ~worker[w].ok
    /\ recovered' = recovered \cup {w} /\ Deny(w)
    /\ UNCHANGED <<staged, approval, replay, armed, journal, applied,
                   unit, history, observation, provisioner, serving, budget>>

\* EffectRecoveryError: the recovery receipt, and no denial.
Recover(w) ==
    /\ Pc(w) = "ended" /\ ~worker[w].ok
    /\ recovered' = recovered \cup {w} /\ Exit(w)
    /\ UNCHANGED <<staged, approval, replay, armed, journal, denied, applied,
                   unit, history, observation, provisioner, serving, budget>>

\* Success: the receipt, then the idempotency file.
WriteReceipt(w) ==
    /\ Pc(w) = "ended" /\ worker[w].ok
    /\ applied' = applied \cup {w} /\ Goes(w, "receipted")
    /\ UNCHANGED <<staged, approval, replay, armed, journal, denied, recovered,
                   unit, history, observation, provisioner, serving, budget>>

WriteReplay(w) ==
    /\ Pc(w) = "receipted"
    /\ replay' = [replay EXCEPT ![Key(w)] = worker[w].approval]
    /\ Exit(w)
    /\ UNCHANGED <<staged, approval, armed, journal, denied, recovered, applied,
                   unit, history, observation, provisioner, serving, budget>>

---------------------------------------------------------------------------
(* Deaths.  The worker's default SIGTERM runs no finally block; the kernel  *)
(* drops its lock; the file it was writing may be there, incomplete.       *)

TornBy(w) ==
    /\ journal' \in {journal} \cup
          IF Pc(w) = "locked" /\ Authorized(w) /\ Current(w) /\ SlotFree
          THEN {[journal EXCEPT !.torn = TRUE]} ELSE {}
    /\ armed' \in {armed} \cup
          IF Pc(w) = "claimed" /\ Unmoved(w)
          THEN {armed \cup {<<Plan(w), Key(w)>>}} ELSE {}
    /\ replay' \in {replay} \cup
          IF Pc(w) = "receipted" THEN {[replay EXCEPT ![Key(w)] = Torn]} ELSE {}
    /\ UNCHANGED <<staged, approval, denied, recovered, applied>>

\* _run_worker gives a worker 120 s from its spawn, for its wait and its work.
TimeOut(w) ==
    /\ w \notin Shells /\ Pc(w) \in Running
    /\ TornBy(w) /\ Exit(w)
    /\ UNCHANGED <<unit, history, observation, provisioner, serving, budget>>

\* A shell worker is killed.
KillShell(w) ==
    /\ w \in Shells /\ Pc(w) \in Running /\ budget.kills > 0
    /\ budget' = [budget EXCEPT !.kills = @ - 1]
    /\ TornBy(w) /\ Exit(w)
    /\ UNCHANGED <<unit, history, observation, provisioner, serving>>

\* Stopping the unit ends every process of its control group.
Stopped == [w \in Workers |->
    IF w \notin Shells /\ Pc(w) # "idle" THEN Gone(worker[w]) ELSE worker[w]]

StopUnit ==
    /\ serving /\ budget.kills > 0
    /\ budget' = [budget EXCEPT !.kills = @ - 1]
    /\ serving' = FALSE /\ worker' = Stopped
    /\ \/ \E w \in Workers \ Shells : Pc(w) \in Executing /\ TornBy(w)
       \/ (\A w \in Workers \ Shells : Pc(w) \notin Executing) /\ UNCHANGED files
    /\ UNCHANGED <<unit, history, observation, provisioner>>

StartUnit ==
    /\ ~serving /\ provisioner \notin {"stopped", "swapped"}
    /\ serving' = TRUE
    /\ UNCHANGED <<files, unit, history, observation, worker, provisioner, budget>>

---------------------------------------------------------------------------
(* The provisioner in repair mode: drain lock, execution lock, stop the    *)
(* server, swap the runtime under the stopped read service, start both.    *)

Steps(from, to) ==
    /\ provisioner = from /\ provisioner' = to
    /\ UNCHANGED <<files, history, observation>>

Drain ==
    /\ DrainLockFree /\ budget.provisions > 0
    /\ Steps("idle", "drained")
    /\ budget' = [budget EXCEPT !.provisions = @ - 1]
    /\ UNCHANGED <<unit, worker, serving>>

Hold ==
    /\ ExecutionLockFree
    /\ Steps("drained", "holding")
    /\ UNCHANGED <<unit, worker, serving, budget>>

StopConsumers ==
    /\ Steps("holding", "stopped")
    /\ serving' = FALSE /\ worker' = Stopped
    /\ UNCHANGED <<unit, budget>>

Swap ==
    /\ Steps("stopped", "swapped")
    /\ process' = newest + 1 /\ newest' = newest + 1
    /\ UNCHANGED <<worker, serving, budget>>

RestoreConsumers ==
    /\ Steps("swapped", "restored")
    /\ serving' = TRUE
    /\ UNCHANGED <<unit, worker, budget>>

\* Mutated form: the finished provisioner keeps its locks.
ReleaseOnlyEarly ==
    /\ \E from \in {"drained", "holding", "stopped", "swapped"} : Steps(from, "idle")
    /\ UNCHANGED <<unit, worker, serving, budget>>

\* The normal release, and the one of a flock time-out or of a dead provisioner.
Release ==
    /\ \E from \in {"drained", "holding", "stopped", "swapped", "restored"} :
          Steps(from, "idle")
    /\ UNCHANGED <<unit, worker, serving, budget>>

---------------------------------------------------------------------------
Execute(w) ==
    \/ Acquire(w) \/ Replay(w) \/ Refuse(w) \/ Unreadable(w) \/ Claim(w) \/ Drift(w)
    \/ Arm(w) \/ Effect(w) \/ Verify(w) \/ Rollback(w) \/ VerifyRollback(w)
    \/ Recover(w) \/ WriteReceipt(w) \/ WriteReplay(w)

Provision == Drain \/ Hold \/ StopConsumers \/ Swap \/ RestoreConsumers \/ Release

Next ==
    \/ \E p \in Plans : StagePlan(p)
    \/ \E a \in Approvals : Approve(a)
    \/ Observe \/ Foreign \/ MinutePasses
    \/ \E w \in Workers : Request(w) \/ Admit(w) \/ Execute(w) \/ Close(w)
                          \/ TimeOut(w) \/ KillShell(w)
    \/ StopUnit \/ StartUnit \/ Provision

Spec == Init /\ [][Next]_vars

\* What runs keeps running: the server, each worker, the provisioner once begun.
Fairness ==
    /\ \A w \in Workers : WF_vars(Admit(w)) /\ WF_vars(Execute(w)) /\ WF_vars(Close(w))
    /\ WF_vars(Hold \/ StopConsumers \/ Swap \/ RestoreConsumers \/ Release)
FairSpec == Spec /\ Fairness

---------------------------------------------------------------------------
Pcs == {"idle", "asking", "queued", "exited", "closed"} \cup Executing
Provisioners == {"idle"} \cup Draining

Records == [pc : Pcs, approval : Approvals, plan : Plans, key : Keys, subject : Nat,
            pre : Nat, post : Nat, ok : BOOLEAN]
Observations == [digest : Nat, process : Nat, readable : BOOLEAN]
Journals == [count : Nat, recent : BOOLEAN, torn : BOOLEAN]
Budgets == [kills : Nat, foreign : Nat, provisions : Nat]

TypeOK ==
    /\ staged \in [Plans -> Nat]
    /\ approval \in [Approvals -> {"none", "live", "expired"}]
    /\ observation \in Observations
    /\ process \in Nat /\ newest \in Nat
    /\ replay \in [Keys -> {NoReplay, Torn} \cup Approvals]
    /\ armed \subseteq Plans \X Keys
    /\ journal \in Journals
    /\ denied \cup recovered \cup applied \cup changed \subseteq Workers
    /\ worker \in [Workers -> Records]
    /\ provisioner \in Provisioners /\ serving \in BOOLEAN
    /\ budget \in Budgets
    /\ restarts \in [Workers -> Nat]

\* Never two workers between their pre-effect file and the end of the second
\* restart, and never one while the provisioner swaps the runtime: the flock of
\* execute and the one the provisioner takes after draining.
EffectExclusion ==
    \A w \in Workers : Pc(w) \in InEffect =>
        /\ provisioner \notin Holding
        /\ \A v \in Workers \ {w} : Pc(v) \notin InEffect

\* Of all the requests made under one staged plan, whatever their approvals and
\* keys, their crashes and retries, at most one ever replaces the process: the
\* observation the plan names describes a process that is then gone for good.
PlanEffectOnce ==
    \A w, v \in changed : Plan(w) = Plan(v) => w = v

\* A denial receipt states effect_attempted = false: its worker restarted
\* nothing, and it is never the receipt of a request that failed in the middle.
DenialClaimsNoEffect == \A w \in denied : restarts[w] = 0

\* Once the idempotency file of a key binds a request, it is never rebound and
\* no worker restarts anything for that key again, under any plan or approval.
ReplaySettles ==
    [][\A k \in Keys : replay[k] \in Approvals =>
          /\ replay'[k] = replay[k]
          /\ \A w \in Workers : Key(w) = k => restarts'[w] = restarts[w]]_vars

\* The provisioner stops the server only when no request's worker runs: the
\* drain lock is held until the server has seen its worker exit.
StopSparesRequests ==
    [][provisioner = "holding" /\ provisioner' = "stopped" =>
          \A w \in Workers \ Shells : Pc(w) \notin Running]_vars

\* Every request that arrives is eventually answered, and every shell worker ends.
RequestsEnd == \A w \in Workers : Pc(w) \in {"asking", "queued"} ~> Pc(w) = "closed"

=============================================================================
