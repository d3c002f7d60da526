----------------------------- MODULE AgentOsBridge -----------------------------
(***************************************************************************)
(* The Agent OS runtime bridge (aoa_agent_os_runtime.py) over the governed *)
(* runner.  A session s is bound to the one governed run of the same name  *)
(* (governed_run_id is journaled by the start command), so Runs is also    *)
(* the set of sessions.                                                    *)
(*                                                                         *)
(* invoke() holds the session's file lock from its first read to its last  *)
(* save: one operation at a time per session, sessions interleave.  The    *)
(* variables below are the durable session record; each action that        *)
(* changes them ends in the _save_state of the code, and an operation that *)
(* raises or dies before its save leaves them alone.  bop, bcmd and bms    *)
(* are the operation in flight and die with the process.                   *)
(*                                                                         *)
(* Abstracted: revisions, event cursors, digests and clocks.  A command    *)
(* whose expected_revision or cursor no longer fits is "stale", and a      *)
(* command may be stale whenever it is delivered.                          *)
(***************************************************************************)
EXTENDS GovernedRun, FiniteSets

CONSTANTS
    Commands,   \* runtime commands clients may deliver, any number of times
    NoCommand,
    KindOf,     \* command -> start, pause, resume, recover, cancel
    KeyOf,      \* command -> idempotency key
    LaneOf,     \* session -> execution lane
    SdkRefusesTerminalExit, \* aoa_sdk refuses an event that leaves a terminal state
    MaxSessions \* bound: sessions opened in a behaviour

Kinds == {"start", "pause", "resume", "recover", "cancel"}
Lanes == {"governed_repository_change", "a2a_return_review",
          "runtime_degradation_recovery"}

ASSUME CommandsAssumption ==
    /\ NoCommand \notin Commands
    /\ KindOf \in [Commands -> Kinds]
    /\ LaneOf \in [Runs -> Lanes]
    /\ SdkRefusesTerminalExit \in BOOLEAN
    /\ MaxSessions \in Nat

VARIABLES
    bstate,    \* status.state
    start,     \* governed_start_command (and with it governed_run_id)
    receipts,  \* commands with an applied receipt
    refused,   \* commands with a remembered rejection
    request,   \* the milestone of the last approval request
    decision,  \* approval_decisions, by milestone
    effect,    \* approval_effects: phase, by milestone
    outcome,   \* outcome.execution_status
    drift,     \* the pinned source and ABI bytes have changed (all sessions)
    bop,       \* the operation in flight, and its next step
    bcmd,      \* its command
    bms,       \* the milestone of its approval effect
    reviewed   \* history: the diff that was there when landing was approved

journal == <<bstate, start, receipts, refused, request, decision, effect, outcome>>
inFlight == <<bop, bcmd, bms>>
bridgeVars == <<bstate, start, receipts, refused, request, decision, effect,
                outcome, drift, bop, bcmd, bms, reviewed>>
vars == <<runVars, bridgeVars>>

Open     == {"prepared", "awaiting_approval", "running", "paused"}
Settled  == {"completed", "failed", "cancelled"}
BridgeStates == Open \cup Settled \cup {"absent", "closed"}
Verdicts == {"approved", "rejected", "expired"}
EffectPhases == {"none", "decision_recorded", "governed_approval_written",
                 "backend_pending", "completed"}
Outcomes == {"none", "succeeded", "failed", "cancelled"}
Operations == {"idle", "prepare", "effect", "mark", "backend", "preview", "resume"}

BridgeTypeOK ==
    /\ bstate   \in [Runs -> BridgeStates]
    /\ start    \in [Runs -> Commands \cup {NoCommand}]
    /\ receipts \in [Runs -> SUBSET Commands]
    /\ refused  \in [Runs -> SUBSET Commands]
    /\ request  \in [Runs -> Milestones \cup {"none"}]
    /\ decision \in [Runs -> [Milestones -> Verdicts \cup {"none"}]]
    /\ effect   \in [Runs -> [Milestones -> EffectPhases]]
    /\ outcome  \in [Runs -> Outcomes]
    /\ drift    \in BOOLEAN
    /\ bop      \in [Runs -> Operations]
    /\ bcmd     \in [Runs -> Commands \cup {NoCommand}]
    /\ bms      \in [Runs -> Milestones \cup {"none"}]
    /\ reviewed \in [Runs -> Nat]

TypeOK == RunTypeOK /\ BridgeTypeOK

Init ==
    /\ RunInit
    /\ bstate   = [s \in Runs |-> "absent"]
    /\ start    = [s \in Runs |-> NoCommand]
    /\ receipts = [s \in Runs |-> {}]
    /\ refused  = [s \in Runs |-> {}]
    /\ request  = [s \in Runs |-> "none"]
    /\ decision = [s \in Runs |-> [m \in Milestones |-> "none"]]
    /\ effect   = [s \in Runs |-> [m \in Milestones |-> "none"]]
    /\ outcome  = [s \in Runs |-> "none"]
    /\ drift    = FALSE
    /\ bop      = [s \in Runs |-> "idle"]
    /\ bcmd     = [s \in Runs |-> NoCommand]
    /\ bms      = [s \in Runs |-> "none"]
    /\ reviewed = [s \in Runs |-> 0]

-----------------------------------------------------------------------------
(* The parts that the operations share *)

\* _transition: a new state, unless the SDK's event model refuses it.
Admits(s) == SdkRefusesTerminalExit => bstate[s] \notin Settled \cup {"closed"}
Transition(s, after) == Admits(s) /\ bstate' = [bstate EXCEPT ![s] = after]

\* _record_outcome: the first outcome stays.
RecordOutcome(s, status) ==
    outcome' = [outcome EXCEPT ![s] = IF @ = "none" THEN status ELSE @]

\* Mutated form: the execution status is taken for the state.
SettledAsStatus(status) == status

SettledAs(status) ==
    CASE status = "succeeded" -> "completed"
      [] status = "failed"    -> "failed"
      [] OTHER                -> "cancelled"

Settle(s, status) == Transition(s, SettledAs(status)) /\ RecordOutcome(s, status)

\* _build_approval_request and _store_approval_request: the new request is the
\* current one.
Ask(s, m) == request' = [request EXCEPT ![s] = m]

Acknowledge(s, c) == receipts' = [receipts EXCEPT ![s] = @ \cup {c}]

SetPhase(s, m, p) == effect' = [effect EXCEPT ![s][m] = p]

\* The operation is over: its process exits and the lock is free.
Finish(s) ==
    /\ bop'   = [bop EXCEPT ![s] = "idle"]
    /\ bcmd'  = [bcmd EXCEPT ![s] = NoCommand]
    /\ bms'   = [bms EXCEPT ![s] = "none"]

GoOn(s, op) == bop' = [bop EXCEPT ![s] = op] /\ UNCHANGED <<bcmd, bms>>

Idle(s) == bop[s] = "idle"

\* _refresh_and_assert_snapshot: the pinned bytes are still those of the plan.
SnapshotHolds == ~drift

\* _find_command: an applied or refused command with the same key answers a
\* redelivery, or a different payload, without any change of state.
Known(s, c) == \E d \in receipts[s] \cup refused[s] : KeyOf[d] = KeyOf[c]

PendingEffect(s) == \E m \in Milestones : effect[s][m] \notin {"none", "completed"}

\* _command_rejection, as far as the session's state decides it.
Admissible(s, c) ==
    CASE KindOf[c] = "start"  -> bstate[s] = "prepared"
      [] KindOf[c] = "pause"  -> bstate[s] = "running"
      [] KindOf[c] = "resume" -> bstate[s] = "paused" /\ ~PendingEffect(s)
      [] KindOf[c] = "cancel" -> bstate[s] \in Open
      [] OTHER -> FALSE

\* Delivered while no operation is in flight, new, and admitted.
Delivered(s, c, kind) ==
    /\ Idle(s) /\ bstate[s] # "absent"
    /\ KindOf[c] = kind /\ ~Known(s, c) /\ Admissible(s, c)

\* external: assert_approvals_satisfied of aoa_sdk.
ApprovalsSatisfied(s) == \A m \in Milestones : decision[s][m] = "approved"

-----------------------------------------------------------------------------
(* observe_snapshot and dispatch *)

Observe(s) ==
    /\ Idle(s) /\ bstate[s] = "absent"
    /\ Cardinality({q \in Runs : bstate[q] # "absent"}) < MaxSessions
    /\ bstate' = [bstate EXCEPT ![s] = "prepared"]
    /\ UNCHANGED <<runVars, start, receipts, refused, request, decision, effect,
                   outcome, drift, inFlight, reviewed>>

\* Stale, out of state, or a start that another start command has journaled:
\* the refusal is remembered under the command's key.
Refuse(s, c) ==
    /\ Idle(s) /\ bstate[s] # "absent" /\ ~Known(s, c)
    /\ refused' = [refused EXCEPT ![s] = @ \cup {c}]
    /\ UNCHANGED <<runVars, bstate, start, receipts, request, decision, effect,
                   outcome, drift, inFlight, reviewed>>

\* Mutated form: a later start command replaces the journaled one.
StartGovernedAnew(s, c) ==
    /\ Delivered(s, c, "start") /\ SnapshotHolds
    /\ LaneOf[s] = "governed_repository_change"
    /\ start' = [start EXCEPT ![s] = c]
    /\ bop'   = [bop EXCEPT ![s] = "prepare"]
    /\ bcmd'  = [bcmd EXCEPT ![s] = c]
    /\ UNCHANGED <<runVars, bstate, receipts, refused, request, decision, effect,
                   outcome, drift, bms, reviewed>>

\* _start, governed lane: the command and the run identity are journaled
\* before the backend is called; only the journaled command may come again.
StartGoverned(s, c) ==
    /\ Delivered(s, c, "start") /\ SnapshotHolds
    /\ LaneOf[s] = "governed_repository_change"
    /\ start[s] \in {NoCommand, c}
    /\ start' = [start EXCEPT ![s] = c]
    /\ bop'   = [bop EXCEPT ![s] = "prepare"]
    /\ bcmd'  = [bcmd EXCEPT ![s] = c]
    /\ UNCHANGED <<runVars, bstate, receipts, refused, request, decision, effect,
                   outcome, drift, bms, reviewed>>

\* The backend call inside an operation, which then waits for its result.
BackendCall(s) ==
    /\ \/ bop[s] = "prepare" /\ CallPrepare(s)
       \/ bop[s] \in {"preview", "resume"} /\ CallResume(s)
    /\ UNCHANGED bridgeVars

StartReturns(s) ==
    /\ bop[s] = "prepare" /\ TakeResult(s)
    /\ IF ret[s] = Sum("paused", "plan_freeze")
          THEN /\ Transition(s, "awaiting_approval")
               /\ Ask(s, "plan_freeze")
               /\ UNCHANGED outcome
          ELSE Settle(s, "failed") /\ UNCHANGED request
    /\ Acknowledge(s, bcmd[s]) /\ Finish(s)
    /\ UNCHANGED <<checkout, rundir, base, stateFile, approval, summary, diff, faults,
                   history, start, refused, decision, effect, drift, reviewed>>

\* The read-only lanes run inside the one invocation.
StartA2A(s, c) ==
    /\ Delivered(s, c, "start") /\ SnapshotHolds /\ LaneOf[s] = "a2a_return_review"
    /\ \E complete \in BOOLEAN : Settle(s, IF complete THEN "succeeded" ELSE "failed")
    /\ Acknowledge(s, c)
    /\ UNCHANGED <<runVars, start, refused, request, decision, effect, drift,
                   inFlight, reviewed>>

StartDegradation(s, c) ==
    /\ Delivered(s, c, "start") /\ SnapshotHolds
    /\ LaneOf[s] = "runtime_degradation_recovery"
    /\ Transition(s, "paused") /\ Acknowledge(s, c)
    /\ UNCHANGED <<runVars, start, refused, request, decision, effect, outcome,
                   drift, inFlight, reviewed>>

Pause(s, c) ==
    /\ Delivered(s, c, "pause")
    /\ Transition(s, "paused") /\ Acknowledge(s, c)
    /\ UNCHANGED <<runVars, start, refused, request, decision, effect, outcome,
                   drift, inFlight, reviewed>>

\* Mutated form: the outcome of a cancelled session is not recorded.
CancelSilently(s, c) ==
    /\ Delivered(s, c, "cancel")
    /\ Transition(s, "cancelled") /\ Acknowledge(s, c)
    /\ UNCHANGED <<runVars, start, refused, request, decision, effect, outcome, drift,
                   inFlight, reviewed>>

Cancel(s, c) ==
    /\ Delivered(s, c, "cancel")
    /\ Settle(s, "cancelled") /\ Acknowledge(s, c)
    /\ UNCHANGED <<runVars, start, refused, request, decision, effect, drift,
                   inFlight, reviewed>>

\* _resume, governed lane.  `running` is not saved before the backend returns.
ResumeGoverned(s, c) ==
    /\ Delivered(s, c, "resume") /\ SnapshotHolds
    /\ LaneOf[s] = "governed_repository_change"
    /\ ApprovalsSatisfied(s)
    /\ bop'   = [bop EXCEPT ![s] = "resume"]
    /\ bcmd'  = [bcmd EXCEPT ![s] = c]
    /\ UNCHANGED <<runVars, journal, drift, bms, reviewed>>

\* Mutated form: whatever did not fail has succeeded.
ResumeReturnsUnlessFailed(s) ==
    /\ bop[s] = "resume" /\ TakeResult(s)
    /\ Settle(s, IF ret[s].status = "fail" THEN "failed" ELSE "succeeded")
    /\ Acknowledge(s, bcmd[s]) /\ Finish(s)
    /\ UNCHANGED <<checkout, rundir, base, stateFile, approval, summary, diff, faults,
                   history, start, refused, request, decision, effect, drift, reviewed>>

\* An exception and a pause both leave the session paused.
ResumeReturns(s) ==
    /\ bop[s] = "resume" /\ TakeResult(s)
    /\ \/ ret[s].status = "pass" /\ Settle(s, "succeeded")
       \/ ret[s].status = "fail" /\ Settle(s, "failed")
       \/ ret[s].status \notin {"pass", "fail"} /\ UNCHANGED <<bstate, outcome>>
    /\ Acknowledge(s, bcmd[s]) /\ Finish(s)
    /\ UNCHANGED <<checkout, rundir, base, stateFile, approval, summary, diff, faults,
                   history, start, refused, request, decision, effect, drift, reviewed>>

ResumeDegradation(s, c) ==
    /\ Delivered(s, c, "resume") /\ SnapshotHolds
    /\ LaneOf[s] = "runtime_degradation_recovery"
    /\ Settle(s, "succeeded") /\ Acknowledge(s, c)
    /\ UNCHANGED <<runVars, start, refused, request, decision, effect, drift,
                   inFlight, reviewed>>

-----------------------------------------------------------------------------
(* apply_approval and its journaled effect *)

\* Mutated form: a decision on a milestone that was not asked for.
DecideUnasked(s, m, v) ==
    /\ Idle(s) /\ decision[s][m] = "none"
    /\ IF m = "landing" THEN bstate[s] = "paused" /\ outcome[s] = "none"
                         ELSE bstate[s] = "awaiting_approval"
    /\ decision' = [decision EXCEPT ![s][m] = v]
    /\ SetPhase(s, m, "decision_recorded")
    /\ bop' = [bop EXCEPT ![s] = "effect"] /\ bms' = [bms EXCEPT ![s] = m]
    /\ UNCHANGED <<runVars, bstate, start, receipts, refused, request, outcome,
                   drift, bcmd, reviewed>>

\* A decision on the current, undecided request.  Decision and pending effect
\* are saved together, before anything else moves.
Decide(s, m, v) ==
    /\ Idle(s) /\ request[s] = m /\ decision[s][m] = "none"
    /\ IF m = "landing" THEN bstate[s] = "paused" /\ outcome[s] = "none"
                         ELSE bstate[s] = "awaiting_approval"
    /\ m = "plan_freeze" /\ v = "approved" => SnapshotHolds
    /\ decision' = [decision EXCEPT ![s][m] = v]
    /\ SetPhase(s, m, "decision_recorded")
    /\ bop'   = [bop EXCEPT ![s] = "effect"]
    /\ bms'   = [bms EXCEPT ![s] = m]
    /\ reviewed' = [reviewed EXCEPT ![s] = IF m = "landing" /\ v = "approved"
                                              THEN diff[s] ELSE @]
    /\ UNCHANGED <<runVars, bstate, start, receipts, refused, request, outcome,
                   drift, bcmd>>

\* Mutated form: the replay forgets the phase between file and transition.
ReplayDecisionPartly(s, m) ==
    /\ Idle(s) /\ effect[s][m] \in {"decision_recorded", "backend_pending"}
    /\ bop' = [bop EXCEPT ![s] = IF effect[s][m] = "backend_pending"
                                    THEN "backend" ELSE "effect"]
    /\ bms' = [bms EXCEPT ![s] = m]
    /\ UNCHANGED <<runVars, journal, drift, bcmd, reviewed>>

\* The same decision again: only an effect that is not completed goes on.
ReplayDecision(s, m) ==
    /\ Idle(s) /\ effect[s][m] \notin {"none", "completed"}
    /\ bop' = [bop EXCEPT ![s] = IF effect[s][m] = "backend_pending"
                                    THEN "backend" ELSE "effect"]
    /\ bms' = [bms EXCEPT ![s] = m]
    /\ UNCHANGED <<runVars, journal, drift, bcmd, reviewed>>

\* Mutated form: only a rejection is written as one.
WriteGovernedApprovalUnlessRejected(s) ==
    LET m == bms[s] IN
    /\ bop[s] = "effect" /\ effect[s][m] = "decision_recorded"
    /\ IF Readable(approval[s])
          THEN /\ approval' = [approval EXCEPT ![s] =
                      Ap(m, IF decision[s][m] = "rejected" THEN "rejected" ELSE "approved")]
               /\ GoOn(s, "mark")
          ELSE Finish(s) /\ UNCHANGED approval
    /\ UNCHANGED <<checkout, rundir, base, stateFile, summary, diff, pc, ret, faults,
                   history, journal, drift, reviewed>>

\* _write_governed_approval; a file that does not parse ends the operation.
WriteGovernedApproval(s) ==
    LET m == bms[s] IN
    /\ bop[s] = "effect" /\ effect[s][m] = "decision_recorded"
    /\ IF Readable(approval[s])
          THEN /\ approval' = [approval EXCEPT ![s] =
                      Ap(m, IF decision[s][m] = "approved" THEN "approved" ELSE "rejected")]
               /\ GoOn(s, "mark")
          ELSE Finish(s) /\ UNCHANGED approval
    /\ UNCHANGED <<checkout, rundir, base, stateFile, summary, diff, pc, ret, faults,
                   history, journal, drift, reviewed>>

MarkApprovalWritten(s) ==
    /\ bop[s] = "mark"
    /\ SetPhase(s, bms[s], "governed_approval_written") /\ GoOn(s, "effect")
    /\ UNCHANGED <<runVars, bstate, start, receipts, refused, request, decision,
                   outcome, drift, reviewed>>

Written(s, v) ==
    /\ bop[s] = "effect" /\ effect[s][bms[s]] = "governed_approval_written"
    /\ decision[s][bms[s]] = v

EffectRejects(s) ==
    /\ Written(s, "rejected")
    /\ IF bstate[s] = "cancelled" THEN UNCHANGED <<bstate, outcome>>
                                  ELSE Settle(s, "cancelled")
    /\ SetPhase(s, bms[s], "completed") /\ Finish(s)
    /\ UNCHANGED <<runVars, start, receipts, refused, request, decision, drift, reviewed>>

EffectExpires(s) ==
    /\ Written(s, "expired")
    /\ IF bstate[s] = "awaiting_approval" THEN Transition(s, "paused")
                                          ELSE UNCHANGED bstate
    /\ SetPhase(s, bms[s], "completed") /\ Finish(s)
    /\ UNCHANGED <<runVars, start, receipts, refused, request, decision, outcome,
                   drift, reviewed>>

EffectAllowsLanding(s) ==
    /\ Written(s, "approved") /\ bms[s] = "landing"
    /\ SetPhase(s, "landing", "completed") /\ Finish(s)
    /\ UNCHANGED <<runVars, bstate, start, receipts, refused, request, decision,
                   outcome, drift, reviewed>>

EffectGrantsPlan(s) ==
    /\ Written(s, "approved") /\ bms[s] = "plan_freeze"
    /\ Transition(s, "running")
    /\ SetPhase(s, "plan_freeze", "backend_pending") /\ GoOn(s, "backend")
    /\ UNCHANGED <<runVars, start, receipts, refused, request, decision, outcome,
                   drift, reviewed>>

\* The SDK refuses to leave a terminal state: the operation raises, saving nothing.
EffectRaises(s) ==
    /\ \/ Written(s, "approved") /\ bms[s] = "plan_freeze"
       \/ Written(s, "rejected") /\ bstate[s] # "cancelled"
    /\ ~Admits(s) /\ Finish(s)
    /\ UNCHANGED <<runVars, journal, drift, reviewed>>

\* Mutated form: a pending preview runs from any state.
BackendPendingAnyState(s) ==
    /\ bop[s] = "backend"
    /\ bstate' = [bstate EXCEPT ![s] = "running"] /\ GoOn(s, "preview")
    /\ UNCHANGED <<runVars, start, receipts, refused, request, decision, effect,
                   outcome, drift, reviewed>>

\* A pending preview runs from running, or from paused after an interruption;
\* in any other state the operation raises.
BackendPending(s) ==
    /\ bop[s] = "backend"
    /\ IF bstate[s] \in {"running", "paused"}
          THEN bstate' = [bstate EXCEPT ![s] = "running"] /\ GoOn(s, "preview")
          ELSE Finish(s) /\ UNCHANGED bstate
    /\ UNCHANGED <<runVars, start, receipts, refused, request, decision, effect,
                   outcome, drift, reviewed>>

PreviewReturns(s) ==
    /\ bop[s] = "preview" /\ TakeResult(s)
    /\ \/ /\ ret[s] = Sum("paused", "landing")
          /\ Transition(s, "paused") /\ UNCHANGED outcome
          /\ Ask(s, "landing")
          /\ SetPhase(s, "plan_freeze", "completed")
       \/ /\ ret[s].status = "raised"
          /\ Transition(s, "paused") /\ UNCHANGED <<outcome, request, effect>>
       \/ /\ ret[s].status # "raised" /\ ret[s] # Sum("paused", "landing")
          /\ Settle(s, "failed") /\ UNCHANGED request
          /\ SetPhase(s, "plan_freeze", "completed")
    /\ Finish(s)
    /\ UNCHANGED <<checkout, rundir, base, stateFile, approval, summary, diff, faults,
                   history, start, receipts, refused, decision, drift, reviewed>>

Closeout(s) ==
    /\ Idle(s) /\ outcome[s] # "none" /\ bstate[s] \in Settled
    /\ bstate' = [bstate EXCEPT ![s] = "closed"]
    /\ UNCHANGED <<runVars, start, receipts, refused, request, decision, effect,
                   outcome, drift, inFlight, reviewed>>

-----------------------------------------------------------------------------
(* The process of an operation may end at any step.  The runner works inside *)
(* that process: its files may be left torn, the operation is lost.          *)

BridgeDies(s) ==
    /\ bop[s] # "idle" /\ Finish(s)
    /\ \/ Terminated(s)
       \/ /\ pc[s] \in {"idle", "done"} /\ faults < MaxFaults
          /\ faults' = faults + 1
          /\ pc'  = [pc EXCEPT ![s] = "idle"]
          /\ ret' = [ret EXCEPT ![s] = Sum("absent", "none")]
          /\ \/ UNCHANGED approval
             \/ /\ TornWrites /\ bop[s] = "effect"
                /\ effect[s][bms[s]] = "decision_recorded"
                /\ approval' = [approval EXCEPT ![s] = Ap("none", "torn")]
          /\ UNCHANGED <<checkout, rundir, base, stateFile, summary, diff, history>>
    /\ UNCHANGED <<journal, drift, reviewed>>

Sources == drift' = ~drift /\ UNCHANGED <<runVars, journal, inFlight, reviewed>>

Dispatch(s) ==
    \E c \in Commands :
        \/ Refuse(s, c) \/ StartGoverned(s, c) \/ StartA2A(s, c) \/ StartDegradation(s, c)
        \/ Pause(s, c) \/ Cancel(s, c) \/ ResumeGoverned(s, c) \/ ResumeDegradation(s, c)

ApplyApproval(s) ==
    \E m \in Milestones : ReplayDecision(s, m) \/ \E v \in Verdicts : Decide(s, m, v)

EffectStep(s) ==
    \/ WriteGovernedApproval(s) \/ MarkApprovalWritten(s) \/ EffectRejects(s)
    \/ EffectExpires(s) \/ EffectAllowsLanding(s) \/ EffectGrantsPlan(s)
    \/ EffectRaises(s) \/ BackendPending(s)

Returns(s) == StartReturns(s) \/ PreviewReturns(s) \/ ResumeReturns(s)

\* What the process of an operation does next, once it holds the lock.
Proceed(s) ==
    \/ EffectStep(s) \/ BackendCall(s) \/ Returns(s)
    \/ RunnerStep(s) /\ UNCHANGED bridgeVars

Next ==
    \/ \E s \in Runs : \/ Observe(s) \/ Dispatch(s) \/ ApplyApproval(s) \/ Closeout(s)
                       \/ Proceed(s) \/ BridgeDies(s)
                       \/ Excepted(s) /\ UNCHANGED bridgeVars
    \/ Environment /\ UNCHANGED bridgeVars
    \/ Sources

Spec == Init /\ [][Next]_vars

(***************************************************************************)
(* Safety                                                                  *)
(***************************************************************************)

Governed(s) == LaneOf[s] = "governed_repository_change"

\* The runner touches the main checkout, and a session's change is in it, only
\* if both decisions stand approved in the durable journal, and the diff is the
\* one that was up when landing was approved.
LandingIsJournaled ==
    \A s \in Runs : (s \in tree \/ pc[s] \in Landing \/ applied[s] # 0) =>
        /\ \A m \in Milestones : decision[s][m] = "approved"
        /\ diff[s] = reviewed[s] /\ applied[s] \in {0, reviewed[s]}

\* The governed approval file never runs ahead of the bridge's journal: what it
\* approves, a recorded decision approved.
ApprovalFileIsJournaled ==
    \A s \in Runs : approval[s].status = "approved" =>
        /\ approval[s].milestone \in Milestones
        /\ decision[s][approval[s].milestone] = "approved"

\* One start command ever drives a session's governed run: once journaled it is
\* never replaced, and no other one is executed or acknowledged, whatever start
\* commands arrive and wherever the first was interrupted.
OneStartPerRun ==
    [][\A s \in Runs : start[s] # NoCommand =>
          /\ start'[s] = start[s]
          /\ bop'[s] = "prepare" => bcmd'[s] = start[s]
          /\ \A c \in receipts'[s] : Governed(s) /\ KindOf[c] = "start" => c = start[s]]_vars

\* State and outcome agree: settled states have their outcome, open ones none.
OutcomeAgrees ==
    \A s \in Runs :
        /\ bstate[s] \in Open => outcome[s] = "none"
        /\ bstate[s] \in Settled =>
              outcome[s] # "none" /\ bstate[s] = SettledAs(outcome[s])
        /\ bstate[s] = "closed" => outcome[s] # "none"

\* A governed session that succeeded stands on a completed run whose approved
\* diff went through main-checkout acceptance.
SuccessWasValidated ==
    \A s \in Runs : Governed(s) /\ outcome[s] = "succeeded" =>
        phase[s] = "completed" /\ validated[s] # 0 /\ validated[s] = reviewed[s]

\* Once a session has an outcome, the outcome stays, no preview or landing step
\* runs for it and nothing of it reaches the checkout.
NothingRunsAfterOutcome ==
    [][\A s \in Runs : outcome[s] # "none" =>
          /\ outcome'[s] = outcome[s]
          /\ diff'[s] = diff[s]
          /\ (s \in tree' => s \in tree)]_vars

GovernedSessions == {s \in Runs : Governed(s)}

\* The governed sessions keep the promise of a reviewed change.
Change == INSTANCE ReviewedChange WITH
    Changes <- GovernedSessions,
    plan    <- [s \in GovernedSessions |-> decision[s]["plan_freeze"]],
    landing <- [s \in GovernedSessions |-> decision[s]["landing"]],
    inTree  <- GovernedSessions \cap tree,
    landed  <- {s \in GovernedSessions : applied[s] # 0},
    settled <- [s \in GovernedSessions |-> outcome[s]]

KeepsThePromise == Change!Spec

\* The contract's lifecycle of resume (governed landing, validation and rollback,
\* then completed or failed): a resume that the backend answers, on a run that
\* is over, settles the session.
ResumeSettlesFinishedRun ==
    [][\A s \in Runs :
          bop[s] = "resume" /\ ResumeReturns(s) /\ phase[s] \in Terminal
          /\ ret[s].status # "raised" => bstate'[s] \in {"completed", "failed"}]_vars

(***************************************************************************)
(* Liveness: the process of an operation goes on, and whoever decided keeps *)
(* sending the decision while its effect is unfinished.  A read-only lane  *)
(* runs inside one step and has no approvals.                              *)
(***************************************************************************)
Fairness ==
    \A s \in GovernedSessions :
        /\ WF_vars(Proceed(s))
        /\ SF_vars(\E m \in Milestones : ReplayDecision(s, m))

LiveSpec == Spec /\ Fairness

\* A recorded decision takes its full effect, through every interruption, unless
\* the session is over or an interruption tore a file of its run.
EffectsComplete ==
    \A s \in GovernedSessions : \A m \in Milestones :
        effect[s][m] = "decision_recorded" ~>
            \/ effect[s][m] = "completed" \/ outcome[s] # "none"
            \/ "torn" \in {phase[s], approval[s].status, summary[s].status}

=============================================================================
