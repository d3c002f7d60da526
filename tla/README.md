# Governed change in abyss-stack: a TLA+ development

This directory models the programs of abyss-stack that change something on
somebody's behalf and may be interrupted while they do it: the **governed
runner** and the **Agent OS bridge** that drives it, which land a reviewed diff
in a repository; the **effect executor** and the **tasks extension** of
`abyss-stack-mcp`; the **runtime provisioner** and the **admission
controller** that exchange the runtime of the read plane; and the **routing
cutover**, which exchanges the live routing mirror. All of them are sequences of
durable steps in programs that may end between any two, and share files, locks
or units with others. TLC checks small instances of all of them;
TLAPS proves most of their safety properties for every value of the constants (section 4).

Paths are relative to the repository; `governed-execution` stands for
`mechanics/governed-execution/parts`.

## 1. The system and its parts

abyss-stack is a large collection of mechanics (Python and shell programs with
their documents), service templates and MCP services. The parts, the state each
one keeps, and what makes it correct:

| Part | State it keeps | Operations | What makes it correct |
|---|---|---|---|
| governed runner (`governed-execution/governed-runner/aoa_governed_execution.py`, CLI `aoa_governed_run.py`) | a directory per run: state, approval, summary, landing diff, reports; and the main checkout | `prepare_run`, `resume_run` (preview in a worktree, landing, rollback), `audit`, `replay-review-packets`, `handoff-brief`, `status` | only the reviewed diff lands; a completed run was validated; a failed one was rolled back; state and summary agree; a run ends |
| Agent OS bridge (`governed-execution/agent-os-adapter/aoa_agent_os_runtime.py`) | one durable session record, lane artifacts, a lock per session | `observe_snapshot`, `dispatch` (start, pause, resume, recover, cancel), `apply_approval`, `renew_approvals`, `closeout`, reads | commands take effect once; a decision is journaled before it acts and acts to the end; state and outcome agree; nothing runs after the outcome |
| effect executor (`mcp/services/abyss-stack-mcp/.../effect.py`, `effect_server.py`) | plans, approvals, attempts, pre-effects, receipts, idempotency records; an execution lock and a request-drain lock | `stage_plan`, `create_approval`, `execute`, the served request | one effect at a time, at most one per plan, settled once per key; a denial changed nothing; every request is answered |
| tasks extension (`.../tasks_extension.py`) | task records with revisions, payload files, worker coroutines | call interception, cancel, worker completion, expiry | a finished task stays as it was seen; a worked task ends |
| runtime provisioning (`mechanics/runtime-lifecycle/parts/user-unit/aoa_install_systemd.sh`) | the virtual environment, its backups, the rollback grant, the fallback marker, three locks, the units | provision by hand, repair, EXIT trap | no runtime is lost, nothing runs from what is moved, a failed repair brings the readers back |
| admission refresh (`scripts/aoa-refresh-modern-mcp-admission`) | the same units, marker and locks | verify, ask for a repair, prove recovery units, hand off to production, EXIT trap | the fleet comes back to production whatever was killed |
| routing cutover (`mechanics/federation-seams/parts/sync-wrapper/aoa_routing_cutover.py`) | the live mirror, two rollback roots, stages, notes and manifests in them | `materialize`, `refresh-materialized`, `rollback`, `rollback-sdk` | the mirror comes back; a predecessor that serves says so; a bound rollback tree exists |
| orchestration, canary, preflight, policy, audit of `abyss-stack-mcp` | plans, canary receipts, an audit journal | build and check plans, run canaries | records match what was observed |
| external codex agent, supervisor and return | admission, process and return records | launch, supervise, return | one live incarnation, every return accounted for |
| service templates, other MCP services | caches, mostly none | HTTP and MCP requests | answers follow the backing store |
| config projection, repair, diagnostics, pilots, deployment files | the host | render, start, diagnose | outside of what a state machine would tell |

The first seven are modelled. `PROJECT.json` lists every part with its status
and, under `hazards`, the places where the code is hard to test.

### How the parts interact

*Runner and bridge.* A client calls `invoke()` of the bridge, one short process
per call. The call takes the session's file lock, loads the session record,
works, saves the record by an atomic rename and returns. For the governed lane
the work includes calling the runner *in the same process*: `start` calls
`prepare_run`, the approval of the plan calls `resume_run` (the preview), and
`resume` calls `resume_run` again (the landing). Bridge and runner share the
run's approval file, which the bridge writes and the runner reads and advances,
and the returned summary. An operator may drive the runner without the bridge:
`run`, an edit of the approval file by hand, `resume`, and next to them
`audit` and its relatives, which read the run's summary and save it again.

*Executor and provisioner.* A request to the effect server takes the drain lock
shared, spawns a worker and waits for it; the worker takes the execution lock,
restarts the read service twice and writes its receipts. A worker may also be
started at a shell, without the drain lock. The provisioner takes both locks
exclusively, stops the server and swaps the runtime under it.

*Provisioner, controller and units.* Readers and consumers run from one virtual
environment and hold the source, operation and runtime locks shared while they
do. A timer starts the admission controller; it verifies the runtime, asks the
repair service for a new one, and moves the readers from fallback or bootstrap
units to production units. A fallback unit starts only while the fallback
marker is there. Both scripts clean up in an EXIT trap, which SIGKILL skips.

*Tasks.* The read unit and its fallback serve one task root; a request may be
worked on by one process and cancelled by the other.

*Routing cutover.* Four commands of one program, run by hand, move the same
few directories. What an earlier, cut command left decides what the next one
accepts.

What is hard here:

- *crashes*: one operation performs up to ten durable steps. The runner's files
  are rewritten in place, so an interrupted write can leave a file that does not
  parse; a command of the cutover may lose power with renames not yet synced;
- *order*: state before summary, decision before approval file before preview,
  receipt before idempotency record, note before swap before fsync;
- *repetition*: commands and decisions are redelivered, a retry meets what its
  predecessor left;
- *sharing*: several runs on one checkout and an audit beside a run, without a
  lock; two task servers with revisions; three locks between units and two
  controllers;
- *time-outs*: the effect worker's 120 seconds include the wait for another's
  execution lock and the work itself, so that they may end at any of its steps;
- *two truths*: the bridge knows the run only through summaries, the controller
  the runtime only through what it verified.

## 2. Modules

| Module | Content |
|---|---|
| `GovernedRun` | the runner: one action per durable write of `prepare_run` and `resume_run`, interruptions, the checkout's operator. No specification of its own |
| `OperatorRun` | the runner driven from the command line, with audits beside it; properties; fairness |
| `AgentOsBridge` | the bridge over the runner; properties; fairness |
| `ReviewedChange` | the abstract promise: a change reaches the checkout only after both approvals, is settled once, and succeeds only if it landed |
| `InternalEffect` | the effect executor, its server and the provisioner's use of their locks |
| `StackTasks` | task records, workers, cancellation, expiry and restarts of two servers |
| `ReadUnits` | units, locks, verification, the outside world of the read plane |
| `RuntimeProvision` | the provisioner over `ReadUnits` |
| `AdmissionRefresh` | the admission controller over `RuntimeProvision`; properties; fairness |
| `RoutingCutover` | the four commands of the routing cutover, with power losses |
| `MCAgentOsBridge`, `MCInternalEffect`, `MCAdmissionRefresh` | model values, command and approval tables, symmetry |
| `GovernedRun_proofs` | lemmas: typing of every step, the run's inductive order, what a run cannot do to another |
| `OperatorRun_proofs`, `AgentOsBridge_proofs` | inductive invariants and the theorems about safety |
| `AgentOsRefinement_proofs` | bridge and runner implement `ReviewedChange` |
| `StackTasks_proofs` | writes in hand are due; a finished task is final |
| `InternalEffect_proofs` | who holds which lock, which process a plan aims at; the executor's safety theorems |
| `AdmissionRefresh_proofs` | the order of locks, runtimes, grant and marker; the read plane's safety theorems |
| `RoutingCutover_proofs` | where trees stand in each phase and what every possible remainder of a power loss promises; the cutover's safety theorems |

`AgentOsBridge` and `OperatorRun` EXTEND `GovernedRun`; `AgentOsBridge` INSTANCEs
`ReviewedChange` under a refinement mapping; `AdmissionRefresh` EXTENDS
`RuntimeProvision`, which EXTENDS `ReadUnits`. A definition headed "Mutated
form" is a wrong version of the one that follows it; the specifications do not
use it, and a property's run must fail when it takes the other's place.

### GovernedRun, OperatorRun and the code

| Variable | Code |
|---|---|
| `head`, `tree` | the main checkout: commits, and whose tracked changes are uncommitted (`ensure_repo_tracked_clean`, `git_head`) |
| `rundir`, `base` | the run directory with request, policy and preflight; `base_head` |
| `phase`, `fclass`, `repairs` | the state file: `phase`, `failure_class`, `repair_attempts` |
| `approval` | `approval.status.json`: `current_milestone` and `status`; `invalid` is a file that `validate_approval_against_state` refuses |
| `summary` | `result.summary.json`: `status` and `current_milestone` |
| `diff` | `landing.diff`, numbered by the build that wrote it |
| `pc`, `ret` | the process at work and what it hands to its caller |
| `kept` | `OperatorRun`: the summary an audit has read and will save again |
| `applied`, `validated`, `reviewed` | history variables, read by properties only |

An action reads and checks what the code reads and checks before its next
durable write, and makes that write. `TearFile` and `LeaveFiles` describe an
interruption *during* that write. Reads that no other process can influence are
folded into the write that follows. The in-memory state of a process equals the
file it last saved, so it needs no variable of its own.

`audit`, `replay-review-packets` and `handoff-brief` load the summary (or
synthesize one while there is none), work on review packets, and save it again
whatever it is by then: `AuditReads` and `AuditSaves` with any steps of the
runner in between. A process of `resume` that returns reads its summary back
from the file, where it may find the audit's; as it is only printed, `ret` keeps
the one it saved.

The worktree is private to a run and disappears with it: its failure is an
alternative of `AttemptFails`, and a worktree left behind by a crash is read by
nobody. The content of proposals, reports and review packets is abstracted; an
exception while the report is written, after the summary is on disk, is part of
`Excepted`.

An exception of the operating system leaves the runner in the model
(`Excepted`). The code turns a few of them into a failed run first (a
`PermissionError` while the preview's files are written becomes
`scope_violation`); the model has those failures at the step that causes them
by design, not at every write. A `git apply` that times out in the middle of its
work is not modelled.

### AgentOsBridge and the code

The durable variables are the fields of the session record; `bop`, `bcmd` and
`bms` are the operation in flight, which dies with its process. A session is
idle (`bop` = "idle") exactly when its lock is free. Each action ends in a
`_save_state` of the code, or is a step of the runner inside the call.
`Known`/`Admissible`/`Delivered` are the three layers of `_dispatch`:
idempotency, rejection, execution. Command expiry, revisions and event cursors
are abstracted by letting `Refuse` happen to any command that is not known.
`renew_approvals` replaces an undecided request by one for the same milestone
and is a stutter here. `drift` says that the pinned source and ABI bytes have
changed since the plan; `_refresh_and_assert_snapshot` is the conjunct `~drift`.
A replayed decision (`ReplayDecision`) has no such conjunct, as the code has
none there, although CONTRACT.md:78 lets the preview run only behind a refreshed
snapshot.

`SdkRefusesTerminalExit` stands for what aoa_sdk, which is not in this
repository, does with an event that leaves a terminal state. The runs set it to
TRUE, the theorems that need it name it, and the other theorems, the refinement
among them, hold without it.

Each session belongs to one lane (`LaneOf`). The two read-only lanes run inside
the one invocation that starts them; the governed lane is what the promise and
the fairness are about. `recover` commands are part of the model and are refused
in every state the governed lane can be in, so that the runs leave them out of
their command table.

### InternalEffect and the code

`staged`, `approval`, `replay`, `armed`, `journal`, `denied`, `recovered` and
`applied` are the files of the effect root; `worker[w]` is one run of `execute`
with what it read (`subject`, `pre`, `post`); `process` is the identity of the
read service's process, which systemd never gives twice; `observation` is the
published document with its digest. The actions are the steps of `execute`
between two durable writes or restarts: `Acquire`, `Replay`, `Claim` (attempt
receipt), `Drift`, `Arm` (pre-effect file, created exclusively), the two
restarts with their polls, the recovery or success receipt, the idempotency
file. An `EffectError` leaves a denial receipt, any other exception leaves
nothing: the two ends of a worker are told apart as in the code. `Admit` and
`Close` are the server's side with the drain lock, `Hold` to `Release` the
provisioner's. `TimeOut` may end a worker of the server at any of its steps.
A request presents the key of its approval or a foreign one. The journal may hold
attempts of earlier weeks (`MaxEarlier`), so that it is found full.
Artifact contents are abstracted to what binds them; a plan or approval file that
does not parse only denies and is left out.

### StackTasks and the code

Each server process has one event loop, so that its code runs alone between two
awaits; what the other process can come between is a store read and the write
that follows it (`busy`). The store and the protocol adapter are a library;
from their use in `tasks_extension.py` the model takes that a store call is one
step and a write with an old revision is refused. `Inspected` is the thread's
answer or exception, `Finish` the store's completion or failure, `Cancel` and
`Acknowledge` the two writes of a cancellation, `Expire` the time to live.

### ReadUnits, RuntimeProvision, AdmissionRefresh and the code

`venv`, `source` and `grant` stand for the runtime, the deployed package and the
rollback grant, reduced to which deployment a runtime was built from and whether
it is intact; verification compares them (`Exact`, `ReadVerified`,
`StrictVerified`). A reader has three units that conflict pairwise; `Started`
is `systemctl start` with conflicts and conditions, and a unit holds its locks
from launch to exit (`HeldByUnits`). A production unit starts only while the
admission on record is good: preflight, managed contour and registry are folded
into the flag that the event `lapse` clears. `Restart=on-failure` needs no action of
its own, as what a restart does is a unit that starts (`StartReader`).

`prov.pc` goes through the phases of the provisioning function; its other
fields are the script's local variables, which its EXIT trap reads. `Begin` takes the
three locks in one step, as none of them is waited for and one that cannot be had
ends the start; a repair makes two of them exclusive later (`ExcludeOperation`,
`ExcludeRuntime`). Moving the new runtime in and noting that it
is in (`runtime_swapped=1`) are two phases: a TERM between them (at `mark
swapped`) runs a trap that removes the backup and starts the readers on the new
runtime. `Fail` may happen in every phase before the trap, `Kill` in every phase
and without the trap. `rf.pc` does the same for the controller, which takes its
three locks one after the other (`LockOperation`, `LockSource`, `LockRuntime`) and
in whose trap `ReFall` starts units only if the marker file is there. Building and
measuring a runtime, canaries, registry and preflight are one step each that may
fail; the readers of the instances are the stack reader, which has the runtime
verifier, and one organ reader; the consumers one with and one without the
verifier. Outside events (`Outside`) are a Configs sync under the source lock, edits
past it, damage to the runtime, a lapse of the admission on record, units started
and stopped by hand and recurring jobs. `events.forced` remembers kills, units
started or stopped from outside and provisioning by hand; `lost` holds the runtimes that a
provisioner preserved and did not put back.

### RoutingCutover and the code

`at` maps directory names to trees, `tree` says what is in a tree (manifest
fields, marker, receipt, drift), `may` is the set of names and contents that a
power loss may leave, `op` is the command at work. A start (`Materialize`,
`Refresh`, `Rollback`, `RollbackSdk`) has the guards of the code's checks; a
command that is refused or finds its work done changes nothing and is no step.
Then come build, seal, manifest, unmark, note, the two renames and their fsyncs
(`Build` to `Finish`); `Fail` is an OSError of any step and goes through the
handlers of the except clauses (`Handler`, `Undo`, `Clean`).

`PowerLoss` picks any state in `may`. The assumptions on the file system are
that renames within one directory survive in their order, that different trees
and directories are independent, and that an fsync makes durable what it names.
One command runs at a time, since the program takes no lock and is run by hand.

`hist.strayed` records what the code does not guard against. A command *strays*
when

- it starts while the directory names that it finds are not durable, or the
  marker, receipt or manifest that it counts on is not;
- it starts a clean-up while the names are not durable;
- it is a retry between the swaps with another retain name than the attempt it
  continues;
- its retain name is the name of another root or stage: the two rollback commands
  compare it only with the mirror and their own slot (1981-1989, 2326-2334).

`PredecessorMarked`, `BoundTreeIsSealed` and `FailedRollbackRetryable` except what
follows a stray; `MirrorReturns` excepts only behaviours in which a power loss took
something back after one (`hist.lost`), and trees whose bytes drifted. The
exceptions are where the code breaks what its documents say:
`SealOutlivesReboot` and `InterruptedSwapResumes` are stated without them, and
TLC refutes both (section 3).

## 3. What is checked

| Run | Instance | Properties | States |
|---|---|---|---|
| `operator_run` | one run, torn files, one repair, one commit, two interruptions, one audit; fair process and operator | `TypeOK`, `LandedDiffWasReviewed`, `SummaryNeverAheadOfState`, `CompletedRunWasValidated`, `TerminalRunIsFinal`, `ReviewedRunEnds` | 480 thousand |
| `agent_os_bridge` | one session of any of the three lanes, two starts, two resumes, pause and cancel, a key used for two payloads, torn files, two interruptions, drift; fair process and approver | `TypeOK`, `LandingIsJournaled`, `ApprovalFileIsJournaled`, `OutcomeAgrees`, `SuccessWasValidated`, `OneStartPerRun`, `NothingRunsAfterOutcome`, `KeepsThePromise`, `EffectsComplete` | 519 thousand |
| `internal_effect` | two plans asked for under one key, or another one, by two server workers, time-outs at any step, drift of the service | `TypeOK`, `ReplaySettles` | 5.3 million |
| `effect_live` | one plan under two keys: a server worker, a shell worker, a kill or stop, the provisioner, a journal that may be full; fair | `EffectExclusion`, `PlanEffectOnce`, `DenialClaimsNoEffect`, `StopSparesRequests`, `RequestsEnd` | 1.1 million |
| `stack_tasks` | one request, two servers, two restarts; fair | `TypeOK`, `FinishedTaskIsFinal`, `WorkedTaskEnds` | 3 thousand |
| `read_plane` | two readers, two consumers, any three outside events, lapses among them, failures or kills, provisioning by hand and by repair | `TypeOK`, `RuntimeNeverLost`, `StackReaderCurrent`, `SwapExcludesUsers`, `FailedRepairRestores`, `HandoffDisplaces`, `MarkerIsServed` | 1.8 million |
| `read_plane_live` | a drifted runtime, the timer and its repair, three kills or lapses; fair | `FleetRecovers`, `MarkerHeld` | 4 thousand |
| `routing_cutover` | four trees, two changes, two fresh retain names and that of a stage, three commands, three faults, one drift; fair | `TypeOK`, `PredecessorMarked`, `BoundTreeIsSealed`, `FailedRollbackRetryable`, `MirrorReturns` | 1.1 million |

Four runs show disagreements between documents and code:

- `rollback_promise`: GOVERNED_EXECUTION.md promises validation and automatic
  rollback. If the process ends after `git apply`, the next resume takes the
  run's own diff for a dirty checkout, fails the run with `policy_denied` and
  leaves the unvalidated diff where it is. `CompletedRunWasValidated` still
  holds: such a run never counts as completed.
- `resume_promise`: CONTRACT.md lets `resume` end in completed or failed. The
  runner saves its state before its summary; if it is interrupted between the
  two, every later `resume_run` finds a terminal state and returns the stale
  paused summary, so the session stays paused until it is cancelled.
- `routing_seal`: decision D-0086 wants the SDK rollback tree sealed before the
  mirror's manifest binds it, and every rename fsynced before the transaction
  goes on. A `refresh-materialized` that is cut between the move of the sealed tree
  (1366) and its fsync (1367) is retried by one that takes the tree as it finds it
  (1310), syncs no directory and binds it (1404). A power loss can then take the
  rename and leave a mirror that binds a tree that is not there.
- `routing_resumes`: README.md of the sync wrapper (97, 105-107) and D-0086:130
  promise that every rename is fsynced and an interrupted swap is resumed by a
  retry, after a reboot too. A cutover whose last fsync failed has its mirror in
  place and nothing synced; a rollback is accepted and marks the predecessor; a
  power loss that takes the second rename leaves no mirror, a marked predecessor,
  which `materialize` refuses, and no retained tree, without which `rollback`
  refuses.

The same property, `InterruptedSwapResumes`, also fails in these ways: the fsync
after a mirror was put back fails and the marker is removed all the same
(2505-2521), before a power loss; a receipt staged by an earlier attempt is taken
as it is (2100) and never synced, and a power loss between the two renames of the
retry drops it; a rollback accepts a mirror whose manifest is not durable.

### Why some properties have conditions

What the models showed while the properties were written:

- *A failed repair* (`FailedRepairRestores`). A second repair that is rolled back
  removes the marker its own fallback units need, and the readers stay down
  until the timer. The previous runtime put back is refused by the verifying
  consumers, as its digest is not the deployed one. The property therefore asks
  for an undamaged runtime in place, the previous one or one built from what is
  still deployed, and speaks of readers that ran on bootstrap units, or on
  production units while the admission on record is good.
- *Recovery* (`FleetRecovers`, `MarkerHeld`). Both belong to kills and lapses of
  the admission; `FleetRecovers` is false if failures are added. A TERM at "activate"
  makes the trap put the previous runtime back; a kill or a failed `mv` in that
  step leaves a marker and no runtime, and the marker check
  (aoa_install_systemd.sh:2616-2617) then dies on every timer run. Another state
  that no timer run leaves is a marker that lists the stack reader, whose fallback
  unit is down while the package has changed again: its repair is inadmissible.
  `MarkerHeld` has no second provisioner and no failures in its run: with them, the
  trap starts fallbacks after it has let its locks go, so that an admission run
  may commit in between; the formula itself does not exclude those phases.
- *A marker at rest* (`MarkerIsServed`). It speaks of failures of any step of both
  controllers and of edits, syncs, damage and lapses between them. It excepts
  kills, units started or stopped from outside, and provisioning by hand: one that
  comes between the controller's release of its locks and the restart of the
  fallback units finds their readers down and leaves them so. It excepts a repair that
  preserved the previous runtime, since it could not roll back or had activated
  the new one. The stack reader is let off only while its runtime does not verify,
  since its unit cannot start then.
- *The stack reader's runtime* (`StackReaderCurrent`). A rollback grant lets the
  reader run from a runtime that is not the deployed one. The proof showed when:
  a grant is written only for a runtime that serves undamaged and is not exact,
  which takes an edit of the deployed tree past the source lock. The invariant
  says so, and does not except a runtime for being named by a grant.
- *Effect executor*. A worker may time out at any step, also between its two
  restarts and while it writes a receipt. One that times out after its first does
  not restart again: `PlanEffectOnce` and `ReplaySettles` hold, that the
  restoration always follows does not. A worker killed while it writes its
  attempt receipt leaves a file on which every later request is denied.
- *Routing cutover*. The strays of section 2. Beyond them, a receipt staged before
  a `refresh-materialized` makes later `rollback-sdk` calls be refused; nothing is
  missing then, and no property forbids it. `FailedRollbackRetryable` looks at
  every way in which a rollback ends without a power loss: a kill, a failure outside
  the handlers (2231), one in the handler (2515-2517) or in its clean-up.
- *Audit*. A run that ends while an audit is at work may keep the audit's old
  paused summary for good. It is never a summary *ahead* of the state, and the
  review it may provoke approves the diff that is there.

### Bounds

- `MaxFaults` of the runner (0 to 2) bounds interruptions. Two are enough for an
  interrupted retry of an interrupted operation, which is where stale files meet
  new ones.
- `MaxAudits` (1) bounds audits. One overlap already saves an older summary;
  without a bound, audits that always overlap a resume could undo every summary,
  and nothing would ever be reviewed.
- `MaxHead` (0 or 1) bounds commits: one is enough for the head to drift from
  `base`. The bridge runs use 0, as `OperatorEdits` already denies a landing
  and the runner's checks treat the two alike.
- `MaxRepairs` is a parameter of the policy, not a bound; `operator_run` uses
  1, the default of the code.
- One run, and one session at a time (`MaxSessions` 1, of three sessions in three
  lanes): interference between runs passes only
  through the checkout, where `OperatorEdits` does to a run whatever another run
  could, and the proofs cover any number of runs.
- Commands are delivered any number of times; each one takes effect at most
  once, so two starts and two resumes bound the retries under a new key.
- `JournalBound` (1) stands for the 1024 attempts of the code. `MaxEarlier` (1 in
  `effect_live`) lets the journal be full from the start, so that the denial for
  it is reached. `MaxObservations`, `MaxForeign`, `MaxKills` and
  `MaxProvisions` (0 to 2) give each request one change under its feet; the two
  effect runs split the dimensions: plans, foreign keys and an observation published
  again in one, a plan under two keys, shell worker, provisioner and full journal
  in the other; time-outs are in both.
- `MaxCrashes` (2) lets both task servers restart, or one twice.
- `MaxEvents` (3) of the read plane allows a failed repair of a runtime that
  changed again meanwhile; each kind of event, lapses included, may happen at every
  step.
- `MaxCommands` and `MaxFaults` (3) of the cutover reach rollback of a refresh of a
  materialize and a fault in each; retries while the mirror is missing are not
  counted. Of the three retain names one is the name of `materialize`'s stage, as
  no command refuses that.

`CHECK_DEADLOCK FALSE`: a closed session with spent commands, a plane of
requests that are all answered, a task that is finished and a cutover with spent
commands have no step left. The read plane and `OperatorRun` never stop.

### Fairness

- *Runner and bridge*. The process of an operation goes on (`WF` of its steps)
  until it finishes or is interrupted, and interruptions are bounded. Beyond
  that the code schedules nothing by itself, and progress is due to people:
  `ReviewedRunEnds` assumes that the operator keeps reviewing what is paused and
  resuming it, `EffectsComplete`, for governed sessions, that whoever decided
  sends the decision again while its effect is unfinished, as CONTRACT.md asks for. `SF` is
  needed because both are disabled while a process is at work. The runs include torn
  files; the two properties let a run end at one, since a torn approval or state
  file stops a run for good, by the code. A read-only lane is owed nothing: it ends
  inside one step.
- *Executor*. The server, each worker and a provisioner that has begun go on;
  people and the observer owe nothing.
- *Tasks*. An event loop runs what is ready, and an inspection ends.
- *Read plane*. Both scripts and the jobs run to their end, and the timer starts
  the controller again (`OnUnitActiveSec` of its timer unit).
- *Cutover*. A command that runs goes on, and an operator who finds no mirror
  retries; no other command is owed.

## 4. What is proved

Every safety property that a passing run checks is a theorem, but
`MarkerIsServed` and `FailedRollbackRetryable`. Those of runner and
bridge hold for any set of runs or sessions, any command table, any policy, with
or without torn files, audits, and for any bound; those of the tasks for any
requests, any number of servers and any bound on restarts; those of the executor
for any plans, keys, approvals and workers; those of the read plane for any
readers and consumers and any number of outside events; those of the cutover for
any trees, changes and retain names and any number of commands and faults. The
only assumptions are the named ASSUMEs of the modules:

- those of `GovernedRun`, `OperatorRun`, `AgentOsBridge` and `StackTasks`,
  `UnitAssumption` and `RefreshAssumption` type the constants and name members
  that the code has;
- `EffectAssumption`: an approval is for a plan and a key, and the two special
  contents of an idempotency file are told from an approval;
- `RoutingAssumption`: trees, changes and the special values are told from one
  another. It says nothing of retain names, which may be those of other roots.

One theorem, `MarkerStays`, has a hypothesis about the outside world: no event
but kills, lapses, starts by hand and jobs, the events of its run and more. With a
failing repair or units stopped by hand its property does not hold (section 3).

The argument for the runner: an invariant on review needs an order on the run's
life. `Ordered(r)` (in `GovernedRun_proofs`) relates phase, files, step and
history of one run: which steps belong to which phase, that a summary follows
its state, that the history of application and validation belongs to the
landing phase, that a run which never got ready has no approval. It is
inductive by itself except for the approval that an outsider gives; each driver
adds that:

- `OperatorRun`: an approved landing was given for the diff that is there
  (`ReviewHolds`). The invariant is needed in this strength because a landing
  approval may survive any number of interruptions, and is harmless only because
  no preview can start again once the phase is `await_landing_approval`. For the
  audits, `KeptHolds` says that the summary one holds reports the run no further
  than its state file has it, for as long as it holds it: being late and being
  over are for good.
- `AgentOsBridge`: `SessionInv` adds, per session, that approval file, effects
  and requests follow the journal (`Journaled`), which steps the operation in
  flight may be at (`InFlight`), and how states and outcomes go together
  (`Settles`).

A run cannot disturb another: `Footprint`, `Own` and `Spares` state that a step
of one run changes only its own components and, in the checkout, its own entry.
This is what lifts the proof from one run to any number.

The argument for the tasks: a server reads a record and writes it back after
another server may have come in between. `Due(s)` says that the write a server
has in hand names a revision at which its task worked, and that the record works
still if it is at that revision. It is inductive because the store only moves
forward (`Forward(t)`): each step leaves a record alone or starts from an
unfinished one and moves its revision. A write is taken only at the revision it
names, so it never meets a finished task, whichever server finished it.

The argument for the executor: `Exclusive` and `Drained` say who may be where
under the two locks, `Bound` that the key of a worker past its admission is
bound to no request, so that a binding is made once and `ReplaySettles` follows.
`PlanEffectOnce` is the hard one: two workers may carry the same plan under
different keys, one after the other. The invariant ties a plan to the observation
it was staged from and that observation's digest to one process for good
(`Published`, `Marked`): whoever takes up the plan later aims at the same process
(`Apart`), which the first restart has replaced. Identities do not come back, so
the later worker ends at its check of the subject. `Untouched` puts the first
restart after the last denial.

The argument for the read plane: an exclusive lock is the provisioner's, and then
neither the controller nor a unit has it (`LockOrder`). That alone is not
inductive: what newly runs must have found its lock open (`Launched`), and each
phase must be known to hold what it relies on (`RefreshLocks`,
`ProvisionLocks`, the former lock by lock in the order in which they are taken,
`Holding(l)`). The runtime is where the phase says, also between the move of the
new one and the note of it (`Backups`), which gives
`RuntimeNeverLost` and, with the lock, `SwapExcludesUsers`. `Deployed` states the
verifier's promise as an invariant of source, grant and runtime until an edit;
`Recorded` that a grant names the runtime a repair may have to put back, unless
it was damaged: this is what lets the stack reader pass the verifier again after
a rollback. `Loaded` keeps the controller's copy of the marker true while it holds
its locks.
For `MarkerHeld`, `CrashInv` shows that under kills and lapses a marker goes only with
the deployed package's runtime (`Fresh`, `Blank`), so that no repair fails after
its swap (`Clean`, `Lists`), and that no repair undoes what the controller has
proved between its canaries and the removal of the marker (`Excluding`, `Done`).

The argument for the cutover: the state of the model includes everything a power
loss may leave, and `PredecessorMarked` speaks of each such arrangement of
directories with each version of the tree in it. It is not inductive alone: a
rename is safe only because of what is durable at its step. `Positions` says
where the trees are at each step of a command, `Course` what the command may
count on (all names durable, the marker durable before the predecessor comes
in), and `Promises` what every arrangement must satisfy with every version: after
the cutover its stage is gone, the predecessor serves only marked, a bound
mirror has a sealed tree, and so has the mirror that was displaced last.
`Cut` says what "after the cutover" means for one arrangement, and `CutStays`
that no power loss goes back behind it. A step then either renames, writes one
tree, or makes something durable, and each of the three keeps the promises by its
own lemmas (`SwapProper`, `PromiseKept`, `FewerVersions`). The invariant is
`Basic /\ (~strayed => Sound)`: types, the roles of a command's directories and that
no tree stands under two names hold always (`Basic`); all the rest, which the two
theorems about safety rest on, holds until something strays (`Sound`), and so do
they. That is no shortcoming of the proof: beyond a stray the code breaks them.

| Module | Theorem | Property |
|---|---|---|
| `OperatorRun_proofs` | `TypeCorrect`, `ReviewedDiffOnly`, `SummaryFollowsState`, `CompletedIsValidated`, `TerminalStays` | `TypeOK`, `LandedDiffWasReviewed`, `SummaryNeverAheadOfState`, `CompletedRunWasValidated`, `TerminalRunIsFinal` |
| `AgentOsBridge_proofs` | `TypeCorrect`, `LandingNeedsJournal`, `ApprovalNeedsJournal`, `OneStart`, `SuccessIsValidated` | `TypeOK`, `LandingIsJournaled`, `ApprovalFileIsJournaled`, `OneStartPerRun`, `SuccessWasValidated` |
| `AgentOsBridge_proofs` | `OutcomesAgree`, `OutcomeIsFinal` (both for `SdkRefusesTerminalExit`) | `OutcomeAgrees`, `NothingRunsAfterOutcome` |
| `AgentOsRefinement_proofs` | `PromiseKept` | `KeepsThePromise` |
| `StackTasks_proofs` | `TypeCorrect`, `FinishedStays` | `TypeOK`, `FinishedTaskIsFinal` |
| `InternalEffect_proofs` | `TypeCorrect`, `EffectsExclude`, `PlanOnce`, `DenialTrue`, `StopSpares`, `BoundIsSettled` | `TypeOK`, `EffectExclusion`, `PlanEffectOnce`, `DenialClaimsNoEffect`, `StopSparesRequests`, `ReplaySettles` |
| `AdmissionRefresh_proofs` | `TypeCorrect`, `RuntimeKept`, `ReaderIsCurrent`, `SwapsAlone` | `TypeOK`, `RuntimeNeverLost`, `StackReaderCurrent`, `SwapExcludesUsers` |
| `AdmissionRefresh_proofs` | `RepairRestores`, `OnlyHandoffDisplaces`, `MarkerStays` (under its hypothesis) | `FailedRepairRestores`, `HandoffDisplaces`, `MarkerHeld` |
| `RoutingCutover_proofs` | `TypeCorrect`, `PredecessorIsMarked`, `BoundIsSealed` (both until something strays) | `TypeOK`, `PredecessorMarked`, `BoundTreeIsSealed` |

In each of these modules but the refinement's, `Inductive` states the inductive
invariant; `AdmissionRefresh_proofs` builds `CrashInv` on top of it.

Only model-checked: the liveness properties `ReviewedRunEnds`, `EffectsComplete`,
`WorkedTaskEnds`, `RequestsEnd`, `FleetRecovers` and `MirrorReturns` (fairness and
ENABLED are beyond the proof system), the safety properties `MarkerIsServed` and
`FailedRollbackRetryable`, and the four refuted statements.

## 5. What is not modelled, and the plan

Not modelled, because nothing in it interleaves or persists in steps: envelope
and compatibility validation of the bridge, evidence and lane artifacts,
review-packet content, service templates, deployment files, read-only services,
diagnosis and pilots. Not modelled, because it is too large for a first model:
the supervisor of the external agent. Not modelled within modelled parts: two
processes of `run` or `resume` on one run, two cutover commands at once (neither
takes a lock), request expiry and renewal of the bridge, the cutover's isolated
rehearsal, a torn plan or approval file of the executor.

To come, in this order:

1. The model of the cutover and of the read plane as abstract promises that the
   detailed modules implement (a mirror that is always one of two sealed trees; a
   fleet that is served or being restored), step by step as for `ReviewedChange`.
2. A second process of `resume` on one run; what of `LandedDiffWasReviewed`
   survives without a lock.
3. `AgentOsBridge`: request expiry and renewal; the runner's trust promotion and
   triage as pure operators against a reference definition; the supervisor's
   process lifecycle.
