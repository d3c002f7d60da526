------------------------------ MODULE GovernedRun ------------------------------
(***************************************************************************)
(* The governed runner (aoa_governed_execution.py): prepare_run and        *)
(* resume_run, one durable file write per step, so that a termination or   *)
(* an exception can fall between any two of them.                          *)
(*                                                                         *)
(* A run is a directory of files: governed-run.state (phase, failure class *)
(* and repair count), approval.status.json, result.summary.json and        *)
(* landing.diff.  Every run works on the one main checkout.  The files are *)
(* written in place (write_json is Path.write_text), so an interrupted     *)
(* write may leave a file that no longer parses: the value "torn".         *)
(***************************************************************************)
EXTENDS Integers

CONSTANTS
    Runs,           \* governed runs that share the main checkout
    Operator,       \* who else leaves tracked changes in the checkout
    MaxRepairs,     \* global_rules.max_worktree_repairs
    RepairAllowed,  \* playbook_policy.repair_allowed
    TornWrites,     \* whether an interrupted write may tear its file
    MaxHead,        \* bound: commits made to the checkout
    MaxFaults       \* bound: interruptions (terminations and exceptions)

ASSUME RunsAssumption   == Operator \notin Runs
ASSUME PolicyAssumption == /\ MaxRepairs \in Nat
                           /\ RepairAllowed \in BOOLEAN
                           /\ TornWrites \in BOOLEAN
ASSUME BoundAssumption  == MaxHead \in Nat /\ MaxFaults \in Nat

Milestones == {"plan_freeze", "landing"}

VARIABLES
    head,      \* HEAD of the main checkout, as a commit count
    tree,      \* whose tracked changes are uncommitted in the main checkout
    rundir,    \* run directory: absent, empty, or stored (request, policy, preflight)
    base,      \* base_head recorded by prepare_run
    phase,     \* governed-run.state: phase (or absent, torn)
    fclass,    \* governed-run.state: failure_class
    repairs,   \* governed-run.state: repair_attempts
    approval,  \* approval.status.json: current_milestone and status
    summary,   \* result.summary.json: status and current_milestone
    diff,      \* landing.diff: 0 absent, n the n-th diff built
    pc,        \* the next step of the process that works on the run
    ret,       \* what prepare_run or resume_run returned, until taken
    faults,    \* interruptions so far
    applied,   \* history: the diff last applied to the main checkout
    validated  \* history: the diff applied when main-checkout acceptance passed

checkout  == <<head, tree>>
stateFile == <<phase, fclass, repairs>>
history   == <<applied, validated>>
runVars   == <<head, tree, rundir, base, phase, fclass, repairs, approval,
               summary, diff, pc, ret, faults, applied, validated>>

Phases   == {"absent", "torn", "prepare_proposal", "await_plan_approval",
             "await_landing_approval", "failed", "completed"}
Terminal == {"failed", "completed"}
FailureClasses == {"none", "autonomy_gate_failed", "policy_denied",
                   "proposal_invalid", "approval_missing", "scope_violation",
                   "post_change_validation_failure", "rollback_failed"}

ApprovalFiles == [milestone : Milestones \cup {"none"},
                  status : {"absent", "torn", "invalid", "pending",
                            "approved", "rejected"}]
Summaries == [status : {"absent", "torn", "raised", "running", "paused", "fail", "pass"},
              milestone : Milestones \cup {"none"}]

Ap(m, s)  == [milestone |-> m, status |-> s]
Sum(s, m) == [status |-> s, milestone |-> m]

\* The step labels, grouped by the file the step writes.
StateWriters ==
    {"preflight", "init_state", "proposal", "pause_state", "preview_check",
     "repropose", "build", "worktree_acceptance", "landing_check", "git_check",
     "git_apply", "rolled_back", "not_rolled_back", "pass_state"}
ApprovalWriters == {"init_approval", "landing_pending", "main_acceptance"}
SummaryWriters  == {"pause_summary", "fail_summary", "pass_summary",
                    "resave_summary"}
Working == StateWriters \cup ApprovalWriters \cup SummaryWriters \cup {"rollback"}

\* Steps of apply_landing_diff, and those of them that follow `git apply`.
Applying == {"main_acceptance", "rollback", "rolled_back", "not_rolled_back",
             "pass_state", "pass_summary"}
Landing  == Applying \cup {"landing_check", "git_check", "git_apply"}

Readable(file) == file.status \notin {"absent", "torn"}

RunTypeOK ==
    /\ head \in 0..MaxHead /\ tree \subseteq Runs \cup {Operator}
    /\ rundir   \in [Runs -> {"absent", "empty", "stored"}]
    /\ base     \in [Runs -> 0..MaxHead]
    /\ phase    \in [Runs -> Phases]
    /\ fclass   \in [Runs -> FailureClasses]
    /\ repairs  \in [Runs -> 0..MaxRepairs]
    /\ approval \in [Runs -> ApprovalFiles]
    /\ summary  \in [Runs -> Summaries]
    /\ diff     \in [Runs -> Nat]
    /\ pc       \in [Runs -> Working \cup {"idle", "done"}]
    /\ ret      \in [Runs -> Summaries]
    /\ faults   \in 0..MaxFaults
    /\ applied  \in [Runs -> Nat] /\ validated \in [Runs -> Nat]

RunInit ==
    /\ head = 0 /\ tree = {}
    /\ rundir    = [r \in Runs |-> "absent"]
    /\ base      = [r \in Runs |-> 0]
    /\ phase     = [r \in Runs |-> "absent"]
    /\ fclass    = [r \in Runs |-> "none"]
    /\ repairs   = [r \in Runs |-> 0]
    /\ approval  = [r \in Runs |-> Ap("none", "absent")]
    /\ summary   = [r \in Runs |-> Sum("absent", "none")]
    /\ diff      = [r \in Runs |-> 0]
    /\ pc        = [r \in Runs |-> "idle"]
    /\ ret       = [r \in Runs |-> Sum("absent", "none")]
    /\ faults    = 0
    /\ applied   = [r \in Runs |-> 0]
    /\ validated = [r \in Runs |-> 0]

-----------------------------------------------------------------------------
(* Control of one process: go on to a step, or hand a result to the caller. *)

Goto(r, step) == pc' = [pc EXCEPT ![r] = step] /\ UNCHANGED ret

Return(r, result) ==
    /\ pc'  = [pc EXCEPT ![r] = "done"]
    /\ ret' = [ret EXCEPT ![r] = result]

Raise(r) == Return(r, Sum("raised", "none"))

\* save_state with a new phase; the rest of the state file is kept.
SavePhase(r, p) ==
    /\ phase' = [phase EXCEPT ![r] = p]
    /\ UNCHANGED <<fclass, repairs>>

\* failure_result: first the state file, then (SaveFailSummary) the summary.
FailWith(r, class) ==
    /\ phase'  = [phase EXCEPT ![r] = "failed"]
    /\ fclass' = [fclass EXCEPT ![r] = class]
    /\ UNCHANGED repairs
    /\ Goto(r, "fail_summary")

\* save_summary.  It reads the approval file too, which parses wherever the
\* runner saves a summary: resume_run has raised on a torn one before.
SaveSummary(r, result) ==
    /\ summary' = [summary EXCEPT ![r] = result]
    /\ Return(r, result)

-----------------------------------------------------------------------------
(* prepare_run *)

\* Mutated form: an existing run directory is prepared again.
CallPrepareAgain(r) ==
    /\ pc[r] = "idle"
    /\ rundir' = [rundir EXCEPT ![r] = "empty"]
    /\ Goto(r, "preflight")
    /\ UNCHANGED <<checkout, base, stateFile, approval, summary, diff, faults, history>>

\* An existing run directory is never prepared again: its stored summary is
\* the answer when the request and the summary are both there.
CallPrepare(r) ==
    /\ pc[r] = "idle"
    /\ \/ /\ rundir[r] = "absent"
          /\ rundir' = [rundir EXCEPT ![r] = "empty"]
          /\ Goto(r, "preflight")
       \/ /\ rundir[r] # "absent"
          /\ IF rundir[r] = "stored" /\ Readable(summary[r])
                THEN Return(r, summary[r])
                ELSE Raise(r)
          /\ UNCHANGED rundir
    /\ UNCHANGED <<checkout, base, stateFile, approval, summary, diff, faults, history>>

\* The request, the policy, the checkout's cleanliness or the gate refuse it.
PreflightFails(r) ==
    /\ pc[r] = "preflight"
    /\ \E class \in {"policy_denied", "autonomy_gate_failed"} : FailWith(r, class)
    /\ UNCHANGED <<checkout, rundir, base, approval, summary, diff, faults, history>>

\* Nothing reads request, policy snapshot and preflight summary before the
\* last of the three is written, so they are one step.
PreflightPasses(r) ==
    /\ pc[r] = "preflight" /\ tree = {}
    /\ base'   = [base EXCEPT ![r] = head]
    /\ rundir' = [rundir EXCEPT ![r] = "stored"]
    /\ Goto(r, "init_approval")
    /\ UNCHANGED <<checkout, stateFile, approval, summary, diff, faults, history>>

InitializeApproval(r) ==
    /\ pc[r] = "init_approval"
    /\ approval' = [approval EXCEPT ![r] = Ap("plan_freeze", "pending")]
    /\ Goto(r, "init_state")
    /\ UNCHANGED <<checkout, rundir, base, stateFile, summary, diff, faults, history>>

SaveInitialState(r) ==
    /\ pc[r] = "init_state"
    /\ SavePhase(r, "prepare_proposal")
    /\ Goto(r, "proposal")
    /\ UNCHANGED <<checkout, rundir, base, approval, summary, diff, faults, history>>

ProposalReady(r) ==
    /\ pc[r] = "proposal"
    /\ SavePhase(r, "await_plan_approval")
    /\ Goto(r, "pause_state")
    /\ UNCHANGED <<checkout, rundir, base, approval, summary, diff, faults, history>>

ProposalFails(r) ==
    /\ pc[r] = "proposal"
    /\ FailWith(r, "proposal_invalid")
    /\ UNCHANGED <<checkout, rundir, base, approval, summary, diff, faults, history>>

-----------------------------------------------------------------------------
(* paused_result and failure_result: the state file, then the summary. *)

PausedAt(r) == IF phase[r] = "await_plan_approval" THEN "plan_freeze" ELSE "landing"

SavePausedState(r) ==
    /\ pc[r] = "pause_state"
    /\ Goto(r, "pause_summary")
    /\ UNCHANGED <<checkout, rundir, base, stateFile, approval, summary, diff, faults, history>>

SavePausedSummary(r) ==
    /\ pc[r] = "pause_summary"
    /\ SaveSummary(r, Sum("paused", PausedAt(r)))
    /\ UNCHANGED <<checkout, rundir, base, stateFile, approval, diff, faults, history>>

SaveFailSummary(r) ==
    /\ pc[r] = "fail_summary"
    /\ SaveSummary(r, Sum("fail", "none"))
    /\ UNCHANGED <<checkout, rundir, base, stateFile, approval, diff, faults, history>>

-----------------------------------------------------------------------------
(* resume_run *)

\* Mutated form: any approved milestone lets the run go on.
ResumeStepAnyMilestone(r) ==
    CASE phase[r] = "await_plan_approval" /\ approval[r].status = "approved" -> "preview_check"
      [] phase[r] = "await_landing_approval" /\ approval[r].status = "approved" -> "landing_check"
      [] OTHER -> "pause_state"

\* Where resume_run goes once the state, request and approval files are read.
ResumeStep(r) ==
    CASE phase[r] = "await_plan_approval" /\ approval[r] = Ap("plan_freeze", "approved")
            -> "preview_check"
      [] phase[r] = "await_landing_approval" /\ approval[r] = Ap("landing", "approved")
            -> "landing_check"
      [] OTHER -> "pause_state"

\* A terminal run, and one whose preparation never paused, only has its
\* stored summary saved again.
OnlyResaves(r) == phase[r] \in Terminal \cup {"prepare_proposal"}

\* A file resume_run needs is missing or does not parse: it raises.
MissingInput(r) ==
    \/ phase[r] \in {"absent", "torn"} \/ rundir[r] # "stored"
    \/ phase[r] \notin Terminal /\ ~Readable(approval[r])
    \/ OnlyResaves(r) /\ ~Readable(summary[r])

CallResume(r) ==
    /\ pc[r] = "idle"
    /\ IF MissingInput(r) THEN Raise(r) /\ UNCHANGED stateFile
       ELSE IF OnlyResaves(r) THEN Goto(r, "resave_summary") /\ UNCHANGED stateFile
       ELSE IF approval[r].status = "invalid" THEN FailWith(r, "approval_missing")
       ELSE Goto(r, ResumeStep(r)) /\ UNCHANGED stateFile
    /\ UNCHANGED <<checkout, rundir, base, approval, summary, diff, faults, history>>

ResaveSummary(r) ==
    /\ pc[r] = "resave_summary"
    /\ SaveSummary(r, summary[r])
    /\ UNCHANGED <<checkout, rundir, base, stateFile, approval, diff, faults, history>>

-----------------------------------------------------------------------------
(* run_preview_after_plan_approval and preview_proposal: worktree only *)

\* The checkout must be clean and still at base_head; a run that resumes with
\* a repair already spent starts with a new proposal.
PreviewAdmitted(r) ==
    /\ pc[r] = "preview_check" /\ tree = {} /\ head = base[r]
    /\ Goto(r, IF repairs[r] > 0 THEN "repropose" ELSE "build")
    /\ UNCHANGED <<checkout, rundir, base, stateFile, approval, summary, diff, faults, history>>

PreviewDenied(r) ==
    /\ pc[r] = "preview_check" /\ (tree # {} \/ head # base[r])
    /\ FailWith(r, "policy_denied")
    /\ UNCHANGED <<checkout, rundir, base, approval, summary, diff, faults, history>>

Repropose(r) ==
    /\ pc[r] = "repropose"
    /\ \/ Goto(r, "build") /\ UNCHANGED stateFile
       \/ FailWith(r, "proposal_invalid")
    /\ UNCHANGED <<checkout, rundir, base, approval, summary, diff, faults, history>>

BuildDiff(r) ==
    /\ pc[r] = "build"
    /\ diff' = [diff EXCEPT ![r] = @ + 1]
    /\ Goto(r, "worktree_acceptance")
    /\ UNCHANGED <<checkout, rundir, base, stateFile, approval, summary, faults, history>>

ScopeViolation(r) ==
    /\ pc[r] = "build"
    /\ FailWith(r, "scope_violation")
    /\ UNCHANGED <<checkout, rundir, base, approval, summary, diff, faults, history>>

\* Mutated form: the last repair is one too many.
AttemptFailsOffByOne(r) ==
    /\ pc[r] \in {"build", "worktree_acceptance"}
    /\ IF repairs[r] <= MaxRepairs /\ RepairAllowed
          THEN /\ repairs' = [repairs EXCEPT ![r] = @ + 1]
               /\ UNCHANGED <<phase, fclass>>
               /\ Goto(r, "repropose")
          ELSE FailWith(r, "post_change_validation_failure")
    /\ UNCHANGED <<checkout, rundir, base, approval, summary, diff, faults, history>>

\* Mutated form: the repair is not counted.
AttemptFailsUncounted(r) ==
    /\ pc[r] \in {"build", "worktree_acceptance"}
    /\ IF repairs[r] < MaxRepairs /\ RepairAllowed
          THEN Goto(r, "repropose") /\ UNCHANGED stateFile
          ELSE FailWith(r, "post_change_validation_failure")
    /\ UNCHANGED <<checkout, rundir, base, approval, summary, diff, faults, history>>

\* A worktree, an empty diff or an acceptance check that fails is repaired
\* once more while the budget lasts, and ends the run otherwise.
AttemptFails(r) ==
    /\ pc[r] \in {"build", "worktree_acceptance"}
    /\ IF repairs[r] < MaxRepairs /\ RepairAllowed
          THEN /\ repairs' = [repairs EXCEPT ![r] = @ + 1]
               /\ UNCHANGED <<phase, fclass>>
               /\ Goto(r, "repropose")
          ELSE FailWith(r, IF pc[r] = "build" THEN "proposal_invalid"
                                              ELSE "post_change_validation_failure")
    /\ UNCHANGED <<checkout, rundir, base, approval, summary, diff, faults, history>>

\* The state file moves on first, the approval file follows.
PreviewPasses(r) ==
    /\ pc[r] = "worktree_acceptance"
    /\ SavePhase(r, "await_landing_approval")
    /\ Goto(r, "landing_pending")
    /\ UNCHANGED <<checkout, rundir, base, approval, summary, diff, faults, history>>

AskLanding(r) ==
    /\ pc[r] = "landing_pending"
    /\ approval' = [approval EXCEPT ![r] = Ap("landing", "pending")]
    /\ Goto(r, "pause_state")
    /\ UNCHANGED <<checkout, rundir, base, stateFile, summary, diff, faults, history>>

-----------------------------------------------------------------------------
(* apply_landing_diff: the main checkout *)

LandingAdmitted(r) ==
    /\ pc[r] = "landing_check"
    /\ diff[r] # 0 /\ tree = {} /\ head = base[r]
    /\ Goto(r, "git_check")
    /\ UNCHANGED <<checkout, rundir, base, stateFile, approval, summary, diff, faults, history>>

LandingDenied(r) ==
    /\ pc[r] = "landing_check"
    /\ \/ diff[r] = 0 /\ FailWith(r, "proposal_invalid")
       \/ diff[r] # 0 /\ (tree # {} \/ head # base[r]) /\ FailWith(r, "policy_denied")
    /\ UNCHANGED <<checkout, rundir, base, approval, summary, diff, faults, history>>

\* `git apply --check` refuses a diff that is already in the checkout; it and
\* `git apply` may refuse any other (a foreign edit, a time-out).
GitCheck(r) ==
    /\ pc[r] = "git_check"
    /\ \/ r \notin tree /\ Goto(r, "git_apply") /\ UNCHANGED stateFile
       \/ FailWith(r, "policy_denied")
    /\ UNCHANGED <<checkout, rundir, base, approval, summary, diff, faults, history>>

GitApply(r) ==
    /\ pc[r] = "git_apply" /\ r \notin tree
    /\ tree' = tree \cup {r}
    /\ applied' = [applied EXCEPT ![r] = diff[r]]
    /\ Goto(r, "main_acceptance")
    /\ UNCHANGED <<head, rundir, base, stateFile, approval, summary, diff, faults, validated>>

GitApplyFails(r) ==
    /\ pc[r] = "git_apply"
    /\ FailWith(r, "policy_denied")
    /\ UNCHANGED <<checkout, rundir, base, approval, summary, diff, faults, history>>

\* Mutated form: the summary is saved and the state file is not.
MainAcceptancePassesSummaryFirst(r) ==
    /\ pc[r] = "main_acceptance" /\ Readable(approval[r])
    /\ approval' = [approval EXCEPT ![r] = Ap("landing", "approved")]
    /\ validated' = [validated EXCEPT ![r] = applied[r]]
    /\ Goto(r, "pass_summary")
    /\ UNCHANGED <<checkout, rundir, base, stateFile, summary, diff, faults, applied>>

MainAcceptancePasses(r) ==
    /\ pc[r] = "main_acceptance" /\ Readable(approval[r])
    /\ approval' = [approval EXCEPT ![r] = Ap("landing", "approved")]
    /\ validated' = [validated EXCEPT ![r] = applied[r]]
    /\ Goto(r, "pass_state")
    /\ UNCHANGED <<checkout, rundir, base, stateFile, summary, diff, faults, applied>>

\* Mutated form: a failed acceptance command is ignored.
MainAcceptanceIgnored(r) ==
    /\ pc[r] = "main_acceptance"
    /\ Goto(r, "pass_state")
    /\ UNCHANGED <<checkout, rundir, base, stateFile, approval, summary, diff, faults, history>>

MainAcceptanceFails(r) ==
    /\ pc[r] = "main_acceptance"
    /\ Goto(r, "rollback")
    /\ UNCHANGED <<checkout, rundir, base, stateFile, approval, summary, diff, faults, history>>

\* `git apply -R`, then rollback.status.json, which nothing reads back.
Rollback(r) ==
    /\ pc[r] = "rollback"
    /\ \/ r \in tree /\ tree' = tree \ {r} /\ Goto(r, "rolled_back")
       \/ UNCHANGED tree /\ Goto(r, "not_rolled_back")
    /\ UNCHANGED <<head, rundir, base, stateFile, approval, summary, diff, faults, history>>

SaveRollbackFailure(r) ==
    /\ \/ pc[r] = "rolled_back" /\ FailWith(r, "post_change_validation_failure")
       \/ pc[r] = "not_rolled_back" /\ FailWith(r, "rollback_failed")
    /\ UNCHANGED <<checkout, rundir, base, approval, summary, diff, faults, history>>

SavePassState(r) ==
    /\ pc[r] = "pass_state"
    /\ SavePhase(r, "completed")
    /\ Goto(r, "pass_summary")
    /\ UNCHANGED <<checkout, rundir, base, approval, summary, diff, faults, history>>

SavePassSummary(r) ==
    /\ pc[r] = "pass_summary"
    /\ SaveSummary(r, Sum("pass", "none"))
    /\ UNCHANGED <<checkout, rundir, base, stateFile, approval, diff, faults, history>>

-----------------------------------------------------------------------------
PrepareStep(r) ==
    \/ PreflightFails(r) \/ PreflightPasses(r) \/ InitializeApproval(r)
    \/ SaveInitialState(r) \/ ProposalReady(r) \/ ProposalFails(r)

ResultStep(r) ==
    \/ SavePausedState(r) \/ SavePausedSummary(r) \/ SaveFailSummary(r)
    \/ ResaveSummary(r) \/ SavePassState(r) \/ SavePassSummary(r)

PreviewStep(r) ==
    \/ PreviewAdmitted(r) \/ PreviewDenied(r) \/ Repropose(r) \/ BuildDiff(r)
    \/ ScopeViolation(r) \/ AttemptFails(r) \/ PreviewPasses(r) \/ AskLanding(r)

LandingStep(r) ==
    \/ LandingAdmitted(r) \/ LandingDenied(r) \/ GitCheck(r) \/ GitApply(r)
    \/ GitApplyFails(r) \/ MainAcceptancePasses(r) \/ MainAcceptanceFails(r)
    \/ Rollback(r) \/ SaveRollbackFailure(r)

RunnerStep(r) ==
    PrepareStep(r) \/ ResultStep(r) \/ PreviewStep(r) \/ LandingStep(r)

-----------------------------------------------------------------------------
(* Interruption: the process ends, or an exception leaves the runner.  The   *)
(* file that the step was about to write may be left torn.                   *)

TearFile(r) ==
    \/ pc[r] \in StateWriters /\ phase' = [phase EXCEPT ![r] = "torn"]
       /\ UNCHANGED <<approval, summary>>
    \/ pc[r] \in ApprovalWriters /\ UNCHANGED <<phase, summary>>
       /\ approval' = [approval EXCEPT ![r] = Ap("none", "torn")]
    \/ pc[r] \in SummaryWriters /\ UNCHANGED <<phase, approval>>
       /\ summary' = [summary EXCEPT ![r] = Sum("torn", "none")]

LeaveFiles(r) ==
    /\ faults < MaxFaults /\ faults' = faults + 1
    /\ \/ UNCHANGED <<phase, approval, summary>>
       \/ TornWrites /\ TearFile(r)
    /\ UNCHANGED <<checkout, rundir, base, fclass, repairs, diff, history>>

Terminated(r) ==
    /\ pc[r] \in Working
    /\ pc' = [pc EXCEPT ![r] = "idle"] /\ UNCHANGED ret
    /\ LeaveFiles(r)

\* The report is updated after the summary is saved: an exception may replace
\* a result that is already on disk.
Excepted(r) ==
    /\ pc[r] \in Working \cup {"done"}
    /\ Raise(r)
    /\ LeaveFiles(r)

Interrupted(r) == Terminated(r) \/ Excepted(r)

-----------------------------------------------------------------------------
(* The checkout belongs to its operator too. *)

OperatorEdits ==
    /\ tree' = tree \cup {Operator}
    /\ UNCHANGED <<head, rundir, base, stateFile, approval, summary, diff, pc, ret,
                   faults, history>>

OperatorRestores ==
    /\ tree' = {}
    /\ UNCHANGED <<head, rundir, base, stateFile, approval, summary, diff, pc, ret,
                   faults, history>>

OperatorCommits ==
    /\ head < MaxHead
    /\ head' = head + 1 /\ tree' = {}
    /\ UNCHANGED <<rundir, base, stateFile, approval, summary, diff, pc, ret,
                   faults, history>>

Environment == OperatorEdits \/ OperatorRestores \/ OperatorCommits

TakeResult(r) ==
    /\ pc[r] = "done"
    /\ pc'  = [pc EXCEPT ![r] = "idle"]
    /\ ret' = [ret EXCEPT ![r] = Sum("absent", "none")]

=============================================================================
