--------------------------- MODULE GovernedRun_proofs ---------------------------
(***************************************************************************)
(* Facts about the runner's steps, for every value of the constants, that  *)
(* the theorems about OperatorRun and AgentOsBridge rest on.               *)
(***************************************************************************)
EXTENDS GovernedRun, TLAPS

USE DEF Milestones, Phases, Terminal, FailureClasses, StateWriters, ApprovalWriters,
        SummaryWriters, Working

\* Every file content that a step writes is one of the enumerated ones.
LEMMA FileTypes ==
    /\ \A m \in Milestones \cup {"none"} :
          \A s \in {"absent", "torn", "invalid", "pending", "approved", "rejected"} :
              Ap(m, s) \in ApprovalFiles
    /\ \A s \in {"absent", "torn", "raised", "running", "paused", "fail", "pass"} :
          \A m \in Milestones \cup {"none"} : Sum(s, m) \in Summaries
  BY DEF ApprovalFiles, Summaries, Ap, Sum

\* The initial state of the runner's files and checkout is well typed.
LEMMA RunInitTyped == RunInit => RunTypeOK
  BY FileTypes, BoundAssumption, PolicyAssumption DEF RunInit, RunTypeOK

\* The steps of prepare_run keep the types of every file.
LEMMA PrepareTyped ==
    ASSUME RunTypeOK, NEW r \in Runs, PrepareStep(r)
    PROVE  RunTypeOK'
  <1> USE FileTypes DEF RunTypeOK, checkout, stateFile, history, Goto, Return, Raise,
                        SavePhase, FailWith, SaveSummary
  <1>1. CASE PreflightFails(r)
    BY <1>1 DEF PreflightFails
  <1>2. CASE PreflightPasses(r)
    BY <1>2, BoundAssumption DEF PreflightPasses
  <1>3. CASE InitializeApproval(r)
    BY <1>3 DEF InitializeApproval
  <1>4. CASE SaveInitialState(r)
    BY <1>4 DEF SaveInitialState
  <1>5. CASE ProposalReady(r)
    BY <1>5 DEF ProposalReady
  <1>6. CASE ProposalFails(r)
    BY <1>6 DEF ProposalFails
  <1> QED BY <1>1, <1>2, <1>3, <1>4, <1>5, <1>6 DEF PrepareStep

\* So do the steps that save a result,
LEMMA ResultTyped ==
    ASSUME RunTypeOK, NEW r \in Runs, ResultStep(r)
    PROVE  RunTypeOK'
  <1> USE FileTypes DEF RunTypeOK, checkout, stateFile, history, Goto, Return, Raise,
                        SavePhase, FailWith, SaveSummary
  <1>1. CASE SavePausedState(r)
    BY <1>1 DEF SavePausedState
  <1>2. CASE SavePausedSummary(r)
    BY <1>2 DEF SavePausedSummary, PausedAt
  <1>3. CASE SaveFailSummary(r)
    BY <1>3 DEF SaveFailSummary
  <1>4. CASE ResaveSummary(r)
    BY <1>4 DEF ResaveSummary
  <1>5. CASE SavePassState(r)
    BY <1>5 DEF SavePassState
  <1>6. CASE SavePassSummary(r)
    BY <1>6 DEF SavePassSummary
  <1> QED BY <1>1, <1>2, <1>3, <1>4, <1>5, <1>6 DEF ResultStep

\* the steps of the worktree preview,
LEMMA PreviewTyped ==
    ASSUME RunTypeOK, NEW r \in Runs, PreviewStep(r)
    PROVE  RunTypeOK'
  <1> USE FileTypes DEF RunTypeOK, checkout, stateFile, history, Goto, Return, Raise,
                        SavePhase, FailWith, SaveSummary
  <1>1. CASE PreviewAdmitted(r)
    BY <1>1 DEF PreviewAdmitted
  <1>2. CASE PreviewDenied(r)
    BY <1>2 DEF PreviewDenied
  <1>3. CASE Repropose(r)
    BY <1>3 DEF Repropose
  <1>4. CASE BuildDiff(r)
    BY <1>4 DEF BuildDiff
  <1>5. CASE ScopeViolation(r)
    BY <1>5 DEF ScopeViolation
  <1>6. CASE AttemptFails(r)
    BY <1>6, PolicyAssumption DEF AttemptFails
  <1>7. CASE PreviewPasses(r)
    BY <1>7 DEF PreviewPasses
  <1>8. CASE AskLanding(r)
    BY <1>8 DEF AskLanding
  <1> QED BY <1>1, <1>2, <1>3, <1>4, <1>5, <1>6, <1>7, <1>8 DEF PreviewStep

\* the steps of apply_landing_diff,
LEMMA LandingTyped ==
    ASSUME RunTypeOK, NEW r \in Runs, LandingStep(r)
    PROVE  RunTypeOK'
  <1> USE FileTypes DEF RunTypeOK, checkout, stateFile, history, Goto, Return, Raise,
                        SavePhase, FailWith, SaveSummary
  <1>1. CASE LandingAdmitted(r)
    BY <1>1 DEF LandingAdmitted
  <1>2. CASE LandingDenied(r)
    BY <1>2 DEF LandingDenied
  <1>3. CASE GitCheck(r)
    BY <1>3 DEF GitCheck
  <1>4. CASE GitApply(r)
    BY <1>4 DEF GitApply
  <1>5. CASE GitApplyFails(r)
    BY <1>5 DEF GitApplyFails
  <1>6. CASE MainAcceptancePasses(r)
    BY <1>6 DEF MainAcceptancePasses
  <1>7. CASE MainAcceptanceFails(r)
    BY <1>7 DEF MainAcceptanceFails
  <1>8. CASE Rollback(r)
    BY <1>8 DEF Rollback
  <1>9. CASE SaveRollbackFailure(r)
    BY <1>9 DEF SaveRollbackFailure
  <1> QED BY <1>1, <1>2, <1>3, <1>4, <1>5, <1>6, <1>7, <1>8, <1>9 DEF LandingStep

\* an interruption at any of them,
LEMMA InterruptedTyped ==
    ASSUME RunTypeOK, NEW r \in Runs, Interrupted(r)
    PROVE  RunTypeOK'
  <1> USE FileTypes DEF RunTypeOK, checkout, stateFile, history, Goto, Return, Raise,
                        SavePhase, FailWith, SaveSummary
  <1>1. CASE Terminated(r)
    BY <1>1, BoundAssumption DEF Terminated, LeaveFiles, TearFile
  <1>2. CASE Excepted(r)
    BY <1>2, BoundAssumption DEF Excepted, LeaveFiles, TearFile
  <1> QED BY <1>1, <1>2 DEF Interrupted

\* the calls that start a process, and the one that takes its result.
LEMMA CallsTyped ==
    ASSUME RunTypeOK, NEW r \in Runs, CallPrepare(r) \/ CallResume(r)
    PROVE  RunTypeOK'
  <1> USE FileTypes DEF RunTypeOK, checkout, stateFile, history, Goto, Return, Raise,
                        SavePhase, FailWith, SaveSummary
  <1>1. CASE CallPrepare(r)
    BY <1>1 DEF CallPrepare
  <1>2. CASE CallResume(r)
    BY <1>2 DEF CallResume, ResumeStep
  <1> QED BY <1>1, <1>2

-----------------------------------------------------------------------------
(***************************************************************************)
(* What a run has behind it.  Late(r): a diff was put up for landing, or   *)
(* the run is over; no step leads back from there to the preview.  Ordered *)
(* relates the step a process is at, the state file, the summary and the   *)
(* two history variables.                                                  *)
(***************************************************************************)
Late(r) ==
    /\ phase[r] \in {"await_landing_approval", "failed", "completed", "torn"}
    /\ rundir[r] # "absent"
    /\ pc[r] \in Landing \cup {"idle", "done", "landing_pending", "pause_state",
                 "pause_summary", "fail_summary", "resave_summary"}

Ordered(r) ==
    /\ rundir[r] = "absent" => phase[r] = "absent" /\ pc[r] \in {"idle", "done"}
    /\ pc[r] \in {"pause_state", "pause_summary"} =>
          phase[r] \in {"await_plan_approval", "await_landing_approval"}
    /\ pc[r] \in (Landing \ {"pass_summary"}) \cup {"landing_pending"} =>
          phase[r] = "await_landing_approval"
    /\ pc[r] = "pass_summary" => phase[r] = "completed"
    /\ pc[r] = "fail_summary" => phase[r] = "failed"
    /\ phase[r] \in Terminal =>
          pc[r] \in {"idle", "done", "resave_summary", "fail_summary", "pass_summary"}
    /\ summary[r] = Sum("paused", "landing") \/ ret[r] = Sum("paused", "landing") => Late(r)
    /\ pc[r] \in {"git_check", "git_apply"} => diff[r] # 0
    /\ pc[r] \in Applying => applied[r] # 0
    /\ summary[r].status = "pass" \/ ret[r].status = "pass" => phase[r] = "completed"
    /\ summary[r].status = "fail" \/ ret[r].status = "fail" => phase[r] = "failed"
    /\ phase[r] = "completed" \/ pc[r] \in {"pass_state", "pass_summary"} =>
          validated[r] = applied[r] /\ applied[r] # 0

RunOrder == \A r \in Runs : Ordered(r)

\* What one step of a process of run r can do to r: a terminal run stays what it
\* is and out of the checkout; the diff changes only before the run is late, and late it stays; landing is entered only with an
\* approved landing in the approval file; only `git apply` puts the diff into
\* the checkout; and the approval file says approved only if it said so before
\* or while landing is under way.
Own(r) ==
    /\ phase[r] \in Terminal => phase'[r] = phase[r] /\ (r \in tree' => r \in tree)
    /\ Late(r) => Late(r)' /\ diff'[r] = diff[r]
    /\ diff'[r] = diff[r] \/ pc[r] = "build"
    /\ pc'[r] \in Landing => pc[r] \in Landing
                               \/ /\ pc[r] = "idle" /\ Late(r)'
                                  /\ approval[r] = Ap("landing", "approved")
    /\ pc'[r] \in Applying => pc[r] \in Applying \cup {"git_apply"}
    /\ \/ applied'[r] = applied[r] /\ (r \in tree' => r \in tree)
          /\ (pc'[r] \in Applying => pc[r] \in Applying)
       \/ /\ pc[r] = "git_apply" /\ r \notin tree /\ tree' = tree \cup {r}
          /\ applied'[r] = diff[r] /\ diff[r] # 0 /\ diff'[r] = diff[r]
    /\ \/ approval'[r] = approval[r]
       \/ approval'[r].status # "approved"
       \/ pc[r] = "main_acceptance" /\ approval'[r] = Ap("landing", "approved")

\* To another run q it does nothing; `git apply -R` takes out only r's diff.
Spares(q) ==
    /\ rundir'[q] = rundir[q] /\ phase'[q] = phase[q] /\ pc'[q] = pc[q]
    /\ approval'[q] = approval[q] /\ summary'[q] = summary[q] /\ ret'[q] = ret[q]
    /\ diff'[q] = diff[q] /\ applied'[q] = applied[q] /\ validated'[q] = validated[q]
    /\ q \in tree' => q \in tree

Footprint(r) == Own(r) /\ \A q \in Runs \ {r} : Spares(q)

\* Initially nothing is behind any run.
LEMMA RunInitOrdered == RunInit => RunOrder
  <1> SUFFICES ASSUME RunInit, NEW r \in Runs PROVE Ordered(r)
    BY DEF RunOrder
  <1> USE DEF RunInit, Sum
  <1>1. summary[r] # Sum("paused", "landing") /\ ret[r] # Sum("paused", "landing")
    OBVIOUS
  <1>2. summary[r].status = "absent" /\ ret[r].status = "absent"
    OBVIOUS
  <1> QED BY <1>1, <1>2 DEF Ordered, Landing, Applying

\* The steps of prepare_run stay in order.
LEMMA PrepareOrdered ==
    ASSUME RunTypeOK, NEW r \in Runs, Ordered(r), PrepareStep(r)
    PROVE  Ordered(r)' /\ Own(r)
  <1> USE DEF RunTypeOK, Ordered, Own, Late, Landing, Applying, checkout, stateFile,
              history, Goto, Return, Raise, SavePhase, FailWith, SaveSummary, Ap, Sum
  <1>1. CASE PreflightFails(r)
    BY <1>1 DEF PreflightFails
  <1>2. CASE PreflightPasses(r)
    BY <1>2 DEF PreflightPasses
  <1>3. CASE InitializeApproval(r)
    BY <1>3 DEF InitializeApproval
  <1>4. CASE SaveInitialState(r)
    BY <1>4 DEF SaveInitialState
  <1>5. CASE ProposalReady(r)
    BY <1>5 DEF ProposalReady
  <1>6. CASE ProposalFails(r)
    BY <1>6 DEF ProposalFails
  <1> QED BY <1>1, <1>2, <1>3, <1>4, <1>5, <1>6 DEF PrepareStep

\* So do the steps that save a result,
LEMMA ResultOrdered ==
    ASSUME RunTypeOK, NEW r \in Runs, Ordered(r), ResultStep(r)
    PROVE  Ordered(r)' /\ Own(r)
  <1> USE DEF RunTypeOK, Ordered, Own, Late, Landing, Applying, checkout, stateFile,
              history, Goto, Return, Raise, SavePhase, FailWith, SaveSummary, Ap, Sum
  <1>1. CASE SavePausedState(r)
    BY <1>1 DEF SavePausedState
  <1>2. CASE SavePausedSummary(r)
    BY <1>2 DEF SavePausedSummary, PausedAt
  <1>3. CASE SaveFailSummary(r)
    BY <1>3 DEF SaveFailSummary
  <1>4. CASE ResaveSummary(r)
    BY <1>4 DEF ResaveSummary
  <1>5. CASE SavePassState(r)
    BY <1>5 DEF SavePassState
  <1>6. CASE SavePassSummary(r)
    BY <1>6 DEF SavePassSummary
  <1> QED BY <1>1, <1>2, <1>3, <1>4, <1>5, <1>6 DEF ResultStep

\* the steps of the worktree preview,
LEMMA PreviewOrdered ==
    ASSUME RunTypeOK, NEW r \in Runs, Ordered(r), PreviewStep(r)
    PROVE  Ordered(r)' /\ Own(r)
  <1> USE DEF RunTypeOK, Ordered, Own, Late, Landing, Applying, checkout, stateFile,
              history, Goto, Return, Raise, SavePhase, FailWith, SaveSummary, Ap, Sum
  <1>1. CASE PreviewAdmitted(r)
    BY <1>1 DEF PreviewAdmitted
  <1>2. CASE PreviewDenied(r)
    BY <1>2 DEF PreviewDenied
  <1>3. CASE Repropose(r)
    BY <1>3 DEF Repropose
  <1>4. CASE BuildDiff(r)
    BY <1>4 DEF BuildDiff
  <1>5. CASE ScopeViolation(r)
    BY <1>5 DEF ScopeViolation
  <1>6. CASE AttemptFails(r)
    BY <1>6 DEF AttemptFails
  <1>7. CASE PreviewPasses(r)
    BY <1>7 DEF PreviewPasses
  <1>8. CASE AskLanding(r)
    BY <1>8 DEF AskLanding
  <1> QED BY <1>1, <1>2, <1>3, <1>4, <1>5, <1>6, <1>7, <1>8 DEF PreviewStep

\* the steps of apply_landing_diff,
LEMMA LandingOrdered ==
    ASSUME RunTypeOK, NEW r \in Runs, Ordered(r), LandingStep(r)
    PROVE  Ordered(r)' /\ Own(r)
  <1> USE DEF RunTypeOK, Ordered, Own, Late, Landing, Applying, checkout, stateFile,
              history, Goto, Return, Raise, SavePhase, FailWith, SaveSummary, Ap, Sum
  <1>1. CASE LandingAdmitted(r)
    BY <1>1 DEF LandingAdmitted
  <1>2. CASE LandingDenied(r)
    BY <1>2 DEF LandingDenied
  <1>3. CASE GitCheck(r)
    BY <1>3 DEF GitCheck
  <1>4. CASE GitApply(r)
    BY <1>4 DEF GitApply
  <1>5. CASE GitApplyFails(r)
    BY <1>5 DEF GitApplyFails
  <1>6. CASE MainAcceptancePasses(r)
    BY <1>6 DEF MainAcceptancePasses
  <1>7. CASE MainAcceptanceFails(r)
    BY <1>7 DEF MainAcceptanceFails
  <1>8. CASE Rollback(r)
    BY <1>8 DEF Rollback
  <1>9. CASE SaveRollbackFailure(r)
    BY <1>9 DEF SaveRollbackFailure
  <1> QED BY <1>1, <1>2, <1>3, <1>4, <1>5, <1>6, <1>7, <1>8, <1>9 DEF LandingStep

\* an interruption at any of them,
LEMMA InterruptedOrdered ==
    ASSUME RunTypeOK, NEW r \in Runs, Ordered(r), Interrupted(r)
    PROVE  Ordered(r)' /\ Own(r)
  <1> USE DEF RunTypeOK, Ordered, Own, Late, Landing, Applying, checkout, stateFile,
              history, Goto, Return, Raise, SavePhase, FailWith, SaveSummary, Ap, Sum
  <1>1. CASE Terminated(r)
    BY <1>1 DEF Terminated, LeaveFiles, TearFile
  <1>2. CASE Excepted(r)
    BY <1>2 DEF Excepted, LeaveFiles, TearFile
  <1> QED BY <1>1, <1>2 DEF Interrupted

\* the call of prepare_run, which answers only for a run directory that is there,
LEMMA CallPrepareOrdered ==
    ASSUME RunTypeOK, NEW r \in Runs, Ordered(r), CallPrepare(r)
    PROVE  Ordered(r)' /\ Own(r)
  <1> USE DEF RunTypeOK, Ordered, Own, Late, Landing, Applying, checkout, stateFile,
              history, Goto, Return, Raise, SavePhase, FailWith, SaveSummary, Ap, Sum
  <1> QED BY DEF CallPrepare

\* the call of resume_run,
LEMMA CallResumeOrdered ==
    ASSUME RunTypeOK, NEW r \in Runs, Ordered(r), CallResume(r)
    PROVE  Ordered(r)' /\ Own(r)
  <1> USE DEF RunTypeOK, Ordered, Own, Late, Landing, Applying, checkout, stateFile,
              history, Goto, Return, Raise, SavePhase, FailWith, SaveSummary, Ap, Sum
  <1>1. CASE MissingInput(r)
    BY <1>1 DEF CallResume
  <1>2. CASE ~MissingInput(r) /\ OnlyResaves(r)
    BY <1>2 DEF CallResume, OnlyResaves
  <1>3. CASE ~MissingInput(r) /\ ~OnlyResaves(r) /\ approval[r].status = "invalid"
    BY <1>3 DEF CallResume, MissingInput, OnlyResaves
  <1>4. CASE ~MissingInput(r) /\ ~OnlyResaves(r) /\ approval[r].status # "invalid"
    BY <1>4 DEF CallResume, MissingInput, OnlyResaves, ResumeStep
  <1> QED BY <1>1, <1>2, <1>3, <1>4

\* No step of one run touches another run's files: those of prepare_run do not,
LEMMA PrepareSpares ==
    ASSUME RunTypeOK, NEW r \in Runs, NEW q \in Runs \ {r}, PrepareStep(r)
    PROVE  Spares(q)
  <1> USE DEF RunTypeOK, Spares, checkout, stateFile, history, Goto, Return, Raise,
              SavePhase, FailWith, SaveSummary
  <1>1. CASE PreflightFails(r)
    BY <1>1 DEF PreflightFails
  <1>2. CASE PreflightPasses(r)
    BY <1>2 DEF PreflightPasses
  <1>3. CASE InitializeApproval(r)
    BY <1>3 DEF InitializeApproval
  <1>4. CASE SaveInitialState(r)
    BY <1>4 DEF SaveInitialState
  <1>5. CASE ProposalReady(r)
    BY <1>5 DEF ProposalReady
  <1>6. CASE ProposalFails(r)
    BY <1>6 DEF ProposalFails
  <1> QED BY <1>1, <1>2, <1>3, <1>4, <1>5, <1>6 DEF PrepareStep

\* nor those that save a result,
LEMMA ResultSpares ==
    ASSUME RunTypeOK, NEW r \in Runs, NEW q \in Runs \ {r}, ResultStep(r)
    PROVE  Spares(q)
  <1> USE DEF RunTypeOK, Spares, checkout, stateFile, history, Goto, Return, Raise,
              SavePhase, FailWith, SaveSummary
  <1>1. CASE SavePausedState(r)
    BY <1>1 DEF SavePausedState
  <1>2. CASE SavePausedSummary(r)
    BY <1>2 DEF SavePausedSummary, PausedAt
  <1>3. CASE SaveFailSummary(r)
    BY <1>3 DEF SaveFailSummary
  <1>4. CASE ResaveSummary(r)
    BY <1>4 DEF ResaveSummary
  <1>5. CASE SavePassState(r)
    BY <1>5 DEF SavePassState
  <1>6. CASE SavePassSummary(r)
    BY <1>6 DEF SavePassSummary
  <1> QED BY <1>1, <1>2, <1>3, <1>4, <1>5, <1>6 DEF ResultStep

\* those of the preview,
LEMMA PreviewSpares ==
    ASSUME RunTypeOK, NEW r \in Runs, NEW q \in Runs \ {r}, PreviewStep(r)
    PROVE  Spares(q)
  <1> USE DEF RunTypeOK, Spares, checkout, stateFile, history, Goto, Return, Raise,
              SavePhase, FailWith, SaveSummary
  <1>1. CASE PreviewAdmitted(r)
    BY <1>1 DEF PreviewAdmitted
  <1>2. CASE PreviewDenied(r)
    BY <1>2 DEF PreviewDenied
  <1>3. CASE Repropose(r)
    BY <1>3 DEF Repropose
  <1>4. CASE BuildDiff(r)
    BY <1>4 DEF BuildDiff
  <1>5. CASE ScopeViolation(r)
    BY <1>5 DEF ScopeViolation
  <1>6. CASE AttemptFails(r)
    BY <1>6 DEF AttemptFails
  <1>7. CASE PreviewPasses(r)
    BY <1>7 DEF PreviewPasses
  <1>8. CASE AskLanding(r)
    BY <1>8 DEF AskLanding
  <1> QED BY <1>1, <1>2, <1>3, <1>4, <1>5, <1>6, <1>7, <1>8 DEF PreviewStep

\* those of the landing,
LEMMA LandingSpares ==
    ASSUME RunTypeOK, NEW r \in Runs, NEW q \in Runs \ {r}, LandingStep(r)
    PROVE  Spares(q)
  <1> USE DEF RunTypeOK, Spares, checkout, stateFile, history, Goto, Return, Raise,
              SavePhase, FailWith, SaveSummary
  <1>1. CASE LandingAdmitted(r)
    BY <1>1 DEF LandingAdmitted
  <1>2. CASE LandingDenied(r)
    BY <1>2 DEF LandingDenied
  <1>3. CASE GitCheck(r)
    BY <1>3 DEF GitCheck
  <1>4. CASE GitApply(r)
    BY <1>4 DEF GitApply
  <1>5. CASE GitApplyFails(r)
    BY <1>5 DEF GitApplyFails
  <1>6. CASE MainAcceptancePasses(r)
    BY <1>6 DEF MainAcceptancePasses
  <1>7. CASE MainAcceptanceFails(r)
    BY <1>7 DEF MainAcceptanceFails
  <1>8. CASE Rollback(r)
    BY <1>8 DEF Rollback
  <1>9. CASE SaveRollbackFailure(r)
    BY <1>9 DEF SaveRollbackFailure
  <1> QED BY <1>1, <1>2, <1>3, <1>4, <1>5, <1>6, <1>7, <1>8, <1>9 DEF LandingStep

\* nor a call or an interruption.
LEMMA OthersSpare ==
    ASSUME RunTypeOK, NEW r \in Runs, NEW q \in Runs \ {r}, CallPrepare(r) \/ CallResume(r) \/ Interrupted(r)
    PROVE  Spares(q)
  <1> USE DEF RunTypeOK, Spares, checkout, stateFile, history, Goto, Return, Raise,
              SavePhase, FailWith, SaveSummary
  <1>1. CASE CallPrepare(r)
    BY <1>1 DEF CallPrepare
  <1>2. CASE CallResume(r)
    BY <1>2 DEF CallResume, ResumeStep
  <1>3. CASE Terminated(r)
    BY <1>3 DEF Terminated, LeaveFiles, TearFile
  <1>4. CASE Excepted(r)
    BY <1>4 DEF Excepted, LeaveFiles, TearFile
  <1> QED BY <1>1, <1>2, <1>3, <1>4 DEF Interrupted

\* A step of the process that works on run r, or of the one that starts it.
ProcessStep(r) == RunnerStep(r) \/ CallPrepare(r) \/ CallResume(r) \/ Interrupted(r)

\* A step of the runner needs a process at work.
LEMMA RunnerWorks == ASSUME NEW r \in Runs, RunnerStep(r) PROVE pc[r] \in Working
  <1>1. PrepareStep(r) => pc[r] \in Working
    BY DEF PrepareStep, PreflightFails, PreflightPasses, InitializeApproval,
           SaveInitialState, ProposalReady, ProposalFails
  <1>2. ResultStep(r) => pc[r] \in Working
    BY DEF ResultStep, SavePausedState, SavePausedSummary, SaveFailSummary, ResaveSummary,
           SavePassState, SavePassSummary
  <1>3. PreviewStep(r) => pc[r] \in Working
    BY DEF PreviewStep, PreviewAdmitted, PreviewDenied, Repropose, BuildDiff,
           ScopeViolation, AttemptFails, PreviewPasses, AskLanding
  <1>4. LandingStep(r) => pc[r] \in Working
    BY DEF LandingStep, LandingAdmitted, LandingDenied, GitCheck, GitApply, GitApplyFails,
           MainAcceptancePasses, MainAcceptanceFails, Rollback, SaveRollbackFailure
  <1> QED BY <1>1, <1>2, <1>3, <1>4 DEF RunnerStep

\* Every such step keeps types and order and stays within the footprint of r.
LEMMA ProcessStepOrdered ==
    ASSUME RunTypeOK, RunOrder, NEW r \in Runs, ProcessStep(r)
    PROVE  RunTypeOK' /\ RunOrder' /\ Footprint(r)
  <1>1. RunTypeOK'
    BY PrepareTyped, ResultTyped, PreviewTyped, LandingTyped, InterruptedTyped, CallsTyped
       DEF ProcessStep, RunnerStep
  <1>2. Ordered(r)' /\ Own(r)
    BY PrepareOrdered, ResultOrdered, PreviewOrdered, LandingOrdered, InterruptedOrdered,
       CallPrepareOrdered, CallResumeOrdered DEF ProcessStep, RunnerStep, RunOrder
  <1>3. ASSUME NEW q \in Runs \ {r} PROVE Spares(q)
    BY PrepareSpares, ResultSpares, PreviewSpares, LandingSpares, OthersSpare
       DEF ProcessStep, RunnerStep
  <1>4. ASSUME NEW q \in Runs \ {r} PROVE Ordered(q)'
    BY <1>3, <1>4 DEF RunOrder, Ordered, Late, Spares
  <1> QED BY <1>1, <1>2, <1>3, <1>4 DEF RunOrder, Footprint

\* Taking the result of a process ends it and leaves every file alone.
LEMMA TakeResultOrdered ==
    ASSUME RunTypeOK, RunOrder, NEW r \in Runs, TakeResult(r),
           UNCHANGED <<checkout, rundir, base, stateFile, approval, summary, diff,
                       faults, history>>
    PROVE  RunTypeOK' /\ RunOrder' /\ Footprint(r)
  <1> USE DEF TakeResult, checkout, stateFile, history
  <1>1. RunTypeOK'
    BY FileTypes DEF RunTypeOK
  <1>2. ret'[r] = Sum("absent", "none") /\ pc'[r] = "idle"
    BY DEF RunTypeOK
  <1>3. Ordered(r)' /\ Own(r)
    BY <1>2 DEF RunTypeOK, RunOrder, Ordered, Own, Late, Landing, Applying, Sum
  <1>4. ASSUME NEW q \in Runs \ {r} PROVE Spares(q)
    BY DEF RunTypeOK, Spares
  <1>5. ASSUME NEW q \in Runs \ {r} PROVE Ordered(q)'
    BY <1>4, <1>5 DEF RunOrder, Ordered, Late, Spares
  <1> QED BY <1>1, <1>3, <1>4, <1>5 DEF RunOrder, Footprint

\* The operator of the checkout changes no run's files and adds no run's diff.
LEMMA EnvironmentOrdered ==
    ASSUME RunTypeOK, RunOrder, Environment
    PROVE  RunTypeOK' /\ RunOrder' /\ \A q \in Runs : Spares(q)
  <1> USE DEF Environment, OperatorEdits, OperatorRestores, OperatorCommits, stateFile, history
  <1>1. RunTypeOK'
    BY BoundAssumption DEF RunTypeOK
  <1>2. ASSUME NEW q \in Runs PROVE Spares(q)
    BY RunsAssumption DEF Spares
  <1>3. ASSUME NEW q \in Runs PROVE Ordered(q)'
    BY <1>2, <1>3 DEF RunOrder, Ordered, Late, Spares
  <1> QED BY <1>1, <1>2, <1>3 DEF RunOrder

=============================================================================
