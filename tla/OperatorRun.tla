------------------------------ MODULE OperatorRun ------------------------------
(***************************************************************************)
(* The governed runner as an operator drives it from the command line      *)
(* (aoa_governed_run.py): `run`, `resume`, and the approval file edited by *)
(* hand after the paused summary was read.  One such process per run at a  *)
(* time; several runs may share the checkout, on which the runner takes no *)
(* lock.  `audit`, `replay-review-packets` and `handoff-brief` may run at  *)
(* any time beside it: each reads the summary and saves it again later.    *)
(***************************************************************************)
EXTENDS GovernedRun

CONSTANT MaxAudits  \* bound: audits begun

ASSUME AuditAssumption == MaxAudits \in Nat

VARIABLES
    reviewed, \* history: the diff that was there when landing was approved
    kept,     \* the summary an audit of the run has read and is to save again
    audits    \* audits begun so far

vars == <<runVars, reviewed, kept, audits>>

Nothing == Sum("absent", "none")

TypeOK ==
    /\ RunTypeOK
    /\ reviewed \in [Runs -> Nat] /\ kept \in [Runs -> Summaries]
    /\ audits \in 0..MaxAudits

Init ==
    /\ RunInit
    /\ reviewed = [r \in Runs |-> 0] /\ kept = [r \in Runs |-> Nothing]
    /\ audits = 0

\* The operator answers the milestone that the paused summary names, with a
\* verdict or with a file that no longer matches the run.
Review(r, status) ==
    /\ summary[r].status = "paused" /\ Readable(approval[r])
    /\ approval' = [approval EXCEPT ![r] = Ap(summary[r].milestone, status)]
    /\ reviewed' = [reviewed EXCEPT ![r] =
                      IF summary[r].milestone = "landing" /\ status = "approved"
                         THEN diff[r] ELSE @]
    /\ UNCHANGED <<checkout, rundir, base, stateFile, summary, diff, pc, ret,
                   faults, history, kept, audits>>

TakePrinted(r) ==
    /\ TakeResult(r)
    /\ UNCHANGED <<checkout, rundir, base, stateFile, approval, summary, diff,
                   faults, history>>

\* load_summary_or_synthesize.  Only a run that never paused has no summary: its
\* status is the state file's, and its approval still names plan_freeze.
Synthesized(r) ==
    {Sum(s, "plan_freeze") :
        s \in IF phase[r] = "failed" THEN {"fail"} ELSE {"running", "paused"}}

\* Any of the three commands reads state, approval file and summary.
AuditReads(r) ==
    /\ kept[r] = Nothing /\ audits < MaxAudits /\ audits' = audits + 1
    /\ phase[r] \notin {"absent", "torn"}
    /\ approval[r].status # "torn" /\ summary[r].status # "torn"
    /\ \E s \in IF summary[r].status = "absent" THEN Synthesized(r) ELSE {summary[r]} :
          kept' = [kept EXCEPT ![r] = s]
    /\ UNCHANGED <<runVars, reviewed>>

\* It saves the summary it has read, with its review packets, whatever the
\* summary is by now; handoff-brief then reads and saves a second time.
AuditSaves(r) ==
    /\ kept[r] # Nothing /\ approval[r].status # "torn"
    /\ summary' = [summary EXCEPT ![r] = kept[r]]
    /\ kept' = [kept EXCEPT ![r] = Nothing]
    /\ UNCHANGED <<checkout, rundir, base, stateFile, approval, diff, pc, ret, faults,
                   history, reviewed, audits>>

\* It raises or is killed, before the summary is saved or in the middle of it.
AuditEnds(r) ==
    /\ kept[r] # Nothing
    /\ kept' = [kept EXCEPT ![r] = Nothing]
    /\ \/ UNCHANGED <<summary, faults>>
       \/ /\ TornWrites /\ faults < MaxFaults /\ faults' = faults + 1
          /\ summary' = [summary EXCEPT ![r] = Sum("torn", "none")]
    /\ UNCHANGED <<checkout, rundir, base, stateFile, approval, diff, pc, ret,
                   history, reviewed, audits>>

Unaudited == UNCHANGED <<reviewed, kept, audits>>

Next ==
    \/ \E r \in Runs : /\ \/ CallPrepare(r) \/ CallResume(r) \/ RunnerStep(r)
                          \/ Interrupted(r) \/ TakePrinted(r)
                       /\ Unaudited
    \/ \E r \in Runs : AuditReads(r) \/ AuditSaves(r) \/ AuditEnds(r)
    \/ \E r \in Runs, status \in {"approved", "rejected", "invalid"} : Review(r, status)
    \/ Environment /\ Unaudited

Spec == Init /\ [][Next]_vars

(***************************************************************************)
(* Safety                                                                  *)
(***************************************************************************)

\* What reaches the main checkout is the diff the operator saw when landing
\* was approved, whatever was interrupted and resumed in between: a preview
\* never runs again once a diff is up for landing.
LandedDiffWasReviewed ==
    \A r \in Runs : (r \in tree \/ pc[r] \in Applying) =>
        diff[r] # 0 /\ diff[r] = reviewed[r] /\ applied[r] = diff[r]

\* A summary never reports a run further than its state file has it: every
\* result is saved state first, summary second.
SummaryNeverAheadOfState ==
    \A r \in Runs :
        /\ summary[r].status = "pass" => phase[r] = "completed"
        /\ summary[r].status = "fail" => phase[r] = "failed"
        /\ summary[r] = Sum("paused", "landing") =>
              phase[r] \in {"await_landing_approval", "failed", "completed", "torn"}

\* A run that completed put the reviewed diff into the checkout and that very
\* diff passed the main-checkout acceptance commands.
CompletedRunWasValidated ==
    \A r \in Runs : phase[r] = "completed" =>
        validated[r] # 0 /\ validated[r] = reviewed[r]

\* A failed or completed run is final: resuming it never moves its state and
\* never touches the checkout again.
TerminalRunIsFinal ==
    [][\A r \in Runs : phase[r] \in Terminal =>
          phase'[r] = phase[r] /\ (r \in tree' => r \in tree)]_vars

\* What the runner's document says of step 9 (validation and automatic
\* rollback) and of rollback_failed: a run that failed for any other reason
\* has left no part of its diff in the main checkout.
FailureRestoresCheckout ==
    \A r \in Runs : phase[r] = "failed" /\ fclass[r] # "rollback_failed" => r \notin tree

(***************************************************************************)
(* Liveness: the process goes on, the operator keeps reviewing what is     *)
(* paused and resuming what is not over, and does not always withdraw an   *)
(* approval before resuming with it.                                       *)
(***************************************************************************)
Fairness ==
    \A r \in Runs :
        /\ WF_vars(RunnerStep(r) /\ Unaudited)
        /\ WF_vars(TakePrinted(r) /\ Unaudited)
        /\ SF_vars(CallResume(r) /\ Unaudited)
        /\ SF_vars(/\ approval[r] = Ap(summary[r].milestone, "approved")
                   /\ CallResume(r) /\ Unaudited)
        /\ SF_vars(/\ pc[r] = "idle" /\ approval[r] # Ap(summary[r].milestone, "approved")
                   /\ Review(r, "approved"))

LiveSpec == Spec /\ Fairness

\* A run that asked for its first approval ends, whatever was interrupted, as
\* long as no file was torn and the operator reviews and resumes.
ReviewedRunEnds ==
    \A r \in Runs : phase[r] = "await_plan_approval" ~>
        \/ phase[r] \in Terminal
        \/ "torn" \in {phase[r], approval[r].status, summary[r].status}

=============================================================================
