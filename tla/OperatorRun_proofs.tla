--------------------------- MODULE OperatorRun_proofs ---------------------------
(***************************************************************************)
(* The properties of OperatorRun for any number of runs, any repair budget *)
(* and any number of interruptions, torn files, audits and operator        *)
(* actions.                                                                *)
(***************************************************************************)
EXTENDS OperatorRun, GovernedRun_proofs

\* What is approved for landing, under way to the checkout, in it, or
\* validated, is the diff reviewed; and no step after the review changes it.
ReviewHolds(r) ==
    /\ approval[r] = Ap("landing", "approved") \/ pc[r] \in Landing =>
          Late(r) /\ diff[r] = reviewed[r]
    /\ r \in tree \/ applied[r] # 0 =>
          /\ Late(r) /\ diff[r] = reviewed[r]
          /\ applied[r] = diff[r] /\ diff[r] # 0

\* The summary an audit holds reports the run no further than its state file
\* has it, however long the audit holds it: Late and Terminal are for good.
KeptHolds(r) ==
    /\ kept[r] = Sum("paused", "landing") => Late(r)
    /\ kept[r].status = "pass" => phase[r] = "completed"
    /\ kept[r].status = "fail" => phase[r] = "failed"

IInv == TypeOK /\ RunOrder /\ \A r \in Runs : ReviewHolds(r) /\ KeptHolds(r)

\* Initially nothing is approved, under way or in the checkout.
LEMMA InitIInv == Init => IInv
  <1> SUFFICES ASSUME Init PROVE IInv
    OBVIOUS
  <1>1. TypeOK
    BY RunInitTyped, FileTypes, AuditAssumption DEF Init, TypeOK, Nothing
  <1>2. ASSUME NEW r \in Runs PROVE ReviewHolds(r) /\ KeptHolds(r)
    BY DEF Init, RunInit, ReviewHolds, KeptHolds, Nothing, Ap, Sum, Landing, Applying
  <1> QED BY <1>1, <1>2, RunInitOrdered DEF Init, IInv

\* Within the footprint of any one run every review holds on.
LEMMA FootprintKeepsReview ==
    ASSUME IInv, TypeOK', RunOrder', NEW r \in Runs, Footprint(r), Unaudited
    PROVE  IInv'
  <1> USE DEF Unaudited
  <1>1. ReviewHolds(r)'
    BY DEF IInv, RunOrder, Ordered, Footprint, Own, ReviewHolds, Ap, Landing, Applying, Late
  <1>2. KeptHolds(r)'
    BY DEF IInv, Footprint, Own, KeptHolds, Terminal
  <1>3. ASSUME NEW q \in Runs \ {r} PROVE ReviewHolds(q)' /\ KeptHolds(q)'
    BY <1>3 DEF IInv, Footprint, Spares, ReviewHolds, KeptHolds, Late
  <1> QED BY <1>1, <1>2, <1>3 DEF IInv

\* The operator's review: a landing can only be approved when the paused
\* summary asks for it, and by then the run is late.
LEMMA ReviewKeeps ==
    ASSUME IInv, NEW r \in Runs, NEW status \in {"approved", "rejected", "invalid"},
           Review(r, status)
    PROVE  IInv'
  <1> USE DEF Review, checkout, stateFile, history
  <1>1. Ap(summary[r].milestone, status) \in ApprovalFiles
    BY DEF IInv, TypeOK, RunTypeOK, Summaries, ApprovalFiles, Ap
  <1>2. TypeOK'
    BY <1>1 DEF IInv, TypeOK, RunTypeOK
  <1>3. ASSUME NEW q \in Runs PROVE Ordered(q)'
    BY <1>3 DEF IInv, RunOrder, Ordered, Late
  <1>4. summary[r].milestone = "landing" => summary[r] = Sum("paused", "landing")
    BY DEF IInv, TypeOK, RunTypeOK, Summaries, Sum
  <1>5. summary[r].milestone = "landing" => Late(r)
    BY <1>4 DEF IInv, RunOrder, Ordered
  <1>6. approval'[r] = Ap(summary[r].milestone, status)
    BY DEF IInv, TypeOK, RunTypeOK
  <1>7. approval'[r] = Ap("landing", "approved") =>
           summary[r].milestone = "landing" /\ status = "approved"
    BY <1>6 DEF Ap
  <1>8. reviewed'[r] = diff[r] \/ reviewed'[r] = reviewed[r]
    BY DEF IInv, TypeOK
  <1>9. approval'[r] = Ap("landing", "approved") => reviewed'[r] = diff[r]
    BY <1>7 DEF IInv, TypeOK
  <1>10. ReviewHolds(r)'
    BY <1>5, <1>7, <1>8, <1>9 DEF IInv, ReviewHolds, Late
  <1>11. ASSUME NEW q \in Runs \ {r} PROVE ReviewHolds(q)'
    BY <1>11 DEF IInv, TypeOK, RunTypeOK, ReviewHolds, Late
  <1>12. ASSUME NEW q \in Runs PROVE KeptHolds(q)'
    BY <1>12 DEF IInv, KeptHolds, Late
  <1> QED BY <1>2, <1>3, <1>10, <1>11, <1>12 DEF IInv, RunOrder

\* An audit holds a summary that keeps to the order, and may save it at any
\* later time without breaking the order.
LEMMA AuditKeeps ==
    ASSUME IInv, NEW r \in Runs, AuditReads(r) \/ AuditSaves(r) \/ AuditEnds(r)
    PROVE  IInv'
  <1> USE DEF IInv, TypeOK, RunTypeOK, checkout, stateFile, history
  <1>1. CASE AuditReads(r)
    <2> USE <1>1 DEF AuditReads, runVars
    <2>1. PICK s \in IF summary[r].status = "absent" THEN Synthesized(r) ELSE {summary[r]} :
             kept' = [kept EXCEPT ![r] = s]
      OBVIOUS
    <2>2. /\ s \in Summaries
          /\ s = summary[r] \/ \E w \in {"running", "paused", "fail"} :
                /\ s = Sum(w, "plan_freeze")
                /\ w = "fail" => phase[r] = "failed"
      BY FileTypes DEF Synthesized, Milestones
    <2>3. TypeOK'
      <3>1. kept' \in [Runs -> Summaries]
        BY <2>1, <2>2
      <3>2. audits' \in 0..MaxAudits
        BY AuditAssumption
      <3> QED BY <3>1, <3>2
    <2>4. ASSUME NEW q \in Runs PROVE Ordered(q)' /\ ReviewHolds(q)'
      BY <2>4 DEF RunOrder, Ordered, ReviewHolds, Late
    <2>5. KeptHolds(r)'
      BY <2>1, <2>2 DEF RunOrder, Ordered, KeptHolds, Late, Sum
    <2>6. ASSUME NEW q \in Runs \ {r} PROVE KeptHolds(q)'
      BY <2>1, <2>6 DEF KeptHolds, Late
    <2> QED BY <2>3, <2>4, <2>5, <2>6 DEF RunOrder
  <1>2. CASE AuditSaves(r) \/ AuditEnds(r)
    <2>1. summary'[r] = summary[r] \/ summary'[r] = kept[r] \/ summary'[r] = Sum("torn", "none")
      BY <1>2 DEF AuditSaves, AuditEnds
    <2>2. \A q \in Runs \ {r} : summary'[q] = summary[q] /\ kept'[q] = kept[q]
      BY <1>2 DEF AuditSaves, AuditEnds
    <2>3. kept'[r] = Nothing
      BY <1>2 DEF AuditSaves, AuditEnds
    <2>4. TypeOK'
      <3>1. Nothing \in Summaries /\ Sum("torn", "none") \in Summaries
        BY FileTypes DEF Nothing
      <3>2. kept' \in [Runs -> Summaries] /\ summary' \in [Runs -> Summaries]
        BY <1>2, <3>1 DEF AuditSaves, AuditEnds
      <3>3. faults' \in 0..MaxFaults
        BY <1>2, BoundAssumption DEF AuditSaves, AuditEnds
      <3> QED BY <1>2, <3>2, <3>3 DEF AuditSaves, AuditEnds
    <2>5. ASSUME NEW q \in Runs
          PROVE  /\ phase'[q] = phase[q] /\ rundir'[q] = rundir[q] /\ pc'[q] = pc[q]
                 /\ approval'[q] = approval[q] /\ ret'[q] = ret[q] /\ diff'[q] = diff[q]
                 /\ applied'[q] = applied[q] /\ validated'[q] = validated[q]
                 /\ reviewed'[q] = reviewed[q] /\ tree' = tree
      BY <1>2 DEF AuditSaves, AuditEnds
    <2>6. Ordered(r)'
      BY <2>1, <2>5 DEF RunOrder, Ordered, KeptHolds, Late, Sum
    <2>7. ASSUME NEW q \in Runs \ {r} PROVE Ordered(q)'
      BY <2>2, <2>5, <2>7 DEF RunOrder, Ordered, Late
    <2>8. ASSUME NEW q \in Runs PROVE ReviewHolds(q)'
      BY <2>5, <2>8 DEF ReviewHolds, Late
    <2>9. ASSUME NEW q \in Runs PROVE KeptHolds(q)'
      BY <2>2, <2>3, <2>5, <2>9 DEF KeptHolds, Late, Nothing, Sum
    <2> QED BY <2>4, <2>6, <2>7, <2>8, <2>9 DEF RunOrder
  <1> QED BY <1>1, <1>2

\* Every step keeps the inductive invariant.
LEMMA NextIInv == IInv /\ [Next]_vars => IInv'
  <1> SUFFICES ASSUME IInv, [Next]_vars PROVE IInv'
    OBVIOUS
  <1> USE DEF IInv, TypeOK
  <1>1. ASSUME NEW r \in Runs, ProcessStep(r), Unaudited PROVE IInv'
    BY <1>1, ProcessStepOrdered, FootprintKeepsReview DEF Unaudited
  <1>2. ASSUME NEW r \in Runs, TakePrinted(r), Unaudited PROVE IInv'
    BY <1>2, TakeResultOrdered, FootprintKeepsReview DEF TakePrinted, Unaudited
  <1>3. ASSUME NEW r \in Runs, NEW status \in {"approved", "rejected", "invalid"},
               Review(r, status)
        PROVE  IInv'
    BY <1>3, ReviewKeeps
  <1>4. CASE Environment /\ Unaudited
    <2>1. TypeOK' /\ RunOrder' /\ \A q \in Runs : Spares(q)
      BY <1>4, EnvironmentOrdered DEF Unaudited
    <2>2. ASSUME NEW q \in Runs PROVE ReviewHolds(q)' /\ KeptHolds(q)'
      BY <1>4, <2>1, <2>2 DEF Spares, ReviewHolds, KeptHolds, Late, Unaudited
    <2> QED BY <2>1, <2>2
  <1>5. ASSUME NEW r \in Runs, AuditReads(r) \/ AuditSaves(r) \/ AuditEnds(r) PROVE IInv'
    BY <1>5, AuditKeeps
  <1>6. CASE UNCHANGED vars
    BY <1>6 DEF vars, runVars, RunTypeOK, RunOrder, Ordered, ReviewHolds, KeptHolds, Late
  <1> QED BY <1>1, <1>2, <1>3, <1>4, <1>5, <1>6 DEF Next, ProcessStep

\* The inductive invariant holds of the runner driven from the command line.
THEOREM Inductive == Spec => []IInv
  BY InitIInv, NextIInv, PTL DEF Spec

\* Every file of every run keeps its type, torn or not.
THEOREM TypeCorrect == Spec => []TypeOK
  <1>1. IInv => TypeOK
    BY DEF IInv
  <1> QED BY <1>1, Inductive, PTL

\* What is in the checkout, or under way to it, is the diff the operator saw
\* when landing was approved.
THEOREM ReviewedDiffOnly == Spec => []LandedDiffWasReviewed
  <1>1. IInv => LandedDiffWasReviewed
    BY DEF IInv, RunOrder, Ordered, ReviewHolds, LandedDiffWasReviewed
  <1> QED BY <1>1, Inductive, PTL

\* A summary on disk never reports a run further than its state file has it.
THEOREM SummaryFollowsState == Spec => []SummaryNeverAheadOfState
  <1>1. IInv => SummaryNeverAheadOfState
    BY DEF IInv, RunOrder, Ordered, Late, SummaryNeverAheadOfState
  <1> QED BY <1>1, Inductive, PTL

\* A completed run stands on the reviewed diff, accepted in the main checkout.
THEOREM CompletedIsValidated == Spec => []CompletedRunWasValidated
  <1>1. IInv => CompletedRunWasValidated
    BY DEF IInv, RunOrder, Ordered, ReviewHolds, CompletedRunWasValidated
  <1> QED BY <1>1, Inductive, PTL

\* No step moves a terminal run or brings its diff back into the checkout.
THEOREM TerminalStays == Spec => TerminalRunIsFinal
  <1>1. IInv /\ [Next]_vars =>
          [\A r \in Runs : phase[r] \in Terminal =>
              phase'[r] = phase[r] /\ (r \in tree' => r \in tree)]_vars
    <2> SUFFICES ASSUME IInv, [Next]_vars, NEW q \in Runs, phase[q] \in Terminal
                 PROVE  phase'[q] = phase[q] /\ (q \in tree' => q \in tree)
      OBVIOUS
    <2> USE DEF IInv, TypeOK
    <2>1. ASSUME NEW r \in Runs, ProcessStep(r) \/ TakePrinted(r)
          PROVE  phase'[q] = phase[q] /\ (q \in tree' => q \in tree)
      <3>1. Footprint(r)
        BY <2>1, ProcessStepOrdered, TakeResultOrdered DEF TakePrinted
      <3> QED BY <3>1 DEF Footprint, Own, Spares
    <2>2. CASE Environment
      BY <2>2, EnvironmentOrdered DEF Spares
    <2>3. ASSUME NEW r \in Runs, NEW status \in {"approved", "rejected", "invalid"},
                 Review(r, status)
          PROVE  phase'[q] = phase[q] /\ (q \in tree' => q \in tree)
      BY <2>3 DEF Review, checkout, stateFile
    <2>4. ASSUME NEW r \in Runs, AuditReads(r) \/ AuditSaves(r) \/ AuditEnds(r)
          PROVE  phase'[q] = phase[q] /\ (q \in tree' => q \in tree)
      BY <2>4 DEF AuditReads, AuditSaves, AuditEnds, runVars, checkout, stateFile
    <2>5. CASE UNCHANGED vars
      BY <2>5 DEF vars, runVars
    <2> QED BY <2>1, <2>2, <2>3, <2>4, <2>5 DEF Next, ProcessStep
  <1> QED BY <1>1, Inductive, PTL DEF Spec, TerminalRunIsFinal

=============================================================================
