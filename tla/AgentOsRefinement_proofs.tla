------------------------ MODULE AgentOsRefinement_proofs ------------------------
(***************************************************************************)
(* The bridge over the runner implements ReviewedChange for every governed *)
(* session, whatever the SDK guards.                                       *)
(***************************************************************************)
EXTENDS AgentOsBridge_proofs

\* Initially no governed session has promised or done anything.
LEMMA InitImplements == Init => Change!Init
  BY DEF Init, RunInit, Change!Init, GovernedSessions, Milestones

\* A step that changes no decision and no outcome and brings no diff into the
\* checkout removes what it takes out.
LEMMA RemoveImplements ==
    ASSUME UNCHANGED <<decision, outcome>>,
           \A q \in Runs : applied'[q] = applied[q] /\ (q \in tree' => q \in tree)
    PROVE  Change!Next
  <1> DEFINE Out == {q \in GovernedSessions : q \notin tree'}
  <1>1. Change!Remove(Out)
    BY DEF Change!Remove, GovernedSessions
  <1>2. Out \in SUBSET GovernedSessions
    OBVIOUS
  <1> HIDE DEF Out
  <1> QED BY <1>1, <1>2 DEF Change!Next

\* `git apply` is the promise's Apply: both decisions stand and nothing settled.
LEMMA ApplyImplements ==
    ASSUME IInv, NEW s \in Runs, Governed(s), UNCHANGED <<decision, outcome>>,
           pc[s] = "git_apply", s \notin tree, tree' = tree \cup {s},
           applied'[s] # 0, \A q \in Runs \ {s} : applied'[q] = applied[q]
    PROVE  Change!Next
  <1>1. s \in GovernedSessions
    BY DEF GovernedSessions
  <1>2. outcome[s] = "none" /\ Plan(s) = "approved" /\ Land(s) = "approved"
    BY DEF IInv, SessionInv, Journaled, InFlight, Landing, Applying
  <1>3. Change!Apply(s)
    BY <1>1, <1>2 DEF Change!Apply, GovernedSessions, Plan, Land
  <1> QED BY <1>1, <1>3 DEF Change!Next

\* A decision on a governed session is the promise's; on another it is none.
LEMMA DecideImplements ==
    ASSUME IInv, NEW s \in Runs, NEW m \in Milestones, NEW v \in Verdicts, Decide(s, m, v)
    PROVE  Change!Next
  <1>1. UNCHANGED <<tree, applied, outcome>> /\ decision[s][m] = "none"
        /\ decision' = [decision EXCEPT ![s][m] = v]
    BY DEF Decide, runVars
  <1> USE DEF Milestones
  <1>0. /\ decision'[s][m] = v
        /\ \A k \in Milestones \ {m} : decision'[s][k] = decision[s][k]
        /\ \A q \in Runs \ {s} : decision'[q] = decision[q]
    BY <1>1 DEF IInv, TypeOK, BridgeTypeOK
  <1>2. CASE ~Governed(s)
    <2>1. Change!Remove({})
      BY <1>0, <1>1, <1>2 DEF Change!Remove, GovernedSessions
    <2> QED BY <2>1 DEF Change!Next
  <1>3. CASE Governed(s) /\ m = "plan_freeze"
    <2>1. outcome[s] = "none"
      BY <1>3 DEF Decide, IInv, SessionInv, Settles
    <2>2. Change!DecidePlan(s, v)
      BY <1>0, <1>1, <1>3, <2>1 DEF Change!DecidePlan, GovernedSessions
    <2> QED BY <1>3, <2>2 DEF Change!Next, Change!Verdicts, Verdicts, GovernedSessions
  <1>4. CASE Governed(s) /\ m = "landing"
    <2>1. outcome[s] = "none" /\ Plan(s) = "approved"
      BY <1>4 DEF Decide, IInv, SessionInv, Journaled
    <2>2. Change!DecideLanding(s, v)
      BY <1>0, <1>1, <1>4, <2>1 DEF Change!DecideLanding, GovernedSessions, Plan
    <2> QED BY <1>4, <2>2 DEF Change!Next, Change!Verdicts, Verdicts, GovernedSessions
  <1> QED BY <1>2, <1>3, <1>4 DEF Milestones

\* A session's first outcome settles its promise, as succeeded only if landed.
LEMMA RecordImplements ==
    ASSUME IInv, IInv', Recorded
    PROVE  Change!Next
  <1> USE DEF Recorded
  <1>1. CASE \A q \in GovernedSessions : outcome'[q] = outcome[q]
    <2>1. Change!Remove({})
      BY <1>1 DEF Change!Remove, GovernedSessions
    <2> QED BY <2>1 DEF Change!Next
  <1>2. ASSUME NEW s \in GovernedSessions, outcome'[s] # outcome[s] PROVE Change!Next
    <2>1. s \in Runs /\ Governed(s) /\ outcome[s] = "none"
      BY <1>2 DEF GovernedSessions
    <2>2. PICK o \in Change!Outcomes : outcome'[s] = o
      BY <1>2, <2>1 DEF IInv, TypeOK, BridgeTypeOK, Outcomes, Change!Outcomes
    <2>3. o = "succeeded" => applied[s] # 0
      BY <2>1, <2>2 DEF IInv, RunOrder, Ordered, SessionInv, Settles, Governed
    <2>4. \A q \in GovernedSessions \ {s} : outcome'[q] = outcome[q]
      BY <1>2 DEF GovernedSessions
    <2>5. Change!Settle(s, o)
      BY <2>1, <2>2, <2>3, <2>4 DEF Change!Settle, GovernedSessions
    <2> QED BY <2>5 DEF Change!Next
  <1> QED BY <1>1, <1>2

\* Every step of the bridge is a step of the promise, or none.
LEMMA StepImplements ==
    ASSUME IInv, IInv', [Next]_vars
    PROVE  Change!Next
  <1>1. CASE Environment /\ UNCHANGED bridgeVars
    BY <1>1, EnvironmentOrdered, RemoveImplements DEF IInv, TypeOK, Spares, bridgeVars
  <1>2. ASSUME NEW s \in Runs, bop[s] \in {"prepare", "preview", "resume"}, ProcessStep(s),
               UNCHANGED bridgeVars
        PROVE  Change!Next
    <2>1. Footprint(s) /\ UNCHANGED <<decision, outcome>>
      BY <1>2, ProcessStepOrdered DEF IInv, TypeOK, bridgeVars
    <2>2. \A q \in Runs \ {s} : applied'[q] = applied[q] /\ (q \in tree' => q \in tree)
      BY <2>1 DEF Footprint, Spares
    <2>3. CASE applied'[s] = applied[s] /\ (s \in tree' => s \in tree)
      BY <2>1, <2>2, <2>3, RemoveImplements
    <2>4. CASE pc[s] = "git_apply" /\ s \notin tree /\ tree' = tree \cup {s} /\ applied'[s] # 0
      <3>1. CASE Governed(s)
        BY <2>1, <2>2, <2>4, <3>1, ApplyImplements
      <3>2. CASE ~Governed(s)
        <4>1. Change!Remove({})
          BY <2>1, <2>2, <2>4, <3>2 DEF Change!Remove, GovernedSessions
        <4> QED BY <4>1 DEF Change!Next
      <3> QED BY <3>1, <3>2
    <2> QED BY <2>1, <2>3, <2>4 DEF Footprint, Own
  <1>3. ASSUME NEW s \in Runs, NEW m \in Milestones, NEW v \in Verdicts, Decide(s, m, v)
        PROVE  Change!Next
    BY <1>3, DecideImplements
  <1>4. CASE Recorded
    BY <1>4, RecordImplements
  <1> QED BY <1>1, <1>2, <1>3, <1>4, StepKinds

\* The governed sessions of the bridge keep the promise of a reviewed change.
THEOREM PromiseKept == Spec => KeepsThePromise
  <1>1. IInv /\ IInv' /\ [Next]_vars => [Change!Next]_(Change!vars)
    BY StepImplements
  <1> QED BY <1>1, InitImplements, Inductive, PTL DEF Spec, KeepsThePromise, Change!Spec

=============================================================================
