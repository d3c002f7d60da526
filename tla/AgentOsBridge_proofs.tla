-------------------------- MODULE AgentOsBridge_proofs --------------------------
(***************************************************************************)
(* The properties of AgentOsBridge for any sessions, lanes and commands,   *)
(* any number of interruptions, torn files and source drifts.              *)
(***************************************************************************)
EXTENDS AgentOsBridge, GovernedRun_proofs

USE DEF Milestones

Plan(s) == decision[s]["plan_freeze"]
Land(s) == decision[s]["landing"]

\* The files and the checkout follow the journal.
Journaled(s) ==
    /\ approval[s].status = "approved" =>
          approval[s].milestone \in Milestones /\ decision[s][approval[s].milestone] = "approved"
    /\ pc[s] \in Landing \/ s \in tree \/ applied[s] # 0 =>
          Plan(s) = "approved" /\ Land(s) = "approved"
    /\ request[s] = "landing" \/ Land(s) # "none" =>
          Plan(s) = "approved" /\ effect[s]["plan_freeze"] = "completed" /\ Late(s)
    /\ Land(s) = "approved" => diff[s] = reviewed[s]
    /\ applied[s] \in {0, reviewed[s]}
    /\ effect[s]["landing"] # "backend_pending"
    /\ effect[s]["plan_freeze"] = "backend_pending" => Plan(s) = "approved"

\* The operation in flight fits the journal it was started from.
InFlight(s) ==
    /\ pc[s] # "idle" => bop[s] \in {"prepare", "preview", "resume"}
    /\ pc[s] \in Landing => bop[s] = "resume"
    /\ bop[s] \in {"effect", "mark"} => bms[s] \in Milestones
    /\ bop[s] = "mark" => effect[s][bms[s]] = "decision_recorded"
    /\ bop[s] \in {"backend", "preview"} =>
          bms[s] = "plan_freeze" /\ effect[s]["plan_freeze"] = "backend_pending"
    /\ bop[s] \in {"prepare", "resume"} => bcmd[s] \in Commands
    /\ bop[s] = "prepare" => bcmd[s] = start[s] /\ bstate[s] = "prepared"
    /\ bop[s] = "resume" => KindOf[bcmd[s]] = "resume" /\ outcome[s] = "none"
    /\ \A c \in receipts[s] : Governed(s) /\ KindOf[c] = "start" => c = start[s]

\* Once a landing is decided, a session with an outcome stays settled; with
\* the guard of the SDK every session does.
Settles(s) ==
    /\ bstate[s] \in {"absent", "prepared", "awaiting_approval"} => outcome[s] = "none"
    /\ Land(s) # "none" /\ outcome[s] # "none" => bstate[s] \in Settled \cup {"closed"}
    /\ Governed(s) /\ outcome[s] = "succeeded" => phase[s] = "completed"
    /\ SdkRefusesTerminalExit =>
          /\ bstate[s] \in Open => outcome[s] = "none"
          /\ bstate[s] \in Settled => outcome[s] # "none" /\ bstate[s] = SettledAs(outcome[s])
          /\ bstate[s] = "closed" => outcome[s] # "none"
          /\ bop[s] = "preview" => outcome[s] = "none"

SessionInv(s) == Journaled(s) /\ InFlight(s) /\ Settles(s)

IInv == TypeOK /\ RunOrder /\ \A s \in Runs : SessionInv(s)

\* Another session's record and operation stay as they are.
Apart(q) ==
    /\ bstate'[q] = bstate[q] /\ start'[q] = start[q] /\ receipts'[q] = receipts[q]
    /\ request'[q] = request[q] /\ decision'[q] = decision[q] /\ effect'[q] = effect[q]
    /\ outcome'[q] = outcome[q] /\ bop'[q] = bop[q] /\ bcmd'[q] = bcmd[q]
    /\ bms'[q] = bms[q] /\ reviewed'[q] = reviewed[q]

\* Initially no session has a record.
LEMMA InitIInv == Init => IInv
  <1> SUFFICES ASSUME Init PROVE IInv
    OBVIOUS
  <1>1. TypeOK
    BY RunInitTyped, CommandsAssumption
       DEF Init, TypeOK, BridgeTypeOK, BridgeStates, Verdicts, EffectPhases, Outcomes, Operations
  <1>2. ASSUME NEW s \in Runs PROVE SessionInv(s)
    <2>0. /\ decision[s]["plan_freeze"] = "none" /\ decision[s]["landing"] = "none"
          /\ effect[s]["plan_freeze"] = "none" /\ effect[s]["landing"] = "none"
      BY DEF Init
    <2>1. Journaled(s)
      BY <2>0 DEF Init, RunInit, Journaled, Plan, Land, Ap, Landing, Applying
    <2>2. InFlight(s)
      BY DEF Init, RunInit, InFlight, Landing, Applying
    <2>3. Settles(s)
      BY DEF Init, RunInit, Settles, Land, Open, Settled
    <2> QED BY <2>1, <2>2, <2>3 DEF SessionInv
  <1> QED BY <1>1, <1>2, RunInitOrdered DEF Init, IInv

\* What the admission of a command says of the session's state.
LEMMA DeliveredState ==
    ASSUME NEW s \in Runs, NEW c \in Commands, NEW kind \in Kinds, Delivered(s, c, kind)
    PROVE  /\ bop[s] = "idle" /\ KindOf[c] = kind
           /\ kind = "start" => bstate[s] = "prepared"
           /\ kind = "pause" => bstate[s] = "running"
           /\ kind = "resume" => bstate[s] = "paused"
           /\ kind = "cancel" => bstate[s] \in Open
  BY DEF Delivered, Admissible, Idle, Kinds

\* What the journal of an effect says after one of its phases is set.
LEMMA PhaseSet ==
    ASSUME BridgeTypeOK, NEW s \in Runs, NEW m \in Milestones, NEW p \in EffectPhases,
           SetPhase(s, m, p)
    PROVE  /\ effect' \in [Runs -> [Milestones -> EffectPhases]]
           /\ effect'[s][m] = p
           /\ \A k \in Milestones \ {m} : effect'[s][k] = effect[s][k]
           /\ \A q \in Runs \ {s} : effect'[q] = effect[q]
  BY DEF BridgeTypeOK, SetPhase

\* A command that leaves the files of the run alone keeps the types of the record,
LEMMA DispatchTyped ==
    ASSUME RunTypeOK, BridgeTypeOK, NEW s \in Runs, NEW c \in Commands,
             \/ Refuse(s, c)
             \/ StartGoverned(s, c)
             \/ StartA2A(s, c)
             \/ StartDegradation(s, c)
             \/ Pause(s, c)
             \/ Cancel(s, c)
             \/ ResumeGoverned(s, c)
             \/ ResumeDegradation(s, c)
    PROVE  BridgeTypeOK'
  <1> USE CommandsAssumption
          DEF BridgeTypeOK, Governed, runVars, journal, inFlight, Transition, Admits,
              Settle, RecordOutcome, SettledAs, Acknowledge, SetPhase, Finish, GoOn, Idle,
              BridgeStates, Open, Settled, Verdicts, EffectPhases, Outcomes, Operations, Kinds, Lanes
  <1>1. CASE Refuse(s, c)
    BY <1>1 DEF Refuse
  <1>2. CASE StartGoverned(s, c)
    BY <1>2, DeliveredState DEF StartGoverned
  <1>3. CASE StartA2A(s, c)
    BY <1>3, DeliveredState DEF StartA2A
  <1>4. CASE StartDegradation(s, c)
    BY <1>4, DeliveredState DEF StartDegradation
  <1>5. CASE Pause(s, c)
    BY <1>5, DeliveredState DEF Pause
  <1>6. CASE Cancel(s, c)
    BY <1>6, DeliveredState DEF Cancel
  <1>7. CASE ResumeGoverned(s, c)
    BY <1>7, DeliveredState DEF ResumeGoverned, ApprovalsSatisfied
  <1>8. CASE ResumeDegradation(s, c)
    BY <1>8, DeliveredState DEF ResumeDegradation
  <1> QED BY <1>1, <1>2, <1>3, <1>4, <1>5, <1>6, <1>7, <1>8

\* and the invariant of its session.
LEMMA DispatchKeeps ==
    ASSUME BridgeTypeOK, NEW s \in Runs, SessionInv(s), NEW c \in Commands,
             \/ Refuse(s, c)
             \/ StartGoverned(s, c)
             \/ StartA2A(s, c)
             \/ StartDegradation(s, c)
             \/ Pause(s, c)
             \/ Cancel(s, c)
             \/ ResumeGoverned(s, c)
             \/ ResumeDegradation(s, c)
    PROVE  SessionInv(s)'
  <1> USE CommandsAssumption
          DEF BridgeTypeOK, SessionInv, Plan, Land, Late, Governed, runVars, journal, inFlight, Transition, Admits,
              Settle, RecordOutcome, SettledAs, Acknowledge, SetPhase, Finish, GoOn, Idle,
              Open, Settled, Kinds
  <1>1. CASE Refuse(s, c)
    <2>1. Journaled(s)'
      BY <1>1 DEF Journaled, InFlight, Refuse
    <2>2. InFlight(s)'
      BY <1>1 DEF Journaled, InFlight, Settles, Refuse
    <2>3. Settles(s)'
      BY <1>1 DEF Journaled, InFlight, Settles, Refuse
    <2> QED BY <2>1, <2>2, <2>3
  <1>2. CASE StartGoverned(s, c)
    <2>1. Journaled(s)'
      BY <1>2, DeliveredState DEF Journaled, InFlight, StartGoverned
    <2>2. InFlight(s)'
      BY <1>2, DeliveredState DEF Journaled, InFlight, Settles, StartGoverned
    <2>3. Settles(s)'
      BY <1>2, DeliveredState DEF Journaled, InFlight, Settles, StartGoverned
    <2> QED BY <2>1, <2>2, <2>3
  <1>3. CASE StartA2A(s, c)
    <2>1. Journaled(s)'
      BY <1>3, DeliveredState DEF Journaled, InFlight, StartA2A
    <2>2. InFlight(s)'
      BY <1>3, DeliveredState DEF Journaled, InFlight, Settles, StartA2A
    <2>3. Settles(s)'
      BY <1>3, DeliveredState DEF Journaled, InFlight, Settles, StartA2A
    <2> QED BY <2>1, <2>2, <2>3
  <1>4. CASE StartDegradation(s, c)
    <2>1. Journaled(s)'
      BY <1>4, DeliveredState DEF Journaled, InFlight, StartDegradation
    <2>2. InFlight(s)'
      BY <1>4, DeliveredState DEF Journaled, InFlight, Settles, StartDegradation
    <2>3. Settles(s)'
      BY <1>4, DeliveredState DEF Journaled, InFlight, Settles, StartDegradation
    <2> QED BY <2>1, <2>2, <2>3
  <1>5. CASE Pause(s, c)
    <2>1. Journaled(s)'
      BY <1>5, DeliveredState DEF Journaled, InFlight, Pause
    <2>2. InFlight(s)'
      BY <1>5, DeliveredState DEF Journaled, InFlight, Settles, Pause
    <2>3. Settles(s)'
      BY <1>5, DeliveredState DEF Journaled, InFlight, Settles, Pause
    <2> QED BY <2>1, <2>2, <2>3
  <1>6. CASE Cancel(s, c)
    <2>1. Journaled(s)'
      BY <1>6, DeliveredState DEF Journaled, InFlight, Cancel
    <2>2. InFlight(s)'
      BY <1>6, DeliveredState DEF Journaled, InFlight, Settles, Cancel
    <2>3. Settles(s)'
      BY <1>6, DeliveredState DEF Journaled, InFlight, Settles, Cancel
    <2> QED BY <2>1, <2>2, <2>3
  <1>7. CASE ResumeGoverned(s, c)
    <2>1. Journaled(s)'
      BY <1>7, DeliveredState DEF Journaled, InFlight, ResumeGoverned, ApprovalsSatisfied
    <2>2. InFlight(s)'
      BY <1>7, DeliveredState DEF Journaled, InFlight, Settles, ResumeGoverned, ApprovalsSatisfied
    <2>3. Settles(s)'
      BY <1>7, DeliveredState DEF Journaled, InFlight, Settles, ResumeGoverned, ApprovalsSatisfied
    <2> QED BY <2>1, <2>2, <2>3
  <1>8. CASE ResumeDegradation(s, c)
    <2>1. Journaled(s)'
      BY <1>8, DeliveredState DEF Journaled, InFlight, ResumeDegradation
    <2>2. InFlight(s)'
      BY <1>8, DeliveredState DEF Journaled, InFlight, Settles, ResumeDegradation
    <2>3. Settles(s)'
      BY <1>8, DeliveredState DEF Journaled, InFlight, Settles, ResumeDegradation
    <2> QED BY <2>1, <2>2, <2>3
  <1> QED BY <1>1, <1>2, <1>3, <1>4, <1>5, <1>6, <1>7, <1>8

\* So does every such step of an approval effect,
LEMMA EffectTyped ==
    ASSUME RunTypeOK, BridgeTypeOK, NEW s \in Runs, 
             \/ MarkApprovalWritten(s)
             \/ EffectRejects(s)
             \/ EffectExpires(s)
             \/ EffectAllowsLanding(s)
             \/ EffectGrantsPlan(s)
             \/ EffectRaises(s)
             \/ BackendPending(s)
    PROVE  BridgeTypeOK'
  <1> USE CommandsAssumption
          DEF BridgeTypeOK, Governed, runVars, journal, inFlight, Transition, Admits,
              Settle, RecordOutcome, SettledAs, Acknowledge, SetPhase, Finish, GoOn, Idle,
              BridgeStates, Open, Settled, Verdicts, EffectPhases, Outcomes, Operations, Kinds, Lanes
  <1>1. CASE MarkApprovalWritten(s)
    BY <1>1 DEF MarkApprovalWritten
  <1>2. CASE EffectRejects(s)
    <2>1. effect' \in [Runs -> [Milestones -> EffectPhases]]
      BY <1>2 DEF EffectRejects
    <2>2. bstate' \in [Runs -> BridgeStates]
      BY <1>2 DEF EffectRejects
    <2>3. outcome' \in [Runs -> Outcomes]
      BY <1>2 DEF EffectRejects
    <2> QED BY <1>2, <2>1, <2>2, <2>3 DEF EffectRejects
  <1>3. CASE EffectExpires(s)
    BY <1>3 DEF EffectExpires, Written
  <1>4. CASE EffectAllowsLanding(s)
    BY <1>4 DEF EffectAllowsLanding, Written
  <1>5. CASE EffectGrantsPlan(s)
    BY <1>5 DEF EffectGrantsPlan, Written
  <1>6. CASE EffectRaises(s)
    BY <1>6 DEF EffectRaises, Written
  <1>7. CASE BackendPending(s)
    <2>1. CASE bstate[s] \in {"running", "paused"}
      <3>1. bstate' = [bstate EXCEPT ![s] = "running"] /\ GoOn(s, "preview")
        BY <1>7, <2>1 DEF BackendPending
      <3> QED BY <1>7, <3>1 DEF BackendPending
    <2>2. CASE bstate[s] \notin {"running", "paused"}
      <3>1. bstate' = bstate /\ Finish(s)
        BY <1>7, <2>2 DEF BackendPending
      <3> QED BY <1>7, <3>1 DEF BackendPending
    <2> QED BY <2>1, <2>2
  <1> QED BY <1>1, <1>2, <1>3, <1>4, <1>5, <1>6, <1>7

\* and keeps the invariant of its session.
LEMMA EffectKeeps ==
    ASSUME BridgeTypeOK, NEW s \in Runs, SessionInv(s), 
             \/ MarkApprovalWritten(s)
             \/ EffectRejects(s)
             \/ EffectExpires(s)
             \/ EffectAllowsLanding(s)
             \/ EffectGrantsPlan(s)
             \/ EffectRaises(s)
             \/ BackendPending(s)
    PROVE  SessionInv(s)'
  <1> USE CommandsAssumption
          DEF BridgeTypeOK, SessionInv, Plan, Land, Late, Governed, runVars, journal, inFlight, Transition, Admits,
              Settle, RecordOutcome, SettledAs, Acknowledge, SetPhase, Finish, GoOn, Idle,
              Open, Settled, Kinds
  <1>1. CASE MarkApprovalWritten(s)
    <2>1. Journaled(s)'
      BY <1>1 DEF Journaled, InFlight, MarkApprovalWritten
    <2>2. InFlight(s)'
      BY <1>1 DEF Journaled, InFlight, Settles, MarkApprovalWritten
    <2>3. Settles(s)'
      BY <1>1 DEF Journaled, InFlight, Settles, MarkApprovalWritten
    <2> QED BY <2>1, <2>2, <2>3
  <1>2. CASE EffectRejects(s)
    <2>1. Journaled(s)'
      BY <1>2 DEF Journaled, InFlight, EffectRejects, Written
    <2>2. InFlight(s)'
      BY <1>2 DEF Journaled, InFlight, Settles, EffectRejects, Written
    <2>3. Settles(s)'
      <3>1. CASE bstate[s] = "cancelled"
        BY <1>2, <3>1 DEF Settles, EffectRejects
      <3>2. CASE bstate[s] # "cancelled"
        <4>1. bstate'[s] = "cancelled"
          BY <1>2, <3>2 DEF EffectRejects
        <4>2. outcome'[s] = IF outcome[s] = "none" THEN "cancelled" ELSE outcome[s]
          BY <1>2, <3>2 DEF EffectRejects
        <4>3. SdkRefusesTerminalExit => outcome[s] = "none"
          BY <1>2, <3>2 DEF EffectRejects, Settles, BridgeStates
        <4> QED BY <1>2, <4>1, <4>2, <4>3 DEF Settles, EffectRejects
      <3> QED BY <3>1, <3>2
    <2> QED BY <2>1, <2>2, <2>3
  <1>3. CASE EffectExpires(s)
    <2>1. Journaled(s)'
      BY <1>3 DEF Journaled, InFlight, EffectExpires, Written
    <2>2. InFlight(s)'
      BY <1>3 DEF Journaled, InFlight, Settles, EffectExpires, Written
    <2>3. Settles(s)'
      BY <1>3 DEF Journaled, InFlight, Settles, EffectExpires, Written
    <2> QED BY <2>1, <2>2, <2>3
  <1>4. CASE EffectAllowsLanding(s)
    <2>1. Journaled(s)'
      BY <1>4 DEF Journaled, InFlight, EffectAllowsLanding, Written
    <2>2. InFlight(s)'
      BY <1>4 DEF Journaled, InFlight, Settles, EffectAllowsLanding, Written
    <2>3. Settles(s)'
      BY <1>4 DEF Journaled, InFlight, Settles, EffectAllowsLanding, Written
    <2> QED BY <2>1, <2>2, <2>3
  <1>5. CASE EffectGrantsPlan(s)
    <2>1. Journaled(s)'
      BY <1>5 DEF Journaled, InFlight, EffectGrantsPlan, Written
    <2>2. InFlight(s)'
      BY <1>5 DEF Journaled, InFlight, Settles, EffectGrantsPlan, Written
    <2>3. Settles(s)'
      <3>1. Land(s) = "none"
        BY <1>5 DEF Journaled, EffectGrantsPlan, Written
      <3>2. SdkRefusesTerminalExit => outcome[s] = "none"
        BY <1>5 DEF EffectGrantsPlan, Settles, BridgeStates
      <3>3. bstate'[s] = "running" /\ bop'[s] = "backend"
        BY <1>5 DEF EffectGrantsPlan
      <3> QED BY <1>5, <3>1, <3>2, <3>3 DEF Settles, EffectGrantsPlan
    <2> QED BY <2>1, <2>2, <2>3
  <1>6. CASE EffectRaises(s)
    <2>1. Journaled(s)'
      BY <1>6 DEF Journaled, InFlight, EffectRaises, Written
    <2>2. InFlight(s)'
      BY <1>6 DEF Journaled, InFlight, Settles, EffectRaises, Written
    <2>3. Settles(s)'
      BY <1>6 DEF Journaled, InFlight, Settles, EffectRaises, Written
    <2> QED BY <2>1, <2>2, <2>3
  <1>7. CASE BackendPending(s)
    <2>1. Journaled(s)'
      BY <1>7 DEF Journaled, InFlight, BackendPending, Written
    <2>2. InFlight(s)'
      BY <1>7 DEF Journaled, InFlight, Settles, BackendPending, Written
    <2>3. Settles(s)'
      BY <1>7 DEF Journaled, InFlight, Settles, BackendPending, Written
    <2> QED BY <2>1, <2>2, <2>3
  <1> QED BY <1>1, <1>2, <1>3, <1>4, <1>5, <1>6, <1>7

\* So do the recording of a decision and its replay,
LEMMA DecisionTyped ==
    ASSUME RunTypeOK, BridgeTypeOK, NEW s \in Runs, NEW m \in Milestones, NEW v \in Verdicts,
             ReplayDecision(s, m) \/ Decide(s, m, v)
    PROVE  BridgeTypeOK'
  <1> USE CommandsAssumption
          DEF BridgeTypeOK, Governed, runVars, journal, inFlight, Transition, Admits,
              Settle, RecordOutcome, SettledAs, Acknowledge, SetPhase, Finish, GoOn, Idle,
              BridgeStates, Open, Settled, Verdicts, EffectPhases, Outcomes, Operations, Kinds, Lanes
  <1>1. CASE ReplayDecision(s, m)
    BY <1>1 DEF ReplayDecision
  <1>2. CASE Decide(s, m, v)
    <2>1. effect' \in [Runs -> [Milestones -> EffectPhases]]
      BY <1>2 DEF Decide
    <2>2. decision' \in [Runs -> [Milestones -> Verdicts \cup {"none"}]]
      BY <1>2 DEF Decide
    <2>3. reviewed' \in [Runs -> Nat]
      BY <1>2 DEF Decide, RunTypeOK
    <2> QED BY <1>2, <2>1, <2>2, <2>3 DEF Decide
  <1> QED BY <1>1, <1>2

\* and keep the invariant of their session.
LEMMA DecisionKeeps ==
    ASSUME BridgeTypeOK, NEW s \in Runs, SessionInv(s), NEW m \in Milestones, NEW v \in Verdicts,
             ReplayDecision(s, m) \/ Decide(s, m, v)
    PROVE  SessionInv(s)'
  <1> USE CommandsAssumption
          DEF BridgeTypeOK, SessionInv, Plan, Land, Late, Governed, runVars, journal, inFlight, Transition, Admits,
              Settle, RecordOutcome, SettledAs, Acknowledge, SetPhase, Finish, GoOn, Idle,
              Open, Settled, Kinds
  <1>1. CASE ReplayDecision(s, m)
    <2>1. Journaled(s)'
      BY <1>1 DEF Journaled, InFlight, ReplayDecision
    <2>2. InFlight(s)'
      BY <1>1 DEF Journaled, InFlight, Settles, ReplayDecision
    <2>3. Settles(s)'
      BY <1>1 DEF Journaled, InFlight, Settles, ReplayDecision
    <2> QED BY <2>1, <2>2, <2>3
  <1>2. CASE Decide(s, m, v)
    <2>1. Journaled(s)'
      BY <1>2 DEF Journaled, InFlight, Decide
    <2>2. InFlight(s)'
      BY <1>2 DEF Journaled, InFlight, Settles, Decide
    <2>3. Settles(s)'
      BY <1>2 DEF Journaled, InFlight, Settles, Decide
    <2> QED BY <2>1, <2>2, <2>3
  <1> QED BY <1>1, <1>2

\* So do the first observation and the closeout,
LEMMA EndsTyped ==
    ASSUME RunTypeOK, BridgeTypeOK, NEW s \in Runs, 
             Observe(s) \/ Closeout(s)
    PROVE  BridgeTypeOK'
  <1> USE CommandsAssumption
          DEF BridgeTypeOK, Governed, runVars, journal, inFlight, Transition, Admits,
              Settle, RecordOutcome, SettledAs, Acknowledge, SetPhase, Finish, GoOn, Idle,
              BridgeStates, Open, Settled, Verdicts, EffectPhases, Outcomes, Operations, Kinds, Lanes
  <1>1. CASE Observe(s)
    BY <1>1 DEF Observe
  <1>2. CASE Closeout(s)
    BY <1>2 DEF Closeout
  <1> QED BY <1>1, <1>2

\* and keep the invariant of their session.
LEMMA EndsKeeps ==
    ASSUME BridgeTypeOK, NEW s \in Runs, SessionInv(s), 
             Observe(s) \/ Closeout(s)
    PROVE  SessionInv(s)'
  <1> USE CommandsAssumption
          DEF BridgeTypeOK, SessionInv, Plan, Land, Late, Governed, runVars, journal, inFlight, Transition, Admits,
              Settle, RecordOutcome, SettledAs, Acknowledge, SetPhase, Finish, GoOn, Idle,
              Open, Settled, Kinds
  <1>1. CASE Observe(s)
    <2>1. Journaled(s)'
      BY <1>1 DEF Journaled, InFlight, Observe
    <2>2. InFlight(s)'
      BY <1>1 DEF Journaled, InFlight, Settles, Observe
    <2>3. Settles(s)'
      BY <1>1 DEF Journaled, InFlight, Settles, Observe
    <2> QED BY <2>1, <2>2, <2>3
  <1>2. CASE Closeout(s)
    <2>1. Journaled(s)'
      BY <1>2 DEF Journaled, InFlight, Closeout
    <2>2. InFlight(s)'
      BY <1>2 DEF Journaled, InFlight, Settles, Closeout
    <2>3. Settles(s)'
      BY <1>2 DEF Journaled, InFlight, Settles, Closeout
    <2> QED BY <2>1, <2>2, <2>3
  <1> QED BY <1>1, <1>2

\* A session that a step leaves apart keeps its invariant.
LEMMA ApartKeeps ==
    ASSUME NEW q \in Runs, SessionInv(q), Spares(q), Apart(q)
    PROVE  SessionInv(q)'
  <1> USE DEF SessionInv, Spares, Apart, Plan, Land, Late, Governed
  <1>1. Journaled(q)'
    BY DEF Journaled
  <1>2. InFlight(q)'
    BY DEF InFlight
  <1>3. Settles(q)'
    BY DEF Settles
  <1> QED BY <1>1, <1>2, <1>3

\* A step of the runner, inside the operation that called it.
LEMMA ProcessKeeps ==
    ASSUME IInv, NEW s \in Runs, UNCHANGED bridgeVars,
           BackendCall(s) \/ RunnerStep(s) \/ Excepted(s)
    PROVE  IInv'
  <1>1. ProcessStep(s)
    BY DEF BackendCall, ProcessStep, Interrupted
  <1>2. RunTypeOK' /\ RunOrder' /\ Footprint(s)
    BY <1>1, ProcessStepOrdered DEF IInv, TypeOK
  <1>3. TypeOK'
    BY <1>2 DEF IInv, TypeOK, BridgeTypeOK, bridgeVars
  <1>4. pc[s] = "idle" => BackendCall(s)
    BY RunnerWorks DEF Excepted, Working, StateWriters, ApprovalWriters, SummaryWriters
  <1>5. bop[s] \in {"prepare", "preview", "resume"}
    BY <1>4 DEF IInv, SessionInv, InFlight, BackendCall
  <1> USE DEF IInv, SessionInv, Footprint, Own, Plan, Land, Late, Governed, bridgeVars
  <1>6. pc[s] = "idle" /\ pc'[s] \in Landing => bop[s] = "resume"
    <2> SUFFICES ASSUME pc[s] = "idle", pc'[s] \in Landing PROVE bop[s] = "resume"
      OBVIOUS
    <2>1. approval[s].milestone = "landing" /\ approval[s].status = "approved"
      BY <1>2 DEF Ap, Landing, Applying
    <2>2. bop[s] # "preview"
      BY <2>1 DEF Journaled, InFlight
    <2>3. bop[s] # "prepare"
      BY <1>4 DEF BackendCall, CallPrepare, Goto, Return, Raise, Landing, Applying, TypeOK, RunTypeOK
    <2> QED BY <1>5, <2>2, <2>3
  <1>7. Journaled(s)'
    BY <1>2 DEF Journaled, Landing, Applying, Ap
  <1>8. InFlight(s)'
    BY <1>2, <1>5, <1>6 DEF InFlight
  <1>9. Settles(s)'
    BY <1>2 DEF Settles, Terminal
  <1>10. ASSUME NEW q \in Runs \ {s} PROVE SessionInv(q)'
    <2>1. Spares(q) /\ Apart(q)
      BY <1>2 DEF Apart
    <2> QED BY <2>1, ApartKeeps
  <1> QED BY <1>2, <1>3, <1>7, <1>8, <1>9, <1>10

\* Every step of one session leaves the record of every other one as it is.
LEMMA CommandsApart ==
    ASSUME BridgeTypeOK, NEW s \in Runs, NEW q \in Runs \ {s}, Dispatch(s)
    PROVE  Apart(q)
  <1> USE DEF BridgeTypeOK, Apart, journal, inFlight, Transition, Settle, RecordOutcome, Acknowledge
  <1>0. PICK c \in Commands : Refuse(s, c) \/ StartGoverned(s, c) \/ StartA2A(s, c)
              \/ StartDegradation(s, c) \/ Pause(s, c) \/ Cancel(s, c)
              \/ ResumeGoverned(s, c) \/ ResumeDegradation(s, c)
    BY DEF Dispatch
  <1>1. CASE Refuse(s, c)
    BY <1>1 DEF Refuse
  <1>2. CASE StartGoverned(s, c)
    BY <1>2 DEF StartGoverned
  <1>3. CASE StartA2A(s, c)
    BY <1>3 DEF StartA2A
  <1>4. CASE StartDegradation(s, c)
    BY <1>4 DEF StartDegradation
  <1>5. CASE Pause(s, c)
    BY <1>5 DEF Pause
  <1>6. CASE Cancel(s, c)
    BY <1>6 DEF Cancel
  <1>7. CASE ResumeGoverned(s, c)
    BY <1>7 DEF ResumeGoverned
  <1>8. CASE ResumeDegradation(s, c)
    BY <1>8 DEF ResumeDegradation
  <1> QED BY <1>0, <1>1, <1>2, <1>3, <1>4, <1>5, <1>6, <1>7, <1>8

\* The same of the steps of an approval effect and of the decision it serves,
LEMMA ApprovalsApart ==
    ASSUME BridgeTypeOK, NEW s \in Runs, NEW q \in Runs \ {s},
           ApplyApproval(s) \/ EffectStep(s)
    PROVE  Apart(q)
  <1> USE DEF BridgeTypeOK, Apart, journal, inFlight, Transition, Settle, RecordOutcome,
              SetPhase, Finish, GoOn, Written
  <1>0. CASE ApplyApproval(s)
    <2>1. PICK m \in Milestones : ReplayDecision(s, m) \/ \E v \in Verdicts : Decide(s, m, v)
      BY <1>0 DEF ApplyApproval
    <2> QED BY <2>1 DEF ReplayDecision, Decide
  <1>1. CASE WriteGovernedApproval(s)
    BY <1>1 DEF WriteGovernedApproval
  <1>2. CASE MarkApprovalWritten(s)
    BY <1>2 DEF MarkApprovalWritten
  <1>3. CASE EffectRejects(s)
    BY <1>3 DEF EffectRejects
  <1>4. CASE EffectExpires(s)
    BY <1>4 DEF EffectExpires
  <1>5. CASE EffectAllowsLanding(s)
    BY <1>5 DEF EffectAllowsLanding
  <1>6. CASE EffectGrantsPlan(s)
    BY <1>6 DEF EffectGrantsPlan
  <1>7. CASE EffectRaises(s)
    BY <1>7 DEF EffectRaises
  <1>8. CASE BackendPending(s)
    BY <1>8 DEF BackendPending
  <1> QED BY <1>0, <1>1, <1>2, <1>3, <1>4, <1>5, <1>6, <1>7, <1>8 DEF EffectStep

\* and of a backend result, a closeout, an observation and a termination.
LEMMA OthersApart ==
    ASSUME BridgeTypeOK, NEW s \in Runs, NEW q \in Runs \ {s},
           Returns(s) \/ Closeout(s) \/ Observe(s) \/ BridgeDies(s)
    PROVE  Apart(q)
  <1> USE DEF BridgeTypeOK, Apart, journal, inFlight, Transition, Settle, RecordOutcome,
              Acknowledge, SetPhase, Finish
  <1>1. CASE StartReturns(s)
    BY <1>1 DEF Ask, StartReturns
  <1>2. CASE PreviewReturns(s)
    BY <1>2 DEF Ask, PreviewReturns
  <1>3. CASE ResumeReturns(s)
    BY <1>3 DEF ResumeReturns
  <1>4. CASE Closeout(s)
    BY <1>4 DEF Closeout
  <1>5. CASE Observe(s)
    BY <1>5 DEF Observe
  <1>6. CASE BridgeDies(s)
    BY <1>6 DEF BridgeDies
  <1> QED BY <1>1, <1>2, <1>3, <1>4, <1>5, <1>6 DEF Returns

\* A step that leaves the files of every run alone.
LEMMA RecordKeeps ==
    ASSUME IInv, NEW s \in Runs, UNCHANGED runVars, BridgeTypeOK', SessionInv(s)',
           \A q \in Runs \ {s} : Apart(q)
    PROVE  IInv'
  <1>1. RunTypeOK' /\ RunOrder' /\ \A q \in Runs : Spares(q)
    BY DEF IInv, TypeOK, RunTypeOK, RunOrder, Ordered, Late, Spares, runVars
  <1>2. ASSUME NEW q \in Runs \ {s} PROVE SessionInv(q)'
    BY <1>1, ApartKeeps DEF IInv
  <1> QED BY <1>1, <1>2 DEF IInv, TypeOK

\* A step that changes the files of its own run, within the footprint.
LEMMA FilesKeep ==
    ASSUME IInv, NEW s \in Runs, RunTypeOK', RunOrder', Footprint(s), BridgeTypeOK',
           SessionInv(s)', \A q \in Runs \ {s} : Apart(q)
    PROVE  IInv'
  <1>1. ASSUME NEW q \in Runs \ {s} PROVE SessionInv(q)'
    BY ApartKeeps DEF IInv, Footprint
  <1> QED BY <1>1 DEF IInv, TypeOK

\* The write of the governed approval says what the journal decided.
LEMMA ApprovalWriteKeeps ==
    ASSUME IInv, NEW s \in Runs, WriteGovernedApproval(s)
    PROVE  IInv'
  <1> USE DEF WriteGovernedApproval, checkout, stateFile, history, journal, Finish, GoOn
  <1>1. bms[s] \in Milestones
    BY DEF IInv, SessionInv, InFlight
  <1>2. approval' = approval \/ \E v \in {"approved", "rejected"} :
           /\ approval' = [approval EXCEPT ![s] = Ap(bms[s], v)]
           /\ v = "approved" => decision[s][bms[s]] = "approved"
    OBVIOUS
  <1>3. RunTypeOK'
    BY <1>1, <1>2, FileTypes DEF IInv, TypeOK, RunTypeOK
  <1>4. RunOrder' /\ \A q \in Runs \ {s} : Spares(q)
    BY <1>2 DEF IInv, TypeOK, RunTypeOK, RunOrder, Ordered, Late, Spares
  <1>5. BridgeTypeOK'
    BY DEF IInv, TypeOK, BridgeTypeOK, Operations
  <1>6. Journaled(s)'
    BY <1>1, <1>2 DEF IInv, TypeOK, RunTypeOK, SessionInv, Journaled, Plan, Land, Late, Ap
  <1>7. InFlight(s)'
    BY <1>1 DEF IInv, TypeOK, BridgeTypeOK, SessionInv, InFlight, Governed
  <1>8. Settles(s)'
    BY DEF IInv, TypeOK, BridgeTypeOK, SessionInv, Settles, Land, Governed
  <1>9. ASSUME NEW q \in Runs \ {s} PROVE Apart(q)
    BY ApprovalsApart DEF IInv, TypeOK, EffectStep
  <1>10. ASSUME NEW q \in Runs \ {s} PROVE SessionInv(q)'
    BY <1>4, <1>9, ApartKeeps DEF IInv
  <1> QED BY <1>3, <1>4, <1>5, <1>6, <1>7, <1>8, <1>10 DEF IInv, TypeOK, SessionInv

\* A backend result is taken, judged and journaled in one step.
LEMMA ReturnsKeep ==
    ASSUME IInv, NEW s \in Runs, Returns(s)
    PROVE  IInv'
  <1>1. RunTypeOK' /\ RunOrder' /\ Footprint(s)
    BY TakeResultOrdered DEF Ask, IInv, TypeOK, Returns, StartReturns, PreviewReturns, ResumeReturns
  <1>2. ASSUME NEW q \in Runs \ {s} PROVE Apart(q)
    BY OthersApart DEF IInv, TypeOK
  <1>3. pc[s] = "done" /\ pc'[s] = "idle"
    BY DEF Ask, IInv, TypeOK, RunTypeOK, Returns, StartReturns, PreviewReturns, ResumeReturns, TakeResult
  <1>4. /\ UNCHANGED <<approval, tree, applied, diff, phase, decision, reviewed, start>>
        /\ Late(s) => Late(s)'
    BY <1>1 DEF Ask, Returns, StartReturns, PreviewReturns, ResumeReturns, checkout, history,
                stateFile, Footprint, Own
  <1>5. /\ ret[s] = Sum("paused", "landing") => Late(s)
        /\ ret[s].status = "pass" => phase[s] = "completed"
    BY DEF IInv, RunOrder, Ordered
  <1> USE DEF Transition, Admits, Settle, SettledAs, RecordOutcome, Acknowledge, SetPhase, Finish
  <1>6. BridgeTypeOK'
    <2>0. BridgeTypeOK /\ (bop[s] \in {"prepare", "resume"} => bcmd[s] \in Commands)
      BY DEF IInv, TypeOK, SessionInv, InFlight
    <2> USE <2>0 DEF BridgeTypeOK, BridgeStates, Open, Settled, Operations, Outcomes,
                     EffectPhases
    <2>1. CASE StartReturns(s)
      BY <2>1 DEF Ask, StartReturns
    <2>2. CASE PreviewReturns(s)
      <3>1. effect' \in [Runs -> [Milestones -> EffectPhases]]
        <4>1. effect' = effect \/ SetPhase(s, "plan_freeze", "completed")
          BY <2>2 DEF Ask, PreviewReturns
        <4> HIDE DEF SetPhase
        <4>2. "plan_freeze" \in Milestones /\ "completed" \in EffectPhases
          OBVIOUS
        <4> QED BY <4>1, <4>2, PhaseSet
      <3>2. bstate' \in [Runs -> BridgeStates] /\ outcome' \in [Runs -> Outcomes]
        BY <2>2 DEF Ask, PreviewReturns
      <3>3. request' \in [Runs -> Milestones \cup {"none"}]
        BY <2>2 DEF Ask, PreviewReturns
      <3> QED BY <2>2, <3>1, <3>2, <3>3 DEF Ask, PreviewReturns
    <2>3. CASE ResumeReturns(s)
      BY <2>3 DEF ResumeReturns
    <2> QED BY <2>1, <2>2, <2>3 DEF Returns
  <1> USE DEF IInv, TypeOK, BridgeTypeOK, SessionInv, Plan, Land, Governed
  <1>7. Journaled(s)'
    <2> USE <1>3, <1>4, <1>5 DEF Journaled, InFlight, Landing, Applying
    <2>1. CASE StartReturns(s)
      BY <2>1 DEF Ask, StartReturns
    <2>2. CASE PreviewReturns(s)
      BY <2>2 DEF Ask, PreviewReturns
    <2>3. CASE ResumeReturns(s)
      BY <2>3 DEF ResumeReturns
    <2> QED BY <2>1, <2>2, <2>3 DEF Returns
  <1>8. InFlight(s)'
    <2> USE <1>3, <1>4 DEF InFlight, Landing, Applying
    <2>1. CASE StartReturns(s)
      BY <2>1 DEF Ask, StartReturns
    <2>2. CASE PreviewReturns(s)
      BY <2>2 DEF Ask, PreviewReturns
    <2>3. CASE ResumeReturns(s)
      BY <2>3 DEF ResumeReturns
    <2> QED BY <2>1, <2>2, <2>3 DEF Returns
  <1>9. Settles(s)'
    <2> USE <1>3, <1>4, <1>5 DEF Settles, Open, Settled
    <2>1. CASE StartReturns(s)
      BY <2>1 DEF Ask, StartReturns, InFlight, Journaled
    <2>2. CASE PreviewReturns(s)
      BY <2>2 DEF Ask, PreviewReturns, InFlight, Journaled
    <2>3. CASE ResumeReturns(s)
      BY <2>3 DEF ResumeReturns, InFlight
    <2> QED BY <2>1, <2>2, <2>3 DEF Returns
  <1> QED BY <1>1, <1>2, <1>6, <1>7, <1>8, <1>9, FilesKeep DEF SessionInv

\* The process ends: the operation is lost, the runner's next file may be torn.
LEMMA DeathKeeps ==
    ASSUME IInv, NEW s \in Runs, BridgeDies(s)
    PROVE  IInv'
  <1> USE DEF BridgeDies, Finish, journal
  <1>1. ASSUME NEW q \in Runs \ {s} PROVE Apart(q)
    BY OthersApart DEF IInv, TypeOK
  <1>2. RunTypeOK' /\ RunOrder' /\ Footprint(s)
    <2>1. CASE Terminated(s)
      BY <2>1, ProcessStepOrdered DEF IInv, TypeOK, ProcessStep, Interrupted
    <2>2. CASE ~Terminated(s)
      <3> USE <2>2 DEF IInv, TypeOK, checkout, stateFile, history
      <3>1. approval' = approval \/ approval' = [approval EXCEPT ![s] = Ap("none", "torn")]
        BY DEF RunTypeOK
      <3>2. RunTypeOK'
        BY <3>1, FileTypes, BoundAssumption DEF RunTypeOK
      <3>3. Ordered(s)' /\ Own(s)
        BY <3>1 DEF RunTypeOK, RunOrder, Ordered, Own, Late, Landing, Applying, Sum, Ap
      <3>4. ASSUME NEW q \in Runs \ {s} PROVE Spares(q) /\ Ordered(q)'
        BY <3>1, <3>4 DEF RunTypeOK, RunOrder, Ordered, Late, Spares
      <3> QED BY <3>2, <3>3, <3>4 DEF RunOrder, Footprint
    <2> QED BY <2>1, <2>2
  <1>3. pc'[s] = "idle"
    BY DEF Terminated, IInv, TypeOK, RunTypeOK
  <1>4. BridgeTypeOK'
    BY DEF IInv, TypeOK, BridgeTypeOK, Operations
  <1> USE DEF IInv, TypeOK, BridgeTypeOK, SessionInv, Plan, Land, Governed
  <1>5. approval'[s] = approval[s] \/ approval'[s].status # "approved"
    BY <1>3 DEF Terminated, LeaveFiles, TearFile, RunTypeOK, Ap
  <1>6. applied' = applied /\ tree' = tree
    BY DEF Terminated, LeaveFiles, checkout, history
  <1>7. Journaled(s)'
    BY <1>2, <1>3, <1>5, <1>6 DEF Journaled, Footprint, Own, Landing, Applying
  <1>8. InFlight(s)'
    BY <1>3 DEF InFlight, Landing, Applying
  <1>9. Settles(s)'
    BY <1>2 DEF Settles, Footprint, Own, Terminal
  <1> QED BY <1>1, <1>2, <1>4, <1>7, <1>8, <1>9, FilesKeep

\* Every step keeps the inductive invariant.
LEMMA NextIInv == IInv /\ [Next]_vars => IInv'
  <1> SUFFICES ASSUME IInv, [Next]_vars PROVE IInv'
    OBVIOUS
  <1>1. ASSUME NEW s \in Runs, Dispatch(s) PROVE IInv'
    <2>1. PICK c \in Commands :
              \/ Refuse(s, c) \/ StartGoverned(s, c) \/ StartA2A(s, c)
              \/ StartDegradation(s, c) \/ Pause(s, c) \/ Cancel(s, c)
              \/ ResumeGoverned(s, c) \/ ResumeDegradation(s, c)
      BY <1>1 DEF Dispatch
    <2>2. UNCHANGED runVars
      BY <2>1 DEF Refuse, StartGoverned, StartA2A, StartDegradation, Pause, Cancel,
                  ResumeGoverned, ResumeDegradation
    <2> QED BY <1>1, <2>1, <2>2, DispatchTyped, DispatchKeeps, CommandsApart, RecordKeeps
            DEF IInv, TypeOK
  <1>2. ASSUME NEW s \in Runs, ApplyApproval(s) PROVE IInv'
    <2>1. PICK m \in Milestones, v \in Verdicts : ReplayDecision(s, m) \/ Decide(s, m, v)
      BY <1>2 DEF ApplyApproval, Verdicts
    <2>2. UNCHANGED runVars
      BY <2>1 DEF ReplayDecision, Decide
    <2> QED BY <1>2, <2>1, <2>2, DecisionTyped, DecisionKeeps, ApprovalsApart, RecordKeeps
            DEF IInv, TypeOK
  <1>3. ASSUME NEW s \in Runs, EffectStep(s) PROVE IInv'
    <2>1. CASE WriteGovernedApproval(s)
      BY <2>1, ApprovalWriteKeeps
    <2>2. CASE ~WriteGovernedApproval(s)
      <3>1. UNCHANGED runVars
        BY <1>3, <2>2 DEF EffectStep, MarkApprovalWritten, EffectRejects, EffectExpires,
           EffectAllowsLanding, EffectGrantsPlan, EffectRaises, BackendPending
      <3> QED BY <1>3, <2>2, <3>1, EffectTyped, EffectKeeps, ApprovalsApart, RecordKeeps
              DEF IInv, TypeOK, EffectStep
    <2> QED BY <2>1, <2>2
  <1>4. ASSUME NEW s \in Runs, Observe(s) \/ Closeout(s) PROVE IInv'
    <2>1. UNCHANGED runVars
      BY <1>4 DEF Observe, Closeout
    <2> QED BY <1>4, <2>1, EndsTyped, EndsKeeps, OthersApart, RecordKeeps DEF IInv, TypeOK
  <1>5. ASSUME NEW s \in Runs, Returns(s) \/ BridgeDies(s) PROVE IInv'
    BY <1>5, ReturnsKeep, DeathKeeps
  <1>6. ASSUME NEW s \in Runs,
               BackendCall(s) \/ RunnerStep(s) \/ Excepted(s), UNCHANGED bridgeVars
        PROVE  IInv'
    BY <1>6, ProcessKeeps
  <1>7. CASE Environment /\ UNCHANGED bridgeVars
    <2>1. RunTypeOK' /\ RunOrder' /\ \A q \in Runs : Spares(q)
      BY <1>7, EnvironmentOrdered DEF IInv, TypeOK
    <2>2. ASSUME NEW q \in Runs PROVE Apart(q)
      BY <1>7 DEF Apart, bridgeVars
    <2>3. BridgeTypeOK'
      BY <1>7 DEF IInv, TypeOK, BridgeTypeOK, bridgeVars
    <2> QED BY <2>1, <2>2, <2>3, ApartKeeps DEF IInv, TypeOK
  <1>8. CASE Sources \/ UNCHANGED vars
    <2>1. UNCHANGED <<runVars, journal, inFlight, reviewed>> /\ BridgeTypeOK'
      BY <1>8 DEF Sources, vars, bridgeVars, journal, inFlight, IInv, TypeOK, BridgeTypeOK
    <2>2. RunTypeOK' /\ RunOrder' /\ \A q \in Runs : Spares(q)
      BY <2>1 DEF IInv, TypeOK, RunTypeOK, RunOrder, Ordered, Late, Spares, runVars
    <2>3. ASSUME NEW q \in Runs PROVE Apart(q)
      BY <2>1 DEF Apart, journal, inFlight
    <2> QED BY <2>1, <2>2, <2>3, ApartKeeps DEF IInv, TypeOK
  <1>9. ASSUME NEW s \in Runs, Proceed(s) PROVE IInv'
    BY <1>3, <1>5, <1>6, <1>9 DEF Proceed, BackendCall
  <1> QED BY <1>1, <1>2, <1>4, <1>5, <1>6, <1>7, <1>8, <1>9 DEF Next

\* A step that at most settles one session: the first outcome and the first
\* start command stay.
Recorded ==
    /\ UNCHANGED <<tree, applied, diff, decision>>
    /\ \A s \in Runs : /\ outcome[s] # "none" => outcome'[s] = outcome[s]
                       /\ start[s] # NoCommand => start'[s] = start[s]
    /\ \A s, q \in Runs : outcome'[s] # outcome[s] /\ outcome'[q] # outcome[q] => s = q

\* Every step is the operator's, the runner's, a decision, or a record's.
LEMMA StepKinds ==
    ASSUME IInv, [Next]_vars
    PROVE  \/ Environment /\ UNCHANGED bridgeVars
           \/ \E s \in Runs : /\ bop[s] \in {"prepare", "preview", "resume"}
                              /\ ProcessStep(s) /\ UNCHANGED bridgeVars
           \/ \E s \in Runs, m \in Milestones, v \in Verdicts : Decide(s, m, v)
           \/ Recorded
  <1>0. outcome \in [Runs -> Outcomes] /\ start \in [Runs -> Commands \cup {NoCommand}]
    BY DEF IInv, TypeOK, BridgeTypeOK
  <1> USE DEF Recorded, runVars, journal, Settle, RecordOutcome
  <1>1. ASSUME NEW s \in Runs, Dispatch(s) PROVE Recorded
    <2>1. PICK c \in Commands :
              \/ Refuse(s, c) \/ StartGoverned(s, c) \/ StartA2A(s, c)
              \/ StartDegradation(s, c) \/ Pause(s, c) \/ Cancel(s, c)
              \/ ResumeGoverned(s, c) \/ ResumeDegradation(s, c)
      BY <1>1 DEF Dispatch
    <2> QED BY <2>1, <1>0 DEF Refuse, StartGoverned, StartA2A, StartDegradation, Pause, Cancel,
                              ResumeGoverned, ResumeDegradation
  <1>2. ASSUME NEW s \in Runs, NEW m \in Milestones, ReplayDecision(s, m) PROVE Recorded
    BY <1>2, <1>0 DEF ReplayDecision
  <1>3. ASSUME NEW s \in Runs, EffectStep(s) PROVE Recorded
    BY <1>3, <1>0 DEF EffectStep, WriteGovernedApproval, MarkApprovalWritten, EffectRejects,
       EffectExpires, EffectAllowsLanding, EffectGrantsPlan, EffectRaises, BackendPending,
       checkout, history
  <1>4. ASSUME NEW s \in Runs, Returns(s) PROVE Recorded
    BY <1>4, <1>0 DEF Ask, Returns, StartReturns, PreviewReturns, ResumeReturns, checkout, history
  <1>5. ASSUME NEW s \in Runs, Observe(s) \/ Closeout(s) \/ BridgeDies(s) PROVE Recorded
    BY <1>5, <1>0 DEF Observe, Closeout, BridgeDies, Terminated, LeaveFiles, checkout, history
  <1>6. CASE Sources \/ UNCHANGED vars
    BY <1>6, <1>0 DEF Sources, vars, bridgeVars
  <1>7. ASSUME NEW s \in Runs,
               BackendCall(s) \/ RunnerStep(s) \/ Excepted(s), UNCHANGED bridgeVars
        PROVE  bop[s] \in {"prepare", "preview", "resume"} /\ ProcessStep(s)
    <2>1. pc[s] = "idle" => BackendCall(s)
      BY <1>7, RunnerWorks DEF Excepted, Working, StateWriters, ApprovalWriters, SummaryWriters
    <2>2. bop[s] \in {"prepare", "preview", "resume"}
      BY <2>1 DEF IInv, SessionInv, InFlight, BackendCall
    <2> QED BY <1>7, <2>2 DEF BackendCall, ProcessStep, Interrupted
  <1> QED BY <1>1, <1>2, <1>3, <1>4, <1>5, <1>6, <1>7
          DEF Next, Proceed, ApplyApproval, BackendCall

\* The inductive invariant holds of the bridge over the runner.
THEOREM Inductive == Spec => []IInv
  BY InitIInv, NextIInv, PTL DEF Spec

\* Every session record, operation in flight and run file keeps its type.
THEOREM TypeCorrect == Spec => []TypeOK
  <1>1. IInv => TypeOK
    BY DEF IInv
  <1> QED BY <1>1, Inductive, PTL

\* The runner touches the main checkout only with both decisions approved in
\* the durable journal, and with the diff that was up when landing was approved.
THEOREM LandingNeedsJournal == Spec => []LandingIsJournaled
  <1>1. IInv => LandingIsJournaled
    BY DEF IInv, SessionInv, Journaled, Plan, Land, LandingIsJournaled
  <1> QED BY <1>1, Inductive, PTL

\* What the governed approval file approves, a recorded decision approved.
THEOREM ApprovalNeedsJournal == Spec => []ApprovalFileIsJournaled
  <1>1. IInv => ApprovalFileIsJournaled
    BY DEF IInv, SessionInv, Journaled, ApprovalFileIsJournaled
  <1> QED BY <1>1, Inductive, PTL

\* One start command ever drives a session's governed run.
THEOREM OneStart == Spec => OneStartPerRun
  <1>1. IInv /\ IInv' /\ [Next]_vars =>
          [\A s \in Runs : start[s] # NoCommand =>
              /\ start'[s] = start[s]
              /\ bop'[s] = "prepare" => bcmd'[s] = start[s]
              /\ \A c \in receipts'[s] : Governed(s) /\ KindOf[c] = "start" => c = start[s]]_vars
    <2> SUFFICES ASSUME IInv, IInv', [Next]_vars, NEW q \in Runs, start[q] # NoCommand
                 PROVE  /\ start'[q] = start[q]
                        /\ bop'[q] = "prepare" => bcmd'[q] = start[q]
                        /\ \A c \in receipts'[q] :
                              Governed(q) /\ KindOf[c] = "start" => c = start[q]
      OBVIOUS
    <2>1. start'[q] = start[q]
      BY StepKinds DEF Recorded, Decide, bridgeVars
    <2>2. InFlight(q)'
      BY DEF IInv, SessionInv
    <2> QED BY <2>1, <2>2 DEF InFlight, Governed
  <1> QED BY <1>1, Inductive, PTL DEF Spec, OneStartPerRun

\* A governed session that succeeded stands on a validated, reviewed diff.
THEOREM SuccessIsValidated == Spec => []SuccessWasValidated
  <1>1. IInv => SuccessWasValidated
    BY DEF IInv, RunOrder, Ordered, SessionInv, Journaled, Settles, SuccessWasValidated
  <1> QED BY <1>1, Inductive, PTL

\* With an SDK that refuses to leave a terminal state, state and outcome agree.
THEOREM OutcomesAgree == ASSUME SdkRefusesTerminalExit PROVE Spec => []OutcomeAgrees
  <1>1. IInv => OutcomeAgrees
    BY SdkRefusesTerminalExit DEF IInv, SessionInv, Settles, OutcomeAgrees
  <1> QED BY <1>1, Inductive, PTL

\* With such an SDK, once a session has an outcome the outcome stays, no preview
\* runs for it and nothing of it reaches the checkout.
THEOREM OutcomeIsFinal == ASSUME SdkRefusesTerminalExit PROVE Spec => NothingRunsAfterOutcome
  <1>1. IInv /\ [Next]_vars =>
          [\A s \in Runs : outcome[s] # "none" =>
              /\ outcome'[s] = outcome[s]
              /\ diff'[s] = diff[s]
              /\ (s \in tree' => s \in tree)]_vars
    <2> SUFFICES ASSUME IInv, [Next]_vars, NEW q \in Runs, outcome[q] # "none"
                 PROVE  outcome'[q] = outcome[q] /\ diff'[q] = diff[q] /\ (q \in tree' => q \in tree)
      OBVIOUS
    <2>1. CASE Environment /\ UNCHANGED bridgeVars
      BY <2>1, EnvironmentOrdered DEF IInv, TypeOK, Spares, bridgeVars
    <2>2. ASSUME NEW s \in Runs, bop[s] \in {"prepare", "preview", "resume"}, ProcessStep(s),
                 UNCHANGED bridgeVars
          PROVE  outcome'[q] = outcome[q] /\ diff'[q] = diff[q] /\ (q \in tree' => q \in tree)
      <3>1. outcome[s] = "none"
        BY <2>2, SdkRefusesTerminalExit DEF IInv, SessionInv, InFlight, Settles
      <3>2. Spares(q)
        BY <2>2, <3>1, ProcessStepOrdered DEF IInv, TypeOK, Footprint
      <3> QED BY <2>2, <3>2 DEF Spares, bridgeVars
    <2>3. ASSUME NEW s \in Runs, NEW m \in Milestones, NEW v \in Verdicts, Decide(s, m, v)
          PROVE  outcome'[q] = outcome[q] /\ diff'[q] = diff[q] /\ (q \in tree' => q \in tree)
      BY <2>3 DEF Decide, runVars
    <2>4. CASE Recorded
      BY <2>4 DEF Recorded
    <2> QED BY <2>1, <2>2, <2>3, <2>4, StepKinds
  <1> QED BY <1>1, Inductive, PTL DEF Spec, NothingRunsAfterOutcome

=============================================================================
