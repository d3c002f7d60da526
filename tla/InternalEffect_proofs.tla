------------------------- MODULE InternalEffect_proofs -------------------------
(***************************************************************************)
(* The safety properties of InternalEffect, for any plans, keys, approvals *)
(* and workers and for every bound.                                        *)
(*                                                                         *)
(* The two locks order the workers and the provisioner (Exclusive,         *)
(* Drained); the execution lock keeps a key unbound while its worker is    *)
(* past admission (Bound); a denial comes before the first restart         *)
(* (Untouched); and an observation's digest names one process for good     *)
(* (Published, Marked, Apart), so that two workers of one plan aim at the  *)
(* same process and only one of them can find it there.                    *)
(***************************************************************************)
EXTENDS InternalEffect, TLAPS

Before == {"idle", "asking", "queued", "locked", "claimed", "armed"}

\* The execution lock has one holder, a worker or the provisioner.
Exclusive ==
    \A w \in Workers : Pc(w) \in Executing =>
        /\ provisioner \notin Holding
        /\ \A v \in Workers \ {w} : Pc(v) \notin Executing

\* While the provisioner drains, no request is between its spawn and its close.
Drained == provisioner \in Draining => DrainLockFree

\* A worker past its admission has a key that no request is bound to.
Bound == \A w \in Workers :
    Pc(w) \in Executing \ {"locked"} => replay[Key(w)] = NoReplay

\* Nothing is restarted before the pre-effect file is there, nor by a denied worker.
Untouched ==
    /\ \A w \in Workers : Pc(w) \in Before => restarts[w] = 0 /\ w \notin changed
    /\ \A w \in denied : restarts[w] = 0 /\ Pc(w) \in {"exited", "closed"}

\* The plan p is staged, and while the observation it names is the published one,
\* that observation describes the process subject.
Describes(p, subject) ==
    staged[p] # 0 /\ (staged[p] = observation.digest => observation.process = subject)

\* What is observed or staged lies in the past.
Published ==
    /\ process <= newest /\ observation.process <= newest /\ observation.digest > 0
    /\ \A p \in Plans : staged[p] <= observation.digest

\* A worker aims at the process its plan's observation describes; the one whose
\* restart replaced that process will not meet it again.
Marked ==
    /\ \A w \in Workers : Pc(w) = "claimed" => Describes(Plan(w), worker[w].subject)
    /\ \A w \in Workers : Pc(w) \in InEffect \/ w \in changed =>
          /\ worker[w].pre > 0 /\ worker[w].pre <= newest
          /\ Describes(Plan(w), worker[w].pre)
    /\ \A w \in changed : process # worker[w].pre

\* Another worker of a plan that was carried out aims at the same process, which
\* is gone: it gets no further than its claim.
Apart ==
    \A w \in changed : \A v \in Workers \ {w} : Plan(v) = Plan(w) =>
        /\ Pc(v) = "claimed" => worker[v].subject = worker[w].pre
        /\ Pc(v) \notin InEffect /\ v \notin changed

Order == Exclusive /\ Drained /\ Bound /\ Untouched /\ Published /\ Marked /\ Apart
IInv == TypeOK /\ Order

---------------------------------------------------------------------------
(* Typing. *)

\* The workers' records keep their types when a field gets a proper value.
LEMMA WorkerTyped ==
    ASSUME NEW f \in [Workers -> Records], NEW w \in Workers
    PROVE  /\ \A x \in Pcs : [f EXCEPT ![w].pc = x] \in [Workers -> Records]
           /\ \A x \in Approvals : [f EXCEPT ![w].approval = x] \in [Workers -> Records]
           /\ \A x \in Plans : [f EXCEPT ![w].plan = x] \in [Workers -> Records]
           /\ \A x \in Nat : [f EXCEPT ![w].subject = x] \in [Workers -> Records]
           /\ \A x \in Nat : [f EXCEPT ![w].pre = x] \in [Workers -> Records]
           /\ \A x \in Nat : [f EXCEPT ![w].post = x] \in [Workers -> Records]
           /\ \A x \in BOOLEAN : [f EXCEPT ![w].ok = x] \in [Workers -> Records]
           /\ \A x \in Keys : [f EXCEPT ![w].key = x] \in [Workers -> Records]
  BY DEF Records

\* What is left of a process that is gone is a record that is closed.
LEMMA GoneTyped ==
    ASSUME NEW r \in Records
    PROVE  /\ Gone(r) \in Records /\ Gone(r).pc = "closed"
           /\ Gone(r).plan = r.plan /\ Gone(r).pre = r.pre
  <1>1. (CHOOSE a \in Approvals : TRUE) \in Approvals /\ (CHOOSE k \in Keys : TRUE) \in Keys
    BY EffectAssumption
  <1>2. Idle.approval \in Approvals /\ Idle.key \in Keys
    BY <1>1 DEF Idle
  <1> QED BY <1>2 DEF Records, Gone, Pcs

\* Journal and budget keep their types field by field.
LEMMA JournalTyped ==
    ASSUME NEW j \in Journals
    PROVE  /\ \A n \in Nat : [j EXCEPT !.count = n] \in Journals
           /\ \A x \in BOOLEAN : [j EXCEPT !.recent = x] \in Journals
           /\ \A x \in BOOLEAN : [j EXCEPT !.torn = x] \in Journals
  BY DEF Journals

\* The budgets of the outside events, the same way.
LEMMA BudgetTyped ==
    ASSUME NEW b \in Budgets
    PROVE  /\ \A n \in Nat : [b EXCEPT !.kills = n] \in Budgets
           /\ \A n \in Nat : [b EXCEPT !.foreign = n] \in Budgets
           /\ \A n \in Nat : [b EXCEPT !.provisions = n] \in Budgets
  BY DEF Budgets

\* The members of the typed records that the steps read.
LEMMA Reads ==
    ASSUME TypeOK
    PROVE  /\ \A w \in Workers :
                 /\ worker[w] \in Records /\ Pc(w) \in Pcs
                 /\ worker[w].approval \in Approvals /\ Plan(w) \in Plans /\ Key(w) \in Keys
                 /\ worker[w].subject \in Nat /\ worker[w].pre \in Nat
                 /\ worker[w].ok \in BOOLEAN
           /\ observation.digest \in Nat /\ observation.process \in Nat
           /\ journal.count \in Nat
           /\ budget.kills \in Nat /\ budget.foreign \in Nat /\ budget.provisions \in Nat
           /\ \A p \in Plans : staged[p] \in Nat
  <1>1. \A w \in Workers : worker[w] \in Records
    BY DEF TypeOK
  <1>2. \A w \in Workers :
           /\ Pc(w) \in Pcs /\ worker[w].approval \in Approvals /\ Plan(w) \in Plans
           /\ Key(w) \in Keys
           /\ worker[w].subject \in Nat /\ worker[w].pre \in Nat
           /\ worker[w].ok \in BOOLEAN
    BY <1>1 DEF Records, Pc, Plan, Key
  <1>4. observation.digest \in Nat /\ observation.process \in Nat
    BY DEF TypeOK, Observations
  <1>5. journal.count \in Nat /\ budget.kills \in Nat /\ budget.foreign \in Nat
        /\ budget.provisions \in Nat
    BY DEF TypeOK, Journals, Budgets
  <1> QED BY <1>1, <1>2, <1>4, <1>5 DEF TypeOK

\* What is spent of the budget was left of it.
LEMMA SpentTyped ==
    ASSUME TypeOK
    PROVE  /\ budget.kills > 0 => [budget EXCEPT !.kills = @ - 1] \in Budgets
           /\ budget.foreign > 0 => [budget EXCEPT !.foreign = @ - 1] \in Budgets
           /\ budget.provisions > 0 => [budget EXCEPT !.provisions = @ - 1] \in Budgets
  <1>1. /\ budget.kills > 0 => budget.kills - 1 \in Nat
        /\ budget.foreign > 0 => budget.foreign - 1 \in Nat
        /\ budget.provisions > 0 => budget.provisions - 1 \in Nat
    BY Reads
  <1>2. budget \in Budgets
    BY DEF TypeOK
  <1> QED BY <1>1, <1>2, BudgetTyped

---------------------------------------------------------------------------
(* How a step moves workers. *)

\* What the steps of others leave of a worker.
Stays(v) ==
    /\ Pc(v)' = Pc(v) /\ Key(v)' = Key(v) /\ Plan(v)' = Plan(v)
    /\ worker'[v].subject = worker[v].subject /\ worker'[v].pre = worker[v].pre

\* The worker stays, asks, or goes for good.
Calm(v) ==
    \/ Stays(v)
    \/ Pc(v) = "idle" /\ (Pc(v)' = "asking" \/ (v \in Shells /\ Pc(v)' = "queued"))
    \/ /\ Plan(v)' = Plan(v)
       /\ worker'[v].pre = worker[v].pre
       /\ \/ Pc(v) \in Running /\ Pc(v)' = "exited"
          \/ Pc(v) # "idle" /\ Pc(v)' = "closed"

\* Worker w goes to pc, and everything else about the workers stays.
Moves(w, pc) ==
    /\ worker' \in [Workers -> Records]
    /\ Pc(w)' = pc /\ Key(w)' = Key(w) /\ Plan(w)' = Plan(w)
    /\ \A v \in Workers \ {w} : Stays(v)

\* A process that goes to another program counter moves.
LEMMA GoesMoves ==
    ASSUME TypeOK, NEW w \in Workers, NEW pc \in Pcs, Goes(w, pc)
    PROVE  Moves(w, pc) /\ worker'[w].subject = worker[w].subject
           /\ worker'[w].pre = worker[w].pre
  <1>1. worker' \in [Workers -> Records]
    BY WorkerTyped DEF TypeOK, Goes
  <1>2. \A v \in Workers \ {w} : worker'[v] = worker[v]
    BY DEF TypeOK, Goes
  <1>3. /\ worker'[w].pc = pc /\ worker'[w].key = worker[w].key
        /\ worker'[w].plan = worker[w].plan /\ worker'[w].subject = worker[w].subject
        /\ worker'[w].pre = worker[w].pre
    BY DEF TypeOK, Goes, Records
  <1> QED BY <1>1, <1>2, <1>3 DEF Moves, Stays, Pc, Plan, Key

\* A process that exits leaves every worker calm.
LEMMA ExitCalm ==
    ASSUME TypeOK, NEW w \in Workers, Pc(w) \in Running, Exit(w)
    PROVE  worker' \in [Workers -> Records] /\ Pc(w)' = "exited" /\ \A v \in Workers : Calm(v)
  <1>1. Moves(w, "exited") /\ worker'[w].pre = worker[w].pre
    BY GoesMoves DEF Exit, Pcs
  <1> QED BY <1>1 DEF Moves, Calm

\* The stop of the unit leaves every worker calm.
LEMMA StopCalm ==
    ASSUME TypeOK, worker' = Stopped
    PROVE  /\ worker' \in [Workers -> Records]
           /\ \A v \in Workers : Calm(v)
           /\ \A v \in Workers \ Shells : Pc(v)' \in {"idle", "closed"}
  <1>1. worker' \in [Workers -> Records]
    BY GoneTyped DEF TypeOK, Stopped
  <1>2. \A v \in Workers :
           worker'[v] = IF v \notin Shells /\ Pc(v) # "idle" THEN Gone(worker[v]) ELSE worker[v]
    BY DEF Stopped
  <1>3. ASSUME NEW v \in Workers PROVE Calm(v) /\ (v \notin Shells => Pc(v)' \in {"idle", "closed"})
    <2>1. CASE v \notin Shells /\ Pc(v) # "idle"
      BY <1>2, <2>1, GoneTyped, Reads DEF Calm, Pc, Plan
    <2>2. CASE ~(v \notin Shells /\ Pc(v) # "idle")
      BY <1>2, <2>2 DEF Calm, Stays, Pc, Plan, Key
    <2> QED BY <2>1, <2>2
  <1> QED BY <1>1, <1>3

\* A step that starts nothing: workers are calm, denials come from admission, and
\* an idempotency file is written only by a worker that then exits.
Calmly ==
    /\ worker' \in [Workers -> Records] /\ \A v \in Workers : Calm(v)
    /\ UNCHANGED <<provisioner, staged, observation, process, newest, restarts, changed>>
    /\ denied' \subseteq Workers
    /\ \A w \in denied' : \/ w \in denied
                          \/ Pc(w) \in {"locked", "claimed"} /\ Pc(w)' = "exited"
    /\ \/ replay' = replay
       \/ \E w \in Workers : Pc(w) \in Executing /\ Pc(w)' \notin Executing

\* Such a step keeps the order.
LEMMA CalmKeeps == IInv /\ Calmly => Order'
  <1> SUFFICES ASSUME IInv, Calmly PROVE Order'
    OBVIOUS
  <1>1. \A w \in Workers : Calm(w)
    BY DEF Calmly
  <1>2. \A w \in Workers : Pc(w)' \in Executing =>
           Pc(w)' = Pc(w) /\ Key(w)' = Key(w) /\ Plan(w)' = Plan(w)
           /\ worker'[w].subject = worker[w].subject /\ worker'[w].pre = worker[w].pre
    BY <1>1 DEF Calm, Stays, Executing, InEffect
  <1>3. Exclusive'
    BY <1>2 DEF IInv, Order, Exclusive, Calmly
  <1>4. Drained'
    BY <1>1 DEF IInv, Order, Drained, DrainLockFree, Calmly, Calm, Stays, Running, Executing, InEffect
  <1>5. Bound'
    <2>1. CASE replay' = replay
      BY <1>2, <2>1 DEF IInv, Order, Bound, Key
    <2>2. CASE \E w \in Workers : Pc(w) \in Executing /\ Pc(w)' \notin Executing
      BY <1>2, <2>2 DEF IInv, Order, Exclusive, Bound
    <2> QED BY <2>1, <2>2 DEF Calmly
  <1>6. Untouched'
    <2>1. \A w \in Workers : Pc(w)' \in Before => Pc(w) \in Before
      BY <1>1 DEF Calm, Stays, Before
    <2>2. \A w \in denied : Pc(w)' \in {"exited", "closed"}
      BY <1>1 DEF IInv, TypeOK, Order, Untouched, Calm, Stays
    <2> QED BY <2>1, <2>2 DEF IInv, TypeOK, Order, Untouched, Calmly, Before
  <1>7. Published'
    BY DEF IInv, Order, Published, Calmly
  <1>8. \A w \in Workers : Pc(w)' \in {"claimed"} \cup InEffect => Pc(w)' \in Executing
    BY DEF Executing
  <1>9. \A w \in changed : worker'[w].pre = worker[w].pre /\ Plan(w)' = Plan(w)
    BY <1>1 DEF IInv, TypeOK, Order, Untouched, Before, Calm, Stays
  <1>10. Marked'
    BY <1>2, <1>8, <1>9 DEF IInv, TypeOK, Order, Marked, Describes, Calmly
  <1>11. Apart'
    <2> SUFFICES ASSUME NEW w \in changed, NEW v \in Workers \ {w}, Plan(v)' = Plan(w)'
                 PROVE  /\ Pc(v)' = "claimed" => worker'[v].subject = worker'[w].pre
                        /\ Pc(v)' \notin InEffect /\ v \notin changed
      BY DEF Apart, Calmly
    <2>1. CASE Plan(v)' = Plan(v)
      BY <1>2, <1>8, <1>9, <2>1 DEF IInv, Order, Apart
    <2>2. CASE Plan(v)' # Plan(v)
      BY <1>2, <1>8, <1>9, <2>2
    <2> QED BY <2>1, <2>2
  <1> QED BY <1>3, <1>4, <1>5, <1>6, <1>7, <1>10, <1>11 DEF Order

---------------------------------------------------------------------------
(* Calm steps. *)

\* Approvals, their expiry, the passing minute and the start of the unit are calm.
LEMMA OutsideCalm ==
    ASSUME IInv, (\E a \in Approvals : Approve(a)) \/ MinutePasses \/ StartUnit
    PROVE  IInv'
  <1>1. TypeOK'
    <2>1. CASE \E a \in Approvals : Approve(a)
      BY <2>1 DEF IInv, TypeOK, Approve, unit, history
    <2>2. CASE MinutePasses
      <3>1. journal' \in Journals
        BY <2>2, JournalTyped DEF IInv, TypeOK, MinutePasses
      <3> QED BY <2>2, <3>1 DEF IInv, TypeOK, MinutePasses, unit, history
    <2>3. CASE StartUnit
      BY <2>3 DEF IInv, TypeOK, StartUnit, files, unit, history
    <2> QED BY <2>1, <2>2, <2>3
  <1>2. /\ UNCHANGED <<worker, provisioner, staged, observation, process, newest>>
        /\ UNCHANGED <<restarts, changed, denied, replay>>
    BY DEF Approve, MinutePasses, StartUnit, files, unit, history
  <1>3. Calmly
    BY <1>2 DEF IInv, TypeOK, Calmly, Calm, Stays, Pc, Plan, Key
  <1> QED BY <1>1, <1>3, CalmKeeps DEF IInv

\* A request comes to an idle worker.
LEMMA RequestKeeps ==
    ASSUME IInv, NEW w \in Workers, Request(w)
    PROVE  IInv'
  <1>1. PICK a \in Approvals, p \in Plans, k \in Keys :
          worker' = [worker EXCEPT ![w].approval = a, ![w].plan = p, ![w].key = k,
                        ![w].pc = IF w \in Shells THEN "queued" ELSE "asking"]
    BY DEF Request
  <1>3. (IF w \in Shells THEN "queued" ELSE "asking") \in Pcs
    BY DEF Pcs
  <1>4. worker' \in [Workers -> Records]
    BY <1>1, <1>3, WorkerTyped DEF IInv, TypeOK
  <1>5. \A v \in Workers \ {w} : worker'[v] = worker[v]
    BY <1>1 DEF IInv, TypeOK
  <1>6. worker'[w].pc = IF w \in Shells THEN "queued" ELSE "asking"
    BY <1>1 DEF IInv, TypeOK, Records
  <1>7. UNCHANGED <<files, unit, history, observation, provisioner, serving, budget>>
    BY DEF Request
  <1>8. TypeOK'
    BY <1>4, <1>7 DEF IInv, TypeOK, files, unit, history
  <1>9. \A v \in Workers : Calm(v)
    <2>1. Pc(w) = "idle" /\ (Pc(w)' = "asking" \/ (w \in Shells /\ Pc(w)' = "queued"))
      BY <1>6 DEF Request, Pc
    <2> QED BY <1>5, <2>1 DEF Calm, Stays, Pc, Plan, Key
  <1>10. Calmly
    BY <1>4, <1>7, <1>9 DEF IInv, TypeOK, Calmly, files, unit, history
  <1> QED BY <1>8, <1>10, CalmKeeps DEF IInv

\* The server closes a request whose worker has exited.
LEMMA CloseKeeps ==
    ASSUME IInv, NEW w \in Workers, Close(w)
    PROVE  IInv'
  <1>1. worker' \in [Workers -> Records] /\ worker'[w] = Gone(worker[w])
        /\ \A v \in Workers \ {w} : worker'[v] = worker[v]
    BY GoneTyped DEF IInv, TypeOK, Close
  <1>2. worker[w] \in Records
    BY Reads DEF IInv
  <1>3. \A v \in Workers : Calm(v)
    BY <1>1, <1>2, GoneTyped DEF Close, Calm, Stays, Pc, Plan, Key
  <1>4. UNCHANGED <<files, unit, history, observation, provisioner, serving, budget>>
    BY DEF Close
  <1>5. TypeOK'
    BY <1>1, <1>4 DEF IInv, TypeOK, files, unit, history
  <1>6. Calmly
    BY <1>1, <1>3, <1>4 DEF IInv, TypeOK, Calmly, files, unit, history
  <1> QED BY <1>5, <1>6, CalmKeeps DEF IInv

\* What a death leaves of the file that was being written.
LEMMA TornTyped ==
    ASSUME TypeOK, NEW w \in Workers, TornBy(w)
    PROVE  /\ journal' \in Journals /\ armed' \subseteq Plans \X Keys
           /\ replay' \in [Keys -> {NoReplay, Torn} \cup Approvals]
           /\ UNCHANGED <<staged, approval, denied, recovered, applied>>
           /\ replay' = replay \/ Pc(w) = "receipted"
  <1>1. Key(w) \in Keys /\ Plan(w) \in Plans
    BY Reads
  <1>2. journal' \in Journals
    <2>1. journal' \in {journal, [journal EXCEPT !.torn = TRUE]}
      BY DEF TornBy
    <2> QED BY <2>1, JournalTyped DEF TypeOK
  <1>3. armed' \subseteq Plans \X Keys
    BY <1>1 DEF TypeOK, TornBy
  <1>4. \/ replay' = replay
        \/ Pc(w) = "receipted" /\ replay' = [replay EXCEPT ![Key(w)] = Torn]
    BY DEF TornBy
  <1>5. replay' \in [Keys -> {NoReplay, Torn} \cup Approvals]
    BY <1>1, <1>4 DEF TypeOK
  <1> QED BY <1>2, <1>3, <1>4, <1>5 DEF TornBy

\* A worker that ends without an effect of its own: replay, refusal, unreadable
\* observation, drift, recovery, a pre-effect file that is there, time-out, kill.
LEMMA ExitKeeps ==
    ASSUME IInv, NEW w \in Workers, Exit(w), Pc(w) \in Running,
           UNCHANGED <<staged, observation, process, newest, provisioner, serving>>,
           UNCHANGED <<restarts, changed, applied>>,
           approval' = approval, recovered' \in {recovered, recovered \cup {w}},
           armed' \subseteq Plans \X Keys, journal' \in Journals, budget' \in Budgets,
           \/ denied' = denied
           \/ denied' = denied \cup {w} /\ Pc(w) \in {"locked", "claimed"},
           replay' \in [Keys -> {NoReplay, Torn} \cup Approvals],
           replay' = replay \/ Pc(w) = "receipted"
    PROVE  IInv'
  <1>1. worker' \in [Workers -> Records] /\ Pc(w)' = "exited" /\ \A v \in Workers : Calm(v)
    BY ExitCalm DEF IInv
  <1>2. TypeOK'
    BY <1>1 DEF IInv, TypeOK
  <1>3. Pc(w) = "receipted" => Pc(w) \in Executing /\ Pc(w)' \notin Executing
    BY <1>1 DEF Executing, InEffect
  <1>4. Calmly
    BY <1>1, <1>3 DEF IInv, TypeOK, Calmly
  <1> QED BY <1>2, <1>4, CalmKeeps DEF IInv

\* The ends of a worker that are of that kind.
LEMMA EndsKeep ==
    ASSUME IInv, NEW w \in Workers,
           \/ Replay(w) \/ Refuse(w) \/ Unreadable(w) \/ Drift(w) \/ Recover(w)
           \/ WriteReplay(w) \/ TimeOut(w) \/ KillShell(w)
    PROVE  IInv'
  <1>1. Key(w) \in Keys /\ worker[w].approval \in Approvals /\ budget.kills \in Nat
    BY Reads DEF IInv
  <1>2. CASE Replay(w) \/ Unreadable(w)
    BY <1>2, ExitKeeps DEF IInv, TypeOK, Replay, Unreadable, files, unit, history, Running, Executing
  <1>3. CASE Refuse(w) \/ Drift(w)
    BY <1>3, ExitKeeps DEF IInv, TypeOK, Refuse, Drift, Deny, unit, history, Running, Executing
  <1>4. CASE Recover(w)
    BY <1>4, ExitKeeps DEF IInv, TypeOK, Recover, unit, history, Running, Executing
  <1>5. CASE WriteReplay(w)
    <2>1. replay' \in [Keys -> {NoReplay, Torn} \cup Approvals]
      BY <1>1, <1>5 DEF IInv, TypeOK, WriteReplay
    <2> QED BY <1>5, <2>1, ExitKeeps DEF IInv, TypeOK, WriteReplay, unit, history, Running, Executing
  <1>6. CASE TimeOut(w)
    <2>1. /\ TornBy(w) /\ Exit(w) /\ Pc(w) \in Running
          /\ UNCHANGED <<unit, history, observation, provisioner, serving, budget>>
      BY <1>6 DEF TimeOut
    <2> QED BY <2>1, TornTyped, ExitKeeps DEF IInv, TypeOK, unit, history
  <1>7. CASE KillShell(w)
    <2>1. /\ TornBy(w) /\ Exit(w) /\ Pc(w) \in Running
          /\ UNCHANGED <<unit, history, observation, provisioner, serving>>
          /\ budget' = [budget EXCEPT !.kills = budget.kills - 1] /\ budget.kills > 0
      BY <1>7 DEF KillShell
    <2>2. budget' \in Budgets
      BY <2>1, SpentTyped DEF IInv
    <2> QED BY <2>1, <2>2, TornTyped, ExitKeeps DEF IInv, TypeOK, unit, history
  <1> QED BY <1>2, <1>3, <1>4, <1>5, <1>6, <1>7

\* The unit's stop closes every request; the one that executed may leave a torn file.
LEMMA StopUnitKeeps ==
    ASSUME IInv, StopUnit
    PROVE  IInv'
  <1>1. /\ worker' \in [Workers -> Records] /\ \A v \in Workers : Calm(v)
        /\ \A v \in Workers \ Shells : Pc(v)' \in {"idle", "closed"}
    BY StopCalm DEF IInv, StopUnit
  <1>2. budget' \in Budgets
    BY SpentTyped DEF IInv, StopUnit
  <1>3. UNCHANGED <<unit, history, observation, provisioner>> /\ serving' = FALSE
    BY DEF StopUnit
  <1>4. /\ journal' \in Journals /\ armed' \subseteq Plans \X Keys
        /\ replay' \in [Keys -> {NoReplay, Torn} \cup Approvals]
        /\ UNCHANGED <<staged, approval, denied, recovered, applied>>
        /\ \/ replay' = replay
           \/ \E w \in Workers : Pc(w) \in Executing /\ Pc(w)' \notin Executing
    <2>1. CASE \E w \in Workers \ Shells : Pc(w) \in Executing /\ TornBy(w)
      <3>1. PICK w \in Workers \ Shells : Pc(w) \in Executing /\ TornBy(w)
        BY <2>1
      <3>2. Pc(w)' \notin Executing
        BY <1>1 DEF Executing, InEffect
      <3> QED BY <3>1, <3>2, TornTyped DEF IInv
    <2>2. CASE UNCHANGED files
      BY <2>2 DEF IInv, TypeOK, files
    <2> QED BY <2>1, <2>2 DEF StopUnit
  <1>5. TypeOK'
    BY <1>1, <1>2, <1>3, <1>4 DEF IInv, TypeOK, unit, history
  <1>6. Calmly
    BY <1>1, <1>3, <1>4 DEF IInv, TypeOK, Calmly, unit, history
  <1> QED BY <1>5, <1>6, CalmKeeps DEF IInv

---------------------------------------------------------------------------
(* Steps that touch the published observation or the read service. *)

\* What concerns workers, locks and keys, as long as these stay.
LEMMA StandingKeeps ==
    ASSUME IInv, UNCHANGED <<worker, provisioner, replay, denied, restarts, changed>>
    PROVE  Exclusive' /\ Drained' /\ Bound' /\ Untouched' /\ Apart'
  BY DEF IInv, Order, Exclusive, Drained, DrainLockFree, Bound, Untouched, Apart, Pc, Plan, Key

\* A plan is staged with the digest that is out; the plans of workers that got past
\* admission are staged already.
LEMMA StagePlanKeeps ==
    ASSUME IInv, NEW p \in Plans, StagePlan(p)
    PROVE  IInv'
  <1>1. /\ staged[p] = 0 /\ staged' = [staged EXCEPT ![p] = observation.digest]
        /\ UNCHANGED <<approval, replay, armed, journal, denied, recovered, applied,
                       unit, history, observation, worker, provisioner, serving, budget>>
    BY DEF StagePlan
  <1>2. observation.digest \in Nat /\ observation.digest > 0
    BY Reads DEF IInv, Order, Published
  <1>3. TypeOK'
    BY <1>1, <1>2 DEF IInv, TypeOK, unit, history
  <1>4. Published'
    BY <1>1, <1>2 DEF IInv, TypeOK, Order, Published, unit
  <1>5. \A w \in Workers : staged[Plan(w)] # 0 => staged'[Plan(w)] = staged[Plan(w)]
    BY <1>1, Reads DEF IInv, TypeOK
  <1>6. \A w \in Workers, n \in Nat : Describes(Plan(w), n) => Describes(Plan(w), n)'
    BY <1>1, <1>5 DEF Describes, Plan
  <1>7. changed \subseteq Workers
    BY DEF IInv, TypeOK
  <1>8. Marked'
    BY <1>1, <1>6, <1>7, Reads DEF IInv, Order, Marked, unit, history, Pc, Plan
  <1> QED BY <1>1, <1>3, <1>4, <1>8, StandingKeeps DEF IInv, Order, history

\* No plan names a digest that is yet to come.
LEMMA ObserveKeeps ==
    ASSUME IInv, Observe
    PROVE  IInv'
  <1>1. PICK seen \in observation.process..newest, readable \in BOOLEAN :
           observation' = [digest |-> observation.digest + 1,
                           process |-> seen, readable |-> readable]
    BY DEF Observe
  <1>2. UNCHANGED <<files, unit, history, worker, provisioner, serving, budget>>
    BY DEF Observe
  <1>3. observation.digest \in Nat /\ observation.process \in Nat /\ newest \in Nat
    BY Reads DEF IInv, TypeOK
  <1>4. observation' \in Observations /\ observation'.digest = observation.digest + 1
        /\ observation'.process <= newest
    BY <1>1, <1>3 DEF Observations
  <1>5. TypeOK'
    BY <1>2, <1>4 DEF IInv, TypeOK, files, unit, history
  <1>6. \A p \in Plans : staged'[p] = staged[p] /\ staged[p] \in Nat
                         /\ staged[p] <= observation.digest
    BY <1>2, Reads DEF IInv, Order, Published, files
  <1>7. Published'
    BY <1>2, <1>3, <1>4, <1>6 DEF IInv, Order, Published, unit
  <1>8. \A p \in Plans : staged'[p] # observation'.digest
    BY <1>3, <1>4, <1>6
  <1>9. changed \subseteq Workers
    BY DEF IInv, TypeOK
  <1>10. Marked'
    BY <1>2, <1>6, <1>8, <1>9, Reads
    DEF IInv, Order, Marked, Describes, files, unit, history, Pc, Plan
  <1> QED BY <1>2, <1>5, <1>7, <1>10, StandingKeeps DEF IInv, Order, files, history

\* The read service is replaced by a process that no one has met, or lost.
LEMMA UnitMarks ==
    ASSUME IInv, UNCHANGED <<worker, staged, observation, changed>>,
           \/ process' = newest + 1 /\ newest' = newest + 1
           \/ process' = 0 /\ newest' = newest
    PROVE  Published' /\ Marked' /\ process' \in Nat /\ newest' \in Nat
  <1>1. process \in Nat /\ newest \in Nat /\ changed \subseteq Workers
    BY DEF IInv, TypeOK
  <1>2. process' \in Nat /\ newest' \in Nat /\ newest <= newest' /\ process' <= newest'
    BY <1>1
  <1>3. Published'
    BY <1>1, <1>2, Reads DEF IInv, Order, Published
  <1>4. \A w \in changed : worker[w].pre \in Nat /\ worker[w].pre > 0 /\ worker[w].pre <= newest
    BY <1>1, Reads DEF IInv, Order, Marked
  <1>5. \A w \in changed : process' # worker[w].pre
    BY <1>1, <1>4
  <1>6. Marked'
    BY <1>1, <1>2, <1>5, Reads DEF IInv, Order, Marked, Describes, Pc, Plan
  <1> QED BY <1>2, <1>3, <1>6

\* The read service is changed by others.
LEMMA ForeignKeeps ==
    ASSUME IInv, Foreign
    PROVE  IInv'
  <1>1. UNCHANGED <<files, history, observation, worker, provisioner, serving>>
    BY DEF Foreign
  <1>2. budget' \in Budgets
    BY SpentTyped DEF IInv, Foreign
  <1>3. Published' /\ Marked' /\ process' \in Nat /\ newest' \in Nat
    BY <1>1, UnitMarks DEF Foreign, files, history
  <1>4. TypeOK'
    BY <1>1, <1>2, <1>3 DEF IInv, TypeOK, files, history
  <1> QED BY <1>1, <1>3, <1>4, StandingKeeps DEF IInv, Order, files, history

---------------------------------------------------------------------------
(* Steps of a worker towards its effect. *)

\* A worker that holds the execution lock and keeps it.
LEMMA LockKept ==
    ASSUME IInv, NEW w \in Workers, NEW pc \in Executing, Moves(w, pc),
           Pc(w) \in Executing, provisioner' = provisioner
    PROVE  Exclusive' /\ Drained'
  <1>1. \A v \in Workers : Pc(v)' \in Executing <=> Pc(v) \in Executing
    BY DEF Moves, Stays
  <1>2. Exclusive'
    BY <1>1 DEF IInv, Order, Exclusive
  <1>3. \A v \in Workers \ {w} : Pc(v)' = Pc(v)
    BY DEF Moves, Stays
  <1>4. Drained'
    BY <1>3 DEF IInv, Order, Drained, DrainLockFree, Running
  <1> QED BY <1>2, <1>4

\* A worker that was past admission leaves the keys unbound.
LEMMA StillUnbound ==
    ASSUME IInv, NEW w \in Workers, NEW pc \in Pcs, Moves(w, pc),
           Pc(w) \in Executing \ {"locked"}, replay' = replay
    PROVE  Bound'
  BY DEF IInv, Order, Bound, Moves, Stays, Key

\* _acquire_request_drain_lock: the provisioner does not drain.
LEMMA AdmitKeeps ==
    ASSUME IInv, NEW w \in Workers, Admit(w)
    PROVE  IInv'
  <1>1. worker' = [worker EXCEPT ![w].pc = "queued"]
    BY DEF Admit, Goes
  <1>2. "queued" \in Pcs
    BY DEF Pcs
  <1>3. worker' \in [Workers -> Records]
    BY <1>1, <1>2, WorkerTyped DEF IInv, TypeOK
  <1>4. \A v \in Workers \ {w} : worker'[v] = worker[v]
    BY <1>1 DEF IInv, TypeOK
  <1>5. /\ worker'[w].pc = "queued" /\ worker'[w].key = worker[w].key
        /\ worker'[w].plan = worker[w].plan /\ worker'[w].subject = worker[w].subject
        /\ worker'[w].pre = worker[w].pre
    BY <1>1 DEF IInv, TypeOK, Records
  <1>6. UNCHANGED <<files, unit, history, observation, provisioner, serving, budget>>
    BY DEF Admit
  <1>7. TypeOK'
    BY <1>3, <1>6 DEF IInv, TypeOK, files, unit, history
  <1>8. \A v \in Workers : Pc(v)' \in {"claimed"} \cup Executing => Stays(v)
    BY <1>4, <1>5 DEF Stays, Pc, Plan, Key, Executing, InEffect
  <1>9. Exclusive' /\ Bound'
    BY <1>6, <1>8 DEF IInv, Order, Exclusive, Bound, Stays, Key, files
  <1>10. Drained'
    BY <1>6 DEF Admit, Drained
  <1>11. Untouched'
    BY <1>4, <1>5, <1>6 DEF IInv, TypeOK, Order, Untouched, Before, Pc, Admit, files, history
  <1>12. Published'
    BY <1>6 DEF IInv, Order, Published, files, unit
  <1>13. \A v \in Workers : worker'[v].pre = worker[v].pre /\ Plan(v)' = Plan(v)
                            /\ (Pc(v)' \in {"claimed"} \cup InEffect => Stays(v))
    BY <1>4, <1>5, <1>8 DEF Plan, Executing
  <1>14. Marked' /\ Apart'
    BY <1>6, <1>13 DEF IInv, TypeOK, Order, Marked, Apart, Describes, Stays, files, unit, history
  <1> QED BY <1>7, <1>9, <1>10, <1>11, <1>12, <1>14 DEF IInv, Order

\* flock(LOCK_EX) is granted when neither a worker nor the provisioner has it.
LEMMA AcquireKeeps ==
    ASSUME IInv, NEW w \in Workers, Acquire(w)
    PROVE  IInv'
  <1>1. Goes(w, "locked") /\ "locked" \in Pcs
    BY DEF Acquire, Pcs, Executing
  <1>2. Moves(w, "locked") /\ worker'[w].pre = worker[w].pre
    BY <1>1, GoesMoves DEF IInv
  <1>4. worker' \in [Workers -> Records]
    BY <1>2 DEF Moves
  <1>5. \A v \in Workers \ {w} : Stays(v)
    BY <1>2 DEF Moves
  <1>6. /\ Pc(w)' = "locked" /\ Plan(w)' = Plan(w) /\ worker'[w].pre = worker[w].pre
    BY <1>2 DEF Moves
  <1>7. UNCHANGED <<files, unit, history, observation, provisioner, serving, budget>>
    BY DEF Acquire
  <1>8. Pc(w) = "queued" /\ ExecutionLockFree
    BY DEF Acquire
  <1>9. TypeOK'
    BY <1>4, <1>7 DEF IInv, TypeOK, files, unit, history
  <1>10. Exclusive'
    BY <1>5, <1>7, <1>8 DEF Exclusive, ExecutionLockFree, Stays
  <1>11. Drained'
    BY <1>5, <1>7, <1>8 DEF IInv, Order, Drained, DrainLockFree, Stays, Running
  <1>12. Bound'
    BY <1>5, <1>6, <1>7 DEF IInv, Order, Bound, Stays, Key, files
  <1>13. Untouched'
    BY <1>5, <1>6, <1>7, <1>8 DEF IInv, TypeOK, Order, Untouched, Before, Stays, files, history
  <1>14. Published'
    BY <1>7 DEF IInv, Order, Published, files, unit
  <1>15. \A v \in Workers : worker'[v].pre = worker[v].pre /\ Plan(v)' = Plan(v)
                            /\ (Pc(v)' \in {"claimed"} \cup InEffect => Stays(v))
    BY <1>5, <1>6 DEF Stays, InEffect
  <1>16. Marked' /\ Apart'
    BY <1>7, <1>15 DEF IInv, TypeOK, Order, Marked, Apart, Describes, Stays, files, unit, history
  <1> QED BY <1>9, <1>10, <1>11, <1>12, <1>13, <1>14, <1>16 DEF IInv, Order

\* A claim finds the observation its plan was made from, and aims at its process.
LEMMA ClaimKeeps ==
    ASSUME IInv, NEW w \in Workers, Claim(w)
    PROVE  IInv'
  <1>1. /\ Pc(w) = "locked" /\ replay[Key(w)] = NoReplay /\ staged[Plan(w)] # 0
        /\ observation.digest = staged[Plan(w)]
        /\ journal' = [journal EXCEPT !.count = @ + 1, !.recent = TRUE]
        /\ worker' = [worker EXCEPT ![w].pc = "claimed", ![w].subject = observation.process]
        /\ UNCHANGED <<staged, approval, replay, armed, denied, recovered, applied,
                       unit, history, observation, provisioner, serving, budget>>
    BY DEF Claim, Authorized, Current
  <1>2. "claimed" \in Pcs /\ "claimed" \in Executing /\ "locked" \in Executing
    BY DEF Pcs, Executing
  <1>3. observation.process \in Nat /\ journal.count + 1 \in Nat /\ journal \in Journals
    BY Reads DEF IInv, TypeOK
  <1>4. worker' \in [Workers -> Records]
    BY <1>1, <1>2, <1>3, WorkerTyped DEF IInv, TypeOK
  <1>5. journal' \in Journals
    <2>1. [journal EXCEPT !.count = journal.count + 1] \in Journals
      BY <1>3, JournalTyped
    <2> QED BY <1>1, <2>1, JournalTyped
  <1>6. TypeOK'
    BY <1>1, <1>4, <1>5 DEF IInv, TypeOK, unit, history
  <1>7. \A v \in Workers \ {w} : worker'[v] = worker[v]
    BY <1>1 DEF IInv, TypeOK
  <1>8. /\ worker'[w].pc = "claimed" /\ worker'[w].key = worker[w].key
        /\ worker'[w].plan = worker[w].plan /\ worker'[w].subject = observation.process
        /\ worker'[w].pre = worker[w].pre
    BY <1>1 DEF IInv, TypeOK, Records
  <1>9. Moves(w, "claimed")
    BY <1>4, <1>7, <1>8 DEF Moves, Stays, Pc, Plan, Key
  <1>10. Exclusive' /\ Drained'
    BY <1>1, <1>2, <1>9, LockKept
  <1>11. Bound'
    BY <1>1, <1>8, <1>9 DEF IInv, Order, Bound, Moves, Stays, Key
  <1>12. Untouched'
    BY <1>1, <1>9 DEF IInv, TypeOK, Order, Untouched, Before, Moves, Stays, history
  <1>13. Published'
    BY <1>1 DEF IInv, Order, Published, unit
  <1>14. w \notin changed /\ changed \subseteq Workers
    BY <1>1 DEF IInv, TypeOK, Order, Untouched, Before
  <1>15. Marked'
    <2>1. \A v \in Workers : Pc(v)' = "claimed" => Describes(Plan(v), worker[v].subject)'
      BY <1>1, <1>7, <1>8 DEF IInv, Order, Marked, Describes, Pc, Plan
    <2>2. \A v \in Workers : Pc(v)' \in InEffect \/ v \in changed =>
             v # w /\ (Pc(v) \in InEffect \/ v \in changed)
      BY <1>7, <1>8, <1>14 DEF InEffect, Pc
    <2>3. ASSUME NEW v \in Workers, Pc(v)' \in InEffect \/ v \in changed
          PROVE  /\ worker'[v].pre > 0 /\ worker'[v].pre <= newest
                 /\ Describes(Plan(v), worker[v].pre)'
      <3>1. v # w /\ (Pc(v) \in InEffect \/ v \in changed)
        BY <2>2, <2>3
      <3>2. worker'[v] = worker[v]
        BY <1>7, <3>1
      <3> QED BY <1>1, <3>1, <3>2 DEF IInv, Order, Marked, Describes, Plan
    <2>4. \A v \in changed : process # worker'[v].pre
      BY <1>7, <1>14 DEF IInv, Order, Marked
    <2> QED BY <1>1, <2>1, <2>3, <2>4 DEF Marked, unit, history
  <1>16. Apart'
    <2> SUFFICES ASSUME NEW u \in changed, NEW v \in Workers \ {u}, Plan(v)' = Plan(u)'
                 PROVE  /\ Pc(v)' = "claimed" => worker'[v].subject = worker'[u].pre
                        /\ Pc(v)' \notin InEffect /\ v \notin changed
      BY <1>1 DEF Apart, history
    <2>1. u # w /\ u \in Workers /\ worker'[u] = worker[u]
      BY <1>7, <1>14
    <2>2. CASE v = w
      <3>1. Plan(u) = Plan(w)
        BY <1>8, <2>1, <2>2 DEF Plan
      <3>2. observation.process = worker[u].pre
        BY <1>1, <2>1, <3>1 DEF IInv, Order, Marked, Describes
      <3> QED BY <1>8, <1>14, <2>1, <2>2, <3>2 DEF Pc, InEffect
    <2>3. CASE v # w
      BY <1>7, <2>1, <2>3 DEF IInv, Order, Apart, Pc, Plan
    <2> QED BY <2>2, <2>3
  <1> QED BY <1>6, <1>10, <1>11, <1>12, <1>13, <1>15, <1>16 DEF IInv, Order

\* A worker is armed only while the process it aims at runs, which no other worker
\* of its plan has replaced then.
LEMMA ArmKeeps ==
    ASSUME IInv, NEW w \in Workers, Arm(w)
    PROVE  IInv'
  <1>1. /\ Pc(w) = "claimed" /\ process # 0 /\ process = worker[w].subject
        /\ UNCHANGED <<staged, approval, replay, journal, denied, recovered, applied,
                       unit, history, observation, provisioner, serving, budget>>
    BY DEF Arm, Unmoved
  <1>2. CASE ~Fresh(w)
    <2>1. Exit(w) /\ armed' = armed
      BY <1>2 DEF Arm
    <2> QED BY <1>1, <2>1, ExitKeeps DEF IInv, TypeOK, unit, history, Running, Executing
  <1>3. CASE Fresh(w)
    <2>1. /\ armed' = armed \cup {<<Plan(w), Key(w)>>}
          /\ worker' = [worker EXCEPT ![w].pc = "armed", ![w].pre = process]
      BY <1>3 DEF Arm
    <2>2. "armed" \in Pcs /\ "armed" \in Executing /\ "claimed" \in Executing \ {"locked"}
      BY DEF Pcs, Executing, InEffect
    <2>3. process \in Nat /\ Plan(w) \in Plans /\ Key(w) \in Keys
      BY Reads DEF IInv, TypeOK
    <2>4. worker' \in [Workers -> Records]
      BY <2>1, <2>2, <2>3, WorkerTyped DEF IInv, TypeOK
    <2>5. TypeOK'
      BY <1>1, <2>1, <2>3, <2>4 DEF IInv, TypeOK, unit, history
    <2>6. \A v \in Workers \ {w} : worker'[v] = worker[v]
      BY <2>1 DEF IInv, TypeOK
    <2>7. /\ worker'[w].pc = "armed" /\ worker'[w].key = worker[w].key
          /\ worker'[w].plan = worker[w].plan /\ worker'[w].pre = process
      BY <2>1 DEF IInv, TypeOK, Records
    <2>8. Moves(w, "armed")
      BY <2>4, <2>6, <2>7 DEF Moves, Stays, Pc, Plan, Key
    <2>9. Exclusive' /\ Drained' /\ Bound'
      BY <1>1, <2>2, <2>8, LockKept, StillUnbound
    <2>10. Untouched'
      BY <1>1, <2>8 DEF IInv, TypeOK, Order, Untouched, Before, Moves, Stays, history
    <2>11. Published'
      BY <1>1 DEF IInv, Order, Published, unit
    <2>12. w \notin changed /\ changed \subseteq Workers
      BY <1>1 DEF IInv, TypeOK, Order, Untouched, Before
    <2>13. Marked'
      <3>1. Describes(Plan(w), process) /\ process > 0 /\ process <= newest
        BY <1>1, <2>3 DEF IInv, Order, Marked, Published
      <3> QED BY <1>1, <2>6, <2>7, <2>12, <3>1
          DEF IInv, Order, Marked, Describes, Pc, Plan, unit, history
    <2>14. Apart'
      <3> SUFFICES ASSUME NEW u \in changed, NEW v \in Workers \ {u}, Plan(v)' = Plan(u)'
                   PROVE  /\ Pc(v)' = "claimed" => worker'[v].subject = worker'[u].pre
                          /\ Pc(v)' \notin InEffect /\ v \notin changed
        BY <1>1 DEF Apart, history
      <3>1. u # w /\ u \in Workers /\ worker'[u] = worker[u]
        BY <2>6, <2>12
      <3>2. v # w
        <4>1. SUFFICES ASSUME v = w PROVE FALSE
          OBVIOUS
        <4>2. Plan(w) = Plan(u)
          BY <2>7, <3>1, <4>1 DEF Plan
        <4>3. worker[w].subject = worker[u].pre
          BY <1>1, <3>1, <4>2 DEF IInv, Order, Apart
        <4> QED BY <1>1, <4>3 DEF IInv, Order, Marked
      <3> QED BY <2>6, <3>1, <3>2 DEF IInv, Order, Apart, Pc, Plan
    <2> QED BY <2>5, <2>9, <2>10, <2>11, <2>13, <2>14 DEF IInv, Order
  <1> QED BY <1>2, <1>3

\* A step between the pre-effect file and the receipt that restarts nothing.
LEMMA InnerKeeps ==
    ASSUME IInv, NEW w \in Workers, NEW pc \in InEffect \cup {"ended", "receipted"},
           Moves(w, pc), worker'[w].pre = worker[w].pre,
           \/ Pc(w) \in InEffect \ {"armed"}
           \/ Pc(w) = "ended" /\ pc = "receipted",
           pc # "armed",
           UNCHANGED <<staged, approval, replay, armed, journal, denied, recovered,
                       unit, history, observation, provisioner, serving, budget>>,
           applied' \subseteq Workers
    PROVE  IInv'
  <1>1. pc \in Pcs /\ pc \in Executing /\ Pc(w) \in Executing \ {"locked"}
    BY DEF Pcs, Executing, InEffect
  <1>2. TypeOK'
    BY DEF IInv, TypeOK, Moves, unit, history
  <1>3. Exclusive' /\ Drained' /\ Bound'
    BY <1>1, LockKept, StillUnbound
  <1>4. Untouched'
    BY DEF IInv, TypeOK, Order, Untouched, Before, InEffect, Moves, Stays, history
  <1>5. Published'
    BY DEF IInv, Order, Published, unit
  <1>6. /\ \A v \in Workers : worker'[v].pre = worker[v].pre /\ Plan(v)' = Plan(v)
        /\ \A v \in Workers : Pc(v)' \in InEffect => Pc(v) \in InEffect
        /\ \A v \in Workers : Pc(v)' = "claimed" =>
              Pc(v) = "claimed" /\ worker'[v].subject = worker[v].subject
    BY DEF Moves, Stays, InEffect
  <1>7. Marked' /\ Apart'
    BY <1>6 DEF IInv, TypeOK, Order, Marked, Apart, Describes, unit, history
  <1> QED BY <1>2, <1>3, <1>4, <1>5, <1>7 DEF IInv, Order

\* The looks after each restart and the receipt are such steps.
LEMMA LooksKeep ==
    ASSUME IInv, NEW w \in Workers, Verify(w) \/ VerifyRollback(w) \/ WriteReceipt(w)
    PROVE  IInv'
  <1>1. CASE Verify(w)
    <2>1. PICK canary \in BOOLEAN :
             worker' = [worker EXCEPT ![w].pc = "rollback", ![w].post = process,
                          ![w].ok = canary /\ process \notin {0, worker[w].pre}]
      BY <1>1 DEF Verify
    <2>2. (canary /\ process \notin {0, worker[w].pre}) \in BOOLEAN
          /\ "rollback" \in Pcs /\ process \in Nat
      BY DEF IInv, TypeOK, Pcs, Executing, InEffect
    <2>3. worker' \in [Workers -> Records]
      BY <2>1, <2>2, WorkerTyped DEF IInv, TypeOK
    <2>4. \A v \in Workers \ {w} : worker'[v] = worker[v]
      BY <2>1 DEF IInv, TypeOK
    <2>5. /\ worker'[w].pc = "rollback" /\ worker'[w].key = worker[w].key
          /\ worker'[w].plan = worker[w].plan /\ worker'[w].pre = worker[w].pre
      BY <2>1 DEF IInv, TypeOK, Records
    <2>6. Moves(w, "rollback")
      BY <2>3, <2>4, <2>5 DEF Moves, Stays, Pc, Plan, Key
    <2> QED BY <1>1, <2>5, <2>6, InnerKeeps DEF Verify, IInv, TypeOK, InEffect, files
  <1>2. CASE VerifyRollback(w)
    <2>1. PICK canary \in BOOLEAN :
             worker' = [worker EXCEPT ![w].pc = "ended",
                          ![w].ok = @ /\ canary
                                    /\ process \notin {0, worker[w].pre, worker[w].post}]
      BY <1>2 DEF VerifyRollback
    <2>2. (worker[w].ok /\ canary /\ process \notin {0, worker[w].pre, worker[w].post})
             \in BOOLEAN /\ "ended" \in Pcs
      BY DEF Pcs, Executing
    <2>3. worker' \in [Workers -> Records]
      BY <2>1, <2>2, WorkerTyped DEF IInv, TypeOK
    <2>4. \A v \in Workers \ {w} : worker'[v] = worker[v]
      BY <2>1 DEF IInv, TypeOK
    <2>5. /\ worker'[w].pc = "ended" /\ worker'[w].key = worker[w].key
          /\ worker'[w].plan = worker[w].plan /\ worker'[w].pre = worker[w].pre
      BY <2>1 DEF IInv, TypeOK, Records
    <2>6. Moves(w, "ended")
      BY <2>3, <2>4, <2>5 DEF Moves, Stays, Pc, Plan, Key
    <2> QED BY <1>2, <2>5, <2>6, InnerKeeps DEF VerifyRollback, IInv, TypeOK, InEffect, files
  <1>3. CASE WriteReceipt(w)
    <2>1. "receipted" \in Pcs
      BY DEF Pcs, Executing
    <2>2. Moves(w, "receipted") /\ worker'[w].pre = worker[w].pre
      BY <1>3, <2>1, GoesMoves DEF IInv, WriteReceipt
    <2> QED BY <1>3, <2>2, InnerKeeps DEF WriteReceipt, IInv, TypeOK
  <1> QED BY <1>1, <1>2, <1>3

\* A restart by the one worker in its effect: the process it replaces is the one its
\* plan describes, and no other worker of that plan has replaced it.
LEMMA RestartKeeps ==
    ASSUME IInv, NEW w \in Workers, NEW next \in {"restarted", "rolledback"},
           Pc(w) \in {"armed", "rollback"}, Restart(w, next)
    PROVE  IInv'
  <1>1. PICK new \in {newest + 1, 0, process}, ok \in BOOLEAN :
          /\ process' = new
          /\ newest' = IF new = newest + 1 THEN new ELSE newest
          /\ changed' = IF new = newest + 1 THEN changed \cup {w} ELSE changed
          /\ worker' = [worker EXCEPT ![w].ok = @ /\ ok,
                           ![w].pc = IF ok THEN next ELSE
                                     IF next = "restarted" THEN "rollback" ELSE "ended"]
    BY DEF Restart
  <1>2. /\ restarts' = [restarts EXCEPT ![w] = @ + 1]
        /\ UNCHANGED <<files, observation, provisioner, serving, budget>>
    BY DEF Restart
  <1> DEFINE pc == IF ok THEN next ELSE IF next = "restarted" THEN "rollback" ELSE "ended"
  <1>3. pc \in {"restarted", "rolledback", "rollback", "ended"}
    OBVIOUS
  <1> HIDE DEF pc
  <1>4. pc \in Pcs /\ pc \in Executing /\ Pc(w) \in Executing \ {"locked"}
    BY <1>3 DEF Pcs, Executing, InEffect
  <1>5. (worker[w].ok /\ ok) \in BOOLEAN
    OBVIOUS
  <1>6. worker' = [worker EXCEPT ![w].ok = @ /\ ok, ![w].pc = pc]
    BY <1>1 DEF pc
  <1>7. worker' \in [Workers -> Records]
    BY <1>4, <1>5, <1>6, WorkerTyped DEF IInv, TypeOK
  <1>8. \A v \in Workers \ {w} : worker'[v] = worker[v]
    BY <1>6 DEF IInv, TypeOK
  <1>9. /\ worker'[w].pc = pc /\ worker'[w].key = worker[w].key
        /\ worker'[w].plan = worker[w].plan /\ worker'[w].pre = worker[w].pre
    BY <1>6 DEF IInv, TypeOK, Records
  <1>10. Moves(w, pc)
    BY <1>7, <1>8, <1>9 DEF Moves, Stays, Pc, Plan, Key
  <1>11. Exclusive' /\ Drained' /\ Bound'
    BY <1>2, <1>4, <1>10, LockKept, StillUnbound DEF files
  <1>12. /\ process \in Nat /\ newest \in Nat /\ process <= newest
         /\ changed \subseteq Workers /\ denied \subseteq Workers
    BY DEF IInv, TypeOK, Order, Published
  <1>13. process' \in Nat /\ newest' \in Nat /\ newest <= newest' /\ process' <= newest'
    BY <1>1, <1>12
  <1>14. changed' \subseteq Workers /\ changed \subseteq changed' /\ changed' \subseteq changed \cup {w}
    BY <1>1, <1>12
  <1>15. restarts' \in [Workers -> Nat] /\ \A v \in Workers \ {w} : restarts'[v] = restarts[v]
    BY <1>2 DEF IInv, TypeOK
  <1>16. TypeOK'
    BY <1>2, <1>7, <1>13, <1>14, <1>15 DEF IInv, TypeOK, files
  <1>17. Untouched'
    <2>1. w \notin denied
      BY DEF IInv, Order, Untouched
    <2>2. Pc(w)' \notin Before
      BY <1>3, <1>9 DEF Before, Pc
    <2> QED BY <1>2, <1>8, <1>12, <1>14, <1>15, <2>1, <2>2
        DEF IInv, Order, Untouched, Pc, files
  <1>18. Published'
    BY <1>2, <1>12, <1>13, Reads DEF IInv, Order, Published, files
  <1>19. Marked'
    <2>1. /\ worker[w].pre > 0 /\ worker[w].pre <= newest /\ Describes(Plan(w), worker[w].pre)
      BY DEF IInv, Order, Marked, InEffect
    <2>2. \A v \in Workers : Pc(v)' = "claimed" => Describes(Plan(v), worker[v].subject)'
      BY <1>2, <1>3, <1>8, <1>9 DEF IInv, Order, Marked, Describes, Pc, Plan, files
    <2>3. ASSUME NEW v \in Workers, Pc(v)' \in InEffect \/ v \in changed'
          PROVE  /\ worker'[v].pre > 0 /\ worker'[v].pre <= newest'
                 /\ Describes(Plan(v), worker[v].pre)'
      <3>1. worker[v].pre > 0 /\ worker[v].pre <= newest /\ Describes(Plan(v), worker[v].pre)
        <4>1. CASE v = w
          BY <2>1, <4>1
        <4>2. CASE v # w
          BY <1>8, <1>14, <2>3, <4>2 DEF IInv, Order, Marked, Pc
        <4> QED BY <4>1, <4>2
      <3>2. worker'[v].pre = worker[v].pre /\ worker'[v].plan = worker[v].plan
        BY <1>8, <1>9
      <3>3. worker[v].pre \in Nat
        BY Reads DEF IInv
      <3> QED BY <1>2, <1>12, <1>13, <3>1, <3>2, <3>3 DEF Describes, Plan, files
    <2>4. ASSUME NEW v \in changed' PROVE process' # worker'[v].pre
      <3>1. v \in Workers /\ worker'[v].pre = worker[v].pre /\ worker[v].pre \in Nat
        BY <1>8, <1>9, <1>14, Reads DEF IInv
      <3>2. worker[v].pre > 0 /\ worker[v].pre <= newest
        BY <1>14, <2>1, <3>1 DEF IInv, Order, Marked
      <3>3. CASE process' = newest + 1 \/ process' = 0
        BY <1>12, <3>1, <3>2, <3>3
      <3>4. CASE process' = process /\ v \in changed
        BY <3>1, <3>4 DEF IInv, Order, Marked
      <3> QED BY <1>1, <3>3, <3>4
    <2> QED BY <2>2, <2>3, <2>4 DEF Marked
  <1>20. Apart'
    <2>1. ASSUME NEW v \in Workers \ {w}
          PROVE  /\ Pc(v) \notin InEffect \cup {"claimed"}
                 /\ v \in changed => Plan(v) # Plan(w)
      <3>1. Pc(v) \notin Executing
        BY <1>4 DEF IInv, Order, Exclusive
      <3>2. v \in changed => Plan(v) # Plan(w)
        BY DEF IInv, Order, Apart, InEffect
      <3> QED BY <3>1, <3>2 DEF Executing
    <2>2. Pc(w)' # "claimed"
      BY <1>3, <1>9 DEF Pc
    <2> SUFFICES ASSUME NEW u \in changed', NEW v \in Workers \ {u}, Plan(v)' = Plan(u)'
                 PROVE  /\ Pc(v)' = "claimed" => worker'[v].subject = worker'[u].pre
                        /\ Pc(v)' \notin InEffect /\ v \notin changed'
      BY DEF Apart
    <2>3. Plan(v) = Plan(u) /\ u \in Workers
      BY <1>8, <1>9, <1>14 DEF Plan
    <2>4. CASE u = w
      BY <1>8, <1>14, <2>1, <2>3, <2>4 DEF Pc
    <2>5. CASE u # w /\ v = w
      BY <1>14, <2>1, <2>3, <2>5
    <2>6. CASE u # w /\ v # w
      BY <1>8, <1>14, <2>3, <2>6 DEF IInv, Order, Apart, Pc
    <2> QED BY <2>4, <2>5, <2>6
  <1> QED BY <1>11, <1>16, <1>17, <1>18, <1>19, <1>20 DEF IInv, Order

---------------------------------------------------------------------------
(* The provisioner. *)

\* Whatever leaves the workers alone, but for the locks the provisioner takes.
LEMMA ProvisionerKeeps ==
    ASSUME IInv, UNCHANGED <<files, history, observation, worker>>,
           provisioner' \in Provisioners, serving' \in BOOLEAN, budget' \in Budgets,
           \/ UNCHANGED unit
           \/ process' = newest + 1 /\ newest' = newest + 1,
           provisioner' \in Holding => provisioner \in Holding,
           provisioner' \in Draining => provisioner \in Draining \/ DrainLockFree
    PROVE  IInv'
  <1>1. Exclusive' /\ Drained' /\ Bound' /\ Untouched' /\ Apart'
    BY DEF IInv, Order, Exclusive, Drained, DrainLockFree, Bound, Untouched, Apart,
           Pc, Plan, Key, files, history
  <1>2. Published' /\ Marked' /\ process' \in Nat /\ newest' \in Nat
    <2>1. CASE UNCHANGED unit
      BY <2>1 DEF IInv, TypeOK, Order, Published, Marked, Describes, Pc, Plan,
                  files, unit, history
    <2>2. CASE process' = newest + 1 /\ newest' = newest + 1
      BY <2>2, UnitMarks DEF files, history
    <2> QED BY <2>1, <2>2
  <1>3. TypeOK'
    BY <1>2 DEF IInv, TypeOK, files, history
  <1> QED BY <1>1, <1>2, <1>3 DEF IInv, Order

\* The execution lock is the provisioner's when nobody has it.
LEMMA HoldKeeps ==
    ASSUME IInv, Hold
    PROVE  IInv'
  <1>1. /\ ExecutionLockFree /\ provisioner = "drained" /\ provisioner' = "holding"
        /\ UNCHANGED <<files, history, observation, unit, worker, serving, budget>>
    BY DEF Hold, Steps
  <1>2. TypeOK'
    BY <1>1 DEF IInv, TypeOK, Provisioners, Draining, files, unit, history
  <1>3. Exclusive' /\ Drained'
    BY <1>1 DEF IInv, Order, Exclusive, ExecutionLockFree, Drained, DrainLockFree, Draining, Pc
  <1>4. Bound' /\ Untouched' /\ Apart'
    BY <1>1 DEF IInv, Order, Bound, Untouched, Apart, Pc, Plan, Key, files, history
  <1>5. Published' /\ Marked'
    BY <1>1 DEF IInv, Order, Published, Marked, Describes, Pc, Plan, files, unit, history
  <1> QED BY <1>2, <1>3, <1>4, <1>5 DEF IInv, Order

\* The stop of the consumers closes every request, and none executes then.
LEMMA StopConsumersKeeps ==
    ASSUME IInv, StopConsumers
    PROVE  IInv'
  <1>1. /\ provisioner = "holding" /\ provisioner' = "stopped" /\ serving' = FALSE
        /\ UNCHANGED <<files, history, observation, unit, budget>>
    BY DEF StopConsumers, Steps
  <1>2. /\ worker' \in [Workers -> Records] /\ \A v \in Workers : Calm(v)
        /\ \A v \in Workers \ Shells : Pc(v)' \in {"idle", "closed"}
    BY StopCalm DEF IInv, StopConsumers
  <1>3. \A v \in Workers : Pc(v) \notin Executing
    BY <1>1 DEF IInv, Order, Exclusive, Holding
  <1>4. \A v \in Workers : Pc(v)' \notin Executing
    BY <1>2, <1>3 DEF Calm, Stays, Executing, InEffect
  <1>5. TypeOK'
    BY <1>1, <1>2 DEF IInv, TypeOK, Provisioners, Draining, files, unit, history
  <1>6. Exclusive' /\ Bound'
    BY <1>4 DEF Exclusive, Bound
  <1>7. Drained'
    BY <1>2 DEF Drained, DrainLockFree, Running, Executing, InEffect
  <1>8. Untouched'
    <2>1. \A w \in Workers : Pc(w)' \in Before => Pc(w) \in Before
      BY <1>2 DEF Calm, Stays, Before
    <2>2. \A w \in denied : Pc(w)' \in {"exited", "closed"}
      BY <1>2 DEF IInv, TypeOK, Order, Untouched, Calm, Stays
    <2> QED BY <1>1, <2>1, <2>2 DEF IInv, TypeOK, Order, Untouched, files, history
  <1>9. Published'
    BY <1>1 DEF IInv, Order, Published, files, unit
  <1>10. /\ changed \subseteq Workers
         /\ \A w \in changed : worker'[w].pre = worker[w].pre /\ Plan(w)' = Plan(w)
    BY <1>2 DEF IInv, TypeOK, Order, Untouched, Before, Calm, Stays
  <1>11. \A v \in Workers : Pc(v)' \notin {"claimed"} \cup InEffect
    BY <1>4 DEF Executing
  <1>12. Marked'
    BY <1>1, <1>10, <1>11 DEF IInv, Order, Marked, Describes, files, unit, history
  <1>13. Apart'
    BY <1>1, <1>10, <1>11 DEF IInv, Order, Apart, history
  <1> QED BY <1>5, <1>6, <1>7, <1>8, <1>9, <1>12, <1>13 DEF IInv, Order

\* The other steps of the provisioner.
LEMMA ProvisionKeeps ==
    ASSUME IInv, Provision
    PROVE  IInv'
  <1>1. CASE Drain
    <2>1. budget' \in Budgets
      BY <1>1, SpentTyped DEF IInv, Drain
    <2> QED BY <1>1, <2>1, ProvisionerKeeps
        DEF IInv, TypeOK, Drain, Steps, Provisioners, Draining, Holding
  <1>2. CASE Swap \/ RestoreConsumers
    BY <1>2, ProvisionerKeeps
    DEF IInv, TypeOK, Swap, RestoreConsumers, Steps, Provisioners, Draining, Holding
  <1>3. CASE Release
    BY <1>3, ProvisionerKeeps
    DEF IInv, TypeOK, Release, Steps, Provisioners, Draining, Holding
  <1> QED BY <1>1, <1>2, <1>3, HoldKeeps, StopConsumersKeeps DEF Provision

---------------------------------------------------------------------------
(* The invariant, and what follows from it. *)

\* Nobody has asked for anything and nothing is staged.
LEMMA InitIInv == Init => IInv
  <1> SUFFICES ASSUME Init PROVE IInv
    OBVIOUS
  <1>1. (CHOOSE a \in Approvals : TRUE) \in Approvals /\ (CHOOSE p \in Plans : TRUE) \in Plans
        /\ (CHOOSE k \in Keys : TRUE) \in Keys
    BY EffectAssumption
  <1>2. Idle \in Records
    BY <1>1 DEF Idle, Records, Pcs
  <1>3. \A w \in Workers : worker[w] = Idle
    BY DEF Init
  <1>4. \A w \in Workers : Pc(w) = "idle"
    <2>1. Idle.pc = "idle"
      BY DEF Idle
    <2> QED BY <1>3, <2>1 DEF Pc
  <1>5. TypeOK
    <2>1. worker \in [Workers -> Records]
      BY <1>2 DEF Init
    <2>2. observation \in Observations /\ journal \in Journals
      BY DEF Init, Observations, Journals
    <2>3. budget \in Budgets
      BY EffectAssumption DEF Init, Budgets
    <2> QED BY <2>1, <2>2, <2>3 DEF Init, TypeOK, Provisioners
  <1>6. Exclusive /\ Drained /\ Bound /\ Untouched
    BY <1>4 DEF Init, Exclusive, Drained, Draining, Bound, Untouched, Executing, InEffect
  <1>7. Published /\ Marked /\ Apart
    BY <1>4 DEF Init, Published, Marked, Apart, InEffect
  <1> QED BY <1>5, <1>6, <1>7 DEF IInv, Order

\* Every step keeps the invariant.
LEMMA NextIInv == IInv /\ [Next]_vars => IInv'
  <1> SUFFICES ASSUME IInv, [Next]_vars PROVE IInv'
    OBVIOUS
  <1>1. CASE \E w \in Workers : Execute(w)
    <2> SUFFICES ASSUME NEW w \in Workers, Execute(w) PROVE IInv'
      BY <1>1
    <2>1. CASE Effect(w)
      BY <2>1, RestartKeeps DEF Effect
    <2>2. CASE Rollback(w)
      BY <2>2, RestartKeeps DEF Rollback
    <2> QED BY <2>1, <2>2, AcquireKeeps, EndsKeep, ClaimKeeps, ArmKeeps, LooksKeep DEF Execute
  <1>2. CASE UNCHANGED vars
    <2>1. TypeOK'
      BY <1>2 DEF IInv, TypeOK, vars, files, unit, history
    <2>2. Calmly
      BY <1>2 DEF IInv, TypeOK, Calmly, Calm, Stays, Pc, Plan, Key, vars, files, unit, history
    <2> QED BY <2>1, <2>2, CalmKeeps DEF IInv
  <1> QED BY <1>1, <1>2, StagePlanKeeps, OutsideCalm, ObserveKeeps, ForeignKeeps, RequestKeeps,
             AdmitKeeps, CloseKeeps, EndsKeep, StopUnitKeeps, ProvisionKeeps DEF Next

\* Locks, bindings and marks hold in every reachable state.
THEOREM Inductive == Spec => []IInv
  BY InitIInv, NextIInv, PTL DEF Spec

\* Files, unit, workers and provisioner keep their types.
THEOREM TypeCorrect == Spec => []TypeOK
  <1>1. IInv => TypeOK
    BY DEF IInv
  <1> QED BY <1>1, Inductive, PTL

\* Never two workers in their effects, never one while the provisioner holds the
\* execution lock.
THEOREM EffectsExclude == Spec => []EffectExclusion
  <1>1. IInv => EffectExclusion
    BY DEF IInv, Order, Exclusive, EffectExclusion, Executing
  <1> QED BY <1>1, Inductive, PTL

\* Of all the requests under one plan at most one ever replaces the process.
THEOREM PlanOnce == Spec => []PlanEffectOnce
  <1>1. ASSUME IInv, NEW w \in changed, NEW v \in changed, Plan(w) = Plan(v)
        PROVE  w = v
    <2>1. v \in Workers
      BY <1>1 DEF IInv, TypeOK
    <2> QED BY <1>1, <2>1 DEF IInv, Order, Apart
  <1>2. IInv => PlanEffectOnce
    BY <1>1 DEF PlanEffectOnce
  <1> QED BY <1>2, Inductive, PTL

\* A worker with a denial receipt restarted nothing.
THEOREM DenialTrue == Spec => []DenialClaimsNoEffect
  <1>1. IInv => DenialClaimsNoEffect
    BY DEF IInv, Order, Untouched, DenialClaimsNoEffect
  <1> QED BY <1>1, Inductive, PTL

\* The provisioner stops the server only when no request's worker runs.
THEOREM StopSpares == Spec => StopSparesRequests
  <1>1. IInv /\ [Next]_vars =>
           [provisioner = "holding" /\ provisioner' = "stopped" =>
               \A w \in Workers \ Shells : Pc(w) \notin Running]_vars
    BY DEF IInv, Order, Drained, DrainLockFree, Draining
  <1> QED BY <1>1, Inductive, PTL DEF Spec, StopSparesRequests

\* A restart is asked for only under a key that nothing is bound to, and a file that
\* binds a key is not written again.
LEMMA StepSettles ==
    ASSUME IInv, [Next]_vars, NEW k \in Keys, replay[k] \in Approvals
    PROVE  /\ replay'[k] = replay[k]
           /\ \A w \in Workers : Key(w) = k => restarts'[w] = restarts[w]
  <1>1. replay[k] # NoReplay
    BY EffectAssumption
  <1>2. \A w \in Workers : Pc(w) \in Executing \ {"locked"} => Key(w) # k
    BY <1>1 DEF IInv, Order, Bound
  <1>3. ASSUME NEW w \in Workers, TornBy(w) PROVE replay'[k] = replay[k]
    <2>1. \/ replay' = replay
          \/ Pc(w) = "receipted" /\ replay' = [replay EXCEPT ![Key(w)] = Torn]
      BY <1>3 DEF TornBy
    <2>2. Pc(w) = "receipted" => Key(w) # k
      BY <1>2 DEF Executing
    <2> QED BY <2>1, <2>2 DEF IInv, TypeOK
  <1>4. CASE \E w \in Workers : Effect(w) \/ Rollback(w)
    <2>1. PICK w \in Workers, next \in {"restarted", "rolledback"} :
             Pc(w) \in {"armed", "rollback"} /\ Restart(w, next)
      BY <1>4 DEF Effect, Rollback
    <2>2. Key(w) # k
      BY <1>2, <2>1 DEF Executing, InEffect
    <2>3. restarts' = [restarts EXCEPT ![w] = @ + 1] /\ replay' = replay
      BY <2>1 DEF Restart, files
    <2> QED BY <2>2, <2>3 DEF IInv, TypeOK
  <1>5. CASE \E w \in Workers : WriteReplay(w)
    <2>1. PICK w \in Workers : WriteReplay(w)
      BY <1>5
    <2>2. Key(w) # k
      BY <1>2, <2>1 DEF WriteReplay, Executing
    <2> QED BY <2>1, <2>2 DEF IInv, TypeOK, WriteReplay, history
  <1>6. CASE \E w \in Workers : TimeOut(w) \/ KillShell(w)
    BY <1>3, <1>6 DEF TimeOut, KillShell, history
  <1>7. CASE StopUnit
    BY <1>3, <1>7 DEF StopUnit, files, history
  <1>8. CASE UNCHANGED <<replay, restarts>>
    BY <1>8
  <1>9. CASE \E w \in Workers : Execute(w)
    <2> SUFFICES ASSUME NEW w \in Workers, Execute(w),
                        ~Effect(w), ~Rollback(w), ~WriteReplay(w)
                 PROVE  UNCHANGED <<replay, restarts>>
      BY <1>4, <1>5, <1>8, <1>9
    <2>1. CASE Acquire(w) \/ Replay(w) \/ Refuse(w) \/ Unreadable(w) \/ Claim(w) \/ Drift(w)
      BY <2>1 DEF Acquire, Replay, Refuse, Unreadable, Claim, Drift, files, history
    <2>2. CASE Arm(w) \/ Verify(w) \/ VerifyRollback(w) \/ Recover(w) \/ WriteReceipt(w)
      BY <2>2 DEF Arm, Verify, VerifyRollback, Recover, WriteReceipt, files, history
    <2> QED BY <2>1, <2>2 DEF Execute
  <1>10. CASE \E w \in Workers : Request(w) \/ Admit(w) \/ Close(w)
    BY <1>8, <1>10 DEF Request, Admit, Close, files, history
  <1>11. CASE Provision
    BY <1>8, <1>11 DEF Provision, Drain, Hold, StopConsumers, Swap, RestoreConsumers, Release,
                       Steps, files, history
  <1>12. CASE \/ \E p \in Plans : StagePlan(p)
              \/ \E a \in Approvals : Approve(a)
              \/ Observe \/ Foreign \/ MinutePasses \/ StartUnit \/ UNCHANGED vars
    BY <1>8, <1>12 DEF StagePlan, Approve, Observe, Foreign, MinutePasses, StartUnit,
                       vars, files, history
  <1> QED BY <1>6, <1>7, <1>9, <1>10, <1>11, <1>12 DEF Next

\* A key that is bound is settled: nothing is restarted for it again, and it is
\* never rebound.
THEOREM BoundIsSettled == Spec => ReplaySettles
  <1>1. IInv /\ [Next]_vars =>
           [\A k \in Keys : replay[k] \in Approvals =>
               /\ replay'[k] = replay[k]
               /\ \A w \in Workers : Key(w) = k => restarts'[w] = restarts[w]]_vars
    BY StepSettles
  <1> QED BY <1>1, Inductive, PTL DEF Spec, ReplaySettles

=============================================================================
