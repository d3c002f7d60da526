---------------------- MODULE AdmissionRefresh_proofs ----------------------
(***************************************************************************)
(* The safety properties of the read plane, for any readers and consumers, *)
(* any outside events and every bound on them.                             *)
(*                                                                         *)
(* A lock that is held exclusively is the provisioner's, and neither the   *)
(* controller nor a unit has it (LockOrder); each phase holds the locks it *)
(* relies on (RefreshLocks, ProvisionLocks) and knows where the runtime    *)
(* and its backup are (Backups); while nobody edits the deployed tree, the *)
(* stack reader's runtime is the deployed one and no grant is needed       *)
(* (Deployed); a grant names the runtime that a repair of a serving stack  *)
(* reader may put back (Recorded); and the controller works with the       *)
(* marker it loaded (Loaded).  When kills and lapses are all that befalls  *)
(* the controllers, a marker means the deployed package's runtime          *)
(* (CrashInv).                                                             *)
(***************************************************************************)
EXTENDS AdmissionRefresh, TLAPS

\* The controller's phases under its shared locks.
Locked == {"decide", "restore", "fill", "bootstrap", "bridge", "handoff",
           "final", "complete"}
\* Those that have a lock.
Holding(l) == Locked \cup {x \in {"lock source", "lock runtime"} :
                              l = "operation" \/ (l = "source" /\ x = "lock runtime")}

\* The provisioner's phases before it stops the readers, and before the swap.
Early == {"stage", "check", "record consumers", "stop consumers",
          "exclude operation", "record readers"}
Unswapped == Early \cup {"stop readers", "exclude runtime", "move out"}

\* The deployed package changes only by outside events.
SourceCount == source <= events.count + 1

\* An exclusive lock is the provisioner's, and no unit and no controller has it.
LockOrder ==
    /\ \A l \in Locks : held["refresh"][l] # "exclusive"
    /\ \A l \in Locks : held["provisioner"][l] = "exclusive" =>
           held["refresh"][l] = "none" /\ ~HeldByUnits(l)

\* What the controller, and each phase of the provisioner, holds.
RefreshLocks == \A l \in Locks : rf.pc \in Holding(l) => held["refresh"][l] = "shared"
ProvisionLocks ==
    /\ At("stage") /\ prov.mode = "manual" => held["provisioner"]["runtime"] = "exclusive"
    /\ prov.pc \in Early => held["provisioner"]["source"] # "none"
    /\ prov.pc \in {"move out", "move in", "mark swapped", "publish", "put back"} =>
           held["provisioner"]["runtime"] = "exclusive"
    /\ At("activate") => held["provisioner"]["runtime"] = "none"
    /\ At("rollback") /\ prov.backup # NoRuntime /\ ~prov.swapped =>
           held["provisioner"]["runtime"] = "exclusive"
    /\ At("restart readers") => \A l \in Locks : held["provisioner"][l] = "none"

\* Where the runtime and its backup are.
Backups ==
    /\ prov.pc \in Unswapped => prov.backup = NoRuntime /\ ~prov.swapped /\ ~prov.activated
    /\ prov.pc \in {"idle", "restore consumers", "restart readers", "restart consumers"} =>
           prov.backup = NoRuntime
    /\ At("move in") => venv = NoRuntime /\ ~prov.swapped /\ ~prov.activated
    /\ At("mark swapped") =>
           /\ venv # NoRuntime /\ venv.built = prov.seen
           /\ ~prov.swapped /\ ~prov.activated
    /\ prov.pc \in {"publish", "activate", "retire"} => venv # NoRuntime /\ prov.swapped
    /\ At("put back") => prov.backup # NoRuntime /\ ~prov.activated
    /\ prov.backup # NoRuntime /\ ~prov.swapped =>
           /\ prov.pc \in {"move in", "mark swapped", "rollback", "unlock"}
           /\ venv = NoRuntime \/ venv.built = prov.seen
    /\ prov.activated => prov.swapped

\* Until the deployed tree is edited there is no grant, the stack reader serves
\* from the deployed runtime, and a repair has a reason to go on.
Deployed ==
    ~events.edited =>
        /\ grant = NoRuntime
        /\ Stack \in Serving => venv.built = source
        /\ prov.pc \in Early => ~Exact

\* The runtime that a repair may have to put back under the stack reader, or has left
\* in place, is the one its grant names, unless it was damaged or is the new one.
Recorded ==
    prov.readsStopped /\ prov.were[Stack] # "off" =>
        /\ prov.backup # NoRuntime => prov.backup = grant \/ ~prov.backup.intact
        /\ prov.backup = NoRuntime /\ ~prov.swapped =>
               \/ venv = grant \/ ~venv.intact
               \/ prov.pc \notin Unswapped /\ venv.built = prov.seen

\* The marker stays as the controller loaded it, and a bootstrap has none.
Loaded ==
    /\ rf.pc \in Locked => marker = rf.loaded
    /\ RfAt("bootstrap") => rf.loaded = {}

Order == /\ SourceCount /\ LockOrder /\ RefreshLocks /\ ProvisionLocks /\ Backups
         /\ RuntimeNeverLost /\ Deployed /\ Recorded /\ Loaded
IInv == TypeOK /\ Order

---------------------------------------------------------------------------
(* Typing. *)

ProvPcs == Guarded \cup CleanupPhases \cup {"idle"}
RfPcs == Working \cup {"complete", "recover", "refall", "idle"}
Units == [Readers -> Families \cup {"off"}]
Holds == [Locks -> {"none", "shared", "exclusive"}]

\* The runtime that is not there is told from every runtime.
LEMMA NoRuntimeApart == NoRuntime \notin Runtimes /\ NoRuntime.intact = FALSE
  BY UnitAssumption DEF NoRuntime, Runtimes, Digests

\* The provisioner's record keeps its type when a field gets a proper value.
LEMMA ProvTyped ==
    ASSUME NEW p \in ProvRecords
    PROVE  /\ \A x \in ProvPcs : [p EXCEPT !.pc = x] \in ProvRecords
           /\ \A x \in {"manual", "repair"} : [p EXCEPT !.mode = x] \in ProvRecords
           /\ \A x \in Digests : [p EXCEPT !.seen = x] \in ProvRecords
           /\ \A x \in {"none", "ok", "failed"} : [p EXCEPT !.result = x] \in ProvRecords
           /\ \A x \in Units : [p EXCEPT !.were = x] \in ProvRecords
           /\ \A x \in SUBSET Readers : [p EXCEPT !.fallbacks = x] \in ProvRecords
           /\ \A x \in SUBSET Consumers : [p EXCEPT !.consumersWere = x] \in ProvRecords
           /\ \A x \in Runtimes \cup {NoRuntime} : [p EXCEPT !.backup = x] \in ProvRecords
           /\ \A x \in BOOLEAN :
                 /\ [p EXCEPT !.unresolved = x] \in ProvRecords
                 /\ [p EXCEPT !.readsStopped = x] \in ProvRecords
                 /\ [p EXCEPT !.consumersStopped = x] \in ProvRecords
                 /\ [p EXCEPT !.swapped = x] \in ProvRecords
                 /\ [p EXCEPT !.activated = x] \in ProvRecords
  BY DEF ProvRecords, ProvPcs, Units

\* The provisioner starts from a proper record.
LEMMA IdleTyped == Idle \in ProvRecords
  BY UnitAssumption DEF Idle, ProvRecords, Families, Digests, Guarded, CleanupPhases

\* The controller's record, the same way.
LEMMA RfTyped ==
    ASSUME NEW f \in RfRecords
    PROVE  /\ RfIdle \in RfRecords
           /\ \A x \in RfPcs : [f EXCEPT !.pc = x] \in RfRecords
           /\ \A x \in {"inactive", "started", "committed"} : [f EXCEPT !.handoff = x] \in RfRecords
           /\ \A x \in BOOLEAN : [f EXCEPT !.bootstrap = x] \in RfRecords
           /\ \A x \in SUBSET Readers : [f EXCEPT !.loaded = x] \in RfRecords
  BY DEF RfRecords, RfPcs, RfIdle

\* The members of the typed records that the steps read.
LEMMA Reads ==
    ASSUME TypeOK
    PROVE  /\ prov \in ProvRecords /\ rf \in RfRecords /\ unit \in Units
           /\ prov.pc \in ProvPcs /\ prov.seen \in Digests /\ prov.were \in Units
           /\ prov.fallbacks \subseteq Readers /\ prov.consumersWere \subseteq Consumers
           /\ prov.backup \in Runtimes \cup {NoRuntime}
           /\ prov.swapped \in BOOLEAN /\ prov.activated \in BOOLEAN
           /\ prov.readsStopped \in BOOLEAN
           /\ rf.pc \in RfPcs /\ rf.loaded \subseteq Readers
           /\ source \in Nat /\ events.count \in Nat /\ events.edited \in BOOLEAN
           /\ held["refresh"] \in Holds /\ held["provisioner"] \in Holds
           /\ venv \in Runtimes => venv.built \in Digests /\ venv.intact \in BOOLEAN
  <1>1. prov \in ProvRecords /\ rf \in RfRecords /\ unit \in Units
    BY DEF TypeOK, ProvTypeOK, SharedTypeOK, Units
  <1>2. /\ prov.pc \in ProvPcs /\ prov.seen \in Digests /\ prov.were \in Units
        /\ prov.fallbacks \subseteq Readers /\ prov.consumersWere \subseteq Consumers
        /\ prov.backup \in Runtimes \cup {NoRuntime}
        /\ prov.swapped \in BOOLEAN /\ prov.activated \in BOOLEAN
        /\ prov.readsStopped \in BOOLEAN
    BY <1>1 DEF ProvRecords, ProvPcs, Units
  <1>3. rf.pc \in RfPcs /\ rf.loaded \subseteq Readers
    BY <1>1 DEF RfRecords, RfPcs
  <1>4. source \in Nat /\ events.count \in Nat /\ events.edited \in BOOLEAN
    BY UnitAssumption DEF TypeOK, SharedTypeOK, Digests, EventRecords
  <1>5. held["refresh"] \in Holds /\ held["provisioner"] \in Holds
    BY DEF TypeOK, SharedTypeOK, Holds, Controllers
  <1>6. venv \in Runtimes => venv.built \in Digests /\ venv.intact \in BOOLEAN
    BY DEF Runtimes
  <1> QED BY <1>1, <1>2, <1>3, <1>4, <1>5, <1>6

\* What the provisioner remembers of the swap and of the readers.
Remembers(p) ==
    /\ p.mode = prov.mode /\ p.were = prov.were /\ p.backup = prov.backup
    /\ p.seen = prov.seen
    /\ p.readsStopped = prov.readsStopped
    /\ p.swapped = prov.swapped /\ p.activated = prov.activated

\* Going to a phase changes nothing else.
LEMMA Goes ==
    ASSUME TypeOK
    PROVE  /\ \A x \in RfPcs :
                 /\ RfGoTo(x) \in RfRecords /\ RfGoTo(x).pc = x
                 /\ RfGoTo(x).loaded = rf.loaded /\ RfGoTo(x).handoff = rf.handoff
           /\ \A x \in ProvPcs :
                 GoTo(x) \in ProvRecords /\ GoTo(x).pc = x /\ Remembers(GoTo(x))
  <1>1. \A x \in RfPcs : RfGoTo(x) \in RfRecords
    BY RfTyped, Reads DEF RfGoTo
  <1>2. \A x \in ProvPcs : GoTo(x) \in ProvRecords
    BY ProvTyped, Reads DEF GoTo
  <1>3. \A x \in RfPcs : RfGoTo(x).pc = x /\ RfGoTo(x).loaded = rf.loaded
                          /\ RfGoTo(x).handoff = rf.handoff
    BY Reads DEF RfGoTo, RfRecords
  <1>4. \A x \in ProvPcs : GoTo(x).pc = x /\ Remembers(GoTo(x))
    BY Reads DEF GoTo, ProvRecords, Remembers
  <1> QED BY <1>1, <1>2, <1>3, <1>4

\* Nor do the notes a phase takes on the way.
LEMMA Notes ==
    ASSUME TypeOK, NEW p \in ProvRecords, Remembers(p)
    PROVE  /\ \A x \in BOOLEAN :
                 LET q == [p EXCEPT !.unresolved = x]
                 IN  q \in ProvRecords /\ q.pc = p.pc /\ Remembers(q)
           /\ \A x \in SUBSET Readers :
                 LET q == [p EXCEPT !.fallbacks = x]
                 IN  q \in ProvRecords /\ q.pc = p.pc /\ Remembers(q)
           /\ \A x \in SUBSET Consumers :
                 LET q == [p EXCEPT !.consumersWere = x]
                 IN  q \in ProvRecords /\ q.pc = p.pc /\ Remembers(q)
           /\ \A x \in BOOLEAN :
                 LET q == [p EXCEPT !.consumersStopped = x]
                 IN  q \in ProvRecords /\ q.pc = p.pc /\ Remembers(q)
           /\ \A x \in {"none", "ok", "failed"} :
                 LET q == [p EXCEPT !.result = x]
                 IN  q \in ProvRecords /\ q.pc = p.pc /\ Remembers(q)
  <1>1. /\ \A x \in BOOLEAN : [p EXCEPT !.unresolved = x] \in ProvRecords
        /\ \A x \in SUBSET Readers : [p EXCEPT !.fallbacks = x] \in ProvRecords
        /\ \A x \in SUBSET Consumers : [p EXCEPT !.consumersWere = x] \in ProvRecords
        /\ \A x \in BOOLEAN : [p EXCEPT !.consumersStopped = x] \in ProvRecords
        /\ \A x \in {"none", "ok", "failed"} : [p EXCEPT !.result = x] \in ProvRecords
    BY ProvTyped
  <1>2. \A x \in BOOLEAN :
           LET q == [p EXCEPT !.unresolved = x]
           IN  q.pc = p.pc /\ Remembers(q)
    BY DEF ProvRecords, Remembers
  <1>3. \A x \in SUBSET Readers :
           LET q == [p EXCEPT !.fallbacks = x]
           IN  q.pc = p.pc /\ Remembers(q)
    BY DEF ProvRecords, Remembers
  <1>4. \A x \in SUBSET Consumers :
           LET q == [p EXCEPT !.consumersWere = x]
           IN  q.pc = p.pc /\ Remembers(q)
    BY DEF ProvRecords, Remembers
  <1>5. \A x \in BOOLEAN :
           LET q == [p EXCEPT !.consumersStopped = x]
           IN  q.pc = p.pc /\ Remembers(q)
    BY DEF ProvRecords, Remembers
  <1>6. \A x \in {"none", "ok", "failed"} :
           LET q == [p EXCEPT !.result = x]
           IN  q.pc = p.pc /\ Remembers(q)
    BY DEF ProvRecords, Remembers
  <1> QED BY <1>1, <1>2, <1>3, <1>4, <1>5, <1>6

\* The controller goes on, with a flag for its trap.
LEMMA GoesOn ==
    ASSUME TypeOK, NEW x \in RfPcs
    PROVE  /\ \A b \in BOOLEAN :
                 LET f == [RfGoTo(x) EXCEPT !.bootstrap = b]
                 IN  f \in RfRecords /\ f.pc = x /\ f.loaded = rf.loaded
           /\ \A h \in {"inactive", "started", "committed"} :
                 LET f == [RfGoTo(x) EXCEPT !.handoff = h]
                 IN  f \in RfRecords /\ f.pc = x /\ f.loaded = rf.loaded
  <1>1. RfGoTo(x) \in RfRecords /\ RfGoTo(x).pc = x /\ RfGoTo(x).loaded = rf.loaded
    BY Goes
  <1>2. /\ \A b \in BOOLEAN : [RfGoTo(x) EXCEPT !.bootstrap = b] \in RfRecords
        /\ \A h \in {"inactive", "started", "committed"} :
              [RfGoTo(x) EXCEPT !.handoff = h] \in RfRecords
    BY <1>1, RfTyped
  <1> QED BY <1>1, <1>2 DEF RfRecords

\* What the actions on the locks do.
LEMMA HeldTyped ==
    ASSUME TypeOK
    PROVE  /\ \A l \in Locks, how \in {"none", "shared", "exclusive"} :
                 /\ Take(l, how) \in [Controllers -> Holds]
                 /\ Take(l, how)["refresh"] = held["refresh"]
                 /\ \A k \in Locks : Take(l, how)["provisioner"][k] =
                                       IF k = l THEN how ELSE held["provisioner"][k]
           /\ \A ls \in SUBSET Locks :
                 /\ Release(ls) \in [Controllers -> Holds]
                 /\ Release(ls)["refresh"] = held["refresh"]
                 /\ \A k \in Locks : Release(ls)["provisioner"][k] =
                                       IF k \in ls THEN "none" ELSE held["provisioner"][k]
           /\ LocksClosed \in [Controllers -> Holds]
           /\ LocksClosed["provisioner"] = held["provisioner"]
           /\ \A k \in Locks : LocksClosed["refresh"][k] = "none"
  BY DEF TypeOK, SharedTypeOK, Holds, Controllers, Take, Release, LocksClosed

\* A start and a stop make a proper assignment of units.
LEMMA UnitsTyped ==
    ASSUME TypeOK
    PROVE  /\ \A S : \A family \in Families : Started(S, family) \in Units
           /\ \A S : Stopped(S) \in Units
           /\ \A S, family : StoppedFamily(S, family) \in Units
  BY DEF TypeOK, SharedTypeOK, Started, Stopped, StoppedFamily, Units

\* An outside event is counted within the bound and never undoes an edit.
LEMMA EventTyped ==
    ASSUME TypeOK, NEW kind, Event(kind)
    PROVE  /\ events' \in EventRecords /\ events'.count = events.count + 1
           /\ events'.edited = (events.edited \/ kind = "edit")
           /\ events.count < MaxEvents
  <1>1. /\ events.count \in 0 .. MaxEvents /\ events.edited \in BOOLEAN
        /\ events.lapsed \in BOOLEAN /\ events.forced \in BOOLEAN
    BY DEF TypeOK, SharedTypeOK, EventRecords
  <1>2. events.count + 1 \in 0 .. MaxEvents
    BY <1>1, UnitAssumption DEF Event
  <1> QED BY <1>1, <1>2 DEF Event, EventRecords

\* An admission that is published, and a provision that begins, count no event and
\* undo no edit.
LEMMA EventKept ==
    ASSUME TypeOK,
           \/ events' = events \/ Admitted
           \/ \E b \in BOOLEAN : events' = [events EXCEPT !.forced = b]
    PROVE  /\ events' \in EventRecords /\ events'.edited = events.edited
           /\ events'.count \in Nat /\ events'.count >= events.count
  <1>1. events \in EventRecords
    BY DEF TypeOK, SharedTypeOK
  <1>2. \A b \in BOOLEAN :
           /\ [events EXCEPT !.lapsed = b] \in EventRecords
           /\ [events EXCEPT !.lapsed = b].edited = events.edited
           /\ [events EXCEPT !.lapsed = b].count = events.count
           /\ [events EXCEPT !.forced = b] \in EventRecords
           /\ [events EXCEPT !.forced = b].edited = events.edited
           /\ [events EXCEPT !.forced = b].count = events.count
    BY <1>1 DEF EventRecords
  <1>3. events' \in EventRecords /\ events'.edited = events.edited /\ events'.count = events.count
    <2>1. CASE events' = events
      BY <1>1, <2>1
    <2>2. CASE Admitted
      <3>1. events' = [events EXCEPT !.lapsed = FALSE] /\ FALSE \in BOOLEAN
        BY <2>2 DEF Admitted
      <3> QED BY <1>2, <3>1
    <2>3. CASE \E b \in BOOLEAN : events' = [events EXCEPT !.forced = b]
      BY <1>2, <2>3
    <2> QED BY <2>1, <2>2, <2>3
  <1>4. events.count \in Nat
    BY Reads
  <1> QED BY <1>3, <1>4

\* An outside event that is counted shows.
LEMMA EventShows ==
    ASSUME TypeOK, NEW kind, Event(kind)
    PROVE  events' # events
  <1>1. events.count \in Nat /\ events'.count = events.count + 1
    BY EventTyped, Reads
  <1>2. events.count + 1 # events.count
    BY <1>1
  <1> QED BY <1>1, <1>2

---------------------------------------------------------------------------
(* How steps move units and locks. *)

\* What newly runs found its locks open, and the stack reader its runtime verified.
Launched ==
    /\ \A r \in Readers : unit'[r] # "off" =>
          unit[r] # "off" \/ (Open("runtime") /\ (r = Stack => ReadVerified))
    /\ consumers' \subseteq consumers \cup {c \in Consumers : ConsumerCanStart(c)}
    /\ job' => job \/ (Open("operation") /\ Open("runtime"))

\* A start launches.
LEMMA StartedLaunches ==
    ASSUME NEW S, NEW family, NEW r \in Readers, Started(S, family)[r] # "off"
    PROVE  unit[r] # "off" \/ (Open("runtime") /\ (r = Stack => ReadVerified))
  BY DEF Started, CanStart

\* A stop launches nothing.
LEMMA StoppedLaunches ==
    ASSUME NEW S, NEW r \in Readers, Stopped(S)[r] # "off"
    PROVE  unit[r] # "off"
  BY DEF Stopped

\* A lock that comes to be held by what was launched was open.
LEMMA LaunchedOpen ==
    ASSUME Launched, NEW l \in Locks, HeldByUnits(l)'
    PROVE  HeldByUnits(l) \/ Open(l)
  <1>1. Serving' # {} => Serving # {} \/ Open("runtime")
    BY DEF Launched, Serving
  <1>2. Stack \in Serving' => Stack \in Serving \/ Open("source")
    BY DEF Launched, Serving, ReadVerified, Verifiable
  <1>3. consumers' # {} => consumers # {} \/ (Open("operation") /\ Open("runtime"))
    BY DEF Launched, ConsumerCanStart
  <1>4. consumers' \cap Strict # {} => consumers \cap Strict # {} \/ Open("source")
    BY DEF Launched, ConsumerCanStart, StrictVerified, Verifiable
  <1> QED BY <1>1, <1>2, <1>3, <1>4 DEF Launched, HeldByUnits, Locks

\* The controller lets a lock go, keeps it, or shares one that no one excludes.
Shares == \A l \in Locks :
    \/ held'["refresh"][l] \in {"none", held["refresh"][l]}
    \/ held'["refresh"][l] = "shared" /\ held["provisioner"][l] # "exclusive"

\* Launches, releases and shares keep the order of the locks, and so does an
\* exclusive lock that the provisioner takes when no one has it.
LEMMA LocksKept ==
    ASSUME IInv, Launched, Shares,
           \A l \in Locks : held'["provisioner"][l] = "exclusive" =>
              \/ held["provisioner"][l] = "exclusive"
              \/ held'["refresh"][l] = "none" /\ ~HeldByUnits(l)'
    PROVE  LockOrder'
  <1>1. \A l \in Locks : HeldByUnits(l)' => HeldByUnits(l) \/ held["provisioner"][l] # "exclusive"
    BY LaunchedOpen DEF Open, Controllers
  <1> QED BY <1>1 DEF IInv, Order, LockOrder, Shares

\* Nothing but the units, the controller's locks and the count of events moves.
Serves ==
    /\ UNCHANGED <<source, venv, grant, provVars>>
    /\ events'.edited = events.edited
    /\ events'.count \in Nat /\ events'.count >= events.count
    /\ held'["provisioner"] = held["provisioner"]
    /\ Launched /\ Shares

\* Then all that is not about the controller is kept.
LEMMA ServesKeeps ==
    ASSUME IInv, Serves
    PROVE  /\ SourceCount' /\ LockOrder' /\ ProvisionLocks' /\ Backups'
           /\ RuntimeNeverLost' /\ Deployed' /\ Recorded'
  <1>1. SourceCount'
    BY Reads DEF IInv, Order, SourceCount, Serves
  <1>2. ProvisionLocks'
    BY DEF IInv, Order, ProvisionLocks, Serves, provVars, At
  <1>3. Backups' /\ RuntimeNeverLost' /\ Recorded'
    BY DEF IInv, Order, Backups, RuntimeNeverLost, Recorded, Serves, provVars, At
  <1>4. Deployed'
    <2> SUFFICES ASSUME ~events.edited
                 PROVE  Stack \in Serving' => venv.built = source
      BY DEF IInv, Order, Deployed, Serves, provVars, Exact
    <2>1. grant = NoRuntime
      BY DEF IInv, Order, Deployed
    <2>2. ReadVerified => venv.built = source
      BY <2>1 DEF ReadVerified, Verifiable, Exact
    <2> QED BY <2>2 DEF IInv, Order, Deployed, Serves, Launched, Serving
  <1>5. LockOrder'
    BY LocksKept DEF Serves
  <1> QED BY <1>1, <1>2, <1>3, <1>4, <1>5

---------------------------------------------------------------------------
(* The controller's steps. *)

\* A step of the controller that starts no repair serves, and its own phase and
\* marker stay in order.
RefreshKept == TypeOK' /\ Serves /\ RefreshLocks' /\ Loaded'

\* Steps of the controller alone.
LEMMA RefreshMoves ==
    ASSUME IInv,
           \/ RefreshReady \/ RefreshRefused \/ RepairReturned \/ Decide \/ Commit
           \/ CanaryFailed
    PROVE  RefreshKept
  <1>1. /\ UNCHANGED <<source, venv, grant, marker, unit, consumers, job, held, provVars>>
        /\ events' = events \/ Admitted
    BY DEF RefreshReady, RefreshRefused, RepairReturned, Decide, Commit, CanaryFailed, shared
  <1>2. /\ events' \in EventRecords /\ events'.edited = events.edited
        /\ events'.count \in Nat /\ events'.count >= events.count
    BY <1>1, EventKept DEF IInv
  <1>3. /\ rf' \in RfRecords
        /\ rf'.pc \in Locked \cup {"lock source", "lock runtime"} =>
              rf.pc \in Locked /\ rf'.loaded = rf.loaded
        /\ RfAt("bootstrap")' => rf'.loaded = {}
    <2>1. CASE RefreshReady
      BY <2>1, RfTyped, Reads DEF IInv, RefreshReady, RfIdle, RfAt, Locked, RfPcs, Working
    <2>2. CASE RefreshRefused
      BY <2>2, RfTyped, Reads DEF IInv, RefreshRefused, RfIdle, RfAt, Locked, RfPcs, Working
    <2>3. CASE RepairReturned
      BY <2>3, Goes DEF IInv, RepairReturned, RfAt, Locked, RfPcs, Working
    <2>4. CASE Decide
      <3>1. PICK x \in {"final", "handoff", "restore", "bootstrap"} :
               rf' = RfGoTo(x) /\ (x = "bootstrap" => rf.loaded = {})
        BY <2>4 DEF Decide
      <3>2. RfAt("decide")
        BY <2>4 DEF Decide
      <3> QED BY <3>1, <3>2, Goes DEF IInv, RfAt, Locked, RfPcs, Working
    <2>5. CASE Commit
      BY <2>5, GoesOn DEF IInv, Commit, RfAt, Locked, RfPcs, Working
    <2>6. CASE CanaryFailed
      BY <2>6, Goes DEF IInv, CanaryFailed, RfAt, Locked, RfPcs, Working
    <2> QED BY <2>1, <2>2, <2>3, <2>4, <2>5, <2>6
  <1>4. TypeOK'
    BY <1>1, <1>2, <1>3 DEF IInv, TypeOK, SharedTypeOK, ProvTypeOK, provVars
  <1>5. Serves
    BY <1>1, <1>2, Reads DEF IInv, Serves, Launched, Shares
  <1>6. RefreshLocks' /\ Loaded'
    BY <1>1, <1>3 DEF IInv, Order, RefreshLocks, Loaded, Holding
  <1> QED BY <1>4, <1>5, <1>6 DEF RefreshKept

\* The controller takes its locks one by one and loads the marker under the last.
LEMMA RefreshTakes ==
    ASSUME IInv, LockOperation \/ LockSource \/ LockRuntime
    PROVE  RefreshKept
  <1>1. PICK l \in Locks :
           /\ TakeShared(l) /\ rf' \in RfRecords
           /\ \A k \in Locks : rf'.pc \in Holding(k) => k = l \/ rf.pc \in Holding(k)
           /\ rf'.pc \in Locked => rf'.loaded = marker
           /\ ~RfAt("bootstrap")'
    <2>1. CASE LockOperation
      <3>1. rf'.pc = "lock source" /\ rf' \in RfRecords /\ TakeShared("operation")
        BY <2>1, Goes DEF IInv, LockOperation, RfPcs, Working
      <3> QED BY <3>1 DEF Locks, Holding, Locked, RfAt
    <2>2. CASE LockSource
      <3>1. rf'.pc = "lock runtime" /\ rf' \in RfRecords /\ TakeShared("source")
            /\ rf.pc = "lock source"
        BY <2>2, Goes DEF IInv, LockSource, RfAt, RfPcs, Working
      <3> QED BY <3>1 DEF Locks, Holding, Locked, RfAt
    <2>3. CASE LockRuntime
      <3>1. RfGoTo("decide") \in RfRecords /\ RfGoTo("decide").pc = "decide"
        BY Goes DEF IInv, RfPcs, Working
      <3>2. [RfGoTo("decide") EXCEPT !.loaded = marker] \in RfRecords
        BY <3>1, RfTyped DEF IInv, TypeOK, SharedTypeOK
      <3>3. rf'.pc = "decide" /\ rf'.loaded = marker /\ rf.pc = "lock runtime"
        BY <2>3, <3>1 DEF LockRuntime, RfRecords, RfAt
      <3>4. rf' \in RfRecords /\ TakeShared("runtime")
        BY <2>3, <3>2 DEF LockRuntime
      <3> QED BY <3>3, <3>4 DEF Locks, Holding, Locked, RfAt
    <2> QED BY <2>1, <2>2, <2>3
  <1>2. UNCHANGED <<source, venv, grant, marker, unit, consumers, job, events, provVars>>
    BY <1>1 DEF TakeShared
  <1>3. /\ held' \in [Controllers -> Holds] /\ held'["provisioner"] = held["provisioner"]
        /\ \A k \in Locks : held'["refresh"][k] =
                               IF k = l THEN "shared" ELSE held["refresh"][k]
    BY <1>1 DEF IInv, TypeOK, SharedTypeOK, TakeShared, Holds, Controllers
  <1>4. held["provisioner"][l] # "exclusive"
    BY <1>1 DEF TakeShared, Shareable, Controllers
  <1>5. TypeOK'
    BY <1>1, <1>2, <1>3 DEF IInv, TypeOK, SharedTypeOK, ProvTypeOK, provVars, Holds
  <1>6. Serves
    BY <1>2, <1>3, <1>4, Reads DEF IInv, Serves, Launched, Shares
  <1>7. RefreshLocks' /\ Loaded'
    BY <1>1, <1>2, <1>3 DEF IInv, Order, RefreshLocks, Loaded
  <1> QED BY <1>5, <1>6, <1>7 DEF RefreshKept

\* The controller drops its locks.
LEMMA RefreshHolds ==
    ASSUME IInv, NothingToDo \/ Complete \/ RefreshKilled
    PROVE  RefreshKept
  <1>1. /\ UNCHANGED <<source, venv, grant, unit, consumers, job, provVars>>
        /\ rf' = RfIdle /\ marker' \in {{}, marker} /\ held' = LocksClosed
    BY DEF NothingToDo, Complete, RefreshKilled
  <1>2. rf' \in RfRecords /\ rf'.pc = "idle"
    BY <1>1, RfTyped, Reads DEF IInv, RfIdle
  <1>3. /\ events' \in EventRecords /\ events'.edited = events.edited
        /\ events'.count \in Nat /\ events'.count >= events.count
    <2>1. CASE events' = events
      BY <2>1, EventKept DEF IInv
    <2>2. CASE Event("kill")
      BY <2>2, EventTyped, Reads DEF IInv
    <2> QED BY <2>1, <2>2 DEF NothingToDo, Complete, RefreshKilled
  <1>4. held' \in [Controllers -> Holds] /\ held'["provisioner"] = held["provisioner"] /\ Shares
    BY <1>1, HeldTyped DEF IInv, Shares
  <1>5. TypeOK'
    BY <1>1, <1>2, <1>3, <1>4 DEF IInv, TypeOK, SharedTypeOK, ProvTypeOK, provVars, Holds
  <1>6. Serves
    BY <1>1, <1>3, <1>4 DEF Serves, Launched
  <1>7. RefreshLocks' /\ Loaded'
    BY <1>2 DEF RefreshLocks, Loaded, RfAt, Locked, Holding
  <1> QED BY <1>5, <1>6, <1>7 DEF RefreshKept

\* The controller starts and stops units, or gives up.
LEMMA RefreshServes ==
    ASSUME IInv,
           \/ RestoreFallback \/ FillMissing \/ StartBootstrap \/ Bridge \/ HandOff
           \/ Recover \/ ReFall \/ RefreshFails
    PROVE  RefreshKept
  <1>1. /\ UNCHANGED <<source, venv, grant, marker, consumers, job, provVars>>
        /\ held' \in {held, LocksClosed}
    BY DEF RestoreFallback, FillMissing, StartBootstrap, Bridge, HandOff, Recover, ReFall,
           RefreshFails
  <1>2. /\ rf' \in RfRecords
        /\ rf'.pc \in Locked \cup {"lock source", "lock runtime"} =>
              held' = held /\ rf.pc \in Locked /\ rf'.loaded = rf.loaded
        /\ ~RfAt("bootstrap")'
    <2>1. CASE RestoreFallback
      <3>1. PICK x \in {"fill", "recover"} : rf' = RfGoTo(x)
        BY <2>1 DEF RestoreFallback
      <3> QED BY <2>1, <3>1, Goes DEF IInv, RestoreFallback, RfAt, Locked, RfPcs, Working
    <2>2. CASE FillMissing
      <3>1. PICK x \in {"bridge", "recover"}, b \in BOOLEAN :
               rf' = [RfGoTo(x) EXCEPT !.bootstrap = b]
        BY <2>2 DEF FillMissing
      <3>2. RfAt("fill") /\ held' = held
        BY <2>2 DEF FillMissing
      <3> QED BY <3>1, <3>2, GoesOn DEF IInv, RfAt, Locked, RfPcs, Working
    <2>3. CASE StartBootstrap
      <3>1. PICK x \in {"bridge", "recover"} : rf' = [RfGoTo(x) EXCEPT !.bootstrap = TRUE]
        BY <2>3 DEF StartBootstrap
      <3>2. RfAt("bootstrap") /\ held' = held
        BY <2>3 DEF StartBootstrap
      <3> QED BY <3>1, <3>2, GoesOn DEF IInv, RfAt, Locked, RfPcs, Working
    <2>4. CASE Bridge
      BY <2>4, GoesOn DEF IInv, Bridge, RfAt, Locked, RfPcs, Working
    <2>5. CASE HandOff
      <3>1. PICK x \in {"final", "recover"} : rf' = [RfGoTo(x) EXCEPT !.handoff = "started"]
        BY <2>5 DEF HandOff
      <3>2. RfAt("handoff") /\ held' = held
        BY <2>5 DEF HandOff
      <3> QED BY <3>1, <3>2, GoesOn DEF IInv, RfAt, Locked, RfPcs, Working
    <2>6. CASE RefreshFails \/ Recover
      BY <2>6, Goes DEF IInv, RefreshFails, Recover, RfAt, Locked, RfPcs, Working
    <2>7. CASE ReFall
      BY <2>7, RfTyped, Reads DEF IInv, ReFall, RfIdle, RfAt, Locked
    <2> QED BY <2>1, <2>2, <2>3, <2>4, <2>5, <2>6, <2>7
  <1>3. /\ unit' \in Units
        /\ \A r \in Readers : unit'[r] # "off" =>
              unit[r] # "off" \/ (Open("runtime") /\ (r = Stack => ReadVerified))
    <2>1. CASE RestoreFallback \/ FillMissing \/ StartBootstrap \/ HandOff
               \/ (ReFall /\ marker # {})
      <3>1. PICK S \in SUBSET Readers, family \in Families : unit' = Started(S, family)
        <4>1. CASE RestoreFallback
          BY <4>1, Reads DEF IInv, RestoreFallback, Families
        <4>2. CASE FillMissing
          BY <4>2 DEF FillMissing, Families
        <4>3. CASE StartBootstrap \/ HandOff
          BY <4>3 DEF StartBootstrap, HandOff, Families
        <4>4. CASE ReFall /\ marker # {}
          <5>1. (IF rf.loaded # {} THEN rf.loaded ELSE marker) \subseteq Readers
            BY Reads DEF IInv, TypeOK, SharedTypeOK
          <5> QED BY <4>4, <5>1 DEF ReFall, Families
        <4> QED BY <2>1, <4>1, <4>2, <4>3, <4>4
      <3> QED BY <3>1, UnitsTyped, StartedLaunches DEF IInv
    <2>2. CASE Bridge \/ Recover \/ RefreshFails \/ (ReFall /\ marker = {})
      <3>1. unit' = unit \/ \E S : unit' = Stopped(S)
        BY <2>2 DEF Bridge, Recover, RefreshFails, ReFall, StoppedFamily
      <3> QED BY <3>1, UnitsTyped, StoppedLaunches, Reads DEF IInv
    <2> QED BY <2>1, <2>2
  <1>4. /\ events' \in EventRecords /\ events'.edited = events.edited
        /\ events'.count \in Nat /\ events'.count >= events.count
    <2>1. CASE events' = events \/ Admitted
      BY <2>1, EventKept DEF IInv
    <2>2. CASE Event("fail")
      BY <2>2, EventTyped, Reads DEF IInv
    <2> QED BY <2>1, <2>2 DEF RestoreFallback, FillMissing, StartBootstrap, Bridge, HandOff,
                              Recover, ReFall, RefreshFails
  <1>5. held' \in [Controllers -> Holds] /\ held'["provisioner"] = held["provisioner"] /\ Shares
    BY <1>1, HeldTyped DEF IInv, TypeOK, SharedTypeOK, Holds, Shares
  <1>6. TypeOK'
    BY <1>1, <1>2, <1>3, <1>4, <1>5
       DEF IInv, TypeOK, SharedTypeOK, ProvTypeOK, provVars, Holds, Units
  <1>7. Serves
    BY <1>1, <1>3, <1>4, <1>5 DEF Serves, Launched
  <1>8. RefreshLocks' /\ Loaded'
    BY <1>1, <1>2 DEF IInv, Order, RefreshLocks, Loaded, Holding
  <1> QED BY <1>6, <1>7, <1>8 DEF RefreshKept

\* So the controller's own steps keep the invariant.
LEMMA RefreshKeeps ==
    ASSUME IInv, RefreshKept
    PROVE  IInv'
  BY ServesKeeps DEF RefreshKept, IInv, Order

---------------------------------------------------------------------------
(* The outside events. *)

\* Units and jobs come and go.
LEMMA ComingsKeep ==
    ASSUME IInv, UNCHANGED <<provVars, rf>>,
           \/ StartJob \/ EndJob \/ AdmissionLapses
           \/ \E r \in Readers : StopReader(r) \/ \E family \in Families : StartReader(r, family)
           \/ \E c \in Consumers : StartConsumer(c)
    PROVE  IInv'
  <1>1. UNCHANGED <<source, venv, grant, marker, held>>
    BY DEF StartJob, EndJob, AdmissionLapses, StartReader, StopReader, StartConsumer
  <1>2. /\ events' \in EventRecords /\ events'.edited = events.edited
        /\ events'.count \in Nat /\ events'.count >= events.count
    <2>1. CASE events' = events
      BY <2>1, Reads DEF IInv, TypeOK, SharedTypeOK
    <2>2. CASE Event("start") \/ Event("stop") \/ Event("lapse")
      BY <2>2, EventTyped, Reads DEF IInv
    <2> QED BY <2>1, <2>2 DEF StartJob, EndJob, AdmissionLapses, StartReader, StopReader,
                              StartConsumer
  <1>3. /\ unit' \in Units
        /\ \A r \in Readers : unit'[r] # "off" =>
              unit[r] # "off" \/ (Open("runtime") /\ (r = Stack => ReadVerified))
    <2>1. CASE \E r \in Readers : StopReader(r) \/ \E family \in Families : StartReader(r, family)
      <3>1. \/ \E S : \E family \in Families : unit' = Started(S, family)
            \/ \E S : unit' = Stopped(S)
        BY <2>1 DEF StartReader, StopReader
      <3> QED BY <3>1, UnitsTyped, StartedLaunches, StoppedLaunches DEF IInv
    <2>2. CASE StartJob \/ EndJob \/ AdmissionLapses \/ \E c \in Consumers : StartConsumer(c)
      BY <2>2, Reads DEF IInv, StartJob, EndJob, AdmissionLapses, StartConsumer
    <2> QED BY <2>1, <2>2
  <1>4. /\ consumers' \subseteq Consumers /\ job' \in BOOLEAN
        /\ consumers' \subseteq consumers \cup {c \in Consumers : ConsumerCanStart(c)}
        /\ job' => job \/ (Open("operation") /\ Open("runtime"))
    <2>1. consumers \subseteq Consumers /\ job \in BOOLEAN
      BY DEF IInv, TypeOK, SharedTypeOK
    <2>2. CASE \E c \in Consumers : StartConsumer(c)
      <3>1. PICK c \in Consumers :
               ConsumerCanStart(c) /\ consumers' = consumers \cup {c} /\ job' = job
        BY <2>2 DEF StartConsumer
      <3> QED BY <2>1, <3>1
    <2>3. CASE StartJob
      BY <2>1, <2>3 DEF StartJob
    <2>4. CASE \/ EndJob \/ AdmissionLapses
               \/ \E r \in Readers : StopReader(r) \/ \E family \in Families : StartReader(r, family)
      <3>1. consumers' = consumers /\ (job' = job \/ job' = FALSE)
        BY <2>4 DEF EndJob, AdmissionLapses, StartReader, StopReader
      <3>2. job' \in BOOLEAN /\ (job' => job)
        <4>1. CASE job' = job
          BY <2>1, <4>1
        <4>2. CASE job' = FALSE
          BY <4>2
        <4> QED BY <3>1, <4>1, <4>2
      <3> QED BY <2>1, <3>1, <3>2
    <2> QED BY <2>2, <2>3, <2>4
  <1>5. TypeOK'
    BY <1>1, <1>2, <1>3, <1>4 DEF IInv, TypeOK, SharedTypeOK, ProvTypeOK, provVars, Units
  <1>6. Serves
    BY <1>1, <1>2, <1>3, <1>4 DEF Serves, Launched, Shares
  <1>7. RefreshLocks' /\ Loaded'
    BY <1>1 DEF IInv, Order, RefreshLocks, Loaded, RfAt
  <1> QED BY <1>5, <1>6, <1>7, RefreshKeeps DEF RefreshKept

\* The deployed package is replaced: by a sync while no one has its lock, or past it.
LEMMA SourceMoves ==
    ASSUME IInv, UNCHANGED <<provVars, rf>>, Sync \/ EditSource
    PROVE  IInv'
  <1>1. /\ UNCHANGED <<venv, grant, marker, unit, consumers, job, held>>
        /\ source' = source + 1
    BY DEF Sync, EditSource
  <1>2. /\ events' \in EventRecords /\ events'.count = events.count + 1
        /\ events.count < MaxEvents
        /\ EditSource => events'.edited
    BY EventTyped DEF IInv, Sync, EditSource
  <1>3. source' \in Digests /\ SourceCount'
    BY <1>1, <1>2, UnitAssumption, Reads DEF IInv, Order, SourceCount, Digests
  <1>4. TypeOK'
    BY <1>1, <1>2, <1>3 DEF IInv, TypeOK, SharedTypeOK, ProvTypeOK, provVars
  <1>5. LockOrder' /\ RefreshLocks' /\ ProvisionLocks'
    BY <1>1 DEF IInv, Order, LockOrder, HeldByUnits, Serving, RefreshLocks, ProvisionLocks,
                At, provVars
  <1>6. Backups' /\ RuntimeNeverLost' /\ Recorded' /\ Loaded'
    BY <1>1 DEF IInv, Order, Backups, RuntimeNeverLost, Recorded, Loaded, At, RfAt, provVars
  <1>7. Deployed'
    <2>1. CASE EditSource
      BY <1>2, <2>1 DEF Deployed
    <2>2. CASE Sync
      <3>1. Stack \notin Serving /\ prov.pc \notin Early
        BY <2>2 DEF IInv, Order, ProvisionLocks, Sync, HeldByUnits, Controllers
      <3>2. ~events'.edited => ~events.edited
        BY <2>2, EventTyped DEF IInv, Sync
      <3> QED BY <1>1, <3>1, <3>2 DEF IInv, Order, Deployed, Serving, provVars
    <2> QED BY <2>1, <2>2
  <1> QED BY <1>3, <1>4, <1>5, <1>6, <1>7 DEF IInv, Order

\* The runtime is damaged where it stands.
LEMMA DamageKeeps ==
    ASSUME IInv, UNCHANGED <<provVars, rf>>, DamageRuntime
    PROVE  IInv'
  <1>1. /\ UNCHANGED <<source, grant, marker, unit, consumers, job, held>>
        /\ venv \in Runtimes
        /\ venv' = [venv EXCEPT !.intact = FALSE]
    BY DEF IInv, TypeOK, SharedTypeOK, DamageRuntime
  <1>2. venv' \in Runtimes /\ venv'.built = venv.built /\ ~venv'.intact
    BY <1>1 DEF Runtimes
  <1>3. /\ events' \in EventRecords /\ events'.count = events.count + 1
        /\ events'.edited = events.edited
    BY EventTyped, Reads DEF IInv, DamageRuntime
  <1>4. TypeOK'
    BY <1>1, <1>2, <1>3 DEF IInv, TypeOK, SharedTypeOK, ProvTypeOK, provVars
  <1>5. SourceCount'
    BY <1>1, <1>3, Reads DEF IInv, Order, SourceCount
  <1>6. LockOrder' /\ RefreshLocks' /\ ProvisionLocks'
    BY <1>1 DEF IInv, Order, LockOrder, HeldByUnits, Serving, RefreshLocks, ProvisionLocks,
                At, provVars
  <1>7. venv' # NoRuntime /\ venv # NoRuntime
    BY <1>1, <1>2, NoRuntimeApart
  <1>8. Backups' /\ RuntimeNeverLost' /\ Loaded'
    BY <1>1, <1>2, <1>7 DEF IInv, Order, Backups, RuntimeNeverLost, Loaded, At, RfAt, provVars
  <1>9. Recorded'
    BY <1>1, <1>2 DEF IInv, Order, Recorded, provVars
  <1>10. Deployed'
    BY <1>1, <1>2, <1>3 DEF IInv, Order, Deployed, Serving, Exact, provVars
  <1> QED BY <1>4, <1>5, <1>6, <1>8, <1>9, <1>10 DEF IInv, Order

---------------------------------------------------------------------------
(* The provisioner's phases. *)

\* The phase leaves the runtimes and the record of them as they are.
Stands ==
    /\ UNCHANGED <<source, venv, grant, marker, lost, rf>>
    /\ events'.edited = events.edited
    /\ events'.count \in Nat /\ events'.count >= events.count
    /\ held'["refresh"] = held["refresh"] /\ Launched
    /\ \A l \in Locks : held'["provisioner"][l] = "exclusive" =>
          \/ held["provisioner"][l] = "exclusive"
          \/ held["refresh"][l] = "none" /\ ~HeldByUnits(l)'
    /\ prov'.backup = prov.backup /\ prov'.swapped = prov.swapped
    /\ prov'.were = prov.were /\ prov'.readsStopped = prov.readsStopped
    /\ prov'.seen = prov.seen
    /\ prov'.pc \in Early => prov.pc \in Early
    /\ prov'.pc \in Unswapped => prov.pc \in Unswapped

\* Then only the phase's own locks and its place are left to show.
LEMMA StandsKeeps ==
    ASSUME IInv, Stands
    PROVE  /\ SourceCount' /\ LockOrder' /\ RefreshLocks' /\ RuntimeNeverLost'
           /\ Deployed' /\ Recorded' /\ Loaded'
  <1>1. SourceCount'
    BY Reads DEF IInv, Order, SourceCount, Stands
  <1>2. RefreshLocks' /\ RuntimeNeverLost' /\ Recorded' /\ Loaded'
    BY DEF IInv, Order, RefreshLocks, RuntimeNeverLost, Recorded, Loaded, RfAt, Stands
  <1>3. LockOrder'
    BY LocksKept DEF Stands, Shares
  <1>4. Deployed'
    <2> SUFFICES ASSUME ~events.edited
                 PROVE  Stack \in Serving' => venv.built = source
      BY DEF IInv, Order, Deployed, Stands, Exact
    <2>1. grant = NoRuntime
      BY DEF IInv, Order, Deployed
    <2>2. ReadVerified => venv.built = source
      BY <2>1 DEF ReadVerified, Verifiable, Exact
    <2> QED BY <2>2 DEF IInv, Order, Deployed, Stands, Launched, Serving
  <1> QED BY <1>1, <1>2, <1>3, <1>4

\* Phases that only check and go on, or die.
LEMMA ChecksKeep ==
    ASSUME IInv, UNCHANGED rf,
           Stage \/ CheckMarker \/ RecordConsumers \/ Die \/ Fail
    PROVE  IInv'
  <1>1. /\ UNCHANGED <<source, venv, grant, marker, unit, job, held, lost>>
        /\ consumers' \subseteq Consumers
        /\ consumers' \subseteq consumers \cup {c \in Consumers : ConsumerCanStart(c)}
    <2>1. CASE Fail
      <3>1. PICK C \in SUBSET prov.consumersWere :
               consumers' = consumers \cup {c \in C : ConsumerCanStart(c)}
        BY <2>1 DEF Fail
      <3>2. C \subseteq Consumers /\ consumers \subseteq Consumers
        BY Reads DEF IInv, TypeOK, SharedTypeOK
      <3> QED BY <2>1, <3>1, <3>2 DEF Fail
    <2>2. CASE Stage \/ CheckMarker \/ RecordConsumers \/ Die
      BY <2>2 DEF IInv, TypeOK, SharedTypeOK, Stage, CheckMarker, RecordConsumers, Die, shared
    <2> QED BY <2>1, <2>2
  <1>2. /\ events' \in EventRecords /\ events'.edited = events.edited
        /\ events'.count \in Nat /\ events'.count >= events.count
    <2>1. CASE events' = events
      BY <2>1, Reads DEF IInv, TypeOK, SharedTypeOK
    <2>2. CASE Event("fail")
      BY <2>2, EventTyped, Reads DEF IInv
    <2> QED BY <2>1, <2>2 DEF Stage, CheckMarker, RecordConsumers, Die, Fail, shared
  <1>3. /\ prov' \in ProvRecords /\ Remembers(prov')
        /\ \/ prov.pc = "stage" /\ prov.mode = "repair" /\ prov'.pc = "check"
           \/ prov.pc = "stage" /\ prov.mode = "manual" /\ prov'.pc = "move out"
           \/ prov.pc = "check" /\ prov'.pc = "record consumers"
           \/ prov.pc = "record consumers" /\ prov'.pc = "stop consumers"
           \/ prov.pc \in Guarded /\ prov'.pc = "rollback"
           \/ prov.pc \in {"put back", "rollback"} /\ prov'.pc = "unlock"
    <2>1. CASE Stage
      <3>1. prov.mode \in {"repair", "manual"}
        BY Reads DEF IInv, ProvRecords
      <3>2. PICK x \in {"check", "move out"} :
               prov' = GoTo(x) /\ (x = "check" <=> prov.mode = "repair")
        BY <2>1 DEF Stage
      <3> QED BY <2>1, <3>1, <3>2, Goes DEF IInv, Stage, At, ProvPcs, Guarded
    <2>2. CASE CheckMarker
      <3>1. LET p == GoTo("record consumers")
            IN  p \in ProvRecords /\ p.pc = "record consumers" /\ Remembers(p)
        BY Goes DEF IInv, ProvPcs, Guarded
      <3>2. LET p == [GoTo("record consumers") EXCEPT !.unresolved = marker # {}]
            IN  p \in ProvRecords /\ p.pc = "record consumers" /\ Remembers(p)
        BY <3>1, Notes DEF IInv
      <3>3. prov' \in ProvRecords /\ prov'.pc = "record consumers" /\ Remembers(prov')
        BY <2>2, <3>2, Notes DEF IInv, TypeOK, SharedTypeOK, CheckMarker
      <3> QED BY <2>2, <3>3 DEF CheckMarker, At
    <2>3. CASE RecordConsumers
      <3>1. LET p == GoTo("stop consumers")
            IN  p \in ProvRecords /\ p.pc = "stop consumers" /\ Remembers(p)
        BY Goes DEF IInv, ProvPcs, Guarded
      <3>2. prov' \in ProvRecords /\ prov'.pc = "stop consumers" /\ Remembers(prov')
        BY <2>3, <3>1, Notes DEF IInv, TypeOK, SharedTypeOK, RecordConsumers
      <3> QED BY <2>3, <3>2 DEF RecordConsumers, At
    <2>4. CASE Die
      BY <2>4, Goes DEF IInv, Die, Blocked, At, ProvPcs, Guarded, CleanupPhases
    <2>5. CASE Fail
      BY <2>5, Goes DEF IInv, Fail, MustReturn, At, ProvPcs, Guarded, CleanupPhases
    <2> QED BY <2>1, <2>2, <2>3, <2>4, <2>5
  <1>4. TypeOK'
    BY <1>1, <1>2, <1>3 DEF IInv, TypeOK, SharedTypeOK, ProvTypeOK
  <1>5. Stands
    <2>1. Launched
      BY <1>1 DEF Launched
    <2>2. prov'.pc \in Early => prov.pc \in Early
      BY <1>3 DEF Early
    <2>3. prov'.pc \in Unswapped => prov.pc \in Unswapped
      BY <1>3 DEF Early, Unswapped
    <2> QED BY <1>1, <1>2, <1>3, <2>1, <2>2, <2>3 DEF Stands, Remembers
  <1>6. ProvisionLocks'
    BY <1>1, <1>3 DEF IInv, Order, ProvisionLocks, Backups, Remembers, At, Early, Unswapped, Guarded
  <1>7. Backups'
    BY <1>1, <1>3 DEF IInv, Order, Backups, Remembers, At, Early, Unswapped, Guarded
  <1> QED BY <1>4, <1>5, <1>6, <1>7, StandsKeeps DEF IInv, Order

\* The consumers that come back had their locks open.
LEMMA BackLaunches ==
    ASSUME TypeOK
    PROVE  /\ BackAgain \subseteq Consumers
           /\ BackAgain \subseteq consumers \cup {c \in Consumers : ConsumerCanStart(c)}
  BY Reads DEF TypeOK, SharedTypeOK, BackAgain

\* Phases that stop and start consumers.
LEMMA ConsumersKeep ==
    ASSUME IInv, UNCHANGED rf,
           StopConsumers \/ RestoreConsumers \/ RestartConsumers
    PROVE  IInv'
  <1>1. UNCHANGED <<source, venv, grant, marker, unit, job, held, events, lost>>
    BY DEF StopConsumers, RestoreConsumers, RestartConsumers
  <1>2. /\ prov' \in ProvRecords /\ Remembers(prov')
        /\ \/ prov.pc = "stop consumers" /\ prov'.pc = "exclude operation"
           \/ prov.pc \in {"restore consumers", "restart consumers"} /\ prov'.pc = "idle"
    <2>1. CASE StopConsumers
      <3>1. LET p == GoTo("exclude operation")
            IN  p \in ProvRecords /\ p.pc = "exclude operation" /\ Remembers(p)
        BY Goes DEF IInv, ProvPcs, Guarded
      <3> QED BY <2>1, <3>1, Notes DEF IInv, StopConsumers, At
    <2>2. CASE RestoreConsumers \/ RestartConsumers
      <3>1. GoTo("idle") \in ProvRecords /\ GoTo("idle").pc = "idle" /\ Remembers(GoTo("idle"))
        BY Goes DEF IInv, ProvPcs
      <3>2. \A r \in {"none", "ok", "failed"} :
               LET p == [GoTo("idle") EXCEPT !.result = r]
               IN  p \in ProvRecords /\ p.pc = "idle" /\ Remembers(p)
        BY <3>1, Notes DEF IInv
      <3>3. \A r \in {"none", "ok", "failed"} :
               LET p == [GoTo("idle") EXCEPT !.result = r, !.consumersStopped = FALSE]
               IN  p \in ProvRecords /\ p.pc = "idle" /\ Remembers(p)
        BY <3>2, Notes DEF IInv
      <3> QED BY <2>2, <3>2, <3>3 DEF RestoreConsumers, RestartConsumers, At
    <2> QED BY <2>1, <2>2
  <1>3. /\ consumers' \subseteq Consumers
        /\ consumers' \subseteq consumers \cup {c \in Consumers : ConsumerCanStart(c)}
    <2>1. consumers' \in {{}, consumers, BackAgain}
      BY DEF StopConsumers, RestoreConsumers, RestartConsumers
    <2> QED BY <2>1, BackLaunches DEF IInv, TypeOK, SharedTypeOK
  <1>4. TypeOK'
    BY <1>1, <1>2, <1>3 DEF IInv, TypeOK, SharedTypeOK, ProvTypeOK
  <1>5. Stands
    <2>1. Launched
      BY <1>1, <1>3 DEF Launched
    <2>2. /\ prov'.pc \in Early => prov.pc \in Early
          /\ prov'.pc \in Unswapped => prov.pc \in Unswapped
      BY <1>2 DEF Early, Unswapped
    <2>3. events'.edited = events.edited /\ events'.count \in Nat
          /\ events'.count >= events.count
      BY <1>1, Reads DEF IInv
    <2>4. held' = held
      BY <1>1
    <2> QED BY <1>1, <1>2, <2>1, <2>2, <2>3, <2>4 DEF Stands, Remembers
  <1>6. ProvisionLocks' /\ Backups'
    BY <1>1, <1>2 DEF IInv, Order, ProvisionLocks, Backups, Remembers, At, Early, Unswapped
  <1> QED BY <1>4, <1>5, <1>6, StandsKeeps DEF IInv, Order

\* Phases that stop and start readers.
LEMMA ReadersKeep ==
    ASSUME IInv, UNCHANGED rf,
           StopReaders \/ Activate \/ RestartReaders
    PROVE  IInv'
  <1>1. UNCHANGED <<source, venv, grant, marker, consumers, job, held, events, lost>>
    BY DEF StopReaders, Activate, RestartReaders
  <1>2. /\ prov' \in ProvRecords
        /\ \/ /\ Remembers(prov')
              /\ \/ prov.pc = "stop readers" /\ prov'.pc = "exclude runtime"
                 \/ prov.pc = "activate" /\ prov'.pc = "rollback"
                 \/ prov.pc = "restart readers" /\ prov'.pc = "restart consumers"
           \/ /\ prov.pc = "activate" /\ prov'.pc = "retire"
              /\ prov'.backup = prov.backup /\ prov'.swapped = prov.swapped
              /\ prov'.were = prov.were /\ prov'.readsStopped = prov.readsStopped
              /\ prov'.seen = prov.seen
    <2>1. CASE StopReaders
      BY <2>1, Goes DEF IInv, StopReaders, At, ProvPcs, Guarded
    <2>2. CASE RestartReaders
      BY <2>2, Goes DEF IInv, RestartReaders, At, ProvPcs, CleanupPhases
    <2>3. CASE Activate
      <3>1. CASE prov' = GoTo("rollback")
        BY <2>3, <3>1, Goes DEF IInv, Activate, At, ProvPcs, CleanupPhases
      <3>2. CASE prov' = [GoTo("retire") EXCEPT !.activated = TRUE]
        <4>1. GoTo("retire") \in ProvRecords /\ GoTo("retire").pc = "retire"
              /\ Remembers(GoTo("retire"))
          BY Goes DEF IInv, ProvPcs, Guarded
        <4>2. [GoTo("retire") EXCEPT !.activated = TRUE] \in ProvRecords
          BY <4>1, ProvTyped
        <4>3. At("activate")
          BY <2>3 DEF Activate
        <4> QED BY <3>2, <4>1, <4>2, <4>3 DEF ProvRecords, Remembers, At
      <3> QED BY <2>3, <3>1, <3>2 DEF Activate
    <2> QED BY <2>1, <2>2, <2>3
  <1>3. /\ unit' \in Units
        /\ \A r \in Readers : unit'[r] # "off" =>
              unit[r] # "off" \/ (Open("runtime") /\ (r = Stack => ReadVerified))
    <2>1. CASE StopReaders
      BY <2>1, UnitsTyped, StoppedLaunches DEF IInv, StopReaders
    <2>2. CASE Activate
      BY <2>2, UnitsTyped, StartedLaunches DEF IInv, Activate, Families
    <2>3. CASE RestartReaders
      <3>1. CASE unit' = unit \/ unit' = Started(prov.fallbacks, "fallback")
        BY <3>1, UnitsTyped, StartedLaunches, Reads DEF IInv, Families
      <3>2. CASE unit' = [r \in Readers |-> IF prov.were[r] = "off" THEN unit[r]
                                                ELSE Started({r}, prov.were[r])[r]]
        <4>1. \A r \in Readers : prov.were[r] # "off" => prov.were[r] \in Families
          BY Reads DEF IInv, Units
        <4>2. \A r \in Readers : prov.were[r] # "off" =>
                 Started({r}, prov.were[r])[r] \in Families \cup {"off"}
          BY <4>1, UnitsTyped DEF IInv, Units
        <4>3. unit' \in Units
          BY <3>2, <4>2, Reads DEF IInv, Units
        <4> QED BY <3>2, <4>3, StartedLaunches
      <3> QED BY <2>3, <3>1, <3>2 DEF RestartReaders
    <2> QED BY <2>1, <2>2, <2>3
  <1>4. TypeOK'
    BY <1>1, <1>2, <1>3 DEF IInv, TypeOK, SharedTypeOK, ProvTypeOK, Units
  <1>5. Stands
    <2>1. Launched
      BY <1>1, <1>3 DEF Launched
    <2>2. /\ prov'.pc \in Early => prov.pc \in Early
          /\ prov'.pc \in Unswapped => prov.pc \in Unswapped
      BY <1>2 DEF Early, Unswapped
    <2>3. events'.edited = events.edited /\ events'.count \in Nat
          /\ events'.count >= events.count
      BY <1>1, Reads DEF IInv
    <2>4. held' = held
      BY <1>1
    <2> QED BY <1>1, <1>2, <2>1, <2>2, <2>3, <2>4 DEF Stands, Remembers
  <1>6. ProvisionLocks'
    BY <1>1, <1>2 DEF IInv, Order, ProvisionLocks, Backups, Remembers, At, Early, Unswapped
  <1>7. Backups'
    BY <1>1, <1>2 DEF IInv, Order, Backups, Remembers, At, Early, Unswapped
  <1> QED BY <1>4, <1>5, <1>6, <1>7, StandsKeeps DEF IInv, Order

\* Phases that take a lock exclusively.
LEMMA ExcludesKeep ==
    ASSUME IInv, UNCHANGED rf,
           ExcludeOperation \/ ExcludeRuntime
    PROVE  IInv'
  <1>1. UNCHANGED <<source, venv, grant, marker, unit, consumers, job, events, lost>>
    BY DEF ExcludeOperation, ExcludeRuntime
  <1>2. /\ prov' \in ProvRecords /\ Remembers(prov')
        /\ \/ prov.pc = "exclude operation" /\ prov'.pc = "record readers"
              /\ held' = Take("operation", "exclusive") /\ Excludable("provisioner", "operation")
           \/ prov.pc = "exclude runtime" /\ prov'.pc = "move out"
              /\ held' = Take("runtime", "exclusive") /\ Excludable("provisioner", "runtime")
    BY Goes DEF IInv, ExcludeOperation, ExcludeRuntime, At, ProvPcs, Guarded
  <1>3. PICK k \in Locks : held' = Take(k, "exclusive") /\ Excludable("provisioner", k)
                              /\ (prov'.pc = "move out" => k = "runtime")
    BY <1>2 DEF Locks
  <1>4. /\ held' \in [Controllers -> Holds] /\ held'["refresh"] = held["refresh"]
        /\ \A l \in Locks : held'["provisioner"][l] =
                               IF l = k THEN "exclusive" ELSE held["provisioner"][l]
    <2>1. k \in Locks /\ "exclusive" \in {"none", "shared", "exclusive"}
      OBVIOUS
    <2>2. /\ Take(k, "exclusive") \in [Controllers -> Holds]
          /\ Take(k, "exclusive")["refresh"] = held["refresh"]
          /\ \A l \in Locks : Take(k, "exclusive")["provisioner"][l] =
                               IF l = k THEN "exclusive" ELSE held["provisioner"][l]
      BY <2>1, HeldTyped DEF IInv
    <2> QED BY <1>3, <2>2
  <1>5. TypeOK'
    BY <1>1, <1>2, <1>4 DEF IInv, TypeOK, SharedTypeOK, ProvTypeOK, Holds
  <1>6. Stands
    <2>1. HeldByUnits(k)' = HeldByUnits(k)
      BY <1>1 DEF HeldByUnits, Serving
    <2>2. held["refresh"][k] = "none" /\ ~HeldByUnits(k)
      BY <1>3 DEF Excludable, Controllers
    <2>3. \A l \in Locks : held'["provisioner"][l] = "exclusive" =>
             \/ held["provisioner"][l] = "exclusive"
             \/ held["refresh"][l] = "none" /\ ~HeldByUnits(l)'
      BY <1>4, <2>1, <2>2
    <2>4. Launched
      BY <1>1 DEF Launched
    <2>5. /\ prov'.pc \in Early => prov.pc \in Early
          /\ prov'.pc \in Unswapped => prov.pc \in Unswapped
      BY <1>2 DEF Early, Unswapped
    <2>6. events'.edited = events.edited /\ events'.count \in Nat
          /\ events'.count >= events.count
      BY <1>1, Reads DEF IInv
    <2> QED BY <1>1, <1>2, <1>4, <2>3, <2>4, <2>5, <2>6 DEF Stands, Remembers
  <1>7. ProvisionLocks'
    BY <1>2, <1>3, <1>4 DEF IInv, Order, ProvisionLocks, Backups, Remembers, At, Early, Unswapped, Locks
  <1>8. Backups'
    BY <1>1, <1>2 DEF IInv, Order, Backups, Remembers, At, Early, Unswapped
  <1> QED BY <1>5, <1>6, <1>7, <1>8, StandsKeeps DEF IInv, Order

\* Under the exclusive runtime lock nothing runs, and the controller is not at work.
LEMMA Alone ==
    ASSUME IInv, held["provisioner"]["runtime"] = "exclusive"
    PROVE  /\ Serving = {} /\ consumers = {} /\ ~job
           /\ held["refresh"]["runtime"] = "none" /\ rf.pc \notin Locked
  <1>1. held["refresh"]["runtime"] = "none" /\ ~HeldByUnits("runtime")
    BY DEF IInv, Order, LockOrder, Locks
  <1>2. rf.pc \notin Locked
    BY <1>1 DEF IInv, Order, RefreshLocks, Locks, Holding
  <1> QED BY <1>1, <1>2 DEF HeldByUnits

\* A repair, or a provision by hand, begins.
LEMMA BeginKeeps ==
    ASSUME IInv, NEW mode \in {"manual", "repair"}, Begin(mode),
           rf' \in RfRecords, rf' = rf \/ rf'.pc = "repairing"
    PROVE  IInv'
  <1>1. /\ UNCHANGED <<source, venv, grant, marker, unit, consumers, job, lost>>
        /\ prov.pc = "idle" /\ ~Exact
    BY DEF Begin, At
  <1> DEFINE f == events.forced \/ mode = "manual"
  <1>11. /\ events' \in EventRecords /\ events'.edited = events.edited
         /\ events'.count \in Nat /\ events'.count >= events.count
    <2>1. f \in BOOLEAN
      BY DEF IInv, TypeOK, SharedTypeOK, EventRecords
    <2>2. events' = [events EXCEPT !.forced = f]
      BY DEF Begin, IInv, TypeOK, SharedTypeOK, EventRecords
    <2> HIDE DEF f
    <2> QED BY <2>1, <2>2, EventKept DEF IInv
  <1>2. /\ prov' \in ProvRecords /\ prov'.pc = "stage" /\ prov'.mode = mode
        /\ prov'.backup = NoRuntime /\ ~prov'.readsStopped /\ ~prov'.swapped /\ ~prov'.activated
    <2>1. [Idle EXCEPT !.pc = "stage"] \in ProvRecords
      BY IdleTyped, ProvTyped DEF ProvPcs, Guarded
    <2>2. [Idle EXCEPT !.pc = "stage", !.mode = mode] \in ProvRecords
      BY <2>1, ProvTyped
    <2>3. prov' \in ProvRecords
      BY <2>2, ProvTyped DEF IInv, TypeOK, SharedTypeOK, Begin
    <2> QED BY <2>3 DEF Begin, Idle
  <1>3. /\ held' \in [Controllers -> Holds] /\ held'["refresh"] = held["refresh"]
        /\ \A l \in Locks : held'["provisioner"][l] = Wide(mode)
    BY DEF IInv, TypeOK, SharedTypeOK, Begin, Wide, Holds, Controllers
  <1>4. TypeOK'
    BY <1>1, <1>2, <1>3, <1>11 DEF IInv, TypeOK, SharedTypeOK, ProvTypeOK, Holds
  <1>5. SourceCount' /\ RuntimeNeverLost' /\ Recorded'
    <2>1. SourceCount'
      BY <1>1, <1>11, Reads DEF IInv, Order, SourceCount
    <2> QED BY <1>1, <1>2, <2>1 DEF IInv, Order, Backups, RuntimeNeverLost, Recorded
  <1>6. LockOrder'
    <2>1. \A l \in Locks : Wide(mode) = "exclusive" => held["refresh"][l] = "none" /\ ~HeldByUnits(l)
      BY DEF Begin, Admissible, Wide, Excludable, Controllers
    <2>2. \A l \in Locks : HeldByUnits(l)' = HeldByUnits(l)
      BY <1>1 DEF HeldByUnits, Serving
    <2> QED BY <1>3, <2>1, <2>2 DEF IInv, Order, LockOrder
  <1>7. RefreshLocks' /\ Loaded'
    BY <1>1, <1>3 DEF IInv, Order, RefreshLocks, Loaded, RfAt, Locked, Holding
  <1>8. ProvisionLocks'
    BY <1>2, <1>3 DEF ProvisionLocks, At, Wide, Locks, Early
  <1>9. Backups'
    BY <1>2 DEF Backups, At, Unswapped, Early
  <1>10. Deployed'
    BY <1>1, <1>11 DEF IInv, Order, Deployed, Serving, Exact
  <1> QED BY <1>4, <1>5, <1>6, <1>7, <1>8, <1>9, <1>10 DEF IInv, Order

\* The readers are recorded, and the grant written for a stack reader that serves.
LEMMA RecordKeeps ==
    ASSUME IInv, UNCHANGED rf, RecordReaders
    PROVE  IInv'
  <1>1. /\ UNCHANGED <<source, venv, marker, unit, consumers, job, held, events, lost>>
        /\ prov.pc = "record readers"
        /\ Stack \in Serving => venv # NoRuntime /\ venv.intact
        /\ grant' = IF Stack \in Serving THEN venv ELSE grant
    BY DEF RecordReaders, At
  <1>2. /\ prov' \in ProvRecords /\ prov'.pc = "stop readers"
        /\ prov'.backup = prov.backup /\ prov'.swapped = prov.swapped
        /\ prov'.activated = prov.activated /\ prov'.were = unit
    <2>1. GoTo("stop readers") \in ProvRecords /\ GoTo("stop readers").pc = "stop readers"
          /\ Remembers(GoTo("stop readers"))
      BY Goes DEF IInv, ProvPcs, Guarded
    <2>2. [GoTo("stop readers") EXCEPT !.were = unit] \in ProvRecords
      BY <2>1, ProvTyped, Reads DEF IInv
    <2>3. [GoTo("stop readers") EXCEPT !.were = unit, !.fallbacks = Serving] \in ProvRecords
      BY <2>2, ProvTyped DEF Serving
    <2>4. prov' \in ProvRecords
      BY <2>3, ProvTyped DEF RecordReaders
    <2> QED BY <2>1, <2>4 DEF RecordReaders, ProvRecords, Remembers
  <1>3. TypeOK'
    BY <1>1, <1>2 DEF IInv, TypeOK, SharedTypeOK, ProvTypeOK
  <1>4. SourceCount' /\ LockOrder' /\ RefreshLocks' /\ Loaded' /\ RuntimeNeverLost'
    BY <1>1, <1>2 DEF IInv, Order, SourceCount, LockOrder, HeldByUnits, Serving, RefreshLocks,
                      Loaded, RfAt, RuntimeNeverLost
  <1>5. ProvisionLocks' /\ Backups'
    BY <1>1, <1>2 DEF IInv, Order, ProvisionLocks, Backups, At, Unswapped, Early
  <1>6. Deployed'
    <2>1. ~events.edited => Stack \notin Serving
      BY <1>1 DEF IInv, Order, Deployed, Exact, Early
    <2> QED BY <1>1, <1>2, <2>1 DEF IInv, Order, Deployed, Serving, Early
  <1>7. Recorded'
    BY <1>1, <1>2, UnitAssumption DEF IInv, Order, Recorded, Backups, Unswapped, Early, Serving
  <1> QED BY <1>3, <1>4, <1>5, <1>6, <1>7 DEF IInv, Order

\* A phase that touches the runtime does so alone.
Swaps ==
    /\ held["provisioner"]["runtime"] = "exclusive"
    /\ UNCHANGED <<source, grant, unit, consumers, job, held, events, lost, rf>>
    /\ marker' \in SUBSET Readers
    /\ venv' \in Runtimes \cup {NoRuntime} /\ prov' \in ProvRecords
    /\ prov'.pc \notin Early \cup {"restart readers", "activate"}

\* Then the runtime's whereabouts are left to show.
LEMMA SwapsKeep ==
    ASSUME IInv, Swaps
    PROVE  /\ TypeOK' /\ SourceCount' /\ LockOrder' /\ RefreshLocks' /\ ProvisionLocks'
           /\ Deployed' /\ Loaded'
  <1>1. TypeOK'
    BY DEF IInv, TypeOK, SharedTypeOK, ProvTypeOK, Swaps
  <1>2. SourceCount' /\ LockOrder' /\ RefreshLocks'
    BY DEF IInv, Order, SourceCount, LockOrder, HeldByUnits, Serving, RefreshLocks, Swaps
  <1>3. ProvisionLocks'
    BY DEF ProvisionLocks, At, Swaps, Early
  <1>4. Loaded'
    BY Alone DEF Swaps, Loaded, RfAt, Locked
  <1>5. Deployed'
    <2>1. Stack \notin Serving'
      BY Alone DEF Swaps, Serving
    <2> QED BY <2>1 DEF IInv, Order, Deployed, Swaps
  <1> QED BY <1>1, <1>2, <1>3, <1>4, <1>5

\* The runtime moves out, and the new one in.
LEMMA MoveKeeps ==
    ASSUME IInv, UNCHANGED rf, MoveOut \/ MoveIn \/ MarkSwapped
    PROVE  IInv'
  <1>1. CASE MoveOut
    <2>1. /\ prov' \in ProvRecords /\ prov'.pc = "move in" /\ prov'.backup = venv
          /\ prov'.were = prov.were /\ prov'.readsStopped = prov.readsStopped
          /\ prov'.swapped = prov.swapped /\ prov'.activated = prov.activated
      <3>1. GoTo("move in") \in ProvRecords /\ GoTo("move in").pc = "move in"
            /\ Remembers(GoTo("move in"))
        BY Goes DEF IInv, ProvPcs, Guarded
      <3>2. prov' \in ProvRecords
        BY <1>1, <3>1, ProvTyped DEF IInv, TypeOK, SharedTypeOK, MoveOut
      <3> QED BY <1>1, <3>1, <3>2 DEF MoveOut, ProvRecords, Remembers
    <2>2. /\ prov.pc = "move out" /\ venv' = NoRuntime /\ lost' = lost
          /\ UNCHANGED <<source, grant, marker, unit, consumers, job, held, events>>
      BY <1>1 DEF MoveOut, At
    <2>3. held["provisioner"]["runtime"] = "exclusive"
      BY <2>2 DEF IInv, Order, ProvisionLocks
    <2>4. Swaps
      BY <2>1, <2>2, <2>3 DEF IInv, TypeOK, SharedTypeOK, Swaps, Early
    <2>5. prov.backup = NoRuntime /\ ~prov.swapped /\ ~prov.activated
      BY <2>2 DEF IInv, Order, Backups, Unswapped
    <2>6. Backups'
      BY <2>1, <2>2, <2>5 DEF Backups, At, Unswapped, Early
    <2>7. RuntimeNeverLost'
      BY <2>1, <2>2, <2>5 DEF IInv, Order, RuntimeNeverLost
    <2>8. Recorded'
      BY <2>1, <2>2, <2>5, NoRuntimeApart DEF IInv, Order, Recorded, Unswapped
    <2> QED BY <2>4, <2>6, <2>7, <2>8, SwapsKeep DEF IInv, Order
  <1>2. CASE MoveIn
    <2>1. prov' \in ProvRecords /\ prov'.pc = "mark swapped" /\ Remembers(prov')
      BY <1>2, Goes DEF IInv, MoveIn, ProvPcs, Guarded
    <2>2. /\ prov.pc = "move in" /\ venv' \in Runtimes /\ venv'.built = prov.seen
          /\ lost' = lost
          /\ UNCHANGED <<source, grant, marker, unit, consumers, job, held, events>>
      BY <1>2, Reads DEF IInv, MoveIn, At, Runtimes
    <2>3. held["provisioner"]["runtime"] = "exclusive"
      BY <2>2 DEF IInv, Order, ProvisionLocks
    <2>4. Swaps
      BY <2>1, <2>2, <2>3 DEF IInv, TypeOK, SharedTypeOK, Swaps, Early
    <2>5. venv' # NoRuntime /\ ~prov.swapped /\ ~prov.activated
      BY <2>2, NoRuntimeApart DEF IInv, Order, Backups, At
    <2>6. Backups' /\ RuntimeNeverLost'
      BY <2>1, <2>2, <2>5 DEF Backups, RuntimeNeverLost, Remembers, At, Unswapped, Early
    <2>7. Recorded'
      BY <2>1, <2>2 DEF IInv, Order, Recorded, Remembers, Unswapped, Early
    <2> QED BY <2>4, <2>6, <2>7, SwapsKeep DEF IInv, Order
  <1>3. CASE MarkSwapped
    <2>1. /\ prov' \in ProvRecords /\ prov'.pc = "publish" /\ prov'.backup = prov.backup
          /\ prov'.were = prov.were /\ prov'.readsStopped = prov.readsStopped
          /\ prov'.swapped /\ prov'.activated = prov.activated
      <3>1. GoTo("publish") \in ProvRecords /\ GoTo("publish").pc = "publish"
            /\ Remembers(GoTo("publish"))
        BY Goes DEF IInv, ProvPcs, Guarded
      <3>2. prov' \in ProvRecords
        BY <1>3, <3>1, ProvTyped DEF MarkSwapped
      <3> QED BY <1>3, <3>1, <3>2 DEF MarkSwapped, ProvRecords, Remembers
    <2>2. /\ prov.pc = "mark swapped" /\ venv' = venv /\ lost' = lost
          /\ UNCHANGED <<source, grant, marker, unit, consumers, job, held, events>>
      BY <1>3 DEF MarkSwapped, At, shared
    <2>3. held["provisioner"]["runtime"] = "exclusive"
      BY <2>2 DEF IInv, Order, ProvisionLocks
    <2>4. Swaps
      BY <2>1, <2>2, <2>3 DEF IInv, TypeOK, SharedTypeOK, Swaps, Early
    <2>5. venv # NoRuntime /\ ~prov.activated
      BY <2>2 DEF IInv, Order, Backups, At
    <2>6. Backups' /\ RuntimeNeverLost'
      BY <2>1, <2>2, <2>5 DEF Backups, RuntimeNeverLost, At, Unswapped, Early
    <2>7. Recorded'
      BY <2>1, <2>2 DEF IInv, Order, Recorded
    <2> QED BY <2>4, <2>6, <2>7, SwapsKeep DEF IInv, Order
  <1> QED BY <1>1, <1>2, <1>3

\* The trap puts the previous runtime back.
LEMMA PutBackKeeps ==
    ASSUME IInv, UNCHANGED rf, PutBack
    PROVE  IInv'
  <1>1. /\ prov' \in ProvRecords /\ prov'.pc = "unlock" /\ prov'.backup = NoRuntime
        /\ prov'.were = prov.were /\ prov'.readsStopped = prov.readsStopped
        /\ ~prov'.swapped /\ prov'.activated = prov.activated
    <2>1. GoTo("unlock") \in ProvRecords /\ GoTo("unlock").pc = "unlock"
          /\ Remembers(GoTo("unlock"))
      BY Goes DEF IInv, ProvPcs, CleanupPhases
    <2>2. [GoTo("unlock") EXCEPT !.backup = NoRuntime] \in ProvRecords
      BY <2>1, ProvTyped
    <2>3. prov' \in ProvRecords
      BY <2>2, ProvTyped DEF PutBack
    <2> QED BY <2>1, <2>3 DEF PutBack, ProvRecords, Remembers
  <1>2. /\ prov.pc = "put back" /\ venv' = prov.backup /\ marker' = {} /\ lost' = lost
        /\ UNCHANGED <<source, grant, unit, consumers, job, held, events>>
    BY DEF PutBack, At
  <1>3. held["provisioner"]["runtime"] = "exclusive"
    BY <1>2 DEF IInv, Order, ProvisionLocks
  <1>4. Swaps
    BY <1>1, <1>2, <1>3, Reads DEF IInv, Swaps, Early
  <1>5. prov.backup # NoRuntime /\ ~prov.activated
    BY <1>2 DEF IInv, Order, Backups, At
  <1>6. Backups' /\ RuntimeNeverLost'
    BY <1>1, <1>2, <1>5 DEF Backups, RuntimeNeverLost, At, Unswapped, Early
  <1>7. Recorded'
    BY <1>1, <1>2, <1>5 DEF IInv, Order, Recorded
  <1> QED BY <1>4, <1>6, <1>7, SwapsKeep DEF IInv, Order

\* Going to the release of the locks with everything in place.
LEMMA UnlockNext ==
    ASSUME IInv, UNCHANGED <<source, venv, grant, marker, consumers, job, held, events, lost, rf>>,
           unit' \in Units, \A r \in Readers : unit'[r] # "off" => unit[r] # "off",
           prov.pc = "rollback", prov' = GoTo("unlock")
    PROVE  IInv'
  <1>1. prov' \in ProvRecords /\ prov'.pc = "unlock" /\ Remembers(prov')
    BY Goes DEF IInv, ProvPcs, CleanupPhases
  <1>2. TypeOK'
    BY <1>1 DEF IInv, TypeOK, SharedTypeOK, ProvTypeOK, Units
  <1>3. Stands
    <2>1. Launched
      BY DEF Launched
    <2>2. events'.edited = events.edited /\ events'.count \in Nat
          /\ events'.count >= events.count
      BY Reads DEF IInv
    <2> QED BY <1>1, <2>1, <2>2 DEF Stands, Remembers, Early, Unswapped
  <1>4. ProvisionLocks' /\ Backups'
    BY <1>1 DEF IInv, Order, ProvisionLocks, Backups, Remembers, At, Unswapped, Early
  <1> QED BY <1>2, <1>3, <1>4, StandsKeeps DEF IInv, Order

\* The trap finds nothing to roll back, or a backup that goes back or is removed.
LEMMA DiscardKeeps ==
    ASSUME IInv, UNCHANGED rf, Discard
    PROVE  IInv'
  <1>1. /\ prov.pc = "rollback" /\ lost' = lost
        /\ UNCHANGED <<source, grant, marker, unit, consumers, job, held, events>>
    BY DEF Discard, At
  <1>2. GoTo("unlock") \in ProvRecords /\ GoTo("unlock").pc = "unlock"
        /\ Remembers(GoTo("unlock"))
    BY Goes DEF IInv, ProvPcs, CleanupPhases
  <1>3. CASE prov.swapped \/ prov.backup = NoRuntime
    <2>1. venv' = venv
      BY <1>3 DEF Discard, MustReturn
    <2>2. GoTo("unlock").backup = prov.backup
      BY <1>2 DEF Remembers
    <2>3. prov' = [GoTo("unlock") EXCEPT !.backup = GoTo("unlock").backup]
      BY <1>3, <2>2 DEF Discard
    <2>4. prov' = GoTo("unlock")
      <3> HIDE DEF GoTo
      <3> QED BY <1>2, <2>3 DEF ProvRecords
    <2>5. unit' \in Units
      BY <1>1, Reads DEF IInv
    <2> QED BY <1>1, <2>1, <2>4, <2>5, UnlockNext
  <1>4. CASE ~prov.swapped /\ prov.backup # NoRuntime
    <2>1. /\ prov' = [GoTo("unlock") EXCEPT !.backup = NoRuntime]
          /\ venv' = IF venv = NoRuntime THEN prov.backup ELSE venv
      BY <1>4 DEF Discard, MustReturn
    <2>2. prov' \in ProvRecords
      BY <1>2, <2>1, ProvTyped
    <2>3. /\ prov'.pc = "unlock" /\ prov'.backup = NoRuntime /\ prov'.seen = prov.seen
          /\ prov'.were = prov.were /\ prov'.readsStopped = prov.readsStopped
          /\ ~prov'.swapped /\ prov'.activated = prov.activated
      BY <1>4, <1>2, <2>1 DEF ProvRecords, Remembers
    <2>4. held["provisioner"]["runtime"] = "exclusive"
      BY <1>1, <1>4 DEF IInv, Order, ProvisionLocks, At
    <2>5. Swaps
      BY <1>1, <2>1, <2>2, <2>3, <2>4, Reads DEF IInv, TypeOK, SharedTypeOK, Swaps, Early
    <2>6. Backups' /\ RuntimeNeverLost'
      BY <1>4, <2>1, <2>3 DEF IInv, Order, Backups, RuntimeNeverLost, At, Unswapped, Early
    <2>7. Recorded'
      BY <1>1, <1>4, <2>1, <2>3 DEF IInv, Order, Recorded, Backups, Unswapped, Early
    <2> QED BY <2>5, <2>6, <2>7, SwapsKeep DEF IInv, Order
  <1> QED BY <1>3, <1>4

\* The trap stops the fallback units and takes the new runtime away if it is alone.
LEMMA RollBackKeeps ==
    ASSUME IInv, UNCHANGED rf, RollBack
    PROVE  IInv'
  <1>1. /\ prov.pc = "rollback" /\ lost' = lost /\ unit' = FallbackStopped
        /\ prov.swapped /\ ~prov.activated /\ prov.backup # NoRuntime
        /\ UNCHANGED <<source, grant, marker, consumers, job, events>>
    BY DEF RollBack, At, MustRollBack
  <1>2. unit' \in Units /\ \A r \in Readers : unit'[r] # "off" => unit[r] # "off"
    BY <1>1, UnitsTyped, StoppedLaunches DEF IInv, FallbackStopped, StoppedFamily
  <1>3. CASE prov' = GoTo("unlock") /\ UNCHANGED <<held, venv>>
    BY <1>1, <1>2, <1>3, UnlockNext
  <1>4. CASE /\ \A r \in Readers : unit'[r] = "off"
             /\ consumers = {} /\ ~job /\ held["refresh"]["runtime"] = "none"
             /\ held' = Take("runtime", "exclusive")
             /\ venv' = NoRuntime /\ prov' = GoTo("put back")
    <2>1. prov' \in ProvRecords /\ prov'.pc = "put back" /\ Remembers(prov')
      BY <1>4, Goes DEF IInv, ProvPcs, CleanupPhases
    <2>2. "exclusive" \in {"none", "shared", "exclusive"} /\ "runtime" \in Locks
      BY DEF Locks
    <2>3. /\ held' \in [Controllers -> Holds] /\ held'["refresh"] = held["refresh"]
          /\ \A l \in Locks : held'["provisioner"][l] =
                 IF l = "runtime" THEN "exclusive" ELSE held["provisioner"][l]
      <3>1. /\ Take("runtime", "exclusive") \in [Controllers -> Holds]
            /\ Take("runtime", "exclusive")["refresh"] = held["refresh"]
            /\ \A l \in Locks : Take("runtime", "exclusive")["provisioner"][l] =
                   IF l = "runtime" THEN "exclusive" ELSE held["provisioner"][l]
        BY <2>2, HeldTyped DEF IInv
      <3> QED BY <1>4, <3>1
    <2>4. TypeOK'
      BY <1>1, <1>2, <1>4, <2>1, <2>3 DEF IInv, TypeOK, SharedTypeOK, ProvTypeOK, Holds, Units
    <2>5. Launched /\ Shares
      BY <1>1, <1>2, <2>3 DEF Launched, Shares
    <2>6. ~HeldByUnits("runtime")'
      BY <1>1, <1>4 DEF HeldByUnits, Serving
    <2>7. LockOrder'
      BY <1>4, <2>3, <2>5, <2>6, LocksKept
    <2>8. SourceCount' /\ RefreshLocks' /\ Loaded'
      BY <1>1, <2>3 DEF IInv, Order, SourceCount, RefreshLocks, Loaded, RfAt
    <2>9. ProvisionLocks'
      BY <2>1, <2>2, <2>3 DEF ProvisionLocks, At, Early
    <2>10. Backups' /\ RuntimeNeverLost'
      BY <1>1, <2>1 DEF Backups, RuntimeNeverLost, Remembers, At, Unswapped, Early
    <2>11. Deployed'
      BY <1>1, <1>4, <2>1, UnitAssumption DEF IInv, Order, Deployed, Serving, Early
    <2>12. Recorded'
      BY <1>1, <2>1 DEF IInv, Order, Recorded, Remembers
    <2> QED BY <2>4, <2>7, <2>8, <2>9, <2>10, <2>11, <2>12 DEF IInv, Order
  <1> QED BY <1>3, <1>4 DEF RollBack

\* The marker is published, and the runtime lock let go.
LEMMA PublishKeeps ==
    ASSUME IInv, UNCHANGED rf, PublishMarker
    PROVE  IInv'
  <1>1. /\ prov.pc = "publish" /\ prov' = GoTo("activate") /\ held' = Release({"runtime"})
        /\ UNCHANGED <<source, venv, grant, unit, consumers, job, events, lost>>
        /\ marker' \in {prov.fallbacks, marker}
    BY DEF PublishMarker, At
  <1>2. prov' \in ProvRecords /\ prov'.pc = "activate" /\ Remembers(prov')
    BY <1>1, Goes DEF IInv, ProvPcs, Guarded
  <1>3. /\ held' \in [Controllers -> Holds] /\ held'["refresh"] = held["refresh"]
        /\ \A l \in Locks : held'["provisioner"][l] \in {"none", held["provisioner"][l]}
    BY <1>1, HeldTyped DEF IInv, Locks
  <1>4. TypeOK'
    BY <1>1, <1>2, <1>3, Reads DEF IInv, TypeOK, SharedTypeOK, ProvTypeOK, Holds
  <1>5. LockOrder'
    <2>1. Launched /\ Shares
      BY <1>1, <1>3 DEF Launched, Shares
    <2>2. \A l \in Locks : held'["provisioner"][l] = "exclusive" =>
             held["provisioner"][l] = "exclusive"
      BY <1>3
    <2> QED BY <2>1, <2>2, LocksKept
  <1>6. rf.pc \notin Locked
    BY <1>1, Alone DEF IInv, Order, ProvisionLocks
  <1>7. SourceCount' /\ RefreshLocks' /\ Loaded'
    BY <1>1, <1>3, <1>6 DEF IInv, Order, SourceCount, RefreshLocks, Loaded, RfAt, Locked, Holding
  <1>8. ProvisionLocks'
    <2>1. held'["provisioner"]["runtime"] = "none"
      BY <1>1, HeldTyped DEF IInv, Locks
    <2> QED BY <1>2, <2>1 DEF ProvisionLocks, At, Early
  <1>9. Backups' /\ RuntimeNeverLost' /\ Recorded'
    BY <1>1, <1>2 DEF IInv, Order, Backups, RuntimeNeverLost, Recorded, Remembers, At,
                      Unswapped, Early
  <1>10. Deployed'
    BY <1>1, <1>2 DEF IInv, Order, Deployed, Serving, Early
  <1> QED BY <1>4, <1>5, <1>7, <1>8, <1>9, <1>10 DEF IInv, Order

\* The provisioner lets locks go and forgets or preserves its backup.
LEMMA ReleasesKeep ==
    ASSUME IInv, UNCHANGED rf, Retire \/ Unlock \/ Kill
    PROVE  IInv'
  <1>1. /\ UNCHANGED <<source, venv, marker, unit, consumers, job>>
        /\ grant' \in {grant, NoRuntime}
    BY DEF Retire, Unlock, Kill
  <1>2. /\ events' \in EventRecords /\ events'.edited = events.edited
        /\ events'.count \in Nat /\ events'.count >= events.count
    <2>1. CASE events' = events
      BY <2>1, Reads DEF IInv, TypeOK, SharedTypeOK
    <2>2. CASE Event("kill")
      BY <2>2, EventTyped, Reads DEF IInv
    <2> QED BY <2>1, <2>2 DEF Retire, Unlock, Kill
  <1>3. PICK ls \in SUBSET Locks :
           /\ held' = Release(ls)
           /\ Unlock => ls = Locks
    <2>1. {"source", "operation"} \in SUBSET Locks /\ Locks \in SUBSET Locks
      BY DEF Locks
    <2>2. CASE Unlock \/ Kill
      BY <2>1, <2>2 DEF Unlock, Kill
    <2>3. CASE Retire /\ ~Unlock
      BY <2>1, <2>3 DEF Retire
    <2> QED BY <2>2, <2>3
  <1>4. /\ held' \in [Controllers -> Holds] /\ held'["refresh"] = held["refresh"]
        /\ \A l \in Locks : held'["provisioner"][l] \in {"none", held["provisioner"][l]}
        /\ Unlock => \A l \in Locks : held'["provisioner"][l] = "none"
    BY <1>3, HeldTyped DEF IInv
  <1>5. /\ prov' \in ProvRecords /\ prov'.backup = NoRuntime
        /\ \/ /\ prov.pc = "retire" /\ prov'.pc = "restore consumers"
              /\ prov'.swapped = prov.swapped /\ ~prov'.readsStopped
           \/ /\ Unlock /\ prov.pc = "unlock" /\ prov'.pc = "restart readers"
              /\ prov'.swapped = prov.swapped /\ prov'.activated = prov.activated
              /\ prov'.were = prov.were /\ prov'.readsStopped = prov.readsStopped
              /\ prov'.seen = prov.seen
           \/ prov'.pc = "idle" /\ ~prov'.swapped /\ ~prov'.activated /\ ~prov'.readsStopped
    <2>1. CASE Retire
      <3>1. LET p == GoTo("restore consumers")
            IN  p \in ProvRecords /\ p.pc = "restore consumers" /\ Remembers(p)
        BY Goes DEF IInv, ProvPcs, Guarded
      <3>2. [GoTo("restore consumers") EXCEPT !.backup = NoRuntime] \in ProvRecords
        BY <3>1, ProvTyped
      <3>3. prov' \in ProvRecords
        BY <2>1, <3>2, ProvTyped DEF Retire
      <3> QED BY <2>1, <3>1, <3>3 DEF Retire, ProvRecords, Remembers, At
    <2>2. CASE Unlock
      <3>1. LET p == GoTo("restart readers")
            IN  p \in ProvRecords /\ p.pc = "restart readers" /\ Remembers(p)
        BY Goes DEF IInv, ProvPcs, CleanupPhases
      <3>2. prov' \in ProvRecords
        BY <2>2, <3>1, ProvTyped DEF Unlock
      <3> QED BY <2>2, <3>1, <3>2 DEF Unlock, ProvRecords, Remembers, At
    <2>3. CASE Kill
      <3>1. prov' \in ProvRecords
        BY <2>3, IdleTyped, ProvTyped DEF Kill
      <3> QED BY <2>3, <3>1 DEF Kill, Idle
    <2> QED BY <2>1, <2>2, <2>3
  <1>6. lost' \subseteq Runtimes /\ RuntimeNeverLost'
    <2>1. CASE Retire
      BY <1>1, <2>1 DEF IInv, TypeOK, ProvTypeOK, Order, RuntimeNeverLost, Backups, At, Retire
    <2>2. CASE Unlock \/ Kill
      <3>1. lost' = lost \cup ({prov.backup} \ {NoRuntime})
        BY <2>2 DEF Unlock, Kill
      <3>2. lost' \subseteq Runtimes
        BY <3>1, Reads DEF IInv, TypeOK, ProvTypeOK
      <3> QED BY <1>1, <3>1, <3>2 DEF IInv, Order, RuntimeNeverLost
    <2> QED BY <2>1, <2>2
  <1>7. TypeOK'
    BY <1>1, <1>2, <1>4, <1>5, <1>6 DEF IInv, TypeOK, SharedTypeOK, ProvTypeOK, Holds
  <1>8. SourceCount' /\ RefreshLocks' /\ Loaded'
    BY <1>1, <1>2, <1>4, Reads DEF IInv, Order, SourceCount, RefreshLocks, Loaded, RfAt
  <1>9. LockOrder'
    <2>1. Launched /\ Shares
      BY <1>1, <1>4 DEF Launched, Shares
    <2>2. \A l \in Locks : held'["provisioner"][l] = "exclusive" =>
             held["provisioner"][l] = "exclusive"
      BY <1>4
    <2> QED BY <2>1, <2>2, LocksKept
  <1>10. ProvisionLocks'
    BY <1>4, <1>5 DEF ProvisionLocks, At, Early
  <1>11. Backups'
    BY <1>5 DEF IInv, Order, Backups, At, Unswapped, Early
  <1>12. Deployed'
    BY <1>1, <1>2, <1>5 DEF IInv, Order, Deployed, Serving, Early
  <1>13. Recorded'
    <2>1. CASE ~prov'.readsStopped
      BY <2>1 DEF Recorded
    <2>2. CASE Unlock /\ prov.pc = "unlock"
      <3>1. grant' = grant
        BY <2>2 DEF Unlock
      <3>2. ~prov.swapped /\ prov.backup # NoRuntime => venv = NoRuntime \/ venv.built = prov.seen
        BY <2>2 DEF IInv, Order, Backups
      <3>3. \/ ~prov'.readsStopped
            \/ /\ prov'.swapped = prov.swapped /\ prov'.backup = NoRuntime
               /\ prov'.were = prov.were /\ prov'.readsStopped = prov.readsStopped
               /\ prov'.seen = prov.seen /\ prov'.pc \notin Unswapped
        BY <1>5 DEF Unswapped, Early
      <3> QED BY <1>1, <3>1, <3>2, <3>3, NoRuntimeApart DEF IInv, Order, Recorded
    <2> QED BY <1>5, <2>1, <2>2
  <1> QED BY <1>6, <1>7, <1>8, <1>9, <1>10, <1>11, <1>12, <1>13 DEF IInv, Order

---------------------------------------------------------------------------
(* The theorems. *)

\* The steps of the controller, in one.
LEMMA ControllerKeeps ==
    ASSUME IInv, Refresh \/ RefreshFails \/ RefreshKilled
    PROVE  IInv'
  <1>1. CASE RequestRepair
    <2>1. Begin("repair") /\ rf' = [RfIdle EXCEPT !.pc = "repairing"]
      BY <1>1 DEF RequestRepair
    <2>2. rf' \in RfRecords /\ rf'.pc = "repairing"
      <3>1. RfIdle \in RfRecords
        BY RfTyped, Reads DEF IInv
      <3> QED BY <2>1, <3>1, RfTyped DEF RfIdle, RfPcs, Working
    <2> QED BY <2>1, <2>2, BeginKeeps
  <1>2. CASE \/ RefreshReady \/ RefreshRefused \/ RepairReturned \/ Decide \/ Commit
             \/ CanaryFailed
    BY <1>2, RefreshMoves, RefreshKeeps
  <1>3. CASE LockOperation \/ LockSource \/ LockRuntime
    BY <1>3, RefreshTakes, RefreshKeeps
  <1>5. CASE NothingToDo \/ Complete \/ RefreshKilled
    BY <1>5, RefreshHolds, RefreshKeeps
  <1>4. CASE \/ RestoreFallback \/ FillMissing \/ StartBootstrap \/ Bridge \/ HandOff
             \/ Recover \/ ReFall \/ RefreshFails
    BY <1>4, RefreshServes, RefreshKeeps
  <1> QED BY <1>1, <1>2, <1>3, <1>4, <1>5 DEF Refresh

\* The steps of the provisioner, in one.
LEMMA ProvisionerKeeps ==
    ASSUME IInv, Provisioner, UNCHANGED rf
    PROVE  IInv'
  <1>1. CASE Stage \/ CheckMarker \/ RecordConsumers \/ Die \/ Fail
    BY <1>1, ChecksKeep
  <1>2. CASE StopConsumers \/ RestoreConsumers \/ RestartConsumers
    BY <1>2, ConsumersKeep
  <1>3. CASE StopReaders \/ Activate \/ RestartReaders
    BY <1>3, ReadersKeep
  <1>4. CASE ExcludeOperation \/ ExcludeRuntime
    BY <1>4, ExcludesKeep
  <1>5. CASE RecordReaders
    BY <1>5, RecordKeeps
  <1>6. CASE MoveOut \/ MoveIn \/ MarkSwapped
    BY <1>6, MoveKeeps
  <1>7. CASE PutBack \/ Discard \/ RollBack
    BY <1>7, PutBackKeeps, DiscardKeeps, RollBackKeeps
  <1>8. CASE PublishMarker
    BY <1>8, PublishKeeps
  <1>9. CASE Retire \/ Unlock \/ Kill
    BY <1>9, ReleasesKeep
  <1>10. CASE \E mode \in ByHand : Begin(mode)
    BY <1>10, BeginKeeps, RefreshAssumption DEF IInv, TypeOK
  <1> QED BY <1>1, <1>2, <1>3, <1>4, <1>5, <1>6, <1>7, <1>8, <1>9, <1>10 DEF Provisioner, Provision

\* The inductive invariant: every step of the controller, of the provisioner and of
\* the outside world keeps the types and the order.
THEOREM Inductive == Spec => []IInv
  <1>1. Init => IInv
    <2> SUFFICES ASSUME Init PROVE IInv
      OBVIOUS
    <2>1. TypeOK
      <3>1. SharedTypeOK
        <4>1. source \in Digests /\ venv \in Runtimes
          BY UnitAssumption DEF Init, SharedInit, Digests, Runtimes
        <4>2. unit \in [Readers -> Families \cup {"off"}] /\ consumers \subseteq Consumers
          BY UnitAssumption DEF Init, SharedInit, Families
        <4>3. events \in EventRecords
          BY UnitAssumption DEF Init, SharedInit, EventRecords
        <4> QED BY <4>1, <4>2, <4>3 DEF Init, SharedInit, SharedTypeOK
      <3>2. rf \in RfRecords
        BY DEF Init, RfIdle, RfRecords
      <3> QED BY <3>1, <3>2, IdleTyped DEF Init, ProvInit, TypeOK, ProvTypeOK
    <2>2. /\ prov = Idle /\ lost = {} /\ rf.pc = "idle"
          /\ venv = [built |-> 0, intact |-> TRUE] /\ events.count = 0
          /\ \A c \in Controllers, l \in Locks : held[c][l] = "none"
      BY DEF Init, SharedInit, ProvInit, RfIdle
    <2>3. SourceCount
      BY DEF Init, SharedInit, SourceCount
    <2>4. LockOrder /\ RefreshLocks /\ Loaded
      BY <2>2 DEF LockOrder, RefreshLocks, Loaded, RfAt, Locked, Holding, Controllers
    <2>5. ProvisionLocks /\ Backups /\ Recorded
      BY <2>2 DEF ProvisionLocks, Backups, Recorded, Idle, At, Unswapped, Early
    <2>6. RuntimeNeverLost
      BY <2>2 DEF RuntimeNeverLost, NoRuntime
    <2>7. Deployed
      <3>1. Stack \in Serving => ~Drifted
        BY DEF Init, SharedInit, Serving
      <3> QED BY <2>2, <3>1, UnitAssumption DEF Deployed, Init, SharedInit, Idle, Early
    <2> QED BY <2>1, <2>3, <2>4, <2>5, <2>6, <2>7 DEF IInv, Order
  <1>2. IInv /\ [Next]_vars => IInv'
    <2> SUFFICES ASSUME IInv, [Next]_vars PROVE IInv'
      OBVIOUS
    <2>1. CASE Provisioner /\ UNCHANGED rf
      BY <2>1, ProvisionerKeeps
    <2>2. CASE Refresh \/ RefreshFails \/ RefreshKilled
      BY <2>2, ControllerKeeps
    <2>3. CASE Outside /\ UNCHANGED <<provVars, rf>>
      BY <2>3, ComingsKeep, SourceMoves, DamageKeeps DEF Outside
    <2>4. CASE UNCHANGED vars
      <3>1. RefreshKept
        BY <2>4, Reads DEF IInv, Order, RefreshKept, TypeOK, SharedTypeOK, ProvTypeOK, Serves, Launched,
                    Shares, RefreshLocks, Loaded, RfAt, vars, shared, provVars
      <3> QED BY <3>1, RefreshKeeps
    <2> QED BY <2>1, <2>2, <2>3, <2>4 DEF Next
  <1> QED BY <1>1, <1>2, PTL DEF Spec

\* Every variable keeps its type.
THEOREM TypeCorrect == Spec => []TypeOK
  <1>1. IInv => TypeOK
    BY DEF IInv
  <1> QED BY <1>1, Inductive, PTL

\* Killed or not, some complete runtime is always on the disk.
THEOREM RuntimeKept == Spec => []RuntimeNeverLost
  <1>1. IInv => RuntimeNeverLost
    BY DEF IInv, Order
  <1> QED BY <1>1, Inductive, PTL

\* The stack reader serves only from the deployed package's runtime.
THEOREM ReaderIsCurrent == Spec => []StackReaderCurrent
  <1>1. IInv => StackReaderCurrent
    BY DEF IInv, Order, Deployed, StackReaderCurrent
  <1> QED BY <1>1, Inductive, PTL

\* Only the swap and the rollback put another runtime in place.
LEMMA WhoSwaps ==
    ASSUME IInv, [Next]_vars, venv'.built # venv.built
    PROVE  UNCHANGED <<rf, job, consumers>> /\ (MoveOut \/ MoveIn \/ RollBack \/ PutBack \/ Discard)
  <1>1. CASE Refresh \/ RefreshFails \/ RefreshKilled
    BY <1>1 DEF Refresh, RefreshFails, RefreshKilled, RefreshReady, RequestRepair, RefreshRefused,
                RepairReturned, LockOperation, LockSource, LockRuntime, TakeShared, NothingToDo, Decide, RestoreFallback, FillMissing,
                StartBootstrap, Bridge, HandOff, Commit, Complete, CanaryFailed, Recover, ReFall,
                Begin, shared
  <1>2. CASE Outside
    <2>1. CASE DamageRuntime
      <3>1. venv \in Runtimes
        BY <2>1 DEF IInv, TypeOK, SharedTypeOK, DamageRuntime
      <3> QED BY <2>1, <3>1 DEF DamageRuntime, Runtimes
    <2> QED BY <1>2, <2>1 DEF Outside, Sync, EditSource, AdmissionLapses, StartJob, EndJob,
                              StartReader, StopReader, StartConsumer
  <1>3. CASE Provisioner /\ UNCHANGED rf
    <2>1. ~(Stage \/ CheckMarker \/ RecordConsumers \/ StopConsumers \/ ExcludeOperation
            \/ RecordReaders \/ StopReaders \/ ExcludeRuntime \/ MarkSwapped)
      BY DEF Stage, CheckMarker, RecordConsumers, StopConsumers, ExcludeOperation, RecordReaders,
             StopReaders, ExcludeRuntime, MarkSwapped, shared
    <2>2. ~(PublishMarker \/ Activate \/ Retire \/ RestoreConsumers \/ Die \/ Unlock
            \/ RestartReaders \/ RestartConsumers \/ Fail \/ Kill)
      BY DEF PublishMarker, Activate, Retire, RestoreConsumers, Die, Unlock, RestartReaders,
             RestartConsumers, Fail, Kill, shared
    <2>3. ~\E mode \in ByHand : Begin(mode)
      BY DEF Begin
    <2>4. MoveOut \/ MoveIn \/ RollBack \/ PutBack \/ Discard
      BY <1>3, <2>1, <2>2, <2>3 DEF Provisioner, Provision
    <2> QED BY <1>3, <2>4 DEF MoveOut, MoveIn, RollBack, PutBack, Discard
  <1> QED BY <1>1, <1>2, <1>3 DEF Next, vars, shared

\* The runtime is swapped only while nothing runs from it.
THEOREM SwapsAlone == Spec => SwapExcludesUsers
  <1>1. IInv /\ [Next]_vars =>
           [venv'.built # venv.built =>
               /\ \A r \in Readers : unit'[r] = "off"
               /\ consumers = {} /\ ~job /\ held["refresh"]["runtime"] = "none"]_vars
    <2> SUFFICES ASSUME IInv, [Next]_vars, venv'.built # venv.built
                 PROVE  /\ \A r \in Readers : unit'[r] = "off"
                        /\ consumers = {} /\ ~job /\ held["refresh"]["runtime"] = "none"
      OBVIOUS
    <2>1. MoveOut \/ MoveIn \/ RollBack \/ PutBack \/ Discard
      BY WhoSwaps
    <2>2. CASE RollBack
      <3>1. \/ /\ \A r \in Readers : unit'[r] = "off"
               /\ consumers = {} /\ ~job /\ held["refresh"]["runtime"] = "none"
            \/ venv' = venv
        BY <2>2 DEF RollBack
      <3> QED BY <3>1
    <2>3. CASE ~RollBack
      <3>1. held["provisioner"]["runtime"] = "exclusive"
        <4>1. CASE MoveOut \/ MoveIn \/ PutBack
          BY <4>1 DEF IInv, Order, ProvisionLocks, MoveOut, MoveIn, PutBack, At
        <4>2. CASE Discard
          <5>1. At("rollback") /\ prov.backup # NoRuntime /\ ~prov.swapped
            BY <4>2 DEF Discard, MustReturn
          <5> QED BY <5>1 DEF IInv, Order, ProvisionLocks
        <4> QED BY <2>1, <2>3, <4>1, <4>2
      <3>2. unit' = unit
        BY <2>1, <2>3 DEF MoveOut, MoveIn, PutBack, Discard
      <3> QED BY <3>1, <3>2, Alone DEF Serving
    <2> QED BY <2>2, <2>3
  <1> QED BY <1>1, Inductive, PTL DEF Spec, SwapExcludesUsers

\* Without a kill, the readers' restart is what ends its phase.
LEMMA WhoRestarts ==
    ASSUME IInv, [Next]_vars, At("restart readers"), ~At("restart readers")', events' = events
    PROVE  RestartReaders
  <1>1. CASE Refresh \/ RefreshFails \/ RefreshKilled
    BY <1>1 DEF Refresh, RefreshFails, RefreshKilled, RefreshReady, RequestRepair, RefreshRefused,
                RepairReturned, LockOperation, LockSource, LockRuntime, TakeShared, NothingToDo, Decide, RestoreFallback, FillMissing,
                StartBootstrap, Bridge, HandOff, Commit, Complete, CanaryFailed, Recover, ReFall,
                Begin, At, provVars
  <1>2. CASE Provisioner
    <2>1. ~Kill /\ ~Fail
      BY EventShows DEF IInv, Kill, Fail
    <2>2. ~(Stage \/ CheckMarker \/ RecordConsumers \/ StopConsumers \/ ExcludeOperation
            \/ RecordReaders \/ StopReaders \/ ExcludeRuntime \/ MoveOut \/ MoveIn \/ MarkSwapped)
      BY DEF Stage, CheckMarker, RecordConsumers, StopConsumers, ExcludeOperation, RecordReaders,
             StopReaders, ExcludeRuntime, MoveOut, MoveIn, MarkSwapped, At
    <2>3. ~(PublishMarker \/ Activate \/ Retire \/ RestoreConsumers \/ Die \/ RollBack \/ PutBack
            \/ Discard \/ Unlock \/ RestartConsumers \/ \E mode \in ByHand : Begin(mode))
      BY DEF PublishMarker, Activate, Retire, RestoreConsumers, Die, Blocked, RollBack, PutBack,
             Discard, Unlock, RestartConsumers, Begin, At
    <2> QED BY <1>2, <2>1, <2>2, <2>3 DEF Provisioner, Provision
  <1>3. CASE UNCHANGED provVars
    BY <1>3 DEF At, provVars
  <1> QED BY <1>1, <1>2, <1>3 DEF Next, vars

\* A failed repair brings back the readers it found on a bootstrap unit, and on a
\* production unit if the admission on record is good, where the runtime in place is
\* the previous one or was built from what is deployed.
THEOREM RepairRestores == Spec => FailedRepairRestores
  <1>1. IInv /\ [Next]_vars =>
           [At("restart readers") /\ ~At("restart readers")' /\ events' = events
            /\ prov.readsStopped /\ ~prov.swapped /\ venv.intact
            /\ (venv.built # prov.seen \/ venv.built = source)
            => \A r \in Readers :
                  \/ prov.were[r] = "bootstrap"
                  \/ prov.were[r] = "production" /\ ~events.lapsed
                  => unit'[r] # "off"]_vars
    <2> SUFFICES ASSUME IInv, [Next]_vars, At("restart readers"), ~At("restart readers")',
                        events' = events, prov.readsStopped, ~prov.swapped, venv.intact,
                        venv.built # prov.seen \/ venv.built = source, NEW r \in Readers,
                        \/ prov.were[r] = "bootstrap"
                        \/ prov.were[r] = "production" /\ ~events.lapsed
                 PROVE  unit'[r] # "off"
      OBVIOUS
    <2>1. unit' = [q \in Readers |-> IF prov.were[q] = "off" THEN unit[q]
                                     ELSE Started({q}, prov.were[q])[q]]
      <3>1. RestartReaders
        BY WhoRestarts
      <3>2. ~prov.activated
        BY DEF IInv, Order, Backups
      <3> QED BY <3>1, <3>2 DEF RestartReaders
    <2>2. unit'[r] = Started({r}, prov.were[r])[r]
      BY <2>1
    <2>3. \A l \in Locks : Open(l)
      BY DEF IInv, Order, ProvisionLocks, LockOrder, Open, Controllers
    <2>4. venv # NoRuntime
      BY NoRuntimeApart
    <2>5. r = Stack => ReadVerified
      <3>1. r = Stack => grant = venv \/ venv.built = prov.seen
        BY DEF IInv, Order, Recorded, Backups, At
      <3>2. venv.built = prov.seen => Exact
        BY <2>4 DEF Exact
      <3> QED BY <2>3, <2>4, <3>1, <3>2 DEF ReadVerified, Verifiable, Locks
    <2>6. CanStart(r, prov.were[r])
      BY <2>3, <2>4, <2>5 DEF CanStart, Locks
    <2> QED BY <2>2, <2>6 DEF Started
  <1> QED BY <1>1, Inductive, PTL DEF Spec, FailedRepairRestores

\* No step of an admission run but the handoff takes a fallback unit down.
THEOREM OnlyHandoffDisplaces == Spec => HandoffDisplaces
  <1>1. IInv /\ [Next]_vars =>
           [rf.pc \in Working \ {"handoff", "repairing"} /\ rf'.pc # rf.pc =>
               \A r \in marker : unit[r] = "fallback" => unit'[r] = "fallback"]_vars
    <2> SUFFICES ASSUME IInv, [Next]_vars, rf.pc \in Working \ {"handoff", "repairing"},
                        rf'.pc # rf.pc, NEW r \in marker, unit[r] = "fallback"
                 PROVE  unit'[r] = "fallback"
      OBVIOUS
    <2>1. r \in Readers
      BY DEF IInv, TypeOK, SharedTypeOK
    <2>2. CASE RestoreFallback
      BY <2>1, <2>2 DEF RestoreFallback, Started
    <2>3. CASE FillMissing
      <3>1. r \in rf.loaded
        BY <2>3 DEF IInv, Order, Loaded, FillMissing, RfAt, Locked
      <3> QED BY <2>1, <2>3, <3>1 DEF FillMissing, Started
    <2>4. CASE StartBootstrap
      BY <2>4 DEF IInv, Order, Loaded, StartBootstrap, RfAt, Locked
    <2>5. CASE Bridge
      BY <2>1, <2>5 DEF Bridge, StoppedFamily, Stopped
    <2>6. ~(HandOff \/ Recover \/ ReFall \/ RequestRepair)
      BY DEF HandOff, Recover, ReFall, RequestRepair, RfAt, Working
    <2>7. CASE UNCHANGED unit
      BY <2>7
    <2>8. CASE Refresh \/ RefreshFails \/ RefreshKilled
      BY <2>2, <2>3, <2>4, <2>5, <2>6, <2>7, <2>8
         DEF Refresh, RefreshFails, RefreshKilled, RefreshReady, RefreshRefused, RepairReturned,
             LockOperation, LockSource, LockRuntime, TakeShared, NothingToDo, Decide, Commit,
             Complete, CanaryFailed, shared
    <2>9. CASE UNCHANGED rf
      BY <2>9
    <2> QED BY <2>8, <2>9 DEF Next, vars
  <1> QED BY <1>1, Inductive, PTL DEF Spec, HandoffDisplaces

---------------------------------------------------------------------------
(* What kills and lapses alone can do to the marker. *)

\* Only the commit takes the controller to its end.
LEMMA WhoCompletes ==
    ASSUME IInv, Refresh \/ RefreshFails \/ RefreshKilled, RfAt("complete")'
    PROVE  Commit
  <1>1. ~(RefreshReady \/ RefreshRefused \/ RequestRepair \/ NothingToDo \/ Complete
          \/ ReFall \/ RefreshKilled)
    <2>1. rf'.pc = "complete" /\ RfIdle.pc = "idle"
      BY DEF RfAt, RfIdle
    <2>2. ~(NothingToDo \/ Complete \/ ReFall \/ RefreshKilled)
      BY <2>1 DEF NothingToDo, Complete, ReFall, RefreshKilled
    <2>3. \A x \in RfPcs \ {"complete"} : rf' # [RfIdle EXCEPT !.pc = x]
      BY <2>1 DEF RfIdle
    <2>4. ~(RefreshReady \/ RefreshRefused \/ RequestRepair)
      BY <2>3 DEF RefreshReady, RefreshRefused, RequestRepair, RfPcs, Working
    <2> QED BY <2>2, <2>4
  <1>2. \A x \in RfPcs \ {"complete"} : rf' # RfGoTo(x)
    BY Goes DEF IInv, RfAt
  <1>3. ~(RepairReturned \/ Decide \/ RestoreFallback \/ CanaryFailed \/ RefreshFails)
    BY <1>2 DEF RepairReturned, Decide, RestoreFallback, CanaryFailed, RefreshFails, RfPcs, Working
  <1>4. ~(LockOperation \/ LockSource \/ Recover)
    BY <1>2 DEF LockOperation, LockSource, Recover, RfPcs, Working
  <1>5. ~(FillMissing \/ StartBootstrap \/ Bridge)
    <2>1. \A x \in {"bridge", "recover", "handoff"}, b \in BOOLEAN :
             rf' # [RfGoTo(x) EXCEPT !.bootstrap = b]
      BY GoesOn DEF IInv, RfAt, RfPcs, Working
    <2> QED BY <2>1 DEF FillMissing, StartBootstrap, Bridge
  <1>6. ~HandOff
    <2>1. \A x \in {"final", "recover"} : rf' # [RfGoTo(x) EXCEPT !.handoff = "started"]
      <3> TAKE x \in {"final", "recover"}
      <3>1. x \in RfPcs /\ x # "complete"
        BY DEF RfPcs, Working
      <3>2. [RfGoTo(x) EXCEPT !.handoff = "started"].pc = x
        BY <3>1, GoesOn DEF IInv
      <3> QED BY <3>1, <3>2 DEF RfAt
    <2> QED BY <2>1 DEF HandOff
  <1>7. ~LockRuntime
    <2>1. RfGoTo("decide") \in RfRecords /\ RfGoTo("decide").pc = "decide"
      BY Goes DEF IInv, RfPcs, Working
    <2> QED BY <2>1 DEF LockRuntime, RfAt, RfRecords
  <1> QED BY <1>1, <1>3, <1>4, <1>5, <1>6, <1>7 DEF Refresh

\* But for a repair it asks for, the controller moves no runtime, takes the marker as
\* it is or removes it, and removes it only under its locks.
LEMMA MarkerRead ==
    ASSUME IInv, Refresh \/ RefreshFails \/ RefreshKilled, ~RequestRepair
    PROVE  /\ Serves
           /\ marker' \in {{}, marker} /\ rf'.loaded \in {{}, marker, rf.loaded}
           /\ marker' # marker => rf.pc \in Locked
  <1>1. Serves
    BY RefreshMoves, RefreshTakes, RefreshHolds, RefreshServes DEF Refresh, RefreshKept
  <1>2. marker' \in {{}, marker} /\ rf'.loaded \in {{}, marker, rf.loaded}
    <2>1. CASE RefreshReady \/ RefreshRefused \/ NothingToDo \/ Complete \/ ReFall \/ RefreshKilled
      <3>1. marker' \in {{}, marker}
        BY <2>1 DEF RefreshReady, RefreshRefused, NothingToDo, Complete, ReFall, RefreshKilled, shared
      <3>2. rf'.loaded = {}
        <4>1. RfIdle.loaded = {} /\ \A x : [RfIdle EXCEPT !.pc = x].loaded = {}
          BY DEF RfIdle
        <4>2. rf' = RfIdle \/ \E x : rf' = [RfIdle EXCEPT !.pc = x]
          BY <2>1 DEF RefreshReady, RefreshRefused, NothingToDo, Complete, ReFall, RefreshKilled
        <4> QED BY <4>1, <4>2
      <3> QED BY <3>1, <3>2
    <2>2. CASE LockRuntime
      <3>1. RfGoTo("decide") \in RfRecords
        BY Goes DEF IInv, RfPcs, Working
      <3> QED BY <2>2, <3>1 DEF LockRuntime, TakeShared, RfRecords
    <2>3. CASE \/ RepairReturned \/ LockOperation \/ LockSource \/ Decide \/ RestoreFallback
               \/ FillMissing \/ StartBootstrap
               \/ Bridge \/ HandOff \/ Commit \/ CanaryFailed \/ Recover \/ RefreshFails
      <3>1. marker' = marker
        BY <2>3 DEF RepairReturned, LockOperation, LockSource, TakeShared, Decide,
                    RestoreFallback, FillMissing, StartBootstrap,
                    Bridge, HandOff, Commit, CanaryFailed, Recover, RefreshFails, shared
      <3>2. rf \in RfRecords
        BY Reads DEF IInv
      <3>3. rf'.loaded = rf.loaded
        BY <2>3, <3>2
           DEF RepairReturned, LockOperation, LockSource, Decide, RestoreFallback, FillMissing,
               StartBootstrap, Bridge, HandOff, Commit, CanaryFailed, Recover, RefreshFails,
               RfGoTo, RfRecords
      <3> QED BY <3>1, <3>3
    <2> QED BY <2>1, <2>2, <2>3 DEF Refresh
  <1>3. marker' # marker => rf.pc \in Locked
    BY DEF Refresh, RefreshReady, RefreshRefused, RepairReturned, LockOperation, LockSource,
           LockRuntime, TakeShared, NothingToDo, Decide, RestoreFallback, FillMissing, StartBootstrap, Bridge, HandOff, Commit,
           Complete, CanaryFailed, Recover, ReFall, RefreshFails, RefreshKilled, RfAt, Locked,
           shared
  <1> QED BY <1>1, <1>2, <1>3

\* From when a repair excludes the consumers until its end, and the repair's own phases.
Quiesced == {"record readers", "stop readers", "exclude runtime", "move out", "move in",
             "mark swapped", "publish", "activate", "retire"}
Repairs == {"check", "record consumers", "stop consumers", "exclude operation",
            "record readers", "stop readers", "exclude runtime"}

\* Under kills and lapses alone a marker is there only with the deployed package's runtime, and
\* a runtime is provisioned only while there is none.
Fresh ==
    /\ marker # {} \/ rf.loaded # {} => Exact
    /\ prov.pc \in {"mark swapped", "publish", "activate", "retire", "restore consumers"} => Exact
    /\ prov.pc \in Unswapped \cup {"move in"} => ~Exact /\ prov.seen = source
Blank == prov.pc \notin {"activate", "retire", "restore consumers", "idle"} => marker = {}

\* So no repair fails once it has swapped,
Clean == prov.pc \in CleanupPhases => ~prov.swapped /\ prov.pc # "put back"

\* its fallback units all start,
Lists ==
    /\ prov.mode = "manual" => prov.fallbacks = {}
    /\ prov.mode = "repair" => held["provisioner"]["source"] # "exclusive"
    /\ prov.pc \in Repairs => prov.mode = "repair"
    /\ At("activate") => prov.fallbacks \subseteq marker

\* the controller works before or after it,
Excluding ==
    /\ prov.pc \in Quiesced => held["provisioner"]["operation"] = "exclusive"
    /\ At("stage") /\ prov.mode = "manual" => held["provisioner"]["operation"] = "exclusive"

\* and what the controller has proved lasts until it removes the marker.
Done == RfAt("complete") /\ marker # {} => AllIn(Readers, "production")

CrashInv == Fresh /\ Blank /\ Clean /\ Lists /\ Excluding /\ Done

\* Under the exclusive operation lock the controller is not at work.
LEMMA Quiet ==
    ASSUME IInv, CrashInv, prov.pc \in Quiesced
    PROVE  rf.pc \notin Locked
  BY DEF IInv, Order, LockOrder, RefreshLocks, CrashInv, Excluding, Locks, Holding

\* The start of a provision keeps the crash invariant: there is no marker.
LEMMA BeginCrash ==
    ASSUME IInv, CrashInv, NEW mode \in {"manual", "repair"}, Begin(mode),
           rf' = rf \/ (rf'.pc = "repairing" /\ rf'.loaded = {})
    PROVE  CrashInv'
  <1>1. /\ UNCHANGED <<source, venv, marker, unit>> /\ ~Exact
        /\ prov'.pc = "stage" /\ prov'.mode = mode /\ prov'.seen = source
        /\ prov'.fallbacks = {}
    BY DEF Begin, Idle
  <1>2. held'["provisioner"]["source"] = Wide(mode) /\ held'["provisioner"]["operation"] = Wide(mode)
    BY DEF IInv, TypeOK, SharedTypeOK, Begin, Locks, Controllers
  <1>3. marker = {} /\ rf.loaded = {}
    BY <1>1 DEF CrashInv, Fresh
  <1>4. Fresh' /\ Blank' /\ Clean' /\ Done'
    BY <1>1, <1>3 DEF Fresh, Blank, Clean, Done, Unswapped, Early, CleanupPhases, Exact
  <1>5. Lists' /\ Excluding'
    BY <1>1, <1>2 DEF Lists, Excluding, Wide, Repairs, Quiesced, At
  <1> QED BY <1>4, <1>5 DEF CrashInv

\* The controller's steps keep it.
LEMMA ControllerCrash ==
    ASSUME IInv, CrashInv, Refresh \/ RefreshFails \/ RefreshKilled
    PROVE  CrashInv'
  <1>1. CASE RequestRepair
    BY <1>1, BeginCrash DEF RequestRepair, RfIdle
  <1>2. CASE ~RequestRepair
    <2>1. /\ UNCHANGED <<source, venv, prov>> /\ held'["provisioner"] = held["provisioner"]
          /\ marker' \in {{}, marker} /\ rf'.loaded \in {{}, marker, rf.loaded}
          /\ marker' # marker => rf.pc \in Locked
      BY <1>2, MarkerRead DEF Serves, provVars
    <2>2. Fresh' /\ Blank' /\ Clean' /\ Excluding'
      BY <2>1 DEF CrashInv, Fresh, Blank, Clean, Excluding, Exact, At
    <2>3. Lists'
      <3>1. At("activate") => marker' = marker
        BY <2>1, Quiet DEF At, Quiesced
      <3> QED BY <2>1, <3>1 DEF CrashInv, Lists, At
    <2>4. Done'
      <3> SUFFICES ASSUME RfAt("complete")' PROVE AllIn(Readers, "production")'
        BY DEF Done
      <3>1. Commit
        BY WhoCompletes
      <3> QED BY <3>1 DEF Commit, AllIn
    <2> QED BY <2>2, <2>3, <2>4 DEF CrashInv
  <1> QED BY <1>1, <1>2

\* Up to the swap a provision finds and leaves no marker.
LEMMA QuiesceCrash ==
    ASSUME IInv, CrashInv, UNCHANGED rf,
           \/ Stage \/ CheckMarker \/ RecordConsumers \/ StopConsumers \/ ExcludeOperation
           \/ RecordReaders \/ StopReaders \/ ExcludeRuntime
    PROVE  CrashInv'
  <1>1. prov \in ProvRecords
    BY Reads DEF IInv
  <1>2. UNCHANGED <<source, venv, marker>>
    BY DEF Stage, CheckMarker, RecordConsumers, StopConsumers, ExcludeOperation, RecordReaders,
           StopReaders, ExcludeRuntime, shared
  <1>3. /\ prov.pc \in Unswapped \ {"move out"} /\ prov'.pc \in Unswapped \ {"stage"}
        /\ prov'.seen = prov.seen /\ prov'.mode = prov.mode
        /\ prov'.pc \in Repairs => prov.mode = "repair"
        /\ prov.mode = "manual" => prov.pc = "stage"
    <2>1. CASE Stage
      BY <1>1, <2>1 DEF Stage, At, GoTo, ProvRecords, Unswapped, Early, Repairs
    <2>2. CASE CheckMarker \/ RecordConsumers \/ StopConsumers \/ ExcludeOperation
      BY <1>1, <2>2 DEF CheckMarker, RecordConsumers, StopConsumers, ExcludeOperation, At, GoTo,
                        ProvRecords, Unswapped, Early, Repairs, CrashInv, Lists
    <2>3. CASE RecordReaders \/ StopReaders \/ ExcludeRuntime
      BY <1>1, <2>3 DEF RecordReaders, StopReaders, ExcludeRuntime, At, GoTo,
                        ProvRecords, Unswapped, Early, Repairs, CrashInv, Lists
    <2> QED BY <2>1, <2>2, <2>3
  <1>4. marker' = {}
    BY <1>2, <1>3 DEF CrashInv, Blank, Unswapped, Early
  <1>5. Fresh' /\ Blank' /\ Clean' /\ Done'
    BY <1>2, <1>3, <1>4 DEF CrashInv, Fresh, Blank, Clean, Done, Exact, Unswapped, Early,
                            CleanupPhases
  <1>6. \/ held' = held
        \/ held'["provisioner"]["source"] = held["provisioner"]["source"]
           /\ (held'["provisioner"]["operation"] = held["provisioner"]["operation"]
               \/ held'["provisioner"]["operation"] = "exclusive")
    <2>1. CASE ExcludeOperation \/ ExcludeRuntime
      <3>1. held' = Take("operation", "exclusive") \/ held' = Take("runtime", "exclusive")
        BY <2>1 DEF ExcludeOperation, ExcludeRuntime
      <3> QED BY <3>1, HeldTyped DEF IInv, Locks
    <2>2. CASE \/ Stage \/ CheckMarker \/ RecordConsumers \/ StopConsumers \/ RecordReaders
               \/ StopReaders
      BY <2>2 DEF Stage, CheckMarker, RecordConsumers, StopConsumers, RecordReaders,
                  StopReaders, shared
    <2> QED BY <2>1, <2>2
  <1>7. Lists'
    <2>1. prov'.mode = "manual" => prov'.fallbacks = {}
      <3>1. CASE Stage
        BY <1>1, <3>1 DEF Stage, GoTo, ProvRecords, CrashInv, Lists
      <3>2. CASE ~Stage
        <4>1. prov.pc # "stage"
          BY <3>2 DEF CheckMarker, RecordConsumers, StopConsumers, ExcludeOperation,
                      RecordReaders, StopReaders, ExcludeRuntime, At
        <4> QED BY <1>3, <4>1
      <3> QED BY <3>1, <3>2
    <2>2. prov'.pc # "activate"
      BY <1>3 DEF Unswapped, Early
    <2> QED BY <1>3, <1>6, <2>1, <2>2 DEF CrashInv, Lists, At
  <1>8. Excluding'
    <2>1. CASE ExcludeOperation
      <3>1. held'["provisioner"]["operation"] = "exclusive"
        BY <2>1, HeldTyped DEF IInv, ExcludeOperation, Locks
      <3> QED BY <3>1 DEF Excluding
    <2>2. CASE Stage
      <3>1. /\ held' = held /\ prov.pc = "stage"
            /\ prov'.pc = IF prov.mode = "repair" THEN "check" ELSE "move out"
        BY <1>1, <2>2 DEF Stage, At, GoTo, ProvRecords, shared
      <3>2. prov.mode \in {"manual", "repair"}
        BY <1>1 DEF ProvRecords
      <3> QED BY <3>1, <3>2 DEF CrashInv, Excluding, Quiesced, At
    <2>3. CASE CheckMarker \/ RecordConsumers \/ StopConsumers
      BY <1>1, <2>3 DEF CheckMarker, RecordConsumers, StopConsumers, GoTo, ProvRecords,
                        Excluding, Quiesced, At
    <2>4. CASE RecordReaders \/ StopReaders \/ ExcludeRuntime
      <3>1. prov.pc \in Quiesced
        BY <2>4 DEF RecordReaders, StopReaders, ExcludeRuntime, At, Quiesced
      <3> QED BY <1>6, <3>1 DEF CrashInv, Excluding
    <2> QED BY <2>1, <2>2, <2>3, <2>4
  <1> QED BY <1>5, <1>7, <1>8 DEF CrashInv

\* The swap puts the deployed package's runtime in place.
LEMMA SwapCrash ==
    ASSUME IInv, CrashInv, UNCHANGED rf, MoveOut \/ MoveIn \/ MarkSwapped
    PROVE  CrashInv'
  <1>1. prov \in ProvRecords
    BY Reads DEF IInv
  <1>2. /\ UNCHANGED <<source, marker, unit, held>>
        /\ prov'.fallbacks = prov.fallbacks /\ prov'.mode = prov.mode
        /\ prov'.seen = prov.seen
        /\ \/ prov.pc = "move out" /\ prov'.pc = "move in" /\ venv' = NoRuntime
           \/ /\ prov.pc = "move in" /\ prov'.pc = "mark swapped"
              /\ venv' = [built |-> prov.seen, intact |-> TRUE]
           \/ prov.pc = "mark swapped" /\ prov'.pc = "publish" /\ venv' = venv
    BY <1>1 DEF MoveOut, MoveIn, MarkSwapped, At, GoTo, ProvRecords, shared
  <1>3. /\ marker' = {}
        /\ prov.pc # "mark swapped" => prov.seen = source /\ rf.loaded = {}
    BY <1>2 DEF CrashInv, Fresh, Blank, Unswapped, Early
  <1>4. Fresh'
    <2>1. CASE venv' = NoRuntime /\ prov'.pc = "move in"
      <3>1. ~Exact'
        BY <2>1 DEF Exact, NoRuntime
      <3> QED BY <1>2, <1>3, <2>1, <3>1 DEF Fresh
    <2>2. CASE venv' = [built |-> prov.seen, intact |-> TRUE] /\ prov'.pc = "mark swapped"
      <3>1. Exact'
        BY <1>2, <1>3, <2>2 DEF Exact, NoRuntime
      <3> QED BY <2>2, <3>1 DEF Fresh, Unswapped, Early
    <2>3. CASE venv' = venv /\ prov.pc = "mark swapped" /\ prov'.pc = "publish"
      <3>1. Exact'
        BY <1>2, <2>3 DEF CrashInv, Fresh, Exact
      <3> QED BY <2>3, <3>1 DEF Fresh, Unswapped, Early
    <2> QED BY <1>2, <2>1, <2>2, <2>3
  <1>5. Blank' /\ Clean' /\ Done'
    BY <1>2, <1>3 DEF Blank, Clean, Done, CleanupPhases
  <1>6. Lists' /\ Excluding'
    BY <1>2 DEF CrashInv, Lists, Excluding, Quiesced, Repairs, At
  <1> QED BY <1>4, <1>5, <1>6 DEF CrashInv

\* The marker is published, and all its fallback units start.
LEMMA PublishCrash ==
    ASSUME IInv, CrashInv, UNCHANGED rf,
           PublishMarker \/ Activate \/ Retire \/ RestoreConsumers
    PROVE  CrashInv'
  <1>1. prov \in ProvRecords
    BY Reads DEF IInv
  <1>2. Exact /\ UNCHANGED <<source, venv>>
    BY DEF CrashInv, Fresh, PublishMarker, Activate, Retire, RestoreConsumers, At
  <1>3. Exact'
    BY <1>2 DEF Exact
  <1>4. CASE PublishMarker
    <2>1. /\ prov.pc = "publish" /\ prov'.pc = "activate" /\ unit' = unit
          /\ prov'.fallbacks = prov.fallbacks /\ prov'.mode = prov.mode
          /\ marker' = IF prov.fallbacks # {} THEN prov.fallbacks ELSE marker
      BY <1>1, <1>4 DEF PublishMarker, At, GoTo, ProvRecords
    <2>2. held'["provisioner"]["operation"] = held["provisioner"]["operation"]
          /\ held'["provisioner"]["source"] = held["provisioner"]["source"]
      BY <1>4, HeldTyped DEF IInv, PublishMarker, Locks
    <2>3. Fresh' /\ Blank' /\ Clean'
      BY <1>3, <2>1 DEF Fresh, Blank, Clean, Unswapped, Early, CleanupPhases
    <2>4. Lists' /\ Excluding'
      BY <2>1, <2>2 DEF CrashInv, Lists, Excluding, Quiesced, Repairs, At
    <2>5. Done'
      BY <2>1, Quiet DEF Done, RfAt, Locked, Quiesced
    <2> QED BY <2>3, <2>4, <2>5 DEF CrashInv
  <1>5. CASE Activate
    <2>1. /\ prov.pc = "activate" /\ UNCHANGED <<marker, held>>
          /\ prov.fallbacks \subseteq Readers /\ prov.mode \in {"manual", "repair"}
          /\ unit' = Started(prov.fallbacks, "fallback")
      BY <1>1, <1>5 DEF Activate, At, ProvRecords
    <2>2. \A r \in prov.fallbacks : unit'[r] = "fallback"
      <3> SUFFICES ASSUME NEW r \in prov.fallbacks PROVE unit'[r] = "fallback"
        OBVIOUS
      <3>1. marker # {} /\ held["provisioner"]["source"] # "exclusive"
        BY <2>1 DEF CrashInv, Lists, At
      <3>2. Open("source") /\ Open("runtime")
        BY <2>1, <3>1 DEF IInv, Order, LockOrder, ProvisionLocks, At, Open, Controllers, Locks
      <3>3. CanStart(r, "fallback")
        BY <1>2, <3>1, <3>2 DEF CanStart, ReadVerified, Verifiable, Exact
      <3> QED BY <2>1, <3>3 DEF Started
    <2>3. prov' = [GoTo("retire") EXCEPT !.activated = TRUE]
      BY <1>5, <2>2 DEF Activate
    <2>4. prov'.pc = "retire" /\ prov'.fallbacks = prov.fallbacks /\ prov'.mode = prov.mode
      BY <1>1, <2>3 DEF GoTo, ProvRecords
    <2>5. Fresh' /\ Blank' /\ Clean'
      BY <1>3, <2>4 DEF Fresh, Blank, Clean, Unswapped, Early, CleanupPhases
    <2>6. Lists' /\ Excluding'
      BY <2>1, <2>4 DEF CrashInv, Lists, Excluding, Quiesced, Repairs, At
    <2>7. Done'
      BY <2>1, Quiet DEF Done, RfAt, Locked, Quiesced
    <2> QED BY <2>5, <2>6, <2>7 DEF CrashInv
  <1>6. CASE Retire \/ RestoreConsumers
    <2>1. /\ UNCHANGED <<marker, unit>> /\ prov'.pc \in {"restore consumers", "idle"}
          /\ prov'.fallbacks = prov.fallbacks /\ prov'.mode = prov.mode
      BY <1>1, <1>6 DEF Retire, RestoreConsumers, GoTo, ProvRecords
    <2>2. held'["provisioner"]["source"] \in {"none", held["provisioner"]["source"]}
      <3>1. CASE Retire
        BY <3>1, HeldTyped DEF IInv, Retire, Locks
      <3>2. CASE RestoreConsumers
        <4>1. held' = held
          BY <3>2 DEF RestoreConsumers
        <4> QED BY <4>1
      <3> QED BY <1>6, <3>1, <3>2
    <2>3. Fresh' /\ Blank' /\ Clean' /\ Done'
      BY <1>3, <2>1 DEF CrashInv, Fresh, Blank, Clean, Done, AllIn, RfAt, Unswapped, Early,
                        CleanupPhases
    <2>4. Lists' /\ Excluding'
      BY <2>1, <2>2 DEF CrashInv, Lists, Excluding, Quiesced, Repairs, At
    <2> QED BY <2>3, <2>4 DEF CrashInv
  <1> QED BY <1>4, <1>5, <1>6

\* The trap finds a runtime that was not swapped, and no marker.
LEMMA TrapCrash ==
    ASSUME IInv, CrashInv, UNCHANGED rf,
           \/ Die \/ RollBack \/ PutBack \/ Discard \/ Unlock \/ RestartReaders
           \/ RestartConsumers
    PROVE  CrashInv'
  <1>1. prov \in ProvRecords
    BY Reads DEF IInv
  <1>2. ~RollBack /\ ~PutBack
    BY DEF CrashInv, Clean, RollBack, MustRollBack, PutBack, At, CleanupPhases
  <1>3. prov.pc \in Unswapped \/ prov.pc \in CleanupPhases
    BY <1>2 DEF Die, Blocked, Discard, Unlock, RestartReaders, RestartConsumers, At, Unswapped,
                Early, CleanupPhases
  <1>4. UNCHANGED <<source, marker>> /\ marker = {}
    <2>1. prov.pc \notin {"activate", "retire", "restore consumers", "idle"}
      BY <1>3 DEF Unswapped, Early, CleanupPhases
    <2> QED BY <1>2, <2>1 DEF CrashInv, Blank, Die, Discard, Unlock, RestartReaders, RestartConsumers, shared
  <1>5. /\ prov'.pc \in {"rollback", "unlock", "restart readers", "restart consumers", "idle"}
        /\ prov'.swapped = prov.swapped /\ prov'.fallbacks = prov.fallbacks
        /\ prov'.mode = prov.mode
    BY <1>1, <1>2 DEF Die, Discard, Unlock, RestartReaders, RestartConsumers, GoTo, ProvRecords
  <1>6. ~prov.swapped
    BY <1>3 DEF IInv, Order, Backups, CrashInv, Clean
  <1>7. venv' = venv \/ ~Exact
    BY <1>2 DEF Die, Discard, MustReturn, Unlock, RestartReaders, RestartConsumers, shared, Exact
  <1>8. Fresh'
    <2>1. CASE venv' = venv
      BY <1>4, <1>5, <2>1 DEF CrashInv, Fresh, Exact, Unswapped, Early
    <2>2. CASE ~Exact
      BY <1>4, <1>5, <2>2 DEF CrashInv, Fresh, Unswapped, Early
    <2> QED BY <1>7, <2>1, <2>2
  <1>9. Blank' /\ Clean' /\ Done'
    BY <1>4, <1>5, <1>6 DEF Blank, Clean, Done
  <1>10. held'["provisioner"]["source"] \in {"none", held["provisioner"]["source"]}
    <2>1. CASE Unlock
      <3>1. held' = Release(Locks)
        BY <2>1 DEF Unlock
      <3>2. \A k \in Locks : Release(Locks)["provisioner"][k] = "none"
        BY HeldTyped DEF IInv
      <3> QED BY <3>1, <3>2 DEF Locks
    <2>2. CASE ~Unlock
      <3>1. held' = held
        BY <1>2, <2>2 DEF Die, Discard, RestartReaders, RestartConsumers, shared
      <3> QED BY <3>1
    <2> QED BY <2>1, <2>2
  <1>11. Lists' /\ Excluding'
    BY <1>5, <1>10 DEF CrashInv, Lists, Excluding, Quiesced, Repairs, At
  <1> QED BY <1>8, <1>9, <1>11 DEF CrashInv

\* A kill leaves the runtime, the marker and the units as they are.
LEMMA KillCrash ==
    ASSUME IInv, CrashInv, UNCHANGED rf, Kill
    PROVE  CrashInv'
  <1>1. /\ UNCHANGED <<source, venv, marker, unit>>
        /\ prov'.pc = "idle" /\ prov'.mode = "manual" /\ prov'.fallbacks = {}
    BY DEF Kill, Idle
  <1> QED BY <1>1 DEF CrashInv, Fresh, Blank, Clean, Lists, Excluding, Done, Exact, AllIn, RfAt, At,
                      Unswapped, Early, CleanupPhases, Quiesced, Repairs

\* Jobs come and go, and what is started takes no production unit down.
LEMMA OutsideCrash ==
    ASSUME IInv, CrashInv, UNCHANGED <<provVars, rf>>,
           \/ StartJob \/ EndJob \/ AdmissionLapses
           \/ \E r \in Readers : \E family \in Families : StartReader(r, family)
           \/ \E c \in Consumers : StartConsumer(c)
    PROVE  CrashInv'
  <1>1. UNCHANGED <<source, venv, marker, held>>
    BY DEF StartJob, EndJob, AdmissionLapses, StartReader, StartConsumer
  <1>2. Done'
    <2> SUFFICES ASSUME NEW r \in Readers, unit[r] = "production"
                 PROVE  unit'[r] = "production"
      BY <1>1 DEF CrashInv, Done, AllIn, RfAt
    <2>1. CASE \E q \in Readers : \E family \in Families : StartReader(q, family)
      <3>1. PICK q \in Readers, family \in Families : StartReader(q, family)
        BY <2>1
      <3>2. q # r /\ unit' = Started({q}, family)
        BY <3>1 DEF StartReader
      <3> QED BY <3>2 DEF Started
    <2>2. CASE UNCHANGED unit
      BY <2>2
    <2> QED BY <2>1, <2>2 DEF StartJob, EndJob, AdmissionLapses, StartConsumer
  <1> QED BY <1>1, <1>2 DEF CrashInv, Fresh, Blank, Clean, Lists, Excluding, Exact, At, provVars

\* Under kills, lapses, units that are started and jobs alone, the marker is removed
\* only while the whole fleet serves on its production units.
THEOREM MarkerStays ==
    ASSUME Events \subseteq {"start", "kill", "lapse", "job"}
    PROVE  Spec => MarkerHeld
  <1>1. Init => CrashInv
    BY DEF Init, SharedInit, ProvInit, Idle, RfIdle, CrashInv, Fresh, Blank, Clean, Lists, Excluding,
           Done, RfAt, At, Unswapped, Early, CleanupPhases, Quiesced, Repairs, Controllers, Locks
  <1>2. IInv /\ CrashInv /\ [Next]_vars => CrashInv'
    <2> SUFFICES ASSUME IInv, CrashInv, [Next]_vars PROVE CrashInv'
      OBVIOUS
    <2>1. CASE Provisioner /\ UNCHANGED rf
      <3>1. CASE \E mode \in ByHand : Begin(mode)
        BY <2>1, <3>1, BeginCrash, RefreshAssumption
      <3>2. CASE \/ Stage \/ CheckMarker \/ RecordConsumers \/ StopConsumers
                 \/ ExcludeOperation \/ RecordReaders \/ StopReaders \/ ExcludeRuntime
        BY <2>1, <3>2, QuiesceCrash
      <3>3. CASE MoveOut \/ MoveIn \/ MarkSwapped \/ PublishMarker \/ Activate \/ Retire \/ RestoreConsumers
        BY <2>1, <3>3, SwapCrash, PublishCrash
      <3>4. CASE \/ Die \/ RollBack \/ PutBack \/ Discard \/ Unlock \/ RestartReaders
                 \/ RestartConsumers
        BY <2>1, <3>4, TrapCrash
      <3>5. CASE Kill
        BY <2>1, <3>5, KillCrash
      <3>6. ~Fail
        BY DEF Fail, Event
      <3> QED BY <2>1, <3>1, <3>2, <3>3, <3>4, <3>5, <3>6 DEF Provisioner, Provision
    <2>2. CASE Refresh \/ RefreshFails \/ RefreshKilled
      BY <2>2, ControllerCrash
    <2>3. CASE Outside /\ UNCHANGED <<provVars, rf>>
      <3>1. ~(Sync \/ EditSource \/ DamageRuntime) /\ \A r \in Readers : ~StopReader(r)
        BY DEF Sync, EditSource, DamageRuntime, StopReader, Event
      <3> QED BY <2>3, <3>1, OutsideCrash DEF Outside
    <2>4. CASE UNCHANGED vars
      BY <2>4 DEF CrashInv, Fresh, Blank, Clean, Lists, Excluding, Done, Exact, AllIn, RfAt, At,
                  vars, shared, provVars
    <2> QED BY <2>1, <2>2, <2>3, <2>4 DEF Next
  <1>3. IInv /\ CrashInv /\ [Next]_vars =>
           [marker # {} /\ marker' = {} => AllIn(Readers, "production")]_vars
    <2> SUFFICES ASSUME IInv, CrashInv, [Next]_vars, marker # {}, marker' = {}
                 PROVE  AllIn(Readers, "production")
      OBVIOUS
    <2>1. CASE Refresh \/ RefreshFails \/ RefreshKilled
      <3>1. NothingToDo \/ Complete
        BY <2>1 DEF Refresh, RefreshReady, RequestRepair, RefreshRefused, RepairReturned,
                    LockOperation, LockSource, LockRuntime, TakeShared, Decide, RestoreFallback, FillMissing, StartBootstrap, Bridge,
                    HandOff, Commit, CanaryFailed, Recover, ReFall, RefreshFails, RefreshKilled,
                    Begin, shared
      <3> QED BY <3>1 DEF NothingToDo, Complete, CrashInv, Done
    <2>2. CASE Provisioner
      <3>1. ~(PublishMarker \/ PutBack)
        BY DEF PublishMarker, PutBack, CrashInv, Clean, Blank, At, CleanupPhases
      <3>2. marker' = marker
        BY <2>2, <3>1
           DEF Provisioner, Provision, Stage, CheckMarker, RecordConsumers, StopConsumers,
               ExcludeOperation, RecordReaders, StopReaders, ExcludeRuntime, MoveOut, MoveIn,
               MarkSwapped, Activate, Retire, RestoreConsumers, Die, RollBack, Discard, Unlock,
               RestartReaders, RestartConsumers, Fail, Kill, Begin, shared
      <3> QED BY <3>2
    <2>3. CASE Outside
      BY <2>3 DEF Outside, Sync, EditSource, DamageRuntime, AdmissionLapses, StartJob, EndJob,
                  StartReader, StopReader, StartConsumer
    <2> QED BY <2>1, <2>2, <2>3 DEF Next, vars, shared
  <1> QED BY <1>1, <1>2, <1>3, Inductive, PTL DEF Spec, MarkerHeld

=============================================================================
