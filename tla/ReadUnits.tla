------------------------------ MODULE ReadUnits ------------------------------
(***************************************************************************)
(* The units that run from the shared virtual environment of the           *)
(* abyss-stack MCP services, and what they share with the provisioner      *)
(* (RuntimeProvision) and the admission controller (AdmissionRefresh): the *)
(* deployed package, the environment ("runtime"), the rollback grant, the  *)
(* fallback marker and three flock files.                                  *)
(*                                                                         *)
(* A reader is an endpoint with three units that conflict pairwise:        *)
(* production, bootstrap and fallback.  A consumer is a candidate or       *)
(* effect service.  Stack and the Strict consumers are launched through    *)
(* the runtime verifier, the others run the environment's Python directly. *)
(* A unit holds its locks shared from launch to exit; it is in the state   *)
(* it has once its start job is over, and one that waits to be restarted   *)
(* after it failed is off.                                                 *)
(***************************************************************************)
EXTENDS Naturals, FiniteSets

CONSTANTS
    Readers, Stack,     \* the read endpoints, and the one with the verifier
    Consumers, Strict,  \* the non-read services, and those with the verifier
    Drifted,            \* the first deployment is newer than the runtime
    Events,             \* the kinds of outside events that happen
    MaxEvents           \* bound: outside events in a behaviour

Kinds == {"sync", "edit", "damage", "lapse", "start", "stop", "fail", "kill", "job"}

ASSUME UnitAssumption ==
    /\ Stack \in Readers /\ Strict \subseteq Consumers
    /\ Drifted \in BOOLEAN /\ Events \subseteq Kinds /\ MaxEvents \in Nat

VARIABLES
    source,     \* digest of the deployed package and its hash lock
    venv,       \* the published runtime
    grant,      \* the read rollback grant: the runtime it names
    marker,     \* the fallback marker: the readers it lists
    unit,       \* the unit that serves each reader
    consumers,  \* the consumers that run
    job,        \* an observation, keeper or preflight job runs
    held,       \* the locks the two controllers hold
    events      \* outside events so far: how many; was the tree edited; has the
                \*   admission on record lapsed; was anything forced (a kill, a unit
                \*   started or stopped from outside, a manual provisioning)

shared == <<source, venv, grant, marker, unit, consumers, job, held, events>>

Families == {"production", "bootstrap", "fallback"}
Locks == {"operation", "source", "runtime"}
Controllers == {"provisioner", "refresh"}
Digests == 0 .. MaxEvents + 1
NoRuntime == [built |-> MaxEvents + 2, intact |-> FALSE]
Runtimes == [built : Digests, intact : BOOLEAN]

EventRecords ==
    [count : 0 .. MaxEvents, edited : BOOLEAN, lapsed : BOOLEAN, forced : BOOLEAN]
SharedTypeOK ==
    /\ source \in Digests
    /\ venv \in Runtimes \cup {NoRuntime} /\ grant \in Runtimes \cup {NoRuntime}
    /\ marker \subseteq Readers
    /\ unit \in [Readers -> Families \cup {"off"}]
    /\ consumers \subseteq Consumers /\ job \in BOOLEAN
    /\ held \in [Controllers -> [Locks -> {"none", "shared", "exclusive"}]]
    /\ events \in EventRecords

SharedInit ==
    /\ source = IF Drifted THEN 1 ELSE 0
    /\ venv = [built |-> 0, intact |-> TRUE]
    /\ grant = NoRuntime /\ marker = {}
    /\ unit \in [Readers -> {"production", "off"}]
    /\ Drifted => unit[Stack] = "off"
    /\ consumers \in SUBSET (IF Drifted THEN Consumers \ Strict ELSE Consumers)
    /\ job = FALSE
    /\ events = [count |-> 0, edited |-> FALSE, lapsed |-> FALSE, forced |-> FALSE]
    /\ held = [c \in Controllers |-> [l \in Locks |-> "none"]]

Serving == {r \in Readers : unit[r] # "off"}
(***************************************************************************)
(* flock.  The units take their locks shared.                              *)
(***************************************************************************)
HeldByUnits(l) ==
    CASE l = "operation" -> consumers # {} \/ job
      [] l = "source" -> Stack \in Serving \/ consumers \cap Strict # {}
      [] l = "runtime" -> Serving # {} \/ consumers # {} \/ job

Shareable(c, l) == \A d \in Controllers \ {c} : held[d][l] # "exclusive"
Excludable(c, l) ==
    /\ \A d \in Controllers \ {c} : held[d][l] = "none"
    /\ ~HeldByUnits(l)
\* A unit's lock: no controller holds it exclusively.
Open(l) == \A d \in Controllers : held[d][l] # "exclusive"
(***************************************************************************)
(* aoa_verify_abyss_stack_mcp_runtime.  Only the read contour may run a    *)
(* runtime that the grant names and the deployed package does not.         *)
(***************************************************************************)
Exact == venv # NoRuntime /\ venv.intact /\ venv.built = source
Verifiable == Open("source") /\ Open("runtime") /\ venv # NoRuntime
ReadVerified == Verifiable /\ (Exact \/ grant = venv)
StrictVerified == Verifiable /\ Exact

\* The conditions of the units: a production unit's own preflight asks for an
\* admission on record, a fallback unit for the marker.
CanStart(r, family) ==
    /\ venv # NoRuntime /\ Open("runtime")
    /\ family = "production" => ~events.lapsed
    /\ family = "fallback" => marker # {}
    /\ r = Stack => ReadVerified

\* systemctl start: the conflicting units stop whether or not the unit passes
\* its conditions, and a unit whose condition fails just stays down.
Started(S, family) ==
    [r \in Readers |-> IF r \notin S \/ unit[r] = family THEN unit[r]
                       ELSE IF CanStart(r, family) THEN family ELSE "off"]
Stopped(S) == [r \in Readers |-> IF r \in S THEN "off" ELSE unit[r]]
StoppedFamily(S, family) == Stopped({r \in S : unit[r] = family})

ConsumerCanStart(c) ==
    /\ venv # NoRuntime /\ Open("operation") /\ Open("runtime")
    /\ c \in Strict => StrictVerified
(***************************************************************************)
(* Outside events: a Configs sync (under the exclusive source lock), an    *)
(* edit of the deployed tree past that lock, damage to the runtime, an     *)
(* admission on record that expires, units that are started and stopped by *)
(* hand or fail and are restarted, and the short recurring jobs.           *)
(***************************************************************************)
Event(kind) ==
    /\ kind \in Events /\ events.count < MaxEvents
    /\ events' = [count  |-> events.count + 1,
                  edited |-> events.edited \/ kind = "edit",
                  lapsed |-> events.lapsed \/ kind = "lapse",
                  forced |-> events.forced \/ kind \in {"kill", "start", "stop"}]

\* Mutated form: sync does not look at the projection lock.
SyncMut ==
    /\ Event("sync") /\ source' = source + 1
    /\ UNCHANGED <<venv, grant, marker, unit, consumers, job, held>>
Sync ==
    /\ Event("sync")
    /\ ~HeldByUnits("source")
    /\ \A c \in Controllers : held[c]["source"] = "none"
    /\ source' = source + 1
    /\ UNCHANGED <<venv, grant, marker, unit, consumers, job, held>>

EditSource ==
    /\ Event("edit") /\ source' = source + 1
    /\ UNCHANGED <<venv, grant, marker, unit, consumers, job, held>>

DamageRuntime ==
    /\ Event("damage") /\ venv # NoRuntime /\ venv.intact
    /\ venv' = [venv EXCEPT !.intact = FALSE]
    /\ UNCHANGED <<source, grant, marker, unit, consumers, job, held>>

AdmissionLapses ==
    /\ Event("lapse") /\ ~events.lapsed
    /\ UNCHANGED <<source, venv, grant, marker, unit, consumers, job, held>>

\* By hand, or Restart=on-failure (a bootstrap unit is not restarted).
StartReader(r, family) ==
    /\ Event("start") /\ unit[r] # family
    /\ family = "production" \/ (family = "fallback" /\ unit[r] = "off")
    /\ unit' = Started({r}, family)
    /\ UNCHANGED <<source, venv, grant, marker, consumers, job, held>>

\* By hand, or its process dies.
StopReader(r) ==
    /\ Event("stop") /\ unit[r] # "off" /\ unit' = Stopped({r})
    /\ UNCHANGED <<source, venv, grant, marker, consumers, job, held>>

StartConsumer(c) ==
    /\ Event("start") /\ c \notin consumers /\ ConsumerCanStart(c)
    /\ consumers' = consumers \cup {c}
    /\ UNCHANGED <<source, venv, grant, marker, unit, job, held>>

StartJob ==
    /\ "job" \in Events /\ ~job
    /\ venv # NoRuntime /\ Open("operation") /\ Open("runtime")
    /\ job' = TRUE
    /\ UNCHANGED <<source, venv, grant, marker, unit, consumers, held, events>>
EndJob ==
    /\ job /\ job' = FALSE
    /\ UNCHANGED <<source, venv, grant, marker, unit, consumers, held, events>>

Outside ==
    \/ Sync \/ EditSource \/ DamageRuntime \/ AdmissionLapses \/ StartJob \/ EndJob
    \/ \E r \in Readers : StopReader(r) \/ \E family \in Families : StartReader(r, family)
    \/ \E c \in Consumers : StartConsumer(c)
=============================================================================
