-------------------------- MODULE RuntimeProvision ---------------------------
(***************************************************************************)
(* aoa_provision_abyss_stack_mcp_runtime: build a runtime from the         *)
(* deployed package, quiesce what runs from the old one, swap, and bring   *)
(* the readers back on their fallback units.  The manual mode needs every  *)
(* unit stopped and holds its locks exclusively; the repair mode holds     *)
(* them shared while the readers serve and upgrades them one by one.       *)
(*                                                                         *)
(* Each action is one phase of the shell function between two points where *)
(* other processes see its effects.  An EXIT trap cleans up after every    *)
(* failure and every signal but SIGKILL.  One provisioner runs at a time.  *)
(***************************************************************************)
EXTENDS ReadUnits

VARIABLES
    prov,   \* the provisioner's local variables
    lost    \* earlier runtimes left as .venv.previous directories

provVars == <<prov, lost>>

\* Phases before the EXIT trap's, and the trap's.
Guarded == {"stage", "check", "record consumers", "stop consumers",
            "exclude operation", "record readers", "stop readers",
            "exclude runtime", "move out", "move in", "mark swapped", "publish",
            "activate", "retire", "restore consumers"}
CleanupPhases == {"rollback", "put back", "unlock", "restart readers",
                  "restart consumers"}

Idle == [pc |-> "idle", mode |-> "manual", seen |-> 0, result |-> "none",
         were |-> [r \in Readers |-> "off"], fallbacks |-> {},
         consumersWere |-> {}, unresolved |-> FALSE, backup |-> NoRuntime,
         readsStopped |-> FALSE, consumersStopped |-> FALSE,
         swapped |-> FALSE, activated |-> FALSE]

ProvRecords ==
    [pc : Guarded \cup CleanupPhases \cup {"idle"},
     mode : {"manual", "repair"}, seen : Digests,
     result : {"none", "ok", "failed"},
     were : [Readers -> Families \cup {"off"}],
     fallbacks : SUBSET Readers, consumersWere : SUBSET Consumers,
     unresolved : BOOLEAN, backup : Runtimes \cup {NoRuntime},
     readsStopped : BOOLEAN, consumersStopped : BOOLEAN,
     swapped : BOOLEAN, activated : BOOLEAN]
ProvTypeOK == prov \in ProvRecords /\ lost \subseteq Runtimes

ProvInit == prov = Idle /\ lost = {}

At(phase) == prov.pc = phase
GoTo(phase) == [prov EXCEPT !.pc = phase]
Wide(mode) == IF mode = "repair" THEN "shared" ELSE "exclusive"
Take(l, how) == [held EXCEPT !["provisioner"][l] = how]
Release(ls) == [held EXCEPT !["provisioner"] =
                   [l \in Locks |-> IF l \in ls THEN "none" ELSE @[l]]]
(***************************************************************************)
(* Start: the source, operation and runtime locks, in this order, each     *)
(* without waiting (one that cannot be had ends the start), nothing to do  *)
(* when the runtime is exact, and the unit states the mode allows.         *)
(***************************************************************************)
Admissible(mode) ==
    /\ \A l \in Locks : IF mode = "repair" THEN Shareable("provisioner", l)
                                           ELSE Excludable("provisioner", l)
    /\ ~job

Begin(mode) ==
    /\ At("idle") /\ Admissible(mode) /\ ~Exact
    /\ prov' = [Idle EXCEPT !.pc = "stage", !.mode = mode, !.seen = source]
    /\ held' = [held EXCEPT !["provisioner"] = [l \in Locks |-> Wide(mode)]]
    /\ events' = [events EXCEPT !.forced = @ \/ mode = "manual"]
    /\ UNCHANGED <<source, venv, grant, marker, unit, consumers, job, lost>>

\* The replacement is built from a snapshot and the deployed package digested
\* again before and after.
Stage ==
    /\ At("stage") /\ source = prov.seen
    /\ prov' = GoTo(IF prov.mode = "repair" THEN "check" ELSE "move out")
    /\ UNCHANGED <<shared, lost>>

\* A marker that is still there must list exactly units that serve.
CheckMarker ==
    /\ At("check") /\ \A r \in marker : unit[r] = "fallback"
    /\ prov' = [GoTo("record consumers") EXCEPT !.unresolved = marker # {},
                                               !.fallbacks = marker]
    /\ UNCHANGED <<shared, lost>>

RecordConsumers ==
    /\ At("record consumers")
    /\ prov' = [GoTo("stop consumers") EXCEPT !.consumersWere = consumers]
    /\ UNCHANGED <<shared, lost>>
\* Once the effect requests have drained: stop every consumer.
StopConsumers ==
    /\ At("stop consumers")
    /\ consumers' = {}
    /\ prov' = [GoTo("exclude operation") EXCEPT !.consumersStopped = TRUE]
    /\ UNCHANGED <<source, venv, grant, marker, unit, job, held, events, lost>>

ExcludeOperation ==
    /\ At("exclude operation") /\ Excludable("provisioner", "operation")
    /\ held' = Take("operation", "exclusive")
    /\ prov' = GoTo("record readers")
    /\ UNCHANGED <<source, venv, grant, marker, unit, consumers, job, events, lost>>

\* Mutated form: no rollback grant is written.
RecordReadersMut ==
    /\ At("record readers")
    /\ prov.unresolved => Serving = prov.fallbacks
    /\ prov' = [GoTo("stop readers") EXCEPT
                   !.were = unit, !.fallbacks = Serving, !.readsStopped = TRUE]
    /\ UNCHANGED <<shared, lost>>
\* The readers that serve, their fallback units, and a grant for the runtime
\* the stack reader may have to go back to.
RecordReaders ==
    /\ At("record readers")
    /\ prov.unresolved => Serving = prov.fallbacks
    /\ Stack \in Serving => venv # NoRuntime /\ venv.intact
    /\ grant' = IF Stack \in Serving THEN venv ELSE grant
    /\ prov' = [GoTo("stop readers") EXCEPT
                   !.were = unit, !.fallbacks = Serving, !.readsStopped = TRUE]
    /\ UNCHANGED <<source, venv, marker, unit, consumers, job, held, events, lost>>

\* The stack units stop, and the organ units that were recorded; one that another
\* unit has replaced meanwhile serves on.
StopReaders ==
    /\ At("stop readers")
    /\ unit' = Stopped({Stack} \cup {r \in Readers : unit[r] = prov.were[r]})
    /\ prov' = GoTo("exclude runtime")
    /\ UNCHANGED <<source, venv, grant, marker, consumers, job, held, events, lost>>

ExcludeRuntime ==
    /\ At("exclude runtime") /\ Excludable("provisioner", "runtime")
    /\ held' = Take("runtime", "exclusive")
    /\ prov' = GoTo("move out")
    /\ UNCHANGED <<source, venv, grant, marker, unit, consumers, job, events, lost>>
(***************************************************************************)
(* The swap.                                                               *)
(***************************************************************************)
\* Mutated form: the previous runtime is removed, not moved aside.
MoveOutMut ==
    /\ At("move out")
    /\ venv' = NoRuntime /\ prov' = GoTo("move in")
    /\ UNCHANGED <<source, grant, marker, unit, consumers, job, held, events, lost>>
MoveOut ==
    /\ At("move out")
    /\ venv' = NoRuntime
    /\ prov' = [GoTo("move in") EXCEPT !.backup = venv]
    /\ UNCHANGED <<source, grant, marker, unit, consumers, job, held, events, lost>>

MoveIn ==
    /\ At("move in")
    /\ venv' = [built |-> prov.seen, intact |-> TRUE]
    /\ prov' = GoTo("mark swapped")
    /\ UNCHANGED <<source, grant, marker, unit, consumers, job, held, events, lost>>

\* Only from here on does the trap know of the swap.
MarkSwapped ==
    /\ At("mark swapped")
    /\ prov' = [GoTo("publish") EXCEPT !.swapped = TRUE]
    /\ UNCHANGED <<shared, lost>>

\* The fallback marker, then the runtime lock is let go so that units start.
PublishMarker ==
    /\ At("publish")
    /\ marker' = IF prov.fallbacks # {} THEN prov.fallbacks ELSE marker
    /\ held' = Release({"runtime"})
    /\ prov' = GoTo("activate")
    /\ UNCHANGED <<source, venv, grant, unit, consumers, job, events, lost>>

\* Every fallback unit must have come up.
Activate ==
    /\ At("activate")
    /\ unit' = Started(prov.fallbacks, "fallback")
    /\ prov' = IF \A r \in prov.fallbacks : unit'[r] = "fallback"
               THEN [GoTo("retire") EXCEPT !.activated = TRUE]
               ELSE GoTo("rollback")
    /\ UNCHANGED <<source, venv, grant, marker, consumers, job, held, events, lost>>

Retire ==
    /\ At("retire")
    /\ grant' = NoRuntime
    /\ held' = Release({"source", "operation"})
    /\ prov' = [GoTo("restore consumers") EXCEPT !.backup = NoRuntime,
                                                !.readsStopped = FALSE]
    /\ UNCHANGED <<source, venv, marker, unit, consumers, job, events, lost>>

BackAgain == consumers \cup {c \in prov.consumersWere : ConsumerCanStart(c)}
RestoreConsumers ==
    /\ At("restore consumers")
    /\ consumers' = BackAgain
    /\ prov' = [GoTo("idle") EXCEPT !.result = "ok", !.consumersStopped = FALSE]
    /\ UNCHANGED <<source, venv, grant, marker, unit, job, held, events, lost>>
(***************************************************************************)
(* aoa_cleanup_abyss_stack_mcp_runtime_stage, the EXIT trap.               *)
(***************************************************************************)
Blocked ==
    \/ At("stage") /\ source # prov.seen
    \/ At("check") /\ \E r \in marker : unit[r] # "fallback"
    \/ At("exclude operation") /\ ~Excludable("provisioner", "operation")
    \/ /\ At("record readers")
       /\ \/ prov.unresolved /\ Serving # prov.fallbacks
          \/ Stack \in Serving /\ (venv = NoRuntime \/ ~venv.intact)
    \/ At("exclude runtime") /\ ~Excludable("provisioner", "runtime")

\* A check fails: aoa_die.
Die ==
    /\ Blocked /\ prov' = GoTo("rollback")
    /\ UNCHANGED <<shared, lost>>
\* Mutated form: a signal ends the script past its trap.
FailMut ==
    /\ Event("fail")
    /\ prov.pc \in Guarded /\ prov' = GoTo("exit")
    /\ UNCHANGED <<source, venv, grant, marker, unit, consumers, job, held, lost>>
MustRollBack == prov.swapped /\ ~prov.activated /\ prov.backup # NoRuntime
\* The trap finds the runtime moved out and not in.
MustReturn == At("rollback") /\ ~prov.swapped /\ prov.backup # NoRuntime /\ venv = NoRuntime

\* A command fails, or HUP, INT or TERM arrives (a consumer does not come up, and
\* those after it are not tried); the trap's own two mv may fail.
Fail ==
    /\ Event("fail")
    /\ \/ prov.pc \in Guarded /\ prov' = GoTo("rollback")
       \/ (At("put back") \/ MustReturn) /\ prov' = GoTo("unlock")
    /\ \E C \in SUBSET prov.consumersWere :
          /\ ~At("restore consumers") => C = {}
          /\ consumers' = consumers \cup {c \in C : ConsumerCanStart(c)}
    /\ UNCHANGED <<source, venv, grant, marker, unit, job, held, lost>>

FallbackStopped == StoppedFamily(prov.fallbacks, "fallback")
\* Mutated form: the trap does not take the runtime lock again.
RollBackMut ==
    /\ At("rollback") /\ MustRollBack
    /\ unit' = FallbackStopped
    /\ venv' = NoRuntime /\ prov' = GoTo("put back")
    /\ UNCHANGED <<source, grant, marker, consumers, job, held, events, lost>>
\* The fallback units stop; the new runtime goes if its lock can be had.
RollBack ==
    /\ At("rollback") /\ MustRollBack
    /\ unit' = FallbackStopped
    /\ IF /\ \A r \in Readers : unit'[r] = "off"
          /\ consumers = {} /\ ~job /\ held["refresh"]["runtime"] = "none"
       THEN /\ held' = Take("runtime", "exclusive")
            /\ venv' = NoRuntime /\ prov' = GoTo("put back")
       ELSE UNCHANGED <<held, venv>> /\ prov' = GoTo("unlock")
    /\ UNCHANGED <<source, grant, marker, consumers, job, events, lost>>
PutBack ==
    /\ At("put back")
    /\ venv' = prov.backup /\ marker' = {}
    /\ prov' = [GoTo("unlock") EXCEPT !.backup = NoRuntime, !.swapped = FALSE]
    /\ UNCHANGED <<source, grant, unit, consumers, job, held, events, lost>>

\* Nothing to roll back: a backup goes back if there is no runtime in place, and is
\* removed if there is one and the swap was not marked.
Discard ==
    /\ At("rollback") /\ ~MustRollBack
    /\ venv' = IF MustReturn THEN prov.backup ELSE venv
    /\ prov' = [GoTo("unlock") EXCEPT !.backup = IF prov.swapped THEN @ ELSE NoRuntime]
    /\ UNCHANGED <<source, grant, marker, unit, consumers, job, held, events, lost>>

\* A backup that is still there is preserved.
Unlock ==
    /\ At("unlock")
    /\ held' = Release(Locks)
    /\ lost' = lost \cup ({prov.backup} \ {NoRuntime})
    /\ prov' = [GoTo("restart readers") EXCEPT !.backup = NoRuntime]
    /\ UNCHANGED <<source, venv, grant, marker, unit, consumers, job, events>>

RestartReaders ==
    /\ At("restart readers")
    /\ unit' = CASE ~prov.readsStopped \/ (prov.swapped /\ ~prov.activated) -> unit
                 [] prov.readsStopped /\ prov.activated -> Started(prov.fallbacks, "fallback")
                 [] OTHER -> [r \in Readers |-> IF prov.were[r] = "off" THEN unit[r]
                                                ELSE Started({r}, prov.were[r])[r]]
    /\ prov' = GoTo("restart consumers")
    /\ UNCHANGED <<source, venv, grant, marker, consumers, job, held, events, lost>>

RestartConsumers ==
    /\ At("restart consumers")
    /\ consumers' = IF prov.consumersStopped /\ (prov.swapped => prov.activated)
                    THEN BackAgain ELSE consumers
    /\ prov' = [GoTo("idle") EXCEPT !.result = "failed"]
    /\ UNCHANGED <<source, venv, grant, marker, unit, job, held, events, lost>>

\* SIGKILL: the kernel drops the locks and nothing is put back.
Kill ==
    /\ Event("kill") /\ ~At("idle")
    /\ held' = Release(Locks)
    /\ lost' = lost \cup ({prov.backup} \ {NoRuntime})
    /\ prov' = [Idle EXCEPT !.result = "failed"]
    /\ UNCHANGED <<source, venv, grant, marker, unit, consumers, job>>

Provision ==
    \/ Stage \/ CheckMarker \/ RecordConsumers \/ StopConsumers
    \/ ExcludeOperation \/ RecordReaders \/ StopReaders \/ ExcludeRuntime
    \/ MoveOut \/ MoveIn \/ MarkSwapped \/ PublishMarker \/ Activate \/ Retire
    \/ RestoreConsumers \/ Die \/ RollBack \/ PutBack \/ Discard \/ Unlock
    \/ RestartReaders \/ RestartConsumers
=============================================================================
