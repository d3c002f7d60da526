-------------------------- MODULE AdmissionRefresh ---------------------------
(***************************************************************************)
(* aoa-refresh-modern-mcp-admission, the timer-driven controller of the    *)
(* read plane, composed with the runtime provisioner it calls and with the *)
(* units.  It verifies the runtime (and asks for a repair if it drifted),  *)
(* keeps the locks shared while it works, proves the recovery units        *)
(* (fallback or bootstrap), hands over to the production units, proves     *)
(* those, and removes the fallback marker.  Its refresh lock makes it the  *)
(* only run of itself; an EXIT trap recovers after every failure.          *)
(***************************************************************************)
EXTENDS RuntimeProvision

CONSTANTS
    AutoRepair, \* the host's auto-repair marker is enabled
    ByHand      \* the modes in which an operator runs the provisioner

ASSUME RefreshAssumption ==
    AutoRepair \in BOOLEAN /\ ByHand \subseteq {"manual", "repair"}

VARIABLE
    rf      \* the controller's local variables

vars == <<shared, provVars, rf>>

RfIdle == [pc |-> "idle", handoff |-> "inactive", bootstrap |-> FALSE,
           loaded |-> {}]

Working == {"repairing", "lock operation", "lock source", "lock runtime", "decide",
            "restore", "fill", "bootstrap", "bridge", "handoff", "final"}

RfRecords ==
    [pc : Working \cup {"complete", "recover", "refall", "idle"},
     handoff : {"inactive", "started", "committed"},
     bootstrap : BOOLEAN, loaded : SUBSET Readers]
TypeOK == SharedTypeOK /\ ProvTypeOK /\ rf \in RfRecords

Init == SharedInit /\ ProvInit /\ rf = RfIdle

RfAt(phase) == rf.pc = phase
RfGoTo(phase) == [rf EXCEPT !.pc = phase]
AllIn(S, family) == \A r \in S : unit[r] = family
LocksClosed == [held EXCEPT !["refresh"] = [l \in Locks |-> "none"]]
(***************************************************************************)
(* ensure_stack_runtime_ready and the repair service.                      *)
(***************************************************************************)
RefreshReady ==
    /\ RfAt("idle") /\ ReadVerified
    /\ rf' = [RfIdle EXCEPT !.pc = "lock operation"]
    /\ UNCHANGED <<shared, provVars>>

Eligible ==
    /\ AutoRepair /\ At("idle") /\ ~job
    /\ \A l \in Locks : Shareable("refresh", l)

RequestRepair ==
    /\ RfAt("idle") /\ ~ReadVerified /\ Eligible
    /\ Begin("repair")
    /\ rf' = [RfIdle EXCEPT !.pc = "repairing"]

RefreshRefused ==
    /\ RfAt("idle") /\ ~ReadVerified /\ ~Eligible
    /\ rf' = [RfIdle EXCEPT !.pc = "recover"]
    /\ UNCHANGED <<shared, provVars>>

RepairReturned ==
    /\ RfAt("repairing") /\ At("idle")
    /\ rf' = RfGoTo(IF prov.result = "ok" /\ ReadVerified THEN "lock operation" ELSE "recover")
    /\ UNCHANGED <<shared, provVars>>
(***************************************************************************)
(* lock_stack_runtime_consumers waits for one lock after the other; under  *)
(* all of them the marker is loaded.                                       *)
(***************************************************************************)
TakeShared(l) ==
    /\ Shareable("refresh", l)
    /\ held' = [held EXCEPT !["refresh"][l] = "shared"]
    /\ UNCHANGED <<source, venv, grant, marker, unit, consumers, job, events, provVars>>

LockOperation ==
    RfAt("lock operation") /\ TakeShared("operation") /\ rf' = RfGoTo("lock source")
LockSource ==
    RfAt("lock source") /\ TakeShared("source") /\ rf' = RfGoTo("lock runtime")
LockRuntime ==
    /\ RfAt("lock runtime") /\ TakeShared("runtime")
    /\ rf' = [RfGoTo("decide") EXCEPT !.loaded = marker]

\* Mutated form: a usable admission on record is enough.
NothingToDoMut ==
    /\ RfAt("decide")
    /\ marker' = {} /\ held' = LocksClosed /\ rf' = RfIdle
    /\ UNCHANGED <<source, venv, grant, unit, consumers, job, events, provVars>>

\* The admission on record is still usable and the fleet serves: done.
NothingToDo ==
    /\ RfAt("decide") /\ AllIn(Readers, "production") /\ ~events.lapsed
    /\ marker' = {} /\ held' = LocksClosed /\ rf' = RfIdle
    /\ UNCHANGED <<source, venv, grant, unit, consumers, job, events, provVars>>

\* Mutated form: a bootstrap covers all the readers even after a repair.
DecideMut ==
    /\ RfAt("decide")
    /\ rf' = RfGoTo(IF AllIn(Readers, "production") THEN "final" ELSE "bootstrap")
    /\ UNCHANGED <<shared, provVars>>
\* Whether the canaries on record may be used again is the outside world's choice,
\* unless the admission lapsed.
Decide ==
    /\ RfAt("decide")
    /\ \E reusable \in {FALSE, ~events.lapsed} :
          rf' = RfGoTo(CASE AllIn(Readers, "production") -> "final"
                         [] ~AllIn(Readers, "production") /\ reusable -> "handoff"
                         [] OTHER -> IF rf.loaded # {} THEN "restore" ELSE "bootstrap")
    /\ UNCHANGED <<shared, provVars>>
(***************************************************************************)
(* The recovery units: the marker's fallback units and bootstraps for the  *)
(* readers it does not list, or bootstraps for all.                        *)
(***************************************************************************)
RestoreFallback ==
    /\ RfAt("restore")
    /\ unit' = Started(rf.loaded, "fallback")
    /\ rf' = RfGoTo(IF \A r \in rf.loaded : unit'[r] = "fallback" THEN "fill" ELSE "recover")
    /\ UNCHANGED <<source, venv, grant, marker, consumers, job, held, events, provVars>>

FillMissing ==
    /\ RfAt("fill")
    /\ unit' = Started(Readers \ rf.loaded, "bootstrap")
    /\ rf' = [RfGoTo(IF /\ \A r \in Readers \ rf.loaded : unit'[r] = "bootstrap"
                        /\ \A r \in rf.loaded : unit'[r] = "fallback"
                     THEN "bridge" ELSE "recover")
              EXCEPT !.bootstrap = Readers # rf.loaded]
    /\ UNCHANGED <<source, venv, grant, marker, consumers, job, held, events, provVars>>

StartBootstrap ==
    /\ RfAt("bootstrap")
    /\ unit' = Started(Readers, "bootstrap")
    /\ rf' = [RfGoTo(IF \A r \in Readers : unit'[r] # "production" THEN "bridge" ELSE "recover")
              EXCEPT !.bootstrap = TRUE]
    /\ UNCHANGED <<source, venv, grant, marker, consumers, job, held, events, provVars>>

\* The recovery units that the canaries look for.
Bridged == AllIn(rf.loaded, "fallback") /\ AllIn(Readers \ rf.loaded, "bootstrap")
\* An admission of the units that serve is published, and the preflight passes.
Admitted == events' = [events EXCEPT !.lapsed = FALSE]

\* Canaries, admission, preflight; bootstraps stop.
Bridge ==
    /\ RfAt("bridge") /\ Bridged /\ Admitted
    /\ unit' = IF rf.bootstrap THEN StoppedFamily(Readers, "bootstrap") ELSE unit
    /\ rf' = [RfGoTo("handoff") EXCEPT !.bootstrap = FALSE]
    /\ UNCHANGED <<source, venv, grant, marker, consumers, job, held, provVars>>

HandOff ==
    /\ RfAt("handoff")
    /\ unit' = Started(Readers, "production")
    /\ rf' = [RfGoTo(IF \A r \in Readers : unit'[r] = "production" THEN "final" ELSE "recover")
              EXCEPT !.handoff = "started"]
    /\ UNCHANGED <<source, venv, grant, marker, consumers, job, held, events, provVars>>

Commit ==
    /\ RfAt("final") /\ AllIn(Readers, "production") /\ Admitted
    /\ rf' = [RfGoTo("complete") EXCEPT !.handoff = "committed"]
    /\ UNCHANGED <<source, venv, grant, marker, unit, consumers, job, held, provVars>>

\* Mutated form: the marker is left behind.
CompleteMut ==
    /\ RfAt("complete")
    /\ held' = LocksClosed /\ rf' = RfIdle
    /\ UNCHANGED <<source, venv, grant, marker, unit, consumers, job, events, provVars>>

\* complete_runtime_repair_fallback, then the exit closes the locks.
Complete ==
    /\ RfAt("complete")
    /\ marker' = {} /\ held' = LocksClosed /\ rf' = RfIdle
    /\ UNCHANGED <<source, venv, grant, unit, consumers, job, events, provVars>>
(***************************************************************************)
(* Failures, the EXIT trap (cleanup_recovery), SIGKILL.                    *)
(***************************************************************************)
\* The canaries find a unit that does not serve.
CanaryFailed ==
    /\ \/ RfAt("bridge") /\ ~Bridged
       \/ RfAt("final") /\ ~AllIn(Readers, "production")
    /\ rf' = RfGoTo("recover")
    /\ UNCHANGED <<shared, provVars>>

RefreshFails ==
    /\ Event("fail") /\ rf.pc \in Working
    /\ rf' = RfGoTo("recover")
    /\ UNCHANGED <<source, venv, grant, marker, unit, consumers, job, held, provVars>>

Recover ==
    /\ RfAt("recover")
    /\ unit' = Stopped({r \in Readers :
                           \/ rf.handoff = "started" /\ unit[r] = "production"
                           \/ rf.bootstrap /\ unit[r] = "bootstrap"})
    /\ held' = LocksClosed /\ rf' = RfGoTo("refall")
    /\ UNCHANGED <<source, venv, grant, marker, consumers, job, events, provVars>>

\* Mutated form: the trap does not restore the fallback.
ReFallMut ==
    /\ RfAt("refall") /\ rf' = RfIdle
    /\ UNCHANGED <<shared, provVars>>
\* Not committed and a marker is there: start its units again, those loaded before
\* if any were.
ReFall ==
    /\ RfAt("refall")
    /\ unit' = IF marker = {} THEN unit
               ELSE Started(IF rf.loaded # {} THEN rf.loaded ELSE marker, "fallback")
    /\ rf' = RfIdle
    /\ UNCHANGED <<source, venv, grant, marker, consumers, job, held, events, provVars>>

RefreshKilled ==
    /\ Event("kill") /\ ~RfAt("idle")
    /\ held' = LocksClosed /\ rf' = RfIdle
    /\ UNCHANGED <<source, venv, grant, marker, unit, consumers, job, provVars>>

Refresh ==
    \/ RefreshReady \/ RequestRepair \/ RefreshRefused \/ RepairReturned
    \/ LockOperation \/ LockSource \/ LockRuntime \/ NothingToDo \/ Decide \/ RestoreFallback \/ FillMissing
    \/ StartBootstrap \/ Bridge \/ HandOff \/ Commit \/ Complete
    \/ CanaryFailed \/ Recover \/ ReFall

\* The repair service returns to the controller that asked for it.
Provisioner ==
    \/ Provision \/ Fail \/ Kill
    \/ ~RfAt("repairing") /\ \E mode \in ByHand : Begin(mode)

Next ==
    \/ Provisioner /\ UNCHANGED rf
    \/ Refresh \/ RefreshFails \/ RefreshKilled
    \/ Outside /\ UNCHANGED <<provVars, rf>>

Spec == Init /\ [][Next]_vars

\* The provisioner's script and the jobs run to their end, and the timer starts
\* the controller again and again.
FairSpec ==
    /\ Spec
    /\ WF_vars(Provision /\ UNCHANGED rf) /\ WF_vars(Refresh)
    /\ WF_vars(EndJob /\ UNCHANGED <<provVars, rf>>)
(***************************************************************************)
(* Properties                                                              *)
(***************************************************************************)
\* At every instant, killed or not, some complete runtime is on the disk: in
\* place or in a backup directory (the two mv of the swap and the rm and mv of
\* the rollback).
RuntimeNeverLost ==
    venv # NoRuntime \/ prov.backup # NoRuntime \/ lost # {}

\* The runtime is moved in or out only while nothing runs from it: no unit, no
\* job, no admission run (the runtime lock and its shared holders, through the
\* upgrade, the hand back before the fallbacks start, and the rollback).
SwapExcludesUsers ==
    [][venv'.built # venv.built =>
          /\ \A r \in Readers : unit'[r] = "off"
          /\ consumers = {} /\ ~job /\ held["refresh"]["runtime"] = "none"]_vars

\* As long as the deployed tree is written only by the sync and the runtime only
\* by the provisioner, the stack reader serves only from a runtime built from the
\* deployed package, the rollback grant notwithstanding: the verification at
\* launch stays true under the locks the reader holds, and a grant is written
\* only for a runtime that drifted under a reader that serves.
StackReaderCurrent ==
    Stack \in Serving => events.edited \/ venv.built = source

\* A failed repair that left or put the previous runtime in place, undamaged (or the
\* new one, cut before it was marked swapped, for a package that is still deployed),
\* brings back each reader that it had found on a bootstrap unit, or on a production
\* unit while the admission on record is good, whatever was done to the deployed
\* package meanwhile (the grant, the order of the rollback, the locks, the restart).
FailedRepairRestores ==
    [][At("restart readers") /\ ~At("restart readers")' /\ events' = events
       /\ prov.readsStopped /\ ~prov.swapped /\ venv.intact
       /\ (venv.built # prov.seen \/ venv.built = source)
       => \A r \in Readers :
             \/ prov.were[r] = "bootstrap"
             \/ prov.were[r] = "production" /\ ~events.lapsed
             => unit'[r] # "off"]_vars

\* While admission works from a fallback, no step but the handoff to production
\* takes a fallback unit down.
HandoffDisplaces ==
    [][rf.pc \in Working \ {"handoff", "repairing"} /\ rf'.pc # rf.pc =>
          \A r \in marker : unit[r] = "fallback" => unit'[r] = "fallback"]_vars

\* When both controllers have come to rest and a marker is there, the readers it lists
\* serve, although any of their steps may have failed; the stack reader if its runtime
\* verifies.  Excepted are behaviours with a kill, with units that were stopped or
\* started from outside or with a manual provisioning, and a repair that preserved
\* the previous runtime because it could not roll back or had activated the new one.
MarkerIsServed ==
    At("idle") /\ RfAt("idle") /\ ~events.forced /\ lost = {} =>
        \A r \in marker : unit[r] # "off" \/ (r = Stack /\ ~Exact /\ grant # venv)

\* When kills are all that befalls the controllers, the fallback marker is removed
\* only while the whole fleet serves on its production units.
MarkerHeld ==
    [][marker # {} /\ marker' = {} => AllIn(Readers, "production")]_vars

\* Whenever a controller is killed or the admission on record lapses, the timer brings
\* the whole fleet back on its production units with no marker left.
FleetRecovers == <>[](AllIn(Readers, "production") /\ marker = {})

=============================================================================
