------------------------------ MODULE RoutingCutover ------------------------------
(***************************************************************************)
(* aoa_routing_cutover.py: the live mirror of the routing layer and the    *)
(* four commands that replace it.  materialize moves the predecessor tree  *)
(* aside and an SDK tree in; refresh-materialized seals a second SDK tree  *)
(* to fall back on and binds it in the mirror's manifest; rollback brings  *)
(* the predecessor back and rollback-sdk the sealed tree, each with a note *)
(* (a marker, a receipt) written into the tree before the swap.            *)
(*                                                                         *)
(* Every rename and every note is followed by an fsync.  A command may be  *)
(* killed between any two steps, a step may fail with an OSError, and at a *)
(* power loss any state since the last fsync may be what survived (renames *)
(* in one directory in their order).  A command that is refused, or finds  *)
(* its work done, changes nothing and is not a step.                       *)
(*                                                                         *)
(* One SDK release and one predecessor.  One command runs at a time: the   *)
(* program takes no lock.  The isolated rehearsal and the read-only check  *)
(* and inspect-materialized are left out.                                  *)
(***************************************************************************)
EXTENDS Naturals

CONSTANTS
    Predecessor,  \* the predecessor's tree
    Builds,       \* the SDK trees that may be built
    Legacy,       \* the one of an earlier cutover, whose manifest has no ledger
    Changes,      \* operator change references
    Retained,     \* names that operators give for trees a rollback displaces
    MaxCommands,  \* bound: commands started while the mirror is there
    MaxFaults,    \* bound: failures, kills and power losses
    MaxDamage,    \* bound: trees whose bytes drift
    None          \* no tree, no note, no change

ASSUME RoutingAssumption ==
    /\ {MaxCommands, MaxFaults, MaxDamage} \subseteq Nat
    /\ Predecessor \notin Builds /\ Legacy \in Builds
    /\ {None, "names"} \cap (Builds \cup {Predecessor}) = {}
    /\ None \notin Changes \cup Retained \cup {"names"}

VARIABLES
    at,      \* directory name -> the tree there
    tree,    \* tree -> what is in it
    may,     \* what a power loss may leave: [at: values of at, tree: values of each tree]
    op,      \* the command at work
    budget,  \* what is left of the bounds: [commands, faults, damage]
    hist     \* history: [cut: the mirror is durably an SDK tree,
             \*   last: the name a rollback last displaced the mirror to,
             \*   strayed: what the code does not guard against came (Strays),
             \*   lost: after that a power loss took something back]

vars == <<at, tree, may, op, budget, hist>>

Trees == Builds \cup {Predecessor}
\* The mirror, the predecessor's rollback root, the SDK rollback root, and the
\* prepared stages of materialize and of refresh-materialized.
Fixed == {"target", "predecessor", "sealed", "prepared", "seal prepared"}
Names == Fixed \cup Retained

\* dirty: what the next fsync is for; again: an outer handler would put the
\* mirror back a second time; saw: the inspection of the mirror to be replaced.
Idle == [pc |-> "idle", cmd |-> "none", change |-> None, retain |-> None,
         dirty |-> None, again |-> FALSE, saw |-> None]

\* stamp stands for the manifest's digest, saw for the inspection in a receipt.
SdkTree(change) == [intact |-> TRUE, change |-> change, ledger |-> TRUE,
                    bound |-> FALSE, stamp |-> 0, marker |-> None,
                    receipt |-> None, saw |-> None]

\* The first cutover is ahead, or was made before manifests had a ledger.
Init ==
    /\ \E legacy \in BOOLEAN, c \in Changes :
          /\ at = [n \in Names |->
                CASE n = "target" -> IF legacy THEN Legacy ELSE Predecessor
                  [] n = "predecessor" /\ legacy -> Predecessor
                  [] OTHER -> None]
          /\ tree = [t \in Trees |->
                IF t = Legacy /\ legacy THEN [SdkTree(c) EXCEPT !.ledger = FALSE]
                ELSE SdkTree(None)]
          /\ hist = [cut |-> legacy, strayed |-> FALSE, lost |-> FALSE, last |-> None]
    /\ may = [at |-> {at}, tree |-> [t \in Trees |-> {tree[t]}]]
    /\ op = Idle
    /\ budget = [commands |-> MaxCommands, faults |-> MaxFaults, damage |-> MaxDamage]
---------------------------------------------------------------------------
(* What the validators look at. *)

Present(n) == at[n] # None
In(n) == tree[at[n]]
IsSdk(n) == at[n] \in Builds

\* validate_predecessor_root (the marker is looked at by its callers),
\* validate_embedded_canonical_root and validate_live_canonical_root.
ValidPredecessor(n) == at[n] = Predecessor /\ In(n).intact
Embedded(n) == IsSdk(n) /\ In(n).intact /\ In(n).ledger
LiveCanonical(n, c) == Embedded(n) /\ In(n).change = c

\* inspect_embedded_canonical_for_rollback: None is unverified.
Inspection(n) == IF Embedded(n) THEN <<at[n], In(n).stamp>> ELSE None

\* prepare_canonical_stage accepts a stage that an earlier attempt left.
Preparable(n, c) == Present(n) => LiveCanonical(n, c)

\* The directories that a rollback out of slot meets.  The retain name x must be
\* neither the mirror's nor the slot's; that it is none of the others is not checked.
PreSwap(slot, x) == Present("target") /\ Present(slot) /\ ~Present(x)
BetweenSwaps(slot, x) == ~Present("target") /\ Present(slot) /\ Present(x) /\ x # slot
Restored(slot, x) == Present("target") /\ ~Present(slot) /\ Present(x) /\ x # "target"
---------------------------------------------------------------------------
(* When a command is accepted. *)

CutoverBefore(c) ==
    /\ Present("target") /\ ~Present("predecessor")
    /\ ValidPredecessor("target") /\ In("target").marker = None
    /\ Preparable("prepared", c)

CutoverBetween(c) ==
    /\ ~Present("target") /\ Present("predecessor") /\ Present("prepared")
    /\ ValidPredecessor("predecessor") /\ In("predecessor").marker = None
    /\ Preparable("prepared", c)

RefreshFits(c) ==
    /\ IsSdk("target") /\ In("target").intact
    /\ IF Present("sealed") THEN LiveCanonical("sealed", c)
                            ELSE Preparable("seal prepared", c)

RollbackBefore(c, x) ==
    /\ PreSwap("predecessor", x) /\ In("target").marker = None
    /\ ValidPredecessor("predecessor") /\ In("predecessor").marker \in {None, c}

RollbackBetween(c, x) ==
    /\ BetweenSwaps("predecessor", x)
    /\ ValidPredecessor("predecessor") /\ In("predecessor").marker = c

\* A receipt that an earlier attempt staged must describe the mirror of now.
RollbackSdkBefore(c, x) ==
    /\ PreSwap("sealed", x) /\ IsSdk("target") /\ In("target").bound
    /\ Embedded("sealed")
    /\ In("sealed").receipt # None =>
          In("sealed").receipt = c /\ In("sealed").saw = Inspection("target")

RollbackSdkBetween(c, x) ==
    /\ BetweenSwaps("sealed", x)
    /\ Embedded("sealed") /\ In("sealed").receipt = c

\* Some retry is accepted while the mirror is missing.
Resumable ==
    \E c \in Changes, x \in Retained :
        CutoverBetween(c) \/ RollbackBetween(c, x) \/ RollbackSdkBetween(c, x)
---------------------------------------------------------------------------
(* The commands begin. *)

\* What is in the tree there survives a power loss.
Durable(n) == may.tree[at[n]] = {In(n)}

\* While the mirror is missing a start is the operator's retry.
\* Strays: no command syncs the directory names it finds, nor the note or manifest
\* it counts on (in the trees of found); a retain name may be the name of another
\* root or stage, and a retry may give another one than the attempt did.
Starts(cmd, c, x, pc, found) ==
    /\ op.pc = "idle"
    /\ IF Present("target")
       THEN budget.commands > 0 /\ budget' = [budget EXCEPT !.commands = @ - 1]
       ELSE UNCHANGED budget
    /\ op' = [pc |-> pc, cmd |-> cmd, change |-> c, retain |-> x, dirty |-> None,
              again |-> Present("target") /\ cmd \in {"rollback", "rollback sdk"},
              saw |-> Inspection("target")]
    /\ hist' = [hist EXCEPT !.strayed = @ \/ may.at # {at} \/ x \in Fixed
                                      \/ (\E n \in found : ~Durable(n))
                                      \/ (pc = "in" /\ x \notin {None, hist.last})]
    /\ UNCHANGED <<at, tree, may>>

Materialize(c) ==
    \/ CutoverBefore(c)
       /\ Starts("materialize", c, None,
                 IF Present("prepared") THEN "out" ELSE "build", {})
    \/ CutoverBetween(c) /\ Starts("materialize", c, None, "in", {})

Refresh(c) ==
    /\ RefreshFits(c)
    /\ Starts("refresh", c, None,
              CASE Present("sealed") -> "manifest"
                [] ~Present("sealed") /\ Present("seal prepared") -> "seal"
                [] OTHER -> "build", {})

\* Mutated form: a marker that an earlier attempt staged is used as it is.
RollbackKeepsMarker(c, x) ==
    \/ RollbackBefore(c, x)
       /\ Starts("rollback", c, x,
                 IF In("predecessor").marker = None THEN "note" ELSE "out", {})
    \/ RollbackBetween(c, x)
       /\ Starts("rollback", c, x, "in", {"predecessor"})

\* A marker that an earlier attempt staged is written anew.
Rollback(c, x) ==
    \/ RollbackBefore(c, x)
       /\ Starts("rollback", c, x,
                 IF In("predecessor").marker = None THEN "note" ELSE "unmark", {})
    \/ RollbackBetween(c, x)
       /\ Starts("rollback", c, x, "in", {"predecessor"})

\* A receipt that an earlier attempt staged is used as it is.
RollbackSdk(c, x) ==
    \/ RollbackSdkBefore(c, x)
       /\ Starts("rollback sdk", c, x,
                 IF In("sealed").receipt = None THEN "note" ELSE "out",
                 IF In("sealed").receipt = None THEN {"target"} ELSE {"target", "sealed"})
    \/ RollbackSdkBetween(c, x)
       /\ Starts("rollback sdk", c, x, "in", {"sealed"})
---------------------------------------------------------------------------
(* The steps of a command.  Where each one finds its trees: *)

Stage == IF op.cmd = "refresh" THEN "seal prepared" ELSE "prepared"
Incoming == CASE op.cmd = "materialize" -> "prepared"
              [] op.cmd = "rollback" -> "predecessor"
              [] op.cmd = "rollback sdk" -> "sealed"
Outgoing == IF op.cmd = "materialize" THEN "predecessor" ELSE op.retain

Doing(pc) == op.pc = pc /\ op.dirty = None
Goes(pc, dirty) == op' = [op EXCEPT !.pc = pc, !.dirty = dirty]

\* What was durable before a change may still be all that survives.
Arranged(m) == at' = m /\ may' = [may EXCEPT !.at = @ \cup {m}] /\ UNCHANGED tree
\* Mutated form: the tree is copied and stays where it was.
MovedCopy(from, to) == Arranged([at EXCEPT ![to] = at[from]])

Moved(from, to) == Arranged([at EXCEPT ![to] = at[from], ![from] = None])
Wrote(t, v) ==
    /\ tree' = [tree EXCEPT ![t] = v]
    /\ may' = [may EXCEPT !.tree[t] = @ \cup {v}]
    /\ UNCHANGED at

\* A tree that stands nowhere, whatever a power loss leaves.
Unused(t) == \A m \in may.at, n \in Names : m[n] # t

\* The build directory is synced, then renamed to the stage.
Build ==
    /\ Doing("build")
    /\ \E t \in Builds :
          LET m == [at EXCEPT ![Stage] = t] IN
          /\ Unused(t) /\ t = CHOOSE u \in Builds : Unused(u)
          /\ at' = m
          /\ tree' = [tree EXCEPT ![t] = SdkTree(op.change)]
          /\ may' = [at |-> may.at \cup {m},
                     tree |-> [may.tree EXCEPT ![t] = {SdkTree(op.change)}]]
    /\ Goes(IF op.cmd = "refresh" THEN "seal" ELSE "out", "names")
    /\ UNCHANGED <<budget, hist>>

\* Mutated form: the parent directory is not synced after the seal.
SealUnsynced ==
    /\ Doing("seal") /\ Moved("seal prepared", "sealed") /\ Goes("manifest", None)
    /\ UNCHANGED <<budget, hist>>

\* The stage's own manifest is first rewritten in place and synced; what the sealed
\* tree is to the other commands is the same before and after.
Seal ==
    /\ Doing("seal") /\ Moved("seal prepared", "sealed") /\ Goes("manifest", "names")
    /\ UNCHANGED <<budget, hist>>

\* Only the manifest of the mirror is replaced.
WriteManifest ==
    /\ Doing("manifest")
    /\ Wrote(at["target"], [In("target") EXCEPT !.change = op.change, !.ledger = TRUE,
                                                !.bound = TRUE, !.stamp = @ + 1])
    /\ Goes("done", at["target"])
    /\ UNCHANGED <<budget, hist>>

Unmark ==
    /\ Doing("unmark")
    /\ Wrote(Predecessor, [tree[Predecessor] EXCEPT !.marker = None])
    /\ Goes("note", Predecessor)
    /\ UNCHANGED <<budget, hist>>

WriteNote ==
    /\ Doing("note")
    /\ Wrote(at[Incoming],
             IF op.cmd = "rollback" THEN [In(Incoming) EXCEPT !.marker = op.change]
             ELSE [In(Incoming) EXCEPT !.receipt = op.change, !.saw = op.saw])
    /\ Goes("out", at[Incoming])
    /\ UNCHANGED <<budget, hist>>

MoveOut ==
    /\ Doing("out") /\ Moved("target", Outgoing) /\ Goes("in", "names")
    /\ hist' = [hist EXCEPT !.last = op.retain]
    /\ UNCHANGED budget

MoveIn ==
    /\ Doing("in") /\ Moved(Incoming, "target") /\ Goes("done", "names")
    /\ UNCHANGED <<budget, hist>>

\* fsync of the parent directory, or of the tree's manifest directory.
Sync ==
    /\ op.dirty # None
    /\ may' = IF op.dirty = "names" THEN [may EXCEPT !.at = {at}]
              ELSE [may EXCEPT !.tree[op.dirty] = {tree[op.dirty]}]
    /\ hist' = [hist EXCEPT !.cut = @ \/ (op.dirty = "names" /\ IsSdk("target"))]
    /\ op' = [op EXCEPT !.dirty = None]
    /\ UNCHANGED <<at, tree, budget>>

Finish ==
    /\ Doing("done") \/ Doing("failed")
    /\ op' = Idle
    /\ UNCHANGED <<at, tree, may, budget, hist>>
---------------------------------------------------------------------------
(* The except clauses put the mirror back and take the note away again.    *)

Fault == budget.faults > 0 /\ budget' = [budget EXCEPT !.faults = @ - 1]
Rolling == op.cmd \in {"rollback", "rollback sdk"}

\* Mutated form: the note is taken away and the mirror is not put back.
HandlerForgetsMirror ==
    CASE Rolling /\ Doing("out") -> "clean"
      [] Rolling /\ op.pc = "in" -> "clean"
      [] ~Rolling /\ Doing("in") -> "last undo"
      [] OTHER -> "idle"

\* Where an OSError leads.  A rollback has a try around both swaps and one
\* around the second; materialize and a retry have one around the second.
Handler ==
    CASE Rolling /\ Doing("out") -> "clean"
      [] Rolling /\ op.pc = "in" /\ op.dirty # None -> "last undo"
      [] Doing("in") -> IF op.again THEN "undo" ELSE "last undo"
      [] Doing("undo") -> "last undo"
      [] op.pc = "clean" /\ op.dirty # None /\ op.again -> "clean"
      [] OTHER -> "idle"

\* The step at hand fails, before it changed anything or in its fsync.
Fail ==
    /\ Fault /\ op.pc # "idle" /\ ~Doing("done") /\ ~Doing("failed")
    /\ op' = IF Handler = "idle" THEN Idle
             ELSE [op EXCEPT !.pc = Handler, !.dirty = None, !.again = (Handler = "undo")]
    /\ UNCHANGED <<at, tree, may, hist>>

Undo ==
    /\ Doing("undo") \/ Doing("last undo")
    /\ Moved(Outgoing, "target") /\ Goes("clean", "names")
    /\ UNCHANGED <<budget, hist>>

\* remove_exact_compatibility_marker, remove_exact_sdk_runtime_rollback_receipt.
Clean ==
    /\ Doing("clean")
    /\ IF Rolling
       THEN /\ Wrote(at[Incoming],
                     IF op.cmd = "rollback" THEN [In(Incoming) EXCEPT !.marker = None]
                     ELSE [In(Incoming) EXCEPT !.receipt = None, !.saw = None])
            /\ Goes("failed", at[Incoming])
       ELSE Goes("failed", None) /\ UNCHANGED <<at, tree, may>>
    /\ hist' = [hist EXCEPT !.strayed = @ \/ may.at # {at}]
    /\ UNCHANGED budget
---------------------------------------------------------------------------
(* What happens to a command and to the trees. *)

Kill ==
    /\ Fault /\ op.pc # "idle" /\ op' = Idle
    /\ UNCHANGED <<at, tree, may, hist>>

PowerLoss ==
    /\ Fault /\ op' = Idle
    /\ at' \in may.at
    /\ tree' \in {f \in [Trees -> UNION {may.tree[t] : t \in Trees}] :
                     \A t \in Trees : f[t] \in may.tree[t]}
    /\ may' = [at |-> {at'}, tree |-> [t \in Trees |-> {tree'[t]}]]
    /\ hist' = [hist EXCEPT !.lost = @ \/ (hist.strayed /\ <<at', tree'>> # <<at, tree>>)]

Damage(n) ==
    /\ budget.damage > 0 /\ Present(n)
    /\ tree' = [tree EXCEPT ![at[n]].intact = FALSE]
    /\ may' = [may EXCEPT !.tree[at[n]] = {[v EXCEPT !.intact = FALSE] : v \in @}]
    /\ budget' = [budget EXCEPT !.damage = @ - 1]
    /\ UNCHANGED <<at, op, hist>>
---------------------------------------------------------------------------
Command ==
    \E c \in Changes :
        \/ Materialize(c) \/ Refresh(c)
        \/ \E x \in Retained : Rollback(c, x) \/ RollbackSdk(c, x)

Step ==
    \/ Build \/ Seal \/ WriteManifest \/ Unmark \/ WriteNote \/ MoveOut \/ MoveIn
    \/ Sync \/ Finish \/ Undo \/ Clean

Next ==
    \/ Command \/ Step \/ Fail \/ Kill \/ PowerLoss
    \/ \E n \in Names : Damage(n)

Spec == Init /\ [][Next]_vars

\* A command that runs goes on; an operator who finds no mirror retries.
Retry == ~Present("target") /\ Command
FairSpec == Spec /\ WF_vars(Step) /\ WF_vars(Retry)
---------------------------------------------------------------------------
(* Every directory name holds at most one tree and every tree stands under *)
(* one name: no rename copies a tree.                                      *)
TypeOK ==
    /\ at \in [Names -> Trees \cup {None}]
    /\ \A m, n \in Names : at[m] = at[n] /\ at[m] # None => m = n
    /\ at \in may.at /\ \A t \in Trees : tree[t] \in may.tree[t]
    /\ op.pc \in {"idle", "build", "seal", "manifest", "unmark", "note", "out", "in",
                  "done", "undo", "last undo", "clean", "failed"}
    /\ op.dirty \in Trees \cup {"names", None}
    /\ budget \in [commands : 0..MaxCommands, faults : 0..MaxFaults, damage : 0..MaxDamage]

(* Once the cutover is durable, the predecessor serves only with the       *)
(* marker that tells route-api so, whatever kills, failures and power      *)
(* losses came between its staging, the swaps and their fsyncs.  Excepted  *)
(* is whatever follows a stray: a command that started while the names it  *)
(* found, or the marker, receipt or manifest it counted on, were not       *)
(* durable, a clean-up while the names were not, a retry that gave another *)
(* retain name, and a retain name that is another root or stage.           *)
PredecessorMarked ==
    hist.cut /\ ~hist.strayed => \A m \in may.at :
        m["target"] = Predecessor => \A v \in may.tree[Predecessor] : v.marker # None

(* A mirror whose manifest binds an SDK rollback tree (by the name of its  *)
(* root and by the release) has a tree of the release in that root, after  *)
(* a power loss too: the tree is sealed and synced before it is bound, and *)
(* taken out only with the mirror.  The strays of PredecessorMarked are    *)
(* excepted; SealOutlivesReboot is the same without the exception.         *)
BoundTreeIsSealed ==
    hist.strayed \/ \A m \in may.at : \A t \in Builds :
        m["target"] = t /\ (\E v \in may.tree[t] : v.bound) => m["sealed"] \in Builds

\* Bytes that a retry looks at drifted.
Damaged == \E n \in Fixed \ {"seal prepared"} : Present(n) /\ ~In(n).intact

\* The command at work would be accepted again, or find its work done.
Accepted ==
    IF op.cmd = "rollback"
    THEN \/ RollbackBefore(op.change, op.retain) \/ RollbackBetween(op.change, op.retain)
         \/ /\ Restored("predecessor", op.retain)
            /\ ValidPredecessor("target") /\ In("target").marker = op.change
    ELSE \/ RollbackSdkBefore(op.change, op.retain) \/ RollbackSdkBetween(op.change, op.retain)
         \/ /\ Restored("sealed", op.retain)
            /\ Embedded("target") /\ In("target").receipt = op.change

(* However a rollback ends, killed, failing outside its handlers, in them  *)
(* or in its clean-up, the same command is accepted again or finds its     *)
(* work done (the note it left, or took away, and the place it left the    *)
(* mirror in go together), unless bytes drifted or the attempt had strayed.*)
FailedRollbackRetryable ==
    [][Rolling /\ op'.pc = "idle" /\ UNCHANGED <<at, tree>> =>
          Accepted \/ Damaged \/ hist.strayed]_vars

(* The mirror never stays away: a command cut between its two renames is   *)
(* resumed by its retry.  Excepted are bytes that drifted, and a power     *)
(* loss that took something back after a stray (see PredecessorMarked);    *)
(* InterruptedSwapResumes is the same without the second exception.        *)
MirrorReturns == []<>(Present("target") \/ Damaged \/ hist.lost)

(* D-0086:87-89 and 130-131: a refreshed mirror has the SDK rollback tree  *)
(* that its manifest binds, after a reboot too.                            *)
SealOutlivesReboot ==
    op.pc = "idle" /\ IsSdk("target") /\ In("target").bound => IsSdk("sealed")

(* README.md:97-98, 105-107, 125-127 and D-0086:125-131: an interrupted    *)
(* swap is resumed by a retry, after a reboot too.                         *)
InterruptedSwapResumes ==
    op.pc = "idle" /\ ~Present("target") => Resumable \/ Damaged
=============================================================================
