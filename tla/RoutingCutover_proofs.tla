------------------------- MODULE RoutingCutover_proofs -------------------------
(***************************************************************************)
(* The safety properties of RoutingCutover, for any trees, changes and     *)
(* retain names and for every bound.                                       *)
(*                                                                         *)
(* The invariant has two halves.  Basic holds whatever comes: no step      *)
(* copies a tree.  Sound holds until a stray (RoutingCutover names them),  *)
(* and speaks of every arrangement of the directories that a power loss    *)
(* may leave and of every version of every tree.  Where the trees stand    *)
(* while a command works (Positions) and what the command may count on     *)
(* (Course) is what makes each of its renames and notes keep the promises  *)
(* that every such arrangement carries (Promised).                         *)
(***************************************************************************)
EXTENDS RoutingCutover, TLAPS

Inspections == (Trees \X Nat) \cup {None}
TreeRecords == [intact : BOOLEAN, change : Changes \cup {None}, ledger : BOOLEAN,
                bound : BOOLEAN, stamp : Nat, marker : Changes \cup {None},
                receipt : Changes \cup {None}, saw : Inspections]

Pcs == {"idle", "build", "seal", "manifest", "unmark", "note", "out", "in",
        "done", "undo", "last undo", "clean", "failed"}
Cmds == {"none", "materialize", "refresh", "rollback", "rollback sdk"}
Dirts == Trees \cup {"names", None}
OpRecords == [pc : Pcs, cmd : Cmds, change : Changes \cup {None},
              retain : Retained \cup {None}, dirty : Dirts, again : BOOLEAN,
              saw : Inspections]

Maps == [Names -> Trees \cup {None}]
MayRecords == [at : SUBSET Maps, tree : [Trees -> SUBSET TreeRecords]]
HistRecords == [cut : BOOLEAN, last : Retained \cup {None}, strayed : BOOLEAN, lost : BOOLEAN]
Budgets == [commands : 0..MaxCommands, faults : 0..MaxFaults, damage : 0..MaxDamage]

Typed ==
    /\ at \in may.at /\ tree \in [Trees -> TreeRecords]
    /\ may \in MayRecords /\ \A t \in Trees : tree[t] \in may.tree[t]
    /\ op \in OpRecords /\ budget \in Budgets /\ hist \in HistRecords

\* No arrangement has a tree twice.
Single(m) == \A k, n \in Names : m[k] = m[n] /\ m[k] # None => k = n

Swapping == {"in", "undo", "last undo"}

\* Which command is at which step, as far as its steps need it to find their trees.
Roles ==
    /\ op.pc = "build" => op.cmd \in {"materialize", "refresh"}
    /\ op.pc \in {"unmark", "note"} => Rolling
    /\ op.pc \in {"out"} \cup Swapping => op.cmd = "materialize" \/ Rolling
    /\ Rolling => op.retain \in Retained

Basic == Typed /\ Roles /\ \A m \in may.at : Single(m)

\* The retain names that are not those of another root or stage.
Clear == Retained \ Fixed

\* Markers are for the predecessor, receipts for SDK trees; a command knows its
\* change, and a rollback, no other, the name it displaces the mirror to.
Notes ==
    /\ \A t \in Builds : \A v \in may.tree[t] : v.marker = None
    /\ \A v \in may.tree[Predecessor] : v.receipt = None
    /\ op.cmd # "none" => op.change \in Changes
    /\ Rolling => op.retain \in Clear
    /\ op.cmd = "materialize" => op.retain = None

\* No tree stands twice, and the predecessor and its rollback root belong together.
Proper(m) ==
    /\ \A k, n \in Names : m[k] = m[n] /\ m[k] # None => k = n
    /\ \A n \in Names : m[n] = Predecessor => n \in {"target", "predecessor"}
    /\ m["predecessor"] \in {Predecessor, None}

Places == \A m \in may.at : Proper(m)

\* An SDK tree stands somewhere else than in the stage of the first cutover.
Cut(m) == \E n \in Names \ {"prepared"} : m[n] \in Builds

CutStays == hist.cut => \A m \in may.at : Cut(m)

Marked(versions) == \A v \in versions : v.marker # None
Bound(versions) == \E v \in versions : v.bound

RollingBack == {"unmark", "note", "out", "in", "undo", "last undo", "clean", "failed"}

\* Where the trees of the command at work are.
Positions ==
    /\ op.pc = "build" => op.cmd \in {"materialize", "refresh"}
    /\ op.pc \in {"seal", "manifest"} => op.cmd = "refresh"
    /\ op.pc = "unmark" => op.cmd = "rollback"
    /\ op.pc = "note" => Rolling
    /\ op.pc \in {"out", "clean"} \cup Swapping => op.cmd = "materialize" \/ Rolling
    /\ op.pc \in {"build", "seal", "manifest"} /\ op.cmd = "refresh" => at["target"] \in Builds
    /\ op.pc = "seal" => at["seal prepared"] \in Builds
    /\ op.pc = "manifest" => at["sealed"] \in Builds
    /\ op.pc \in {"build", "out"} /\ op.cmd = "materialize" => at["target"] = Predecessor
    /\ op.pc \in RollingBack \ Swapping /\ Rolling => at["target"] \in Builds
    /\ op.pc \in RollingBack /\ op.cmd = "rollback" => at["predecessor"] = Predecessor
    /\ op.pc \in RollingBack /\ op.cmd = "rollback sdk" => at["sealed"] \in Builds
    /\ op.pc \in Swapping => at["target"] = None /\ at[Outgoing] # None

\* What has become of the notes of the rollback at work.
Noted ==
    op.pc = "out" /\ op.cmd = "rollback" =>
        /\ tree[Predecessor].marker # None /\ op.dirty \in {None, Predecessor}
        /\ op.dirty = None => Marked(may.tree[Predecessor])

\* What the command at work may count on.
Course ==
    /\ op.pc \notin {"idle", "undo", "last undo", "clean", "done", "failed"} =>
          op.dirty = "names" \/ may.at = {at}
    /\ op.pc \in {"build", "out"} \cup Swapping /\ op.cmd = "materialize" => ~Cut(at)
    /\ op.pc = "in" /\ op.cmd = "rollback" => Marked(may.tree[Predecessor])
    /\ op.pc \in Swapping /\ Rolling => op.retain = hist.last

\* What an arrangement m promises, with the versions that the trees may have: after
\* the cutover its stage is gone and the predecessor serves marked only; stages and
\* sealed trees bind none; and there is a sealed tree while the mirror binds one, or
\* the tree does that was the mirror when it was displaced last.
Promises(m, versions, last) ==
    /\ Cut(m) => m["prepared"] = None
    /\ Cut(m) /\ m["target"] = Predecessor => Marked(versions[Predecessor])
    /\ \A n \in {"prepared", "seal prepared", "sealed"} :
          m[n] \in Builds => ~Bound(versions[m[n]])
    /\ m["target"] \in Builds /\ Bound(versions[m["target"]]) => m["sealed"] \in Builds
    /\ last \in Clear /\ m["target"] = None /\ m[last] \in Builds /\ Bound(versions[m[last]])
          => m["sealed"] \in Builds

Promised == \A m \in may.at : Promises(m, may.tree, hist.last)

Sound == /\ Typed /\ Notes /\ Places /\ CutStays /\ Positions /\ Noted
         /\ Course /\ Promised

IInv == Basic /\ (~hist.strayed => Sound)
-------------------------------------------------------------------------------
(* The names of the directories, and renames among them.                   *)

\* The roots of a command are directories, other than the mirror.
LEMMA RootsNamed ==
    ASSUME Typed, Notes
    PROVE  /\ Fixed \subseteq Names /\ Clear \subseteq Names
           /\ Clear \cap Fixed = {} /\ Stage \in {"prepared", "seal prepared"}
           /\ op.cmd = "materialize" \/ Rolling =>
                 /\ Incoming \in {"prepared", "predecessor", "sealed"}
                 /\ Outgoing \in {"predecessor"} \cup Clear
           /\ op.cmd = "materialize" => Incoming = "prepared" /\ Outgoing = "predecessor"
           /\ op.cmd = "rollback" => Incoming = "predecessor"
           /\ op.cmd = "rollback sdk" => Incoming = "sealed"
           /\ Rolling => Outgoing = op.retain /\ op.retain \in Clear
  BY DEF Clear, Fixed, Names, Stage, Incoming, Outgoing, Notes, Rolling

\* The rename of a directory.
Swap(m, from, to) == [m EXCEPT ![to] = m[from], ![from] = None]

LEMMA SwapShows ==
    ASSUME NEW m \in Maps, NEW from \in Names, NEW to \in Names, from # to
    PROVE  /\ Swap(m, from, to) \in Maps
           /\ Swap(m, from, to)[to] = m[from] /\ Swap(m, from, to)[from] = None
           /\ \A n \in Names \ {from, to} : Swap(m, from, to)[n] = m[n]
  BY DEF Maps, Swap

\* A rename keeps an arrangement proper if the predecessor only goes between its places.
LEMMA SwapProper ==
    ASSUME NEW m \in Maps, NEW from \in Names, NEW to \in Names, from # to, Proper(m),
           m[from] = Predecessor => to \in {"target", "predecessor"},
           to = "predecessor" => m[from] \in {Predecessor, None}
    PROVE  Proper(Swap(m, from, to))
<1> DEFINE s == Swap(m, from, to)
<1>1. /\ s[to] = m[from] /\ s[from] = None
      /\ \A n \in Names \ {from, to} : s[n] = m[n]
  BY SwapShows
<1>2. ASSUME NEW k \in Names, NEW n \in Names, s[k] = s[n], s[k] # None
      PROVE  k = n
  BY <1>1, <1>2 DEF Proper
<1>3. ASSUME NEW n \in Names, s[n] = Predecessor
      PROVE  n \in {"target", "predecessor"}
  BY <1>1, <1>3, RoutingAssumption DEF Proper
<1>4. "predecessor" \in Names
  BY DEF Names, Fixed
<1>5. s["predecessor"] \in {Predecessor, None}
  BY <1>1, <1>4 DEF Proper
<1> HIDE DEF s
<1>6. Proper(s)
  BY <1>2, <1>3, <1>5 DEF Proper
<1> QED
  BY <1>6 DEF s

\* A rename among these names leaves an SDK tree outside the stage if there was one.
LEMMA SwapCut ==
    ASSUME NEW m \in Maps, NEW from \in Names, NEW to \in Names, from # to, Cut(m),
           to # "prepared", m[to] \in Builds => m[from] \in Builds
    PROVE  Cut(Swap(m, from, to))
<1>1. /\ Swap(m, from, to)[to] = m[from]
      /\ \A n \in Names \ {from, to} : Swap(m, from, to)[n] = m[n]
  BY SwapShows
<1>2. PICK n \in Names \ {"prepared"} : m[n] \in Builds
  BY DEF Cut
<1>3. CASE n \in {from, to}
  BY <1>1, <1>2, <1>3 DEF Cut
<1>4. CASE n \notin {from, to}
  BY <1>1, <1>2, <1>4 DEF Cut
<1> QED
  BY <1>3, <1>4

\* And a rename of a tree that is not in the stage makes no difference to it.
LEMMA SwapNotCut ==
    ASSUME NEW m \in Maps, NEW from \in Names, NEW to \in Names, from # to,
           from # "prepared", Cut(Swap(m, from, to))
    PROVE  Cut(m)
<1>1. /\ Swap(m, from, to)[to] = m[from] /\ Swap(m, from, to)[from] = None
      /\ \A n \in Names \ {from, to} : Swap(m, from, to)[n] = m[n]
  BY SwapShows
<1>2. PICK n \in Names \ {"prepared"} : Swap(m, from, to)[n] \in Builds
  BY DEF Cut
<1>3. None \notin Builds
  BY RoutingAssumption
<1> QED
  BY <1>1, <1>2, <1>3 DEF Cut
-------------------------------------------------------------------------------
(* How the versions of the trees may change under a promise.               *)

\* A promise outlives a change of versions that takes no marker from the predecessor
\* and binds no tree.
LEMMA PromiseKept ==
    ASSUME NEW m, NEW versions, NEW later, NEW last, Promises(m, versions, last),
           Marked(versions[Predecessor]) => Marked(later[Predecessor]),
           \A t \in Builds : Bound(later[t]) => Bound(versions[t])
    PROVE  Promises(m, later, last)
  BY DEF Promises

\* With fewer arrangements, or fewer versions of a tree, nothing is lost.
LEMMA FewerVersions ==
    ASSUME NEW versions, NEW later, later \subseteq versions
    PROVE  /\ Marked(versions) => Marked(later)
           /\ Bound(later) => Bound(versions)
  BY DEF Marked, Bound

-------------------------------------------------------------------------------
(* What the building blocks of the steps do to the records.                *)

\* The command goes on at another step.
LEMMA GoesShows ==
    ASSUME op \in OpRecords, NEW pc \in Pcs, NEW dirty \in Dirts, Goes(pc, dirty)
    PROVE  /\ op' \in OpRecords /\ op'.pc = pc /\ op'.dirty = dirty
           /\ op'.cmd = op.cmd /\ op'.change = op.change /\ op'.retain = op.retain
           /\ op'.saw = op.saw /\ op'.again = op.again
<1> DEFINE o == [op EXCEPT !.pc = pc]
<1>1. /\ o \in OpRecords /\ o.pc = pc /\ o.dirty = op.dirty /\ o.cmd = op.cmd
      /\ o.change = op.change /\ o.retain = op.retain /\ o.saw = op.saw /\ o.again = op.again
  BY DEF OpRecords
<1>2. op' = [o EXCEPT !.dirty = dirty]
  BY DEF Goes, OpRecords
<1> HIDE DEF o
<1> QED
  BY <1>1, <1>2 DEF OpRecords

\* While the command is the same, so are its roots.
LEMMA SameRoots ==
    ASSUME op'.cmd = op.cmd, op'.retain = op.retain
    PROVE  /\ Rolling' <=> Rolling
           /\ Stage' = Stage /\ Incoming' = Incoming /\ Outgoing' = Outgoing
  BY DEF Rolling, Stage, Incoming, Outgoing

\* A new arrangement is one that a power loss may leave.
LEMMA ArrangedShows ==
    ASSUME Typed, NEW m \in Maps, Arranged(m)
    PROVE  /\ at' = m /\ at' \in may'.at /\ tree' = tree
           /\ may' \in MayRecords /\ may'.at = may.at \cup {at'} /\ may'.tree = may.tree
           /\ \A t \in Trees : tree'[t] \in may'.tree[t]
  BY DEF Typed, Arranged, MayRecords

\* A rename moves a tree.
LEMMA MovedShows ==
    ASSUME Typed, NEW from \in Names, NEW to \in Names, from # to, Moved(from, to)
    PROVE  /\ at' = Swap(at, from, to) /\ at' \in Maps /\ at' \in may'.at /\ tree' = tree
           /\ may' \in MayRecords /\ may'.at = may.at \cup {at'} /\ may'.tree = may.tree
           /\ \A t \in Trees : tree'[t] \in may'.tree[t]
           /\ at'[to] = at[from] /\ at'[from] = None
           /\ \A n \in Names \ {from, to} : at'[n] = at[n]
<1>1. at \in Maps
  BY DEF Typed, MayRecords
<1>2. Arranged(Swap(at, from, to))
  BY DEF Moved, Swap
<1> DEFINE m == Swap(at, from, to)
<1>3. /\ m \in Maps /\ m[to] = at[from] /\ m[from] = None
      /\ \A n \in Names \ {from, to} : m[n] = at[n]
  BY <1>1, SwapShows
<1>4. Arranged(m)
  BY <1>2
<1> HIDE DEF m
<1>5. /\ at' = m /\ at' \in may'.at /\ tree' = tree
      /\ may' \in MayRecords /\ may'.at = may.at \cup {at'} /\ may'.tree = may.tree
      /\ \A t \in Trees : tree'[t] \in may'.tree[t]
  BY <1>3, <1>4, ArrangedShows
<1>6. at' = Swap(at, from, to)
  BY <1>5 DEF m
<1> QED
  BY <1>3, <1>5, <1>6

\* A new version of a tree is one that a power loss may leave.
LEMMA WroteShows ==
    ASSUME Typed, NEW t \in Trees, NEW v \in TreeRecords, Wrote(t, v)
    PROVE  /\ at' = at /\ tree' \in [Trees -> TreeRecords]
           /\ tree'[t] = v /\ \A u \in Trees \ {t} : tree'[u] = tree[u]
           /\ may' \in MayRecords /\ may'.at = may.at
           /\ may'.tree[t] = may.tree[t] \cup {v}
           /\ \A u \in Trees \ {t} : may'.tree[u] = may.tree[u]
           /\ \A u \in Trees : tree'[u] \in may'.tree[u]
<1>1. /\ tree \in [Trees -> TreeRecords] /\ may.tree \in [Trees -> SUBSET TreeRecords]
      /\ may \in MayRecords
  BY DEF Typed, MayRecords
<1> DEFINE f == [may.tree EXCEPT ![t] = @ \cup {v}]
<1>2. /\ f \in [Trees -> SUBSET TreeRecords] /\ f[t] = may.tree[t] \cup {v}
      /\ \A u \in Trees \ {t} : f[u] = may.tree[u]
  BY <1>1
<1>3. may' = [may EXCEPT !.tree = f]
  BY <1>1 DEF Wrote, MayRecords
<1> HIDE DEF f
<1>4. may' \in MayRecords /\ may'.at = may.at /\ may'.tree = f
  BY <1>1, <1>2, <1>3 DEF MayRecords
<1>5. /\ tree' \in [Trees -> TreeRecords] /\ tree'[t] = v
      /\ \A u \in Trees \ {t} : tree'[u] = tree[u]
  BY <1>1 DEF Wrote
<1> QED
  BY <1>2, <1>4, <1>5 DEF Wrote, Typed

\* The command keeps what it knows while it goes on.
LEMMA NotesGoOn ==
    ASSUME Notes, op'.cmd = op.cmd, op'.change = op.change, op'.retain = op.retain,
           may'.tree = may.tree
    PROVE  Notes'
  BY DEF Notes, Rolling

\* A rename in a parent whose arrangements are proper leaves them so.
LEMMA PlacesMoved ==
    ASSUME Typed, Places, NEW from \in Names, NEW to \in Names, from # to, Moved(from, to),
           at[from] = Predecessor => to \in {"target", "predecessor"},
           to = "predecessor" => at[from] \in {Predecessor, None}
    PROVE  Places'
<1>1. at \in may.at /\ at \in Maps
  BY DEF Typed, MayRecords
<1>2. Proper(at)
  BY <1>1 DEF Places
<1>3. Proper(Swap(at, from, to))
  BY <1>1, <1>2, SwapProper
<1>4. may'.at = may.at \cup {Swap(at, from, to)}
  BY MovedShows
<1> QED
  BY <1>3, <1>4 DEF Places

\* A rename that overwrites no SDK tree with another keeps the cutover.
LEMMA CutMoved ==
    ASSUME Typed, CutStays, NEW from \in Names, NEW to \in Names, from # to,
           Moved(from, to), to # "prepared", at[to] \in Builds => at[from] \in Builds,
           hist'.cut = hist.cut
    PROVE  CutStays'
<1>1. at \in may.at /\ at \in Maps
  BY DEF Typed, MayRecords
<1>2. Cut(at) => Cut(Swap(at, from, to))
  BY <1>1, SwapCut
<1>3. may'.at = may.at \cup {Swap(at, from, to)}
  BY MovedShows
<1> QED
  BY <1>1, <1>2, <1>3 DEF CutStays

\* A rename keeps the promises if the new arrangement does.
LEMMA PromisedMoved ==
    ASSUME Promised, may'.at = may.at \cup {at'}, may'.tree = may.tree,
           hist'.last = hist.last, Promises(at', may.tree, hist.last)
    PROVE  Promised'
  BY DEF Promised

-------------------------------------------------------------------------------
(* The renames.                                                            *)

\* What there is to say of the directories of now.
LEMMA Now ==
    ASSUME Sound
    PROVE  /\ Typed /\ Notes /\ Places /\ CutStays /\ Positions /\ Noted
           /\ at \in may.at /\ at \in Maps /\ Proper(at)
           /\ Course /\ Promised /\ Promises(at, may.tree, hist.last)
  BY DEF Sound, Typed, MayRecords, Places, Promised

\* None is no tree and no name, and the predecessor is no SDK tree.
LEMMA Distinct ==
    /\ None \notin Trees /\ None \notin Changes /\ None \notin Clear /\ None \notin Retained
    /\ None # "names" /\ "names" \notin Trees
    /\ Predecessor \notin Builds /\ Trees = Builds \cup {Predecessor} /\ Legacy \in Builds
  BY RoutingAssumption DEF Trees, Clear

\* The prepared tree is sealed.
LEMMA SealKeeps ==
    ASSUME Sound, Seal
    PROVE  Sound'
<1>1. op.pc = "seal" /\ op.cmd = "refresh" /\ at["seal prepared"] \in Builds /\ at["target"] \in Builds
  BY Now DEF Seal, Doing, Positions
<1>2. /\ Moved("seal prepared", "sealed") /\ Goes("manifest", "names")
      /\ budget' = budget /\ hist' = hist
  BY DEF Seal
<1>3. Fixed \subseteq Names /\ Clear \cap Fixed = {}
  BY Now, RootsNamed
<1>4. "seal prepared" \in Names /\ "sealed" \in Names
  BY <1>3 DEF Fixed
<1>5. /\ at' = Swap(at, "seal prepared", "sealed") /\ at' \in Maps /\ at' \in may'.at
      /\ tree' = tree /\ may' \in MayRecords
      /\ may'.at = may.at \cup {at'} /\ may'.tree = may.tree
      /\ \A t \in Trees : tree'[t] \in may'.tree[t]
      /\ at'["sealed"] = at["seal prepared"] /\ at'["seal prepared"] = None
      /\ \A n \in Names \ {"seal prepared", "sealed"} : at'[n] = at[n]
  BY <1>2, <1>4, Now, MovedShows
<1>6. /\ op' \in OpRecords /\ op'.pc = "manifest" /\ op'.dirty = "names"
      /\ op'.cmd = op.cmd /\ op'.change = op.change /\ op'.retain = op.retain
  BY <1>2, Now, GoesShows DEF Typed, Pcs, Dirts
<1>7. Typed'
  BY <1>2, <1>5, <1>6, Now DEF Typed
<1>8. Notes'
  BY <1>5, <1>6, Now, NotesGoOn
<1>9. Places'
  BY <1>1, <1>2, <1>4, Now, Distinct, PlacesMoved
<1>10. CutStays'
  BY <1>1, <1>2, <1>4, Now, CutMoved
<1>11. at'["target"] = at["target"] /\ at'["prepared"] = at["prepared"]
  BY <1>3, <1>5 DEF Fixed
<1>12. Positions'
  BY <1>1, <1>5, <1>6, <1>11 DEF Positions, Rolling, RollingBack, Swapping
<1>13. Noted'
  BY <1>6 DEF Noted
<1>14. Course' /\ Promised'
  <2>1. Promises(at, may.tree, hist.last)
    BY Now
  <2>2. Cut(at)
    BY <1>1, <1>3 DEF Cut, Fixed
  <2>3. Promises(at', may.tree, hist.last)
    BY <2>1, <2>2, <1>1, <1>5, <1>11, Distinct DEF Promises
  <2>4. Promised'
    BY <2>3, <1>2, <1>5, Now, PromisedMoved
  <2>5. Course'
    BY <1>1, <1>6 DEF Course, Rolling, Swapping
  <2> QED
    BY <2>4, <2>5
<1> QED
  BY <1>2, <1>7, <1>8, <1>9, <1>10, <1>12, <1>13, <1>14 DEF Sound

\* The tree of the stage or of the rollback root becomes the mirror.
LEMMA MoveInKeeps ==
    ASSUME Sound, MoveIn
    PROVE  Sound'
<1>1. /\ op.pc = "in" /\ (op.cmd = "materialize" \/ Rolling) /\ at["target"] = None
      /\ op.cmd = "rollback" => at["predecessor"] = Predecessor
      /\ op.cmd = "rollback sdk" => at["sealed"] \in Builds
  BY Now DEF MoveIn, Doing, Positions, RollingBack, Swapping
<1>2. /\ Moved(Incoming, "target") /\ Goes("done", "names")
      /\ budget' = budget /\ hist' = hist
  BY DEF MoveIn
<1>3. Fixed \subseteq Names /\ Clear \cap Fixed = {} /\ Clear \subseteq Names
  BY Now, RootsNamed
<1>4. Incoming \in {"prepared", "predecessor", "sealed"}
  BY <1>1, Now, RootsNamed
<1>5. "target" \in Names /\ Incoming \in Names /\ Incoming # "target"
  BY <1>3, <1>4 DEF Fixed
<1>6. /\ at' = Swap(at, Incoming, "target") /\ at' \in Maps /\ at' \in may'.at
      /\ tree' = tree /\ may' \in MayRecords
      /\ may'.at = may.at \cup {at'} /\ may'.tree = may.tree
      /\ \A t \in Trees : tree'[t] \in may'.tree[t]
      /\ at'["target"] = at[Incoming] /\ at'[Incoming] = None
      /\ \A n \in Names \ {Incoming, "target"} : at'[n] = at[n]
  BY <1>2, <1>5, Now, MovedShows
<1>7. /\ op' \in OpRecords /\ op'.pc = "done" /\ op'.dirty = "names"
      /\ op'.cmd = op.cmd /\ op'.change = op.change /\ op'.retain = op.retain
  BY <1>2, Now, GoesShows DEF Typed, Pcs, Dirts
<1>8. Typed'
  BY <1>2, <1>6, <1>7, Now DEF Typed
<1>9. Notes'
  BY <1>6, <1>7, Now, NotesGoOn
<1>10. Places'
  BY <1>2, <1>5, Now, PlacesMoved
<1>11. CutStays'
  BY <1>1, <1>2, <1>5, Now, Distinct, CutMoved
<1>12. Positions' /\ Noted'
  BY <1>7 DEF Positions, Noted, RollingBack, Swapping
<1>13. Course' /\ Promised'
  <2>1. Promises(at, may.tree, hist.last) /\ Course /\ Proper(at)
    BY Now
  <2>2. ASSUME op.cmd = "materialize"
       PROVE  Promises(at', may.tree, hist.last)
    <3>1. Incoming = "prepared"
      BY <2>2, Now, RootsNamed
    <3>2. at["prepared"] # Predecessor
      BY <1>3, <2>1 DEF Proper, Fixed
    <3>3. at'["sealed"] = at["sealed"] /\ at'["seal prepared"] = at["seal prepared"]
      BY <3>1, <1>3, <1>6 DEF Fixed
    <3>4. hist.last \in Clear => at'[hist.last] = at[hist.last]
      BY <3>1, <1>3, <1>6 DEF Fixed
    <3> QED
      BY <2>1, <3>1, <3>2, <3>3, <3>4, <1>1, <1>6, Distinct DEF Promises
  <2>3. ASSUME op.cmd = "rollback"
       PROVE  Promises(at', may.tree, hist.last)
    <3>1. Incoming = "predecessor"
      BY <2>3, Now, RootsNamed
    <3>2. Marked(may.tree[Predecessor])
      BY <2>1, <2>3, <1>1 DEF Course
    <3>3. /\ at'["sealed"] = at["sealed"] /\ at'["seal prepared"] = at["seal prepared"]
          /\ at'["prepared"] = at["prepared"]
      BY <3>1, <1>3, <1>6 DEF Fixed
    <3>4. Cut(at') => Cut(at)
      BY <3>1, <1>5, <1>6, Now, SwapNotCut
    <3> QED
      BY <2>1, <2>3, <3>1, <3>2, <3>3, <3>4, <1>1, <1>6, Distinct DEF Promises
  <2>4. ASSUME op.cmd = "rollback sdk"
       PROVE  Promises(at', may.tree, hist.last)
    <3>1. Incoming = "sealed"
      BY <2>4, Now, RootsNamed
    <3>2. at'["seal prepared"] = at["seal prepared"] /\ at'["prepared"] = at["prepared"]
      BY <3>1, <1>3, <1>6 DEF Fixed
    <3>3. Cut(at') => Cut(at)
      BY <3>1, <1>5, <1>6, Now, SwapNotCut
    <3> QED
      BY <2>1, <2>4, <3>1, <3>2, <3>3, <1>1, <1>6, Distinct DEF Promises
  <2>5. Promises(at', may.tree, hist.last)
    BY <2>2, <2>3, <2>4, <1>1 DEF Rolling
  <2>6. Promised'
    BY <2>5, <1>2, <1>6, Now, PromisedMoved
  <2>7. Course'
    BY <1>7 DEF Course, Swapping
  <2> QED
    BY <2>6, <2>7
<1> QED
  BY <1>2, <1>8, <1>9, <1>10, <1>11, <1>12, <1>13 DEF Sound

\* The mirror is displaced.
LEMMA MoveOutKeeps ==
    ASSUME Sound, MoveOut
    PROVE  Sound'
<1>1. /\ op.pc = "out" /\ op.dirty = None /\ (op.cmd = "materialize" \/ Rolling)
      /\ op.cmd = "materialize" => at["target"] = Predecessor
      /\ Rolling => at["target"] \in Builds
      /\ op.cmd = "rollback" => at["predecessor"] = Predecessor /\ Marked(may.tree[Predecessor])
      /\ op.cmd = "rollback sdk" => at["sealed"] \in Builds
  BY Now DEF MoveOut, Doing, Positions, Noted, RollingBack, Swapping
<1>2. /\ Moved("target", Outgoing) /\ Goes("in", "names")
      /\ budget' = budget /\ hist' = [hist EXCEPT !.last = op.retain]
  BY DEF MoveOut
<1>3. Fixed \subseteq Names /\ Clear \cap Fixed = {} /\ Clear \subseteq Names
  BY Now, RootsNamed
<1>4. /\ Outgoing \in {"predecessor"} \cup Clear
      /\ op.cmd = "materialize" => Outgoing = "predecessor"
      /\ Rolling => Outgoing = op.retain /\ op.retain \in Clear
  BY <1>1, Now, RootsNamed
<1>5. "target" \in Names /\ Outgoing \in Names /\ Outgoing # "target"
  BY <1>3, <1>4 DEF Fixed
<1>6. /\ at' = Swap(at, "target", Outgoing) /\ at' \in Maps /\ at' \in may'.at
      /\ tree' = tree /\ may' \in MayRecords
      /\ may'.at = may.at \cup {at'} /\ may'.tree = may.tree
      /\ \A t \in Trees : tree'[t] \in may'.tree[t]
      /\ at'[Outgoing] = at["target"] /\ at'["target"] = None
      /\ \A n \in Names \ {Outgoing, "target"} : at'[n] = at[n]
  BY <1>2, <1>5, Now, MovedShows
<1>7. /\ op' \in OpRecords /\ op'.pc = "in" /\ op'.dirty = "names"
      /\ op'.cmd = op.cmd /\ op'.change = op.change /\ op'.retain = op.retain
  BY <1>2, Now, GoesShows DEF Typed, Pcs, Dirts
<1>8. /\ hist' \in HistRecords /\ hist'.last = op.retain
      /\ hist'.cut = hist.cut /\ hist'.strayed = hist.strayed
  <2>1. hist \in HistRecords /\ op.retain \in Retained \cup {None}
    BY Now DEF Typed, OpRecords
  <2> QED
    BY <2>1, <1>2 DEF HistRecords
<1>9. Typed'
  BY <1>2, <1>6, <1>7, <1>8, Now DEF Typed
<1>10. Notes'
  BY <1>6, <1>7, Now, NotesGoOn
<1>11. Places'
  <2>1. at["target"] = Predecessor => Outgoing \in {"target", "predecessor"}
    BY <1>1, <1>4, Distinct
  <2>2. Outgoing = "predecessor" => at["target"] \in {Predecessor, None}
    BY <1>1, <1>3, <1>4 DEF Fixed
  <2> QED
    BY <2>1, <2>2, <1>2, <1>5, Now, PlacesMoved
<1>12. CutStays'
  <2>1. at["predecessor"] \notin Builds
    BY Now, Distinct DEF Proper
  <2>2. at[Outgoing] \in Builds => at["target"] \in Builds
    BY <2>1, <1>1, <1>4
  <2>3. Outgoing # "prepared"
    BY <1>3, <1>4 DEF Fixed
  <2> QED
    BY <2>2, <2>3, <1>2, <1>5, <1>8, Now, CutMoved
<1>13. Outgoing' = Outgoing /\ (Rolling' <=> Rolling)
  BY <1>7, SameRoots
<1>14. Rolling => /\ at'["predecessor"] = at["predecessor"] /\ at'["sealed"] = at["sealed"]
                  /\ at'["prepared"] = at["prepared"]
                  /\ at'["seal prepared"] = at["seal prepared"]
  BY <1>3, <1>4, <1>6 DEF Fixed
<1>15. Positions'
  <2>1. at'[Outgoing] # None
    BY <1>1, <1>6, Distinct
  <2> QED
    BY <2>1, <1>1, <1>6, <1>7, <1>13, <1>14 DEF Positions, Rolling, RollingBack, Swapping
<1>16. Noted'
  BY <1>7 DEF Noted
<1>17. Cut(at') => Cut(at)
  BY <1>5, <1>6, Now, SwapNotCut
<1>18. Course' /\ Promised'
  <2>1. Promises(at, may.tree, hist.last) /\ Course
    BY Now
  <2>2. Course'
    BY <2>1, <1>1, <1>6, <1>7, <1>8, <1>13, <1>17 DEF Course, Rolling, Swapping
  <2>3. may.at = {at}
    BY <2>1, <1>1, Distinct DEF Course
  <2>4. Promises(at, may.tree, hist'.last)
    BY <2>1, <1>1, Distinct DEF Promises
  <2>5. Promises(at', may.tree, hist'.last)
    <3>1. CASE op.cmd = "materialize"
      <4>1. /\ at'["sealed"] = at["sealed"] /\ at'["prepared"] = at["prepared"]
            /\ at'["seal prepared"] = at["seal prepared"]
        BY <3>1, <1>3, <1>4, <1>6 DEF Fixed
      <4>2. hist'.last \notin Clear
        BY <3>1, <1>8, Now, Distinct DEF Notes
      <4> QED
        BY <2>4, <4>1, <4>2, <1>6, <1>17, Distinct DEF Promises
    <3>2. CASE Rolling
      BY <2>4, <3>2, <1>1, <1>4, <1>6, <1>8, <1>14, <1>17, Distinct DEF Promises
    <3> QED
      BY <3>1, <3>2, <1>1
  <2>6. Promised'
    BY <2>3, <2>4, <2>5, <1>6 DEF Promised
  <2> QED
    BY <2>2, <2>6
<1> QED
  BY <1>8, <1>9, <1>10, <1>11, <1>12, <1>15, <1>16, <1>18 DEF Sound

\* The displaced mirror is put back.
LEMMA UndoKeeps ==
    ASSUME Sound, Undo
    PROVE  Sound'
<1>1. /\ op.pc \in {"undo", "last undo"} /\ (op.cmd = "materialize" \/ Rolling)
      /\ at["target"] = None /\ at[Outgoing] # None
      /\ op.cmd = "rollback" => at["predecessor"] = Predecessor
      /\ op.cmd = "rollback sdk" => at["sealed"] \in Builds
  BY Now DEF Undo, Doing, Positions, RollingBack, Swapping
<1>2. /\ Moved(Outgoing, "target") /\ Goes("clean", "names")
      /\ budget' = budget /\ hist' = hist
  BY DEF Undo
<1>3. Fixed \subseteq Names /\ Clear \cap Fixed = {} /\ Clear \subseteq Names
  BY Now, RootsNamed
<1>4. /\ Outgoing \in {"predecessor"} \cup Clear
      /\ op.cmd = "materialize" => Outgoing = "predecessor"
      /\ Rolling => Outgoing = op.retain /\ op.retain \in Clear
  BY <1>1, Now, RootsNamed
<1>5. "target" \in Names /\ Outgoing \in Names /\ Outgoing # "target"
  BY <1>3, <1>4 DEF Fixed
<1>6. /\ at' = Swap(at, Outgoing, "target") /\ at' \in Maps /\ at' \in may'.at
      /\ tree' = tree /\ may' \in MayRecords
      /\ may'.at = may.at \cup {at'} /\ may'.tree = may.tree
      /\ \A t \in Trees : tree'[t] \in may'.tree[t]
      /\ at'["target"] = at[Outgoing] /\ at'[Outgoing] = None
      /\ \A n \in Names \ {Outgoing, "target"} : at'[n] = at[n]
  BY <1>2, <1>5, Now, MovedShows
<1>7. /\ op' \in OpRecords /\ op'.pc = "clean" /\ op'.dirty = "names"
      /\ op'.cmd = op.cmd /\ op'.change = op.change /\ op'.retain = op.retain
  BY <1>2, Now, GoesShows DEF Typed, Pcs, Dirts
<1>8. Typed'
  BY <1>2, <1>6, <1>7, Now DEF Typed
<1>9. Notes'
  BY <1>6, <1>7, Now, NotesGoOn
<1>10. Places'
  BY <1>2, <1>5, Now, PlacesMoved
<1>11. CutStays'
  BY <1>1, <1>2, <1>5, Now, Distinct, CutMoved
<1>12. Rolling' <=> Rolling
  BY <1>7, SameRoots
<1>13. Rolling => /\ at'["predecessor"] = at["predecessor"] /\ at'["sealed"] = at["sealed"]
                  /\ at'["prepared"] = at["prepared"]
                  /\ at'["seal prepared"] = at["seal prepared"]
  BY <1>3, <1>4, <1>6 DEF Fixed
<1>14. Rolling => at'["target"] \in Builds
  <2>1. at[Outgoing] \in Trees
    BY <1>1, <1>5, Now DEF Maps
  <2>2. Rolling => at[Outgoing] # Predecessor
    BY <1>3, <1>4, <1>5, Now DEF Proper, Fixed
  <2> QED
    BY <2>1, <2>2, <1>6, Distinct
<1>15. Positions'
  BY <1>1, <1>7, <1>12, <1>13, <1>14 DEF Positions, Rolling, RollingBack, Swapping
<1>16. Noted'
  BY <1>7 DEF Noted
<1>17. Course' /\ Promised'
  <2>1. Promises(at, may.tree, hist.last) /\ Course
    BY Now
  <2>2. Course'
    BY <1>7 DEF Course, Swapping
  <2>3. Cut(at') => Cut(at)
    <3>1. Outgoing # "prepared"
      BY <1>3, <1>4 DEF Fixed
    <3> QED
      BY <3>1, <1>5, <1>6, Now, SwapNotCut
  <2>4. Promises(at', may.tree, hist.last)
    <3>1. CASE op.cmd = "materialize"
      <4>1. /\ at'["sealed"] = at["sealed"] /\ at'["prepared"] = at["prepared"]
            /\ at'["seal prepared"] = at["seal prepared"]
        BY <3>1, <1>3, <1>4, <1>6 DEF Fixed
      <4>2. ~Cut(at')
        BY <2>1, <2>3, <3>1, <1>1 DEF Course, Swapping
      <4>3. at'["target"] \notin Builds /\ at'["target"] # None
        <5>1. at["predecessor"] \in {Predecessor, None}
          BY Now DEF Proper
        <5> QED
          BY <5>1, <3>1, <1>1, <1>4, <1>6, Distinct
      <4> QED
        BY <2>1, <4>1, <4>2, <4>3 DEF Promises
    <3>2. CASE Rolling
      <4>1. op.retain = hist.last
        BY <2>1, <3>2, <1>1 DEF Course, Swapping
      <4> QED
        BY <2>1, <2>3, <3>2, <4>1, <1>1, <1>4, <1>6, <1>13, <1>14, Distinct DEF Promises
    <3> QED
      BY <3>1, <3>2, <1>1
  <2>5. Promised'
    BY <2>4, <1>2, <1>6, Now, PromisedMoved
  <2> QED
    BY <2>2, <2>5
<1> QED
  BY <1>2, <1>8, <1>9, <1>10, <1>11, <1>15, <1>16, <1>17 DEF Sound

\* A tree is built and its directory renamed to the stage.
LEMMA BuildShows ==
    ASSUME Typed, Build
    PROVE  \E t \in Builds :
              /\ Unused(t) /\ at'[Stage] = t
              /\ \A n \in Names \ {Stage} : at'[n] = at[n]
              /\ may'.tree[t] = {SdkTree(op.change)}
              /\ \A u \in Trees \ {t} : may'.tree[u] = may.tree[u]
              /\ may'.at = may.at \cup {at'} /\ at' \in Maps /\ Typed' /\ hist' = hist
              /\ ~SdkTree(op.change).bound /\ SdkTree(op.change).marker = None
              /\ SdkTree(op.change).receipt = None
              /\ op.pc = "build" /\ op.dirty = None /\ op'.dirty = "names"
              /\ op'.pc = IF op.cmd = "refresh" THEN "seal" ELSE "out"
              /\ op'.cmd = op.cmd /\ op'.change = op.change /\ op'.retain = op.retain
<1> DEFINE new == SdkTree(op.change)
<1>1. /\ op.pc = "build" /\ op.dirty = None
      /\ Goes(IF op.cmd = "refresh" THEN "seal" ELSE "out", "names")
      /\ budget' = budget /\ hist' = hist
  BY DEF Build, Doing
<1>2. PICK t \in Builds :
          /\ Unused(t) /\ at' = [at EXCEPT ![Stage] = t]
          /\ tree' = [tree EXCEPT ![t] = new]
          /\ may' = [at |-> may.at \cup {[at EXCEPT ![Stage] = t]},
                     tree |-> [may.tree EXCEPT ![t] = {new}]]
  BY DEF Build
<1>3. Stage \in Names /\ t \in Trees /\ at \in Maps
  BY Distinct DEF Names, Fixed, Stage, Typed, MayRecords
<1>4. /\ at' \in Maps /\ at'[Stage] = t
      /\ \A n \in Names \ {Stage} : at'[n] = at[n]
  BY <1>2, <1>3 DEF Maps
<1>5. /\ new \in TreeRecords /\ ~new.bound /\ new.marker = None /\ new.receipt = None
  BY DEF Typed, OpRecords, TreeRecords, SdkTree, Inspections
<1> HIDE DEF new
<1>6. /\ tree' \in [Trees -> TreeRecords] /\ tree'[t] = new
      /\ \A u \in Trees \ {t} : tree'[u] = tree[u]
  BY <1>2, <1>3, <1>5 DEF Typed
<1>7. /\ may'.tree \in [Trees -> SUBSET TreeRecords] /\ may'.tree[t] = {new}
      /\ \A u \in Trees \ {t} : may'.tree[u] = may.tree[u]
      /\ may'.at = may.at \cup {at'} /\ at' \in may'.at
  BY <1>2, <1>3, <1>5 DEF Typed, MayRecords
<1>8. may' \in MayRecords
  <2>1. may'.at \subseteq Maps
    BY <1>4, <1>7 DEF Typed, MayRecords
  <2>2. may' = [at |-> may'.at, tree |-> may'.tree]
    BY <1>2
  <2> QED
    BY <2>1, <2>2, <1>7 DEF MayRecords
<1>9. /\ op' \in OpRecords /\ op'.pc = IF op.cmd = "refresh" THEN "seal" ELSE "out"
      /\ op'.dirty = "names"
      /\ op'.cmd = op.cmd /\ op'.change = op.change /\ op'.retain = op.retain
  <2>1. op \in OpRecords /\ "names" \in Dirts /\ {"seal", "out"} \subseteq Pcs
    BY DEF Typed, Pcs, Dirts
  <2>2. CASE op.cmd = "refresh"
    BY <2>1, <2>2, <1>1, GoesShows
  <2>3. CASE op.cmd # "refresh"
    BY <2>1, <2>3, <1>1, GoesShows
  <2> QED
    BY <2>2, <2>3
<1>10. Typed'
  <2>1. \A u \in Trees : tree'[u] \in may'.tree[u]
    BY <1>3, <1>6, <1>7 DEF Typed
  <2> QED
    BY <2>1, <1>1, <1>6, <1>7, <1>8, <1>9 DEF Typed
<1> QED
  BY <1>1, <1>2, <1>4, <1>5, <1>7, <1>9, <1>10 DEF new

\* And it binds none.
LEMMA BuildKeeps ==
    ASSUME Sound, Build
    PROVE  Sound'
<1> DEFINE new == SdkTree(op.change)
<1>1. PICK t \in Builds :
          /\ Unused(t) /\ at'[Stage] = t
          /\ \A n \in Names \ {Stage} : at'[n] = at[n]
          /\ may'.tree[t] = {new}
          /\ \A u \in Trees \ {t} : may'.tree[u] = may.tree[u]
          /\ may'.at = may.at \cup {at'} /\ at' \in Maps /\ Typed' /\ hist' = hist
          /\ ~new.bound /\ new.marker = None /\ new.receipt = None
          /\ op.pc = "build" /\ op.dirty = None /\ op'.dirty = "names"
          /\ op'.pc = IF op.cmd = "refresh" THEN "seal" ELSE "out"
          /\ op'.cmd = op.cmd /\ op'.change = op.change /\ op'.retain = op.retain
  BY Now, BuildShows
<1> HIDE DEF new
<1>2. /\ op.cmd \in {"materialize", "refresh"}
      /\ op.cmd = "materialize" => at["target"] = Predecessor
      /\ op.cmd = "refresh" => at["target"] \in Builds
  BY <1>1, Now DEF Positions
<1>3. /\ Fixed \subseteq Names /\ Clear \cap Fixed = {} /\ Clear \subseteq Names
      /\ Stage \in {"prepared", "seal prepared"} /\ Stage \in Names
      /\ op.cmd = "materialize" => Stage = "prepared"
      /\ op.cmd = "refresh" => Stage = "seal prepared"
  BY Now, RootsNamed DEF Fixed, Stage
<1>4. t \in Trees
  BY Distinct
<1>5. Notes'
  BY <1>1, <1>2, Now, Distinct DEF Notes, Rolling
<1>6. Places'
  <2>1. \A n \in Names : at[n] # t
    BY <1>1, Now DEF Unused
  <2>2. "predecessor" \in Names /\ "predecessor" # Stage
    BY <1>3 DEF Fixed
  <2>3. Proper(at')
    <3>1. Proper(at)
      BY Now DEF Places
    <3>2. ASSUME NEW k \in Names, NEW n \in Names, at'[k] = at'[n], at'[k] # None
          PROVE  k = n
      BY <3>1, <3>2, <2>1, <1>1 DEF Proper
    <3>3. ASSUME NEW n \in Names, at'[n] = Predecessor
          PROVE  n \in {"target", "predecessor"}
      <4>1. t # Predecessor
        BY Distinct
      <4> QED
        BY <3>1, <3>3, <4>1, <1>1 DEF Proper
    <3>4. at'["predecessor"] \in {Predecessor, None}
      BY <3>1, <2>2, <1>1 DEF Proper
    <3> QED
      BY <3>2, <3>3, <3>4 DEF Proper
  <2> QED
    BY <2>3, <1>1, Now DEF Places
<1>7. CutStays'
  <2>1. Cut(at) => Cut(at')
    BY <1>3, <1>1 DEF Cut
  <2> QED
    BY <2>1, <1>1, Now DEF CutStays
<1>8. /\ at'["target"] = at["target"] /\ at'["sealed"] = at["sealed"]
      /\ op.cmd = "refresh" => at'["prepared"] = at["prepared"]
      /\ op.cmd = "materialize" => at'["seal prepared"] = at["seal prepared"]
  BY <1>3, <1>1 DEF Fixed
<1>9. Positions'
  BY <1>1, <1>2, <1>3, <1>8 DEF Positions, Rolling, RollingBack, Swapping
<1>10. Noted'
  BY <1>1, <1>2 DEF Noted
<1>11. Course' /\ Promised'
  <2>1. Promised /\ Course /\ Promises(at, may.tree, hist.last)
    BY Now
  <2>2. op.cmd = "materialize" => ~Cut(at')
    <3>1. op.cmd = "materialize" => ~Cut(at)
      BY <2>1, <1>1, <1>2 DEF Course
    <3> QED
      BY <3>1, <1>3, <1>1 DEF Cut
  <2>3. Course'
    BY <2>2, <1>1, <1>2, Distinct DEF Course, Rolling, Swapping
  <2>4. ~Bound(may'.tree[t])
    BY <1>1 DEF Bound
  <2>5. /\ Marked(may.tree[Predecessor]) => Marked(may'.tree[Predecessor])
        /\ \A u \in Builds : Bound(may'.tree[u]) => Bound(may.tree[u])
    BY <2>4, <1>1, Distinct
  <2>6. ASSUME NEW m \in may.at
        PROVE  Promises(m, may'.tree, hist.last)
    BY <2>1, <2>5, PromiseKept DEF Promised
  <2>7. Promises(at, may'.tree, hist.last)
    BY <2>6, Now
  <2>8. Promises(at', may'.tree, hist.last)
    <3>1. CASE op.cmd = "materialize"
      BY <2>2, <2>4, <2>7, <3>1, <1>1, <1>2, <1>3, <1>8, Distinct DEF Promises
    <3>2. CASE op.cmd = "refresh"
      <4>1. Cut(at)
        BY <3>2, <1>1, <1>2, <1>3 DEF Cut, Fixed
      <4> QED
        BY <2>4, <2>7, <3>2, <4>1, <1>1, <1>2, <1>3, <1>8, Distinct DEF Promises
    <3> QED
      BY <3>1, <3>2, <1>1, <1>2
  <2>9. Promised'
    BY <2>6, <2>8, <1>1 DEF Promised
  <2> QED
    BY <2>3, <2>9
<1> QED
  BY <1>1, <1>5, <1>6, <1>7, <1>9, <1>10, <1>11 DEF Sound

-------------------------------------------------------------------------------
(* The notes, the manifest and the fsyncs.                                 *)

\* A new version of a tree in its place.
LEMMA WroteKeeps ==
    ASSUME Sound, NEW t \in Trees, NEW v \in TreeRecords, Wrote(t, v),
           t \in Builds => v.marker = None, t = Predecessor => v.receipt = None,
           op' \in OpRecords, op'.cmd = op.cmd, op'.change = op.change,
           op'.retain = op.retain, budget' = budget, hist' \in HistRecords,
           hist'.cut = hist.cut
    PROVE  Typed' /\ Notes' /\ Places' /\ CutStays'
<1>1. /\ at' = at /\ tree' \in [Trees -> TreeRecords]
      /\ may' \in MayRecords /\ may'.at = may.at
      /\ may'.tree[t] = may.tree[t] \cup {v}
      /\ \A u \in Trees \ {t} : may'.tree[u] = may.tree[u]
      /\ \A u \in Trees : tree'[u] \in may'.tree[u]
  BY Now, WroteShows
<1>2. Typed'
  BY <1>1, Now DEF Typed
<1>3. Notes'
  BY <1>1, Now, Distinct DEF Notes, Rolling
<1>4. Places' /\ CutStays'
  BY <1>1, Now DEF Places, CutStays
<1> QED
  BY <1>2, <1>3, <1>4

\* The versions of now are among those that a power loss may leave.
LEMMA VersionOfNow ==
    ASSUME Sound, NEW t \in Trees
    PROVE  /\ tree[t] \in TreeRecords /\ tree[t] \in may.tree[t]
           /\ t \in Builds => tree[t].marker = None
           /\ t = Predecessor => tree[t].receipt = None
           /\ tree[t].bound => Bound(may.tree[t])
  BY Now DEF Typed, Notes, Bound

\* A version that differs in its marker, or in its receipt.
LEMMA NewMarker ==
    ASSUME NEW v \in TreeRecords, NEW c \in Changes \cup {None}
    PROVE  LET w == [v EXCEPT !.marker = c] IN
           w \in TreeRecords /\ w.marker = c /\ w.receipt = v.receipt /\ w.bound = v.bound
  BY DEF TreeRecords

LEMMA NewReceipt ==
    ASSUME NEW v \in TreeRecords, NEW c \in Changes \cup {None}, NEW saw \in Inspections
    PROVE  LET w == [v EXCEPT !.receipt = c, !.saw = saw] IN
           w \in TreeRecords /\ w.receipt = c /\ w.marker = v.marker /\ w.bound = v.bound
<1> DEFINE u == [v EXCEPT !.receipt = c]
<1>1. u \in TreeRecords /\ u.receipt = c /\ u.marker = v.marker /\ u.bound = v.bound
  BY DEF TreeRecords
<1>2. [v EXCEPT !.receipt = c, !.saw = saw] = [u EXCEPT !.saw = saw]
  BY DEF TreeRecords
<1> HIDE DEF u
<1> QED
  BY <1>1, <1>2 DEF TreeRecords

\* A version with the manifest of a change.
LEMMA NewManifest ==
    ASSUME NEW v \in TreeRecords, NEW c \in Changes \cup {None}
    PROVE  LET w == [v EXCEPT !.change = c, !.ledger = TRUE, !.bound = TRUE, !.stamp = @ + 1] IN
           w \in TreeRecords /\ w.marker = v.marker /\ w.receipt = v.receipt
<1> DEFINE w1 == [v EXCEPT !.change = c]
           w2 == [w1 EXCEPT !.ledger = TRUE]
           w3 == [w2 EXCEPT !.bound = TRUE]
<1>1. w1 \in TreeRecords /\ w1.marker = v.marker /\ w1.receipt = v.receipt /\ w1.stamp = v.stamp
  BY DEF TreeRecords
<1>2. [v EXCEPT !.change = c, !.ledger = TRUE, !.bound = TRUE, !.stamp = @ + 1]
         = [w3 EXCEPT !.stamp = @ + 1]
  BY DEF TreeRecords
<1> HIDE DEF w1
<1>3. w2 \in TreeRecords /\ w2.marker = v.marker /\ w2.receipt = v.receipt /\ w2.stamp = v.stamp
  BY <1>1 DEF TreeRecords
<1> HIDE DEF w2
<1>4. w3 \in TreeRecords /\ w3.marker = v.marker /\ w3.receipt = v.receipt /\ w3.stamp = v.stamp
  BY <1>3 DEF TreeRecords
<1> HIDE DEF w3
<1> QED
  BY <1>2, <1>4 DEF TreeRecords

\* The mirror's manifest binds the sealed tree.
LEMMA WriteManifestKeeps ==
    ASSUME Sound, WriteManifest
    PROVE  Sound'
<1> DEFINE t == at["target"]
           v == [tree[t] EXCEPT !.change = op.change, !.ledger = TRUE,
                                !.bound = TRUE, !.stamp = @ + 1]
<1>1. /\ op.pc = "manifest" /\ op.dirty = None /\ op.cmd = "refresh"
      /\ t \in Builds /\ at["sealed"] \in Builds
  BY Now DEF WriteManifest, Doing, Positions
<1>2. t \in Trees
  BY <1>1, Distinct
<1>3. /\ v \in TreeRecords /\ v.marker = None
  <2>1. op.change \in Changes \cup {None}
    BY Now DEF Typed, OpRecords
  <2> QED
    BY <2>1, <1>1, <1>2, VersionOfNow, NewManifest
<1>4. Wrote(t, v) /\ Goes("done", t) /\ budget' = budget /\ hist' = hist
  BY DEF WriteManifest, In
<1> HIDE DEF v
<1>5. /\ at' = at /\ may'.at = may.at
      /\ \A u \in Trees \ {t} : may'.tree[u] = may.tree[u]
  BY <1>2, <1>3, <1>4, Now, WroteShows
<1>6. /\ op' \in OpRecords /\ op'.pc = "done"
      /\ op'.cmd = op.cmd /\ op'.change = op.change /\ op'.retain = op.retain
  BY <1>2, <1>4, Now, GoesShows DEF Typed, Pcs, Dirts
<1>7. Typed' /\ Notes' /\ Places' /\ CutStays'
  BY <1>1, <1>2, <1>3, <1>4, <1>6, Now, Distinct, WroteKeeps DEF Typed
<1>8. Positions' /\ Noted'
  BY <1>6 DEF Positions, Noted, RollingBack, Swapping
<1>9. Course' /\ Promised'
  <2>1. Promises(at, may.tree, hist.last) /\ may.at = {at}
    BY <1>1, Now, Distinct DEF Course
  <2>2. Course'
    BY <1>6 DEF Course, Swapping
  <2>3. \A n \in {"prepared", "seal prepared", "sealed"} : at[n] # t
    <3>1. Fixed \subseteq Names
      BY Now, RootsNamed
    <3> QED
      BY <3>1, <1>1, Now, Distinct DEF Proper, Fixed
  <2>4. Promises(at, may'.tree, hist.last)
    BY <2>1, <2>3, <1>1, <1>5, Distinct DEF Promises
  <2>5. Promised'
    BY <2>1, <2>4, <1>4, <1>5 DEF Promised
  <2> QED
    BY <2>2, <2>5
<1> QED
  BY <1>4, <1>7, <1>8, <1>9 DEF Sound

\* The marker of an earlier attempt is taken away while the mirror is an SDK tree.
LEMMA UnmarkKeeps ==
    ASSUME Sound, Unmark
    PROVE  Sound'
<1> DEFINE v == [tree[Predecessor] EXCEPT !.marker = None]
<1>1. /\ op.pc = "unmark" /\ op.dirty = None /\ op.cmd = "rollback" /\ Rolling
      /\ at["target"] \in Builds /\ at["predecessor"] = Predecessor
  BY Now DEF Unmark, Doing, Positions, Rolling, RollingBack, Swapping
<1>2. Predecessor \in Trees
  BY Distinct
<1>3. v \in TreeRecords /\ v.marker = None /\ v.receipt = None
  BY <1>2, VersionOfNow, NewMarker
<1>4. /\ Wrote(Predecessor, v) /\ Goes("note", Predecessor)
      /\ budget' = budget /\ hist' = hist
  BY DEF Unmark
<1> HIDE DEF v
<1>5. /\ at' = at /\ may'.at = may.at
      /\ \A u \in Trees \ {Predecessor} : may'.tree[u] = may.tree[u]
  BY <1>2, <1>3, <1>4, Now, WroteShows
<1>6. /\ op' \in OpRecords /\ op'.pc = "note" /\ op'.dirty = Predecessor
      /\ op'.cmd = op.cmd /\ op'.change = op.change /\ op'.retain = op.retain
  <2>1. op \in OpRecords /\ "note" \in Pcs /\ Predecessor \in Dirts
    BY <1>2, Now DEF Typed, Pcs, Dirts
  <2> QED
    BY <2>1, <1>4, GoesShows
<1>7. Typed' /\ Notes' /\ Places' /\ CutStays'
  BY <1>2, <1>3, <1>4, <1>6, Now, Distinct, WroteKeeps DEF Typed
<1>8. Positions' /\ Noted'
  BY <1>1, <1>5, <1>6 DEF Positions, Noted, Rolling, RollingBack, Swapping
<1>9. Course' /\ Promised'
  <2>1. Promises(at, may.tree, hist.last) /\ may.at = {at}
    BY <1>1, Now, Distinct DEF Course
  <2>2. Course'
    BY <2>1, <1>1, <1>5, <1>6 DEF Course, Swapping
  <2>3. \A u \in Builds : may'.tree[u] = may.tree[u]
    BY <1>5, Distinct
  <2>4. Promises(at, may'.tree, hist.last)
    BY <2>1, <2>3, <1>1, Distinct DEF Promises
  <2>5. Promised'
    BY <2>1, <2>4, <1>4, <1>5 DEF Promised
  <2> QED
    BY <2>2, <2>5
<1> QED
  BY <1>4, <1>7, <1>8, <1>9 DEF Sound

\* The note of the rollback is written into the tree to be brought back.
LEMMA WriteNoteKeeps ==
    ASSUME Sound, WriteNote
    PROVE  Sound'
<1> DEFINE t == at[Incoming]
           v == IF op.cmd = "rollback" THEN [tree[t] EXCEPT !.marker = op.change]
                ELSE [tree[t] EXCEPT !.receipt = op.change, !.saw = op.saw]
<1>1. /\ op.pc = "note" /\ op.dirty = None /\ Rolling /\ op.cmd \in {"rollback", "rollback sdk"}
      /\ at["target"] \in Builds
      /\ op.cmd = "rollback" => at["predecessor"] = Predecessor
      /\ op.cmd = "rollback sdk" => at["sealed"] \in Builds
  BY Now DEF WriteNote, Doing, Positions, Rolling, RollingBack, Swapping
<1>2. /\ op.cmd = "rollback" => t = Predecessor
      /\ op.cmd = "rollback sdk" => t \in Builds
      /\ t \in Trees /\ op.change \in Changes
  BY <1>1, Now, RootsNamed, Distinct DEF Notes
<1>3. /\ v \in TreeRecords /\ v.bound = tree[t].bound
      /\ op.cmd = "rollback" => v.marker = op.change /\ v.receipt = None
      /\ op.cmd = "rollback sdk" => v.marker = None
  <2>1. op.saw \in Inspections
    BY Now DEF Typed, OpRecords
  <2>2. CASE op.cmd = "rollback"
    <3>1. v = [tree[t] EXCEPT !.marker = op.change]
      BY <2>2
    <3>2. tree[t] \in TreeRecords /\ tree[t].receipt = None
      BY <2>2, <1>2, VersionOfNow
    <3> HIDE DEF v, t
    <3> QED
      BY <2>2, <3>1, <3>2, <1>2, NewMarker
  <2>3. CASE op.cmd = "rollback sdk"
    <3>1. v = [tree[t] EXCEPT !.receipt = op.change, !.saw = op.saw]
      BY <2>3
    <3>2. tree[t] \in TreeRecords /\ tree[t].marker = None
      BY <2>3, <1>2, VersionOfNow
    <3>3. op.change \in Changes \cup {None}
      BY <1>2
    <3> HIDE DEF v, t
    <3> DEFINE s == tree[t]
               w == [s EXCEPT !.receipt = op.change, !.saw = op.saw]
    <3>4. w \in TreeRecords /\ w.marker = s.marker /\ w.bound = s.bound
      <4> HIDE DEF s
      <4>1. s \in TreeRecords
        BY <3>2 DEF s
      <4> QED
        BY <2>1, <3>3, <4>1, NewReceipt
    <3>5. v = w
      BY <3>1
    <3> HIDE DEF w
    <3> QED
      BY <2>3, <3>2, <3>4, <3>5
  <2> QED
    BY <2>2, <2>3, <1>1
<1>4. Wrote(t, v) /\ Goes("out", t) /\ budget' = budget /\ hist' = hist
  BY DEF WriteNote, In
<1> HIDE DEF v
<1>5. /\ at' = at /\ may'.at = may.at /\ tree'[t] = v
      /\ may'.tree[t] = may.tree[t] \cup {v}
      /\ \A u \in Trees \ {t} : may'.tree[u] = may.tree[u]
  BY <1>2, <1>3, <1>4, Now, WroteShows
<1>6. /\ op' \in OpRecords /\ op'.pc = "out" /\ op'.dirty = t
      /\ op'.cmd = op.cmd /\ op'.change = op.change /\ op'.retain = op.retain
  BY <1>2, <1>4, Now, GoesShows DEF Typed, Pcs, Dirts
<1>7. Typed' /\ Notes' /\ Places' /\ CutStays'
  <2>1. (t \in Builds => v.marker = None) /\ (t = Predecessor => v.receipt = None)
    BY <1>1, <1>2, <1>3, Distinct
  <2>2. hist' \in HistRecords /\ hist'.cut = hist.cut
    BY <1>4, Now DEF Typed
  <2> QED
    BY <2>1, <2>2, <1>2, <1>3, <1>4, <1>6, WroteKeeps
<1>8. Positions'
  BY <1>1, <1>5, <1>6 DEF Positions, Rolling, RollingBack, Swapping
<1>9. Noted'
  BY <1>2, <1>3, <1>5, <1>6, Distinct DEF Noted
<1>10. Course' /\ Promised'
  <2>1. Promised /\ may.at = {at}
    BY <1>1, Now, Distinct DEF Course
  <2>2. Course'
    BY <2>1, <1>1, <1>5, <1>6 DEF Course, Swapping
  <2>3. Marked(may.tree[Predecessor]) => Marked(may'.tree[Predecessor])
    BY <1>1, <1>2, <1>3, <1>5, Distinct DEF Marked
  <2>4. \A u \in Builds : Bound(may'.tree[u]) => Bound(may.tree[u])
    BY <1>2, <1>3, <1>5, VersionOfNow, Distinct DEF Bound
  <2>5. Promised'
    BY <2>1, <2>3, <2>4, <1>4, <1>5, PromiseKept DEF Promised
  <2> QED
    BY <2>2, <2>5
<1> QED
  BY <1>4, <1>7, <1>8, <1>9, <1>10 DEF Sound

\* The parent directory, or a tree, is durable now.
LEMMA SyncShows ==
    ASSUME Typed, Sync
    PROVE  /\ op.dirty \in Trees \cup {"names"} /\ at' = at /\ tree' = tree /\ Typed'
           /\ op'.pc = op.pc /\ op'.dirty = None
           /\ op'.cmd = op.cmd /\ op'.change = op.change /\ op'.retain = op.retain
           /\ hist'.last = hist.last /\ hist'.strayed = hist.strayed
           /\ hist'.cut <=> hist.cut \/ (op.dirty = "names" /\ at["target"] \in Builds)
           /\ may'.at = IF op.dirty = "names" THEN {at} ELSE may.at
           /\ \A t \in Trees : may'.tree[t] = IF op.dirty = t THEN {tree[t]} ELSE may.tree[t]
           /\ at \in may'.at /\ may'.at \subseteq may.at
           /\ \A t \in Trees : tree[t] \in may'.tree[t] /\ may'.tree[t] \subseteq may.tree[t]
<1>1. op.dirty # None /\ op.dirty \in Trees \cup {"names"} /\ op \in OpRecords
  BY DEF Sync, Typed, OpRecords, Dirts
<1>2. /\ at' = at /\ tree' = tree /\ budget' = budget
      /\ op' = [op EXCEPT !.dirty = None]
      /\ hist' = [hist EXCEPT !.cut = @ \/ (op.dirty = "names" /\ IsSdk("target"))]
      /\ op.dirty = "names" => may' = [may EXCEPT !.at = {at}]
      /\ op.dirty # "names" => may' = [may EXCEPT !.tree[op.dirty] = {tree[op.dirty]}]
  BY DEF Sync
<1>3. /\ op' \in OpRecords /\ op'.pc = op.pc /\ op'.dirty = None
      /\ op'.cmd = op.cmd /\ op'.change = op.change /\ op'.retain = op.retain
  BY <1>1, <1>2 DEF OpRecords, Dirts
<1>4. /\ hist' \in HistRecords /\ hist'.last = hist.last /\ hist'.strayed = hist.strayed
      /\ hist'.cut <=> hist.cut \/ (op.dirty = "names" /\ at["target"] \in Builds)
  BY <1>2 DEF Typed, HistRecords, IsSdk
<1>5. /\ may' \in MayRecords
      /\ may'.at = IF op.dirty = "names" THEN {at} ELSE may.at
      /\ \A t \in Trees : may'.tree[t] = IF op.dirty = t THEN {tree[t]} ELSE may.tree[t]
  <2>1. /\ may \in MayRecords /\ at \in Maps /\ tree \in [Trees -> TreeRecords]
        /\ may.tree \in [Trees -> SUBSET TreeRecords]
    BY DEF Typed, MayRecords
  <2>2. CASE op.dirty = "names"
    BY <2>1, <2>2, <1>2, Distinct DEF MayRecords
  <2>3. CASE op.dirty \in Trees
    <3> DEFINE f == [may.tree EXCEPT ![op.dirty] = {tree[op.dirty]}]
    <3>1. /\ f \in [Trees -> SUBSET TreeRecords]
          /\ \A t \in Trees : f[t] = IF op.dirty = t THEN {tree[t]} ELSE may.tree[t]
      BY <2>1, <2>3
    <3>2. may' = [may EXCEPT !.tree = f] /\ op.dirty # "names"
      BY <2>1, <2>3, <1>2, Distinct DEF MayRecords
    <3> HIDE DEF f
    <3> QED
      BY <2>1, <3>1, <3>2 DEF MayRecords
  <2> QED
    BY <2>2, <2>3, <1>1
<1>6. /\ at \in may'.at /\ may'.at \subseteq may.at
      /\ \A t \in Trees : tree[t] \in may'.tree[t] /\ may'.tree[t] \subseteq may.tree[t]
  BY <1>5 DEF Typed
<1>7. Typed'
  BY <1>2, <1>3, <1>4, <1>5, <1>6 DEF Typed
<1> QED
  BY <1>1, <1>2, <1>3, <1>4, <1>5, <1>6, <1>7

\* And so are the promises.
LEMMA SyncKeeps ==
    ASSUME Sound, Sync
    PROVE  Sound'
<1>1. /\ op.dirty \in Trees \cup {"names"} /\ at' = at /\ tree' = tree /\ Typed'
      /\ op'.pc = op.pc /\ op'.dirty = None
      /\ op'.cmd = op.cmd /\ op'.change = op.change /\ op'.retain = op.retain
      /\ hist'.last = hist.last /\ hist'.strayed = hist.strayed
      /\ hist'.cut <=> hist.cut \/ (op.dirty = "names" /\ at["target"] \in Builds)
      /\ may'.at = IF op.dirty = "names" THEN {at} ELSE may.at
      /\ \A t \in Trees : may'.tree[t] = IF op.dirty = t THEN {tree[t]} ELSE may.tree[t]
      /\ at \in may'.at /\ may'.at \subseteq may.at
      /\ \A t \in Trees : tree[t] \in may'.tree[t] /\ may'.tree[t] \subseteq may.tree[t]
  BY Now, SyncShows
<1>2. Notes'
  BY <1>1, Now, Distinct DEF Notes, Rolling
<1>3. Places'
  BY <1>1, Now DEF Places
<1>4. CutStays'
  <2>1. CASE hist.cut
    BY <2>1, <1>1, Now DEF CutStays
  <2>2. CASE op.dirty = "names" /\ at["target"] \in Builds
    <3>1. "target" \in Names \ {"prepared"}
      BY DEF Names, Fixed
    <3> QED
      BY <2>2, <3>1, <1>1 DEF CutStays, Cut
  <2> QED
    BY <2>1, <2>2, <1>1 DEF CutStays
<1>5. /\ Outgoing' = Outgoing /\ Incoming' = Incoming /\ (Rolling' <=> Rolling)
  BY <1>1, SameRoots
<1>6. Positions'
  BY <1>1, <1>5, Now DEF Positions
<1>7. Noted'
  <2>1. ASSUME op.pc = "out", op.cmd = "rollback"
        PROVE  tree[Predecessor].marker # None /\ Marked(may'.tree[Predecessor])
    <3>1. tree[Predecessor].marker # None /\ op.dirty = Predecessor
      BY <2>1, <1>1, Now, Distinct DEF Noted
    <3>2. may'.tree[Predecessor] = {tree[Predecessor]}
      BY <3>1, <1>1, Distinct
    <3> QED
      BY <3>1, <3>2 DEF Marked
  <2> QED
    BY <2>1, <1>1, <1>5, Now DEF Noted, In
<1>8. Course' /\ Promised'
  <2>1. Course /\ Promised
    BY Now
  <2>2. may.at = {at} => may'.at = {at}
    BY <1>1
  <2>3. Marked(may.tree[Predecessor]) => Marked(may'.tree[Predecessor])
    BY <1>1, Distinct, FewerVersions
  <2>4. Course'
    BY <2>1, <2>2, <2>3, <1>1, <1>5 DEF Course
  <2>5. \A t \in Builds : Bound(may'.tree[t]) => Bound(may.tree[t])
    BY <1>1, Distinct, FewerVersions
  <2>6. Promised'
    BY <2>1, <2>3, <2>5, <1>1, PromiseKept DEF Promised
  <2> QED
    BY <2>4, <2>6
<1> QED
  BY <1>1, <1>2, <1>3, <1>4, <1>6, <1>7, <1>8 DEF Sound

\* The failed rollback takes its note away.
LEMMA CleanKeeps ==
    ASSUME Sound, Clean, ~hist'.strayed
    PROVE  Sound'
<1>1. op.pc = "clean" /\ op.dirty = None /\ op \in OpRecords
  BY Now DEF Clean, Doing, Typed
<1>2. /\ budget' = budget /\ hist' = [hist EXCEPT !.strayed = @ \/ may.at # {at}]
  BY DEF Clean
<1>3. /\ hist' \in HistRecords /\ hist'.last = hist.last /\ hist'.cut = hist.cut
      /\ hist'.strayed <=> hist.strayed \/ may.at # {at}
  BY <1>2, Now DEF Typed, HistRecords
<1>4. CASE ~Rolling
  <2>1. Goes("failed", None) /\ at' = at /\ tree' = tree /\ may' = may
    BY <1>4 DEF Clean
  <2>2. /\ op' \in OpRecords /\ op'.pc = "failed" /\ op'.dirty = None
        /\ op'.cmd = op.cmd /\ op'.change = op.change /\ op'.retain = op.retain
    BY <2>1, <1>1, GoesShows DEF Pcs, Dirts
  <2>3. Typed' /\ Notes'
    BY <2>1, <2>2, <1>2, <1>3, Now DEF Typed, Notes, Rolling
  <2>4. Places' /\ CutStays'
    BY <2>1, <1>3, Now DEF Places, CutStays
  <2>5. Positions' /\ Noted'
    BY <2>2, <1>4 DEF Positions, Noted, Rolling, RollingBack, Swapping
  <2>6. Course' /\ Promised'
    BY <2>1, <2>2, <1>3, Now DEF Course, Promised, Swapping
  <2> QED
    BY <2>3, <2>4, <2>5, <2>6 DEF Sound
<1>5. CASE Rolling
  <2> DEFINE t == at[Incoming]
             s == tree[t]
             v == IF op.cmd = "rollback" THEN [s EXCEPT !.marker = None]
                  ELSE [s EXCEPT !.receipt = None, !.saw = None]
  <2>1. /\ op.cmd \in {"rollback", "rollback sdk"} /\ at["target"] \in Builds
        /\ op.cmd = "rollback" => at["predecessor"] = Predecessor
        /\ op.cmd = "rollback sdk" => at["sealed"] \in Builds
    BY <1>1, <1>5, Now DEF Positions, Rolling, RollingBack, Swapping
  <2>2. /\ op.cmd = "rollback" => t = Predecessor
        /\ op.cmd = "rollback sdk" => t \in Builds
        /\ t \in Trees
    BY <2>1, Now, RootsNamed, Distinct
  <2>3. /\ Wrote(t, v) /\ Goes("failed", t)
    BY <1>5 DEF Clean, In
  <2>4. /\ s \in TreeRecords
        /\ op.cmd = "rollback" => s.receipt = None
        /\ op.cmd = "rollback sdk" => s.marker = None
        /\ s.bound => Bound(may.tree[t])
    BY <2>2, VersionOfNow
  <2>5. v \in TreeRecords /\ v.bound = s.bound /\ v.marker = None /\ v.receipt = None
    <3> HIDE DEF s
    <3>1. CASE op.cmd = "rollback"
      BY <2>4, <3>1, NewMarker
    <3>2. CASE op.cmd = "rollback sdk"
      <4> DEFINE w == [s EXCEPT !.receipt = None, !.saw = None]
      <4>1. w \in TreeRecords /\ w.receipt = None /\ w.marker = s.marker /\ w.bound = s.bound
        <5>1. None \in Inspections /\ None \in Changes \cup {None}
          BY DEF Inspections
        <5> QED
          BY <2>4, <5>1, NewReceipt
      <4>2. v = w
        BY <3>2
      <4> HIDE DEF w, v
      <4> QED
        BY <2>4, <3>2, <4>1, <4>2
    <3> QED
      BY <2>1, <3>1, <3>2
  <2> HIDE DEF v, s
  <2>6. /\ at' = at /\ may'.at = may.at /\ tree'[t] = v
        /\ may'.tree[t] = may.tree[t] \cup {v}
        /\ \A u \in Trees \ {t} : may'.tree[u] = may.tree[u]
    BY <2>2, <2>3, <2>5, Now, WroteShows
  <2>7. /\ op' \in OpRecords /\ op'.pc = "failed" /\ op'.dirty = t
        /\ op'.cmd = op.cmd /\ op'.change = op.change /\ op'.retain = op.retain
    <3>1. "failed" \in Pcs /\ t \in Dirts
      BY <2>2 DEF Pcs, Dirts
    <3> QED
      BY <2>3, <3>1, <1>1, GoesShows
  <2>8. Typed' /\ Notes' /\ Places' /\ CutStays'
    BY <2>2, <2>3, <2>5, <2>7, <1>2, <1>3, WroteKeeps
  <2>9. Positions'
    BY <2>1, <2>6, <2>7 DEF Positions, Rolling, RollingBack, Swapping
  <2>10. Noted'
    BY <2>7 DEF Noted
  <2>11. Course' /\ Promised'
    <3>1. Promises(at, may.tree, hist.last) /\ may.at = {at}
      BY <1>3, Now
    <3>2. Course'
      BY <2>7 DEF Course, Swapping
    <3>3. at["target"] # Predecessor
      BY <2>1, Distinct
    <3>4. \A u \in Builds : Bound(may'.tree[u]) => Bound(may.tree[u])
      BY <2>2, <2>4, <2>5, <2>6, Distinct DEF Bound
    <3>5. Promises(at, may'.tree, hist.last)
      BY <3>1, <3>3, <3>4 DEF Promises
    <3>6. Promised'
      BY <3>1, <3>5, <2>6, <1>3 DEF Promised
    <3> QED
      BY <3>2, <3>6
  <2> QED
    BY <2>8, <2>9, <2>10, <2>11 DEF Sound
<1> QED
  BY <1>4, <1>5

-------------------------------------------------------------------------------
(* The commands end, fail and are killed, and the trees drift.             *)

\* The bounds are used up one by one.
LEMMA BudgetSpent ==
    ASSUME budget \in Budgets
    PROVE  /\ Fault => budget' \in Budgets /\ budget' # budget
           /\ budget.commands > 0 => [budget EXCEPT !.commands = @ - 1] \in Budgets
           /\ budget.damage > 0 => [budget EXCEPT !.damage = @ - 1] \in Budgets
<1>1. {MaxCommands, MaxFaults, MaxDamage} \subseteq Nat
  BY RoutingAssumption
<1>2. /\ budget.commands \in 0..MaxCommands /\ budget.faults \in 0..MaxFaults
      /\ budget.damage \in 0..MaxDamage
  BY DEF Budgets
<1>3. ASSUME Fault
      PROVE  budget' \in Budgets /\ budget' # budget
  <2>1. budget.faults > 0 /\ budget' = [budget EXCEPT !.faults = @ - 1]
    BY <1>3 DEF Fault
  <2>2. budget'.faults = budget.faults - 1
    BY <2>1 DEF Budgets
  <2>3. budget.faults - 1 # budget.faults /\ budget.faults - 1 \in 0..MaxFaults
    BY <1>1, <1>2, <2>1
  <2> QED
    BY <2>1, <2>2, <2>3 DEF Budgets
<1>4. ASSUME budget.commands > 0
      PROVE  [budget EXCEPT !.commands = @ - 1] \in Budgets
  <2>1. budget.commands - 1 \in 0..MaxCommands
    BY <1>1, <1>2, <1>4
  <2> QED
    BY <2>1 DEF Budgets
<1>5. ASSUME budget.damage > 0
      PROVE  [budget EXCEPT !.damage = @ - 1] \in Budgets
  <2>1. budget.damage - 1 \in 0..MaxDamage
    BY <1>1, <1>2, <1>5
  <2> QED
    BY <2>1 DEF Budgets
<1> QED
  BY <1>3, <1>4, <1>5

\* No command is at work.
LEMMA IdleShows ==
    /\ Idle \in OpRecords /\ Idle.pc = "idle" /\ Idle.cmd = "none"
  BY DEF Idle, OpRecords, Pcs, Cmds, Dirts, Inspections

\* A command that is over leaves nothing to be counted on.
LEMMA IdleKeeps ==
    ASSUME Sound, op' = Idle, budget' \in Budgets, UNCHANGED <<at, tree, may, hist>>
    PROVE  Sound'
<1>1. op' \in OpRecords /\ op'.pc = "idle" /\ op'.cmd = "none"
  BY IdleShows
<1>2. Typed' /\ Notes'
  BY <1>1, Now DEF Typed, Notes, Rolling
<1>3. Places' /\ CutStays'
  BY Now DEF Places, CutStays
<1>4. Positions' /\ Noted'
  BY <1>1 DEF Positions, Noted, Rolling, RollingBack, Swapping
<1>5. Course' /\ Promised'
  BY <1>1, Now DEF Course, Promised, Rolling, Swapping
<1> QED
  BY <1>2, <1>3, <1>4, <1>5 DEF Sound

\* Where a failure leads: a rollback in which the mirror stands cleans up, one in
\* which it is away puts it back.
LEMMA HandlerShows ==
    ASSUME op.pc \in Pcs
    PROVE  /\ Handler \in {"idle", "clean", "undo", "last undo"}
           /\ Handler = "clean" => op.pc = "clean" \/ (op.pc = "out" /\ Rolling)
           /\ Handler \in {"undo", "last undo"} => op.pc \in {"in", "undo"}
  BY DEF Handler, Doing, Pcs

\* A step fails.
LEMMA FailShows ==
    ASSUME Typed, Fail, Handler # "idle"
    PROVE  /\ UNCHANGED <<at, tree, may, hist>> /\ Typed'
           /\ op'.pc \in {"clean", "undo", "last undo"}
           /\ op'.pc = "clean" => op.pc = "clean" \/ (op.pc = "out" /\ Rolling)
           /\ op'.pc \in {"undo", "last undo"} => op.pc \in {"in", "undo"}
           /\ op'.cmd = op.cmd /\ op'.change = op.change /\ op'.retain = op.retain
<1> DEFINE h == Handler
           again == (Handler = "undo")
           o1 == [op EXCEPT !.pc = h]
           o2 == [o1 EXCEPT !.dirty = None]
<1>1. /\ budget' \in Budgets /\ UNCHANGED <<at, tree, may, hist>>
  BY BudgetSpent DEF Fail, Typed
<1>2. op \in OpRecords /\ op.pc \in Pcs
  BY DEF Typed, OpRecords
<1>3. /\ h \in {"clean", "undo", "last undo"} /\ again \in BOOLEAN
      /\ h = "clean" => op.pc = "clean" \/ (op.pc = "out" /\ Rolling)
      /\ h \in {"undo", "last undo"} => op.pc \in {"in", "undo"}
  BY <1>2, HandlerShows
<1>4. op' = [op EXCEPT !.pc = h, !.dirty = None, !.again = again]
  BY DEF Fail
<1> HIDE DEF h, again
<1>5. /\ o1 \in OpRecords /\ o1.pc = h /\ o1.cmd = op.cmd
      /\ o1.change = op.change /\ o1.retain = op.retain
  BY <1>2, <1>3 DEF OpRecords, Pcs
<1>6. op' = [o2 EXCEPT !.again = again]
  BY <1>2, <1>4 DEF OpRecords
<1> HIDE DEF o1
<1>7. /\ o2 \in OpRecords /\ o2.pc = h /\ o2.cmd = op.cmd
      /\ o2.change = op.change /\ o2.retain = op.retain
  BY <1>5 DEF OpRecords, Dirts
<1> HIDE DEF o2
<1>8. /\ op' \in OpRecords /\ op'.pc = h /\ op'.cmd = op.cmd
      /\ op'.change = op.change /\ op'.retain = op.retain
  BY <1>3, <1>6, <1>7 DEF OpRecords
<1>9. Typed'
  BY <1>1, <1>8 DEF Typed
<1> QED
  BY <1>1, <1>3, <1>8, <1>9

\* And the handler finds the trees where it needs them.
LEMMA FailKeeps ==
    ASSUME Sound, Fail
    PROVE  Sound'
<1>1. CASE Handler = "idle"
  <2>1. /\ budget' \in Budgets /\ UNCHANGED <<at, tree, may, hist>>
    BY Now, BudgetSpent DEF Fail, Typed
  <2> QED
    BY <2>1, <1>1, IdleKeeps DEF Fail
<1>2. CASE Handler # "idle"
  <2>1. /\ UNCHANGED <<at, tree, may, hist>> /\ Typed'
        /\ op'.pc \in {"clean", "undo", "last undo"}
        /\ op'.pc = "clean" => op.pc = "clean" \/ (op.pc = "out" /\ Rolling)
        /\ op'.pc \in {"undo", "last undo"} => op.pc \in {"in", "undo"}
        /\ op'.cmd = op.cmd /\ op'.change = op.change /\ op'.retain = op.retain
    BY <1>2, Now, FailShows
  <2>2. Outgoing' = Outgoing /\ (Rolling' <=> Rolling)
    BY <2>1, SameRoots
  <2>3. Notes' /\ Places' /\ CutStays'
    BY <2>1, <2>2, Now DEF Notes, Places, CutStays
  <2>4. Positions'
    <3>1. CASE op'.pc = "clean"
      BY <3>1, <2>1, <2>2, Now DEF Positions, Rolling, RollingBack, Swapping
    <3>2. CASE op'.pc \in {"undo", "last undo"}
      BY <3>2, <2>1, <2>2, Now DEF Positions, Rolling, RollingBack, Swapping
    <3> QED
      BY <3>1, <3>2, <2>1
  <2>5. Noted'
    BY <2>1 DEF Noted
  <2>6. Promised'
    BY <2>1, Now DEF Promised
  <2>7. Course'
    BY <2>1, <2>2, Now DEF Course, Swapping
  <2> QED
    BY <2>1, <2>3, <2>4, <2>5, <2>6, <2>7 DEF Sound
<1> QED
  BY <1>1, <1>2

\* The power fails: one of the arrangements and one version of each tree remain.
LEMMA PowerLossShows ==
    ASSUME Typed, PowerLoss
    PROVE  /\ at' \in may.at /\ may'.at = {at'} /\ may'.at \subseteq may.at /\ Typed'
           /\ op'.pc = "idle" /\ op'.cmd = "none"
           /\ hist'.last = hist.last /\ hist'.cut = hist.cut /\ hist'.strayed = hist.strayed
           /\ \A t \in Trees : may'.tree[t] \subseteq may.tree[t]
<1>1. /\ at' \in may.at /\ op' = Idle
      /\ may' = [at |-> {at'}, tree |-> [t \in Trees |-> {tree'[t]}]]
      /\ \A t \in Trees : tree'[t] \in may.tree[t]
      /\ tree' = [t \in Trees |-> tree'[t]]
  BY DEF PowerLoss
<1>2. op' \in OpRecords /\ op'.pc = "idle" /\ op'.cmd = "none"
  BY <1>1, IdleShows
<1>3. budget' \in Budgets
  BY BudgetSpent DEF PowerLoss, Typed
<1>4. /\ may'.at = {at'} /\ at' \in Maps
      /\ \A t \in Trees : may'.tree[t] = {tree'[t]} /\ tree'[t] \in TreeRecords
  BY <1>1 DEF Typed, MayRecords
<1>5. /\ hist' \in HistRecords /\ hist'.last = hist.last /\ hist'.cut = hist.cut
      /\ hist'.strayed = hist.strayed
  <2> DEFINE took == hist.lost \/ (hist.strayed /\ <<at', tree'>> # <<at, tree>>)
  <2>1. hist' = [hist EXCEPT !.lost = took]
    BY DEF PowerLoss, Typed, HistRecords
  <2>2. hist \in HistRecords /\ took \in BOOLEAN
    BY DEF Typed, HistRecords
  <2> HIDE DEF took
  <2> QED
    BY <2>1, <2>2 DEF HistRecords
<1>6. Typed'
  <2>1. tree' \in [Trees -> TreeRecords]
    BY <1>1, <1>4
  <2>2. may' \in MayRecords
    BY <1>1, <1>4 DEF MayRecords
  <2> QED
    BY <2>1, <2>2, <1>1, <1>2, <1>3, <1>4, <1>5 DEF Typed
<1>7. /\ may'.at \subseteq may.at
      /\ \A t \in Trees : may'.tree[t] \subseteq may.tree[t]
  BY <1>1, <1>4
<1> QED
  BY <1>1, <1>2, <1>4, <1>5, <1>6, <1>7

\* And every promise is kept.
LEMMA PowerLossKeeps ==
    ASSUME Sound, PowerLoss
    PROVE  Sound'
<1>1. /\ may'.at \subseteq may.at /\ Typed' /\ op'.pc = "idle" /\ op'.cmd = "none"
      /\ hist'.last = hist.last /\ hist'.cut = hist.cut
      /\ \A t \in Trees : may'.tree[t] \subseteq may.tree[t]
  BY Now, PowerLossShows
<1>2. Notes'
  BY <1>1, Now, Distinct DEF Notes, Rolling
<1>3. Places' /\ CutStays'
  BY <1>1, Now DEF Places, CutStays
<1>4. Positions' /\ Noted'
  BY <1>1 DEF Positions, Noted, Rolling, RollingBack, Swapping
<1>5. Marked(may.tree[Predecessor]) => Marked(may'.tree[Predecessor])
  BY <1>1, Distinct, FewerVersions
<1>6. \A t \in Builds : Bound(may'.tree[t]) => Bound(may.tree[t])
  BY <1>1, Distinct, FewerVersions
<1>7. Promised'
  BY <1>1, <1>5, <1>6, Now, PromiseKept DEF Promised
<1>8. Course'
  BY <1>1 DEF Course, Rolling, Swapping
<1> QED
  BY <1>1, <1>2, <1>3, <1>4, <1>7, <1>8 DEF Sound

\* The bytes of a tree drift.
LEMMA DamageShows ==
    ASSUME Typed, NEW n \in Names, Damage(n)
    PROVE  /\ UNCHANGED <<at, op, hist>> /\ may'.at = may.at /\ Typed'
           /\ \A u \in Trees : /\ tree'[u].marker = tree[u].marker
                               /\ Marked(may.tree[u]) <=> Marked(may'.tree[u])
                               /\ Bound(may'.tree[u]) => Bound(may.tree[u])
                               /\ \A w \in may'.tree[u] : \E v \in may.tree[u] :
                                     w.marker = v.marker /\ w.receipt = v.receipt
<1> DEFINE t == at[n]
           drifted(v) == [v EXCEPT !.intact = FALSE]
<1>1. t \in Trees
  BY DEF Damage, Present, Typed, MayRecords, Maps
<1>2. /\ UNCHANGED <<at, op, hist>>
      /\ tree' = [tree EXCEPT ![t].intact = FALSE]
      /\ may' = [may EXCEPT !.tree[t] = {drifted(v) : v \in @}]
  BY DEF Damage
<1>3. budget' \in Budgets
  BY BudgetSpent DEF Damage, Typed
<1>4. \A v \in TreeRecords : /\ drifted(v) \in TreeRecords /\ drifted(v).marker = v.marker
                             /\ drifted(v).receipt = v.receipt /\ drifted(v).bound = v.bound
  BY DEF TreeRecords
<1>5. /\ may \in MayRecords /\ tree \in [Trees -> TreeRecords]
      /\ may.tree \in [Trees -> SUBSET TreeRecords]
      /\ \A u \in Trees : tree[u] \in may.tree[u]
  BY DEF Typed, MayRecords
<1> DEFINE f == [may.tree EXCEPT ![t] = {drifted(v) : v \in @}]
<1>6. may' = [may EXCEPT !.tree = f]
  BY <1>2, <1>5 DEF MayRecords
<1>7. tree' = [tree EXCEPT ![t] = drifted(tree[t])]
  BY <1>1, <1>2, <1>5
<1> HIDE DEF drifted, t
<1>8. /\ f \in [Trees -> SUBSET TreeRecords] /\ f[t] = {drifted(v) : v \in may.tree[t]}
      /\ \A u \in Trees \ {t} : f[u] = may.tree[u]
  BY <1>1, <1>4, <1>5
<1> HIDE DEF f
<1>9. may' \in MayRecords /\ may'.at = may.at /\ may'.tree = f
  BY <1>5, <1>6, <1>8 DEF MayRecords
<1>10. /\ tree' \in [Trees -> TreeRecords] /\ tree'[t] = drifted(tree[t])
       /\ \A u \in Trees \ {t} : tree'[u] = tree[u]
  BY <1>1, <1>4, <1>5, <1>7
<1>11. \A u \in Trees : /\ tree'[u] \in may'.tree[u]
                        /\ tree'[u].marker = tree[u].marker
                        /\ tree'[u].receipt = tree[u].receipt
  BY <1>4, <1>5, <1>8, <1>9, <1>10
<1>12. \A u \in Trees : /\ Marked(may.tree[u]) <=> Marked(may'.tree[u])
                        /\ Bound(may'.tree[u]) => Bound(may.tree[u])
  <2>1. Marked(may.tree[t]) <=> Marked(may'.tree[t])
    BY <1>1, <1>4, <1>5, <1>8, <1>9 DEF Marked
  <2>2. Bound(may'.tree[t]) => Bound(may.tree[t])
    BY <1>1, <1>4, <1>5, <1>8, <1>9 DEF Bound
  <2> QED
    BY <2>1, <2>2, <1>8, <1>9
<1>13. Typed'
  BY <1>2, <1>3, <1>9, <1>10, <1>11 DEF Typed
<1>14. \A u \in Trees : \A w \in may'.tree[u] : \E v \in may.tree[u] :
           w.marker = v.marker /\ w.receipt = v.receipt
  BY <1>1, <1>4, <1>5, <1>8, <1>9
<1> QED
  BY <1>2, <1>9, <1>11, <1>12, <1>13, <1>14

\* And it makes no difference to the promises.
LEMMA DamageKeeps ==
    ASSUME Sound, NEW n \in Names, Damage(n)
    PROVE  Sound'
<1>1. /\ UNCHANGED <<at, op, hist>> /\ may'.at = may.at /\ Typed'
      /\ \A u \in Trees : /\ tree'[u].marker = tree[u].marker
                          /\ Marked(may.tree[u]) <=> Marked(may'.tree[u])
                          /\ Bound(may'.tree[u]) => Bound(may.tree[u])
                          /\ \A w \in may'.tree[u] : \E v \in may.tree[u] :
                                w.marker = v.marker /\ w.receipt = v.receipt
  BY Now, DamageShows
<1>2. Notes'
  <2>1. \A u \in Builds : \A v \in may'.tree[u] : v.marker = None
    BY <1>1, Now, Distinct DEF Notes
  <2>2. \A v \in may'.tree[Predecessor] : v.receipt = None
    BY <1>1, Now, Distinct DEF Notes
  <2> QED
    BY <2>1, <2>2, <1>1, Now DEF Notes, Rolling
<1>3. Places' /\ CutStays'
  BY <1>1, Now DEF Places, CutStays
<1>4. Outgoing' = Outgoing /\ (Rolling' <=> Rolling)
  BY <1>1, SameRoots
<1>5. Positions'
  BY <1>1, <1>4, Now DEF Positions
<1>6. Noted'
  BY <1>1, Now, Distinct DEF Noted
<1>7. Course'
  BY <1>1, <1>4, Now, Distinct DEF Course
<1>8. Promised'
  BY <1>1, Now, Distinct, PromiseKept DEF Promised
<1> QED
  BY <1>1, <1>2, <1>3, <1>5, <1>6, <1>7, <1>8 DEF Sound

-------------------------------------------------------------------------------
(* The commands begin.                                                     *)

\* A command that begins changes no tree, and if it does not go astray it may count on
\* the trees it found.
LEMMA StartShows ==
    ASSUME Typed, NEW cmd \in Cmds, NEW c \in Changes, NEW x \in Retained \cup {None},
           NEW pc \in Pcs, NEW found \in SUBSET Names, Starts(cmd, c, x, pc, found)
    PROVE  /\ op.pc = "idle" /\ UNCHANGED <<at, tree, may>>
           /\ op'.pc = pc /\ op'.cmd = cmd /\ op'.retain = x /\ op'.dirty = None
           /\ op'.change = c /\ Typed' /\ hist'.last = hist.last /\ hist'.cut = hist.cut
           /\ ~hist'.strayed =>
                 /\ ~hist.strayed /\ may.at = {at} /\ x \notin Fixed
                 /\ \A n \in found : Durable(n)
                 /\ pc = "in" => x \in {None, hist.last}
<1> DEFINE strays == \/ may.at # {at} \/ x \in Fixed
                     \/ (\E n \in found : ~Durable(n))
                     \/ (pc = "in" /\ x \notin {None, hist.last})
<1>1. /\ op.pc = "idle" /\ UNCHANGED <<at, tree, may>>
      /\ op' = [pc |-> pc, cmd |-> cmd, change |-> c, retain |-> x, dirty |-> None,
                again |-> Present("target") /\ cmd \in {"rollback", "rollback sdk"},
                saw |-> Inspection("target")]
      /\ hist' = [hist EXCEPT !.strayed = @ \/ strays]
  <2>1. hist' = [hist EXCEPT !.strayed = @ \/ may.at # {at} \/ x \in Fixed
                                           \/ (\E n \in found : ~Durable(n))
                                           \/ (pc = "in" /\ x \notin {None, hist.last})]
    BY DEF Starts
  <2>2. hist' = [hist EXCEPT !.strayed = @ \/ strays]
    BY <2>1, Zenon
  <2> QED
    BY <2>2 DEF Starts
<1>2. ~strays => /\ may.at = {at} /\ x \notin Fixed
                 /\ \A n \in found : Durable(n)
                 /\ pc = "in" => x \in {None, hist.last}
  OBVIOUS
<1> HIDE DEF strays
<1>3. budget' \in Budgets
  BY BudgetSpent DEF Starts, Typed
<1>4. Inspection("target") \in Inspections
  <2>1. CASE Embedded("target")
    <3>1. at["target"] \in Trees
      BY <2>1, Distinct DEF Embedded, IsSdk
    <3>2. tree[at["target"]].stamp \in Nat
      BY <3>1 DEF Typed, TreeRecords
    <3> QED
      BY <2>1, <3>1, <3>2 DEF Inspection, Inspections, In
  <2>2. CASE ~Embedded("target")
    BY <2>2 DEF Inspection, Inspections
  <2> QED
    BY <2>1, <2>2
<1>5. /\ op'.pc = pc /\ op'.cmd = cmd /\ op'.retain = x /\ op'.dirty = None
      /\ op'.change = c
  BY <1>1
<1>6. op' \in OpRecords
  <2>1. (Present("target") /\ cmd \in {"rollback", "rollback sdk"}) \in BOOLEAN
    OBVIOUS
  <2> QED
    BY <2>1, <1>1, <1>4 DEF OpRecords, Dirts
<1>7. /\ hist' \in HistRecords /\ hist'.last = hist.last /\ hist'.cut = hist.cut
      /\ hist'.strayed <=> hist.strayed \/ strays
  BY <1>1 DEF Typed, HistRecords
<1>8. Typed'
  BY <1>1, <1>3, <1>6, <1>7 DEF Typed
<1> QED
  BY <1>1, <1>2, <1>5, <1>7, <1>8

\* A command that begins and does not go astray keeps what holds of the trees.
LEMMA StartKeeps ==
    ASSUME Sound, NEW cmd \in Cmds, NEW c \in Changes, NEW x \in Retained \cup {None},
           NEW pc \in Pcs, NEW found \in SUBSET Names, Starts(cmd, c, x, pc, found),
           cmd \in {"rollback", "rollback sdk"} => x \in Retained,
           cmd = "materialize" => x = None, ~hist'.strayed
    PROVE  /\ UNCHANGED <<at, tree, may>>
           /\ op'.pc = pc /\ op'.cmd = cmd /\ op'.retain = x /\ op'.dirty = None
           /\ Typed' /\ Notes' /\ Places' /\ CutStays' /\ Promised'
           /\ hist'.last = hist.last /\ may'.at = {at'}
           /\ \A n \in found : Durable(n)
           /\ pc = "in" => x \in {None, hist.last}
<1>1. /\ UNCHANGED <<at, tree, may>>
      /\ op'.pc = pc /\ op'.cmd = cmd /\ op'.retain = x /\ op'.dirty = None
      /\ op'.change = c /\ Typed' /\ hist'.last = hist.last /\ hist'.cut = hist.cut
      /\ may.at = {at} /\ x \notin Fixed
      /\ \A n \in found : Durable(n)
      /\ pc = "in" => x \in {None, hist.last}
  BY Now, StartShows
<1>2. Notes'
  BY <1>1, Now DEF Notes, Rolling, Clear
<1>3. Places' /\ CutStays' /\ Promised'
  BY <1>1, Now DEF Places, CutStays, Promised
<1> QED
  BY <1>1, <1>2, <1>3

\* materialize begins, or goes on between its renames.
LEMMA MaterializeKeeps ==
    ASSUME Sound, NEW c \in Changes, Materialize(c), ~hist'.strayed
    PROVE  Sound'
<1>1. "materialize" \in Cmds /\ {"out", "build", "in"} \subseteq Pcs /\ {} \in SUBSET Names
  BY DEF Cmds, Pcs
<1>2. CASE CutoverBefore(c) /\ Starts("materialize", c, None,
               IF Present("prepared") THEN "out" ELSE "build", {})
  <2> DEFINE pc == IF Present("prepared") THEN "out" ELSE "build"
  <2>1. pc \in {"out", "build"}
    OBVIOUS
  <2> HIDE DEF pc
  <2>2. Starts("materialize", c, None, pc, {})
    BY <1>2 DEF pc
  <2>3. /\ UNCHANGED <<at, tree, may>>
        /\ op'.pc = pc /\ op'.cmd = "materialize" /\ op'.retain = None /\ op'.dirty = None
        /\ Typed' /\ Notes' /\ Places' /\ CutStays' /\ Promised' /\ may'.at = {at'}
    BY <1>1, <2>1, <2>2, StartKeeps
  <2>4. at["target"] = Predecessor /\ tree[Predecessor].marker = None
    BY <1>2 DEF CutoverBefore, ValidPredecessor, In
  <2>5. Positions' /\ Noted'
    BY <2>1, <2>3, <2>4 DEF Positions, Noted, Rolling, RollingBack, Swapping
  <2>6. Course'
    <3>1. ~Cut(at)
      <4>1. tree[Predecessor] \in may.tree[Predecessor]
        BY Distinct, VersionOfNow
      <4>2. ~Marked(may.tree[Predecessor])
        BY <2>4, <4>1 DEF Marked
      <4> QED
        BY <2>4, <4>2, Now DEF Promises
    <3> QED
      BY <2>1, <2>3, <3>1 DEF Course, Rolling, Swapping
  <2> QED
    BY <2>3, <2>5, <2>6 DEF Sound
<1>3. CASE CutoverBetween(c) /\ Starts("materialize", c, None, "in", {})
  <2>1. /\ UNCHANGED <<at, tree, may>>
        /\ op'.pc = "in" /\ op'.cmd = "materialize" /\ op'.retain = None /\ op'.dirty = None
        /\ Typed' /\ Notes' /\ Places' /\ CutStays' /\ Promised' /\ may'.at = {at'}
    BY <1>1, <1>3, StartKeeps
  <2>2. at["target"] = None /\ at["predecessor"] = Predecessor /\ at["prepared"] # None
    BY <1>3 DEF CutoverBetween, ValidPredecessor, Present
  <2>3. Outgoing' = "predecessor"
    BY <2>1 DEF Outgoing
  <2>4. Positions' /\ Noted'
    BY <2>1, <2>2, <2>3, Distinct DEF Positions, Noted, Rolling, RollingBack, Swapping
  <2>5. Course'
    <3>1. ~Cut(at)
      BY <2>2, Now DEF Promises
    <3> QED
      BY <2>1, <3>1 DEF Course, Rolling, Swapping
  <2> QED
    BY <2>1, <2>4, <2>5 DEF Sound
<1> QED
  BY <1>2, <1>3 DEF Materialize

\* refresh-materialized begins where an earlier attempt left off.
LEMMA RefreshKeeps ==
    ASSUME Sound, NEW c \in Changes, Refresh(c), ~hist'.strayed
    PROVE  Sound'
<1> DEFINE pc == CASE Present("sealed") -> "manifest"
                   [] ~Present("sealed") /\ Present("seal prepared") -> "seal"
                   [] OTHER -> "build"
<1>1. /\ pc \in {"manifest", "seal", "build"}
      /\ pc = "manifest" => Present("sealed")
      /\ pc = "seal" => Present("seal prepared") /\ ~Present("sealed")
  OBVIOUS
<1>2. Starts("refresh", c, None, pc, {})
  BY DEF Refresh
<1> HIDE DEF pc
<1>3. /\ "refresh" \in Cmds /\ pc \in Pcs /\ {} \in SUBSET Names
  BY <1>1 DEF Cmds, Pcs
<1>4. /\ UNCHANGED <<at, tree, may>>
      /\ op'.pc = pc /\ op'.cmd = "refresh" /\ op'.retain = None /\ op'.dirty = None
      /\ Typed' /\ Notes' /\ Places' /\ CutStays' /\ Promised' /\ may'.at = {at'}
  BY <1>2, <1>3, StartKeeps
<1>5. /\ at["target"] \in Builds
      /\ pc = "manifest" => at["sealed"] \in Builds
      /\ pc = "seal" => at["seal prepared"] \in Builds
  BY <1>1 DEF Refresh, RefreshFits, Preparable, LiveCanonical, Embedded, IsSdk
<1>6. Positions' /\ Noted'
  BY <1>1, <1>4, <1>5 DEF Positions, Noted, Rolling, RollingBack, Swapping
<1>7. Course'
  BY <1>1, <1>4 DEF Course, Rolling, Swapping
<1> QED
  BY <1>4, <1>6, <1>7 DEF Sound

\* rollback begins with its marker, or goes on between its renames.
LEMMA RollbackKeeps ==
    ASSUME Sound, NEW c \in Changes, NEW x \in Retained, Rollback(c, x), ~hist'.strayed
    PROVE  Sound'
<1>1. /\ "rollback" \in Cmds /\ {"note", "unmark", "in"} \subseteq Pcs
      /\ {} \in SUBSET Names /\ {"predecessor"} \in SUBSET Names
  BY DEF Cmds, Pcs, Names, Fixed
<1>2. CASE RollbackBefore(c, x) /\ Starts("rollback", c, x,
               IF In("predecessor").marker = None THEN "note" ELSE "unmark", {})
  <2> DEFINE pc == IF In("predecessor").marker = None THEN "note" ELSE "unmark"
  <2>1. pc \in {"note", "unmark"}
    OBVIOUS
  <2> HIDE DEF pc
  <2>2. Starts("rollback", c, x, pc, {})
    BY <1>2 DEF pc
  <2>3. /\ UNCHANGED <<at, tree, may>>
        /\ op'.pc = pc /\ op'.cmd = "rollback" /\ op'.retain = x /\ op'.dirty = None
        /\ Typed' /\ Notes' /\ Places' /\ CutStays' /\ Promised' /\ may'.at = {at'}
    BY <1>1, <2>1, <2>2, StartKeeps
  <2>4. at["predecessor"] = Predecessor /\ at["target"] \in Builds
    <3>1. at["predecessor"] = Predecessor /\ at["target"] # None
      BY <1>2 DEF RollbackBefore, ValidPredecessor, PreSwap, Present
    <3>2. "target" \in Names /\ "predecessor" \in Names
      BY DEF Names, Fixed
    <3> QED
      BY <3>1, <3>2, Now, Distinct DEF Proper, Maps
  <2>5. Positions' /\ Noted'
    BY <2>1, <2>3, <2>4 DEF Positions, Noted, Rolling, RollingBack, Swapping
  <2>6. Course'
    BY <2>1, <2>3 DEF Course, Swapping
  <2> QED
    BY <2>3, <2>5, <2>6 DEF Sound
<1>3. CASE RollbackBetween(c, x) /\ Starts("rollback", c, x, "in", {"predecessor"})
  <2>1. /\ UNCHANGED <<at, tree, may>>
        /\ op'.pc = "in" /\ op'.cmd = "rollback" /\ op'.retain = x /\ op'.dirty = None
        /\ Typed' /\ Notes' /\ Places' /\ CutStays' /\ Promised'
        /\ hist'.last = hist.last /\ may'.at = {at'}
        /\ Durable("predecessor") /\ x \in {None, hist.last}
    BY <1>1, <1>3, StartKeeps
  <2>2. /\ at["target"] = None /\ at["predecessor"] = Predecessor /\ at[x] # None
        /\ tree[Predecessor].marker = c
    BY <1>3 DEF RollbackBetween, ValidPredecessor, BetweenSwaps, Present, In
  <2>3. Outgoing' = x
    BY <2>1 DEF Outgoing
  <2>4. Positions' /\ Noted'
    BY <2>1, <2>2, <2>3 DEF Positions, Noted, Rolling, RollingBack, Swapping
  <2>5. Course'
    <3>1. Marked(may.tree[Predecessor])
      BY <2>1, <2>2, Distinct DEF Marked, Durable, In
    <3>2. x = hist.last
      BY <2>1, Distinct
    <3> QED
      BY <2>1, <3>1, <3>2 DEF Course, Swapping
  <2> QED
    BY <2>1, <2>4, <2>5 DEF Sound
<1> QED
  BY <1>2, <1>3 DEF Rollback

\* rollback-sdk begins with its receipt, or goes on with one that is there.
LEMMA RollbackSdkKeeps ==
    ASSUME Sound, NEW c \in Changes, NEW x \in Retained, RollbackSdk(c, x), ~hist'.strayed
    PROVE  Sound'
<1>1. "rollback sdk" \in Cmds /\ {"note", "out", "in"} \subseteq Pcs /\ Fixed \subseteq Names
  BY DEF Cmds, Pcs, Names
<1>2. CASE RollbackSdkBefore(c, x) /\ Starts("rollback sdk", c, x,
               IF In("sealed").receipt = None THEN "note" ELSE "out",
               IF In("sealed").receipt = None THEN {"target"} ELSE {"target", "sealed"})
  <2> DEFINE pc == IF In("sealed").receipt = None THEN "note" ELSE "out"
             found == IF In("sealed").receipt = None THEN {"target"} ELSE {"target", "sealed"}
  <2>1. pc \in {"note", "out"} /\ found \in SUBSET Names
    BY <1>1 DEF Fixed
  <2> HIDE DEF pc, found
  <2>2. Starts("rollback sdk", c, x, pc, found)
    BY <1>2 DEF pc, found
  <2>3. /\ UNCHANGED <<at, tree, may>>
        /\ op'.pc = pc /\ op'.cmd = "rollback sdk" /\ op'.retain = x /\ op'.dirty = None
        /\ Typed' /\ Notes' /\ Places' /\ CutStays' /\ Promised' /\ may'.at = {at'}
    BY <1>1, <2>1, <2>2, StartKeeps
  <2>4. at["target"] \in Builds /\ at["sealed"] \in Builds
    BY <1>2 DEF RollbackSdkBefore, Embedded, IsSdk
  <2>5. Positions' /\ Noted'
    BY <2>1, <2>3, <2>4 DEF Positions, Noted, Rolling, RollingBack, Swapping
  <2>6. Course'
    BY <2>1, <2>3 DEF Course, Swapping
  <2> QED
    BY <2>3, <2>5, <2>6 DEF Sound
<1>3. CASE RollbackSdkBetween(c, x) /\ Starts("rollback sdk", c, x, "in", {"sealed"})
  <2>1. /\ UNCHANGED <<at, tree, may>>
        /\ op'.pc = "in" /\ op'.cmd = "rollback sdk" /\ op'.retain = x /\ op'.dirty = None
        /\ Typed' /\ Notes' /\ Places' /\ CutStays' /\ Promised'
        /\ hist'.last = hist.last /\ may'.at = {at'} /\ x \in {None, hist.last}
    <3>1. {"sealed"} \in SUBSET Names
      BY <1>1 DEF Fixed
    <3> QED
      BY <1>1, <1>3, <3>1, StartKeeps
  <2>2. at["target"] = None /\ at["sealed"] \in Builds /\ at[x] # None
    BY <1>3 DEF RollbackSdkBetween, Embedded, IsSdk, BetweenSwaps, Present
  <2>3. Outgoing' = x
    BY <2>1 DEF Outgoing
  <2>4. Positions' /\ Noted'
    BY <2>1, <2>2, <2>3 DEF Positions, Noted, Rolling, RollingBack, Swapping
  <2>5. Course'
    BY <2>1, Distinct DEF Course, Swapping
  <2> QED
    BY <2>1, <2>4, <2>5 DEF Sound
<1> QED
  BY <1>2, <1>3 DEF RollbackSdk

-------------------------------------------------------------------------------
(* What holds whatever comes: no step copies a tree.                       *)

\* A rename leaves every tree under one name, whatever the names are.
LEMMA BasicMoved ==
    ASSUME Basic, NEW from \in Names, NEW to \in Names, Moved(from, to),
           op' \in OpRecords, Roles', budget' = budget, hist' \in HistRecords
    PROVE  Basic'
<1> DEFINE s == Swap(at, from, to)
<1>1. at \in Maps /\ Single(at) /\ Typed
  BY DEF Basic, Typed, MayRecords
<1>2. \A n \in Names : s[n] = IF n = from THEN None ELSE IF n = to THEN at[from] ELSE at[n]
  BY <1>1 DEF Swap, Maps
<1>3. s \in Maps
  BY <1>1 DEF Swap, Maps
<1>4. Arranged(s)
  BY DEF Moved, Swap
<1> HIDE DEF s
<1>5. Single(s)
  BY <1>1, <1>2 DEF Single
<1>6. /\ at' = s /\ at' \in may'.at /\ tree' = tree
      /\ may' \in MayRecords /\ may'.at = may.at \cup {at'}
      /\ \A t \in Trees : tree'[t] \in may'.tree[t]
  BY <1>1, <1>3, <1>4, ArrangedShows
<1>7. Typed'
  BY <1>1, <1>6 DEF Typed
<1> QED
  BY <1>5, <1>6, <1>7 DEF Basic

\* So does a new version of a tree, or of none.
LEMMA BasicWrote ==
    ASSUME Basic, NEW t \in Trees \cup {None}, NEW v, t \in Trees => v \in TreeRecords,
           Wrote(t, v), op' \in OpRecords, Roles', budget' = budget, hist' \in HistRecords
    PROVE  Basic'
<1>1. Typed
  BY DEF Basic
<1>2. CASE t \in Trees
  <2>1. /\ at' = at /\ tree' \in [Trees -> TreeRecords]
        /\ may' \in MayRecords /\ may'.at = may.at
        /\ \A u \in Trees : tree'[u] \in may'.tree[u]
    BY <1>1, <1>2, WroteShows
  <2>2. Typed'
    BY <1>1, <2>1 DEF Typed
  <2> QED
    BY <2>1, <2>2 DEF Basic, Single
<1>3. CASE t = None
  <2>1. /\ may \in MayRecords /\ tree \in [Trees -> TreeRecords]
        /\ may.tree \in [Trees -> SUBSET TreeRecords]
    BY <1>1 DEF Typed, MayRecords
  <2>2. None \notin Trees
    BY Distinct
  <2>3. at' = at /\ tree' = tree
    BY <2>1, <2>2, <1>3 DEF Wrote
  <2>4. may' = may
    <3>1. [may.tree EXCEPT ![t] = @ \cup {v}] = may.tree
      BY <2>1, <2>2, <1>3
    <3>2. may' = [may EXCEPT !.tree = [may.tree EXCEPT ![t] = @ \cup {v}]]
      BY <2>1 DEF Wrote, MayRecords
    <3>3. [may EXCEPT !.tree = may.tree] = may
      BY <2>1 DEF MayRecords
    <3> QED
      BY <3>1, <3>2, <3>3
  <2>5. Typed'
    BY <1>1, <2>3, <2>4 DEF Typed
  <2> QED
    BY <2>3, <2>4, <2>5 DEF Basic, Single
<1> QED
  BY <1>2, <1>3

\* A command that is over has no role.
LEMMA BasicIdle ==
    ASSUME Basic, op' = Idle, budget' \in Budgets, UNCHANGED <<at, tree, may, hist>>
    PROVE  Basic'
<1>1. op' \in OpRecords /\ op'.pc = "idle" /\ op'.cmd = "none"
  BY IdleShows
<1>2. Typed' /\ Roles'
  BY <1>1 DEF Basic, Typed, Roles, Rolling, Swapping
<1> QED
  BY <1>2 DEF Basic, Single

\* A command that begins has its role.
LEMMA BasicStarts ==
    ASSUME Basic, NEW cmd \in Cmds, NEW c \in Changes, NEW x \in Retained \cup {None},
           NEW pc \in Pcs, NEW found \in SUBSET Names, Starts(cmd, c, x, pc, found),
           cmd \in {"rollback", "rollback sdk"} => x \in Retained,
           pc = "build" => cmd \in {"materialize", "refresh"},
           pc \in {"unmark", "note"} => cmd \in {"rollback", "rollback sdk"},
           pc \in {"out"} \cup Swapping => cmd \in {"materialize", "rollback", "rollback sdk"}
    PROVE  Basic'
<1>1. /\ UNCHANGED <<at, tree, may>> /\ Typed'
      /\ op'.pc = pc /\ op'.cmd = cmd /\ op'.retain = x
  BY StartShows DEF Basic
<1>2. Roles'
  BY <1>1 DEF Roles, Rolling
<1> QED
  BY <1>1, <1>2 DEF Basic, Single

\* The four commands do.
LEMMA BasicCommand ==
    ASSUME Basic, Command
    PROVE  Basic'
<1>1. PICK c \in Changes :
          \/ Materialize(c) \/ Refresh(c)
          \/ \E x \in Retained : Rollback(c, x) \/ RollbackSdk(c, x)
  BY DEF Command
<1>2. /\ {"materialize", "refresh", "rollback", "rollback sdk"} \subseteq Cmds
      /\ {"build", "out", "in", "seal", "manifest", "note", "unmark"} \subseteq Pcs
      /\ Fixed \subseteq Names
  BY DEF Cmds, Pcs, Names
<1>3. CASE Materialize(c)
  <2>1. PICK pc \in {"build", "out", "in"} : Starts("materialize", c, None, pc, {})
    BY <1>3 DEF Materialize
  <2>2. /\ "materialize" \in Cmds /\ None \in Retained \cup {None} /\ {} \in SUBSET Names
        /\ pc \in Pcs /\ pc \notin {"unmark", "note"}
    BY <1>2
  <2> QED
    BY <2>1, <2>2, BasicStarts
<1>4. CASE Refresh(c)
  <2> DEFINE p == CASE Present("sealed") -> "manifest"
                    [] ~Present("sealed") /\ Present("seal prepared") -> "seal"
                    [] OTHER -> "build"
  <2>1. p \in {"manifest", "seal", "build"}
    OBVIOUS
  <2>2. Starts("refresh", c, None, p, {})
    BY <1>4 DEF Refresh
  <2> HIDE DEF p
  <2>3. p \in Pcs /\ p \notin {"out", "unmark", "note"} \cup Swapping
    BY <2>1, <1>2 DEF Swapping
  <2>4. "refresh" \in Cmds /\ None \in Retained \cup {None} /\ {} \in SUBSET Names
    BY <1>2
  <2> QED
    BY <2>2, <2>3, <2>4, BasicStarts
<1>5. ASSUME NEW x \in Retained, Rollback(c, x)
      PROVE  Basic'
  <2>1. PICK pc \in {"note", "unmark", "in"}, found \in SUBSET Fixed :
            Starts("rollback", c, x, pc, found)
    <3>1. {} \in SUBSET Fixed /\ {"predecessor"} \in SUBSET Fixed
      BY DEF Fixed
    <3> QED
      BY <1>5, <3>1 DEF Rollback
  <2>2. found \in SUBSET Names
    BY <1>2
  <2> QED
    BY <2>1, <2>2, <1>2, BasicStarts
<1>6. ASSUME NEW x \in Retained, RollbackSdk(c, x)
      PROVE  Basic'
  <2>1. PICK pc \in {"note", "out", "in"}, found \in SUBSET Fixed :
            Starts("rollback sdk", c, x, pc, found)
    <3>1. {"target"} \in SUBSET Fixed /\ {"target", "sealed"} \in SUBSET Fixed
          /\ {"sealed"} \in SUBSET Fixed
      BY DEF Fixed
    <3> QED
      BY <1>6, <3>1 DEF RollbackSdk
  <2>2. found \in SUBSET Names
    BY <1>2
  <2> QED
    BY <2>1, <2>2, <1>2, BasicStarts
<1> QED
  BY <1>1, <1>3, <1>4, <1>5, <1>6

\* Where the steps of a command find their trees.
LEMMA RolesNamed ==
    ASSUME Basic
    PROVE  /\ {"target", "sealed", "seal prepared"} \subseteq Names
           /\ op.cmd = "materialize" \/ Rolling => Incoming \in Names /\ Outgoing \in Names
  BY DEF Basic, Roles, Rolling, Incoming, Outgoing, Names, Fixed

\* The steps of a command.
LEMMA BasicStep ==
    ASSUME Basic, Step
    PROVE  Basic'
<1>1. /\ Typed /\ Roles /\ op \in OpRecords /\ hist \in HistRecords /\ at \in Maps
      /\ tree \in [Trees -> TreeRecords] /\ op.change \in Changes \cup {None}
      /\ op.saw \in Inspections
  BY DEF Basic, Typed, MayRecords, OpRecords
<1>2. {"seal", "manifest", "note", "out", "in", "done", "clean", "failed"} \subseteq Pcs
  BY DEF Pcs
<1>3. /\ {"names", None} \cup Trees \subseteq Dirts
      /\ None \in Inspections /\ None \in Changes \cup {None}
  BY DEF Dirts, Inspections
<1>4. \A n \in Names : at[n] \in Trees \cup {None}
  BY <1>1 DEF Maps
<1>5. CASE Build
  <2>1. PICK t \in Builds :
            /\ Unused(t) /\ at'[Stage] = t /\ \A n \in Names \ {Stage} : at'[n] = at[n]
            /\ may'.at = may.at \cup {at'} /\ Typed'
            /\ op.pc = "build" /\ op'.pc = IF op.cmd = "refresh" THEN "seal" ELSE "out"
            /\ op'.cmd = op.cmd /\ op'.retain = op.retain
    BY <1>1, <1>5, BuildShows
  <2>2. at \in may.at /\ Single(at)
    BY DEF Basic, Typed
  <2>3. \A n \in Names : at[n] # t
    BY <2>1, <2>2 DEF Unused
  <2>4. Single(at')
    BY <2>1, <2>2, <2>3 DEF Single
  <2>5. Roles'
    BY <2>1, <1>1 DEF Roles, Rolling, Swapping
  <2> QED
    BY <2>1, <2>4, <2>5 DEF Basic
<1>6. CASE Seal
  <2>1. /\ op' \in OpRecords /\ op'.pc = "manifest" /\ op'.cmd = op.cmd /\ op'.retain = op.retain
    BY <1>1, <1>2, <1>3, <1>6, GoesShows DEF Seal
  <2>2. Roles'
    BY <2>1, <1>1 DEF Roles, Rolling, Swapping
  <2> QED
    BY <2>1, <2>2, <1>1, <1>6, RolesNamed, BasicMoved DEF Seal
<1>7. CASE MoveIn
  <2>1. /\ op' \in OpRecords /\ op'.pc = "done" /\ op'.cmd = op.cmd /\ op'.retain = op.retain
    BY <1>1, <1>2, <1>3, <1>7, GoesShows DEF MoveIn
  <2>2. Roles'
    BY <2>1, <1>1 DEF Roles, Rolling, Swapping
  <2>3. Incoming \in Names /\ "target" \in Names
    BY <1>1, <1>7, RolesNamed DEF MoveIn, Doing, Roles, Swapping
  <2> QED
    BY <2>1, <2>2, <2>3, <1>1, <1>7, BasicMoved DEF MoveIn
<1>8. CASE MoveOut
  <2>1. op.cmd = "materialize" \/ Rolling
    BY <1>1, <1>8 DEF MoveOut, Doing, Roles
  <2>2. /\ op' \in OpRecords /\ op'.pc = "in" /\ op'.cmd = op.cmd /\ op'.retain = op.retain
    BY <1>1, <1>2, <1>3, <1>8, GoesShows DEF MoveOut
  <2>3. Roles'
    BY <2>1, <2>2, <1>1 DEF Roles, Rolling, Swapping
  <2>4. Outgoing \in Names /\ "target" \in Names
    BY <2>1, RolesNamed
  <2>5. hist' \in HistRecords
    <3>1. op.retain \in Retained \cup {None}
      BY <1>1 DEF OpRecords
    <3> QED
      BY <3>1, <1>1, <1>8 DEF MoveOut, HistRecords
  <2> QED
    BY <2>2, <2>3, <2>4, <2>5, <1>8, BasicMoved DEF MoveOut
<1>9. CASE Undo
  <2>1. op.cmd = "materialize" \/ Rolling
    BY <1>1, <1>9 DEF Undo, Doing, Roles, Swapping
  <2>2. /\ op' \in OpRecords /\ op'.pc = "clean" /\ op'.cmd = op.cmd /\ op'.retain = op.retain
    BY <1>1, <1>2, <1>3, <1>9, GoesShows DEF Undo
  <2>3. Roles'
    BY <2>2, <1>1 DEF Roles, Rolling, Swapping
  <2>4. Outgoing \in Names /\ "target" \in Names
    BY <2>1, RolesNamed
  <2> QED
    BY <2>2, <2>3, <2>4, <1>1, <1>9, BasicMoved DEF Undo
<1>10. CASE WriteManifest
  <2> DEFINE t == at["target"]
             v == [tree[t] EXCEPT !.change = op.change, !.ledger = TRUE,
                                  !.bound = TRUE, !.stamp = @ + 1]
  <2>1. t \in Trees \cup {None}
    BY <1>4, RolesNamed
  <2>2. t \in Trees => v \in TreeRecords
    BY <1>1, NewManifest
  <2>3. Wrote(t, v) /\ Goes("done", t) /\ budget' = budget /\ hist' = hist
    BY <1>10 DEF WriteManifest, In
  <2> HIDE DEF t, v
  <2>4. /\ op' \in OpRecords /\ op'.pc = "done" /\ op'.cmd = op.cmd /\ op'.retain = op.retain
    <3>1. t \in Dirts
      BY <2>1, <1>3
    <3> QED
      BY <3>1, <2>3, <1>1, <1>2, GoesShows
  <2>5. Roles'
    BY <2>4, <1>1 DEF Roles, Rolling, Swapping
  <2> QED
    BY <2>1, <2>2, <2>3, <2>4, <2>5, <1>1, BasicWrote
<1>11. CASE Unmark
  <2> DEFINE v == [tree[Predecessor] EXCEPT !.marker = None]
  <2>1. Predecessor \in Trees /\ Rolling
    BY <1>1, <1>11, Distinct DEF Unmark, Doing, Roles
  <2>2. v \in TreeRecords
    BY <2>1, <1>1, NewMarker
  <2>3. Wrote(Predecessor, v) /\ Goes("note", Predecessor) /\ budget' = budget /\ hist' = hist
    BY <1>11 DEF Unmark
  <2> HIDE DEF v
  <2>4. /\ op' \in OpRecords /\ op'.pc = "note" /\ op'.cmd = op.cmd /\ op'.retain = op.retain
    <3>1. Predecessor \in Dirts
      BY <2>1, <1>3
    <3> QED
      BY <3>1, <2>3, <1>1, <1>2, GoesShows
  <2>5. Roles'
    BY <2>1, <2>4, <1>1 DEF Roles, Rolling, Swapping
  <2> QED
    BY <2>1, <2>2, <2>3, <2>4, <2>5, <1>1, BasicWrote
<1>12. CASE WriteNote
  <2> DEFINE t == at[Incoming]
             marked == [tree[t] EXCEPT !.marker = op.change]
             received == [tree[t] EXCEPT !.receipt = op.change, !.saw = op.saw]
             v == IF op.cmd = "rollback" THEN marked ELSE received
  <2>1. Rolling
    BY <1>1, <1>12 DEF WriteNote, Doing, Roles
  <2>2. t \in Trees \cup {None}
    BY <2>1, <1>4, RolesNamed
  <2>3. t \in Trees => marked \in TreeRecords
    BY <1>1, NewMarker
  <2>4. t \in Trees => received \in TreeRecords
    BY <1>1, NewReceipt
  <2>5. t \in Trees => v \in TreeRecords
    BY <2>3, <2>4
  <2>6. Wrote(t, v) /\ Goes("out", t) /\ budget' = budget /\ hist' = hist
    BY <1>12 DEF WriteNote, In
  <2> HIDE DEF t, v
  <2>7. /\ op' \in OpRecords /\ op'.pc = "out" /\ op'.cmd = op.cmd /\ op'.retain = op.retain
    <3>1. t \in Dirts
      BY <2>2, <1>3
    <3> QED
      BY <3>1, <2>6, <1>1, <1>2, GoesShows
  <2>8. Roles'
    BY <2>1, <2>7, <1>1 DEF Roles, Rolling, Swapping
  <2> QED
    BY <2>2, <2>5, <2>6, <2>7, <2>8, <1>1, BasicWrote
<1>13. CASE Sync
  <2>1. /\ at' = at /\ Typed' /\ may'.at \subseteq may.at
        /\ op'.pc = op.pc /\ op'.cmd = op.cmd /\ op'.retain = op.retain
    BY <1>1, <1>13, SyncShows
  <2>2. Roles'
    BY <2>1, <1>1 DEF Roles, Rolling
  <2> QED
    BY <2>1, <2>2 DEF Basic, Single
<1>14. CASE Finish
  <2>1. op' = Idle /\ UNCHANGED <<at, tree, may, budget, hist>>
    BY <1>14 DEF Finish
  <2>2. budget' \in Budgets
    BY <2>1, <1>1 DEF Typed
  <2> QED
    BY <2>1, <2>2, BasicIdle
<1>15. CASE Clean
  <2>1. /\ budget' = budget /\ hist' \in HistRecords
    <3>1. hist' = [hist EXCEPT !.strayed = @ \/ may.at # {at}]
      BY <1>15 DEF Clean
    <3> QED
      BY <3>1, <1>1, <1>15 DEF Clean, HistRecords
  <2>2. CASE ~Rolling
    <3>1. Goes("failed", None) /\ at' = at /\ tree' = tree /\ may' = may
      BY <1>15, <2>2 DEF Clean
    <3>2. /\ op' \in OpRecords /\ op'.pc = "failed" /\ op'.cmd = op.cmd
          /\ op'.retain = op.retain
      BY <3>1, <1>1, <1>2, <1>3, GoesShows
    <3>3. Roles'
      BY <3>2, <1>1 DEF Roles, Rolling, Swapping
    <3>4. Typed'
      BY <2>1, <3>1, <3>2, <1>1 DEF Typed
    <3> QED
      BY <3>1, <3>3, <3>4 DEF Basic, Single
  <2>3. CASE Rolling
    <3> DEFINE t == at[Incoming]
               unmarked == [tree[t] EXCEPT !.marker = None]
               returned == [tree[t] EXCEPT !.receipt = None, !.saw = None]
               v == IF op.cmd = "rollback" THEN unmarked ELSE returned
    <3>1. t \in Trees \cup {None}
      BY <2>3, <1>4, RolesNamed
    <3>2. t \in Trees => unmarked \in TreeRecords
      BY <1>1, <1>3, NewMarker
    <3>3. t \in Trees => returned \in TreeRecords
      BY <1>1, <1>3, NewReceipt
    <3>4. t \in Trees => v \in TreeRecords
      BY <3>2, <3>3
    <3>5. Wrote(t, v) /\ Goes("failed", t)
      BY <1>15, <2>3 DEF Clean, In
    <3> HIDE DEF t, v
    <3>6. /\ op' \in OpRecords /\ op'.pc = "failed" /\ op'.cmd = op.cmd
          /\ op'.retain = op.retain
      <4>1. t \in Dirts
        BY <3>1, <1>3
      <4> QED
        BY <4>1, <3>5, <1>1, <1>2, GoesShows
    <3>7. Roles'
      BY <3>6, <1>1 DEF Roles, Rolling, Swapping
    <3> QED
      BY <2>1, <3>1, <3>4, <3>5, <3>6, <3>7, BasicWrote
  <2> QED
    BY <2>2, <2>3
<1> QED
  BY <1>5, <1>6, <1>7, <1>8, <1>9, <1>10, <1>11, <1>12, <1>13, <1>14, <1>15 DEF Step

\* And everything that may happen.
LEMMA BasicInductive ==
    ASSUME Basic, [Next]_vars
    PROVE  Basic'
<1>1. Typed /\ Roles
  BY DEF Basic
<1>2. CASE Command
  BY <1>2, BasicCommand
<1>3. CASE Step
  BY <1>3, BasicStep
<1>4. CASE Fail
  <2>1. CASE Handler = "idle"
    <3>1. budget' \in Budgets /\ UNCHANGED <<at, tree, may, hist>>
      BY <1>1, <1>4, BudgetSpent DEF Fail, Typed
    <3> QED
      BY <1>4, <2>1, <3>1, BasicIdle DEF Fail
  <2>2. CASE Handler # "idle"
    <3>1. /\ UNCHANGED <<at, tree, may, hist>> /\ Typed'
          /\ op'.pc \in {"clean", "undo", "last undo"}
          /\ op'.pc \in {"undo", "last undo"} => op.pc \in {"in", "undo"}
          /\ op'.cmd = op.cmd /\ op'.retain = op.retain
      BY <1>1, <1>4, <2>2, FailShows
    <3>2. Roles'
      BY <3>1, <1>1 DEF Roles, Rolling, Swapping
    <3> QED
      BY <3>1, <3>2 DEF Basic, Single
  <2> QED
    BY <2>1, <2>2
<1>5. CASE Kill
  <2>1. op' = Idle /\ UNCHANGED <<at, tree, may, hist>> /\ budget' \in Budgets
    BY <1>1, <1>5, BudgetSpent DEF Kill, Typed
  <2> QED
    BY <2>1, BasicIdle
<1>6. CASE PowerLoss
  <2>1. /\ may'.at \subseteq may.at /\ Typed' /\ op'.pc = "idle" /\ op'.cmd = "none"
    BY <1>1, <1>6, PowerLossShows
  <2>2. Roles'
    BY <2>1 DEF Roles, Rolling, Swapping
  <2> QED
    BY <2>1, <2>2 DEF Basic, Single
<1>7. CASE \E n \in Names : Damage(n)
  <2>1. UNCHANGED <<at, op, hist>> /\ may'.at = may.at /\ Typed'
    BY <1>1, <1>7, DamageShows
  <2>2. Roles'
    BY <2>1, <1>1 DEF Roles, Rolling
  <2> QED
    BY <2>1, <2>2 DEF Basic, Single
<1>8. CASE UNCHANGED vars
  BY <1>8 DEF vars, Basic, Typed, Roles, Rolling, Single
<1> QED
  BY <1>2, <1>3, <1>4, <1>5, <1>6, <1>7, <1>8 DEF Next

-------------------------------------------------------------------------------
(* The theorems.                                                           *)

\* The first cutover is ahead, or nothing of it is left to do.
LEMMA InitInductive ==
    ASSUME Init
    PROVE  Sound /\ Basic /\ ~hist.strayed
<1>1. PICK legacy \in BOOLEAN, c \in Changes :
          /\ at = [n \in Names |->
                CASE n = "target" -> IF legacy THEN Legacy ELSE Predecessor
                  [] n = "predecessor" /\ legacy -> Predecessor
                  [] OTHER -> None]
          /\ tree = [t \in Trees |->
                IF t = Legacy /\ legacy THEN [SdkTree(c) EXCEPT !.ledger = FALSE]
                ELSE SdkTree(None)]
          /\ hist = [cut |-> legacy, strayed |-> FALSE, lost |-> FALSE, last |-> None]
  BY DEF Init
<1>2. /\ may = [at |-> {at}, tree |-> [t \in Trees |-> {tree[t]}]] /\ op = Idle
      /\ budget = [commands |-> MaxCommands, faults |-> MaxFaults, damage |-> MaxDamage]
  BY DEF Init
<1>3. \A t \in Trees : /\ tree[t] \in TreeRecords /\ ~tree[t].bound
                       /\ tree[t].marker = None /\ tree[t].receipt = None
  <2>1. ASSUME NEW d \in Changes \cup {None}
        PROVE  /\ SdkTree(d) \in TreeRecords /\ ~SdkTree(d).bound
               /\ SdkTree(d).marker = None /\ SdkTree(d).receipt = None
    BY DEF SdkTree, TreeRecords, Inspections
  <2> DEFINE was == SdkTree(c)
             old == [was EXCEPT !.ledger = FALSE]
  <2>2. old \in TreeRecords /\ ~old.bound /\ old.marker = None /\ old.receipt = None
    <3>1. was \in TreeRecords /\ ~was.bound /\ was.marker = None /\ was.receipt = None
      BY <2>1
    <3> HIDE DEF was
    <3> QED
      BY <3>1 DEF TreeRecords
  <2> QED
    BY <2>1, <2>2, <1>1
<1>4. /\ Fixed \subseteq Names
      /\ at["target"] = IF legacy THEN Legacy ELSE Predecessor
      /\ at["predecessor"] = IF legacy THEN Predecessor ELSE None
      /\ \A n \in Names \ {"target", "predecessor"} : at[n] = None
  BY <1>1 DEF Fixed, Names
<1>5. at \in Maps
  <2>1. \A n \in Names : at[n] \in Trees \cup {None}
    BY <1>4, Distinct
  <2> QED
    BY <2>1, <1>1 DEF Maps
<1>6. Typed
  <2>1. tree \in [Trees -> TreeRecords]
    BY <1>1, <1>3
  <2>2. may \in MayRecords /\ at \in may.at /\ \A t \in Trees : tree[t] \in may.tree[t]
    BY <1>2, <1>3, <1>5 DEF MayRecords
  <2>3. hist \in HistRecords
    BY <1>1 DEF HistRecords
  <2>4. budget \in Budgets
    <3>1. /\ MaxCommands \in 0..MaxCommands /\ MaxFaults \in 0..MaxFaults
          /\ MaxDamage \in 0..MaxDamage
      <4>1. MaxCommands \in Nat /\ MaxFaults \in Nat /\ MaxDamage \in Nat
        BY RoutingAssumption
      <4> QED
        BY <4>1
    <3> QED
      BY <3>1, <1>2 DEF Budgets
  <2> QED
    BY <2>1, <2>2, <2>3, <2>4, <1>2, IdleShows DEF Typed
<1>7. Notes
  BY <1>2, <1>3, IdleShows, Distinct DEF Notes, Rolling
<1>8. Places
  <2>1. Proper(at)
    BY <1>4, Distinct DEF Proper, Fixed
  <2> QED
    BY <2>1, <1>2 DEF Places
<1>9. Cut(at) <=> legacy
  BY <1>4, Distinct DEF Cut, Fixed
<1>10. CutStays
  BY <1>1, <1>2, <1>9 DEF CutStays
<1>11. Positions /\ Noted
  BY <1>2, IdleShows DEF Positions, Noted, Rolling, RollingBack, Swapping
<1>12. Course
  BY <1>2, IdleShows DEF Course, Rolling, Swapping
<1>13. Promised
  <2>1. \A t \in Trees : ~Bound(may.tree[t])
    BY <1>2, <1>3 DEF Bound
  <2>2. hist.last = None
    BY <1>1
  <2>3. at["prepared"] = None
    BY <1>4 DEF Fixed
  <2>4. Promises(at, may.tree, hist.last)
    BY <2>1, <2>2, <2>3, <1>4, <1>9, Distinct DEF Promises
  <2> QED
    BY <2>4, <1>2 DEF Promised
<1> QED
  <2>1. Single(at) /\ Roles
    BY <1>2, <1>8, IdleShows DEF Places, Proper, Single, Roles, Rolling, Swapping
  <2>2. Basic
    BY <2>1, <1>2, <1>6 DEF Basic
  <2>3. ~hist.strayed
    BY <1>1
  <2> QED
    BY <2>2, <2>3, <1>6, <1>7, <1>8, <1>10, <1>11, <1>12, <1>13 DEF Sound

\* A stray is never forgotten.
LEMMA StrayStays ==
    ASSUME Basic, [Next]_vars, hist.strayed
    PROVE  hist'.strayed
<1>1. Typed /\ hist \in HistRecords /\ hist.strayed = TRUE
  BY DEF Basic, Typed, HistRecords
<1>2. CASE Command
  <2>1. PICK cmd, c, x, pc, found : Starts(cmd, c, x, pc, found)
    BY <1>2 DEF Command, Materialize, Refresh, Rollback, RollbackSdk
  <2> QED
    BY <2>1, <1>1 DEF Starts, HistRecords
<1>3. CASE Step
  <2>1. CASE Sync
    BY <2>1, <1>1 DEF Sync, HistRecords
  <2>2. CASE MoveOut
    BY <2>2, <1>1 DEF MoveOut, HistRecords
  <2>3. CASE Clean
    BY <2>3, <1>1 DEF Clean, HistRecords
  <2>4. CASE hist' = hist
    BY <2>4
  <2> QED
    BY <1>3, <2>1, <2>2, <2>3, <2>4
       DEF Step, Build, Seal, WriteManifest, Unmark, WriteNote, MoveIn, Finish, Undo
<1>4. CASE PowerLoss
  BY <1>1, <1>4, PowerLossShows
<1>5. CASE hist' = hist
  BY <1>5
<1> QED
  BY <1>2, <1>3, <1>4, <1>5 DEF Next, Fail, Kill, Damage, vars

\* While nothing strays, every step keeps what is sound.
LEMMA SoundInductive ==
    ASSUME Sound, [Next]_vars, ~hist'.strayed
    PROVE  Sound'
<1>1. CASE Command
  BY <1>1, MaterializeKeeps, RefreshKeeps, RollbackKeeps, RollbackSdkKeeps DEF Command
<1>2. CASE Step
  <2>1. CASE Finish
    <3>1. op' = Idle /\ UNCHANGED <<at, tree, may, budget, hist>>
      BY <2>1 DEF Finish
    <3>2. budget' \in Budgets
      BY <3>1, Now DEF Typed
    <3> QED
      BY <3>1, <3>2, IdleKeeps
  <2> QED
    BY <1>2, <2>1, BuildKeeps, SealKeeps, WriteManifestKeeps, UnmarkKeeps, WriteNoteKeeps,
       MoveOutKeeps, MoveInKeeps, SyncKeeps, UndoKeeps, CleanKeeps DEF Step
<1>3. CASE Fail
  BY <1>3, FailKeeps
<1>4. CASE Kill
  <2>1. op' = Idle /\ UNCHANGED <<at, tree, may, hist>>
    BY <1>4 DEF Kill
  <2>2. budget' \in Budgets
    BY <1>4, Now, BudgetSpent DEF Kill, Typed
  <2> QED
    BY <2>1, <2>2, IdleKeeps
<1>5. CASE PowerLoss
  BY <1>5, PowerLossKeeps
<1>6. CASE \E n \in Names : Damage(n)
  BY <1>6, DamageKeeps
<1>7. CASE UNCHANGED vars
  <2>1. UNCHANGED <<at, tree, may, op, budget, hist>>
    BY <1>7 DEF vars
  <2>2. Typed' /\ Notes' /\ Places' /\ CutStays'
    BY <2>1, Now DEF Typed, Notes, Rolling, Places, CutStays
  <2>3. Outgoing' = Outgoing /\ (Rolling' <=> Rolling)
    BY <2>1, SameRoots
  <2>4. Positions' /\ Noted'
    BY <2>1, <2>3, Now DEF Positions, Noted
  <2>5. Course' /\ Promised'
    BY <2>1, <2>3, Now DEF Course, Promised
  <2> QED
    BY <2>2, <2>4, <2>5 DEF Sound
<1> QED
  BY <1>1, <1>2, <1>3, <1>4, <1>5, <1>6, <1>7 DEF Next

\* In every reachable state no arrangement that a power loss may leave has a tree twice,
\* and while nothing strayed every arrangement, with every version of its trees, keeps the
\* promises: the predecessor that serves is marked and a bound tree is sealed.
THEOREM Inductive == Spec => []IInv
<1>1. Init => IInv
  BY InitInductive DEF IInv
<1>2. IInv /\ [Next]_vars => IInv'
  <2>1. ASSUME IInv, [Next]_vars
        PROVE  IInv'
    <3>1. Basic'
      BY <2>1, BasicInductive DEF IInv
    <3>2. ASSUME ~hist'.strayed
          PROVE  Sound'
      <4>1. ~hist.strayed
        BY <2>1, <3>2, StrayStays DEF IInv
      <4> QED
        BY <2>1, <3>2, <4>1, SoundInductive DEF IInv
    <3> QED
      BY <3>1, <3>2 DEF IInv
  <2> QED
    BY <2>1
<1> QED
  BY <1>1, <1>2, PTL DEF Spec

\* The variables have their types, and every directory name holds at most one tree and
\* every tree stands under one name, whatever went astray.
THEOREM TypeCorrect == Spec => []TypeOK
<1>1. IInv => TypeOK
  <2>1. ASSUME Basic
        PROVE  TypeOK
    <3>1. Typed /\ at \in may.at /\ Single(at) /\ at \in Maps
      BY <2>1 DEF Basic, Typed, MayRecords
    <3> QED
      BY <3>1 DEF Typed, Maps, Single, OpRecords, Pcs, Dirts, Budgets, TypeOK
  <2> QED
    BY <2>1 DEF IInv
<1> QED
  BY <1>1, Inductive, PTL

\* Once the cutover is durable, and until something strays, the predecessor serves only
\* with its marker, after a power loss too.
THEOREM PredecessorIsMarked == Spec => []PredecessorMarked
<1>1. IInv => PredecessorMarked
  BY DEF IInv, Sound, CutStays, Promised, Promises, Marked, PredecessorMarked
<1> QED
  BY <1>1, Inductive, PTL

\* Until something strays, a mirror whose manifest binds an SDK rollback tree has a tree
\* of the release in that root, after a power loss too.
THEOREM BoundIsSealed == Spec => []BoundTreeIsSealed
<1>1. IInv => BoundTreeIsSealed
  BY DEF IInv, Sound, Promised, Promises, Bound, BoundTreeIsSealed
<1> QED
  BY <1>1, Inductive, PTL

=============================================================================
