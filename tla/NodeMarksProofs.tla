--------------------------- MODULE NodeMarksProofs ---------------------------
(***************************************************************************)
(* Theorems of NodeMarks, for any sets of nodes and claims and any number  *)
(* of operator edits and attempts.                                         *)
(***************************************************************************)
EXTENDS NodeMarks, TLAPS

\* What a lagging view says of whose mark a node carries: a mark the cache shows for the
\* rotation in flight is its own or taken off again, never another's, and so is the mark
\* of a node its release has listed.
MarksBehind ==
    /\ \A n \in Nodes : anchor # None /\ seen[n].surgeFor = anchor =>
         node[n].surgeFor \in {anchor, None}
    /\ pc = "release" => \A n \in todo : node[n].surgeFor \in {anchor, None}

\* The inductive invariant.
MarksInv == TypeOK /\ OperatorMarksKept /\ Attributable /\ MarksBehind

-----------------------------------------------------------------------------
(***************************************************************************)
(* The mutators, on one node: what they keep of a node's record r when the *)
(* operator's own do-not-disrupt (d) and cordon (k) are as the history has *)
(* them.                                                                   *)
(***************************************************************************)

Sound(r, d, k) ==
    /\ r \in NodeRec /\ d \in BOOLEAN /\ k \in BOOLEAN
    /\ d => operatorOwnsDoNotDisrupt(r)
    /\ k => r.unschedulable /\ ~r.cordoned
    /\ r.dnd = "true" /\ ~d => r.owned
    /\ r.owned => r.surgeFor # None
    /\ r.unschedulable /\ ~k => r.cordoned

AllSound == \A n \in Nodes : Sound(node[n], opDnd[n], opCordon[n])

LEMMA InvIsSound ==
  ASSUME node \in [Nodes -> NodeRec], opDnd \in [Nodes -> BOOLEAN],
         opCordon \in [Nodes -> BOOLEAN]
  PROVE  AllSound <=> OperatorMarksKept /\ Attributable
  BY DEF AllSound, Sound, OperatorMarksKept, Attributable

\* applyFreeze: an operator's protection is left alone, and what is added is marked.
LEMMA FreezeSound ==
  ASSUME NEW r, NEW d, NEW k, NEW c \in Claims, Sound(r, d, k)
  PROVE  Sound(applyFreeze(r, c), d, k) /\ applyFreeze(r, c).surgeFor = c
  <1>1. c # None
    BY MarksAssumption
  <1>2. CASE operatorOwnsDoNotDisrupt(r)
    BY <1>1, <1>2 DEF Sound, applyFreeze, operatorOwnsDoNotDisrupt, NodeRec
  <1>3. CASE ~operatorOwnsDoNotDisrupt(r)
    BY <1>1, <1>3 DEF Sound, applyFreeze, operatorOwnsDoNotDisrupt, NodeRec
  <1> QED  BY <1>2, <1>3

\* applyCordon, applyUncordon: an operator's cordon is neither adopted nor lifted.
LEMMA CordonSound ==
  ASSUME NEW r, NEW d, NEW k, Sound(r, d, k)
  PROVE  Sound(applyCordon(r), d, k) /\ applyCordon(r).surgeFor = r.surgeFor
  BY DEF Sound, applyCordon, operatorOwnsDoNotDisrupt, NodeRec

LEMMA UncordonSound ==
  ASSUME NEW r, NEW d, NEW k, Sound(r, d, k)
  PROVE  Sound(applyUncordon(r), d, k) /\ applyUncordon(r).surgeFor = r.surgeFor
  BY DEF Sound, applyUncordon, operatorOwnsDoNotDisrupt, NodeRec

\* applyUnfreeze: a marker goes together with what it marks.
LEMMA UnfreezeSound ==
  ASSUME NEW r, NEW d, NEW k, Sound(r, d, k)
  PROVE  Sound(applyUnfreeze(r), d, k) /\ applyUnfreeze(r).surgeFor = None
  <1> DEFINE q == IF r.owned
                  THEN [r EXCEPT !.surgeFor = None, !.dnd = "none", !.owned = FALSE]
                  ELSE [r EXCEPT !.surgeFor = None]
  <1>1. Sound(q, d, k) /\ q.surgeFor = None
    BY DEF Sound, operatorOwnsDoNotDisrupt, NodeRec
  <1>2. applyUnfreeze(r) = applyUncordon(q)
    BY DEF applyUnfreeze
  <1> HIDE DEF q
  <1> QED  BY <1>1, <1>2, UncordonSound

-----------------------------------------------------------------------------
(***************************************************************************)
(* One write of patchNode: the node keeps its soundness and the mark it    *)
(* carries becomes m, or nothing changes.                                  *)
(***************************************************************************)

LEMMA PatchKeeps ==
  ASSUME TypeOK, AllSound, NEW n \in Nodes, NEW new, patchNode(n, new),
         Sound(seen[n], opDnd[n], opCordon[n]) => Sound(new, opDnd[n], opCordon[n]),
         UNCHANGED ghosts
  PROVE  /\ node' \in [Nodes -> NodeRec] /\ seen' = seen /\ AllSound'
         /\ \A h \in Nodes : node'[h] # node[h] =>
              h = n /\ seen[n] = node[n] /\ node'[n] = new
  <1>1. seen' = seen /\ UNCHANGED <<opDnd, opCordon>>
    BY DEF patchNode, ghosts
  <1>2. CASE new = seen[n]
    BY <1>1, <1>2 DEF patchNode, TypeOK, AllSound
  <1>3. CASE new # seen[n]
    <2>1. seen[n] = node[n] /\ node' = [node EXCEPT ![n] = new]
      BY <1>3 DEF patchNode
    <2>2. Sound(new, opDnd[n], opCordon[n])
      BY <2>1 DEF AllSound
    <2>3. new \in NodeRec
      BY <2>2 DEF Sound
    <2>4. node' \in [Nodes -> NodeRec]
      BY <2>1, <2>3 DEF TypeOK
    <2>5. \A h \in Nodes : node'[h] = IF h = n THEN new ELSE node[h]
      BY <2>1 DEF TypeOK
    <2>6. AllSound'
      BY <1>1, <2>2, <2>5 DEF AllSound
    <2> QED  BY <1>1, <2>1, <2>4, <2>5, <2>6
  <1> QED  BY <1>2, <1>3

-----------------------------------------------------------------------------
(***************************************************************************)
(* The steps.                                                              *)
(***************************************************************************)

\* A step that writes nodes through patchNode, or none, for the rotation in flight.
LEMMA WriteStep ==
  ASSUME MarksInv, NEW n \in Nodes, NEW new, patchNode(n, new),
         Sound(seen[n], opDnd[n], opCordon[n]) =>
           Sound(new, opDnd[n], opCordon[n])
             /\ new.surgeFor \in {anchor, None, seen[n].surgeFor},
         UNCHANGED <<anchor, ghosts, edits, rotations>>,
         pc' \in {"sweepNodes", "idle", "cordon", "host", "release"},
         pc' \in {"cordon", "host", "release"} => anchor # None,
         todo' \subseteq todo, pc' = "release" => pc = "release"
  PROVE  MarksInv'
  <1> USE DEF MarksInv
  <1>1. AllSound
    BY InvIsSound DEF TypeOK
  <1>2. /\ node' \in [Nodes -> NodeRec] /\ seen' = seen /\ AllSound'
        /\ \A h \in Nodes : node'[h] # node[h] =>
             h = n /\ seen[n] = node[n] /\ node'[n] = new
    BY <1>1, PatchKeeps DEF ghosts
  <1>3. TypeOK'
    BY <1>2 DEF TypeOK, ghosts
  <1>4. OperatorMarksKept' /\ Attributable'
    BY <1>2, <1>3, InvIsSound DEF TypeOK, AllSound, Sound, OperatorMarksKept, Attributable
  <1>5. \A h \in Nodes : node[h].surgeFor \in {anchor, None} =>
                           node'[h].surgeFor \in {anchor, None}
    <2> SUFFICES ASSUME NEW h \in Nodes, node[h].surgeFor \in {anchor, None},
                        node'[h] # node[h]
                 PROVE  node'[h].surgeFor \in {anchor, None}
      OBVIOUS
    <2>1. h = n /\ seen[n] = node[n] /\ node'[n] = new
      BY <1>2
    <2>2. Sound(seen[n], opDnd[n], opCordon[n])
      BY <1>1, <2>1 DEF AllSound
    <2> QED  BY <2>1, <2>2
  <1>6. MarksBehind'
    BY <1>2, <1>5 DEF MarksBehind, TypeOK
  <1> QED  BY <1>3, <1>4, <1>6

\* A step of the worker that writes no node.
LEMMA QuietStep ==
  ASSUME MarksInv, UNCHANGED <<node, seen, anchor, ghosts, edits>>,
         rotations' \in Nat, todo' \subseteq Nodes,
         pc' \in {"sweep", "sweepNodes", "idle", "freeze", "cordon", "host", "release"},
         pc' \in {"freeze", "cordon", "host", "release"} => anchor # None,
         pc' = "release" => \A n \in todo' : node[n].surgeFor \in {anchor, None}
  PROVE  MarksInv'
  BY DEF MarksInv, TypeOK, OperatorMarksKept, Attributable, MarksBehind, ghosts,
         operatorOwnsDoNotDisrupt

LEMMA SweepKeeps ==
  ASSUME MarksInv, SweepList \/ SweepDone \/ \E n \in Nodes : SweepNode(n) \/ SweepItemFails(n)
  PROVE  MarksInv'
  <1>1. ASSUME NEW n \in Nodes, SweepNode(n) PROVE MarksInv'
    <2> DEFINE new == IF ~Orphaned(seen[n]) THEN seen[n]
                      ELSE IF seen[n].surgeFor # None THEN applyUnfreeze(seen[n])
                      ELSE applyUncordon(seen[n])
    <2>1. Sound(seen[n], opDnd[n], opCordon[n]) =>
            Sound(new, opDnd[n], opCordon[n])
              /\ new.surgeFor \in {anchor, None, seen[n].surgeFor}
      BY UnfreezeSound, UncordonSound
    <2>2. patchNode(n, new)
      BY <1>1 DEF SweepNode
    <2> HIDE DEF new
    <2>3. /\ UNCHANGED <<anchor, ghosts, edits, rotations>>
          /\ pc' = "sweepNodes" /\ todo' \subseteq todo
      BY <1>1 DEF SweepNode
    <2> QED  BY <2>1, <2>2, <2>3, WriteStep
  <1>2. CASE SweepList \/ SweepDone \/ \E n \in Nodes : SweepItemFails(n)
    BY <1>2, QuietStep DEF SweepList, SweepDone, SweepItemFails, MarksInv, TypeOK
  <1> QED  BY <1>1, <1>2

LEMMA FreezeKeeps ==
  ASSUME MarksInv, FreezeOld \/ CordonOld \/ \E h \in Nodes : FreezeHost(h)
  PROVE  MarksInv'
  <1>1. pc \in {"freeze", "cordon", "host"} => anchor \in Claims /\ Home[anchor] \in Nodes
    BY MarksAssumption DEF MarksInv, TypeOK
  <1>2. ASSUME NEW n \in Nodes, pc \in {"freeze", "host"},
               patchNode(n, applyFreeze(seen[n], anchor)),
               UNCHANGED <<anchor, todo, ghosts, edits, rotations>>, pc' \in {"cordon", "idle"}
        PROVE  MarksInv'
    <2>1. anchor # None
      BY <1>2 DEF MarksInv, TypeOK
    <2>2. Sound(seen[n], opDnd[n], opCordon[n]) =>
            Sound(applyFreeze(seen[n], anchor), opDnd[n], opCordon[n])
              /\ applyFreeze(seen[n], anchor).surgeFor \in {anchor, None, seen[n].surgeFor}
      BY <1>1, <1>2, FreezeSound
    <2> QED  BY <1>2, <2>1, <2>2, WriteStep
  <1>3. CASE FreezeOld
    BY <1>1, <1>2, <1>3 DEF FreezeOld
  <1>4. CASE \E h \in Nodes : FreezeHost(h)
    BY <1>2, <1>4 DEF FreezeHost
  <1>5. CASE CordonOld
    <2> DEFINE n == Home[anchor]
    <2>1. n \in Nodes /\ anchor # None
      BY <1>1, <1>5, MarksAssumption DEF CordonOld
    <2>2. Sound(seen[n], opDnd[n], opCordon[n]) =>
            Sound(applyCordon(seen[n]), opDnd[n], opCordon[n])
              /\ applyCordon(seen[n]).surgeFor \in {anchor, None, seen[n].surgeFor}
      BY CordonSound
    <2>3. /\ patchNode(n, applyCordon(seen[n])) /\ pc' = "host"
          /\ UNCHANGED <<anchor, todo, ghosts, edits, rotations>>
      BY <1>5 DEF CordonOld
    <2> HIDE DEF n
    <2> QED  BY <2>1, <2>2, <2>3, WriteStep
  <1> QED  BY <1>3, <1>4, <1>5

LEMMA ReleaseKeeps ==
  ASSUME MarksInv, ReleaseList \/ ReleaseDone \/ \E n \in Nodes : ReleaseNode(n)
  PROVE  MarksInv'
  <1>1. ASSUME NEW n \in Nodes, ReleaseNode(n) PROVE MarksInv'
    <2>1. Sound(seen[n], opDnd[n], opCordon[n]) =>
            Sound(applyUnfreeze(seen[n]), opDnd[n], opCordon[n])
              /\ applyUnfreeze(seen[n]).surgeFor \in {anchor, None, seen[n].surgeFor}
      BY UnfreezeSound
    <2>2. /\ patchNode(n, applyUnfreeze(seen[n])) /\ pc = "release" /\ pc' = "release"
          /\ UNCHANGED <<anchor, ghosts, edits, rotations>> /\ todo' \subseteq todo
      BY <1>1 DEF ReleaseNode
    <2>3. anchor # None
      BY <2>2 DEF MarksInv, TypeOK
    <2> QED  BY <2>1, <2>2, <2>3, WriteStep
  <1>2. CASE ReleaseList
    <2>1. \A n \in todo' : node[n].surgeFor \in {anchor, None}
      BY <1>2 DEF ReleaseList, MarksInv, MarksBehind
    <2> QED  BY <1>2, <2>1, QuietStep DEF ReleaseList, MarksInv, TypeOK
  <1>3. CASE ReleaseDone
    BY <1>3 DEF ReleaseDone, MarksInv, TypeOK, OperatorMarksKept, Attributable,
                MarksBehind, ghosts, operatorOwnsDoNotDisrupt
  <1> QED  BY <1>1, <1>2, <1>3

LEMMA PassKeeps ==
  ASSUME MarksInv, \/ AdvancePending \/ WaitForHost \/ Abandon \/ Restart
                   \/ \E c \in Claims : StartRotation(c)
  PROVE  MarksInv'
  <1>1. CASE AdvancePending \/ WaitForHost \/ Abandon
    BY <1>1, QuietStep DEF AdvancePending, WaitForHost, Abandon, MarksInv, TypeOK
  <1>2. CASE Restart
    BY <1>2 DEF Restart, MarksInv, TypeOK, OperatorMarksKept, Attributable,
                MarksBehind, ghosts, operatorOwnsDoNotDisrupt
  <1>3. CASE \E c \in Claims : StartRotation(c)
    BY <1>3, MarksAssumption DEF StartRotation, MarksInv, TypeOK, OperatorMarksKept,
                Attributable, MarksBehind, ghosts, operatorOwnsDoNotDisrupt
  <1> QED  BY <1>1, <1>2, <1>3

LEMMA SyncKeeps == ASSUME MarksInv, \E n \in Nodes : SyncNode(n) PROVE MarksInv'
  BY DEF SyncNode, MarksInv, TypeOK, OperatorMarksKept, Attributable, MarksBehind,
         ghosts, operatorOwnsDoNotDisrupt

\* An operator's edit of one node, with the history of whose the fields are now.
LEMMA EditKeeps ==
  ASSUME MarksInv, NEW n \in Nodes, NEW r, Edit(n, r),
         NEW d, NEW k, Sound(r, d, k), r.surgeFor = node[n].surgeFor,
         opDnd' = [opDnd EXCEPT ![n] = d], opCordon' = [opCordon EXCEPT ![n] = k]
  PROVE  MarksInv'
  <1>1. r \in NodeRec /\ d \in BOOLEAN /\ k \in BOOLEAN
    BY DEF Sound
  <1>2. TypeOK'
    BY <1>1 DEF MarksInv, TypeOK, Edit
  <1>3. \A h \in Nodes : /\ node'[h] = IF h = n THEN r ELSE node[h]
                         /\ opDnd'[h] = IF h = n THEN d ELSE opDnd[h]
                         /\ opCordon'[h] = IF h = n THEN k ELSE opCordon[h]
    BY DEF MarksInv, TypeOK, Edit
  <1>4. AllSound
    BY InvIsSound DEF MarksInv, TypeOK
  <1>5. OperatorMarksKept' /\ Attributable'
    BY <1>3, <1>4 DEF AllSound, Sound, OperatorMarksKept, Attributable
  <1>6. \A h \in Nodes : node'[h].surgeFor = node[h].surgeFor
    BY <1>3
  <1>7. MarksBehind'
    BY <1>6 DEF MarksInv, MarksBehind, TypeOK, Edit
  <1> QED  BY <1>2, <1>5, <1>7 DEF MarksInv

LEMMA OperatorKeeps ==
  ASSUME MarksInv, NEW n \in Nodes,
         \/ OperatorProtects(n) \/ OperatorCordons(n) \/ OperatorUncordons(n)
         \/ \E v \in {"none", "false"} : OperatorUnprotects(n, v)
  PROVE  MarksInv'
  <1>1. /\ Sound(node[n], opDnd[n], opCordon[n])
        /\ opDnd = [opDnd EXCEPT ![n] = opDnd[n]]
        /\ opCordon = [opCordon EXCEPT ![n] = opCordon[n]]
    BY InvIsSound DEF MarksInv, TypeOK, AllSound
  <1>2. CASE OperatorProtects(n)
    <2> DEFINE r == [node[n] EXCEPT !.dnd = "true"]
    <2>1. Sound(r, ~node[n].owned, opCordon[n]) /\ r.surgeFor = node[n].surgeFor
      BY <1>1, <1>2 DEF OperatorProtects, Sound, NodeRec, operatorOwnsDoNotDisrupt
    <2> HIDE DEF r
    <2> QED  BY <1>1, <1>2, <2>1, EditKeeps DEF OperatorProtects, r
  <1>3. ASSUME NEW v \in {"none", "false"}, OperatorUnprotects(n, v) PROVE MarksInv'
    <2> DEFINE r == [node[n] EXCEPT !.dnd = v]
    <2>1. Sound(r, FALSE, opCordon[n]) /\ r.surgeFor = node[n].surgeFor
      BY <1>1, <1>3 DEF OperatorUnprotects, Sound, NodeRec, operatorOwnsDoNotDisrupt
    <2> HIDE DEF r
    <2> QED  BY <1>1, <1>3, <2>1, EditKeeps DEF OperatorUnprotects, r
  <1>4. CASE OperatorCordons(n)
    <2> DEFINE r == [node[n] EXCEPT !.unschedulable = TRUE]
    <2>1. Sound(r, opDnd[n], ~node[n].cordoned) /\ r.surgeFor = node[n].surgeFor
      BY <1>1, <1>4 DEF OperatorCordons, Sound, NodeRec, operatorOwnsDoNotDisrupt
    <2> HIDE DEF r
    <2> QED  BY <1>1, <1>4, <2>1, EditKeeps DEF OperatorCordons, r
  <1>5. CASE OperatorUncordons(n)
    <2> DEFINE r == [node[n] EXCEPT !.unschedulable = FALSE]
    <2>1. Sound(r, opDnd[n], FALSE) /\ r.surgeFor = node[n].surgeFor
      BY <1>1, <1>5 DEF OperatorUncordons, Sound, NodeRec, operatorOwnsDoNotDisrupt
    <2> HIDE DEF r
    <2> QED  BY <1>1, <1>5, <2>1, EditKeeps DEF OperatorUncordons, r
  <1> QED  BY <1>2, <1>3, <1>4, <1>5

LEMMA MarksInit == Init => MarksInv
  <1> SUFFICES ASSUME Init PROVE MarksInv
    OBVIOUS
  <1>1. Blank \in NodeRec
    BY DEF Blank, NodeRec
  <1>2. TypeOK
    BY <1>1 DEF Init, TypeOK
  <1>3. \A n \in Nodes : node[n] = Blank /\ ~opDnd[n] /\ ~opCordon[n]
    BY DEF Init
  <1> QED
    BY <1>2, <1>3 DEF Init, MarksInv, OperatorMarksKept, Attributable, MarksBehind, Blank

LEMMA MarksStep == MarksInv /\ [Next]_vars => MarksInv'
  <1> SUFFICES ASSUME MarksInv, [Next]_vars PROVE MarksInv'
    OBVIOUS
  <1>1. CASE UNCHANGED vars
    BY <1>1 DEF vars, MarksInv, TypeOK, OperatorMarksKept, Attributable, MarksBehind,
                operatorOwnsDoNotDisrupt
  <1>2. CASE Next
    BY <1>2, SweepKeeps, FreezeKeeps, ReleaseKeeps, PassKeeps, SyncKeeps, OperatorKeeps
    DEF Next
  <1> QED  BY <1>1, <1>2

-----------------------------------------------------------------------------
(***************************************************************************)
(* The theorems.                                                           *)
(***************************************************************************)

\* The inductive invariant holds: shape, the operator's marks, attribution, and whose
\* the marks are that a lagging Node cache and a List show.
THEOREM MarksInvHolds == Spec => []MarksInv
  BY MarksInit, MarksStep, PTL DEF Spec

\* The shape of nodes, views and pass; no node call without an anchor.
THEOREM MarksTyped == Spec => []TypeOK
  <1>1. MarksInv => TypeOK
    BY DEF MarksInv
  <1> QED  BY <1>1, MarksInvHolds, PTL

\* No freeze, release or sweep, on whatever stale read, adopts or removes an operator's
\* do-not-disrupt or cordon (applyFreeze, applyCordon, applyUnfreeze).
THEOREM OperatorKept == Spec => []OperatorMarksKept
  <1>1. MarksInv => OperatorMarksKept
    BY DEF MarksInv
  <1> QED  BY <1>1, MarksInvHolds, PTL

\* Every protection or cordon on a node is the operator's or carries the marker by which
\* a release or a later sweep finds it.
THEOREM MarksAttributable == Spec => []Attributable
  <1>1. MarksInv => Attributable
    BY DEF MarksInv
  <1> QED  BY <1>1, MarksInvHolds, PTL

\* The mark of a node the sweep or a freeze writes over is no live rotation's, and a
\* release takes off its own rotation's marks only.
LEMMA MarkMoves ==
  ASSUME MarksInv, Next, NEW n \in Nodes,
         node[n].surgeFor # None, node'[n].surgeFor # node[n].surgeFor
  PROVE  pc = "release" <=> node[n].surgeFor = anchor
  <1>0. TypeOK /\ AllSound
    BY InvIsSound DEF MarksInv, TypeOK
  <1>1. ASSUME NEW h \in Nodes, NEW new, patchNode(h, new)
        PROVE  h = n /\ seen[n] = node[n] /\ node'[n] = new
    BY <1>0, <1>1 DEF patchNode, TypeOK
  <1>2. ASSUME NEW h \in Nodes, SweepNode(h)
        PROVE  pc # "release" /\ node[n].surgeFor # anchor
    <2>1. h = n /\ seen[n] = node[n] /\ Orphaned(seen[n])
      BY <1>1, <1>2 DEF SweepNode
    <2> QED  BY <1>2, <2>1 DEF SweepNode, Orphaned
  <1>3. ASSUME NEW h \in Nodes, patchNode(h, applyFreeze(seen[h], anchor)), anchor \in Claims
        PROVE  node[n].surgeFor # anchor
    <2>1. h = n /\ seen[n] = node[n] /\ node'[n] = applyFreeze(node[n], anchor)
      BY <1>1, <1>3
    <2>2. node'[n].surgeFor = anchor
      BY <1>0, <1>3, <2>1, FreezeSound DEF AllSound
    <2> QED  BY <2>2
  <1>4. ASSUME FreezeOld PROVE pc # "release" /\ node[n].surgeFor # anchor
    <2>1. anchor \in Claims /\ Home[anchor] \in Nodes /\ pc = "freeze"
      BY <1>0, <1>4, MarksAssumption DEF FreezeOld, TypeOK
    <2> QED  BY <1>3, <1>4, <2>1 DEF FreezeOld
  <1>5. ASSUME NEW h \in Nodes, FreezeHost(h) PROVE pc # "release" /\ node[n].surgeFor # anchor
    <2>1. anchor \in Claims /\ pc = "host"
      BY <1>0, <1>5 DEF FreezeHost, TypeOK
    <2> QED  BY <1>3, <1>5, <2>1 DEF FreezeHost
  <1>6. ASSUME CordonOld PROVE FALSE
    <2>1. Home[anchor] \in Nodes
      BY <1>0, <1>6, MarksAssumption DEF CordonOld, TypeOK
    <2>2. seen[n] = node[n] /\ node'[n] = applyCordon(node[n])
      BY <1>1, <1>6, <2>1 DEF CordonOld
    <2> QED  BY <1>0, <2>2, CordonSound DEF AllSound
  <1>7. ASSUME NEW h \in Nodes, ReleaseNode(h)
        PROVE  pc = "release" /\ node[n].surgeFor = anchor
    <2>1. h = n /\ n \in todo /\ pc = "release"
      BY <1>1, <1>7 DEF ReleaseNode
    <2> QED  BY <2>1 DEF MarksInv, MarksBehind
  <1>8. ASSUME NEW h \in Nodes, NEW r, Edit(h, r), r.surgeFor = node[h].surgeFor PROVE FALSE
    BY <1>0, <1>8 DEF Edit, TypeOK
  <1>9. ASSUME NEW h \in Nodes, \/ OperatorProtects(h) \/ OperatorCordons(h)
                                \/ OperatorUncordons(h)
                                \/ \E v \in {"none", "false"} : OperatorUnprotects(h, v)
        PROVE  FALSE
    <2>1. node[h] \in NodeRec
      BY <1>0 DEF TypeOK
    <2>2. PICK r : Edit(h, r) /\ r.surgeFor = node[h].surgeFor
      BY <1>9, <2>1 DEF OperatorProtects, OperatorCordons, OperatorUncordons,
                        OperatorUnprotects, NodeRec
    <2> QED  BY <1>8, <2>2
  <1>10. node' # node
    OBVIOUS
  <1> QED
    BY <1>2, <1>4, <1>5, <1>6, <1>7, <1>9, <1>10
    DEF Next, SweepList, SweepDone, SweepItemFails, StartRotation, AdvancePending,
        WaitForHost, ReleaseList, ReleaseDone, Abandon, Restart, SyncNode

\* The marks of the rotation in flight stand until its own release, and a release takes
\* off no others, whatever its List was decided on (sweepNodes, unfreezeNodes).
THEOREM LiveMarks == Spec => LiveMarksStand
  <1>1. MarksInv /\ [Next]_vars =>
          [\A n \in Nodes :
             node[n].surgeFor # None /\ node'[n].surgeFor # node[n].surgeFor =>
               (pc = "release" <=> node[n].surgeFor = anchor)]_vars
    BY MarkMoves
  <1> QED  BY <1>1, MarksInvHolds, PTL DEF Spec, LiveMarksStand

=============================================================================
