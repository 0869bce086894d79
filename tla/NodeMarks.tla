----------------------------- MODULE NodeMarks -----------------------------
(***************************************************************************)
(* What the controller writes on Nodes, beside an operator who writes the  *)
(* same fields.  A rotation freezes its old node and its surge host        *)
(* (karpenter.sh/do-not-disrupt) and cordons the old one; ownership markers*)
(* tell the controller's protection from an operator's, and clean-up may   *)
(* reverse only its own.  The rotation is kept coarse: which of its node   *)
(* calls come next, and the List-then-patch clean-up of unfreezeNodes and  *)
(* of the startup sweep, one node at a time.                               *)
(*                                                                         *)
(* Source: internal/controller/nodeops.go, sweepNodes of sweep.go, and     *)
(* patchNode, freezeNode, cordonNode, unfreezeNodes of                     *)
(* rotation_controller.go.                                                 *)
(***************************************************************************)
EXTENDS Naturals

CONSTANTS
    Nodes,
    Claims,
    None,
    Home,           \* the node each old claim runs on
    MaxEdits,       \* bound: operator edits
    MaxRotations    \* bound: rotation attempts

ASSUME MarksAssumption == None \notin Claims /\ Home \in [Claims -> Nodes]

VARIABLES
    node,      \* the Nodes at the API server
    seen,      \* ... as the Node cache last saw them
    anchor,    \* the claim under rotation
    pc,        \* the node call the worker makes next
    todo,      \* nodes a List selected for clean-up
    opDnd,     \* history: do-not-disrupt is the operator's own
    opCordon,  \* history: the cordon is the operator's own
    edits, rotations

vars == <<node, seen, anchor, pc, todo, opDnd, opCordon, edits, rotations>>
ghosts == <<opDnd, opCordon>>

NodeRec == [dnd: {"none", "true", "false"},      \* karpenter.sh/do-not-disrupt
            owned: BOOLEAN,                      \* do-not-disrupt-owned
            surgeFor: Claims \cup {None},        \* surge-for
            unschedulable: BOOLEAN,
            cordoned: BOOLEAN]                   \* cordoned

Blank == [dnd |-> "none", owned |-> FALSE, surgeFor |-> None,
          unschedulable |-> FALSE, cordoned |-> FALSE]

-----------------------------------------------------------------------------
(***************************************************************************)
(* The mutators.                                                           *)
(***************************************************************************)

operatorOwnsDoNotDisrupt(n) == n.dnd = "true" /\ ~n.owned

\* Mutant: an operator's do-not-disrupt is taken over with the rest.
applyFreezeAdopts(n, c) ==
    [n EXCEPT !.dnd = "true", !.owned = TRUE, !.surgeFor = c]

applyFreeze(n, c) ==
    IF operatorOwnsDoNotDisrupt(n)
    THEN [n EXCEPT !.surgeFor = c]
    ELSE [n EXCEPT !.dnd = "true", !.owned = TRUE, !.surgeFor = c]

applyCordon(n) ==
    IF n.unschedulable /\ ~n.cordoned
    THEN n
    ELSE [n EXCEPT !.unschedulable = TRUE, !.cordoned = TRUE]

applyUncordon(n) ==
    IF n.cordoned THEN [n EXCEPT !.unschedulable = FALSE, !.cordoned = FALSE] ELSE n

\* Mutant: the ownership marker goes, the protection it attributes stays.
applyUnfreezeForgets(n) ==
    applyUncordon([n EXCEPT !.surgeFor = None, !.owned = FALSE])

applyUnfreeze(n) ==
    applyUncordon(IF n.owned
                  THEN [n EXCEPT !.surgeFor = None, !.dnd = "none", !.owned = FALSE]
                  ELSE [n EXCEPT !.surgeFor = None])

\* The claims selection skips: their node carries an operator's protection.
excludedClaimNames(view) == {c \in Claims : operatorOwnsDoNotDisrupt(view[Home[c]])}

\* patchNode: read the cache, mutate, update under the read's resourceVersion;
\* nothing to change means no update, whatever the server holds.
patchNode(n, new) ==
    /\ new # seen[n] => seen[n] = node[n]
    /\ node' = IF new = seen[n] THEN node ELSE [node EXCEPT ![n] = new]
    /\ UNCHANGED seen

-----------------------------------------------------------------------------
(***************************************************************************)
(* The startup sweep.                                                      *)
(***************************************************************************)

\* Mutant: the sweep takes every marked node for an orphan.
OrphanedAny(n) == n.surgeFor # None \/ n.cordoned

\* A marker no anchor references; a cordon-only node belongs to no rotation.
Orphaned(n) == IF n.surgeFor # None THEN n.surgeFor # anchor ELSE n.cordoned

SweepList ==
    /\ pc = "sweep"
    /\ todo' = {n \in Nodes : Orphaned(seen[n])}
    /\ pc' = "sweepNodes"
    /\ UNCHANGED <<node, seen, anchor, ghosts, edits, rotations>>

\* The predicate is applied again to the read the write is validated against.
SweepNode(n) ==
    /\ pc = "sweepNodes" /\ n \in todo
    /\ patchNode(n, IF ~Orphaned(seen[n]) THEN seen[n]
                    ELSE IF seen[n].surgeFor # None THEN applyUnfreeze(seen[n])
                    ELSE applyUncordon(seen[n]))
    /\ todo' = todo \ {n}
    /\ UNCHANGED <<anchor, pc, ghosts, edits, rotations>>

\* An item that fails is left for the next start.
SweepItemFails(n) ==
    /\ pc = "sweepNodes" /\ n \in todo
    /\ todo' = todo \ {n}
    /\ UNCHANGED <<node, seen, anchor, pc, ghosts, edits, rotations>>

SweepDone ==
    /\ pc = "sweepNodes" /\ todo = {}
    /\ pc' = "idle"
    /\ UNCHANGED <<node, seen, anchor, todo, ghosts, edits, rotations>>

-----------------------------------------------------------------------------
(***************************************************************************)
(* A rotation's node calls.                                                *)
(***************************************************************************)

\* A new attempt is minutes after the last one (cooldownAfter, retryBackoff): the
\* Node cache has caught up with the clean-up of the last.
StartRotation(c) ==
    /\ pc = "idle" /\ anchor = None /\ rotations < MaxRotations
    /\ seen = node /\ c \notin excludedClaimNames(seen)
    /\ anchor' = c /\ rotations' = rotations + 1
    /\ pc' = "freeze"
    /\ UNCHANGED <<node, seen, todo, ghosts, edits>>

AdvancePending ==
    /\ pc = "idle" /\ anchor # None
    /\ pc' = "freeze"
    /\ UNCHANGED <<node, seen, anchor, todo, ghosts, edits, rotations>>

FreezeOld ==
    /\ pc = "freeze"
    /\ patchNode(Home[anchor], applyFreeze(seen[Home[anchor]], anchor))
    /\ pc' = "cordon"
    /\ UNCHANGED <<anchor, todo, ghosts, edits, rotations>>

CordonOld ==
    /\ pc = "cordon"
    /\ patchNode(Home[anchor], applyCordon(seen[Home[anchor]]))
    /\ pc' = "host"
    /\ UNCHANGED <<anchor, todo, ghosts, edits, rotations>>

\* surge_ready: the host the placeholder bound to is frozen too.
FreezeHost(h) ==
    /\ pc = "host" /\ h # Home[anchor]
    /\ patchNode(h, applyFreeze(seen[h], anchor))
    /\ pc' = "idle"
    /\ UNCHANGED <<anchor, todo, ghosts, edits, rotations>>

WaitForHost ==
    /\ pc = "host"
    /\ pc' = "idle"
    /\ UNCHANGED <<node, seen, anchor, todo, ghosts, edits, rotations>>

\* Mutant: the anchor goes before the nodes are released.
ReleaseAnchorFirst ==
    /\ pc = "idle" /\ anchor # None
    /\ todo' = {n \in Nodes : seen[n].surgeFor = anchor}
    /\ pc' = "release" /\ anchor' = None
    /\ UNCHANGED <<node, seen, ghosts, edits, rotations>>

\* Completion, rollback, expiry or reap: unfreezeNodes selects from a List ...
ReleaseList ==
    /\ pc = "idle" /\ anchor # None
    /\ todo' = {n \in Nodes : seen[n].surgeFor = anchor}
    /\ pc' = "release"
    /\ UNCHANGED <<node, seen, anchor, ghosts, edits, rotations>>

\* ... and applies applyUnfreeze to what it reads then, without a second look.
ReleaseNode(n) ==
    /\ pc = "release" /\ n \in todo
    /\ patchNode(n, applyUnfreeze(seen[n]))
    /\ todo' = todo \ {n}
    /\ UNCHANGED <<anchor, pc, ghosts, edits, rotations>>

\* Only then is the anchor cleared.
ReleaseDone ==
    /\ pc = "release" /\ todo = {}
    /\ anchor' = None /\ pc' = "idle"
    /\ UNCHANGED <<node, seen, todo, ghosts, edits, rotations>>

\* An API error, or a conflict that outlasts the retries, ends the pass.
Abandon ==
    /\ pc \in {"freeze", "cordon", "host", "release"}
    /\ pc' = "idle" /\ todo' = {}
    /\ UNCHANGED <<node, seen, anchor, ghosts, edits, rotations>>

\* A new process lists its caches afresh and sweeps before it reconciles.
Restart ==
    /\ pc' = "sweep" /\ todo' = {} /\ seen' = node
    /\ UNCHANGED <<node, anchor, ghosts, edits, rotations>>

-----------------------------------------------------------------------------
(***************************************************************************)
(* The watch, and the operator.                                            *)
(***************************************************************************)

SyncNode(n) ==
    /\ seen' = [seen EXCEPT ![n] = node[n]]
    /\ UNCHANGED <<node, anchor, pc, todo, ghosts, edits, rotations>>

Edit(n, r) ==
    /\ edits < MaxEdits /\ edits' = edits + 1
    /\ node' = [node EXCEPT ![n] = r]
    /\ UNCHANGED <<seen, anchor, pc, todo, rotations>>

\* A value written over the controller's own annotation while its marker stands is
\* not an operator's protection in the code's sense.
OperatorProtects(n) ==
    /\ node[n].dnd # "true"
    /\ Edit(n, [node[n] EXCEPT !.dnd = "true"])
    /\ opDnd' = [opDnd EXCEPT ![n] = ~node[n].owned]
    /\ UNCHANGED opCordon

OperatorUnprotects(n, v) ==
    /\ node[n].dnd # v
    /\ Edit(n, [node[n] EXCEPT !.dnd = v])
    /\ opDnd' = [opDnd EXCEPT ![n] = FALSE]
    /\ UNCHANGED opCordon

OperatorCordons(n) ==
    /\ ~node[n].unschedulable
    /\ Edit(n, [node[n] EXCEPT !.unschedulable = TRUE])
    /\ opCordon' = [opCordon EXCEPT ![n] = ~node[n].cordoned]
    /\ UNCHANGED opDnd

OperatorUncordons(n) ==
    /\ node[n].unschedulable
    /\ Edit(n, [node[n] EXCEPT !.unschedulable = FALSE])
    /\ opCordon' = [opCordon EXCEPT ![n] = FALSE]
    /\ UNCHANGED opDnd

-----------------------------------------------------------------------------
Init ==
    /\ node = [n \in Nodes |-> Blank] /\ seen = node
    /\ anchor = None /\ pc = "sweep" /\ todo = {}
    /\ opDnd = [n \in Nodes |-> FALSE] /\ opCordon = opDnd
    /\ edits = 0 /\ rotations = 0

Next ==
    \/ SweepList \/ SweepDone
    \/ \E n \in Nodes : SweepNode(n) \/ SweepItemFails(n)
    \/ \E c \in Claims : StartRotation(c)
    \/ AdvancePending \/ FreezeOld \/ CordonOld \/ WaitForHost
    \/ \E h \in Nodes : FreezeHost(h)
    \/ ReleaseList \/ ReleaseDone \/ Abandon \/ Restart
    \/ \E n \in Nodes : \/ ReleaseNode(n) \/ SyncNode(n)
                        \/ OperatorProtects(n) \/ OperatorCordons(n)
                        \/ OperatorUncordons(n)
                        \/ \E v \in {"none", "false"} : OperatorUnprotects(n, v)

Spec == Init /\ [][Next]_vars

-----------------------------------------------------------------------------
(***************************************************************************)
(* Properties.                                                             *)
(***************************************************************************)

\* Every variable keeps to the values the annotations and the List can hold.
TypeOK ==
    /\ node \in [Nodes -> NodeRec] /\ seen \in [Nodes -> NodeRec]
    /\ pc \in {"sweep", "sweepNodes", "idle", "freeze", "cordon", "host", "release"}
    /\ anchor \in Claims \cup {None}
    /\ pc \in {"freeze", "cordon", "host", "release"} => anchor # None
    /\ todo \subseteq Nodes
    /\ opDnd \in [Nodes -> BOOLEAN] /\ opCordon \in [Nodes -> BOOLEAN]
    /\ edits \in Nat /\ rotations \in Nat

\* An operator's do-not-disrupt and cordon stay, unadopted, through any number of
\* freezes, releases and sweeps of the node (nodeops.go: "never adopt an operator's
\* cordon or do-not-disrupt, never touch either on cleanup").
OperatorMarksKept ==
    \A n \in Nodes :
        /\ opDnd[n] => operatorOwnsDoNotDisrupt(node[n])
        /\ opCordon[n] => node[n].unschedulable /\ ~node[n].cordoned

\* Whatever the controller put on a node is attributed to it, so that a release or a
\* later sweep finds it and reverses it: after every crash, abandoned pass, lagging
\* read and operator edit, no protection or cordon is left that is neither the
\* operator's nor marked (applyFreeze, applyCordon, applyUnfreeze).
Attributable ==
    \A n \in Nodes :
        /\ node[n].dnd = "true" /\ ~opDnd[n] => node[n].owned
        /\ node[n].owned => node[n].surgeFor # None
        /\ node[n].unschedulable /\ ~opCordon[n] => node[n].cordoned

\* Marks change hands in order: outside a release no step takes off or overwrites the
\* marks of the rotation in flight, and a release takes off no marks but its own, even
\* of a node that another rotation has marked since or before (sweepNodes re-applies
\* its predicate, unfreezeNodes acts on its List without a second look).
LiveMarksStand ==
    [][\A n \in Nodes :
         node[n].surgeFor # None /\ node'[n].surgeFor # node[n].surgeFor =>
           (pc = "release" <=> node[n].surgeFor = anchor)]_vars

=============================================================================
