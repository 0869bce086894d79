--------------------------- MODULE RotationRefines ---------------------------
(***************************************************************************)
(* Rotation, with its passes cut short and its stale caches, implements    *)
(* SerialRotation: the anchor is the gate, and a claim's phase is what its *)
(* state annotation says while the claim exists.                           *)
(***************************************************************************)
EXTENDS RotationInv

PhaseOf(r) ==
    CASE r.life = "gone" -> "gone"
      [] r.life # "gone" /\ r.state \in {"none", "failed"} -> "out"
      [] r.life # "gone" /\ r.state = "pending" -> "rotating"
      [] OTHER -> r.state

Phases == [c \in Claims |-> PhaseOf(claims[c])]

Serial == INSTANCE SerialRotation WITH holder <- pool.anchor, phase <- Phases

\* Every behaviour of a pool that stays governed is one of SerialRotation: each step
\* of each pass, however stale the views it was decided on and wherever the pass before
\* it stopped, is one abstract step or none.  One rotation at a time, of the claim that
\* holds the anchor; the anchor not released under it; no delete but the drain's own.
ImplementsSerial == Serial!Spec

=============================================================================
