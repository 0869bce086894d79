----------------------------- MODULE MCRotation -----------------------------
(***************************************************************************)
(* Rotation for TLC: the claims of a pool are interchangeable.             *)
(***************************************************************************)
EXTENDS RotationRefines, TLC

Symmetry == Permutations(Claims)
=============================================================================
