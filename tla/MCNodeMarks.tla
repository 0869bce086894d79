---------------------------- MODULE MCNodeMarks ----------------------------
(***************************************************************************)
(* Two nodes, two claims: each node is the old node of one rotation and    *)
(* the surge host of the other.                                            *)
(***************************************************************************)
EXTENDS NodeMarks

CONSTANTS n1, n2, c1, c2

MCNodes  == {n1, n2}
MCClaims == {c1, c2}
MCHome   == [c \in {c1, c2} |-> IF c = c1 THEN n1 ELSE n2]

=============================================================================
