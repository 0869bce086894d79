--------------------------- MODULE SerialRotation ---------------------------
(***************************************************************************)
(* What a NodePool's rotations promise, without passes, caches, faults or  *)
(* markers: one claim at a time holds the pool's gate, only the holder is  *)
(* rotated, the gate is not given up under a rotation that still runs, and *)
(* an old claim is deleted only by its own drain.                          *)
(*                                                                         *)
(* No code corresponds to it line by line; Rotation implements it.         *)
(***************************************************************************)

CONSTANTS Claims, None

VARIABLES
    holder,  \* the claim that holds the gate, or None
    phase,   \* per claim: "out", "rotating", "draining", "expired", "gone"
    deleted  \* per claim, the controller has deleted it

vars == <<holder, phase, deleted>>

Init ==
    /\ holder = None
    /\ phase = [c \in Claims |-> "out"]
    /\ deleted = [c \in Claims |-> FALSE]

Acquire(c) ==
    /\ holder = None /\ holder' = c
    /\ UNCHANGED <<phase, deleted>>

Move(c, from, to) ==
    /\ phase[c] \in from /\ phase' = [phase EXCEPT ![c] = to]
    /\ UNCHANGED <<holder, deleted>>

\* The attempt begins; ends in the drain, which a surge-less start begins with; is
\* rolled back, to be retried.
Begin(c)    == holder = c /\ Move(c, {"out"}, "rotating")
Drain(c)    == holder = c /\ Move(c, {"out", "rotating"}, "draining")
RollBack(c) == holder = c /\ Move(c, {"rotating"}, "out")

\* Somebody else deletes the claim before the controller does: never once it drains.
Expire(c)   == Move(c, {"out", "rotating"}, "expired")

Delete(c) ==
    /\ holder = c /\ phase[c] = "draining"
    /\ deleted' = [deleted EXCEPT ![c] = TRUE]
    /\ UNCHANGED <<holder, phase>>

\* Karpenter finalizes the claim.
Remove(c)   == Move(c, {"out", "rotating", "draining", "expired"}, "gone")

Release ==
    /\ holder # None /\ phase[holder] \notin {"rotating", "draining"}
    /\ holder' = None
    /\ UNCHANGED <<phase, deleted>>

Next ==
    \/ Release
    \/ \E c \in Claims : \/ Acquire(c) \/ Begin(c) \/ Drain(c) \/ RollBack(c)
                         \/ Expire(c) \/ Delete(c) \/ Remove(c)

Spec == Init /\ [][Next]_vars

=============================================================================
