-------------------------- MODULE MC_Coordination --------------------------
(* Two owners and two concurrent calls on one canvas; the clock runs past two
   TTLs, so a lease can be granted, expire, be stolen and come back.       *)
EXTENDS Coordination, TLC

CONSTANTS o1, o2, p1, p2

MC_Owner == {o1, o2}
MC_Caller == {p1, p2}
MC_Symmetry == Permutations(MC_Owner) \cup Permutations(MC_Caller)

=============================================================================
