------------------------- MODULE MC_FileCoordinator -------------------------
(* Two processes and one canvas. *)
EXTENDS FileCoordinator, TLC

CONSTANTS p1, p2

MCOwner == {p1, p2}
EitherProcess == Permutations(MCOwner)

=============================================================================
