----------------------------- MODULE MCDirLock -----------------------------
(* DirLock with a few processes for TLC. *)
EXTENDS DirLock, TLC

CONSTANTS p1, p2, p3

ThreeProcs == {p1, p2, p3}
Symmetry   == Permutations(ThreeProcs)
============================================================================
