------------------------ MODULE MCCallLifecycle ------------------------
(* Instances of CallLifecycle small enough to check exhaustively. *)
EXTENDS CallLifecycle, TLC

Symmetry == Permutations(Users) \cup Permutations(Reqs)
========================================================================
