----------------------- MODULE MCCallWithAgent -----------------------
(* Instances of CallWithAgent small enough to check exhaustively. *)
EXTENDS CallWithAgent, TLC

Symmetry == Permutations(Relays) \cup Permutations(Handlers)
======================================================================
