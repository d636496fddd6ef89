-------------------------------- MODULE MCBundle --------------------------------
(* Bundle on a few interchangeable requests. *)
EXTENDS Bundle, TLC

RequestSymmetry == Permutations(Requests)
=============================================================================
