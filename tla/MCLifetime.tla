------------------------------ MODULE MCLifetime ------------------------------
(***************************************************************************)
(* Instances of Lifetime for TLC: two generations of the token pair tell   *)
(* the old one from the new.                                               *)
(***************************************************************************)
EXTENDS Lifetime, TLC

Symmetry == Permutations(Calls) \cup Permutations(Objects)

=============================================================================
