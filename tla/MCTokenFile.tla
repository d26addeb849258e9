----------------------------- MODULE MCTokenFile -----------------------------
(***************************************************************************)
(* The token server under its most general clients: three calls, two       *)
(* generations of the token pair (enough to tell the old from the new).    *)
(***************************************************************************)
EXTENDS TokenFile, TLC

Symmetry == Permutations(Calls)

=============================================================================
