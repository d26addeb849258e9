--------------------------- MODULE MCCallbackoAuth ---------------------------
(***************************************************************************)
(* Instances of CallbackoAuth for TLC.  Every call renews at most once, so *)
(* one generation more than there are calls is all that can be issued.     *)
(***************************************************************************)
EXTENDS CallbackoAuth, FiniteSets, TLC

Symmetry == Permutations(Calls)
MCGeneration == 1..(Cardinality(Calls) + 1)

=============================================================================
