------------------------- MODULE MCMFCApplicationDlg -------------------------
(***************************************************************************)
(* Instances of MFCApplicationDlg for TLC; generations as in               *)
(* MCCallbackoAuth.                                                        *)
(***************************************************************************)
EXTENDS MFCApplicationDlg, FiniteSets, TLC

Symmetry == Permutations(Calls)
MCGeneration == 1..(Cardinality(Calls) + 1)

=============================================================================
