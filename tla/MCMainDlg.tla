------------------------------- MODULE MCMainDlg -------------------------------
(***************************************************************************)
(* Instances of MainDlg for TLC; generations as in MCCallbackoAuth.        *)
(***************************************************************************)
EXTENDS MainDlg, FiniteSets

MCGeneration == 1..(Cardinality(Calls) + 1)

=============================================================================
