-------------------------------- MODULE MCAuth --------------------------------
(***************************************************************************)
(* Small instances of Auth.                                                *)
(***************************************************************************)
EXTENDS Auth, TLC

NameSymmetry == Permutations(Requests) \cup Permutations(Emails)
=============================================================================
