----------------------------- MODULE MCRateLimit -----------------------------
(***************************************************************************)
(* Small instances of RateLimit: windows of three ticks, two addresses.    *)
(***************************************************************************)
EXTENDS RateLimit, TLC

RequestSymmetry == Permutations(Requests)
=============================================================================
