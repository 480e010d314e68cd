------------------------------- MODULE MCSetup -------------------------------
(***************************************************************************)
(* A small instance of Setup: two users with one task each, two processes  *)
(* on one host and a third on another.                                     *)
(***************************************************************************)
EXTENDS Setup, TLC

CONSTANTS alice, bob, report, deploy, p1, p2, p3, here, there

TwoUsers == <<alice, bob>>
TwoTasks == <<report, deploy>>
OneEach == (report :> alice) @@ (deploy :> bob)
TwoHosts == (p1 :> here) @@ (p2 :> here) @@ (p3 :> there)

HostSymmetry == Permutations({p1, p2})
=============================================================================
