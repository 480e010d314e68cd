------------------------------ MODULE MCBanking ------------------------------
(***************************************************************************)
(* Small instances of Banking for TLC. BIGINT is -4..3; alice and bob      *)
(* share two or three accounts, one of them not opened yet.                *)
(***************************************************************************)
EXTENDS Banking, TLC

CONSTANTS alice, bob, a1, a2, a3, KZT, USD

MCMaxInt == 3

\* a1 and a2 exist, a3 is an id POST /accounts may still create.
TwoOpenOwner == (a1 :> alice) @@ (a2 :> bob) @@ (a3 :> Null)
TwoOpenCurrency == (a1 :> KZT) @@ (a2 :> KZT) @@ (a3 :> Null)
TwoOpenBalance == (a1 :> 2) @@ (a2 :> 1) @@ (a3 :> 0)

\* Three funded accounts, nothing left to create.
AllOpenOwner == (a1 :> alice) @@ (a2 :> bob) @@ (a3 :> bob)
AllOpenCurrency == (a1 :> KZT) @@ (a2 :> KZT) @@ (a3 :> KZT)
AllOpenBalance == (a1 :> 2) @@ (a2 :> 1) @@ (a3 :> 1)

Ask(u, s, r, n, c) == [user |-> u, sender |-> s, receiver |-> r,
                       amount |-> n, currency |-> c]

\* Covered and not, crossing, to itself, negative, the smallest BIGINT, from
\* an account of somebody else, to an account that may not exist or have
\* another currency, in a currency of no account.
MixedInputs == {
    Ask(alice, a1, a2, 2, KZT), Ask(alice, a1, a2, -2, KZT),
    Ask(alice, a1, a2, MinInt, KZT), Ask(alice, a1, a1, 1, KZT),
    Ask(alice, a1, a3, 1, KZT), Ask(alice, a1, a2, 1, USD),
    Ask(bob, a2, a1, 1, KZT), Ask(bob, a1, a2, 1, KZT)}

\* Transfers that cross and deadlock, and two that drain the same account.
CrossInputs == {Ask(alice, a1, a2, 1, KZT), Ask(bob, a2, a1, 1, KZT),
                Ask(bob, a2, a3, 1, KZT)}

RequestSymmetry == Permutations(Requests)
=============================================================================
