SPECIFICATION FairSpec
CONSTANTS
    alice = alice
    bob = bob
    a1 = a1
    a2 = a2
    a3 = a3
    KZT = KZT
    USD = USD
    Null = Null
    r1 = r1
    r2 = r2
    r3 = r3
    Accounts = {a1, a2, a3}
    Users = {alice, bob}
    Currencies = {KZT, USD}
    Requests = {r1, r2, r3}
    MaxInt <- MCMaxInt
    MaxConns = 2
    Owner0 <- AllOpenOwner
    Currency0 <- AllOpenCurrency
    Balance0 <- AllOpenBalance
    Inputs <- CrossInputs
PROPERTIES
    EveryTransferAnswered
