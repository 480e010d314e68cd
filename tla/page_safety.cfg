SPECIFICATION FairSpec
CONSTANTS
    s1 = s1
    s2 = s2
    alice = alice
    bob = bob
    None = None
    Users = {alice, bob}
    Sessions = {s1, s2}
    Owner0 <- FirstIsOpen
    Forms = {"payments"}
    Slots <- FiveSlots
    Room = 1
    MaxActs = 2
INVARIANTS
    ShownUserActs
PROPERTIES
    NavigationEnds
    FormsUnlock
    LogoutReachesLogin
