SPECIFICATION Spec
CONSTANTS
    alice = alice
    bob = bob
    report = report
    deploy = deploy
    p1 = p1
    p2 = p2
    p3 = p3
    here = here
    there = there
    BoltOf <- TwoHosts
    Procs = {p1, p2, p3}
    Emails <- TwoUsers
    Titles <- TwoTasks
    OwnerOf <- OneEach
    Before = {1}
SYMMETRY HostSymmetry
INVARIANTS
    TypeOK
    SchemaWhole
    TasksOwned
    SeedingsComplete
    ConflictMeansDone
