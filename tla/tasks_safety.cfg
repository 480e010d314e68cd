SPECIFICATION Spec
CONSTANTS
    t1 = t1
    t2 = t2
    t3 = t3
    u1 = u1
    u2 = u2
    x1 = x1
    Blank = Blank
    None = None
    Users = {u1, u2}
    Requests = {t1, t2, t3}
    Texts = {x1}
    Bodies <- SomeBodies
    Owner0 <- FirstUserHasOne
    MaxTasks = 2
SYMMETRY RequestSymmetry
INVARIANTS
    OnlyOwn
    AnswersTruthful
PROPERTIES
    ImplementsRepository
