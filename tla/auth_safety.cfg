SPECIFICATION Spec
CONSTANTS
    t1 = t1
    t2 = t2
    t3 = t3
    t4 = t4
    b1 = b1
    e1 = e1
    e2 = e2
    None = None
    Requests = {t1, t2, t3, t4}
    Browsers = {b1}
    Emails = {e1, e2}
SYMMETRY NameSymmetry
INVARIANTS
    OneUserPerEmail
    CookieBacked
    ActsForItsLogin
PROPERTIES
    LogoutEndsSession
    ImplementsIdentity
