SPECIFICATION Spec
CONSTANTS
    o1 = o1
    u1 = u1
    t1 = t1
    t2 = t2
    t3 = t3
    s1 = s1
    s2 = s2
    Users = {o1, u1}
    OwnerMail = o1
    Tokens = {t1, t2, t3}
    Slots = {s1, s2}
    NoUser = NoUser
    NoToken = NoToken
SYMMETRY Symmetric
INVARIANTS
    OwnerIsRecognised
PROPERTIES
    OwnerRemains
    RevocationIsFinal
CHECK_DEADLOCK FALSE
