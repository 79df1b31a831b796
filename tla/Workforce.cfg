SPECIFICATION Spec
CONSTANTS
    c1 = c1
    c2 = c2
    r1 = r1
    r2 = r2
    k1 = k1
    s1 = s1
    s2 = s2
    Courses = {c1, c2}
    Runs = {r1, r2}
    Chats = {k1}
    Slots = {s1, s2}
    NoCourse = NoCourse
    NoRun = NoRun
    NoChat = NoChat
SYMMETRY Symmetric
INVARIANTS
    EffectsAreLogged
    ProvisioningIsComplete
    UnansweredChatsActed
    DeactivatedManagerStops
