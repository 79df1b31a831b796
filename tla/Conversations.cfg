SPECIFICATION Spec
CONSTANTS
    c1 = c1
    c2 = c2
    f1 = f1
    i1 = i1
    i2 = i2
    s1 = s1
    s2 = s2
    Convs = {c1, c2}
    Facts = {f1}
    Items = {i1, i2}
    Slots = {s1, s2}
    MaxMessages = 2
    NoConv = NoConv
    NoItem = NoItem
    NoFact = NoFact
SYMMETRY Symmetric
INVARIANTS
    MessagesAreNumbered
    DeletedIsForgotten
    MemoryIsUnique
PROPERTIES
    RemovalIsFinal
    RevocationHolds
CHECK_DEADLOCK FALSE
