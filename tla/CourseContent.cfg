SPECIFICATION Spec
CONSTANTS
    s1 = s1
    Units = {1, 2, 3}
    MaxPosition = 3
    MaxLesson = 1
    Mapped = {1}
    MinUnits = 2
    Slots = {s1}
INVARIANTS
    IInv
PROPERTIES
    ContentIsKept
    ReorderIsExact
