SPECIFICATION Spec
CONSTANTS
    f1 = f1
    f2 = f2
    s1 = s1
    s2 = s2
    Files = {f1, f2}
    Taught = {f1}
    Slots = {s1, s2}
    FileLimit = 1
    CharLimit = 2
    MaxTime = 1
    NoFile = NoFile
SYMMETRY Symmetric
INVARIANTS
    UploadIsAllOrNothing
    QuotaIsExact
    ExamClosesTeaching
PROPERTIES
    FileCompletionIsFinal
