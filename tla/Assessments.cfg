SPECIFICATION Spec
CONSTANTS
    p1 = p1
    p2 = p2
    a1 = a1
    a2 = a2
    a3 = a3
    s1 = s1
    s2 = s2
    Papers = {p1, p2}
    Attempts = {a1, a2, a3}
    Slots = {s1, s2}
    NoPaper = NoPaper
    NoAttempt = NoAttempt
SYMMETRY Symmetric
INVARIANTS
    ShownIsGraded
    CompletionIsPassed
    VerdictsAreAnnounced
PROPERTIES
    GradedOnce
