SPECIFICATION Spec

CONSTANTS
    l1 = l1
    l2 = l2
    Lessons = {l1, l2}
    FirstPlan <- OneLesson
    EditPlan = TRUE
    HasAssessment = FALSE
    SingleWriter = FALSE
    Slots = {s1, s2}
    NoLesson = NoLesson
    Elsewhere = {}
    Asked = {}
    Files = {}

SYMMETRY SlotSymmetry

INVARIANTS
    CompletionIsCertified

PROPERTIES
    CompletionIsFinal
