SPECIFICATION Spec

CONSTANTS
    l1 = l1
    l2 = l2
    Lessons = {l1, l2}
    FirstPlan <- TwoLessons
    EditPlan = FALSE
    HasAssessment = TRUE
    SingleWriter = TRUE
    Slots = {s1}
    NoLesson = NoLesson
    Elsewhere = {}
    Asked = {}
    Files = {}

INVARIANTS
    CertificateIsEarned
