SPECIFICATION Spec

CONSTANTS
    l1 = l1
    l2 = l2
    Lessons = {l1, l2}
    FirstPlan <- TwoLessons
    EditPlan = FALSE
    HasAssessment = TRUE
    SingleWriter = TRUE
    Slots = {s1, s2}
    NoLesson = NoLesson
    Elsewhere = {o1}
    Asked = {l2}
    Files = {f1}

SYMMETRY SlotSymmetry

INVARIANTS
    StepsInOrder
    CertificateNeedsPass
    NextStepIsCurrent

PROPERTIES
    ClimbsTheLadder
