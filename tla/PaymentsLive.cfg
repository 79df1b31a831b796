SPECIFICATION FairSpec
CONSTANTS
    u1 = u1
    stage1 = stage1
    course1 = course1
    free1 = free1
    lec1 = lec1
    t1 = t1
    t2 = t2
    t3 = t3
    Global = Global
    Other = Other
    NoTx = NoTx
    Users = {u1}
    SingleWriter = FALSE
    Slots = {s1, s2}
    Tx = {t1, t2}
    Stages = {stage1}
    Courses = {}
    Lectures = {}
    Teachers = {}
    Kinds = {"si", "mm"}
    Buyer <- OneBuyer
    LecturesOf <- PaidCourse
    Product <- StageTwice
INVARIANTS
    UniqueRows
PROPERTIES
    RequestsTerminate
