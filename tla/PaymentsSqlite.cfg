SPECIFICATION Spec
CONSTANTS
    u1 = u1
    stage1 = stage1
    course1 = course1
    free1 = free1
    lec1 = lec1
    t1 = t1
    t2 = t2
    t3 = t3
    Global = Global
    Other = Other
    NoTx = NoTx
    Users = {u1}
    SingleWriter = TRUE
    Slots = {s1, s2}
    Tx = {t1, t2, t3}
    Stages = {}
    Courses = {course1, free1}
    Lectures = {lec1}
    Teachers = {a1}
    Kinds = {"si", "tool", "reject", "proof"}
    Buyer <- OneBuyer
    LecturesOf <- PaidCourse
    Product <- CoursesAndGlobal
INVARIANTS
    ConfirmedIsServed
    RowsAreBought
    
    AcknowledgedIsServed
PROPERTIES
    DecisionIsFinal
    KeepsTheLedger
