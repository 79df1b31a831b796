----------------------------- MODULE MCPayments -----------------------------
(***************************************************************************)
(* Instances of Payments for TLC: one student, and transactions that meet  *)
(* on the same stage, the same course and the same global access.          *)
(***************************************************************************)
EXTENDS Payments, TLC

CONSTANTS u1, stage1, course1, free1, lec1, t1, t2, t3

\* Requests are alike: sound for the invariants, not used for liveness.
SlotSymmetry == Permutations(Slots)

OneBuyer == [t \in Tx |-> u1]

PaidCourse == [c \in Courses |-> IF c = course1 THEN Lectures ELSE {}]

\* Two payments of one stage.
StageTwice == [t \in Tx |-> stage1]

\* A course with lectures, one without, and global access.
CoursesAndGlobal ==
    [t \in Tx |-> CASE t = t1 -> course1 [] t = t2 -> free1 [] OTHER -> Global]
=============================================================================
