------------------------------ MODULE MCMastery ------------------------------
(***************************************************************************)
(* Small instances of Mastery: one or two lessons, one or two requests in  *)
(* progress, with or without a file and a teacher that has no course.      *)
(***************************************************************************)
EXTENDS Mastery, TLC

CONSTANTS l1, l2

SlotSymmetry == Permutations(Slots)

\* The courses the runs start from.
OneLesson  == <<l1>>
TwoLessons == <<l1, l2>>
=============================================================================
