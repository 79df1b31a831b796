-------------------------- MODULE MCCourseContent --------------------------
(* Values for TLC.  One request at a time in a slot is enough: any commit  *)
(* of another one is a sequence of the edits that can happen at any moment.*)
EXTENDS CourseContent

CONSTANTS s1

=============================================================================
