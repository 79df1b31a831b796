---------------------------- MODULE MCAssessments ----------------------------
(* Instances of Assessments for TLC. *)
EXTENDS Assessments, TLC

CONSTANTS p1, p2, a1, a2, a3, s1, s2

Symmetric == Permutations(Slots) \cup Permutations(Attempts) \cup Permutations(Papers)

=============================================================================
