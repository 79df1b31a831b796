---------------------------- MODULE MCFileTeaching ----------------------------
(* Instances of FileTeaching for TLC. *)
EXTENDS FileTeaching, TLC

CONSTANTS f1, f2, s1, s2

Symmetric == Permutations(Slots)

=============================================================================
