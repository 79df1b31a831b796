----------------------------- MODULE MCPasskeys -----------------------------
(* Instances of Passkeys for TLC. *)
EXTENDS Passkeys, TLC

CONSTANTS c1, c2, c3, k1, k2, s1, s2

Symmetric == Permutations(Slots) \cup Permutations(Challenges) \cup Permutations(Credentials)

=============================================================================
