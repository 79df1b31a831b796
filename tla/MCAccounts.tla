----------------------------- MODULE MCAccounts -----------------------------
(* Instances of Accounts for TLC. *)
EXTENDS Accounts, TLC

CONSTANTS o1, u1, t1, t2, t3, s1, s2

Symmetric == Permutations(Slots) \cup Permutations(Tokens)

=============================================================================
