--------------------------- MODULE MCConversations ---------------------------
(* Instances of Conversations for TLC. *)
EXTENDS Conversations, TLC

CONSTANTS c1, c2, f1, i1, i2, s1, s2

Symmetric == Permutations(Slots) \cup Permutations(Convs) \cup Permutations(Items)

=============================================================================
