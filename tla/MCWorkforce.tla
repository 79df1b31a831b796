---------------------------- MODULE MCWorkforce ----------------------------
(* Values for TLC: courses, runs, chats and requests are interchangeable.  *)
EXTENDS Workforce, TLC

CONSTANTS c1, c2, r1, r2, k1, s1, s2

Symmetric == Permutations({c1, c2}) \cup Permutations({r1, r2}) \cup Permutations({s1, s2})

=============================================================================
