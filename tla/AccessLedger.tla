---------------------------- MODULE AccessLedger ----------------------------
(***************************************************************************)
(* What the academy promises about payments: a payment is confirmed in one *)
(* step with all the access it buys, nothing but a confirmation gives      *)
(* access, and access is never taken back.  Payments implements this       *)
(* whatever requests overlap, fail or crash.  That a decision is final is  *)
(* promised besides (FinalSpec), and kept while one request runs at a time.*)
(***************************************************************************)
CONSTANTS Tx, Users,
          Buyer,       \* the student of each payment
          Offer,       \* items each payment may give
          Needs        \* sets of items, of each of which a payment gives one

VARIABLES status,      \* what was decided of each payment
          access       \* the items of each student

ledger == <<status, access>>

Decided == {"confirmed", "rejected"}

Begin ==
    /\ status = [t \in Tx |-> "absent"]
    /\ access = [u \in Users |-> {}]

Served(t) == \A N \in Needs[t] : N \cap access[Buyer[t]] # {}

Request(t) ==
    /\ status[t] = "absent"
    /\ status' = [status EXCEPT ![t] = "pending"]
    /\ UNCHANGED access

\* A payment rejected by a request that overlaps may still be confirmed.
Confirm(t) ==
    /\ status[t] \in {"pending", "rejected"}
    /\ status' = [status EXCEPT ![t] = "confirmed"]
    /\ \E G \in SUBSET Offer[t] : access' = [access EXCEPT ![Buyer[t]] = @ \cup G]
    /\ Served(t)'

\* Access stays when a confirmation is overwritten.
Reject(t) ==
    /\ status[t] \in {"pending", "confirmed"}
    /\ status' = [status EXCEPT ![t] = "rejected"]
    /\ UNCHANGED access

Entry == \E t \in Tx : Request(t) \/ Confirm(t) \/ Reject(t)

Spec == Begin /\ [][Entry]_ledger

FinalEntry == Entry /\ \A t \in Tx : status[t] \in Decided => status'[t] = status[t]

FinalSpec == Begin /\ [][FinalEntry]_ledger
=============================================================================
