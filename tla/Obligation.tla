----------------------------- MODULE Obligation -----------------------------
(***************************************************************************)
(* What the hedge of one obligation promises, without its ledger, its task *)
(* and its messages: lots are bought one order at a time, an order is      *)
(* placed only when the one before it can trade no more, and only for lots *)
(* not bought yet; a lot that fails to settle is owed again.  The batch is *)
(* shown a view of it (ZqBatch's hedge[k]), which reaches COVERED or DONE  *)
(* only when every lot is bought and nothing works for it, and after that  *)
(* no lot is taken back.                                                   *)
(***************************************************************************)
EXTENDS Naturals

CONSTANT Due     \* lots owed

VARIABLES
    bought,      \* lots filled at the venue, the failed ones left out
    working,     \* lots the order at the venue may still fill
    view         \* what the batch sees

obligation == <<bought, working, view>>

Full == {"COVERED", "DONE"}

Init == bought = 0 /\ working = 0 /\ view = "DUE"

Place ==
    /\ working = 0
    /\ working' \in 1..Due /\ bought + working' <= Due
    /\ UNCHANGED <<bought, view>>

Fill ==
    /\ working > 0
    /\ bought' = bought + 1 /\ working' = working - 1
    /\ UNCHANGED view

End ==
    /\ working' = 0
    /\ UNCHANGED <<bought, view>>

\* A lot that the batch counts on is final.
Fail ==
    /\ view \notin Full /\ bought > 0
    /\ bought' = bought - 1
    /\ UNCHANGED <<working, view>>

\* The view of a full obligation loses at most the release of its last order.
Show ==
    /\ view' \in IF view \in Full THEN Full
                 ELSE {"PART"} \cup (IF bought = Due /\ working = 0 THEN Full ELSE {})
    /\ UNCHANGED <<bought, working>>

Next == End \/ Place \/ Fill \/ Fail \/ Show

Spec == Init /\ [][Next]_obligation
=============================================================================
