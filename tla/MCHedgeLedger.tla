--------------------------- MODULE MCHedgeLedger ---------------------------
(* Instances of HedgeLedger for TLC, and the abstract obligation it        *)
(* implements.                                                             *)
EXTENDS HedgeLedger, TLC

\* No action or property tells one trade from another.
TradeSymmetry == Permutations(Trades)

\* What the orders that can still trade may yet buy.
Working == Cardinality({w \in {n \in Attempts : CanTrade(n)} \X (1..Due) :
                           w[2] + Cardinality(Filled(w[1])) <= quantity[w[1]]})

\* What _refresh_batch_state sees of the obligation.
BatchView ==
    LET full == obligation.confirmed >= Due /\ obligation.excess = 0 /\ obligation.pending = 0
    IN IF full THEN (IF Unresolved = {} THEN "DONE" ELSE "COVERED")
       ELSE IF obligation.confirmed > 0 THEN "PART"
       ELSE "DUE"

Promise == INSTANCE Obligation
    WITH bought <- Cardinality(Acquired), working <- Working, view <- BatchView

\* The ledger, the task and the venue together do what one obligation
\* promises: each step of theirs, however late the reports and whatever was
\* lost or repeated, buys, ends, fails or shows as the abstract obligation
\* may.  The batch is never shown a covered obligation of which a lot is
\* missing, still to be bought, or taken back later.
ImplementsObligation == Promise!Spec
=============================================================================
