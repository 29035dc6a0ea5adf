---------------------------- MODULE HedgeLedger ----------------------------
(***************************************************************************)
(* One hedge obligation of the durable ledger (persistence/hedge_ledger.py)*)
(* together with everything that acts on it: the coordinator's hedge task  *)
(* (execution/coordinator.py, _route_one_hedge and _post_prepared), the    *)
(* account reconciliation, the venue's user stream, crashes, timeouts, and *)
(* the venue itself.                                                       *)
(*                                                                         *)
(* An obligation owes Due shares of one token.  Attempt n is the order     *)
(* whose idempotency key is "<obligation>:ATTEMPT:<n>"; its exchange hash  *)
(* is computed from the signed payload before the order is stored, so the  *)
(* attempt number also names the order at the venue.  Obligations share no *)
(* ledger rows (every query is filtered by obligation_id and the task      *)
(* holds a per-obligation lock), so one obligation stands for all.         *)
(*                                                                         *)
(* Shares are counted in lots: a trade fills one lot, so a sum of          *)
(* quantities is the cardinality of a set of trades.  Each ledger method   *)
(* is one SQL transaction under the database's transaction lock, hence one *)
(* action; an await between two of them is a point where any other actor   *)
(* may run, and the process may stop.                                      *)
(***************************************************************************)
EXTENDS Naturals, FiniteSets

CONSTANTS
    Due,             \* lots the obligation owes
    MaxAttempts,     \* bound on the orders created for it
    Trades,          \* venue trade/order legs, one lot each
    TradeStatuses,   \* the settlement statuses the venue publishes
    MaxFaults,       \* bound on crashes, timeouts, lost and refused calls, readiness lost
    Lagging,         \* TRUE: an order answer may omit fills it already had
    Contradictions   \* TRUE: the venue may publish CONFIRMED and FAILED

ASSUME ConstantsAssumption ==
    /\ Due \in Nat \ {0}
    /\ MaxAttempts \in Nat \ {0}
    /\ IsFiniteSet(Trades)
    /\ TradeStatuses \subseteq {"MATCHED", "MINED", "RETRYING", "CONFIRMED", "FAILED"}
    /\ "MATCHED" \in TradeStatuses
    /\ MaxFaults \in Nat
    /\ Lagging \in BOOLEAN
    /\ Contradictions \in BOOLEAN

VARIABLES
    \* Durable rows: the orders (by attempt), their fills, the obligation.
    orderState, quantity, verified, venueMatched, execStatus, obligation,
    \* The hedge task: its point of control and its local variables.
    pc, cur, seen, snap, shares,
    \* Order answers the account reconciliation has read and not applied.
    recon,
    \* _recovery_ready: the venues agree with the ledger well enough to post.
    ready,
    \* The venue: orders, the order each trade fills, the statuses each
    \* trade was ever given, and the POSTs on their way.
    vState, tOrder, vHist, posts,
    faults

ledger == <<orderState, quantity, verified, venueMatched, execStatus, obligation>>
task   == <<pc, cur, seen, snap, shares>>
venue  == <<vState, tOrder, vHist, posts>>
vars   == <<ledger, task, recon, ready, venue, faults>>

Attempts == 1..MaxAttempts

TerminalOrders == {"CANCELLED", "FILLED", "MATCHED", "REJECTED", "EXPIRED"}
Submitting     == {"INTENT", "SUBMITTING", "OUTCOME_UNKNOWN"}
OrderStates    == TerminalOrders \cup Submitting \cup {"NONE", "LIVE", "CANCEL_PENDING"}
VenueStates    == {"ABSENT", "LIVE", "MATCHED", "CANCELLED"}

\* TRADE_STATES: the rank of a settlement status, 0 when it is not listed.
Rank(s) == CASE s = "MATCHED"               -> 1
             [] s \in {"MINED", "RETRYING"} -> 2
             [] s = "CONFIRMED"             -> 3
             [] s = "FAILED"                -> 4
             [] OTHER                       -> 0

\* An answer of get_order: the status and the trades it counts as matched.
\* "NONE" marks an empty slot, "LISTED" an order whose answer is awaited.
Answers == [status : {"NONE", "LISTED"} \cup (VenueStates \ {"ABSENT"}), trades : SUBSET Trades]
NoAnswer == [status |-> "NONE", trades |-> {}]

-----------------------------------------------------------------------------
(* The ledger *)

Exists(n) == orderState[n] # "NONE"

\* Mutant: the reported status alone releases the order.
ResolvedByStatus(n) == orderState[n] \in TerminalOrders

OrderResolved(n) == orderState[n] \in TerminalOrders /\ verified[n]

Unresolved == {n \in Attempts : Exists(n) /\ ~OrderResolved(n)}

Filled(n) == {t \in Trades : tOrder[t] = n}
Recorded(n, ex) == {t \in Filled(n) : ex[t] # "NONE"}
\* Mutants: a final status counts as settled; a matched trade reserves nothing.
ConfirmedWhenFinal(ex) == {t \in Trades : ex[t] \in {"CONFIRMED", "FAILED"}}
PendingWhenMined(ex) == {t \in Trades : ex[t] \in {"MINED", "RETRYING", "CONFLICT"}}
Confirmed(ex) == {t \in Trades : ex[t] = "CONFIRMED"}
Pending(ex) == {t \in Trades : ex[t] \notin {"NONE", "CONFIRMED", "FAILED"}}

Least(a, b) == IF a <= b THEN a ELSE b
Minus(a, b) == IF a >= b THEN a - b ELSE 0      \* max(0, a - b)

\* Mutant: a late fill leaves its order released.
NeverOutrun(n, os, ver, vm, ex) == FALSE

\* An order whose recorded fills exceed what its verification saw.
Outrun(n, os, ver, vm, ex) ==
    /\ os[n] \in TerminalOrders /\ ver[n]
    /\ Cardinality(Recorded(n, ex)) > vm[n]

\* The obligation's recomputed totals and state.
Recomputed(os, ver, ex) ==
    LET confirmed == Cardinality(Confirmed(ex))
        pending   == Cardinality(Pending(ex))
        excess    == Minus(confirmed + pending, Due)
        resolved  == \A n \in Attempts :
                        os[n] # "NONE" => os[n] \in TerminalOrders /\ ver[n]
    IN [confirmed |-> Least(confirmed, Due),
        pending   |-> pending,
        excess    |-> excess,
        state     |-> IF excess > 0 THEN "EXCESS"
                      ELSE IF ~resolved THEN "ORDER_UNRESOLVED"
                      ELSE IF confirmed >= Due THEN "HEDGED"
                      ELSE IF pending > 0 THEN "SETTLEMENT_PENDING"
                      ELSE "PENDING",
        reprices  |-> obligation.reprices]

\* _refresh_hedge on the rows os, ver, vm and ex: reopens an order whose fills
\* outran its verification, then recomputes the obligation.  Ends every
\* transaction that touched an order or a fill.
RefreshHedge(os, ver, vm, ex) ==
    LET kept == [n \in Attempts |-> ver[n] /\ ~Outrun(n, os, ver, vm, ex)]
    IN /\ orderState' = os
       /\ verified' = kept
       /\ venueMatched' = vm
       /\ execStatus' = ex
       /\ obligation' = Recomputed(os, kept, ex)
       /\ UNCHANGED quantity

Available == Minus(Due, obligation.confirmed + obligation.pending)

\* Mutant: the size computed before signing is not checked again.
IntentAllowedUnsized(n, q) == n \in Attempts /\ ~Exists(n) /\ Unresolved = {} /\ q > 0

\* create_hedge_order_intent where it returns True: no unresolved order, a
\* fresh key, and a quantity inside the unreserved obligation.
IntentAllowed(n, q) ==
    /\ n \in Attempts /\ ~Exists(n)
    /\ Unresolved = {}
    /\ q > 0 /\ q <= Available

CreateHedgeOrderIntent(n, q) ==
    /\ orderState' = [orderState EXCEPT ![n] = "INTENT"]
    /\ quantity' = [quantity EXCEPT ![n] = q]
    /\ verified' = [verified EXCEPT ![n] = FALSE]
    /\ obligation' = [obligation EXCEPT !.state = "ORDER_INTENT", !.reprices = n]
    /\ UNCHANGED <<venueMatched, execStatus>>

SetHedgeSubmissionState(n, s) ==
    /\ orderState' = [orderState EXCEPT ![n] = IF @ \in Submitting THEN s ELSE @]
    /\ UNCHANGED <<quantity, verified, venueMatched, execStatus, obligation>>

\* Mutant: the acknowledged status is stored as the venue spells it.
AcceptUnnormalized(n, s) ==
    RefreshHedge([orderState EXCEPT ![n] = IF OrderResolved(n) THEN @
                                           ELSE IF s = "LIVE" THEN "live" ELSE "matched"],
                 verified, venueMatched, execStatus)

AcceptHedgeOrder(n, s) ==
    RefreshHedge([orderState EXCEPT ![n] = IF OrderResolved(n) THEN @ ELSE s],
                 verified, venueMatched, execStatus)

UpdateOrderStatus(n, s) ==
    IF ~Exists(n) \/ OrderResolved(n)
    THEN UNCHANGED ledger
    ELSE RefreshHedge([orderState EXCEPT ![n] = s], [verified EXCEPT ![n] = FALSE],
                      venueMatched, execStatus)

\* Mutant: a terminal status is enough, whatever fills it counts.
EvidenceByStatus(n, a) == a.status \in TerminalOrders

\* verify_polymarket_order: terminal status AND cumulative fill evidence.
Evidence(n, a) ==
    /\ a.status \in TerminalOrders
    /\ Cardinality(Recorded(n, execStatus)) = Cardinality(a.trades)
    /\ Cardinality(a.trades) <= quantity[n]
    /\ a.trades \subseteq Recorded(n, execStatus)

\* The answer is taken for an older view of an order already resolved.
TakenAsStale(n, a) ==
    /\ OrderResolved(n) /\ ~Evidence(n, a)
    /\ Cardinality(a.trades) <= venueMatched[n]
    /\ Cardinality(Recorded(n, execStatus)) <= Cardinality(a.trades)

VerifyResult(n, a) == TakenAsStale(n, a) \/ Evidence(n, a)

VerifyOrder(n, a) ==
    IF TakenAsStale(n, a)
    THEN UNCHANGED ledger
    ELSE RefreshHedge([orderState EXCEPT ![n] = a.status],
                      [verified EXCEPT ![n] = Evidence(n, a)],
                      [venueMatched EXCEPT ![n] = Cardinality(a.trades)],
                      execStatus)

\* Mutant: the last report wins.
LastStatus(old, new) == new

\* The status record_polymarket_execution leaves on a fill that had status
\* old when it receives new.
MergedStatus(old, new) ==
    IF old = "NONE" THEN new
    ELSE IF old = "CONFLICT" \/ {old, new} = {"CONFIRMED", "FAILED"} THEN "CONFLICT"
    ELSE IF Rank(old) > Rank(new) THEN old
    ELSE new

\* Mutant: the fill is stored and the obligation not recomputed.
RecordWithoutRefresh(t, s) ==
    /\ execStatus' = [execStatus EXCEPT ![t] = MergedStatus(@, s)]
    /\ UNCHANGED <<orderState, quantity, verified, venueMatched, obligation>>

RecordExecution(t, s) ==
    LET merged == MergedStatus(execStatus[t], s)
    IN IF merged = execStatus[t]
       THEN UNCHANGED ledger
       ELSE RefreshHedge(orderState, verified, venueMatched,
                         [execStatus EXCEPT ![t] = merged])

-----------------------------------------------------------------------------
(* The venue (external): orders are idempotent on their hash, a terminal   *)
(* order never trades again.                                               *)

\* Lots bought, whether or not the ledger has heard of them.
Acquired == {t \in Trades : tOrder[t] # 0 /\ "FAILED" \notin vHist[t]}

AnswersOf(n) ==
    {[status |-> vState[n], trades |-> S] :
        S \in IF Lagging THEN SUBSET Filled(n) ELSE {Filled(n)}}

VenueTakesPost(n) ==
    /\ n \in posts
    /\ posts' = posts \ {n}
    /\ vState' = [vState EXCEPT ![n] = IF @ = "ABSENT" THEN "LIVE" ELSE @]
    /\ UNCHANGED <<ledger, task, recon, ready, tOrder, vHist, faults>>

VenueDropsPost(n) ==
    /\ n \in posts
    /\ faults < MaxFaults
    /\ posts' = posts \ {n}
    /\ faults' = faults + 1
    /\ UNCHANGED <<ledger, task, recon, ready, vState, tOrder, vHist>>

VenueMatches(n, t) ==
    /\ vState[n] = "LIVE" /\ tOrder[t] = 0
    /\ tOrder' = [tOrder EXCEPT ![t] = n]
    /\ vHist' = [vHist EXCEPT ![t] = {"MATCHED"}]
    /\ vState' = [vState EXCEPT ![n] =
                    IF Cardinality(Filled(n)) + 1 >= quantity[n] THEN "MATCHED" ELSE @]
    /\ UNCHANGED <<ledger, task, recon, ready, posts, faults>>

VenueCancels(n) ==
    /\ vState[n] = "LIVE"
    /\ vState' = [vState EXCEPT ![n] = "CANCELLED"]
    /\ UNCHANGED <<ledger, task, recon, ready, tOrder, vHist, posts, faults>>

VenueSettles(t, s) ==
    /\ tOrder[t] # 0 /\ s \notin vHist[t]
    /\ IF s \in {"CONFIRMED", "FAILED"}
       THEN Contradictions \/ vHist[t] \cap {"CONFIRMED", "FAILED"} = {}
       ELSE vHist[t] \cap {"CONFIRMED", "FAILED"} = {}
    /\ vHist' = [vHist EXCEPT ![t] = @ \cup {s}]
    /\ UNCHANGED <<ledger, task, recon, ready, vState, tOrder, posts, faults>>

-----------------------------------------------------------------------------
(* The hedge task.  pc names the await the task is at.                     *)

NothingSeen == [n \in Attempts |-> "NONE"]

Owed == obligation.confirmed < Due

\* The task returns and its locals are gone.
Return == /\ pc' = "idle" /\ cur' = 0 /\ snap' = NoAnswer /\ shares' = 0
          /\ seen' = NothingSeen

\* The next order the loop looks at after order c; none left means sizing a
\* new order.  sn holds the states the task read when it listed the orders.
\* A stored intent is posted only when submission is ready.  A local variable
\* that is no longer read is put back to its initial value.
Advance(sn, c) ==
    LET left == {m \in Attempts : m > c /\ sn[m] # "NONE"}
    IN /\ snap' = NoAnswer /\ shares' = 0
       /\ IF left = {}
          THEN pc' = "size" /\ cur' = 0 /\ seen' = NothingSeen
          ELSE \E m \in left :
                 /\ \A k \in left : m <= k
                 /\ \/ /\ sn[m] # "INTENT"
                       /\ pc' = "lookup" /\ cur' = m
                       /\ seen' = [k \in Attempts |-> IF k \in left THEN sn[k] ELSE "NONE"]
                    \/ /\ sn[m] = "INTENT" /\ ready
                       /\ pc' = "submit" /\ cur' = m /\ seen' = NothingSeen
                    \/ sn[m] = "INTENT" /\ ~ready /\ Return

TaskStart ==
    /\ pc = "idle" /\ Owed
    /\ Advance([n \in Attempts |-> IF n \in Unresolved THEN orderState[n] ELSE "NONE"], 0)
    /\ UNCHANGED <<ledger, recon, ready, venue, faults>>

\* get_order answers.
TaskLookup ==
    /\ pc \in {"lookup", "reread"} /\ vState[cur] # "ABSENT"
    /\ snap' \in AnswersOf(cur)
    /\ pc' = IF pc = "lookup" THEN "verify" ELSE "reverify"
    /\ UNCHANGED <<ledger, cur, seen, shares, recon, ready, venue, faults>>

\* get_order raises: the order is not there, or the call failed.  The reading
\* is a fault when the venue has the order.
LookupFails ==
    /\ pc \in {"lookup", "reread"}
    /\ vState[cur] # "ABSENT" => faults < MaxFaults
    /\ faults' = IF vState[cur] # "ABSENT" THEN faults + 1 ELSE faults

TaskLookupFails ==
    /\ LookupFails
    /\ Return
    /\ UNCHANGED <<ledger, recon, ready, venue>>

\* Mutant: only an order marked OUTCOME_UNKNOWN is posted again.
ReplayUnknownOnly ==
    /\ LookupFails /\ ready
    /\ pc = "lookup" /\ seen[cur] = "OUTCOME_UNKNOWN"
    /\ pc' = "submit" /\ seen' = NothingSeen
    /\ UNCHANGED <<ledger, cur, snap, shares, recon, ready, venue>>

\* The identical signed order is posted again, if submission is ready; the
\* state tested is the one the task listed, not the one now in the ledger.
TaskReplay ==
    /\ LookupFails /\ ready
    /\ pc = "lookup" /\ seen[cur] \in {"OUTCOME_UNKNOWN", "SUBMITTING"}
    /\ pc' = "submit" /\ seen' = NothingSeen
    /\ UNCHANGED <<ledger, cur, snap, shares, recon, ready, venue>>

\* The answer is verified; an order still working is left to rest, or is
\* cancelled when it has rested long enough.
TaskVerify ==
    /\ pc \in {"verify", "reverify"}
    /\ VerifyOrder(cur, snap)
    /\ IF VerifyResult(cur, snap)
       THEN Advance(seen, cur)
       ELSE Return
    /\ UNCHANGED <<recon, ready, venue, faults>>

TaskVerifyThenCancel ==
    /\ pc = "verify" /\ snap.status = "LIVE" /\ ~VerifyResult(cur, snap)
    /\ VerifyOrder(cur, snap)
    /\ pc' = "cancel" /\ snap' = NoAnswer
    /\ UNCHANGED <<cur, seen, shares, recon, ready, venue, faults>>

TaskMarkCancelPending ==
    /\ pc = "cancel"
    /\ UpdateOrderStatus(cur, "CANCEL_PENDING")
    /\ pc' = "cancelCall"
    /\ UNCHANGED <<cur, seen, snap, shares, recon, ready, venue, faults>>

TaskCancel ==
    /\ pc = "cancelCall"
    /\ vState' = [vState EXCEPT ![cur] = IF @ = "LIVE" THEN "CANCELLED" ELSE @]
    /\ pc' = "reread"
    /\ UNCHANGED <<ledger, cur, seen, snap, shares, recon, ready, tOrder, vHist, posts, faults>>

\* hedge_obligation is read and the new order sized and signed from it.
TaskSize ==
    /\ pc = "size" /\ ready
    /\ obligation.excess = 0
    /\ Minus(Due - obligation.confirmed, obligation.pending) > 0
    /\ shares' = Minus(Due - obligation.confirmed, obligation.pending)
    /\ pc' = "intent"
    /\ UNCHANGED <<ledger, cur, seen, snap, recon, ready, venue, faults>>

\* Nothing to buy, submission not ready, no acceptable price, or the book
\* moved while the order was being signed.
TaskDeclines ==
    /\ pc \in {"size", "intent"}
    /\ Return
    /\ UNCHANGED <<ledger, recon, ready, venue, faults>>

\* The transaction refuses an order that no longer fits (returns False or
\* raises; either ends the task) or stores the intent.
TaskIntent ==
    /\ pc = "intent"
    /\ LET n == obligation.reprices + 1
       IN /\ n \in Attempts
          /\ IF IntentAllowed(n, shares)
             THEN /\ CreateHedgeOrderIntent(n, shares)
                  /\ pc' = "submit" /\ cur' = n /\ shares' = 0
                  /\ UNCHANGED <<seen, snap>>
             ELSE Return /\ UNCHANGED ledger
    /\ UNCHANGED <<recon, ready, venue, faults>>

\* SUBMITTING is committed, then the stored payload is posted.
TaskSubmit ==
    /\ pc = "submit"
    /\ SetHedgeSubmissionState(cur, "SUBMITTING")
    /\ posts' = posts \cup {cur}
    /\ pc' = "wait"
    /\ UNCHANGED <<cur, seen, snap, shares, recon, ready, vState, tOrder, vHist, faults>>

TaskAcknowledged ==
    /\ pc = "wait" /\ vState[cur] # "ABSENT"
    /\ \E s \in {"LIVE", "MATCHED"} : snap' = [status |-> s, trades |-> {}]
    /\ pc' = "accept"
    /\ UNCHANGED <<ledger, cur, seen, shares, recon, ready, venue, faults>>

TaskAccept ==
    /\ pc = "accept"
    /\ AcceptHedgeOrder(cur, snap.status)
    /\ Return
    /\ UNCHANGED <<recon, ready, venue, faults>>

\* The POST raises: refused, lost, or no answer.
TaskPostFails ==
    /\ pc = "wait"
    /\ LET lost == cur \notin posts /\ vState[cur] = "ABSENT"
       IN /\ lost \/ faults < MaxFaults
          /\ faults' = IF lost THEN faults ELSE faults + 1
    /\ pc' = "unknown"
    /\ UNCHANGED <<ledger, cur, seen, snap, shares, recon, ready, venue>>

TaskOutcomeUnknown ==
    /\ pc = "unknown"
    /\ SetHedgeSubmissionState(cur, "OUTCOME_UNKNOWN")
    /\ Return
    /\ UNCHANGED <<recon, ready, venue, faults>>

\* The request timeout cancels the task at an await; while it waits for the
\* POST the exception handler still runs.
TaskTimeout ==
    /\ pc \notin {"idle", "wait"}
    /\ faults < MaxFaults /\ faults' = faults + 1
    /\ Return
    /\ UNCHANGED <<ledger, recon, ready, venue>>

-----------------------------------------------------------------------------
(* The other actors *)

\* The account reconciliation lists the unresolved orders...
ReconcileList ==
    /\ \A n \in Attempts : recon[n] = NoAnswer
    /\ Unresolved # {}
    /\ recon' = [n \in Attempts |-> IF n \in Unresolved
                                    THEN [NoAnswer EXCEPT !.status = "LISTED"]
                                    ELSE NoAnswer]
    /\ UNCHANGED <<ledger, task, ready, venue, faults>>

\* ...reads each of them (an order that is not there is skipped)...
ReconcileRead(n) ==
    /\ recon[n].status = "LISTED"
    /\ \E a \in IF vState[n] = "ABSENT" THEN {NoAnswer} ELSE AnswersOf(n) :
          recon' = [recon EXCEPT ![n] = a]
    /\ UNCHANGED <<ledger, task, ready, venue, faults>>

\* ...and applies the answers when all are read.
ReconcileApply(n) ==
    /\ \A m \in Attempts : recon[m].status # "LISTED"
    /\ recon[n] # NoAnswer
    /\ VerifyOrder(n, recon[n])
    /\ recon' = [recon EXCEPT ![n] = NoAnswer]
    /\ UNCHANGED <<task, ready, venue, faults>>

\* A trade report, live or from the trade history: any status the trade has
\* had, any number of times, in any order.
TradeReported(t, s) ==
    /\ s \in vHist[t]
    /\ RecordExecution(t, s)
    /\ UNCHANGED <<task, recon, ready, venue, faults>>

\* A user-stream order event, possibly late.
OrderReported(n, s) ==
    /\ vState[n] # "ABSENT" /\ s \in {"LIVE", vState[n]}
    /\ UpdateOrderStatus(n, s)
    /\ UNCHANGED <<task, recon, ready, venue, faults>>

\* The position of the recorded fills is the one the venue holds.
PositionsAgree == \A t \in Trades : t \in Acquired <=> execStatus[t] \notin {"NONE", "FAILED"}

\* _reconcile_ledger_snapshot on complete reads of both venues: no position
\* differs and no hedge is in excess.  The positions read may be older than
\* the venue's last fill.
RecoveryReady ==
    /\ ~ready /\ obligation.excess = 0
    /\ ready' = TRUE
    /\ UNCHANGED <<ledger, task, recon, venue, faults>>

\* The same pass meets a difference or an ambiguous read, or a stream or IBKR
\* is lost.
RecoveryLost ==
    /\ ready
    /\ faults < MaxFaults /\ faults' = faults + 1
    /\ ready' = FALSE
    /\ UNCHANGED <<ledger, task, recon, venue>>

\* The process stops; the restarted one has the durable rows only.
Crash ==
    /\ faults < MaxFaults /\ faults' = faults + 1
    /\ Return
    /\ ready' = FALSE
    /\ recon' = [n \in Attempts |-> NoAnswer]
    /\ UNCHANGED <<ledger, venue>>

-----------------------------------------------------------------------------
Init ==
    /\ orderState = [n \in Attempts |-> "NONE"]
    /\ quantity = [n \in Attempts |-> 0]
    /\ verified = [n \in Attempts |-> FALSE]
    /\ venueMatched = [n \in Attempts |-> 0]
    /\ execStatus = [t \in Trades |-> "NONE"]
    /\ obligation = [confirmed |-> 0, pending |-> 0, excess |-> 0,
                     state |-> "PENDING", reprices |-> 0]
    /\ pc = "idle" /\ cur = 0 /\ snap = NoAnswer /\ shares = 0
    /\ seen = NothingSeen
    /\ recon = [n \in Attempts |-> NoAnswer]
    /\ ready = FALSE
    /\ vState = [n \in Attempts |-> "ABSENT"]
    /\ tOrder = [t \in Trades |-> 0]
    /\ vHist = [t \in Trades |-> {}]
    /\ posts = {}
    /\ faults = 0

TaskStep ==
    \/ TaskStart \/ TaskLookup \/ TaskLookupFails \/ TaskReplay
    \/ TaskVerify \/ TaskVerifyThenCancel \/ TaskMarkCancelPending \/ TaskCancel
    \/ TaskSize \/ TaskDeclines \/ TaskIntent
    \/ TaskSubmit \/ TaskAcknowledged \/ TaskAccept
    \/ TaskPostFails \/ TaskOutcomeUnknown \/ TaskTimeout

VenueStep ==
    \/ \E n \in Attempts : VenueTakesPost(n) \/ VenueDropsPost(n) \/ VenueCancels(n)
    \/ \E n \in Attempts, t \in Trades : VenueMatches(n, t)
    \/ \E t \in Trades, s \in TradeStatuses : VenueSettles(t, s)

ReportStep ==
    \/ ReconcileList
    \/ \E n \in Attempts : ReconcileRead(n) \/ ReconcileApply(n)
    \/ \E t \in Trades, s \in TradeStatuses : TradeReported(t, s)
    \/ \E n \in Attempts, s \in VenueStates : OrderReported(n, s)
    \/ RecoveryReady \/ RecoveryLost

Next == TaskStep \/ VenueStep \/ ReportStep \/ Crash

Spec == Init /\ [][Next]_vars

\* What the task does of its own accord at each of its points of control.
TaskAdvances ==
    \/ TaskStart \/ TaskLookup \/ TaskVerify \/ TaskMarkCancelPending \/ TaskCancel
    \/ TaskSize \/ TaskDeclines \/ TaskIntent
    \/ TaskSubmit \/ TaskAcknowledged \/ TaskPostFails \/ TaskOutcomeUnknown \/ TaskAccept

\* What the runtime keeps doing: the cycle restarts the hedge task and the
\* task advances; a resting order is eventually old enough to cancel and an
\* unanswered one to replay; the account loop keeps reconciling, and once the
\* positions agree a reconciliation makes submission ready again; a POST
\* reaches the venue; reports of a trade are delivered.  Nothing makes the
\* venue fill an order.
Fairness ==
    /\ WF_vars(TaskAdvances) /\ SF_vars(TaskReplay) /\ SF_vars(TaskVerifyThenCancel)
    /\ WF_vars(ReconcileList) /\ WF_vars(RecoveryReady /\ PositionsAgree)
    /\ \A n \in Attempts : WF_vars(ReconcileRead(n)) /\ WF_vars(ReconcileApply(n))
    /\ \A n \in Attempts : WF_vars(VenueTakesPost(n))
    /\ \A t \in Trades : WF_vars(TradeReported(t, "MATCHED"))

FairSpec == Spec /\ Fairness

-----------------------------------------------------------------------------
(* Properties *)

TypeOK ==
    /\ orderState \in [Attempts -> OrderStates]
    /\ quantity \in [Attempts -> 0..Due]
    /\ verified \in [Attempts -> BOOLEAN]
    /\ venueMatched \in [Attempts -> Nat]
    /\ execStatus \in [Trades -> TradeStatuses \cup {"NONE", "CONFLICT"}]
    /\ obligation \in [confirmed : 0..Due, pending : Nat, excess : Nat,
                       state : {"EXCESS", "ORDER_UNRESOLVED", "HEDGED", "SETTLEMENT_PENDING",
                                "PENDING", "ORDER_INTENT"},
                       reprices : 0..MaxAttempts]
    /\ pc \in {"idle", "lookup", "verify", "cancel", "cancelCall", "reread", "reverify",
               "size", "intent", "submit", "wait", "accept", "unknown"}
    /\ cur \in 0..MaxAttempts
    /\ pc \notin {"idle", "size", "intent"} => cur \in Attempts
    /\ seen \in [Attempts -> OrderStates]
    /\ snap \in Answers
    /\ shares \in 0..Due
    /\ recon \in [Attempts -> Answers] /\ ready \in BOOLEAN
    /\ vState \in [Attempts -> VenueStates]
    /\ tOrder \in [Trades -> 0..MaxAttempts]
    /\ vHist \in [Trades -> SUBSET TradeStatuses]
    /\ posts \subseteq Attempts
    /\ faults \in 0..MaxFaults

\* An order that is stored and that the venue may still fill.
CanTrade(n) == Exists(n) /\ vState[n] \in {"ABSENT", "LIVE"}

\* However POSTs are lost, repeated or late, the process stops, and answers
\* and reports are reordered, the venue never fills more than the obligation
\* owes, and would not even if every order that can still trade were filled.
NoOverHedge ==
    /\ Cardinality(Acquired) <= Due
    /\ \A n \in Attempts : CanTrade(n) =>
          Cardinality({t \in Acquired : tOrder[t] # n}) + quantity[n] <= Due

\* A replacement is signed only when the earlier order can trade no more: at
\* most one order of the obligation can still be filled.
OneOrderCanTrade ==
    \A m, n \in Attempts : CanTrade(m) /\ CanTrade(n) => m = n

\* A reservation is released only for an order that is over at the venue and
\* whose every fill is in the ledger.
ReleasedOnlyWhenFinal ==
    \A n \in Attempts : OrderResolved(n) =>
        /\ vState[n] \in {"MATCHED", "CANCELLED"}
        /\ \A t \in Filled(n) : execStatus[t] # "NONE"

\* An obligation shown as HEDGED is hedged: the venue settled exactly what is
\* owed and no order is left that could add to it.
HedgedIsSettled ==
    obligation.state = "HEDGED" =>
        /\ Cardinality({t \in Acquired : "CONFIRMED" \in vHist[t]}) = Due
        /\ \A n \in Attempts : ~CanTrade(n)

\* The totals cached on the obligation, from which new orders are sized, are
\* those of the fills in the ledger.
AccountingCurrent ==
    /\ obligation.confirmed = Least(Cardinality(Confirmed(execStatus)), Due)
    /\ obligation.pending = Cardinality(Pending(execStatus))
    /\ obligation.excess =
          Minus(Cardinality(Confirmed(execStatus)) + Cardinality(Pending(execStatus)), Due)

\* A released order never holds more fills than its verification counted: a
\* fill that comes later reopens it.
LateFillsReopen ==
    \A n \in Attempts : OrderResolved(n) =>
        Cardinality(Recorded(n, execStatus)) <= venueMatched[n]

\* An order is stored only for what the recorded fills leave open, although
\* it was sized before the signature and fills arrive in between.
IntentFitsLedger ==
    [][\A n \in Attempts : ~Exists(n) /\ Exists(n)' =>
          Cardinality(Confirmed(execStatus)) + Cardinality(Pending(execStatus))
            + quantity'[n] <= Due]_vars

\* A late report never takes back a settled status, and a fill reported both
\* settled and failed stays in conflict, neither credited nor released.
SettlementNeverRegresses ==
    [][\A t \in Trades : execStatus[t] \in {"CONFIRMED", "FAILED", "CONFLICT"} =>
          execStatus'[t] \in {execStatus[t], "CONFLICT"}]_vars

\* Every order that is stored is eventually resolved: a crash, a lost POST or
\* a lost answer never leaves a reservation for good.
EveryOrderResolves ==
    \A n \in Attempts : Exists(n) ~> OrderResolved(n)

\* hedge_ledger.py:299 "A stale live update cannot reopen a reconciled
\* cancelled order."
StaleAnswerNeverReopens ==
    [][\A n \in Attempts :
          /\ OrderResolved(n) /\ orderState[n] = "CANCELLED"
          /\ vState[n] = "CANCELLED" /\ Filled(n) \subseteq Recorded(n, execStatus)
          => OrderResolved(n)']_vars
=============================================================================
