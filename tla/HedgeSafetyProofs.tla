------------------------- MODULE HedgeSafetyProofs -------------------------
(***************************************************************************)
(* The safety properties of HedgeLedger for every value of its constants:  *)
(* the accounting of the ledger, and that the venue is never asked for more*)
(* than the obligation owes.                                               *)
(***************************************************************************)
EXTENDS HedgeLedgerProofs

-----------------------------------------------------------------------------
(* The inductive invariant *)

\* What the venue, the task and the reconciliation know of is in the ledger.
StoredInv ==
    /\ \A n \in Attempts : vState[n] # "ABSENT" => Exists(n)
    /\ \A n \in posts : Exists(n)
    /\ pc \notin {"idle", "size", "intent"} => Exists(cur)
    /\ \A n \in Attempts : seen[n] # "NONE" => Exists(n)
    /\ \A n \in Attempts : recon[n] # NoAnswer => Exists(n)
    /\ \A n \in Attempts : Exists(n) => quantity[n] >= 1

\* The venue fills no order beyond its size.
VenueInv ==
    /\ \A t \in Trades : tOrder[t] # 0 => vState[tOrder[t]] # "ABSENT"
    /\ \A n \in Attempts : Cardinality(Filled(n)) <= quantity[n]
    /\ \A n \in Attempts : vState[n] = "LIVE" => Cardinality(Filled(n)) < quantity[n]

\* A recorded fill is a fill, and a settled one was published as such.
ReportInv ==
    /\ \A t \in Trades : vHist[t] # {} => tOrder[t] # 0
    /\ \A t \in Trades : execStatus[t] # "NONE" => tOrder[t] # 0
    /\ \A t \in Trades : execStatus[t] = "FAILED" => "FAILED" \in vHist[t]
    /\ \A t \in Trades : execStatus[t] = "CONFIRMED" => "CONFIRMED" \in vHist[t]

FactInv == TypeInv /\ AccountingCurrent /\ StoredInv /\ VenueInv /\ ReportInv

Over == {"MATCHED", "CANCELLED"}

\* The order can trade no more and all it bought is in the ledger.
Final(n) == vState[n] \in Over /\ \A t \in Filled(n) : execStatus[t] # "NONE"

\* An answer that calls an order over tells all its fills.
AnswersInv ==
    /\ pc \in {"verify", "reverify"} /\ snap.status \in Over =>
          vState[cur] = snap.status /\ snap.trades = Filled(cur)
    /\ \A n \in Attempts : recon[n].status \in Over =>
          vState[n] = recon[n].status /\ recon[n].trades = Filled(n)

ReleaseInv == \A n \in Attempts : verified[n] => Final(n)

SafeInv == FactInv /\ AnswersInv /\ ReleaseInv /\ OneOrderCanTrade /\ NoOverHedge

-----------------------------------------------------------------------------
(* What a step does to the ledger: it refreshes it, marks a submission, or  *)
(* stores one new order.                                                    *)

RefreshStep ==
    \E os, ver, vm, ex :
        /\ os \in [Attempts -> OrderStates] /\ ver \in [Attempts -> BOOLEAN]
        /\ vm \in [Attempts -> Nat]
        /\ ex \in [Trades -> TradeStatuses \cup {"NONE", "CONFLICT"}]
        /\ RefreshHedge(os, ver, vm, ex)

MarkStep == \E n \in Attempts, s \in Submitting : SetHedgeSubmissionState(n, s)

IntentStep ==
    /\ pc = "intent"
    /\ LET n == obligation.reprices + 1
       IN IntentAllowed(n, shares) /\ CreateHedgeOrderIntent(n, shares)
    /\ pc' = "submit" /\ cur' = obligation.reprices + 1
    /\ UNCHANGED <<seen, snap, recon, venue>>

\* An answer that a step may verify now.
Held(n, a) ==
    \/ pc \in {"verify", "reverify"} /\ n = cur /\ a = snap
    \/ a = recon[n] /\ a # NoAnswer /\ a.status # "LISTED"

\* What every step does that stores no new order.
LedgerEffect ==
    /\ UNCHANGED ledger \/ RefreshStep \/ MarkStep
    /\ quantity' = quantity
    /\ \A n \in Attempts : orderState[n] = "NONE" <=> orderState'[n] = "NONE"
    /\ \A n \in Attempts : verified'[n] =>
          verified[n] \/ \E a \in Answers : Held(n, a) /\ Evidence(n, a)
    /\ \A t \in Trades : execStatus'[t] = execStatus[t]
          \/ \E s \in vHist[t] : execStatus'[t] = MergedStatus(execStatus[t], s)

LEMMA NoEffect == ASSUME UNCHANGED ledger PROVE LedgerEffect
BY DEF LedgerEffect, ledger

\* The rows a refresh is given, but for the orders it reopens.
LEMMA RefreshRows ==
    ASSUME NEW os, NEW ver, NEW vm, NEW ex, RefreshHedge(os, ver, vm, ex)
    PROVE  /\ orderState' = os /\ venueMatched' = vm /\ execStatus' = ex
           /\ quantity' = quantity
           /\ obligation' = Recomputed(os, verified', ex)
           /\ \A n \in Attempts : verified'[n] => ver[n]
BY DEF RefreshHedge

LEMMA UpdateEffect ==
    ASSUME LedgerType, NEW n \in Attempts, NEW s \in OrderStates, s # "NONE",
           UpdateOrderStatus(n, s)
    PROVE  LedgerEffect
<1>1. CASE ~Exists(n) \/ OrderResolved(n)
  BY <1>1, NoEffect DEF UpdateOrderStatus
<1>2. CASE ~(~Exists(n) \/ OrderResolved(n))
  <2> DEFINE os == [orderState EXCEPT ![n] = s]
             ver == [verified EXCEPT ![n] = FALSE]
  <2>1. /\ os \in [Attempts -> OrderStates] /\ ver \in [Attempts -> BOOLEAN]
        /\ venueMatched \in [Attempts -> Nat]
        /\ execStatus \in [Trades -> TradeStatuses \cup {"NONE", "CONFLICT"}]
        /\ RefreshHedge(os, ver, venueMatched, execStatus)
    BY <1>2 DEF UpdateOrderStatus, LedgerType
  <2>2. \A m \in Attempts : orderState[m] = "NONE" <=> os[m] = "NONE"
    BY <1>2 DEF Exists, LedgerType
  <2>3. \A m \in Attempts : ver[m] => verified[m]
    BY DEF LedgerType
  <2> HIDE DEF os, ver
  <2>4. RefreshStep
    BY <2>1 DEF RefreshStep
  <2> QED
    BY <2>1, <2>2, <2>3, <2>4, RefreshRows DEF LedgerEffect
<1> QED
  BY <1>1, <1>2

LEMMA VerifyEffect ==
    ASSUME LedgerType, NEW n \in Attempts, NEW a \in Answers, a.status \in OrderStates,
           a.status # "NONE", Exists(n), Held(n, a), VerifyOrder(n, a)
    PROVE  LedgerEffect
<1>1. CASE TakenAsStale(n, a)
  BY <1>1, NoEffect DEF VerifyOrder
<1>2. CASE ~TakenAsStale(n, a)
  <2> DEFINE os == [orderState EXCEPT ![n] = a.status]
             ver == [verified EXCEPT ![n] = Evidence(n, a)]
             vm == [venueMatched EXCEPT ![n] = Cardinality(a.trades)]
  <2>1. Cardinality(a.trades) \in Nat /\ Evidence(n, a) \in BOOLEAN
    BY TradesFinite DEF Answers, Evidence
  <2>2. /\ os \in [Attempts -> OrderStates] /\ ver \in [Attempts -> BOOLEAN]
        /\ vm \in [Attempts -> Nat]
        /\ execStatus \in [Trades -> TradeStatuses \cup {"NONE", "CONFLICT"}]
        /\ RefreshHedge(os, ver, vm, execStatus)
    BY <1>2, <2>1 DEF VerifyOrder, LedgerType
  <2>3. \A m \in Attempts : orderState[m] = "NONE" <=> os[m] = "NONE"
    BY DEF Exists, LedgerType
  <2>4. \A m \in Attempts : ver[m] => verified[m] \/ (m = n /\ Evidence(n, a))
    BY DEF LedgerType
  <2> HIDE DEF os, ver, vm
  <2>5. RefreshStep
    BY <2>2 DEF RefreshStep
  <2>6. \A m \in Attempts : verified'[m] =>
            verified[m] \/ \E b \in Answers : Held(m, b) /\ Evidence(m, b)
    BY <2>2, <2>4, RefreshRows
  <2> QED
    BY <2>2, <2>3, <2>5, <2>6, RefreshRows DEF LedgerEffect
<1> QED
  BY <1>1, <1>2

LEMMA AcceptEffect ==
    ASSUME LedgerType, NEW n \in Attempts, NEW s \in {"LIVE", "MATCHED"}, Exists(n),
           AcceptHedgeOrder(n, s)
    PROVE  LedgerEffect
<1> DEFINE os == [orderState EXCEPT ![n] = IF OrderResolved(n) THEN @ ELSE s]
<1>1. /\ os \in [Attempts -> OrderStates] /\ verified \in [Attempts -> BOOLEAN]
      /\ venueMatched \in [Attempts -> Nat]
      /\ execStatus \in [Trades -> TradeStatuses \cup {"NONE", "CONFLICT"}]
      /\ RefreshHedge(os, verified, venueMatched, execStatus)
  BY DEF AcceptHedgeOrder, LedgerType, OrderStates, TerminalOrders
<1>2. \A m \in Attempts : orderState[m] = "NONE" <=> os[m] = "NONE"
  BY DEF Exists, LedgerType
<1> HIDE DEF os
<1>3. RefreshStep
  BY <1>1 DEF RefreshStep
<1> QED
  BY <1>1, <1>2, <1>3, RefreshRows DEF LedgerEffect

LEMMA RecordEffect ==
    ASSUME LedgerType, NEW t \in Trades, NEW s \in TradeStatuses, s \in vHist[t],
           RecordExecution(t, s)
    PROVE  LedgerEffect
<1> DEFINE merged == MergedStatus(execStatus[t], s)
<1>1. CASE merged = execStatus[t]
  BY <1>1, NoEffect DEF RecordExecution
<1>2. CASE merged # execStatus[t]
  <2> DEFINE ex == [execStatus EXCEPT ![t] = merged]
  <2>1. merged \in TradeStatuses \cup {"NONE", "CONFLICT"}
    BY DEF MergedStatus, LedgerType
  <2>2. RefreshHedge(orderState, verified, venueMatched, ex)
    BY <1>2 DEF RecordExecution
  <2>3. ex \in [Trades -> TradeStatuses \cup {"NONE", "CONFLICT"}]
    BY <2>1 DEF LedgerType
  <2>4. \A u \in Trades : ex[u] = execStatus[u] \/ (u = t /\ ex[u] = merged)
    BY DEF LedgerType
  <2> HIDE DEF ex
  <2>5. RefreshStep
    BY <2>2, <2>3 DEF RefreshStep, LedgerType
  <2>6. \A u \in Trades : execStatus'[u] = execStatus[u]
            \/ \E r \in vHist[u] : execStatus'[u] = MergedStatus(execStatus[u], r)
    BY <2>2, <2>4, RefreshRows
  <2> QED
    BY <2>2, <2>5, <2>6, RefreshRows DEF LedgerEffect
<1> QED
  BY <1>1, <1>2

LEMMA MarkEffect ==
    ASSUME LedgerType, NEW n \in Attempts, NEW s \in Submitting, SetHedgeSubmissionState(n, s)
    PROVE  LedgerEffect
<1>1. MarkStep
  BY DEF MarkStep
<1>2. \A m \in Attempts : orderState[m] = "NONE" <=> orderState'[m] = "NONE"
  BY DEF SetHedgeSubmissionState, LedgerType, Submitting
<1> QED
  BY <1>1, <1>2 DEF SetHedgeSubmissionState, LedgerEffect

LEMMA StepEffect ==
    ASSUME TypeInv, StoredInv, [Next]_vars
    PROVE  LedgerEffect \/ IntentStep
<1>0. LedgerType /\ TaskType /\ VenueType /\ ReconType /\ AnswersReal
  BY TypeParts DEF TypeInv
<1>1. CASE \/ TaskStart \/ TaskLookup \/ TaskLookupFails \/ TaskReplay \/ TaskCancel
           \/ TaskSize \/ TaskDeclines \/ TaskAcknowledged \/ TaskPostFails \/ TaskTimeout
           \/ Crash \/ VenueStep \/ ReconcileList \/ RecoveryReady \/ RecoveryLost
           \/ (\E n \in Attempts : ReconcileRead(n)) \/ UNCHANGED vars
  <2>1. UNCHANGED ledger
    BY <1>1 DEF TaskStart, TaskLookup, TaskLookupFails, TaskReplay, TaskCancel, TaskSize,
                TaskDeclines, TaskAcknowledged, TaskPostFails, TaskTimeout, Crash, VenueStep,
                VenueTakesPost, VenueDropsPost, VenueCancels, VenueMatches, VenueSettles,
                ReconcileList, ReconcileRead, RecoveryReady, RecoveryLost, vars
  <2> QED
    BY <2>1, NoEffect
<1>2. CASE TaskVerify \/ TaskVerifyThenCancel
  <2>1. /\ cur \in Attempts /\ snap \in Answers /\ snap.status \in OrderStates
        /\ snap.status # "NONE" /\ Exists(cur) /\ Held(cur, snap)
    BY <1>0, <1>2 DEF TaskVerify, TaskVerifyThenCancel, TaskType, AnswersReal, VenueAnswers,
                      VenueStates, OrderStates, TerminalOrders, StoredInv, Held
  <2> QED
    BY <1>0, <1>2, <2>1, VerifyEffect DEF TaskVerify, TaskVerifyThenCancel
<1>3. CASE TaskMarkCancelPending
  <2>1. cur \in Attempts /\ "CANCEL_PENDING" \in OrderStates
    BY <1>0, <1>3 DEF TaskMarkCancelPending, TaskType, OrderStates
  <2> QED
    BY <1>0, <1>3, <2>1, UpdateEffect DEF TaskMarkCancelPending
<1>4. CASE TaskIntent
  <2> DEFINE n == obligation.reprices + 1
  <2>1. CASE IntentAllowed(n, shares)
    BY <1>4, <2>1 DEF TaskIntent, IntentStep
  <2>2. CASE ~IntentAllowed(n, shares)
    BY <1>4, <2>2, NoEffect DEF TaskIntent
  <2> QED
    BY <2>1, <2>2
<1>5. CASE TaskSubmit
  BY <1>0, <1>5, MarkEffect DEF TaskSubmit, TaskType, Submitting
<1>6. CASE TaskOutcomeUnknown
  BY <1>0, <1>6, MarkEffect DEF TaskOutcomeUnknown, TaskType, Submitting
<1>7. CASE TaskAccept
  <2>1. cur \in Attempts /\ snap.status \in {"LIVE", "MATCHED"} /\ Exists(cur)
    BY <1>0, <1>7 DEF TaskAccept, TaskType, AnswersReal, StoredInv
  <2> QED
    BY <1>0, <1>7, <2>1, AcceptEffect DEF TaskAccept
<1>8. ASSUME NEW n \in Attempts, ReconcileApply(n) PROVE LedgerEffect
  <2>1. /\ recon[n] \in Answers /\ recon[n].status \in OrderStates
        /\ recon[n].status # "NONE" /\ Exists(n) /\ Held(n, recon[n])
    BY <1>0, <1>8 DEF ReconcileApply, ReconType, AnswersReal, Answers, VenueStates,
                      OrderStates, TerminalOrders, StoredInv, Held
  <2> QED
    BY <1>0, <1>8, <2>1, VerifyEffect DEF ReconcileApply
<1>9. ASSUME NEW t \in Trades, NEW s \in TradeStatuses, TradeReported(t, s) PROVE LedgerEffect
  BY <1>0, <1>9, RecordEffect DEF TradeReported
<1>10. ASSUME NEW n \in Attempts, NEW s \in VenueStates, OrderReported(n, s)
       PROVE  LedgerEffect
  <2>1. s \in OrderStates /\ s # "NONE"
    BY <1>0, <1>10 DEF OrderReported, VenueType, VenueStates, OrderStates, TerminalOrders
  <2> QED
    BY <1>0, <1>10, <2>1, UpdateEffect DEF OrderReported
<1> QED
  BY <1>1, <1>2, <1>3, <1>4, <1>5, <1>6, <1>7, <1>8, <1>9, <1>10
     DEF Next, TaskStep, ReportStep

\* What a step does to the venue; a step of the venue leaves the ledger alone.
VenueEffect ==
    \/ UNCHANGED <<vState, tOrder, vHist>>
    \/ /\ UNCHANGED ledger
       /\ \/ \E n \in Attempts :
                /\ \/ n \in posts /\ vState[n] = "ABSENT"
                      /\ vState' = [vState EXCEPT ![n] = "LIVE"]
                   \/ vState[n] = "LIVE" /\ vState' = [vState EXCEPT ![n] = "CANCELLED"]
                /\ UNCHANGED <<tOrder, vHist>>
          \/ \E n \in Attempts, t \in Trades : VenueMatches(n, t)
          \/ \E t \in Trades, s \in TradeStatuses : VenueSettles(t, s)

LEMMA StepVenue ==
    ASSUME TypeInv, [Next]_vars
    PROVE  VenueEffect
<1>0. VenueType /\ TaskType
  BY TypeParts DEF TypeInv
<1>1. CASE \/ TaskStart \/ TaskLookup \/ TaskLookupFails \/ TaskReplay
           \/ TaskVerify \/ TaskVerifyThenCancel \/ TaskMarkCancelPending
           \/ TaskSize \/ TaskDeclines \/ TaskIntent
           \/ TaskSubmit \/ TaskAcknowledged \/ TaskAccept
           \/ TaskPostFails \/ TaskOutcomeUnknown \/ TaskTimeout
           \/ Crash \/ ReportStep \/ UNCHANGED vars
  BY <1>1 DEF TaskStart, TaskLookup, TaskLookupFails, TaskReplay, TaskVerify,
              TaskVerifyThenCancel, TaskMarkCancelPending, TaskSize, TaskDeclines, TaskIntent,
              TaskSubmit, TaskAcknowledged, TaskAccept, TaskPostFails, TaskOutcomeUnknown,
              TaskTimeout, Crash, ReportStep, ReconcileList, ReconcileRead, ReconcileApply,
              TradeReported, OrderReported, RecoveryReady, RecoveryLost, VenueEffect, vars,
              venue
<1>2. CASE TaskCancel
  <2>1. cur \in Attempts
    BY <1>0, <1>2 DEF TaskCancel, TaskType
  <2>2. CASE vState[cur] = "LIVE"
    BY <1>2, <2>1, <2>2 DEF TaskCancel, VenueEffect
  <2>3. CASE vState[cur] # "LIVE"
    BY <1>0, <1>2, <2>1, <2>3 DEF TaskCancel, VenueEffect, VenueType
  <2> QED
    BY <2>2, <2>3
<1>3. ASSUME NEW n \in Attempts, VenueTakesPost(n) PROVE VenueEffect
  <2>1. CASE vState[n] = "ABSENT"
    BY <1>3, <2>1 DEF VenueTakesPost, VenueEffect
  <2>2. CASE vState[n] # "ABSENT"
    BY <1>0, <1>3, <2>2 DEF VenueTakesPost, VenueEffect, VenueType
  <2> QED
    BY <2>1, <2>2
<1>4. ASSUME NEW n \in Attempts, VenueDropsPost(n) \/ VenueCancels(n) PROVE VenueEffect
  BY <1>4 DEF VenueDropsPost, VenueCancels, VenueEffect
<1>5. ASSUME NEW n \in Attempts, NEW t \in Trades, VenueMatches(n, t) PROVE VenueEffect
  BY <1>5 DEF VenueEffect, VenueMatches
<1>6. ASSUME NEW t \in Trades, NEW s \in TradeStatuses, VenueSettles(t, s) PROVE VenueEffect
  BY <1>6 DEF VenueEffect, VenueSettles
<1> QED
  BY <1>1, <1>2, <1>3, <1>4, <1>5, <1>6 DEF Next, TaskStep, VenueStep

-----------------------------------------------------------------------------
(* The accounting of the ledger *)

LEMMA AccountingStep ==
    ASSUME TypeInv, StoredInv, AccountingCurrent, [Next]_vars
    PROVE  AccountingCurrent'
<1>0. LedgerType
  BY TypeParts DEF TypeInv
<1>1. CASE UNCHANGED ledger
  BY <1>1 DEF ledger, AccountingCurrent, Confirmed, Pending
<1>2. CASE RefreshStep
  <2>1. PICK os, ver, vm, ex : RefreshHedge(os, ver, vm, ex)
    BY <1>2 DEF RefreshStep
  <2>2. obligation' = Recomputed(os, verified', execStatus')
    BY <2>1, RefreshRows
  <2> QED
    BY <2>2 DEF Recomputed, AccountingCurrent, Confirmed, Pending
<1>3. CASE MarkStep
  BY <1>3 DEF MarkStep, SetHedgeSubmissionState, AccountingCurrent, Confirmed, Pending
<1>4. CASE IntentStep
  <2>1. /\ execStatus' = execStatus
        /\ obligation' = [obligation EXCEPT !.state = "ORDER_INTENT",
                                            !.reprices = obligation.reprices + 1]
    BY <1>4 DEF IntentStep, CreateHedgeOrderIntent
  <2>2. /\ obligation'.confirmed = obligation.confirmed
        /\ obligation'.pending = obligation.pending
        /\ obligation'.excess = obligation.excess
    BY <1>0, <2>1 DEF LedgerType
  <2> QED
    BY <2>1, <2>2 DEF AccountingCurrent, Confirmed, Pending
<1> QED
  BY <1>1, <1>2, <1>3, <1>4, StepEffect DEF LedgerEffect

-----------------------------------------------------------------------------
(* The facts that hold whatever the venue answers *)

\* An order is never forgotten, and keeps its size.
LEMMA OrdersStay ==
    ASSUME TypeInv, LedgerEffect \/ IntentStep
    PROVE  /\ \A n \in Attempts : Exists(n) => orderState'[n] # "NONE"
           /\ \A n \in Attempts : Exists(n) => quantity'[n] = quantity[n]
           /\ \A n \in Attempts : orderState'[n] # "NONE" => quantity'[n] >= 1 \/ Exists(n)
<1>0. LedgerType /\ TaskType
  BY TypeParts DEF TypeInv
<1>1. CASE LedgerEffect
  BY <1>1 DEF LedgerEffect, Exists
<1>2. CASE IntentStep
  <2> DEFINE k == obligation.reprices + 1
  <2>1. /\ k \in Attempts /\ ~Exists(k) /\ shares > 0
        /\ orderState' = [orderState EXCEPT ![k] = "INTENT"]
        /\ quantity' = [quantity EXCEPT ![k] = shares]
    BY <1>2 DEF IntentStep, IntentAllowed, CreateHedgeOrderIntent
  <2>2. shares >= 1
    BY <1>0, <2>1, EmptySlots DEF TaskType
  <2> QED
    BY <1>0, <2>1, <2>2 DEF LedgerType, Exists
<1> QED
  BY <1>1, <1>2

\* The task's own locals name stored orders only.
LEMMA TaskKnows ==
    ASSUME TypeInv, StoredInv, [Next]_vars,
           \A n \in Attempts : Exists(n) => orderState'[n] # "NONE"
    PROVE  /\ pc' \notin {"idle", "size", "intent"} => orderState'[cur'] # "NONE"
           /\ \A n \in Attempts : seen'[n] # "NONE" => orderState'[n] # "NONE"
<1>0. LedgerType /\ TaskType
  BY TypeParts DEF TypeInv
<1>a. ASSUME Return
      PROVE  /\ pc' \notin {"idle", "size", "intent"} => orderState'[cur'] # "NONE"
             /\ \A n \in Attempts : seen'[n] # "NONE" => orderState'[n] # "NONE"
  BY <1>a, EmptySlots, ReturnType
<1>b. ASSUME NEW sn \in [Attempts -> OrderStates], NEW c \in 0..MaxAttempts, Advance(sn, c),
             \A n \in Attempts : sn[n] # "NONE" => Exists(n)
      PROVE  /\ pc' \notin {"idle", "size", "intent"} => orderState'[cur'] # "NONE"
             /\ \A n \in Attempts : seen'[n] # "NONE" => orderState'[n] # "NONE"
  BY <1>b, AdvanceType
<1>1. CASE TaskStart
  <2> DEFINE sn == [n \in Attempts |-> IF n \in Unresolved THEN orderState[n] ELSE "NONE"]
  <2>1. /\ sn \in [Attempts -> OrderStates]
        /\ \A n \in Attempts : sn[n] # "NONE" => Exists(n)
    BY <1>0 DEF LedgerType, OrderStates, Unresolved
  <2>2. Advance(sn, 0) /\ 0 \in 0..MaxAttempts
    BY <1>1, EmptySlots DEF TaskStart
  <2> HIDE DEF sn
  <2> QED
    BY <1>b, <2>1, <2>2
<1>2. CASE TaskVerify
  <2>1. /\ seen \in [Attempts -> OrderStates] /\ cur \in 0..MaxAttempts
        /\ \A n \in Attempts : seen[n] # "NONE" => Exists(n)
    BY <1>0 DEF TaskType, StoredInv
  <2> QED
    BY <1>2, <1>a, <1>b, <2>1 DEF TaskVerify
<1>3. CASE TaskIntent
  <2>1. CASE Return
    BY <1>a, <2>1
  <2>2. CASE ~Return
    <3>1. LET n == obligation.reprices + 1 IN
             /\ n \in Attempts /\ CreateHedgeOrderIntent(n, shares)
             /\ cur' = n /\ UNCHANGED <<seen, snap>>
      BY <1>3, <2>2 DEF TaskIntent
    <3> QED
      BY <1>0, <3>1 DEF CreateHedgeOrderIntent, LedgerType, StoredInv
  <2> QED
    BY <2>1, <2>2
<1>4. CASE TaskLookupFails \/ TaskDeclines \/ TaskAccept \/ TaskOutcomeUnknown \/ TaskTimeout
           \/ Crash
  BY <1>4, <1>a DEF TaskLookupFails, TaskDeclines, TaskAccept, TaskOutcomeUnknown,
                    TaskTimeout, Crash
<1>5. CASE TaskReplay
  BY <1>0, <1>5, EmptySlots DEF TaskReplay, StoredInv, TaskType
<1>6. CASE \/ TaskLookup \/ TaskVerifyThenCancel \/ TaskMarkCancelPending \/ TaskCancel
           \/ TaskSubmit \/ TaskAcknowledged \/ TaskPostFails
  <2>1. /\ UNCHANGED <<cur, seen>>
        /\ pc \notin {"idle", "size", "intent"}
    BY <1>6 DEF TaskLookup, TaskVerifyThenCancel, TaskMarkCancelPending, TaskCancel,
                TaskSubmit, TaskAcknowledged, TaskPostFails
  <2> QED
    BY <1>0, <2>1 DEF StoredInv, TaskType
<1>7. CASE TaskSize
  BY <1>7 DEF TaskSize, StoredInv
<1>8. CASE VenueStep \/ ReportStep \/ UNCHANGED vars
  <2>1. UNCHANGED <<pc, cur, seen>>
    BY <1>8 DEF VenueStep, ReportStep, VenueTakesPost, VenueDropsPost, VenueCancels,
                VenueMatches, VenueSettles, ReconcileList, ReconcileRead, ReconcileApply,
                TradeReported, OrderReported, RecoveryReady, RecoveryLost, vars, task
  <2> QED
    BY <1>0, <2>1 DEF StoredInv, TaskType
<1> QED
  BY <1>1, <1>2, <1>3, <1>4, <1>5, <1>6, <1>7, <1>8 DEF Next, TaskStep

\* Neither POSTs on their way nor listed answers name an order not stored.
LEMMA CallsKnow ==
    ASSUME TypeInv, StoredInv, [Next]_vars
    PROVE  /\ \A n \in posts' : n \in posts \/ (n = cur /\ Exists(cur))
           /\ \A n \in Attempts : recon'[n] # NoAnswer => Exists(n)
<1>0. ReconType
  BY TypeParts DEF TypeInv
<1>1. CASE TaskSubmit
  BY <1>1 DEF TaskSubmit, StoredInv
<1>2. CASE ReconcileList
  BY <1>2 DEF ReconcileList, Unresolved, venue
<1>3. ASSUME NEW n \in Attempts, ReconcileRead(n)
      PROVE  /\ posts' = posts
             /\ \A m \in Attempts : recon'[m] # NoAnswer => Exists(m)
  <2>1. recon[n] # NoAnswer
    BY <1>3 DEF ReconcileRead, NoAnswer
  <2>2. \A m \in Attempts : recon'[m] = recon[m] \/ m = n
    BY <1>0, <1>3 DEF ReconcileRead, ReconType
  <2> QED
    BY <1>3, <2>1, <2>2 DEF ReconcileRead, StoredInv, venue
<1>4. ASSUME NEW n \in Attempts, ReconcileApply(n)
      PROVE  /\ posts' = posts
             /\ \A m \in Attempts : recon'[m] # NoAnswer => Exists(m)
  BY <1>0, <1>4 DEF ReconcileApply, ReconType, StoredInv, venue
<1>5. CASE Crash
  BY <1>5 DEF Crash, venue
<1>6. CASE \/ TaskStart \/ TaskLookup \/ TaskLookupFails \/ TaskReplay
           \/ TaskVerify \/ TaskVerifyThenCancel \/ TaskMarkCancelPending \/ TaskCancel
           \/ TaskSize \/ TaskDeclines \/ TaskIntent
           \/ TaskAcknowledged \/ TaskAccept
           \/ TaskPostFails \/ TaskOutcomeUnknown \/ TaskTimeout
           \/ (\E t \in Trades, s \in TradeStatuses : TradeReported(t, s))
           \/ (\E n \in Attempts, s \in VenueStates : OrderReported(n, s))
           \/ RecoveryReady \/ RecoveryLost \/ UNCHANGED vars
  <2>1. UNCHANGED <<posts, recon>>
    BY <1>6 DEF TaskStart, TaskLookup, TaskLookupFails, TaskReplay, TaskVerify,
              TaskVerifyThenCancel, TaskMarkCancelPending, TaskCancel, TaskSize,
              TaskDeclines, TaskIntent, TaskAcknowledged, TaskAccept, TaskPostFails,
              TaskOutcomeUnknown, TaskTimeout, TradeReported, OrderReported, RecoveryReady,
              RecoveryLost, vars, venue
  <2> QED
    BY <2>1 DEF StoredInv
<1>7. CASE VenueStep
  <2>1. posts' \subseteq posts /\ recon' = recon
    BY <1>7 DEF VenueStep, VenueTakesPost, VenueDropsPost, VenueCancels, VenueMatches,
                VenueSettles
  <2> QED
    BY <2>1 DEF StoredInv
<1> QED
  BY <1>1, <1>2, <1>3, <1>4, <1>5, <1>6, <1>7 DEF Next, TaskStep, ReportStep

LEMMA StoredStep ==
    ASSUME TypeInv, StoredInv, [Next]_vars
    PROVE  StoredInv'
<1>0. VenueType /\ VenueType' /\ TaskType
  <2>1. TypeInv'
    BY TypeStep
  <2> QED
    BY <2>1, TypeParts, PTL DEF TypeInv
<1>1. /\ \A n \in Attempts : Exists(n) => orderState'[n] # "NONE"
      /\ \A n \in Attempts : Exists(n) => quantity'[n] = quantity[n]
      /\ \A n \in Attempts : orderState'[n] # "NONE" => quantity'[n] >= 1 \/ Exists(n)
  BY StepEffect, OrdersStay
<1>2. \A n \in Attempts : vState'[n] # "ABSENT" => vState[n] # "ABSENT" \/ n \in posts
  BY <1>0, StepVenue DEF VenueEffect, VenueMatches, VenueSettles, VenueType
<1>3. \A n \in Attempts : vState'[n] # "ABSENT" => orderState'[n] # "NONE"
  BY <1>1, <1>2 DEF StoredInv
<1>4. /\ \A n \in posts' : orderState'[n] # "NONE"
      /\ \A n \in Attempts : recon'[n] # NoAnswer => orderState'[n] # "NONE"
  BY <1>0, <1>1, CallsKnow DEF StoredInv, VenueType
<1>5. \A n \in Attempts : orderState'[n] # "NONE" => quantity'[n] >= 1
  BY <1>1 DEF StoredInv
<1> QED
  BY <1>1, <1>3, <1>4, <1>5, TaskKnows DEF StoredInv, Exists

\* A match adds its trade to one order and to no other.
LEMMA MatchFills ==
    ASSUME TypeInv, NEW n \in Attempts, NEW t \in Trades, VenueMatches(n, t)
    PROVE  /\ Filled(n)' = Filled(n) \cup {t}
           /\ \A m \in Attempts : m # n => Filled(m)' = Filled(m)
           /\ Cardinality(Filled(n)') = Cardinality(Filled(n)) + 1
<1>0. VenueType
  BY TypeParts DEF TypeInv
<1>1. /\ tOrder[t] = 0 /\ tOrder' = [tOrder EXCEPT ![t] = n] /\ n # 0
  BY EmptySlots DEF VenueMatches, Attempts
<1>2. Filled(n)' = Filled(n) \cup {t}
  BY <1>0, <1>1 DEF Filled, VenueType
<1>3. \A m \in Attempts : m # n => Filled(m)' = Filled(m)
  BY <1>0, <1>1 DEF Filled, VenueType, Attempts
<1>4. t \notin Filled(n) /\ IsFiniteSet(Filled(n))
  BY <1>1, TradesFinite DEF Filled
<1> QED
  BY <1>2, <1>3, <1>4, FS_AddElement

LEMMA VenueInvStep ==
    ASSUME TypeInv, StoredInv, VenueInv, [Next]_vars
    PROVE  VenueInv'
<1>0. VenueType /\ LedgerType
  BY TypeParts DEF TypeInv
<1>1. /\ \A n \in Attempts : Exists(n) => quantity'[n] = quantity[n]
      /\ \A n \in Attempts : Cardinality(Filled(n)) \in Nat
      /\ \A n \in Attempts : quantity[n] \in Nat /\ quantity'[n] \in Nat
  <2>1. LedgerType'
    BY TypeStep, TypeParts, PTL DEF TypeInv
  <2> QED
    BY <1>0, <2>1, StepEffect, OrdersStay, TradesFinite, EmptySlots DEF Filled, LedgerType
<1>2. \A n \in Attempts : vState[n] = "ABSENT" => Filled(n) = {}
  BY EmptySlots DEF VenueInv, Filled, Attempts
<1>3. \A n \in Attempts : vState[n] # "ABSENT" => Exists(n)
  BY DEF StoredInv
<1>4. CASE UNCHANGED <<vState, tOrder, vHist>>
  <2>1. \A n \in Attempts : Filled(n)' = Filled(n)
    BY <1>4 DEF Filled
  <2>2. \A n \in Attempts : vState[n] = "ABSENT" => Cardinality(Filled(n)) = 0
    BY <1>2, FS_EmptySet
  <2>3. \A n \in Attempts : Cardinality(Filled(n)) <= quantity'[n]
    BY <1>1, <1>3, <2>2 DEF VenueInv
  <2>4. \A n \in Attempts : vState[n] = "LIVE" => Cardinality(Filled(n)) < quantity'[n]
    BY <1>1, <1>3 DEF VenueInv
  <2>5. \A u \in Trades : tOrder'[u] # 0 => vState'[tOrder'[u]] # "ABSENT"
    BY <1>4 DEF VenueInv
  <2>6. \A n \in Attempts : Cardinality(Filled(n)') <= quantity'[n]
    BY <2>1, <2>3
  <2>7. \A n \in Attempts : vState'[n] = "LIVE" => Cardinality(Filled(n)') < quantity'[n]
    BY <1>4, <2>1, <2>4
  <2> QED
    BY <2>5, <2>6, <2>7 DEF VenueInv
<1>5. ASSUME UNCHANGED ledger, NEW n \in Attempts, UNCHANGED <<tOrder, vHist>>,
             \/ n \in posts /\ vState[n] = "ABSENT" /\ vState' = [vState EXCEPT ![n] = "LIVE"]
             \/ vState[n] = "LIVE" /\ vState' = [vState EXCEPT ![n] = "CANCELLED"]
      PROVE  VenueInv'
  <2>1. \A m \in Attempts : Filled(m)' = Filled(m)
    BY <1>5 DEF Filled
  <2>2. quantity' = quantity
    BY <1>5 DEF ledger
  <2>3. vState[n] = "ABSENT" => Cardinality(Filled(n)) < quantity[n]
    <3> SUFFICES ASSUME vState[n] = "ABSENT" PROVE Cardinality(Filled(n)) < quantity[n]
      OBVIOUS
    <3>1. Cardinality(Filled(n)) = 0
      BY <1>2, FS_EmptySet
    <3>2. quantity[n] >= 1 /\ quantity[n] \in Nat
      BY <1>1, <1>5 DEF StoredInv
    <3> QED
      BY <3>1, <3>2
  <2>4. \A m \in Attempts : Cardinality(Filled(m)') <= quantity'[m]
    BY <2>1, <2>2 DEF VenueInv
  <2>5. \A m \in Attempts : vState'[m] = "LIVE" => Cardinality(Filled(m)') < quantity'[m]
    BY <1>0, <1>5, <2>1, <2>2, <2>3 DEF VenueInv, VenueType
  <2>6. \A u \in Trades : tOrder'[u] # 0 => vState'[tOrder'[u]] # "ABSENT"
    <3>1. \A m \in Attempts : vState[m] # "ABSENT" => vState'[m] # "ABSENT"
      BY <1>0, <1>5 DEF VenueType
    <3>2. \A u \in Trades : tOrder[u] # 0 => tOrder[u] \in Attempts
      BY <1>0, EmptySlots DEF VenueType, Attempts
    <3> QED
      BY <1>5, <3>1, <3>2 DEF VenueInv
  <2> QED
    BY <2>4, <2>5, <2>6 DEF VenueInv
<1>6. ASSUME UNCHANGED ledger, NEW n \in Attempts, NEW t \in Trades, VenueMatches(n, t)
      PROVE  VenueInv'
  <2>1. quantity' = quantity
    BY <1>6 DEF ledger
  <2>2. /\ vState[n] = "LIVE" /\ tOrder' = [tOrder EXCEPT ![t] = n]
        /\ vState' = [vState EXCEPT ![n] =
                         IF Cardinality(Filled(n)) + 1 >= quantity[n] THEN "MATCHED" ELSE @]
    BY <1>6 DEF VenueMatches
  <2>3. \A m \in Attempts : Cardinality(Filled(m)') <= quantity'[m]
    BY <1>1, <1>6, <2>1, <2>2, MatchFills DEF VenueInv
  <2>4. \A m \in Attempts : vState'[m] = "LIVE" => Cardinality(Filled(m)') < quantity'[m]
    <3>1. CASE Cardinality(Filled(n)) + 1 >= quantity[n]
      BY <1>0, <1>6, <2>1, <2>2, <3>1, MatchFills DEF VenueInv, VenueType
    <3>2. CASE ~(Cardinality(Filled(n)) + 1 >= quantity[n])
      BY <1>0, <1>1, <1>6, <2>1, <2>2, <3>2, MatchFills DEF VenueInv, VenueType
    <3> QED
      BY <3>1, <3>2
  <2>5. \A u \in Trades : tOrder'[u] # 0 => vState'[tOrder'[u]] # "ABSENT"
    BY <1>0, <2>2 DEF VenueInv, VenueType
  <2> QED
    BY <2>3, <2>4, <2>5 DEF VenueInv
<1>7. ASSUME UNCHANGED ledger, NEW t \in Trades, NEW s \in TradeStatuses, VenueSettles(t, s)
      PROVE  VenueInv'
  BY <1>7 DEF VenueSettles, VenueInv, Filled, ledger
<1> QED
  BY <1>4, <1>5, <1>6, <1>7, StepVenue DEF VenueEffect

\* A fill's recorded status is one the venue published, or a conflict.
LEMMA MergeReported ==
    ASSUME NEW old, NEW s
    PROVE  MergedStatus(old, s) \in {old, s, "CONFLICT"}
BY DEF MergedStatus

LEMMA ReportInvStep ==
    ASSUME TypeInv, StoredInv, VenueInv, ReportInv, [Next]_vars
    PROVE  ReportInv'
<1>0. VenueType /\ LedgerType
  BY TypeParts DEF TypeInv
<1>1. \A t \in Trades : \/ execStatus'[t] = execStatus[t]
                        \/ \E s \in vHist[t] : execStatus'[t] \in {s, "CONFLICT"}
  <2>1. CASE LedgerEffect
    BY <2>1, MergeReported DEF LedgerEffect
  <2>2. CASE IntentStep
    BY <2>2 DEF IntentStep, CreateHedgeOrderIntent
  <2> QED
    BY <2>1, <2>2, StepEffect
<1>2. CASE UNCHANGED <<vState, tOrder, vHist>>
  BY <1>1, <1>2 DEF ReportInv
<1>3. CASE UNCHANGED ledger
  <2>1. execStatus' = execStatus
    BY <1>3 DEF ledger
  <2>2. CASE UNCHANGED <<tOrder, vHist>>
    BY <2>1, <2>2 DEF ReportInv
  <2>3. ASSUME NEW n \in Attempts, NEW t \in Trades, VenueMatches(n, t) PROVE ReportInv'
    <3>1. /\ tOrder[t] = 0 /\ n # 0
          /\ tOrder' = [tOrder EXCEPT ![t] = n]
          /\ vHist' = [vHist EXCEPT ![t] = {"MATCHED"}]
      BY <2>3, EmptySlots DEF VenueMatches, Attempts
    <3>2. execStatus[t] = "NONE"
      BY <3>1 DEF ReportInv
    <3> QED
      BY <1>0, <2>1, <3>1, <3>2 DEF ReportInv, VenueType
  <2>4. ASSUME NEW t \in Trades, NEW s \in TradeStatuses, VenueSettles(t, s) PROVE ReportInv'
    BY <1>0, <2>1, <2>4 DEF ReportInv, VenueSettles, VenueType
  <2> QED
    BY <2>2, <2>3, <2>4, <1>2, StepVenue DEF VenueEffect
<1> QED
  BY <1>2, <1>3, StepVenue DEF VenueEffect

LEMMA FactInit == Init => FactInv
<1> SUFFICES ASSUME Init PROVE FactInv
  OBVIOUS
<1>1. TypeInv
  BY TypeInit
<1>2. /\ Confirmed(execStatus) = {} /\ Pending(execStatus) = {}
      /\ \A n \in Attempts : Filled(n) = {}
  BY EmptySlots DEF Init, Confirmed, Pending, Filled, Attempts
<1>3. AccountingCurrent
  <2>1. Cardinality(Confirmed(execStatus)) = 0 /\ Cardinality(Pending(execStatus)) = 0
    BY <1>2, FS_EmptySet
  <2>2. obligation.confirmed = 0 /\ obligation.pending = 0 /\ obligation.excess = 0
    BY DEF Init
  <2>3. Due \in Nat /\ Due >= 1
    BY ConstantsAssumption DEF ConstantsAssumption
  <2> QED
    BY <2>1, <2>2, <2>3 DEF AccountingCurrent, Least, Minus
<1>4. StoredInv
  BY EmptySlots DEF Init, StoredInv, Exists
<1>5. VenueInv
  <2>1. \A n \in Attempts : vState[n] = "ABSENT" /\ quantity[n] = 0
    BY DEF Init
  <2>2. \A t \in Trades : tOrder[t] = 0
    BY DEF Init
  <2>3. \A n \in Attempts : Cardinality(Filled(n)) = 0
    BY <1>2, FS_EmptySet
  <2> QED
    BY <2>1, <2>2, <2>3 DEF VenueInv
<1>6. ReportInv
  BY DEF Init, ReportInv
<1> QED
  BY <1>1, <1>3, <1>4, <1>5, <1>6 DEF FactInv

LEMMA FactStep == FactInv /\ [Next]_vars => FactInv'
BY TypeStep, AccountingStep, StoredStep, VenueInvStep, ReportInvStep DEF FactInv

LEMMA FactInvariant == Spec => []FactInv
BY FactInit, FactStep, PTL DEF Spec

\* The totals from which new orders are sized are those of the recorded fills
\* in every reachable state, whatever the venue answers.
THEOREM AccountingHolds == Spec => []AccountingCurrent
BY FactInvariant, PTL DEF FactInv

\* A step that ends with a refresh leaves no released order outrun.
LEMMA LateFillsStep ==
    ASSUME FactInv, LateFillsReopen, [Next]_vars
    PROVE  LateFillsReopen'
<1>0. LedgerType /\ VenueType
  BY TypeParts DEF FactInv, TypeInv
<1>1. CASE UNCHANGED ledger
  <2>1. UNCHANGED <<orderState, verified, venueMatched, execStatus>>
    BY <1>1 DEF ledger
  <2>2. \A n \in Attempts : Recorded(n, execStatus)' = Recorded(n, execStatus)
    <3>1. CASE UNCHANGED tOrder
      BY <2>1, <3>1 DEF Recorded, Filled
    <3>2. ASSUME NEW m \in Attempts, NEW t \in Trades, VenueMatches(m, t)
          PROVE  \A n \in Attempts : Recorded(n, execStatus)' = Recorded(n, execStatus)
      <4>1. tOrder[t] = 0 /\ execStatus[t] = "NONE" /\ tOrder' = [tOrder EXCEPT ![t] = m]
        BY <3>2 DEF VenueMatches, FactInv, ReportInv
      <4> QED
        BY <1>0, <2>1, <4>1 DEF Recorded, Filled, VenueType
    <3>3. ASSUME NEW t \in Trades, NEW s \in TradeStatuses, VenueSettles(t, s)
          PROVE  UNCHANGED tOrder
      BY <3>3 DEF VenueSettles
    <3> QED
      BY <3>1, <3>2, <3>3, StepVenue DEF VenueEffect, FactInv
  <2> QED
    BY <2>1, <2>2 DEF LateFillsReopen, OrderResolved
<1>2. ASSUME ~(UNCHANGED ledger) PROVE UNCHANGED tOrder
  BY <1>2, StepVenue DEF VenueEffect, FactInv
<1>3. CASE RefreshStep /\ UNCHANGED tOrder
  <2>1. PICK os, ver, vm, ex : vm \in [Attempts -> Nat] /\ RefreshHedge(os, ver, vm, ex)
    BY <1>3 DEF RefreshStep
  <2>2. ASSUME NEW n \in Attempts, orderState'[n] \in TerminalOrders, verified'[n]
        PROVE  Cardinality(Recorded(n, execStatus')) <= venueMatched'[n]
    <3>1. ver[n] /\ ~Outrun(n, os, ver, vm, ex)
      BY <2>1, <2>2 DEF RefreshHedge
    <3>2. ~(Cardinality(Recorded(n, ex)) > vm[n])
      BY <2>1, <2>2, <3>1 DEF RefreshHedge, Outrun
    <3>3. Cardinality(Recorded(n, ex)) \in Nat /\ vm[n] \in Nat
      BY <2>1, CountTypes
    <3> QED
      BY <2>1, <3>2, <3>3 DEF RefreshHedge
  <2>3. \A n \in Attempts : Recorded(n, execStatus)' = Recorded(n, execStatus')
    BY <1>3 DEF Recorded, Filled
  <2> QED
    BY <2>2, <2>3 DEF LateFillsReopen, OrderResolved
<1>4. CASE MarkStep /\ UNCHANGED tOrder
  <2>1. PICK k \in Attempts, s \in Submitting : SetHedgeSubmissionState(k, s)
    BY <1>4 DEF MarkStep
  <2>2. \A n \in Attempts : orderState'[n] \in TerminalOrders => orderState[n] \in TerminalOrders
    BY <1>0, <2>1 DEF SetHedgeSubmissionState, LedgerType, Submitting, TerminalOrders
  <2> QED
    BY <1>4, <2>1, <2>2 DEF SetHedgeSubmissionState, LateFillsReopen, OrderResolved, Recorded,
                            Filled
<1>5. CASE IntentStep
  <2> DEFINE k == obligation.reprices + 1
  <2>1. /\ k \in Attempts
        /\ orderState' = [orderState EXCEPT ![k] = "INTENT"]
        /\ verified' = [verified EXCEPT ![k] = FALSE]
        /\ UNCHANGED <<venueMatched, execStatus, tOrder>>
    BY <1>5 DEF IntentStep, IntentAllowed, CreateHedgeOrderIntent, venue
  <2>2. \A n \in Attempts : orderState'[n] \in TerminalOrders /\ verified'[n]
                              => orderState[n] \in TerminalOrders /\ verified[n]
    BY <1>0, <2>1 DEF LedgerType
  <2> QED
    BY <2>1, <2>2 DEF LateFillsReopen, OrderResolved, Recorded, Filled
<1> QED
  BY <1>1, <1>2, <1>3, <1>4, <1>5, StepEffect DEF LedgerEffect, FactInv

\* A fill that comes after its order was released reopens the order, so a
\* released order never holds more fills than its verification counted.
THEOREM LateFillsAlwaysReopen == Spec => []LateFillsReopen
<1>1. Init => LateFillsReopen
  BY DEF Init, LateFillsReopen, OrderResolved
<1> QED
  BY <1>1, LateFillsStep, FactInvariant, PTL DEF Spec

\* What the transaction that stores an order checks, in lots.
LEMMA IntentFits ==
    ASSUME FactInv, NEW n, NEW q \in Nat, IntentAllowed(n, q)
    PROVE  Cardinality(Confirmed(execStatus)) + Cardinality(Pending(execStatus)) + q <= Due
<1> DEFINE c == Cardinality(Confirmed(execStatus))
           p == Cardinality(Pending(execStatus))
<1>1. c \in Nat /\ p \in Nat /\ Due \in Nat
  BY CountTypes, EmptySlots
<1>2. obligation.confirmed = Least(c, Due) /\ obligation.pending = p
  BY DEF FactInv, AccountingCurrent
<1>3. q > 0 /\ q <= Minus(Due, Least(c, Due) + p)
  BY <1>2 DEF IntentAllowed, Available
<1> HIDE DEF c, p
<1>4. c + p + q <= Due
  BY <1>1, <1>3 DEF Least, Minus
<1> QED
  BY <1>4 DEF c, p

\* However the fills recorded while an order is sized and signed change the
\* obligation, the order that is stored fits what they leave open.
THEOREM IntentsFitLedger == Spec => IntentFitsLedger
<1>1. ASSUME FactInv, [Next]_vars
      PROVE  [\A n \in Attempts : ~Exists(n) /\ Exists(n)' =>
                Cardinality(Confirmed(execStatus)) + Cardinality(Pending(execStatus))
                  + quantity'[n] <= Due]_vars
  <2>1. LedgerType /\ TaskType
    BY <1>1, TypeParts DEF FactInv, TypeInv
  <2>2. CASE LedgerEffect
    BY <2>2 DEF LedgerEffect, Exists
  <2>3. CASE IntentStep
    <3> DEFINE k == obligation.reprices + 1
    <3>1. /\ k \in Attempts /\ IntentAllowed(k, shares)
          /\ orderState' = [orderState EXCEPT ![k] = "INTENT"]
          /\ quantity' = [quantity EXCEPT ![k] = shares]
      BY <2>3 DEF IntentStep, IntentAllowed, CreateHedgeOrderIntent
    <3>2. shares \in Nat
      BY <2>1, EmptySlots DEF TaskType
    <3>3. \A n \in Attempts : ~Exists(n) /\ Exists(n)' => n = k /\ quantity'[n] = shares
      BY <2>1, <3>1 DEF LedgerType, Exists
    <3> HIDE DEF k
    <3>4. Cardinality(Confirmed(execStatus)) + Cardinality(Pending(execStatus)) + shares <= Due
      BY <1>1, <3>1, <3>2, IntentFits
    <3> QED
      BY <3>3, <3>4
  <2> QED
    BY <1>1, <2>2, <2>3, StepEffect DEF FactInv
<1> QED
  BY <1>1, FactInvariant, PTL DEF Spec, IntentFitsLedger

LEMMA MergeKeepsSettled ==
    ASSUME NEW old \in {"CONFIRMED", "FAILED", "CONFLICT"}, NEW s \in TradeStatuses
    PROVE  MergedStatus(old, s) \in {old, "CONFLICT"}
<1>1. s \in {"MATCHED", "MINED", "RETRYING", "CONFIRMED", "FAILED"}
  BY ConstantsAssumption DEF ConstantsAssumption
<1>2. CASE old = "CONFLICT" \/ {old, s} = {"CONFIRMED", "FAILED"}
  BY <1>2 DEF MergedStatus
<1>3. CASE old = "CONFIRMED" /\ s # "FAILED"
  BY <1>1, <1>3 DEF MergedStatus, Rank
<1>4. CASE old = "FAILED" /\ s # "CONFIRMED"
  BY <1>1, <1>4 DEF MergedStatus, Rank
<1> QED
  BY <1>2, <1>3, <1>4

\* No order of delivery takes back a settled status: settled fills stay as
\* they are, or in conflict when the venue contradicts itself.
THEOREM SettlementsStay == Spec => SettlementNeverRegresses
<1>1. ASSUME FactInv, [Next]_vars
      PROVE  [\A t \in Trades : execStatus[t] \in {"CONFIRMED", "FAILED", "CONFLICT"} =>
                 execStatus'[t] \in {execStatus[t], "CONFLICT"}]_vars
  <2>1. VenueType
    BY <1>1, TypeParts DEF FactInv, TypeInv
  <2>2. CASE LedgerEffect
    BY <2>1, <2>2, MergeKeepsSettled DEF LedgerEffect, VenueType
  <2>3. CASE IntentStep
    BY <2>3 DEF IntentStep, CreateHedgeOrderIntent
  <2> QED
    BY <1>1, <2>2, <2>3, StepEffect DEF FactInv
<1> QED
  BY <1>1, FactInvariant, PTL DEF Spec, SettlementNeverRegresses

-----------------------------------------------------------------------------
(* With order answers that count every fill of the order *)

\* An order that is over stays as it is, and its fills stay recorded.
LEMMA OverStays ==
    ASSUME FactInv, [Next]_vars
    PROVE  /\ \A n \in Attempts : vState[n] \in Over =>
                 vState'[n] = vState[n] /\ Filled(n)' = Filled(n)
           /\ \A n \in Attempts : Final(n) => Final(n)'
           /\ \A n \in Attempts : vState'[n] \in {"ABSENT", "LIVE"} =>
                 vState[n] \in {"ABSENT", "LIVE"}
<1>0. VenueType /\ TypeInv
  BY TypeParts DEF FactInv, TypeInv
<1>1. \A n \in Attempts : vState[n] \in Over =>
         vState'[n] = vState[n] /\ Filled(n)' = Filled(n)
  <2>1. CASE UNCHANGED <<vState, tOrder>>
    BY <2>1 DEF Filled
  <2>2. ASSUME NEW n \in Attempts, UNCHANGED tOrder,
               \/ vState[n] = "ABSENT" /\ vState' = [vState EXCEPT ![n] = "LIVE"]
               \/ vState[n] = "LIVE" /\ vState' = [vState EXCEPT ![n] = "CANCELLED"]
        PROVE  \A m \in Attempts : vState[m] \in Over =>
                  vState'[m] = vState[m] /\ Filled(m)' = Filled(m)
    BY <1>0, <2>2 DEF Filled, VenueType, Over
  <2>3. ASSUME NEW n \in Attempts, NEW t \in Trades, VenueMatches(n, t)
        PROVE  \A m \in Attempts : vState[m] \in Over =>
                  vState'[m] = vState[m] /\ Filled(m)' = Filled(m)
    <3>1. vState[n] = "LIVE" /\ \A m \in Attempts : m # n => vState'[m] = vState[m]
      BY <1>0, <2>3 DEF VenueMatches, VenueType
    <3> QED
      BY <1>0, <2>3, <3>1, MatchFills DEF Over
  <2>4. ASSUME NEW t \in Trades, NEW s \in TradeStatuses, VenueSettles(t, s)
        PROVE  UNCHANGED <<vState, tOrder>>
    BY <2>4 DEF VenueSettles
  <2> QED
    BY <1>0, <2>1, <2>2, <2>3, <2>4, StepVenue DEF VenueEffect
<1>2. \A t \in Trades : execStatus[t] # "NONE" => execStatus'[t] # "NONE"
  <2>1. CASE LedgerEffect
    <3>1. \A t \in Trades : "NONE" \notin vHist[t]
      BY <1>0, ConstantsAssumption DEF VenueType, ConstantsAssumption
    <3> QED
      BY <2>1, <3>1, MergeReported DEF LedgerEffect
  <2>2. CASE IntentStep
    BY <2>2 DEF IntentStep, CreateHedgeOrderIntent
  <2> QED
    BY <2>1, <2>2, StepEffect DEF FactInv
<1>3. \A n \in Attempts : Final(n) => Final(n)'
  <2> SUFFICES ASSUME NEW n \in Attempts, Final(n) PROVE Final(n)'
    OBVIOUS
  <2>1. vState'[n] \in Over /\ Filled(n)' = Filled(n)
    BY <1>1 DEF Final
  <2>2. \A t \in Filled(n) : execStatus'[t] # "NONE"
    BY <1>2 DEF Final, Filled
  <2> QED
    BY <2>1, <2>2 DEF Final
<1>4. \A n \in Attempts : vState'[n] \in {"ABSENT", "LIVE"} =>
         vState[n] \in {"ABSENT", "LIVE"}
  BY <1>0, <1>1 DEF VenueType, VenueStates, Over
<1> QED
  BY <1>1, <1>3, <1>4

LEMMA AnswersStep ==
    ASSUME ~Lagging, FactInv, AnswersInv, [Next]_vars
    PROVE  AnswersInv'
<1>0. TypeInv /\ VenueType /\ TaskType /\ ReconType
  BY TypeParts DEF FactInv, TypeInv
<1>1. \A n \in Attempts : vState[n] \in Over => vState'[n] = vState[n] /\ Filled(n)' = Filled(n)
  BY OverStays
<1>2. CASE TaskLookup
  <2>1. /\ cur \in Attempts /\ vState[cur] # "ABSENT" /\ snap' \in AnswersOf(cur)
        /\ cur' = cur /\ UNCHANGED <<recon, vState, tOrder>>
    BY <1>0, <1>2 DEF TaskLookup, TaskType, venue
  <2>2. snap'.status = vState[cur] /\ snap'.trades = Filled(cur)
    BY <1>0, <2>1, AnswersOfType
  <2>3. vState'[cur'] = snap'.status /\ snap'.trades = Filled(cur)'
    BY <2>1, <2>2 DEF Filled
  <2>4. \A n \in Attempts : Filled(n)' = Filled(n)
    BY <2>1 DEF Filled
  <2> QED
    BY <2>1, <2>3, <2>4 DEF AnswersInv
<1>3. ASSUME NEW n \in Attempts, ReconcileRead(n) PROVE AnswersInv'
  <2>1. /\ UNCHANGED <<pc, cur, snap, vState, tOrder>>
        /\ \A m \in Attempts : m # n => recon'[m] = recon[m]
    BY <1>0, <1>3 DEF ReconcileRead, task, venue, ReconType
  <2>2. recon'[n].status \in Over => vState[n] = recon'[n].status /\ recon'[n].trades = Filled(n)
    <3>1. PICK a \in IF vState[n] = "ABSENT" THEN {NoAnswer} ELSE AnswersOf(n) :
                 recon' = [recon EXCEPT ![n] = a]
      BY <1>3 DEF ReconcileRead
    <3>2. recon'[n] = a
      BY <1>0, <3>1 DEF ReconType
    <3>3. CASE vState[n] = "ABSENT"
      BY <3>1, <3>2, <3>3 DEF NoAnswer, Over
    <3>4. CASE vState[n] # "ABSENT"
      BY <1>0, <3>1, <3>2, <3>4, AnswersOfType
    <3> QED
      BY <3>3, <3>4
  <2>3. \A m \in Attempts : Filled(m)' = Filled(m)
    BY <2>1 DEF Filled
  <2>4. pc' \in {"verify", "reverify"} /\ snap'.status \in Over =>
           vState'[cur'] = snap'.status /\ snap'.trades = Filled(cur)'
    BY <2>1 DEF AnswersInv, Filled
  <2>5. \A m \in Attempts : recon'[m].status \in Over =>
           vState'[m] = recon'[m].status /\ recon'[m].trades = Filled(m)'
    BY <2>1, <2>2, <2>3 DEF AnswersInv
  <2> QED
    BY <2>4, <2>5 DEF AnswersInv
<1>a. ASSUME \/ pc' \notin {"verify", "reverify"}
             \/ UNCHANGED <<cur, snap>> /\ pc \in {"verify", "reverify"},
             \A n \in Attempts : recon'[n] = recon[n] \/ recon'[n].status \notin Over
      PROVE  AnswersInv'
  <2>1. pc' \in {"verify", "reverify"} /\ snap'.status \in Over =>
           vState'[cur'] = snap'.status /\ snap'.trades = Filled(cur)'
    <3> SUFFICES ASSUME pc' \in {"verify", "reverify"}, snap'.status \in Over
                 PROVE  vState'[cur'] = snap'.status /\ snap'.trades = Filled(cur)'
      OBVIOUS
    <3>1. /\ cur' = cur /\ snap' = snap /\ cur \in Attempts
          /\ vState[cur] = snap.status /\ snap.trades = Filled(cur)
      BY <1>0, <1>a DEF TaskType, AnswersInv
    <3>2. vState'[cur] = vState[cur] /\ {t \in Trades : tOrder'[t] = cur} = Filled(cur)
      BY <1>1, <3>1 DEF Filled
    <3> QED
      BY <3>1, <3>2 DEF Filled
  <2>2. \A n \in Attempts : recon'[n].status \in Over =>
           vState'[n] = recon'[n].status /\ recon'[n].trades = Filled(n)'
    BY <1>1, <1>a DEF AnswersInv
  <2> QED
    BY <2>1, <2>2 DEF AnswersInv
<1>4. CASE TaskStep /\ ~TaskLookup
  <2>1. recon' = recon
    BY <1>4 DEF TaskStep, TaskStart, TaskLookupFails, TaskReplay, TaskVerify,
                TaskVerifyThenCancel, TaskMarkCancelPending, TaskCancel, TaskSize,
                TaskDeclines, TaskIntent, TaskSubmit, TaskAcknowledged, TaskAccept,
                TaskPostFails, TaskOutcomeUnknown, TaskTimeout
  <2>2. CASE TaskStart
    <3>1. [n \in Attempts |-> IF n \in Unresolved THEN orderState[n] ELSE "NONE"]
            \in [Attempts -> OrderStates]
      BY <1>0, TypeParts DEF LedgerType, OrderStates, TypeInv
    <3>2. pc' \notin {"verify", "reverify"}
      BY <2>2, <3>1, EmptySlots, AdvanceType DEF TaskStart
    <3> QED
      BY <1>a, <2>1, <3>2
  <2>3. CASE TaskVerify
    <3>1. seen \in [Attempts -> OrderStates] /\ cur \in 0..MaxAttempts
      BY <1>0 DEF TaskType
    <3>2. pc' \notin {"verify", "reverify"}
      BY <2>3, <3>1, AdvanceType, ReturnType DEF TaskVerify
    <3> QED
      BY <1>a, <2>1, <3>2
  <2>4. CASE ~TaskStart /\ ~TaskVerify
    <3>1. pc' \notin {"verify", "reverify"}
      BY <1>4, <2>4 DEF TaskStep, TaskLookupFails, TaskReplay, TaskVerifyThenCancel,
                TaskMarkCancelPending, TaskCancel, TaskSize, TaskDeclines, TaskIntent,
                TaskSubmit, TaskAcknowledged, TaskAccept, TaskPostFails,
                TaskOutcomeUnknown, TaskTimeout, Return
    <3> QED
      BY <1>a, <2>1, <3>1
  <2> QED
    BY <2>2, <2>3, <2>4
<1>5. CASE \/ VenueStep \/ ReconcileList \/ (\E n \in Attempts : ReconcileApply(n))
           \/ (\E t \in Trades, s \in TradeStatuses : TradeReported(t, s))
           \/ (\E n \in Attempts, s \in VenueStates : OrderReported(n, s))
           \/ RecoveryReady \/ RecoveryLost \/ UNCHANGED vars
  <2>1. UNCHANGED <<pc, cur, snap>>
    BY <1>5 DEF VenueStep, VenueTakesPost, VenueDropsPost, VenueCancels, VenueMatches,
                VenueSettles, ReconcileList, ReconcileApply, TradeReported, OrderReported,
                RecoveryReady, RecoveryLost, vars, task
  <2>2. \A n \in Attempts : recon'[n] = recon[n] \/ recon'[n].status \notin Over
    <3>1. CASE ReconcileList
      BY <3>1 DEF ReconcileList, NoAnswer, Over
    <3>2. ASSUME NEW n \in Attempts, ReconcileApply(n)
          PROVE  \A m \in Attempts : recon'[m] = recon[m] \/ recon'[m].status \notin Over
      BY <1>0, <3>2 DEF ReconcileApply, ReconType, NoAnswer, Over
    <3>3. CASE \/ VenueStep
               \/ (\E t \in Trades, s \in TradeStatuses : TradeReported(t, s))
               \/ (\E n \in Attempts, s \in VenueStates : OrderReported(n, s))
               \/ RecoveryReady \/ RecoveryLost \/ UNCHANGED vars
      BY <3>3 DEF VenueStep, VenueTakesPost, VenueDropsPost, VenueCancels, VenueMatches,
                  VenueSettles, TradeReported, OrderReported, RecoveryReady, RecoveryLost,
                  vars
    <3> QED
      BY <1>5, <3>1, <3>2, <3>3
  <2> QED
    BY <1>a, <2>1, <2>2
<1>6. CASE Crash
  BY <1>6, <1>a DEF Crash, Return, NoAnswer, Over
<1> QED
  BY <1>2, <1>3, <1>4, <1>5, <1>6 DEF Next, ReportStep

\* Releasing an order takes an answer that it is over, with every fill it
\* counts in the ledger.
LEMMA ReleaseStep ==
    ASSUME FactInv, AnswersInv, ReleaseInv, [Next]_vars
    PROVE  ReleaseInv'
<1>0. TypeInv /\ LedgerType /\ ReconType /\ TaskType
  BY TypeParts DEF FactInv, TypeInv
<1>1. ASSUME NEW n \in Attempts, NEW a \in Answers, Held(n, a), Evidence(n, a)
      PROVE  Final(n)
  <2>1. a.status \in Over
    BY <1>1 DEF Evidence, TerminalOrders, Answers, VenueStates, Over
  <2>2. vState[n] = a.status /\ a.trades = Filled(n)
    BY <1>1, <2>1 DEF Held, AnswersInv
  <2> QED
    BY <1>1, <2>1, <2>2 DEF Final, Evidence, Recorded
<1>2. \A n \in Attempts : verified'[n] => verified[n] \/ Final(n)
  <2>1. CASE LedgerEffect
    BY <1>1, <2>1 DEF LedgerEffect
  <2>2. CASE IntentStep
    BY <1>0, <2>2 DEF IntentStep, CreateHedgeOrderIntent, LedgerType
  <2> QED
    BY <2>1, <2>2, StepEffect DEF FactInv
<1>3. \A n \in Attempts : verified'[n] => Final(n)
  BY <1>2 DEF ReleaseInv
<1> QED
  BY <1>3, OverStays DEF ReleaseInv

\* An order is stored only when no earlier one can trade.
LEMMA IntentAlone ==
    ASSUME FactInv, ReleaseInv, IntentStep
    PROVE  \A n \in Attempts : Exists(n) => Final(n) /\ ~CanTrade(n)
<1>1. \A n \in Attempts : Exists(n) => verified[n]
  BY DEF IntentStep, IntentAllowed, Unresolved, OrderResolved
<1> QED
  BY <1>1 DEF ReleaseInv, Final, Over, CanTrade

\* An order that can trade after a step could before it...
LEMMA QuietTrades ==
    ASSUME FactInv, LedgerEffect, [Next]_vars
    PROVE  \A n \in Attempts : CanTrade(n)' => CanTrade(n) /\ quantity'[n] = quantity[n]
BY OverStays DEF LedgerEffect, CanTrade, Exists

\* ...or is the one that has just been stored.
LEMMA IntentTrades ==
    ASSUME FactInv, ReleaseInv, IntentStep, [Next]_vars
    PROVE  \A n \in Attempts :
              CanTrade(n)' => n = obligation.reprices + 1 /\ quantity'[n] = shares
<1> DEFINE k == obligation.reprices + 1
<1>0. LedgerType
  BY TypeParts DEF FactInv, TypeInv
<1>1. /\ k \in Attempts
      /\ orderState' = [orderState EXCEPT ![k] = "INTENT"]
      /\ quantity' = [quantity EXCEPT ![k] = shares]
  BY DEF IntentStep, IntentAllowed, CreateHedgeOrderIntent
<1>2. /\ \A n \in Attempts : orderState'[n] # "NONE" => Exists(n) \/ n = k
      /\ quantity'[k] = shares
  BY <1>0, <1>1 DEF LedgerType, Exists
<1> HIDE DEF k
<1>3. \A n \in Attempts : CanTrade(n)' => CanTrade(n) \/ n = k
  BY <1>2, OverStays DEF CanTrade, Exists
<1>4. \A n \in Attempts : ~CanTrade(n)
  BY IntentAlone DEF CanTrade
<1> QED
  BY <1>2, <1>3, <1>4 DEF k

LEMMA OneOrderStep ==
    ASSUME FactInv, ReleaseInv, OneOrderCanTrade, [Next]_vars
    PROVE  OneOrderCanTrade'
<1>1. CASE LedgerEffect
  BY <1>1, QuietTrades DEF OneOrderCanTrade
<1>2. CASE IntentStep
  BY <1>2, IntentTrades DEF OneOrderCanTrade
<1> QED
  BY <1>1, <1>2, StepEffect DEF FactInv

Others(n) == {t \in Acquired : tOrder[t] # n}

LEMMA AcquiredFinite ==
    /\ Cardinality(Acquired) \in Nat
    /\ \A n : Cardinality(Others(n)) \in Nat
BY TradesFinite DEF Acquired, Others

\* A step that neither buys nor stores keeps the budget.
LEMMA BudgetKept ==
    ASSUME TypeInv, TypeInv', NoOverHedge, Acquired' \subseteq Acquired,
           UNCHANGED tOrder,
           \A n \in Attempts : CanTrade(n)' => CanTrade(n) /\ quantity'[n] = quantity[n]
    PROVE  NoOverHedge'
<1>0. /\ Cardinality(Acquired) \in Nat /\ Cardinality(Acquired') \in Nat
      /\ \A n \in Attempts : Cardinality(Others(n)) \in Nat /\ Cardinality(Others(n)') \in Nat
      /\ \A n \in Attempts : quantity[n] \in Nat
      /\ Due \in Nat
  BY AcquiredFinite, TradesFinite, TypeParts, EmptySlots
     DEF TypeInv, LedgerType, Acquired, Others
<1>1. Cardinality(Acquired') <= Cardinality(Acquired)
  BY CardMonotone DEF Acquired
<1>2. \A n \in Attempts : Cardinality(Others(n)') <= Cardinality(Others(n))
  <2> SUFFICES ASSUME NEW n \in Attempts
               PROVE  Cardinality(Others(n)') <= Cardinality(Others(n))
    OBVIOUS
  <2>1. Others(n)' \subseteq Others(n) /\ Others(n) \subseteq Trades
    BY DEF Others, Acquired
  <2> QED
    BY <2>1, CardMonotone
<1>3. Cardinality(Acquired') <= Due
  BY <1>0, <1>1 DEF NoOverHedge
<1>4. \A n \in Attempts : CanTrade(n)' => Cardinality(Others(n)') + quantity'[n] <= Due
  <2> SUFFICES ASSUME NEW n \in Attempts, CanTrade(n)'
               PROVE  Cardinality(Others(n)') + quantity'[n] <= Due
    OBVIOUS
  <2>1. CanTrade(n) /\ quantity'[n] = quantity[n]
    OBVIOUS
  <2>2. Cardinality(Others(n)) + quantity[n] <= Due
    BY <2>1 DEF NoOverHedge, Others
  <2> QED
    BY <1>0, <1>2, <2>1, <2>2
<1> QED
  BY <1>3, <1>4 DEF NoOverHedge, Others

\* All that was bought is in the ledger when no order can trade.
LEMMA AllRecorded ==
    ASSUME FactInv, ReleaseInv, IntentStep
    PROVE  Cardinality(Acquired)
             <= Cardinality(Confirmed(execStatus)) + Cardinality(Pending(execStatus))
<1>0. VenueType /\ LedgerType
  BY TypeParts DEF FactInv, TypeInv
<1>1. Acquired \subseteq Confirmed(execStatus) \cup Pending(execStatus)
  <2> SUFFICES ASSUME NEW t \in Acquired
               PROVE  t \in Confirmed(execStatus) \cup Pending(execStatus)
    OBVIOUS
  <2>1. t \in Trades /\ tOrder[t] \in Attempts /\ "FAILED" \notin vHist[t]
    BY <1>0, EmptySlots DEF Acquired, VenueType, Attempts
  <2>2. Final(tOrder[t])
    <3>1. tOrder[t] # 0 /\ vState[tOrder[t]] # "ABSENT"
      BY <2>1 DEF Acquired, FactInv, VenueInv
    <3> QED
      BY <2>1, <3>1, IntentAlone DEF FactInv, StoredInv
  <2>3. execStatus[t] # "NONE" /\ execStatus[t] # "FAILED"
    BY <2>1, <2>2 DEF Final, Filled, FactInv, ReportInv
  <2> QED
    BY <2>1, <2>3 DEF Confirmed, Pending
<1>2. /\ Confirmed(execStatus) \subseteq Trades /\ Pending(execStatus) \subseteq Trades
      /\ Acquired \subseteq Trades
  BY DEF Confirmed, Pending, Acquired
<1>3. Cardinality(Acquired) <= Cardinality(Confirmed(execStatus) \cup Pending(execStatus))
  BY <1>1, <1>2, CardMonotone
<1>4. Cardinality(Confirmed(execStatus) \cup Pending(execStatus))
        <= Cardinality(Confirmed(execStatus)) + Cardinality(Pending(execStatus))
  BY <1>2, CardUnion
<1>5. Cardinality(Confirmed(execStatus) \cup Pending(execStatus)) \in Nat
  BY <1>2, TradesFinite
<1> QED
  BY <1>3, <1>4, <1>5, AcquiredFinite, CountTypes

LEMMA BudgetStep ==
    ASSUME SafeInv, [Next]_vars
    PROVE  NoOverHedge'
<1>0. /\ FactInv /\ FactInv' /\ TypeInv /\ TypeInv' /\ ReleaseInv
      /\ VenueType /\ LedgerType /\ TaskType
  BY FactStep, TypeParts DEF SafeInv, FactInv, TypeInv
<1>1. NoOverHedge /\ OneOrderCanTrade
  BY DEF SafeInv
<1>2. CASE IntentStep
  <2> DEFINE k == obligation.reprices + 1
  <2>1. /\ k \in Attempts /\ IntentAllowed(k, shares) /\ shares \in Nat
        /\ UNCHANGED <<vState, tOrder, vHist>>
    BY <1>0, <1>2, EmptySlots DEF IntentStep, IntentAllowed, TaskType, venue
  <2>2. Cardinality(Confirmed(execStatus)) + Cardinality(Pending(execStatus)) + shares <= Due
    BY <1>0, <2>1, IntentFits
  <2>3. \A n \in Attempts : CanTrade(n)' => n = k /\ quantity'[n] = shares
    BY <1>0, <1>2, IntentTrades
  <2> HIDE DEF k
  <2>4. Cardinality(Acquired) + shares <= Due
    BY <1>0, <1>2, <2>1, <2>2, AllRecorded, AcquiredFinite, CountTypes, EmptySlots
  <2>5. Acquired' = Acquired /\ \A n : Others(n)' = Others(n)
    BY <2>1 DEF Acquired, Others
  <2>6. \A n : Cardinality(Others(n)) <= Cardinality(Acquired)
    BY CardMonotone DEF Others, Acquired
  <2>7. \A n \in Attempts : CanTrade(n)' => Cardinality(Others(n)') + quantity'[n] <= Due
    BY <2>1, <2>3, <2>4, <2>5, <2>6, AcquiredFinite, EmptySlots
  <2>8. Cardinality(Acquired') <= Due
    BY <1>1, <2>5 DEF NoOverHedge
  <2> QED
    BY <2>7, <2>8 DEF NoOverHedge, Others
<1>3. CASE LedgerEffect
  <2>1. \A n \in Attempts : CanTrade(n)' => CanTrade(n) /\ quantity'[n] = quantity[n]
    BY <1>0, <1>3, QuietTrades
  <2>2. CASE UNCHANGED <<tOrder, vHist>>
    BY <1>0, <1>1, <2>1, <2>2, BudgetKept DEF Acquired
  <2>3. ASSUME NEW n \in Attempts, NEW t \in Trades, VenueMatches(n, t) PROVE NoOverHedge'
    <3>1. /\ vState[n] = "LIVE" /\ tOrder[t] = 0 /\ n # 0
          /\ tOrder' = [tOrder EXCEPT ![t] = n]
          /\ vHist' = [vHist EXCEPT ![t] = {"MATCHED"}]
          /\ quantity' = quantity
      BY <2>3, EmptySlots DEF VenueMatches, Attempts, ledger
    <3>2. CanTrade(n)
      BY <1>0, <3>1 DEF CanTrade, FactInv, StoredInv
    <3>3. \A m \in Attempts : CanTrade(m)' => m = n
      BY <1>1, <2>1, <3>2 DEF OneOrderCanTrade
    <3>4. Others(n)' = Others(n)
      BY <1>0, <3>1 DEF Others, Acquired, VenueType
    <3>5. Acquired' \subseteq Others(n) \cup Filled(n)'
      BY <1>0, <3>1 DEF Acquired, Others, Filled, VenueType
    <3>6. /\ Cardinality(Others(n)) + quantity[n] <= Due
          /\ Cardinality(Filled(n)') <= quantity[n]
          /\ quantity[n] \in Nat
      BY <1>0, <1>1, <3>1, <3>2, EmptySlots DEF NoOverHedge, Others, FactInv, VenueInv, LedgerType
    <3>7. Cardinality(Acquired') <= Due
      <4>1. Others(n) \subseteq Trades /\ Filled(n)' \subseteq Trades
        BY DEF Others, Acquired, Filled
      <4>2. /\ Cardinality(Acquired') <= Cardinality(Others(n) \cup Filled(n)')
            /\ Cardinality(Others(n) \cup Filled(n)')
                  <= Cardinality(Others(n)) + Cardinality(Filled(n)')
        BY <3>5, <4>1, CardMonotone, CardUnion
      <4>3. /\ Cardinality(Acquired') \in Nat /\ Cardinality(Others(n)) \in Nat
            /\ Cardinality(Filled(n)') \in Nat
            /\ Cardinality(Others(n) \cup Filled(n)') \in Nat
        BY <3>5, <4>1, TradesFinite
      <4> QED
        BY <3>6, <4>2, <4>3, EmptySlots
    <3>8. \A m \in Attempts : CanTrade(m)' => Cardinality(Others(m)') + quantity'[m] <= Due
      BY <3>1, <3>3, <3>4, <3>6
    <3> QED
      BY <3>7, <3>8 DEF NoOverHedge, Others
  <2>4. ASSUME NEW t \in Trades, NEW s \in TradeStatuses, VenueSettles(t, s) PROVE NoOverHedge'
    <3>1. Acquired' \subseteq Acquired /\ UNCHANGED tOrder
      BY <1>0, <2>4 DEF VenueSettles, Acquired, VenueType
    <3> QED
      BY <1>0, <1>1, <2>1, <3>1, BudgetKept
  <2> QED
    BY <1>0, <2>2, <2>3, <2>4, StepVenue DEF VenueEffect
<1> QED
  BY <1>0, <1>2, <1>3, StepEffect DEF FactInv

LEMMA SafeInit == Init => SafeInv
<1> SUFFICES ASSUME Init PROVE SafeInv
  OBVIOUS
<1>1. FactInv
  BY FactInit
<1>2. AnswersInv /\ ReleaseInv
  BY DEF Init, AnswersInv, ReleaseInv, NoAnswer, Over
<1>3. \A n \in Attempts : ~CanTrade(n)
  BY DEF Init, CanTrade, Exists
<1>4. Acquired = {}
  BY DEF Init, Acquired
<1>5. Cardinality(Acquired) <= Due
  BY <1>4, FS_EmptySet, EmptySlots
<1> QED
  BY <1>1, <1>2, <1>3, <1>5 DEF SafeInv, OneOrderCanTrade, NoOverHedge

LEMMA SafeStep ==
    ASSUME ~Lagging, SafeInv, [Next]_vars
    PROVE  SafeInv'
BY FactStep, AnswersStep, ReleaseStep, OneOrderStep, BudgetStep DEF SafeInv

LEMMA SafeInvariant ==
    ASSUME ~Lagging
    PROVE  Spec => []SafeInv
<1>1. SafeInv /\ [Next]_vars => SafeInv'
  BY SafeStep
<1> QED
  BY <1>1, SafeInit, PTL DEF Spec

\* When the answers to order queries count every fill, no order is released
\* before it is over at the venue and all its fills are in the ledger.
THEOREM ReleasesAreFinal ==
    ASSUME ~Lagging
    PROVE  Spec => []ReleasedOnlyWhenFinal
<1>1. SafeInv => ReleasedOnlyWhenFinal
  BY DEF SafeInv, ReleaseInv, ReleasedOnlyWhenFinal, OrderResolved, Final, Over
<1> QED
  BY <1>1, SafeInvariant, PTL

\* Under the same condition at most one order of the obligation can trade.
THEOREM OneOrderTrades ==
    ASSUME ~Lagging
    PROVE  Spec => []OneOrderCanTrade
<1>1. SafeInv => OneOrderCanTrade
  BY DEF SafeInv
<1> QED
  BY <1>1, SafeInvariant, PTL

\* Under the same condition the venue never fills more than is owed, through
\* any number of orders, crashes, lost and repeated POSTs and late reports,
\* and would not if every order that can trade were filled.
THEOREM NeverOverHedged ==
    ASSUME ~Lagging
    PROVE  Spec => []NoOverHedge
<1>1. SafeInv => NoOverHedge
  BY DEF SafeInv
<1> QED
  BY <1>1, SafeInvariant, PTL

-----------------------------------------------------------------------------
(* What HEDGED means *)

\* The venue does not settle a trade both ways.
ClashInv == \A t \in Trades : ~({"CONFIRMED", "FAILED"} \subseteq vHist[t])

\* The state HEDGED is the one last computed from the rows.
HedgedInv ==
    obligation.state = "HEDGED" =>
        /\ Cardinality(Confirmed(execStatus)) = Due
        /\ \A n \in Attempts : Exists(n) => OrderResolved(n)

LEMMA ClashStep ==
    ASSUME ~Contradictions, FactInv, ClashInv, [Next]_vars
    PROVE  ClashInv'
<1>0. VenueType /\ TypeInv
  BY TypeParts DEF FactInv, TypeInv
<1>1. CASE UNCHANGED vHist
  BY <1>1 DEF ClashInv
<1>2. ASSUME NEW n \in Attempts, NEW t \in Trades, VenueMatches(n, t) PROVE ClashInv'
  BY <1>0, <1>2 DEF VenueMatches, ClashInv, VenueType
<1>3. ASSUME NEW t \in Trades, NEW s \in TradeStatuses, VenueSettles(t, s) PROVE ClashInv'
  BY <1>0, <1>3 DEF VenueSettles, ClashInv, VenueType
<1> QED
  BY <1>0, <1>1, <1>2, <1>3, StepVenue DEF VenueEffect

LEMMA RecomputedHedged ==
    ASSUME NEW os, NEW ver, NEW ex, Recomputed(os, ver, ex).state = "HEDGED"
    PROVE  /\ Cardinality(Confirmed(ex)) = Due
           /\ \A n \in Attempts : os[n] # "NONE" => os[n] \in TerminalOrders /\ ver[n]
<1> DEFINE c == Cardinality(Confirmed(ex))
           p == Cardinality(Pending(ex))
           excess == Minus(c + p, Due)
           resolved == \A n \in Attempts : os[n] # "NONE" => os[n] \in TerminalOrders /\ ver[n]
<1>1. c \in Nat /\ p \in Nat /\ Due \in Nat
  BY CountTypes, EmptySlots
<1>2. Recomputed(os, ver, ex).state = IF excess > 0 THEN "EXCESS"
                                      ELSE IF ~resolved THEN "ORDER_UNRESOLVED"
                                      ELSE IF c >= Due THEN "HEDGED"
                                      ELSE IF p > 0 THEN "SETTLEMENT_PENDING"
                                      ELSE "PENDING"
  BY DEF Recomputed
<1> HIDE DEF c, p
<1>3. excess = 0 => c + p <= Due
  BY <1>1 DEF Minus
<1>4. excess \in Nat
  BY <1>1 DEF Minus
<1> HIDE DEF excess, resolved
<1>5. ~(excess > 0) /\ resolved /\ c >= Due
  BY <1>2
<1>6. c = Due
  BY <1>1, <1>3, <1>4, <1>5
<1> QED
  BY <1>5, <1>6 DEF c, resolved

LEMMA HedgedStep ==
    ASSUME FactInv, HedgedInv, [Next]_vars
    PROVE  HedgedInv'
<1>0. LedgerType
  BY TypeParts DEF FactInv, TypeInv
<1>1. CASE UNCHANGED ledger
  BY <1>1 DEF ledger, HedgedInv, Confirmed, Exists, OrderResolved
<1>2. CASE RefreshStep
  <2>1. PICK os, ver, vm, ex : RefreshHedge(os, ver, vm, ex)
    BY <1>2 DEF RefreshStep
  <2>2. /\ obligation' = Recomputed(os, verified', ex)
        /\ orderState' = os /\ execStatus' = ex
    BY <2>1, RefreshRows
  <2>3. obligation'.state = "HEDGED" =>
           /\ Cardinality(Confirmed(ex)) = Due
           /\ \A n \in Attempts : os[n] # "NONE" => os[n] \in TerminalOrders /\ verified'[n]
    BY <2>2, RecomputedHedged
  <2> QED
    BY <2>2, <2>3 DEF HedgedInv, Exists, OrderResolved, Confirmed
<1>3. CASE MarkStep
  <2>1. PICK k \in Attempts, s \in Submitting : SetHedgeSubmissionState(k, s)
    BY <1>3 DEF MarkStep
  <2>2. \A n \in Attempts :
           /\ orderState'[n] # "NONE" => orderState[n] # "NONE"
           /\ orderState[n] \in TerminalOrders => orderState'[n] = orderState[n]
    BY <1>0, <2>1 DEF SetHedgeSubmissionState, LedgerType, Submitting, TerminalOrders
  <2> QED
    BY <2>1, <2>2 DEF SetHedgeSubmissionState, HedgedInv, Exists, OrderResolved, Confirmed
<1>4. CASE IntentStep
  <2>1. obligation'.state = "ORDER_INTENT"
    BY <1>0, <1>4 DEF IntentStep, CreateHedgeOrderIntent, LedgerType
  <2> QED
    BY <2>1 DEF HedgedInv
<1> QED
  BY <1>1, <1>2, <1>3, <1>4, StepEffect DEF LedgerEffect, FactInv

\* When answers count every fill and the venue settles a trade one way only, an
\* obligation shown as HEDGED holds exactly what it owes, settled at the
\* venue, and no order that could add to it.
THEOREM HedgedMeansSettled ==
    ASSUME ~Lagging, ~Contradictions
    PROVE  Spec => []HedgedIsSettled
<1>1. Init => ClashInv /\ HedgedInv
  BY DEF Init, ClashInv, HedgedInv
<1>2. FactInv /\ ClashInv /\ HedgedInv /\ [Next]_vars => (ClashInv /\ HedgedInv)'
  BY ClashStep, HedgedStep
<1>3. SafeInv /\ ClashInv /\ HedgedInv => HedgedIsSettled
  <2> SUFFICES ASSUME SafeInv, ClashInv, HedgedInv, obligation.state = "HEDGED"
               PROVE  /\ Cardinality({t \in Acquired : "CONFIRMED" \in vHist[t]}) = Due
                      /\ \A n \in Attempts : ~CanTrade(n)
    BY DEF HedgedIsSettled
  <2> DEFINE settled == {t \in Acquired : "CONFIRMED" \in vHist[t]}
  <2>1. Confirmed(execStatus) \subseteq settled
    BY DEF Confirmed, Acquired, SafeInv, FactInv, ReportInv, ClashInv
  <2>2. settled \subseteq Acquired /\ Acquired \subseteq Trades
    BY DEF Acquired
  <2>3. /\ Cardinality(Confirmed(execStatus)) = Due
        /\ Cardinality(Acquired) <= Due
    BY DEF HedgedInv, SafeInv, NoOverHedge
  <2> HIDE DEF settled
  <2>4. /\ Cardinality(Confirmed(execStatus)) <= Cardinality(settled)
        /\ Cardinality(settled) <= Cardinality(Acquired)
        /\ Cardinality(settled) \in Nat
    BY <2>1, <2>2, CardMonotone, TradesFinite
  <2>5. Cardinality(settled) = Due
    BY <2>3, <2>4, AcquiredFinite, EmptySlots
  <2>6. \A n \in Attempts : ~CanTrade(n)
    BY DEF HedgedInv, OrderResolved, SafeInv, ReleaseInv, Final, Over, CanTrade
  <2> QED
    BY <2>5, <2>6 DEF settled
<1>4. SafeInv => FactInv
  BY DEF SafeInv
<1> QED
  BY <1>1, <1>2, <1>3, <1>4, SafeInvariant, PTL DEF Spec
=============================================================================
