------------------------- MODULE HedgeLedgerProofs -------------------------
(***************************************************************************)
(* Proofs about HedgeLedger for every value of its constants.              *)
(***************************************************************************)
EXTENDS HedgeLedger, FiniteSetTheorems, TLAPS

LedgerType ==
    /\ orderState \in [Attempts -> OrderStates]
    /\ quantity \in [Attempts -> 0..Due]
    /\ verified \in [Attempts -> BOOLEAN]
    /\ venueMatched \in [Attempts -> Nat]
    /\ execStatus \in [Trades -> TradeStatuses \cup {"NONE", "CONFLICT"}]
    /\ obligation \in [confirmed : 0..Due, pending : Nat, excess : Nat,
                       state : {"EXCESS", "ORDER_UNRESOLVED", "HEDGED", "SETTLEMENT_PENDING",
                                "PENDING", "ORDER_INTENT"},
                       reprices : 0..MaxAttempts]

TaskType ==
    /\ pc \in {"idle", "lookup", "verify", "cancel", "cancelCall", "reread", "reverify",
               "size", "intent", "submit", "wait", "accept", "unknown"}
    /\ cur \in 0..MaxAttempts
    /\ pc \notin {"idle", "size", "intent"} => cur \in Attempts
    /\ seen \in [Attempts -> OrderStates]
    /\ snap \in Answers
    /\ shares \in 0..Due
    /\ faults \in 0..MaxFaults

VenueType ==
    /\ vState \in [Attempts -> VenueStates]
    /\ tOrder \in [Trades -> 0..MaxAttempts]
    /\ vHist \in [Trades -> SUBSET TradeStatuses]
    /\ posts \subseteq Attempts

ReconType == recon \in [Attempts -> Answers] /\ ready \in BOOLEAN

VenueAnswers == VenueStates \ {"ABSENT"}

\* The statuses of the answers held are those of a venue order.
AnswersReal ==
    /\ pc \in {"verify", "reverify"} => snap.status \in VenueAnswers
    /\ pc = "accept" => snap.status \in {"LIVE", "MATCHED"}
    /\ \A n \in Attempts : recon[n] # NoAnswer => recon[n].status # "NONE"

LEMMA TypeParts == TypeOK <=> LedgerType /\ TaskType /\ VenueType /\ ReconType
BY DEF TypeOK, LedgerType, TaskType, VenueType, ReconType

-----------------------------------------------------------------------------
(* Finite sets of trades, and the arithmetic of the ledger. *)

LEMMA TradesFinite ==
    ASSUME NEW S \in SUBSET Trades
    PROVE  IsFiniteSet(S) /\ Cardinality(S) \in Nat
BY FS_Subset, FS_CardinalityType, ConstantsAssumption DEF ConstantsAssumption

LEMMA CardMonotone ==
    ASSUME NEW S \in SUBSET Trades, NEW T \in SUBSET S
    PROVE  Cardinality(T) <= Cardinality(S)
BY TradesFinite, FS_Subset

LEMMA CardUnion ==
    ASSUME NEW S \in SUBSET Trades, NEW T \in SUBSET Trades
    PROVE  Cardinality(S \cup T) <= Cardinality(S) + Cardinality(T)
<1>1. Cardinality(S \cup T) = Cardinality(S) + Cardinality(T) - Cardinality(S \cap T)
  BY TradesFinite, FS_Union
<1>2. /\ Cardinality(S) \in Nat /\ Cardinality(T) \in Nat
      /\ Cardinality(S \cap T) \in Nat
  BY TradesFinite
<1> QED
  BY <1>1, <1>2

LEMMA CountTypes ==
    ASSUME NEW ex
    PROVE  /\ Cardinality(Confirmed(ex)) \in Nat
           /\ Cardinality(Pending(ex)) \in Nat
           /\ \A n : Cardinality(Recorded(n, ex)) \in Nat
BY TradesFinite DEF Confirmed, Pending, Recorded, Filled

LEMMA LeastMinus ==
    ASSUME NEW a \in Nat, NEW b \in Nat
    PROVE  /\ Least(a, b) \in 0..b
           /\ Minus(a, b) \in 0..a
BY DEF Least, Minus

LEMMA AnswersOfType ==
    ASSUME VenueType, NEW n \in Attempts, vState[n] # "ABSENT", NEW a \in AnswersOf(n)
    PROVE  /\ a \in Answers
           /\ a.status \in VenueAnswers
           /\ a.status = vState[n]
           /\ ~Lagging => a.trades = Filled(n)
BY DEF AnswersOf, Answers, VenueAnswers, VenueType, Filled

-----------------------------------------------------------------------------
(* Types *)

LEMMA RecomputedType ==
    ASSUME LedgerType, NEW os, NEW ver, NEW ex
    PROVE  /\ Recomputed(os, ver, ex) \in
                [confirmed : 0..Due, pending : Nat, excess : Nat,
                 state : {"EXCESS", "ORDER_UNRESOLVED", "HEDGED", "SETTLEMENT_PENDING",
                          "PENDING", "ORDER_INTENT"},
                 reprices : 0..MaxAttempts]
<1> DEFINE confirmed == Cardinality(Confirmed(ex))
           pending == Cardinality(Pending(ex))
<1>1. confirmed \in Nat /\ pending \in Nat /\ Due \in Nat
  BY CountTypes, ConstantsAssumption DEF ConstantsAssumption
<1> HIDE DEF confirmed, pending
<1>2. Least(confirmed, Due) \in 0..Due /\ Minus(confirmed + pending, Due) \in Nat
  BY <1>1 DEF Least, Minus
<1>3. obligation.reprices \in 0..MaxAttempts
  BY DEF LedgerType
<1> QED
  BY <1>1, <1>2, <1>3 DEF Recomputed, confirmed, pending

LEMMA RefreshType ==
    ASSUME LedgerType,
           NEW os \in [Attempts -> OrderStates], NEW ver \in [Attempts -> BOOLEAN],
           NEW vm \in [Attempts -> Nat],
           NEW ex \in [Trades -> TradeStatuses \cup {"NONE", "CONFLICT"}],
           RefreshHedge(os, ver, vm, ex)
    PROVE  LedgerType'
<1>1. obligation' \in [confirmed : 0..Due, pending : Nat, excess : Nat,
                 state : {"EXCESS", "ORDER_UNRESOLVED", "HEDGED", "SETTLEMENT_PENDING",
                          "PENDING", "ORDER_INTENT"},
                 reprices : 0..MaxAttempts]
  BY RecomputedType DEF RefreshHedge
<1>2. verified' \in [Attempts -> BOOLEAN]
  BY DEF RefreshHedge, Outrun
<1> QED
  BY <1>1, <1>2 DEF RefreshHedge, LedgerType

LEMMA UpdateType ==
    ASSUME LedgerType, NEW n \in Attempts, NEW s \in OrderStates, UpdateOrderStatus(n, s)
    PROVE  LedgerType'
<1>1. CASE ~Exists(n) \/ OrderResolved(n)
  BY <1>1 DEF UpdateOrderStatus, ledger, LedgerType
<1>2. CASE ~(~Exists(n) \/ OrderResolved(n))
  <2>1. /\ [orderState EXCEPT ![n] = s] \in [Attempts -> OrderStates]
        /\ [verified EXCEPT ![n] = FALSE] \in [Attempts -> BOOLEAN]
        /\ venueMatched \in [Attempts -> Nat]
        /\ execStatus \in [Trades -> TradeStatuses \cup {"NONE", "CONFLICT"}]
    BY DEF LedgerType
  <2>2. RefreshHedge([orderState EXCEPT ![n] = s], [verified EXCEPT ![n] = FALSE],
                     venueMatched, execStatus)
    BY <1>2 DEF UpdateOrderStatus
  <2> QED
    BY <2>1, <2>2, RefreshType
<1> QED
  BY <1>1, <1>2

LEMMA VerifyType ==
    ASSUME LedgerType, NEW n \in Attempts, NEW a \in Answers, a.status \in OrderStates,
           VerifyOrder(n, a)
    PROVE  LedgerType'
<1>1. CASE TakenAsStale(n, a)
  BY <1>1 DEF VerifyOrder, ledger, LedgerType
<1>2. CASE ~TakenAsStale(n, a)
  <2>1. Cardinality(a.trades) \in Nat
    BY TradesFinite DEF Answers
  <2>2. Evidence(n, a) \in BOOLEAN
    BY DEF Evidence
  <2>3. /\ [orderState EXCEPT ![n] = a.status] \in [Attempts -> OrderStates]
        /\ [verified EXCEPT ![n] = Evidence(n, a)] \in [Attempts -> BOOLEAN]
        /\ [venueMatched EXCEPT ![n] = Cardinality(a.trades)] \in [Attempts -> Nat]
        /\ execStatus \in [Trades -> TradeStatuses \cup {"NONE", "CONFLICT"}]
    BY <2>1, <2>2 DEF LedgerType
  <2>4. RefreshHedge([orderState EXCEPT ![n] = a.status],
                     [verified EXCEPT ![n] = Evidence(n, a)],
                     [venueMatched EXCEPT ![n] = Cardinality(a.trades)], execStatus)
    BY <1>2 DEF VerifyOrder
  <2> QED
    BY <2>3, <2>4, RefreshType
<1> QED
  BY <1>1, <1>2

LEMMA AcceptType ==
    ASSUME LedgerType, NEW n \in Attempts, NEW s \in {"LIVE", "MATCHED"},
           AcceptHedgeOrder(n, s)
    PROVE  LedgerType'
<1> DEFINE os == [orderState EXCEPT ![n] = IF OrderResolved(n) THEN @ ELSE s]
<1>1. /\ os \in [Attempts -> OrderStates]
      /\ verified \in [Attempts -> BOOLEAN]
      /\ venueMatched \in [Attempts -> Nat]
      /\ execStatus \in [Trades -> TradeStatuses \cup {"NONE", "CONFLICT"}]
  BY DEF LedgerType, OrderStates, TerminalOrders
<1>2. RefreshHedge(os, verified, venueMatched, execStatus)
  BY DEF AcceptHedgeOrder
<1> HIDE DEF os
<1> QED
  BY <1>1, <1>2, RefreshType

LEMMA RecordType ==
    ASSUME LedgerType, NEW t \in Trades, NEW s \in TradeStatuses, RecordExecution(t, s)
    PROVE  LedgerType'
<1>1. CASE MergedStatus(execStatus[t], s) = execStatus[t]
  BY <1>1 DEF RecordExecution, ledger, LedgerType
<1>2. CASE MergedStatus(execStatus[t], s) # execStatus[t]
  <2> DEFINE merged == MergedStatus(execStatus[t], s)
  <2>1. merged \in TradeStatuses \cup {"NONE", "CONFLICT"}
    BY DEF MergedStatus, LedgerType
  <2>2. RefreshHedge(orderState, verified, venueMatched, [execStatus EXCEPT ![t] = merged])
    BY <1>2 DEF RecordExecution
  <2> HIDE DEF merged
  <2>3. [execStatus EXCEPT ![t] = merged] \in [Trades -> TradeStatuses \cup {"NONE", "CONFLICT"}]
    BY <2>1 DEF LedgerType
  <2> QED
    BY <2>2, <2>3, RefreshType DEF LedgerType
<1> QED
  BY <1>1, <1>2

LEMMA SubmissionType ==
    ASSUME LedgerType, NEW n \in Attempts, NEW s \in Submitting, SetHedgeSubmissionState(n, s)
    PROVE  LedgerType'
BY DEF SetHedgeSubmissionState, LedgerType, OrderStates

LEMMA IntentType ==
    ASSUME LedgerType, NEW n \in Attempts, NEW q \in 0..Due, CreateHedgeOrderIntent(n, q)
    PROVE  LedgerType'
<1>1. n \in 0..MaxAttempts
  BY ConstantsAssumption DEF Attempts, ConstantsAssumption
<1>2. obligation' \in [confirmed : 0..Due, pending : Nat, excess : Nat,
                       state : {"EXCESS", "ORDER_UNRESOLVED", "HEDGED", "SETTLEMENT_PENDING",
                                "PENDING", "ORDER_INTENT"},
                       reprices : 0..MaxAttempts]
  <2>1. obligation' = [[obligation EXCEPT !.state = "ORDER_INTENT"] EXCEPT !.reprices = n]
    BY DEF CreateHedgeOrderIntent
  <2> QED
    BY <1>1, <2>1 DEF LedgerType
<1>3. /\ orderState' \in [Attempts -> OrderStates] /\ quantity' \in [Attempts -> 0..Due]
      /\ verified' \in [Attempts -> BOOLEAN] /\ venueMatched' \in [Attempts -> Nat]
      /\ execStatus' \in [Trades -> TradeStatuses \cup {"NONE", "CONFLICT"}]
  BY DEF CreateHedgeOrderIntent, LedgerType, OrderStates, Submitting
<1> QED
  BY <1>2, <1>3 DEF LedgerType

-----------------------------------------------------------------------------
(* Steps of the task *)

LEMMA EmptySlots ==
    /\ NoAnswer \in Answers
    /\ NothingSeen \in [Attempts -> OrderStates]
    /\ \A n \in Attempts : NothingSeen[n] = "NONE"
    /\ Due \in Nat /\ MaxAttempts \in Nat /\ MaxFaults \in Nat
    /\ Attempts \subseteq Nat
BY ConstantsAssumption
   DEF NoAnswer, Answers, NothingSeen, OrderStates, Attempts, ConstantsAssumption

\* What the loop over the listed orders leaves in the task's locals.
LEMMA AdvanceType ==
    ASSUME NEW sn \in [Attempts -> OrderStates], NEW c \in 0..MaxAttempts, Advance(sn, c)
    PROVE  /\ pc' \in {"size", "submit", "lookup", "idle"}
           /\ cur' \in 0..MaxAttempts
           /\ pc' \notin {"size", "idle"} => cur' \in Attempts /\ sn[cur'] # "NONE"
           /\ seen' \in [Attempts -> OrderStates]
           /\ \A k \in Attempts : seen'[k] # "NONE" => sn[k] # "NONE"
           /\ snap' = NoAnswer /\ shares' = 0
<1> DEFINE left == {m \in Attempts : m > c /\ sn[m] # "NONE"}
<1>1. CASE left = {}
  BY <1>1, EmptySlots DEF Advance
<1>2. CASE left # {}
  <2>1. PICK m \in left :
          \/ /\ sn[m] # "INTENT" /\ pc' = "lookup" /\ cur' = m
             /\ seen' = [k \in Attempts |-> IF k \in left THEN sn[k] ELSE "NONE"]
          \/ sn[m] = "INTENT" /\ pc' = "submit" /\ cur' = m /\ seen' = NothingSeen
          \/ pc' = "idle" /\ cur' = 0 /\ seen' = NothingSeen
    BY <1>2 DEF Advance, Return
  <2>2. m \in Attempts /\ m \in 0..MaxAttempts /\ 0 \in 0..MaxAttempts /\ sn[m] # "NONE"
    BY EmptySlots DEF Attempts
  <2>3. snap' = NoAnswer /\ shares' = 0
    BY DEF Advance
  <2>4. CASE sn[m] # "INTENT" /\ pc' = "lookup"
    BY <2>1, <2>2, <2>3, <2>4 DEF OrderStates
  <2>5. CASE pc' # "lookup"
    BY <2>1, <2>2, <2>3, <2>5, EmptySlots
  <2> QED
    BY <2>1, <2>4, <2>5
<1> QED
  BY <1>1, <1>2

LEMMA ReturnType ==
    ASSUME Return
    PROVE  /\ pc' = "idle" /\ cur' \in 0..MaxAttempts /\ seen' = NothingSeen
           /\ seen' \in [Attempts -> OrderStates]
           /\ snap' \in Answers /\ shares' \in 0..Due
BY EmptySlots DEF Return

TypeInv == TypeOK /\ AnswersReal

LEMMA TypeInit == Init => TypeInv
<1> SUFFICES ASSUME Init PROVE TypeInv
  OBVIOUS
<1>1. LedgerType
  BY EmptySlots DEF Init, LedgerType, OrderStates
<1>2. TaskType
  BY EmptySlots DEF Init, TaskType
<1>3. VenueType
  BY EmptySlots DEF Init, VenueType, VenueStates
<1>5. ReconType
  BY EmptySlots, Zenon DEF Init, ReconType
<1>4. AnswersReal
  BY DEF Init, AnswersReal
<1> QED
  BY <1>1, <1>2, <1>3, <1>4, <1>5, TypeParts DEF TypeInv

\* A step that returns from the task leaves the task well typed.
LEMMA ReturnKeepsTask ==
    ASSUME Return, faults' \in 0..MaxFaults
    PROVE  /\ TaskType'
           /\ ~(pc' \in {"verify", "reverify", "accept"})
BY ReturnType DEF TaskType, Return

LEMMA AdvanceKeepsTask ==
    ASSUME NEW sn \in [Attempts -> OrderStates], NEW c \in 0..MaxAttempts, Advance(sn, c),
           faults' \in 0..MaxFaults
    PROVE  /\ TaskType'
           /\ ~(pc' \in {"verify", "reverify", "accept"})
BY AdvanceType, EmptySlots DEF TaskType

LEMMA TypeTaskStep == TypeInv /\ TaskStep => TypeInv'
<1> SUFFICES ASSUME TypeInv, TaskStep PROVE TypeInv'
  OBVIOUS
<1> USE DEF TypeInv
<1>0. LedgerType /\ TaskType /\ VenueType /\ ReconType /\ AnswersReal
  BY TypeParts
<1>a. ASSUME UNCHANGED venue PROVE VenueType'
  BY <1>0, <1>a DEF VenueType, venue
<1>b. ASSUME UNCHANGED ledger PROVE LedgerType'
  BY <1>0, <1>b DEF LedgerType, ledger
<1>c. ASSUME UNCHANGED <<recon, ready>> PROVE ReconType'
  BY <1>0, <1>c DEF ReconType
<1>d. ASSUME UNCHANGED recon, ~(pc' \in {"verify", "reverify", "accept"}) PROVE AnswersReal'
  BY <1>0, <1>d DEF AnswersReal
<1>e. ASSUME UNCHANGED faults PROVE faults' \in 0..MaxFaults
  BY <1>0, <1>e DEF TaskType
<1>f. ASSUME LedgerType', TaskType', VenueType', ReconType', AnswersReal' PROVE TypeInv'
  BY <1>f, TypeParts, PTL
<1>1. CASE TaskStart
  <2>1. [n \in Attempts |-> IF n \in Unresolved THEN orderState[n] ELSE "NONE"]
          \in [Attempts -> OrderStates]
    BY <1>0 DEF LedgerType, OrderStates
  <2>2. TaskType' /\ ~(pc' \in {"verify", "reverify", "accept"})
    BY <1>1, <1>e, <2>1, EmptySlots, AdvanceKeepsTask DEF TaskStart
  <2> QED
    BY <1>1, <1>a, <1>b, <1>c, <1>d, <1>f, <2>2 DEF TaskStart
<1>2. CASE TaskLookup
  <2>1. cur \in Attempts
    BY <1>0, <1>2 DEF TaskLookup, TaskType
  <2>2. snap' \in Answers /\ snap'.status \in VenueAnswers
    BY <1>0, <1>2, <2>1, AnswersOfType DEF TaskLookup
  <2>3. TaskType' /\ AnswersReal'
    BY <1>0, <1>2, <2>1, <2>2 DEF TaskLookup, TaskType, AnswersReal
  <2> QED
    BY <1>2, <1>a, <1>b, <1>c, <1>f, <2>3 DEF TaskLookup
<1>3. CASE TaskLookupFails
  <2>1. faults' \in 0..MaxFaults
    BY <1>0, <1>3, EmptySlots DEF TaskLookupFails, LookupFails, TaskType
  <2> QED
    BY <1>3, <1>a, <1>b, <1>c, <1>d, <1>f, <2>1, ReturnKeepsTask DEF TaskLookupFails
<1>4. CASE TaskReplay
  <2>1. faults' \in 0..MaxFaults
    BY <1>0, <1>4, EmptySlots DEF TaskReplay, LookupFails, TaskType
  <2>2. TaskType'
    BY <1>0, <1>4, <2>1, EmptySlots DEF TaskReplay, TaskType
  <2> QED
    BY <1>4, <1>a, <1>b, <1>c, <1>d, <1>f, <2>2 DEF TaskReplay
<1>5. CASE TaskVerify
  <2>1. /\ cur \in Attempts /\ snap \in Answers
        /\ snap.status \in OrderStates
    BY <1>0, <1>5 DEF TaskVerify, TaskType, AnswersReal, VenueAnswers, VenueStates,
                      OrderStates, TerminalOrders
  <2>2. LedgerType'
    BY <1>0, <1>5, <2>1, VerifyType DEF TaskVerify
  <2>3. TaskType' /\ ~(pc' \in {"verify", "reverify", "accept"})
    <3>1. seen \in [Attempts -> OrderStates] /\ cur \in 0..MaxAttempts
      BY <1>0 DEF TaskType
    <3> QED
      BY <1>5, <1>e, <3>1, AdvanceKeepsTask, ReturnKeepsTask DEF TaskVerify
  <2> QED
    BY <1>5, <1>a, <1>c, <1>d, <1>f, <2>2, <2>3 DEF TaskVerify
<1>6. CASE TaskVerifyThenCancel
  <2>1. /\ cur \in Attempts /\ snap \in Answers
        /\ snap.status \in OrderStates
    BY <1>0, <1>6 DEF TaskVerifyThenCancel, TaskType, OrderStates
  <2>2. LedgerType'
    BY <1>0, <1>6, <2>1, VerifyType DEF TaskVerifyThenCancel
  <2>3. TaskType'
    BY <1>0, <1>6, <2>1, EmptySlots DEF TaskVerifyThenCancel, TaskType
  <2> QED
    BY <1>6, <1>a, <1>c, <1>d, <1>f, <2>2, <2>3 DEF TaskVerifyThenCancel
<1>7. CASE TaskMarkCancelPending
  <2>1. cur \in Attempts /\ "CANCEL_PENDING" \in OrderStates
    BY <1>0, <1>7 DEF TaskMarkCancelPending, TaskType, OrderStates
  <2>2. LedgerType'
    BY <1>0, <1>7, <2>1, UpdateType DEF TaskMarkCancelPending
  <2>3. TaskType'
    BY <1>0, <1>7, <2>1 DEF TaskMarkCancelPending, TaskType
  <2> QED
    BY <1>7, <1>a, <1>c, <1>d, <1>f, <2>2, <2>3 DEF TaskMarkCancelPending
<1>8. CASE TaskCancel
  <2>1. TaskType' /\ VenueType'
    BY <1>0, <1>8 DEF TaskCancel, TaskType, VenueType, VenueStates
  <2> QED
    BY <1>8, <1>b, <1>c, <1>d, <1>f, <2>1 DEF TaskCancel
<1>9. CASE TaskSize
  <2>1. shares' \in 0..Due
    BY <1>0, <1>9, EmptySlots DEF TaskSize, LedgerType, Minus
  <2>2. TaskType'
    BY <1>0, <1>9, <2>1 DEF TaskSize, TaskType
  <2> QED
    BY <1>9, <1>a, <1>b, <1>c, <1>d, <1>f, <2>2 DEF TaskSize
<1>10. CASE TaskDeclines
  BY <1>10, <1>a, <1>b, <1>c, <1>d, <1>e, <1>f, ReturnKeepsTask DEF TaskDeclines
<1>11. CASE TaskIntent
  <2> DEFINE n == obligation.reprices + 1
  <2>1. n \in Attempts /\ shares \in 0..Due
    BY <1>0, <1>11 DEF TaskIntent, TaskType
  <2>2. CASE IntentAllowed(n, shares)
    <3>1. /\ CreateHedgeOrderIntent(n, shares)
          /\ pc' = "submit" /\ cur' = n /\ shares' = 0 /\ UNCHANGED <<seen, snap>>
      BY <1>11, <2>2 DEF TaskIntent
    <3>2. LedgerType'
      BY <1>0, <2>1, <3>1, IntentType
    <3>3. TaskType'
      BY <1>0, <1>11, <2>1, <3>1, EmptySlots DEF TaskIntent, TaskType, Attempts
    <3> QED
      BY <1>11, <1>a, <1>c, <1>d, <1>f, <3>1, <3>2, <3>3 DEF TaskIntent
  <2>3. CASE ~IntentAllowed(n, shares)
    BY <1>11, <2>3, <1>a, <1>b, <1>c, <1>d, <1>e, <1>f, ReturnKeepsTask DEF TaskIntent
  <2> QED
    BY <2>2, <2>3
<1>12. CASE TaskSubmit
  <2>1. cur \in Attempts /\ "SUBMITTING" \in Submitting
    BY <1>0, <1>12 DEF TaskSubmit, TaskType, Submitting
  <2>2. LedgerType'
    BY <1>0, <1>12, <2>1, SubmissionType DEF TaskSubmit
  <2>3. TaskType' /\ VenueType'
    BY <1>0, <1>12, <2>1 DEF TaskSubmit, TaskType, VenueType
  <2> QED
    BY <1>12, <1>c, <1>d, <1>f, <2>2, <2>3 DEF TaskSubmit
<1>13. CASE TaskAcknowledged
  <2>1. snap' \in Answers /\ snap'.status \in {"LIVE", "MATCHED"}
    BY <1>13 DEF TaskAcknowledged, Answers, VenueStates
  <2>2. TaskType' /\ AnswersReal'
    BY <1>0, <1>13, <2>1 DEF TaskAcknowledged, TaskType, AnswersReal
  <2> QED
    BY <1>13, <1>a, <1>b, <1>c, <1>f, <2>2 DEF TaskAcknowledged
<1>14. CASE TaskAccept
  <2>1. cur \in Attempts /\ snap.status \in {"LIVE", "MATCHED"}
    BY <1>0, <1>14 DEF TaskAccept, TaskType, AnswersReal
  <2>2. LedgerType'
    BY <1>0, <1>14, <2>1, AcceptType DEF TaskAccept
  <2> QED
    BY <1>14, <1>a, <1>c, <1>d, <1>e, <1>f, <2>2, ReturnKeepsTask DEF TaskAccept
<1>15. CASE TaskPostFails
  <2>1. faults' \in 0..MaxFaults
    BY <1>0, <1>15, EmptySlots DEF TaskPostFails, TaskType
  <2>2. TaskType'
    BY <1>0, <1>15, <2>1 DEF TaskPostFails, TaskType
  <2> QED
    BY <1>15, <1>a, <1>b, <1>c, <1>d, <1>f, <2>2 DEF TaskPostFails
<1>16. CASE TaskOutcomeUnknown
  <2>1. cur \in Attempts /\ "OUTCOME_UNKNOWN" \in Submitting
    BY <1>0, <1>16 DEF TaskOutcomeUnknown, TaskType, Submitting
  <2>2. LedgerType'
    BY <1>0, <1>16, <2>1, SubmissionType DEF TaskOutcomeUnknown
  <2> QED
    BY <1>16, <1>a, <1>c, <1>d, <1>e, <1>f, <2>2, ReturnKeepsTask DEF TaskOutcomeUnknown
<1>17. CASE TaskTimeout
  <2>1. faults' \in 0..MaxFaults
    BY <1>0, <1>17, EmptySlots DEF TaskTimeout, TaskType
  <2> QED
    BY <1>17, <1>a, <1>b, <1>c, <1>d, <1>f, <2>1, ReturnKeepsTask DEF TaskTimeout
<1> QED
  BY <1>1, <1>2, <1>3, <1>4, <1>5, <1>6, <1>7, <1>8, <1>9, <1>10, <1>11, <1>12, <1>13,
     <1>14, <1>15, <1>16, <1>17 DEF TaskStep

LEMMA TypeOtherStep == TypeInv /\ (VenueStep \/ ReportStep \/ Crash) => TypeInv'
<1> SUFFICES ASSUME TypeInv, VenueStep \/ ReportStep \/ Crash PROVE TypeInv'
  OBVIOUS
<1> USE DEF TypeInv
<1>0. LedgerType /\ TaskType /\ VenueType /\ ReconType /\ AnswersReal
  BY TypeParts
<1>a. ASSUME UNCHANGED venue PROVE VenueType'
  BY <1>0, <1>a DEF VenueType, venue
<1>b. ASSUME UNCHANGED ledger PROVE LedgerType'
  BY <1>0, <1>b DEF LedgerType, ledger
<1>c. ASSUME UNCHANGED <<task, recon, ready>>, faults' \in 0..MaxFaults
      PROVE  TaskType' /\ ReconType' /\ AnswersReal'
  BY <1>0, <1>c DEF TaskType, ReconType, AnswersReal, task
<1>d. ASSUME UNCHANGED <<task, faults>> PROVE TaskType'
  BY <1>0, <1>d DEF TaskType, task
<1>e. ASSUME UNCHANGED faults PROVE faults' \in 0..MaxFaults
  BY <1>0, <1>e DEF TaskType
<1>f. ASSUME LedgerType', TaskType', VenueType', ReconType', AnswersReal' PROVE TypeInv'
  BY <1>f, TypeParts, PTL
<1>1. ASSUME NEW n \in Attempts, VenueTakesPost(n) PROVE TypeInv'
  <2>1. VenueType'
    BY <1>0, <1>1 DEF VenueTakesPost, VenueType, VenueStates
  <2> QED
    BY <1>1, <1>b, <1>c, <1>e, <1>f, <2>1 DEF VenueTakesPost
<1>2. ASSUME NEW n \in Attempts, VenueDropsPost(n) PROVE TypeInv'
  <2>1. VenueType' /\ faults' \in 0..MaxFaults
    BY <1>0, <1>2, EmptySlots DEF VenueDropsPost, VenueType, TaskType
  <2> QED
    BY <1>2, <1>b, <1>c, <1>f, <2>1 DEF VenueDropsPost
<1>3. ASSUME NEW n \in Attempts, VenueCancels(n) PROVE TypeInv'
  <2>1. VenueType'
    BY <1>0, <1>3 DEF VenueCancels, VenueType, VenueStates
  <2> QED
    BY <1>3, <1>b, <1>c, <1>e, <1>f, <2>1 DEF VenueCancels
<1>4. ASSUME NEW n \in Attempts, NEW t \in Trades, VenueMatches(n, t) PROVE TypeInv'
  <2>1. "MATCHED" \in TradeStatuses /\ n \in 0..MaxAttempts
    BY EmptySlots, ConstantsAssumption DEF ConstantsAssumption, Attempts
  <2>2. VenueType'
    BY <1>0, <1>4, <2>1 DEF VenueMatches, VenueType, VenueStates
  <2> QED
    BY <1>4, <1>b, <1>c, <1>e, <1>f, <2>2 DEF VenueMatches
<1>5. ASSUME NEW t \in Trades, NEW s \in TradeStatuses, VenueSettles(t, s) PROVE TypeInv'
  <2>1. VenueType'
    BY <1>0, <1>5 DEF VenueSettles, VenueType
  <2> QED
    BY <1>5, <1>b, <1>c, <1>e, <1>f, <2>1 DEF VenueSettles
<1>6. CASE ReconcileList
  <2>1. ReconType' /\ AnswersReal'
    BY <1>0, <1>6 DEF ReconcileList, ReconType, AnswersReal, Answers, NoAnswer, task
  <2> QED
    BY <1>6, <1>a, <1>b, <1>d, <1>f, <2>1 DEF ReconcileList
<1>7. ASSUME NEW n \in Attempts, ReconcileRead(n) PROVE TypeInv'
  <2>1. PICK a \in IF vState[n] = "ABSENT" THEN {NoAnswer} ELSE AnswersOf(n) :
               recon' = [recon EXCEPT ![n] = a]
    BY <1>7 DEF ReconcileRead
  <2>2. a \in Answers /\ (a # NoAnswer => a.status # "NONE")
    BY <1>0, AnswersOfType, EmptySlots DEF VenueAnswers, VenueStates
  <2>3. ReconType' /\ AnswersReal'
    BY <1>0, <1>7, <2>1, <2>2 DEF ReconcileRead, ReconType, AnswersReal, task
  <2> QED
    BY <1>7, <1>a, <1>b, <1>d, <1>f, <2>3 DEF ReconcileRead
<1>8. ASSUME NEW n \in Attempts, ReconcileApply(n) PROVE TypeInv'
  <2>1. /\ recon[n] \in Answers
        /\ recon[n].status \in OrderStates
    BY <1>0, <1>8 DEF ReconcileApply, ReconType, AnswersReal, Answers, VenueStates,
                      OrderStates, TerminalOrders
  <2>2. LedgerType'
    BY <1>0, <1>8, <2>1, VerifyType DEF ReconcileApply
  <2>3. ReconType' /\ AnswersReal'
    BY <1>0, <1>8, EmptySlots DEF ReconcileApply, ReconType, AnswersReal, task
  <2> QED
    BY <1>8, <1>a, <1>d, <1>f, <2>2, <2>3 DEF ReconcileApply
<1>9. ASSUME NEW t \in Trades, NEW s \in TradeStatuses, TradeReported(t, s) PROVE TypeInv'
  <2>1. LedgerType'
    BY <1>0, <1>9, RecordType DEF TradeReported
  <2> QED
    BY <1>9, <1>a, <1>c, <1>e, <1>f, <2>1 DEF TradeReported
<1>10. ASSUME NEW n \in Attempts, NEW s \in VenueStates, OrderReported(n, s) PROVE TypeInv'
  <2>1. s \in OrderStates
    BY <1>0, <1>10 DEF OrderReported, VenueType, VenueStates, OrderStates, TerminalOrders
  <2>2. LedgerType'
    BY <1>0, <1>10, <2>1, UpdateType DEF OrderReported
  <2> QED
    BY <1>10, <1>a, <1>c, <1>e, <1>f, <2>2 DEF OrderReported
<1>11. CASE Crash
  <2>1. faults' \in 0..MaxFaults
    BY <1>0, <1>11, EmptySlots DEF Crash, TaskType
  <2>2. ReconType' /\ AnswersReal'
    BY <1>11, EmptySlots DEF Crash, ReconType, AnswersReal, Return
  <2> QED
    BY <1>11, <1>a, <1>b, <1>f, <2>1, <2>2, ReturnKeepsTask DEF Crash
<1>12. CASE RecoveryReady \/ RecoveryLost
  <2>1. /\ ready' \in BOOLEAN
        /\ UNCHANGED <<ledger, task, recon, venue>>
    BY <1>12, Zenon DEF RecoveryReady, RecoveryLost
  <2>4. faults' \in 0..MaxFaults
    BY <1>0, <1>12, <1>e, EmptySlots DEF RecoveryReady, RecoveryLost, TaskType
  <2>2. TaskType'
    BY <1>0, <2>1, <2>4 DEF TaskType, task
  <2>3. ReconType' /\ AnswersReal'
    BY <1>0, <2>1 DEF ReconType, AnswersReal, task
  <2> QED
    BY <1>a, <1>b, <1>f, <2>1, <2>2, <2>3
<1> QED
  BY <1>1, <1>2, <1>3, <1>4, <1>5, <1>6, <1>7, <1>8, <1>9, <1>10, <1>11, <1>12
     DEF VenueStep, ReportStep

LEMMA TypeStep == TypeInv /\ [Next]_vars => TypeInv'
<1> SUFFICES ASSUME TypeInv, [Next]_vars PROVE TypeInv'
  OBVIOUS
<1>1. CASE UNCHANGED vars
  <2>1. /\ UNCHANGED <<orderState, quantity, verified, venueMatched, execStatus, obligation>>
        /\ UNCHANGED <<pc, cur, seen, snap, shares, recon, ready, faults>>
        /\ UNCHANGED <<vState, tOrder, vHist, posts>>
    BY <1>1 DEF vars, ledger, task, venue
  <2>2. TypeOK' /\ AnswersReal'
    BY <2>1 DEF TypeInv, TypeOK, AnswersReal
  <2> QED
    BY <2>2 DEF TypeInv
<1> QED
  BY <1>1, TypeTaskStep, TypeOtherStep DEF Next

LEMMA TypeInvariant == Spec => []TypeInv
BY TypeInit, TypeStep, PTL DEF Spec

\* The rows of the ledger, the locals of the task and the answers in flight
\* have their types in every reachable state: in particular an order only ever
\* stores one of the states the code normalises to.
THEOREM TypeCorrect == Spec => []TypeOK
BY TypeInvariant, PTL DEF TypeInv
=============================================================================
