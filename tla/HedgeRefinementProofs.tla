----------------------- MODULE HedgeRefinementProofs -----------------------
(***************************************************************************)
(* HedgeLedger implements Obligation, for every value of its constants with*)
(* which answers count every fill and a trade settles one way only.        *)
(***************************************************************************)
EXTENDS HedgeSafetyProofs, MCHedgeLedger

-----------------------------------------------------------------------------
(* The inductive invariant.  NoOverHedge bounds what an order that can     *)
(* trade may still buy.  The view needs more: a lot that failed at the     *)
(* venue and is not in the ledger yet will be counted as bought when its   *)
(* fill is reported, so its order keeps its share of the budget until all  *)
(* its fills are recorded.                                                 *)

Reserves(n) == Exists(n) /\ ~Final(n)

ReservedInv ==
    /\ \A m, n \in Attempts : Reserves(m) /\ Reserves(n) => m = n
    /\ \A n \in Attempts : Reserves(n) => Cardinality(Others(n)) + quantity[n] <= Due

PromiseInv == SafeInv /\ ClashInv /\ ReservedInv

LEMMA ReservedStep ==
    ASSUME SafeInv, ReservedInv, [Next]_vars
    PROVE  ReservedInv'
<1>0. /\ FactInv /\ FactInv' /\ TypeInv /\ TypeInv' /\ ReleaseInv
      /\ VenueType /\ LedgerType /\ TaskType
  BY FactStep, TypeParts DEF SafeInv, FactInv, TypeInv
<1>1. /\ \A n : Cardinality(Others(n)) \in Nat
      /\ Cardinality(Acquired) \in Nat /\ Due \in Nat
      /\ \A n \in Attempts : quantity[n] \in Nat
  BY <1>0, AcquiredFinite, EmptySlots DEF LedgerType
<1>2. \A n : Cardinality(Others(n)') \in Nat
  BY TradesFinite DEF Others, Acquired
<1>3. CASE IntentStep
  <2> DEFINE k == obligation.reprices + 1
  <2>1. /\ k \in Attempts /\ IntentAllowed(k, shares) /\ shares \in Nat
        /\ orderState' = [orderState EXCEPT ![k] = "INTENT"]
        /\ quantity' = [quantity EXCEPT ![k] = shares]
        /\ UNCHANGED <<vState, tOrder, vHist>>
    BY <1>0, <1>3, EmptySlots
       DEF IntentStep, IntentAllowed, CreateHedgeOrderIntent, TaskType, venue
  <2>2. Cardinality(Confirmed(execStatus)) + Cardinality(Pending(execStatus)) + shares <= Due
    BY <1>0, <2>1, IntentFits
  <2>3. \A n \in Attempts : Exists(n)' => Exists(n) \/ n = k
    BY <1>0, <2>1 DEF Exists, LedgerType
  <2>4. quantity'[k] = shares
    BY <1>0, <2>1 DEF LedgerType
  <2> HIDE DEF k
  <2>5. \A n \in Attempts : Reserves(n)' => n = k
    BY <1>0, <1>3, <2>3, IntentAlone, OverStays DEF Reserves
  <2>6. Cardinality(Acquired) + shares <= Due
    BY <1>0, <1>1, <1>3, <2>1, <2>2, AllRecorded, CountTypes
  <2>7. \A n : Cardinality(Others(n)') <= Cardinality(Acquired)
    BY <2>1, CardMonotone DEF Others, Acquired
  <2>8. \A n \in Attempts : Reserves(n)' => Cardinality(Others(n)') + quantity'[n] <= Due
    BY <1>1, <1>2, <2>1, <2>4, <2>5, <2>6, <2>7
  <2> QED
    BY <2>5, <2>8 DEF ReservedInv
<1>4. CASE LedgerEffect
  <2>1. \A n \in Attempts : Reserves(n)' => Reserves(n) /\ quantity'[n] = quantity[n]
    BY <1>0, <1>4, OverStays DEF Reserves, LedgerEffect, Exists
  <2>2. \A n \in Attempts : Reserves(n)' => Others(n)' \subseteq Others(n)
    <3>1. CASE UNCHANGED <<tOrder, vHist>>
      BY <3>1 DEF Others, Acquired
    <3>2. ASSUME NEW m \in Attempts, NEW t \in Trades, VenueMatches(m, t)
          PROVE  \A n \in Attempts : Reserves(n)' => Others(n)' \subseteq Others(n)
      <4>1. /\ vState[m] = "LIVE" /\ tOrder[t] = 0 /\ m # 0
            /\ tOrder' = [tOrder EXCEPT ![t] = m]
            /\ vHist' = [vHist EXCEPT ![t] = {"MATCHED"}]
        BY <3>2, EmptySlots DEF VenueMatches, Attempts
      <4>2. Reserves(m)
        BY <1>0, <4>1 DEF Reserves, Final, Over, FactInv, StoredInv
      <4>3. \A n \in Attempts : Reserves(n)' => n = m
        BY <2>1, <4>2 DEF ReservedInv
      <4>4. Others(m)' = Others(m)
        BY <1>0, <4>1 DEF Others, Acquired, VenueType
      <4> QED
        BY <4>3, <4>4
    <3>3. ASSUME NEW t \in Trades, NEW s \in TradeStatuses, VenueSettles(t, s)
          PROVE  \A n \in Attempts : Reserves(n)' => Others(n)' \subseteq Others(n)
      BY <1>0, <3>3 DEF VenueSettles, Others, Acquired, VenueType
    <3> QED
      BY <1>0, <3>1, <3>2, <3>3, StepVenue DEF VenueEffect
  <2>3. \A n \in Attempts :
           Reserves(n)' => Cardinality(Others(n)') <= Cardinality(Others(n))
    <3> SUFFICES ASSUME NEW n \in Attempts, Reserves(n)'
                 PROVE  Cardinality(Others(n)') <= Cardinality(Others(n))
      OBVIOUS
    <3>1. Others(n)' \subseteq Others(n) /\ Others(n) \subseteq Trades
      BY <2>2 DEF Others, Acquired
    <3> QED
      BY <3>1, CardMonotone
  <2>4. \A n \in Attempts : Reserves(n)' => Cardinality(Others(n)') + quantity'[n] <= Due
    <3> SUFFICES ASSUME NEW n \in Attempts, Reserves(n)'
                 PROVE  Cardinality(Others(n)') + quantity'[n] <= Due
      OBVIOUS
    <3>1. Cardinality(Others(n)) + quantity[n] <= Due /\ quantity'[n] = quantity[n]
      BY <2>1 DEF ReservedInv
    <3> QED
      BY <1>1, <1>2, <2>3, <3>1
  <2> QED
    BY <2>1, <2>4 DEF ReservedInv
<1> QED
  BY <1>0, <1>3, <1>4, StepEffect DEF FactInv

LEMMA PromiseInit == Init => PromiseInv
<1>1. Init => ClashInv
  BY DEF Init, ClashInv
<1>2. Init => \A n \in Attempts : ~Reserves(n)
  BY DEF Init, Reserves, Exists
<1> QED
  BY <1>1, <1>2, SafeInit DEF PromiseInv, ReservedInv

LEMMA PromiseStep ==
    ASSUME ~Lagging, ~Contradictions, PromiseInv, [Next]_vars
    PROVE  PromiseInv'
BY SafeStep, ClashStep, ReservedStep DEF PromiseInv, SafeInv

-----------------------------------------------------------------------------
(* What the orders that can trade may still buy *)

LEMMA PairsCount ==
    ASSUME NEW n, NEW q \in Nat
    PROVE  Cardinality({n} \X (1..q)) = q
<1> DEFINE f == [k \in 1..q |-> <<n, k>>]
<1>1. f \in Bijection(1..q, {n} \X (1..q))
  <2>1. f \in [1..q -> {n} \X (1..q)]
    OBVIOUS
  <2>2. \A a, b \in 1..q : f[a] = f[b] => a = b
    OBVIOUS
  <2>3. \A w \in {n} \X (1..q) : \E k \in 1..q : f[k] = w
    OBVIOUS
  <2> QED
    BY <2>1, <2>2, <2>3, Zenon DEF Bijection, Injection, Surjection, IsInjective
<1>2. ExistsBijection(1..q, {n} \X (1..q))
  BY <1>1 DEF ExistsBijection
<1>3. IsFiniteSet(1..q) /\ Cardinality(1..q) = q
  BY FS_Interval
<1> QED
  BY <1>2, <1>3, FS_Bijection

LEMMA WorkingNone ==
    ASSUME \A n \in Attempts : ~CanTrade(n)
    PROVE  Working = 0
<1>1. {n \in Attempts : CanTrade(n)} = {}
  OBVIOUS
<1>2. Working = Cardinality({})
  BY <1>1 DEF Working
<1> QED
  BY <1>2, FS_EmptySet

LEMMA WorkingOne ==
    ASSUME FactInv, OneOrderCanTrade, NEW n \in Attempts, CanTrade(n)
    PROVE  Working = quantity[n] - Cardinality(Filled(n)) /\ Working \in Nat
<1> DEFINE f == Cardinality(Filled(n))
           q == quantity[n]
           pairs == {w \in {m \in Attempts : CanTrade(m)} \X (1..Due) :
                        w[2] + Cardinality(Filled(w[1])) <= quantity[w[1]]}
<1>1. f \in Nat /\ q \in 0..Due /\ f <= q /\ Due \in Nat
  BY TradesFinite, TypeParts, EmptySlots DEF Filled, FactInv, TypeInv, LedgerType, VenueInv
<1>2. pairs = {n} \X (1..(q - f))
  <2>1. {m \in Attempts : CanTrade(m)} = {n}
    BY DEF OneOrderCanTrade
  <2> QED
    BY <1>1, <2>1
<1>3. q - f \in Nat
  BY <1>1
<1> QED
  BY <1>2, <1>3, PairsCount DEF Working

-----------------------------------------------------------------------------
(* What a full view means *)

IsFull == obligation.confirmed >= Due /\ obligation.excess = 0 /\ obligation.pending = 0

LEMMA ViewOf ==
    /\ BatchView \in {"DONE", "COVERED"} <=> IsFull
    /\ ~IsFull => BatchView = IF obligation.confirmed > 0 THEN "PART" ELSE "DUE"
BY DEF BatchView, IsFull

LEMMA FullCounts ==
    ASSUME FactInv
    PROVE  IsFull <=> /\ Cardinality(Confirmed(execStatus)) = Due
                      /\ Pending(execStatus) = {}
<1> DEFINE c == Cardinality(Confirmed(execStatus))
           p == Cardinality(Pending(execStatus))
<1>1. c \in Nat /\ p \in Nat /\ Due \in Nat
  BY CountTypes, EmptySlots
<1>2. /\ obligation.confirmed = Least(c, Due) /\ obligation.pending = p
      /\ obligation.excess = Minus(c + p, Due)
  BY DEF FactInv, AccountingCurrent
<1>3. p = 0 <=> Pending(execStatus) = {}
  <2>1. IsFiniteSet(Pending(execStatus))
    BY TradesFinite DEF Pending
  <2> QED
    BY <2>1, FS_EmptySet
<1> HIDE DEF c, p
<1>4. Least(c, Due) >= Due /\ Minus(c + p, Due) = 0 /\ p = 0 <=> c = Due /\ p = 0
  BY <1>1 DEF Least, Minus
<1> QED
  BY <1>2, <1>3, <1>4 DEF IsFull, c

\* All that is owed was bought and is confirmed, and every other fill has
\* failed and is in the ledger as failed.
LEMMA FullFacts ==
    ASSUME PromiseInv, IsFull
    PROVE  /\ Acquired = Confirmed(execStatus)
           /\ Cardinality(Acquired) = Due
           /\ Working = 0
           /\ \A t \in Trades : tOrder[t] # 0 => execStatus[t] \in {"CONFIRMED", "FAILED"}
<1>0. /\ FactInv /\ VenueType /\ LedgerType /\ OneOrderCanTrade
      /\ Due \in Nat /\ \A n \in Attempts : quantity[n] \in Nat
  BY TypeParts, EmptySlots DEF PromiseInv, SafeInv, FactInv, TypeInv, LedgerType
<1>1. Cardinality(Confirmed(execStatus)) = Due /\ Pending(execStatus) = {}
  BY <1>0, FullCounts
<1>2. Confirmed(execStatus) \subseteq Acquired
  BY DEF Confirmed, Acquired, PromiseInv, SafeInv, FactInv, ReportInv, ClashInv
<1>3. Acquired \subseteq Trades /\ IsFiniteSet(Acquired) /\ Cardinality(Acquired) \in Nat
  BY TradesFinite DEF Acquired
<1>4. Cardinality(Acquired) = Due
  BY <1>0, <1>1, <1>2, <1>3, CardMonotone DEF PromiseInv, SafeInv, NoOverHedge
<1>5. Acquired = Confirmed(execStatus)
  BY <1>1, <1>2, <1>3, <1>4, FS_Subset
<1>6. \A n \in Attempts : Reserves(n) =>
         /\ Cardinality(Filled(n) \cap Acquired) >= quantity[n]
         /\ Filled(n) \subseteq Acquired
  <2> SUFFICES ASSUME NEW n \in Attempts, Reserves(n)
               PROVE  /\ Cardinality(Filled(n) \cap Acquired) >= quantity[n]
                      /\ Filled(n) \subseteq Acquired
    OBVIOUS
  <2> DEFINE kept == Filled(n) \cap Acquired
  <2>1. Acquired = Others(n) \cup kept /\ Others(n) \subseteq Trades /\ kept \subseteq Trades
    BY DEF Others, Filled, Acquired
  <2>2. Filled(n) \subseteq Trades /\ kept \subseteq Filled(n)
    BY DEF Filled
  <2>3. Cardinality(Others(n)) + quantity[n] <= Due
    BY DEF PromiseInv, ReservedInv
  <2> HIDE DEF kept
  <2>4. Cardinality(Acquired) <= Cardinality(Others(n)) + Cardinality(kept)
    BY <2>1, CardUnion
  <2>5. /\ Cardinality(Others(n)) \in Nat /\ Cardinality(kept) \in Nat
        /\ Cardinality(Filled(n)) \in Nat /\ IsFiniteSet(Filled(n))
    BY <2>1, <2>2, TradesFinite
  <2>6. Cardinality(kept) >= quantity[n]
    BY <1>0, <1>4, <2>3, <2>4, <2>5
  <2>7. Cardinality(kept) <= Cardinality(Filled(n)) /\ Cardinality(Filled(n)) <= quantity[n]
    BY <1>0, <2>2, CardMonotone DEF FactInv, VenueInv
  <2>8. Cardinality(kept) = Cardinality(Filled(n))
    BY <1>0, <2>5, <2>6, <2>7
  <2>9. kept = Filled(n)
    BY <2>2, <2>5, <2>8, FS_Subset
  <2> QED
    BY <2>6, <2>9 DEF kept
<1>7. Working = 0
  <2>1. CASE \A n \in Attempts : ~CanTrade(n)
    BY <2>1, WorkingNone
  <2>2. ASSUME NEW n \in Attempts, CanTrade(n) PROVE Working = 0
    <3>1. Reserves(n)
      BY <2>2 DEF CanTrade, Reserves, Final, Over
    <3>2. Cardinality(Filled(n) \cap Acquired) <= Cardinality(Filled(n))
      BY CardMonotone DEF Filled
    <3>3. /\ Cardinality(Filled(n) \cap Acquired) \in Nat /\ Cardinality(Filled(n)) \in Nat
      BY TradesFinite DEF Filled
    <3>4. Cardinality(Filled(n)) >= quantity[n]
      BY <1>0, <1>6, <3>1, <3>2, <3>3
    <3>5. Working = quantity[n] - Cardinality(Filled(n)) /\ Working \in Nat
      BY <1>0, <2>2, WorkingOne
    <3> QED
      BY <1>0, <3>3, <3>4, <3>5
  <2> QED
    BY <2>1, <2>2
<1>8. \A t \in Trades : tOrder[t] # 0 => execStatus[t] \in {"CONFIRMED", "FAILED"}
  <2> SUFFICES ASSUME NEW t \in Trades, tOrder[t] # 0
               PROVE  execStatus[t] \in {"CONFIRMED", "FAILED"}
    OBVIOUS
  <2>1. tOrder[t] \in Attempts /\ t \in Filled(tOrder[t])
    BY <1>0, EmptySlots DEF VenueType, Attempts, Filled
  <2>2. Exists(tOrder[t])
    BY <1>0, <2>1 DEF FactInv, VenueInv, StoredInv
  <2>3. execStatus[t] # "NONE"
    <3>1. CASE Reserves(tOrder[t])
      BY <1>5, <1>6, <2>1, <3>1 DEF Confirmed
    <3>2. CASE ~Reserves(tOrder[t])
      BY <2>1, <2>2, <3>2 DEF Reserves, Final
    <3> QED
      BY <3>1, <3>2
  <2> QED
    BY <1>1, <2>3 DEF Pending
<1> QED
  BY <1>4, <1>5, <1>7, <1>8

\* What the abstract state is, in terms of the ledger and the venue.
PromiseFacts ==
    /\ BatchView \in {"DONE", "COVERED"} <=> IsFull
    /\ ~IsFull => BatchView = IF obligation.confirmed > 0 THEN "PART" ELSE "DUE"
    /\ IsFull <=> Cardinality(Confirmed(execStatus)) = Due /\ Pending(execStatus) = {}
    /\ IsFull => Cardinality(Acquired) = Due /\ Working = 0
    /\ (\A n \in Attempts : ~CanTrade(n)) => Working = 0
    /\ \A n \in Attempts : CanTrade(n) =>
          Working = quantity[n] - Cardinality(Filled(n)) /\ Working \in Nat

LEMMA PromiseNow == PromiseInv => PromiseFacts
<1> SUFFICES ASSUME PromiseInv PROVE PromiseFacts
  OBVIOUS
<1>1. FactInv /\ OneOrderCanTrade
  BY DEF PromiseInv, SafeInv
<1>2. IsFull <=> Cardinality(Confirmed(execStatus)) = Due /\ Pending(execStatus) = {}
  BY <1>1, FullCounts
<1>3. IsFull => Cardinality(Acquired) = Due /\ Working = 0
  BY FullFacts
<1>4. \A n \in Attempts : CanTrade(n) =>
         Working = quantity[n] - Cardinality(Filled(n)) /\ Working \in Nat
  BY <1>1, WorkingOne
<1>5. (\A n \in Attempts : ~CanTrade(n)) => Working = 0
  BY WorkingNone
<1> QED
  BY <1>2, <1>3, <1>4, <1>5, ViewOf DEF PromiseFacts

LEMMA PromiseNext == PromiseInv' => PromiseFacts'
BY PromiseNow, PTL

-----------------------------------------------------------------------------
(* The steps of Obligation *)

LEMMA MergeOneWay ==
    ASSUME NEW s \in TradeStatuses
    PROVE  /\ s # "FAILED" => MergedStatus("CONFIRMED", s) = "CONFIRMED"
           /\ s # "CONFIRMED" => MergedStatus("FAILED", s) = "FAILED"
<1>1. s \in {"MATCHED", "MINED", "RETRYING", "CONFIRMED", "FAILED"}
  BY ConstantsAssumption DEF ConstantsAssumption
<1>2. s # "FAILED" => MergedStatus("CONFIRMED", s) = "CONFIRMED"
  BY <1>1 DEF MergedStatus, Rank
<1>3. s # "CONFIRMED" => MergedStatus("FAILED", s) = "FAILED"
  BY <1>1 DEF MergedStatus, Rank
<1> QED
  BY <1>2, <1>3

\* A settled fill stays as it is in the ledger.
LEMMA SettledStays ==
    ASSUME PromiseInv, LedgerEffect, NEW t \in Trades,
           execStatus[t] \in {"CONFIRMED", "FAILED"}
    PROVE  execStatus'[t] = execStatus[t]
<1>0. /\ VenueType /\ ReportInv /\ ClashInv
  BY TypeParts DEF PromiseInv, SafeInv, FactInv, TypeInv
<1>1. execStatus[t] \in vHist[t] /\ vHist[t] \subseteq TradeStatuses
  BY <1>0 DEF ReportInv, VenueType
<1>2. \A s \in vHist[t] : {execStatus[t], s} # {"CONFIRMED", "FAILED"}
  BY <1>0, <1>1 DEF ClashInv
<1>3. \A s \in vHist[t] : MergedStatus(execStatus[t], s) = execStatus[t]
  BY <1>1, <1>2, MergeOneWay
<1> QED
  BY <1>3 DEF LedgerEffect

\* A step that leaves the venue alone shows what Show may.
LEMMA ViewStep ==
    ASSUME PromiseInv, PromiseInv', LedgerEffect, UNCHANGED tOrder
    PROVE  /\ IsFull => IsFull'
           /\ obligation.confirmed > 0 => obligation'.confirmed > 0
<1>0. /\ FactInv /\ FactInv' /\ VenueType /\ LedgerType /\ Due \in Nat /\ Due # 0
  BY TypeParts, EmptySlots, ConstantsAssumption
     DEF PromiseInv, SafeInv, FactInv, TypeInv, ConstantsAssumption
<1> DEFINE C == Confirmed(execStatus)
<1>1. C \subseteq C' /\ C' \subseteq Trades
  BY SettledStays DEF Confirmed
<1>2. /\ Cardinality(C) \in Nat /\ Cardinality(C') \in Nat
      /\ Cardinality(C) <= Cardinality(C')
  BY <1>1, TradesFinite, CardMonotone
<1>3. IsFull => IsFull'
  <2> SUFFICES ASSUME IsFull PROVE IsFull'
    OBVIOUS
  <2>1. \A t \in Trades : tOrder[t] # 0 => execStatus'[t] \in {"CONFIRMED", "FAILED"}
    BY FullFacts, SettledStays
  <2>2. \A t \in Trades : tOrder[t] = 0 => execStatus'[t] = "NONE"
    BY <1>0 DEF FactInv, ReportInv
  <2>3. \A t \in Trades : execStatus'[t] = "CONFIRMED" => execStatus[t] = "CONFIRMED"
    BY <2>2, FullFacts, SettledStays
  <2>4. Confirmed(execStatus)' = Confirmed(execStatus)
    BY <1>1, <2>3 DEF Confirmed
  <2>5. Pending(execStatus)' = {}
    BY <2>1, <2>2 DEF Pending
  <2>6. Cardinality(Confirmed(execStatus)') = Due
    BY <1>0, <2>4, FullCounts
  <2> QED
    BY <2>5, <2>6, PromiseNext DEF PromiseFacts
<1>4. obligation.confirmed > 0 => obligation'.confirmed > 0
  <2>1. /\ obligation.confirmed = Least(Cardinality(C), Due)
        /\ obligation'.confirmed = Least(Cardinality(C'), Due)
    BY <1>0 DEF FactInv, AccountingCurrent
  <2> HIDE DEF C
  <2> QED
    BY <1>0, <1>2, <2>1 DEF Least
<1> QED
  BY <1>3, <1>4

\* A step of the ledger that stores no order shows, or stutters.
LEMMA RefreshShows ==
    ASSUME PromiseInv, PromiseInv', LedgerEffect, UNCHANGED <<vState, tOrder, vHist>>
    PROVE  Promise!Show \/ UNCHANGED Promise!obligation
<1>0. PromiseFacts /\ PromiseFacts'
  BY PromiseNow, PromiseNext
<1>1. Cardinality(Acquired)' = Cardinality(Acquired)
  BY DEF Acquired
<1>2. Working' = Working
  <2>1. \A n \in Attempts : Filled(n)' = Filled(n) /\ quantity'[n] = quantity[n]
    BY DEF Filled, LedgerEffect
  <2>2. \A n \in Attempts : CanTrade(n)' <=> CanTrade(n)
    BY DEF CanTrade, Exists, LedgerEffect
  <2>3. \A w \in Attempts \X (1..Due) :
           (CanTrade(w[1]) /\ w[2] + Cardinality(Filled(w[1])) <= quantity[w[1]])'
             <=> CanTrade(w[1]) /\ w[2] + Cardinality(Filled(w[1])) <= quantity[w[1]]
    BY <2>1, <2>2
  <2> QED
    BY <2>3 DEF Working
<1>3. CASE IsFull'
  <2>1. Cardinality(Acquired)' = Due /\ Working' = 0
    BY <1>0, <1>3 DEF PromiseFacts
  <2>2. BatchView' \in {"DONE", "COVERED"}
    BY <1>0, <1>3 DEF PromiseFacts
  <2> QED
    BY <1>1, <1>2, <2>1, <2>2 DEF Promise!Show, Promise!Full
<1>4. CASE ~IsFull'
  <2>1. ~IsFull /\ BatchView \notin {"DONE", "COVERED"}
    BY <1>0, <1>4, ViewStep DEF PromiseFacts
  <2>2. /\ BatchView = IF obligation.confirmed > 0 THEN "PART" ELSE "DUE"
        /\ BatchView' = IF obligation'.confirmed > 0 THEN "PART" ELSE "DUE"
    BY <1>0, <1>4, <2>1 DEF PromiseFacts
  <2>3. BatchView' = "PART" \/ BatchView' = BatchView
    BY <2>2, ViewStep
  <2> QED
    BY <1>1, <1>2, <2>1, <2>3 DEF Promise!Show, Promise!Full, Promise!obligation
<1> QED
  BY <1>3, <1>4

\* A stored order is a placed one: it was not there, nothing worked, and it
\* fits what is left to buy.
LEMMA IntentPlaces ==
    ASSUME PromiseInv, PromiseInv', IntentStep, [Next]_vars
    PROVE  Promise!Place
<1>k. PICK k \in Attempts : k = obligation.reprices + 1
  BY DEF IntentStep, IntentAllowed
<1>0. /\ PromiseFacts /\ PromiseFacts' /\ FactInv /\ ReleaseInv /\ VenueType /\ LedgerType
      /\ Due \in Nat /\ shares \in 0..Due
      /\ obligation.confirmed \in 0..Due /\ obligation.pending \in Nat
  BY PromiseNow, PromiseNext, TypeParts, EmptySlots
     DEF PromiseInv, SafeInv, FactInv, TypeInv, LedgerType, TaskType
<1>1. /\ k \in Attempts /\ ~Exists(k) /\ Unresolved = {} /\ shares > 0 /\ shares <= Available
      /\ orderState' = [orderState EXCEPT ![k] = "INTENT"]
      /\ quantity' = [quantity EXCEPT ![k] = shares]
      /\ obligation' = [obligation EXCEPT !.state = "ORDER_INTENT", !.reprices = k]
      /\ UNCHANGED <<execStatus, vState, tOrder, vHist>>
  BY <1>k DEF IntentStep, IntentAllowed, CreateHedgeOrderIntent, venue
<1>2. obligation'.confirmed = obligation.confirmed /\ (IsFull' <=> IsFull)
  BY <1>0, <1>1 DEF IsFull, LedgerType
<1>3. ~IsFull
  BY <1>0, <1>1 DEF IsFull, Available, Minus
<1>4. BatchView' = BatchView
  BY <1>0, <1>2, <1>3 DEF PromiseFacts
<1>5. Cardinality(Acquired)' = Cardinality(Acquired)
  BY <1>1 DEF Acquired
<1>6. Working = 0
  <2>1. \A n \in Attempts : ~CanTrade(n)
    BY <1>0, IntentAlone DEF CanTrade
  <2> QED
    BY <1>0, <2>1 DEF PromiseFacts
<1>7. Working' = shares
  <2>1. vState[k] = "ABSENT" /\ Filled(k) = {}
    BY <1>0, <1>1, EmptySlots DEF FactInv, StoredInv, VenueInv, Filled, Attempts
  <2>2. Filled(k)' = {} /\ quantity'[k] = shares /\ CanTrade(k)'
    BY <1>0, <1>1, <2>1 DEF Filled, LedgerType, CanTrade, Exists
  <2>3. Working' = quantity'[k] - Cardinality(Filled(k)')
    BY <1>0, <1>1, <2>2 DEF PromiseFacts
  <2>4. Cardinality(Filled(k)') = 0
    BY <2>2, FS_EmptySet
  <2> QED
    BY <1>0, <2>2, <2>3, <2>4
<1>8. Cardinality(Acquired) + shares <= Due
  <2>1. /\ Cardinality(Confirmed(execStatus)) + Cardinality(Pending(execStatus)) + shares <= Due
        /\ Cardinality(Acquired)
             <= Cardinality(Confirmed(execStatus)) + Cardinality(Pending(execStatus))
    BY <1>0, <1>1, <1>k, IntentFits, AllRecorded DEF IntentStep
  <2> QED
    BY <1>0, <2>1, AcquiredFinite, CountTypes
<1> QED
  BY <1>0, <1>1, <1>4, <1>5, <1>6, <1>7, <1>8 DEF Promise!Place

\* The ledger as it was shows what it showed.
LEMMA SameView ==
    ASSUME UNCHANGED ledger
    PROVE  /\ BatchView' = BatchView
           /\ \A n \in Attempts : (Exists(n)' <=> Exists(n)) /\ quantity'[n] = quantity[n]
BY DEF ledger, BatchView, Unresolved, Exists, OrderResolved

\* A lot filled at the venue is bought, and no longer worked for.
LEMMA MatchIsFill ==
    ASSUME PromiseInv, PromiseInv', UNCHANGED ledger,
           NEW n \in Attempts, NEW t \in Trades, VenueMatches(n, t)
    PROVE  Promise!Fill
<1>0. /\ PromiseFacts /\ PromiseFacts' /\ FactInv /\ TypeInv /\ VenueType /\ LedgerType
      /\ OneOrderCanTrade /\ quantity[n] \in Nat
      /\ Cardinality(Filled(n)) \in Nat
  BY PromiseNow, PromiseNext, TypeParts, EmptySlots, TradesFinite
     DEF PromiseInv, SafeInv, FactInv, TypeInv, LedgerType, Filled
<1>1. /\ vState[n] = "LIVE" /\ tOrder[t] = 0 /\ n # 0
      /\ tOrder' = [tOrder EXCEPT ![t] = n]
      /\ vHist' = [vHist EXCEPT ![t] = {"MATCHED"}]
      /\ vState' = [vState EXCEPT ![n] =
                       IF Cardinality(Filled(n)) + 1 >= quantity[n] THEN "MATCHED" ELSE @]
  BY EmptySlots DEF VenueMatches, Attempts
<1>2. CanTrade(n) /\ Cardinality(Filled(n)) < quantity[n]
  BY <1>0, <1>1 DEF CanTrade, FactInv, StoredInv, VenueInv
<1>3. Cardinality(Acquired)' = Cardinality(Acquired) + 1
  <2>1. Acquired' = Acquired \cup {t} /\ t \notin Acquired
    BY <1>0, <1>1 DEF Acquired, VenueType
  <2>2. IsFiniteSet(Acquired)
    BY TradesFinite DEF Acquired
  <2> QED
    BY <2>1, <2>2, FS_AddElement
<1>4. Working = quantity[n] - Cardinality(Filled(n))
  BY <1>0, <1>2 DEF PromiseFacts
<1>5. Cardinality(Filled(n)') = Cardinality(Filled(n)) + 1 /\ quantity'[n] = quantity[n]
  BY <1>0, MatchFills, SameView
<1>6. Working' = Working - 1
  <2>1. CASE Cardinality(Filled(n)) + 1 >= quantity[n]
    <3>1. vState'[n] = "MATCHED" /\ \A m \in Attempts : m # n => vState'[m] = vState[m]
      BY <1>0, <1>1, <2>1 DEF VenueType
    <3>2. \A m \in Attempts : ~CanTrade(m)'
      BY <1>0, <1>2, <3>1, SameView DEF CanTrade, OneOrderCanTrade
    <3>3. Working' = 0
      BY <1>0, <3>2 DEF PromiseFacts
    <3> QED
      BY <1>0, <1>2, <1>4, <2>1, <3>3
  <2>2. CASE ~(Cardinality(Filled(n)) + 1 >= quantity[n])
    <3>1. CanTrade(n)'
      BY <1>0, <1>1, <1>2, <2>2, SameView DEF CanTrade, VenueType
    <3>2. Working' = quantity'[n] - Cardinality(Filled(n)')
      BY <1>0, <3>1 DEF PromiseFacts
    <3> QED
      BY <1>0, <1>4, <1>5, <3>2
  <2> QED
    BY <2>1, <2>2
<1>7. Working > 0
  BY <1>0, <1>2, <1>4
<1> QED
  BY <1>3, <1>6, <1>7, SameView DEF Promise!Fill

\* An order the venue takes changes nothing; one it cancels ends.
LEMMA OrderEnds ==
    ASSUME PromiseInv, PromiseInv', UNCHANGED ledger, UNCHANGED <<tOrder, vHist>>,
           NEW n \in Attempts,
           \/ vState[n] = "ABSENT" /\ vState' = [vState EXCEPT ![n] = "LIVE"]
           \/ vState[n] = "LIVE" /\ vState' = [vState EXCEPT ![n] = "CANCELLED"]
    PROVE  Promise!End \/ UNCHANGED Promise!obligation
<1>0. /\ PromiseFacts' /\ FactInv /\ VenueType /\ OneOrderCanTrade
  BY PromiseNext, TypeParts DEF PromiseInv, SafeInv, FactInv, TypeInv
<1>1. Cardinality(Acquired)' = Cardinality(Acquired)
  BY DEF Acquired
<1>2. CASE vState[n] = "ABSENT" /\ vState' = [vState EXCEPT ![n] = "LIVE"]
  <2>1. \A m \in Attempts : CanTrade(m)' <=> CanTrade(m)
    BY <1>0, <1>2, SameView DEF CanTrade, VenueType
  <2>2. \A m \in Attempts : Filled(m)' = Filled(m) /\ quantity'[m] = quantity[m]
    BY SameView DEF Filled
  <2>3. \A w \in Attempts \X (1..Due) :
           (CanTrade(w[1]) /\ w[2] + Cardinality(Filled(w[1])) <= quantity[w[1]])'
             <=> CanTrade(w[1]) /\ w[2] + Cardinality(Filled(w[1])) <= quantity[w[1]]
    BY <2>1, <2>2
  <2>4. Working' = Working
    BY <2>3 DEF Working
  <2> QED
    BY <1>1, <2>4, SameView DEF Promise!obligation
<1>3. CASE vState[n] = "LIVE" /\ vState' = [vState EXCEPT ![n] = "CANCELLED"]
  <2>1. CanTrade(n)
    BY <1>0, <1>3 DEF CanTrade, FactInv, StoredInv
  <2>2. vState'[n] = "CANCELLED" /\ \A m \in Attempts : m # n => vState'[m] = vState[m]
    BY <1>0, <1>3 DEF VenueType
  <2>3. \A m \in Attempts : ~CanTrade(m)'
    BY <1>0, <2>1, <2>2, SameView DEF CanTrade, OneOrderCanTrade
  <2>4. Working' = 0
    BY <1>0, <2>3 DEF PromiseFacts
  <2> QED
    BY <1>1, <2>4, SameView DEF Promise!End
<1> QED
  BY <1>2, <1>3

\* A lot that fails is owed again, and is none of a full obligation.
LEMMA SettleFails ==
    ASSUME ~Contradictions, PromiseInv, PromiseInv', UNCHANGED ledger,
           NEW t \in Trades, NEW s \in TradeStatuses, VenueSettles(t, s)
    PROVE  Promise!Fail \/ UNCHANGED Promise!obligation
<1>0. PromiseFacts /\ VenueType
  BY PromiseNow, TypeParts DEF PromiseInv, SafeInv, FactInv, TypeInv
<1>1. /\ tOrder[t] # 0 /\ s \notin vHist[t]
      /\ vHist[t] \cap {"CONFIRMED", "FAILED"} = {}
      /\ vHist' = [vHist EXCEPT ![t] = @ \cup {s}]
      /\ UNCHANGED <<vState, tOrder>>
  BY DEF VenueSettles
<1>2. Working' = Working
  <2>1. \A m \in Attempts :
           /\ CanTrade(m)' <=> CanTrade(m)
           /\ Filled(m)' = Filled(m) /\ quantity'[m] = quantity[m]
    BY <1>1, SameView DEF Filled, CanTrade
  <2>2. \A w \in Attempts \X (1..Due) :
           (CanTrade(w[1]) /\ w[2] + Cardinality(Filled(w[1])) <= quantity[w[1]])'
             <=> CanTrade(w[1]) /\ w[2] + Cardinality(Filled(w[1])) <= quantity[w[1]]
    BY <2>1
  <2> QED
    BY <2>2 DEF Working
<1>3. CASE s # "FAILED"
  <2>1. Acquired' = Acquired
    BY <1>0, <1>1, <1>3 DEF Acquired, VenueType
  <2> QED
    BY <1>2, <2>1, SameView DEF Promise!obligation
<1>4. CASE s = "FAILED"
  <2>1. t \in Acquired /\ Acquired' = Acquired \ {t} /\ IsFiniteSet(Acquired)
    BY <1>0, <1>1, <1>4, TradesFinite DEF Acquired, VenueType
  <2>2. Cardinality(Acquired)' = Cardinality(Acquired) - 1
    BY <2>1, FS_RemoveElement
  <2>3. Cardinality(Acquired) > 0
    BY <2>1, AcquiredFinite, FS_EmptySet
  <2>4. ~IsFull
    <3>1. IsFull => execStatus[t] = "CONFIRMED"
      BY <2>1, FullFacts DEF Confirmed
    <3>2. execStatus[t] # "CONFIRMED"
      BY <1>1 DEF PromiseInv, SafeInv, FactInv, ReportInv
    <3> QED
      BY <3>1, <3>2
  <2>5. BatchView \notin {"DONE", "COVERED"}
    BY <1>0, <2>4 DEF PromiseFacts
  <2> QED
    BY <1>2, <2>2, <2>3, <2>5, SameView DEF Promise!Fail, Promise!Full
<1> QED
  BY <1>3, <1>4

LEMMA PromiseSimulates ==
    ASSUME ~Contradictions, PromiseInv, PromiseInv', [Next]_vars
    PROVE  Promise!Next \/ UNCHANGED Promise!obligation
<1>0. FactInv /\ TypeInv /\ StoredInv
  BY DEF PromiseInv, SafeInv, FactInv
<1>1. CASE IntentStep
  BY <1>1, IntentPlaces DEF Promise!Next
<1>2. CASE LedgerEffect /\ UNCHANGED <<vState, tOrder, vHist>>
  BY <1>2, RefreshShows DEF Promise!Next
<1>3. ASSUME UNCHANGED ledger, NEW n \in Attempts, NEW t \in Trades, VenueMatches(n, t)
      PROVE  Promise!Next
  BY <1>3, MatchIsFill DEF Promise!Next
<1>4. ASSUME UNCHANGED ledger, UNCHANGED <<tOrder, vHist>>, NEW n \in Attempts,
             \/ vState[n] = "ABSENT" /\ vState' = [vState EXCEPT ![n] = "LIVE"]
             \/ vState[n] = "LIVE" /\ vState' = [vState EXCEPT ![n] = "CANCELLED"]
      PROVE  Promise!Next \/ UNCHANGED Promise!obligation
  BY <1>4, OrderEnds DEF Promise!Next
<1>5. ASSUME UNCHANGED ledger, NEW t \in Trades, NEW s \in TradeStatuses, VenueSettles(t, s)
      PROVE  Promise!Next \/ UNCHANGED Promise!obligation
  BY <1>5, SettleFails DEF Promise!Next
<1>6. LedgerEffect \/ IntentStep
  BY <1>0, StepEffect
<1>7. VenueEffect
  BY <1>0, StepVenue
<1> QED
  BY <1>1, <1>2, <1>3, <1>4, <1>5, <1>6, <1>7 DEF VenueEffect

\* When answers count every fill and the venue settles a trade one way only,
\* the ledger, the task and the venue together do, through every crash, lost
\* or repeated POST and late report, what Obligation promises: one order at
\* a time, never for more than is owed, and no lot of a covered obligation
\* missing or taken back.
THEOREM HedgeImplementsObligation ==
    ASSUME ~Lagging, ~Contradictions
    PROVE  Spec => ImplementsObligation
<1>1. Init => Promise!Init
  <2> SUFFICES ASSUME Init PROVE Promise!Init
    OBVIOUS
  <2>1. PromiseFacts
    BY PromiseInit, PromiseNow
  <2>2. Acquired = {} /\ \A n \in Attempts : ~CanTrade(n)
    BY DEF Init, Acquired, CanTrade, Exists
  <2>3. ~IsFull /\ obligation.confirmed = 0
    BY ConstantsAssumption DEF Init, IsFull, ConstantsAssumption
  <2> QED
    BY <2>1, <2>2, <2>3, FS_EmptySet DEF PromiseFacts, Promise!Init
<1>2. PromiseInv /\ [Next]_vars => PromiseInv'
  BY PromiseStep
<1>3. PromiseInv /\ PromiseInv' /\ [Next]_vars => [Promise!Next]_(Promise!obligation)
  BY PromiseSimulates
<1> QED
  BY <1>1, <1>2, <1>3, PromiseInit, PTL DEF Spec, ImplementsObligation, Promise!Spec
=============================================================================
