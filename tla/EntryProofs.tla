------------------------------ MODULE EntryProofs ------------------------------
(***************************************************************************)
(* EntryQualification's EntryOnCurrentFacts for all quantities, limits and *)
(* bids, and any number of changes.  Three facts carry it: while the id is *)
(* the cycle's, the gates it computed hold again, unless it had not what   *)
(* it takes to compute them and kept an old opportunity; a published clean result *)
(* describes the ledger, because a handler withdraws it before it writes;  *)
(* and the published position is the one reconciled unless a read is       *)
(* under way.                                                              *)
(***************************************************************************)
EXTENDS EntryQualification, TLAPS

\* Every gate of the snapshot; what a window adds is read again by the send.
SnapshotGates(s) ==
    /\ VenueGates(s) /\ CrossVenueGates(s) /\ MarginGates(s) /\ PositionGates(s)
    /\ ExecutionGates(s)
    /\ ~s.alert /\ ~s.paused /\ ~s.killed /\ EconomicsGates(s)

\* The gates the cycle computed are those of the snapshot.
Carried == same /\ cyc.price # 0 /\ InputsKnown(snap) => SnapshotGates(snap)

\* A price is carried from the first step that looked for it.
Chosen == cyc.pc \in {"chosen", "preflight", "intent", "final"} => cyc.price # 0

CleanIsCurrent ==
    snap.clean => ~rec.busy /\ rec.observed = led.position /\ ~led.unhedged

\* From its invalidation to its reconciliation a handler keeps the result withdrawn.
Withdrawn == handling.pc \in {"apply", "reconcile"} => ~snap.clean

PositionPublished == ~rec.busy => snap.position = rec.observed

EntryInv ==
    TypeOK /\ Carried /\ Chosen /\ CleanIsCurrent /\ Withdrawn /\ PositionPublished

-----------------------------------------------------------------------------
(* Every step preserves the invariant *)

\* The types of TypeOK, by name: a step opens those it changes.
Snaps == [venues : BOOLEAN, market : BOOLEAN, known : BOOLEAN, bid : 0..MaxBid,
          worth : 0..MaxBid, preview : Bids, offer : 0..MaxBid, position : Nat,
          active : BOOLEAN, unhedged : BOOLEAN, clean : BOOLEAN, alert : BOOLEAN,
          paused : BOOLEAN, killed : BOOLEAN, armed : BOOLEAN]
Outsides == [hold : BOOLEAN, cutoff : BOOLEAN, halt : BOOLEAN, overflow : BOOLEAN]
Ledgers == [position : Nat, active : BOOLEAN, unhedged : BOOLEAN]
Evidence == [busy : BOOLEAN, venueSame : BOOLEAN, ledgerSame : BOOLEAN, observed : Nat]
Handlings == [pc : {"idle", "invalidate", "apply", "reconcile", "publish"},
              kind : {"none", "execution", "position", "end"}]
Cycles == [pc : {"idle", "calculated", "read", "chosen", "preflight", "intent", "final",
                 "sent", "publish"}, price : 0..MaxBid, revSame : BOOLEAN]
Venues == [own : Nat, manual : Nat, left : 0..Quantity,
           due : SUBSET {"execution", "position", "end"}]

Typed == /\ snap \in Snaps /\ same \in BOOLEAN /\ outside \in Outsides
         /\ led \in Ledgers /\ rec \in Evidence /\ handling \in Handlings
         /\ cyc \in Cycles /\ ibkr \in Venues /\ changes \in 0..MaxChanges

LEMMA TypeParts == (TypeOK <=> Typed) /\ (TypeOK' <=> Typed')
BY DEF TypeOK, Typed, Snaps, Outsides, Ledgers, Evidence, Handlings, Cycles, Venues

LEMMA TypeStep == TypeOK /\ [Next]_vars => TypeOK'
<1> SUFFICES ASSUME Typed, [Next]_vars PROVE Typed'
  BY TypeParts
<1> USE EntryAssumption DEF Bids
<1>a. /\ snap \in Snaps /\ outside \in Outsides /\ led \in Ledgers /\ rec \in Evidence
      /\ handling \in Handlings /\ cyc \in Cycles /\ ibkr \in Venues
  BY DEF Typed
<1>b. snap.bid \in 0..MaxBid /\ 0 \in 0..MaxBid /\ Offer(snap) \in 0..MaxBid
  BY <1>a DEF Snaps, Offer
<1>c. led.position \in Nat /\ led.active \in BOOLEAN /\ led.unhedged \in BOOLEAN
  BY <1>a DEF Ledgers
<1>d. rec.venueSame \in BOOLEAN /\ rec.busy \in BOOLEAN
  BY <1>a DEF Evidence
<1>e. /\ ibkr.own \in Nat /\ ibkr.manual \in Nat /\ ibkr.left \in 0..Quantity
      /\ ibkr.due \subseteq {"execution", "position", "end"}
      /\ ibkr.own + ibkr.manual \in Nat
  BY <1>a DEF Venues
<1>f. ASSUME Change PROVE changes' \in 0..MaxChanges
  BY <1>f DEF Typed, Change
<1>1. CASE Calculate
  <2>1. cyc' \in Cycles
    BY <1>1, <1>a, <1>b, <1>c, <1>d, <1>e DEF Cycles, Calculate
  <2>2. snap' \in Snaps
    BY <1>1, <1>a, <1>b DEF Snaps, Calculate
  <2> QED
    BY <1>1, <2>1, <2>2 DEF Typed, Calculate
<1>2. CASE CycleReconciles
  <2>1. snap' \in Snaps
    BY <1>2, <1>a, <1>b, <1>c, <1>d, <1>e DEF Snaps, CycleReconciles, Reconcile, Publish
  <2>2. rec' \in Evidence
    BY <1>2, <1>a, <1>b, <1>c, <1>d, <1>e DEF Evidence, CycleReconciles, Reconcile, Publish
  <2>3. cyc' \in Cycles
    BY <1>2, <1>a, <1>b, <1>c, <1>d, <1>e DEF Cycles, CycleReconciles, Reconcile, Publish
  <2> QED
    BY <1>2, <2>1, <2>2, <2>3 DEF Typed, CycleReconciles, Reconcile, Publish
<1>3. CASE CycleReads
  <2>1. cyc' \in Cycles
    BY <1>3, <1>a, <1>b, <1>c, <1>d, <1>e DEF Cycles, CycleReads
  <2> QED
    BY <1>3, <2>1 DEF Typed, CycleReads
<1>4. CASE EntryChosen
  <2>1. cyc' \in Cycles
    BY <1>4, <1>a, <1>b, <1>c, <1>d, <1>e DEF Cycles, EntryChosen
  <2> QED
    BY <1>4, <2>1 DEF Typed, EntryChosen
<1>5. CASE EntryChecked("chosen", "preflight")
  <2>1. cyc' \in Cycles
    BY <1>5, <1>a, <1>b, <1>c, <1>d, <1>e DEF Cycles, EntryChecked, Unchanged
  <2> QED
    BY <1>5, <2>1 DEF Typed, EntryChecked
<1>6. CASE EntryChecked("preflight", "intent")
  <2>1. cyc' \in Cycles
    BY <1>6, <1>a, <1>b, <1>c, <1>d, <1>e DEF Cycles, EntryChecked, Unchanged
  <2> QED
    BY <1>6, <2>1 DEF Typed, EntryChecked
<1>7. CASE PreflightFails
  <2>1. snap' \in Snaps
    BY <1>7, <1>a, <1>b, <1>c, <1>d, <1>e DEF Snaps, PreflightFails, Publish, Change
  <2>2. cyc' \in Cycles
    BY <1>7, <1>a, <1>b, <1>c, <1>d, <1>e DEF Cycles, PreflightFails, Publish, Change
  <2> QED
    BY <1>7, <2>1, <2>2, <1>f DEF Typed, PreflightFails, Publish
<1>8. CASE EntryIntent
  <2>1. led' \in Ledgers
    BY <1>8, <1>a, <1>b, <1>c, <1>d, <1>e DEF Ledgers, EntryIntent
  <2>2. rec' \in Evidence
    BY <1>8, <1>a, <1>b, <1>c, <1>d, <1>e DEF Evidence, EntryIntent
  <2>3. cyc' \in Cycles
    BY <1>8, <1>a, <1>b, <1>c, <1>d, <1>e DEF Cycles, EntryIntent
  <2> QED
    BY <1>8, <2>1, <2>2, <2>3 DEF Typed, EntryIntent
<1>9. CASE EntrySends
  <2>1. cyc' \in Cycles
    BY <1>9, <1>a, <1>b, <1>c, <1>d, <1>e DEF Cycles, EntrySends, MayEnter, Unchanged
  <2>2. ibkr' \in Venues
    BY <1>9, <1>a, <1>b, <1>c, <1>d, <1>e DEF Venues, EntrySends, MayEnter, Unchanged
  <2> QED
    BY <1>9, <2>1, <2>2 DEF Typed, EntrySends
<1>10. CASE EntryAbandons
  <2>1. led' \in Ledgers
    BY <1>10, <1>a, <1>b, <1>c, <1>d, <1>e DEF Ledgers, EntryAbandons, MayEnter, Unchanged
  <2>2. cyc' \in Cycles
    BY <1>10, <1>a, <1>b, <1>c, <1>d, <1>e DEF Cycles, EntryAbandons, MayEnter, Unchanged
  <2> QED
    BY <1>10, <2>1, <2>2 DEF Typed, EntryAbandons
<1>11. CASE EntryInvalidates
  <2>1. snap' \in Snaps
    BY <1>11, <1>a, <1>b, <1>c, <1>d, <1>e DEF Snaps, EntryInvalidates, Publish
  <2>2. cyc' \in Cycles
    BY <1>11, <1>a, <1>b, <1>c, <1>d, <1>e DEF Cycles, EntryInvalidates, Publish
  <2> QED
    BY <1>11, <2>1, <2>2 DEF Typed, EntryInvalidates, Publish
<1>12. CASE CyclePublishes
  <2>1. snap' \in Snaps
    BY <1>12, <1>a, <1>b, <1>c, <1>d, <1>e DEF Snaps, CyclePublishes, LedgerPublished,
      Publish
  <2>2. cyc' \in Cycles
    BY <1>12, <1>a, <1>b, <1>c, <1>d, <1>e DEF Cycles, CyclePublishes, LedgerPublished,
      Publish
  <2> QED
    BY <1>12, <2>1, <2>2 DEF Typed, CyclePublishes, LedgerPublished, Publish
<1>13. ASSUME NEW kind \in ibkr.due, CallbackNoted(kind) PROVE Typed'
  <2>1. rec' \in Evidence
    BY <1>13, <1>a, <1>b, <1>c, <1>d, <1>e DEF Evidence, CallbackNoted
  <2>2. handling' \in Handlings
    BY <1>13, <1>a, <1>b, <1>c, <1>d, <1>e DEF Handlings, CallbackNoted
  <2>3. ibkr' \in Venues
    BY <1>13, <1>a, <1>b, <1>c, <1>d, <1>e DEF Venues, CallbackNoted
  <2> QED
    BY <1>13, <2>1, <2>2, <2>3 DEF Typed, CallbackNoted
<1>14. CASE CallbackInvalidates
  <2>1. snap' \in Snaps
    BY <1>14, <1>a, <1>b, <1>c, <1>d, <1>e DEF Snaps, CallbackInvalidates, Publish
  <2>2. handling' \in Handlings
    BY <1>14, <1>a, <1>b, <1>c, <1>d, <1>e DEF Handlings, CallbackInvalidates, Publish
  <2> QED
    BY <1>14, <2>1, <2>2 DEF Typed, CallbackInvalidates, Publish
<1>15. CASE ExecutionRecorded
  <2>1. led' \in Ledgers
    BY <1>15, <1>a, <1>b, <1>c, <1>d, <1>e DEF Ledgers, ExecutionRecorded, Applies
  <2>2. rec' \in Evidence
    BY <1>15, <1>a, <1>b, <1>c, <1>d, <1>e DEF Evidence, ExecutionRecorded, Applies
  <2>3. handling' \in Handlings
    BY <1>15, <1>a, <1>b, <1>c, <1>d, <1>e DEF Handlings, ExecutionRecorded, Applies
  <2>4. cyc' \in Cycles
    BY <1>15, <1>a, <1>b, <1>c, <1>d, <1>e DEF Cycles, ExecutionRecorded, Applies
  <2> QED
    BY <1>15, <2>1, <2>2, <2>3, <2>4 DEF Typed, ExecutionRecorded, Applies
<1>16. CASE PositionObserved
  <2>1. snap' \in Snaps
    BY <1>16, <1>a, <1>b, <1>c, <1>d, <1>e DEF Snaps, PositionObserved, Publish, Applies
  <2>2. rec' \in Evidence
    BY <1>16, <1>a, <1>b, <1>c, <1>d, <1>e DEF Evidence, PositionObserved, Publish, Applies
  <2>3. handling' \in Handlings
    BY <1>16, <1>a, <1>b, <1>c, <1>d, <1>e DEF Handlings, PositionObserved, Publish,
      Applies
  <2> QED
    BY <1>16, <2>1, <2>2, <2>3 DEF Typed, PositionObserved, Publish, Applies
<1>17. CASE ReadEnds
  <2>1. snap' \in Snaps
    BY <1>17, <1>a, <1>b, <1>c, <1>d, <1>e DEF Snaps, ReadEnds, Publish, Applies
  <2>2. rec' \in Evidence
    BY <1>17, <1>a, <1>e DEF Evidence, ReadEnds
  <2>3. handling' \in Handlings
    BY <1>17, <1>a, <1>b, <1>c, <1>d, <1>e DEF Handlings, ReadEnds, Publish, Applies
  <2> QED
    BY <1>17, <2>1, <2>2, <2>3 DEF Typed, ReadEnds, Publish, Applies
<1>18. CASE CallbackReconciles
  <2>1. snap' \in Snaps
    BY <1>18, <1>a, <1>b, <1>c, <1>d, <1>e DEF Snaps, CallbackReconciles, Reconcile,
      Publish
  <2>2. rec' \in Evidence
    BY <1>18, <1>a, <1>b, <1>c, <1>d, <1>e DEF Evidence, CallbackReconciles, Reconcile,
      Publish
  <2>3. handling' \in Handlings
    BY <1>18, <1>a, <1>b, <1>c, <1>d, <1>e DEF Handlings, CallbackReconciles, Reconcile,
      Publish
  <2>4. cyc' \in Cycles
    BY <1>18, <1>a, <1>b, <1>c, <1>d, <1>e DEF Cycles, CallbackReconciles, Reconcile,
      Publish
  <2> QED
    BY <1>18, <2>1, <2>2, <2>3, <2>4 DEF Typed, CallbackReconciles, Reconcile, Publish
<1>19. CASE CallbackPublishes
  <2>1. snap' \in Snaps
    BY <1>19, <1>a, <1>b, <1>c, <1>d, <1>e DEF Snaps, CallbackPublishes, LedgerPublished,
      Publish
  <2>2. handling' \in Handlings
    BY <1>19, <1>a, <1>b, <1>c, <1>d, <1>e DEF Handlings, CallbackPublishes,
      LedgerPublished, Publish
  <2> QED
    BY <1>19, <2>1, <2>2 DEF Typed, CallbackPublishes, LedgerPublished, Publish
<1>20. CASE ReadBegins
  <2>1. snap' \in Snaps
    BY <1>20, <1>a, <1>b, <1>c, <1>d, <1>e DEF Snaps, ReadBegins, Publish, Change
  <2>2. rec' \in Evidence
    BY <1>20, <1>a, <1>b, <1>c, <1>d, <1>e DEF Evidence, ReadBegins, Publish, Change
  <2>3. ibkr' \in Venues
    BY <1>20, <1>a, <1>b, <1>c, <1>d, <1>e DEF Venues, ReadBegins, Publish, Change
  <2> QED
    BY <1>20, <2>1, <2>2, <2>3, <1>f DEF Typed, ReadBegins, Publish
<1>21. CASE HedgesSettle
  <2>1. led' \in Ledgers
    BY <1>21, <1>a, <1>b, <1>c, <1>d, <1>e DEF Ledgers, HedgesSettle
  <2>2. rec' \in Evidence
    BY <1>21, <1>a, <1>b, <1>c, <1>d, <1>e DEF Evidence, HedgesSettle
  <2>3. cyc' \in Cycles
    BY <1>21, <1>a, <1>b, <1>c, <1>d, <1>e DEF Cycles, HedgesSettle
  <2> QED
    BY <1>21, <2>1, <2>2, <2>3 DEF Typed, HedgesSettle
<1>22. CASE MarketMoves
  <2>1. snap' \in Snaps
    BY <1>22, <1>a, <1>b, <1>c, <1>d, <1>e DEF Snaps, MarketMoves, Publish, Change
  <2> QED
    BY <1>22, <2>1, <1>f DEF Typed, MarketMoves, Publish
<1>23. CASE PreviewArrives
  <2>1. snap' \in Snaps
    BY <1>23, <1>a, <1>b, <1>c, <1>d, <1>e DEF Snaps, PreviewArrives, Publish, Change
  <2> QED
    BY <1>23, <2>1, <1>f DEF Typed, PreviewArrives, Publish
<1>24. CASE OperatorControls
  <2>1. snap' \in Snaps
    BY <1>24, <1>a, <1>b, <1>c, <1>d, <1>e DEF Snaps, OperatorControls, Publish, Change
  <2> QED
    BY <1>24, <2>1, <1>f DEF Typed, OperatorControls, Publish
<1>25. CASE Halt
  <2>1. outside' \in Outsides
    BY <1>25, <1>a, <1>b, <1>c, <1>d, <1>e DEF Outsides, Halt, Change
  <2> QED
    BY <1>25, <2>1, <1>f DEF Typed, Halt
<1>26. CASE HaltPublished
  <2>1. snap' \in Snaps
    BY <1>26, <1>a, <1>b, <1>c, <1>d, <1>e DEF Snaps, HaltPublished, Publish
  <2> QED
    BY <1>26, <2>1 DEF Typed, HaltPublished, Publish
<1>27. CASE OutsideMoves
  <2>1. outside' \in Outsides
    BY <1>27, <1>a, <1>b, <1>c, <1>d, <1>e DEF Outsides, OutsideMoves, Change
  <2> QED
    BY <1>27, <2>1, <1>f DEF Typed, OutsideMoves
<1>28. CASE IbkrFills
  <2>1. /\ ibkr.own + 1 \in Nat /\ ibkr.left - 1 \in 0..Quantity
        /\ ibkr.due \cup {"execution", "position"} \subseteq {"execution", "position",
          "end"}
    BY <1>28, <1>e DEF IbkrFills
  <2>2. ibkr' \in Venues
    BY <1>28, <1>a, <2>1 DEF Venues, IbkrFills
  <2> QED
    BY <1>28, <2>2 DEF Typed, IbkrFills
<1>29. CASE ManualTrade
  <2>1. /\ ibkr.manual + 1 \in Nat
        /\ ibkr.due \cup {"position"} \subseteq {"execution", "position", "end"}
    BY <1>e
  <2>2. ibkr' \in Venues
    BY <1>29, <1>a, <2>1 DEF Venues, ManualTrade
  <2> QED
    BY <1>29, <2>2, <1>f DEF Typed, ManualTrade
<1>30. CASE VenuesChange
  <2>1. snap' \in Snaps
    BY <1>30, <1>a DEF Snaps, VenuesChange, Publish
  <2> QED
    BY <1>30, <2>1, <1>f DEF Typed, VenuesChange, Publish
<1>31. CASE UNCHANGED vars
  BY <1>31 DEF Typed, vars
<1> QED
  BY <1>1, <1>2, <1>3, <1>4, <1>5, <1>6, <1>7, <1>8, <1>9, <1>10, <1>11, <1>12, <1>13,
    <1>14, <1>15, <1>16, <1>17, <1>18, <1>19, <1>20, <1>21, <1>22, <1>23, <1>24, <1>25,
    <1>26, <1>27, <1>28, <1>29, <1>30, <1>31 DEF Next

\* A publication gives the snapshot another id, and nothing else changes it.
LEMMA CarriedStep == TypeOK /\ Carried /\ [Next]_vars => Carried'
<1> SUFFICES ASSUME TypeOK, Carried, [Next]_vars PROVE Carried'
  OBVIOUS
<1> USE DEF TypeOK, Carried
<1>1. CASE Calculate
  <2> SUFFICES ASSUME cyc'.price # 0, InputsKnown(snap') PROVE SnapshotGates(snap')
    OBVIOUS
  <2>1. snap' = [snap EXCEPT !.offer = Offer(snap)] /\ cyc'.price = Offer(snap)
    BY <1>1 DEF Calculate
  <2>2. InputsKnown(snap)
    BY <2>1 DEF InputsKnown
  <2>3. Gates(snap)
    BY <2>1, <2>2 DEF Offer
  <2> QED
    BY <2>1, <2>3 DEF Gates, OperationGates, SnapshotGates, VenueGates, CrossVenueGates,
      InputsKnown, MarginGates, PositionGates, ExecutionGates, EconomicsGates
<1>2. CASE CycleReconciles
  BY <1>2 DEF CycleReconciles, Reconcile, Publish
<1>3. CASE CycleReads
  BY <1>3 DEF CycleReads
<1>4. CASE EntryChosen
  BY <1>4 DEF EntryChosen, Authorized
<1>5. CASE EntryChecked("chosen", "preflight")
  BY <1>5 DEF EntryChecked, Unchanged
<1>6. CASE EntryChecked("preflight", "intent")
  BY <1>6 DEF EntryChecked, Unchanged
<1>7. CASE PreflightFails
  BY <1>7 DEF PreflightFails, Publish, Change
<1>8. CASE EntryIntent
  BY <1>8 DEF EntryIntent
<1>9. CASE EntrySends
  BY <1>9 DEF EntrySends, MayEnter, Unchanged, Authorized
<1>10. CASE EntryAbandons
  BY <1>10 DEF EntryAbandons, MayEnter, Unchanged, Authorized
<1>11. CASE EntryInvalidates
  BY <1>11 DEF EntryInvalidates, Publish
<1>12. CASE CyclePublishes
  BY <1>12 DEF CyclePublishes, LedgerPublished, Publish
<1>13. ASSUME NEW kind \in ibkr.due, CallbackNoted(kind) PROVE Carried'
  BY <1>13 DEF CallbackNoted
<1>14. CASE CallbackInvalidates
  BY <1>14 DEF CallbackInvalidates, Publish
<1>15. CASE ExecutionRecorded
  BY <1>15 DEF ExecutionRecorded, Applies
<1>16. CASE PositionObserved
  BY <1>16 DEF PositionObserved, Publish, Applies
<1>17. CASE ReadEnds
  BY <1>17 DEF ReadEnds, Publish, Applies
<1>18. CASE CallbackReconciles
  BY <1>18 DEF CallbackReconciles, Reconcile, Publish
<1>19. CASE CallbackPublishes
  BY <1>19 DEF CallbackPublishes, LedgerPublished, Publish
<1>20. CASE ReadBegins
  BY <1>20 DEF ReadBegins, Publish, Change
<1>21. CASE HedgesSettle
  BY <1>21 DEF HedgesSettle
<1>22. CASE MarketMoves
  BY <1>22 DEF MarketMoves, Publish, Change
<1>23. CASE PreviewArrives
  BY <1>23 DEF PreviewArrives, Publish, Change
<1>24. CASE OperatorControls
  BY <1>24 DEF OperatorControls, Publish, Change
<1>25. CASE Halt
  BY <1>25 DEF Halt, Change
<1>26. CASE HaltPublished
  BY <1>26 DEF HaltPublished, Publish
<1>27. CASE OutsideMoves
  BY <1>27 DEF OutsideMoves, Change
<1>28. CASE IbkrFills
  BY <1>28 DEF IbkrFills
<1>29. CASE ManualTrade
  BY <1>29 DEF ManualTrade, Change
<1>30. CASE VenuesChange
  BY <1>30 DEF VenuesChange, Publish, Change
<1>31. CASE UNCHANGED vars
  BY <1>31 DEF vars
<1> QED
  BY <1>1, <1>2, <1>3, <1>4, <1>5, <1>6, <1>7, <1>8, <1>9, <1>10, <1>11, <1>12, <1>13,
    <1>14, <1>15, <1>16, <1>17, <1>18, <1>19, <1>20, <1>21, <1>22, <1>23, <1>24, <1>25,
    <1>26, <1>27, <1>28, <1>29, <1>30, <1>31 DEF Next

LEMMA ChosenStep == TypeOK /\ Chosen /\ [Next]_vars => Chosen'
<1> SUFFICES ASSUME TypeOK, Chosen, [Next]_vars PROVE Chosen'
  OBVIOUS
<1> USE DEF TypeOK, Chosen
<1>1. CASE Calculate
  BY <1>1 DEF Calculate
<1>2. CASE CycleReconciles
  BY <1>2 DEF CycleReconciles, Reconcile, Publish
<1>3. CASE CycleReads
  BY <1>3 DEF CycleReads
<1>4. CASE EntryChosen
  BY <1>4 DEF EntryChosen, Authorized
<1>5. CASE EntryChecked("chosen", "preflight")
  BY <1>5 DEF EntryChecked, Unchanged
<1>6. CASE EntryChecked("preflight", "intent")
  BY <1>6 DEF EntryChecked, Unchanged
<1>7. CASE PreflightFails
  BY <1>7 DEF PreflightFails, Publish, Change
<1>8. CASE EntryIntent
  BY <1>8 DEF EntryIntent
<1>9. CASE EntrySends
  BY <1>9 DEF EntrySends, MayEnter, Unchanged, Authorized
<1>10. CASE EntryAbandons
  BY <1>10 DEF EntryAbandons, MayEnter, Unchanged, Authorized
<1>11. CASE EntryInvalidates
  BY <1>11 DEF EntryInvalidates, Publish
<1>12. CASE CyclePublishes
  BY <1>12 DEF CyclePublishes, LedgerPublished, Publish
<1>13. ASSUME NEW kind \in ibkr.due, CallbackNoted(kind) PROVE Chosen'
  BY <1>13 DEF CallbackNoted
<1>14. CASE CallbackInvalidates
  BY <1>14 DEF CallbackInvalidates, Publish
<1>15. CASE ExecutionRecorded
  BY <1>15 DEF ExecutionRecorded, Applies
<1>16. CASE PositionObserved
  BY <1>16 DEF PositionObserved, Publish, Applies
<1>17. CASE ReadEnds
  BY <1>17 DEF ReadEnds, Publish, Applies
<1>18. CASE CallbackReconciles
  BY <1>18 DEF CallbackReconciles, Reconcile, Publish
<1>19. CASE CallbackPublishes
  BY <1>19 DEF CallbackPublishes, LedgerPublished, Publish
<1>20. CASE ReadBegins
  BY <1>20 DEF ReadBegins, Publish, Change
<1>21. CASE HedgesSettle
  BY <1>21 DEF HedgesSettle
<1>22. CASE MarketMoves
  BY <1>22 DEF MarketMoves, Publish, Change
<1>23. CASE PreviewArrives
  BY <1>23 DEF PreviewArrives, Publish, Change
<1>24. CASE OperatorControls
  BY <1>24 DEF OperatorControls, Publish, Change
<1>25. CASE Halt
  BY <1>25 DEF Halt, Change
<1>26. CASE HaltPublished
  BY <1>26 DEF HaltPublished, Publish
<1>27. CASE OutsideMoves
  BY <1>27 DEF OutsideMoves, Change
<1>28. CASE IbkrFills
  BY <1>28 DEF IbkrFills
<1>29. CASE ManualTrade
  BY <1>29 DEF ManualTrade, Change
<1>30. CASE VenuesChange
  BY <1>30 DEF VenuesChange, Publish, Change
<1>31. CASE UNCHANGED vars
  BY <1>31 DEF vars
<1> QED
  BY <1>1, <1>2, <1>3, <1>4, <1>5, <1>6, <1>7, <1>8, <1>9, <1>10, <1>11, <1>12, <1>13,
    <1>14, <1>15, <1>16, <1>17, <1>18, <1>19, <1>20, <1>21, <1>22, <1>23, <1>24, <1>25,
    <1>26, <1>27, <1>28, <1>29, <1>30, <1>31 DEF Next

\* A handler writes the ledger and the position only after it withdrew the
\* result, and no one reconciles before it has.
LEMMA CleanStep ==
    TypeOK /\ CleanIsCurrent /\ Withdrawn /\ [Next]_vars => CleanIsCurrent' /\ Withdrawn'
<1> SUFFICES ASSUME TypeOK, CleanIsCurrent, Withdrawn, [Next]_vars
             PROVE CleanIsCurrent' /\ Withdrawn'
  OBVIOUS
<1> USE DEF TypeOK, CleanIsCurrent, Withdrawn
<1>1. CASE Calculate
  BY <1>1 DEF Calculate
<1>2. CASE CycleReconciles
  BY <1>2 DEF CycleReconciles, Reconcile, Publish
<1>3. CASE CycleReads
  BY <1>3 DEF CycleReads
<1>4. CASE EntryChosen
  BY <1>4 DEF EntryChosen, Authorized
<1>5. CASE EntryChecked("chosen", "preflight")
  BY <1>5 DEF EntryChecked, Unchanged
<1>6. CASE EntryChecked("preflight", "intent")
  BY <1>6 DEF EntryChecked, Unchanged
<1>7. CASE PreflightFails
  BY <1>7 DEF PreflightFails, Publish, Change
<1>8. CASE EntryIntent
  BY <1>8 DEF EntryIntent
<1>9. CASE EntrySends
  BY <1>9 DEF EntrySends, MayEnter, Unchanged, Authorized
<1>10. CASE EntryAbandons
  BY <1>10 DEF EntryAbandons, MayEnter, Unchanged, Authorized
<1>11. CASE EntryInvalidates
  BY <1>11 DEF EntryInvalidates, Publish
<1>12. CASE CyclePublishes
  BY <1>12 DEF CyclePublishes, LedgerPublished, Publish
<1>13. ASSUME NEW kind \in ibkr.due, CallbackNoted(kind) PROVE (CleanIsCurrent /\
  Withdrawn)'
  BY <1>13 DEF CallbackNoted
<1>14. CASE CallbackInvalidates
  BY <1>14 DEF CallbackInvalidates, Publish
<1>15. CASE ExecutionRecorded
  BY <1>15 DEF ExecutionRecorded, Applies
<1>16. CASE PositionObserved
  BY <1>16 DEF PositionObserved, Publish, Applies
<1>17. CASE ReadEnds
  BY <1>17 DEF ReadEnds, Publish, Applies
<1>18. CASE CallbackReconciles
  BY <1>18 DEF CallbackReconciles, Reconcile, Publish
<1>19. CASE CallbackPublishes
  BY <1>19 DEF CallbackPublishes, LedgerPublished, Publish
<1>20. CASE ReadBegins
  BY <1>20 DEF ReadBegins, Publish, Change
<1>21. CASE HedgesSettle
  BY <1>21 DEF HedgesSettle
<1>22. CASE MarketMoves
  BY <1>22 DEF MarketMoves, Publish, Change
<1>23. CASE PreviewArrives
  BY <1>23 DEF PreviewArrives, Publish, Change
<1>24. CASE OperatorControls
  BY <1>24 DEF OperatorControls, Publish, Change
<1>25. CASE Halt
  BY <1>25 DEF Halt, Change
<1>26. CASE HaltPublished
  BY <1>26 DEF HaltPublished, Publish
<1>27. CASE OutsideMoves
  BY <1>27 DEF OutsideMoves, Change
<1>28. CASE IbkrFills
  BY <1>28 DEF IbkrFills
<1>29. CASE ManualTrade
  BY <1>29 DEF ManualTrade, Change
<1>30. CASE VenuesChange
  BY <1>30 DEF VenuesChange, Publish, Change
<1>31. CASE UNCHANGED vars
  BY <1>31 DEF vars
<1> QED
  BY <1>1, <1>2, <1>3, <1>4, <1>5, <1>6, <1>7, <1>8, <1>9, <1>10, <1>11, <1>12, <1>13,
    <1>14, <1>15, <1>16, <1>17, <1>18, <1>19, <1>20, <1>21, <1>22, <1>23, <1>24, <1>25,
    <1>26, <1>27, <1>28, <1>29, <1>30, <1>31 DEF Next

LEMMA PositionStep == TypeOK /\ PositionPublished /\ [Next]_vars => PositionPublished'
<1> SUFFICES ASSUME TypeOK, PositionPublished, [Next]_vars PROVE PositionPublished'
  OBVIOUS
<1> USE DEF TypeOK, PositionPublished
<1>1. CASE Calculate
  BY <1>1 DEF Calculate
<1>2. CASE CycleReconciles
  BY <1>2 DEF CycleReconciles, Reconcile, Publish
<1>3. CASE CycleReads
  BY <1>3 DEF CycleReads
<1>4. CASE EntryChosen
  BY <1>4 DEF EntryChosen, Authorized
<1>5. CASE EntryChecked("chosen", "preflight")
  BY <1>5 DEF EntryChecked, Unchanged
<1>6. CASE EntryChecked("preflight", "intent")
  BY <1>6 DEF EntryChecked, Unchanged
<1>7. CASE PreflightFails
  BY <1>7 DEF PreflightFails, Publish, Change
<1>8. CASE EntryIntent
  BY <1>8 DEF EntryIntent
<1>9. CASE EntrySends
  BY <1>9 DEF EntrySends, MayEnter, Unchanged, Authorized
<1>10. CASE EntryAbandons
  BY <1>10 DEF EntryAbandons, MayEnter, Unchanged, Authorized
<1>11. CASE EntryInvalidates
  BY <1>11 DEF EntryInvalidates, Publish
<1>12. CASE CyclePublishes
  BY <1>12 DEF CyclePublishes, LedgerPublished, Publish
<1>13. ASSUME NEW kind \in ibkr.due, CallbackNoted(kind) PROVE PositionPublished'
  BY <1>13 DEF CallbackNoted
<1>14. CASE CallbackInvalidates
  BY <1>14 DEF CallbackInvalidates, Publish
<1>15. CASE ExecutionRecorded
  BY <1>15 DEF ExecutionRecorded, Applies
<1>16. CASE PositionObserved
  BY <1>16 DEF PositionObserved, Publish, Applies
<1>17. CASE ReadEnds
  BY <1>17 DEF ReadEnds, Publish, Applies
<1>18. CASE CallbackReconciles
  BY <1>18 DEF CallbackReconciles, Reconcile, Publish
<1>19. CASE CallbackPublishes
  BY <1>19 DEF CallbackPublishes, LedgerPublished, Publish
<1>20. CASE ReadBegins
  BY <1>20 DEF ReadBegins, Publish, Change
<1>21. CASE HedgesSettle
  BY <1>21 DEF HedgesSettle
<1>22. CASE MarketMoves
  BY <1>22 DEF MarketMoves, Publish, Change
<1>23. CASE PreviewArrives
  BY <1>23 DEF PreviewArrives, Publish, Change
<1>24. CASE OperatorControls
  BY <1>24 DEF OperatorControls, Publish, Change
<1>25. CASE Halt
  BY <1>25 DEF Halt, Change
<1>26. CASE HaltPublished
  BY <1>26 DEF HaltPublished, Publish
<1>27. CASE OutsideMoves
  BY <1>27 DEF OutsideMoves, Change
<1>28. CASE IbkrFills
  BY <1>28 DEF IbkrFills
<1>29. CASE ManualTrade
  BY <1>29 DEF ManualTrade, Change
<1>30. CASE VenuesChange
  BY <1>30 DEF VenuesChange, Publish, Change
<1>31. CASE UNCHANGED vars
  BY <1>31 DEF vars
<1> QED
  BY <1>1, <1>2, <1>3, <1>4, <1>5, <1>6, <1>7, <1>8, <1>9, <1>10, <1>11, <1>12, <1>13,
    <1>14, <1>15, <1>16, <1>17, <1>18, <1>19, <1>20, <1>21, <1>22, <1>23, <1>24, <1>25,
    <1>26, <1>27, <1>28, <1>29, <1>30, <1>31 DEF Next

LEMMA EntryStart == Init => EntryInv
<1> SUFFICES ASSUME Init PROVE EntryInv
  OBVIOUS
<1>1. 1 \in Bids /\ 1 \in 0..MaxBid /\ 0 \in 0..MaxBid /\ 0 \in 0..Quantity
      /\ 0 \in 0..MaxChanges
  BY EntryAssumption DEF Bids
<1>2. snap \in Snaps /\ outside \in Outsides /\ led \in Ledgers
  BY <1>1 DEF Init, Snaps, Outsides, Ledgers
<1>3. rec \in Evidence /\ handling \in Handlings
  BY <1>1 DEF Init, Evidence, Handlings
<1>4. cyc \in Cycles /\ ibkr \in Venues
  BY <1>1 DEF Init, Cycles, Venues
<1>5. same \in BOOLEAN /\ changes \in 0..MaxChanges
  BY <1>1 DEF Init
<1>6. TypeOK
  BY <1>2, <1>3, <1>4, <1>5, TypeParts DEF Typed
<1> QED
  BY <1>6 DEF Init, EntryInv, Carried, Chosen, CleanIsCurrent, Withdrawn, PositionPublished

LEMMA EntryStep == EntryInv /\ [Next]_vars => EntryInv'
BY TypeStep, CarriedStep, ChosenStep, CleanStep, PositionStep DEF EntryInv

-----------------------------------------------------------------------------
(* The action property *)

\* Only a send adds to what is working at IBKR.
LEMMA OnlySends ==
    TypeOK /\ [Next]_vars /\ ibkr'.left > ibkr.left => EntrySends
<1> SUFFICES ASSUME TypeOK, [Next]_vars, ibkr'.left > ibkr.left, ~EntrySends
             PROVE FALSE
  OBVIOUS
<1>1. ibkr.left \in Int /\ ibkr \in Venues
  BY TypeParts, EntryAssumption DEF Typed, Venues
<1>2. ibkr' # ibkr
  BY <1>1
<1>3. \/ \E kind \in ibkr.due : CallbackNoted(kind)
      \/ ReadBegins \/ IbkrFills \/ ManualTrade
  BY <1>2 DEF Next, vars, Calculate, CycleReconciles, CycleReads, EntryChosen, EntryChecked,
    PreflightFails, EntryIntent, EntryAbandons, EntryInvalidates, CyclePublishes,
    CallbackInvalidates, ExecutionRecorded, PositionObserved, ReadEnds, CallbackReconciles,
    CallbackPublishes, HedgesSettle, MarketMoves, VenuesChange, PreviewArrives,
      OperatorControls, Halt,
    HaltPublished, OutsideMoves
<1>4. ibkr'.left = ibkr.left \/ ibkr'.left = ibkr.left - 1
  BY <1>1, <1>3 DEF CallbackNoted, ReadBegins, IbkrFills, ManualTrade, Venues
<1> QED
  BY <1>1, <1>4

\* What the final check reads, with the invariant.
LEMMA SendsOnFacts ==
    EntryInv /\ EntrySends =>
        /\ cyc.price = snap.bid
        /\ snap.armed /\ ~snap.paused /\ ~outside.halt /\ ~led.unhedged
        /\ InputsKnown(snap) => Gates(snap) /\ led.position + Quantity <= Limit
<1> SUFFICES ASSUME EntryInv, EntrySends
             PROVE /\ cyc.price = snap.bid
                   /\ snap.armed /\ ~snap.paused /\ ~outside.halt /\ ~led.unhedged
                   /\ InputsKnown(snap) => Gates(snap) /\ led.position + Quantity <= Limit
  OBVIOUS
<1>1. same /\ snap.bid = cyc.price /\ cyc.price # 0 /\ Authorized(cyc.revSame)
  BY DEF EntryInv, Chosen, EntrySends, MayEnter, Unchanged
<1>2. InputsKnown(snap) => SnapshotGates(snap)
  BY <1>1 DEF EntryInv, Carried
<1>3. snap.position = led.position /\ ~led.unhedged
  BY <1>1 DEF EntryInv, CleanIsCurrent, PositionPublished, Authorized
<1> QED
  BY <1>1, <1>2, <1>3 DEF Authorized, SnapshotGates, Gates, OperationGates, PositionGates

\* For any quantity, limit and prices, however the market, the operator, the
\* handlers and the hedges interleave with the cycle: an order is sent only at
\* the bid, authorized and with nothing unhedged, and, unless an input of the
\* opportunity is missing, with every gate passed and within the limit by the
\* ledger too.
THEOREM EntriesOnCurrentFacts == Spec => EntryOnCurrentFacts
<1> DEFINE Fact ==
      ibkr'.left > ibkr.left =>
          /\ cyc.price = snap.bid
          /\ snap.armed /\ ~snap.paused /\ ~outside.halt /\ ~led.unhedged
          /\ InputsKnown(snap) => Gates(snap) /\ led.position + Quantity <= Limit
<1>1. Init => EntryInv
  BY EntryStart
<1>2. EntryInv /\ [Next]_vars => EntryInv'
  BY EntryStep
<1>3. EntryInv /\ [Next]_vars => Fact
  BY OnlySends, SendsOnFacts DEF EntryInv
<1>4. Spec => [][Fact]_vars
  BY <1>1, <1>2, <1>3, PTL DEF Spec
<1> QED
  BY <1>4 DEF EntryOnCurrentFacts

=============================================================================
