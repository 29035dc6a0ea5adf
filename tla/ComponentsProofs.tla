--------------------------- MODULE ComponentsProofs ---------------------------
(***************************************************************************)
(* The safety properties of the smaller components, for all bounds of      *)
(* MCComponents.  Each part's steps are its module's, whichever part a     *)
(* behaviour runs, so each has an inductive invariant of its own.          *)
(***************************************************************************)
EXTENDS SizingProofs, EntryProofs, SequenceTheorems

-----------------------------------------------------------------------------
(* Margin previews *)

OrderEvents == {"open_order", "completed_order", "order_status"}
PreviewEvents == {"margin_preview_requested", "margin_preview", "preview_error"}

\* An id is a preview's or an order's, for good; what is queued as an order's
\* callback is one.
PreviewInv ==
    /\ pNextId \in 1..(PreviewIds + 1)
    /\ pKnown = pAsked /\ pAsked \cap pPlaced = {}
    /\ pAsked \cup pPlaced \subseteq 1..(pNextId - 1)
    /\ pContext \subseteq pKnown
    /\ pWaiting \in pAsked \cup {0}
    /\ pPreview \in [status : {"UNAVAILABLE", "PENDING", "AVAILABLE", "FAILED"},
                     id : pAsked \cup {0}]
    /\ pPending \in Seq([kind : OrderEvents, id : pPlaced] \cup
                        [kind : PreviewEvents, id : pAsked] \cup
                        [kind : {"error"}, id : pAsked \cup pPlaced])
    /\ pOrderIds \subseteq pPlaced

LEMMA PreviewStart == ComponentsInit => PreviewInv
BY PartsAssumption DEF ComponentsInit, Preview!Init, PreviewInv

LEMMA PreviewStep == PreviewInv /\ [Preview!Next]_previewVars => PreviewInv'
<1> SUFFICES ASSUME PreviewInv, [Preview!Next]_previewVars PROVE PreviewInv'
  OBVIOUS
<1> DEFINE Events(orders, previews) ==
      [kind : OrderEvents, id : orders] \cup [kind : PreviewEvents, id : previews]
        \cup [kind : {"error"}, id : previews \cup orders]
<1> USE DEF PreviewInv, Preview!Queue, OrderEvents, PreviewEvents
<1>0. /\ pNextId \in Nat /\ pPending \in Seq(Events(pPlaced, pAsked))
      /\ PreviewIds \in Nat
  BY PartsAssumption
<1>q. ASSUME NEW e \in Events(pPlaced, pAsked), pPending' = Append(pPending, e)
      PROVE  pPending' \in Seq(Events(pPlaced, pAsked))
  BY <1>0, <1>q, AppendProperties
<1>m. ASSUME NEW orders, NEW previews, pPlaced \subseteq orders, pAsked \subseteq previews
      PROVE  pPending \in Seq(Events(orders, previews))
  <2>1. Events(pPlaced, pAsked) \subseteq Events(orders, previews)
    BY <1>m
  <2> QED
    BY <1>0, <2>1
<1>1. CASE Preview!RequestPreview
  <2>1. pAsked' = pAsked \cup {pNextId} /\ pPlaced' = pPlaced
    BY <1>1 DEF Preview!RequestPreview
  <2>2. pPending' \in Seq(Events(pPlaced', pAsked'))
    <3>1. pPending \in Seq(Events(pPlaced', pAsked'))
      BY <2>1, <1>m
    <3>2. [kind |-> "margin_preview_requested", id |-> pNextId] \in Events(pPlaced', pAsked')
      BY <2>1
    <3> QED
      BY <1>1, <3>1, <3>2, AppendProperties DEF Preview!RequestPreview
  <2>3. pNextId' \in 1..(PreviewIds + 1) /\ pAsked' \cup pPlaced' \subseteq 1..(pNextId' - 1)
    BY <1>1, <1>0 DEF Preview!RequestPreview
  <2>4. pAsked' \cap pPlaced' = {}
    BY <2>1, <1>0
  <2> QED
    BY <1>1, <2>1, <2>2, <2>3, <2>4 DEF Preview!RequestPreview
<1>2. CASE Preview!PreviewSettles
  BY <1>2 DEF Preview!PreviewSettles, Preview!FinishMarginPreview
<1>3. CASE Preview!PreviewTimesOut
  BY <1>3 DEF Preview!PreviewTimesOut, Preview!FinishMarginPreview, Preview!FailMarginPreview
<1>4. CASE Preview!PlaceZqOrder
  <2>1. pAsked' = pAsked /\ pPlaced' = pPlaced \cup {pNextId} /\ pPending' = pPending
    BY <1>4 DEF Preview!PlaceZqOrder
  <2>2. pPending' \in Seq(Events(pPlaced', pAsked'))
    BY <2>1, <1>m
  <2>3. pNextId' \in 1..(PreviewIds + 1) /\ pAsked' \cup pPlaced' \subseteq 1..(pNextId' - 1)
    BY <1>4, <1>0 DEF Preview!PlaceZqOrder
  <2>4. pAsked' \cap pPlaced' = {}
    BY <2>1, <1>0
  <2> QED
    BY <1>4, <2>1, <2>2, <2>3, <2>4 DEF Preview!PlaceZqOrder
<1>5. ASSUME NEW id \in pAsked, Preview!OpenOrder(id, TRUE) PROVE PreviewInv'
  BY <1>5, <1>q DEF Preview!OpenOrder
<1>6. ASSUME NEW id \in pAsked, Preview!CompletedOrder(id, TRUE) PROVE PreviewInv'
  BY <1>6 DEF Preview!CompletedOrder
<1>7. ASSUME NEW id \in pPlaced, Preview!OpenOrder(id, FALSE) PROVE PreviewInv'
  <2>1. id < pNextId /\ id \notin pKnown
    BY <1>0
  <2>2. pKnown' = pKnown /\ pContext' = pContext /\ pNextId' = pNextId
    BY <1>7, <2>1 DEF Preview!OpenOrder
  <2> QED
    BY <1>7, <1>q, <2>2 DEF Preview!OpenOrder
<1>8. ASSUME NEW id \in pPlaced, Preview!CompletedOrder(id, FALSE) PROVE PreviewInv'
  <2>1. pKnown' = pKnown /\ pContext' = pContext
    BY <1>8 DEF Preview!CompletedOrder
  <2> QED
    BY <1>8, <1>q, <2>1 DEF Preview!CompletedOrder
<1>9. ASSUME NEW id \in pAsked \cup pPlaced, Preview!OrderStatus(id) PROVE PreviewInv'
  BY <1>9, <1>q DEF Preview!OrderStatus
<1>10. ASSUME NEW id \in pAsked \cup pPlaced, NEW code, Preview!OrderError(id, code)
       PROVE  PreviewInv'
  BY <1>10, <1>q DEF Preview!OrderError
<1>11. CASE Preview!HandlePreviewEvent
  <2> DEFINE e == Head(pPending)
  <2>1. e \in Events(pPlaced, pAsked) /\ pPending' \in Seq(Events(pPlaced, pAsked))
    BY <1>11, <1>0, HeadTailProperties DEF Preview!HandlePreviewEvent
  <2>2. UNCHANGED <<pContext, pKnown, pNextId, pWaiting, pPlaced, pAsked>>
    BY <1>11 DEF Preview!HandlePreviewEvent
  <2>3. CASE e.kind = "margin_preview_requested"
    BY <1>11, <2>1, <2>2, <2>3 DEF Preview!HandlePreviewEvent
  <2>4. CASE e.kind = "margin_preview"
    BY <1>11, <2>1, <2>2, <2>4 DEF Preview!HandlePreviewEvent, Preview!Answered
  <2>5. CASE e.kind = "preview_error"
    BY <1>11, <2>1, <2>2, <2>5 DEF Preview!HandlePreviewEvent, Preview!FailMarginPreview
  <2>6. CASE e.kind = "error"
    BY <1>11, <2>1, <2>2, <2>6 DEF Preview!HandlePreviewEvent
  <2>7. CASE e.kind \in OrderEvents
    BY <1>11, <2>1, <2>2, <2>7 DEF Preview!HandlePreviewEvent
  <2> QED
    BY <2>1, <2>3, <2>4, <2>5, <2>6, <2>7
<1>12. CASE UNCHANGED previewVars
  BY <1>12 DEF previewVars
<1> QED
  BY <1>1, <1>2, <1>3, <1>4, <1>5, <1>6, <1>7, <1>8, <1>9, <1>10, <1>11, <1>12
     DEF Preview!Next

LEMMA PreviewSafe == PreviewInv => PreviewIsNoOrder /\ Preview!TypeOK
BY PartsAssumption DEF PreviewInv, PreviewIsNoOrder, Preview!PreviewIsNoOrder, Preview!TypeOK

\* Whatever IBKR answers about a what-if order and however late, it is never
\* taken for a real order's, nor the reverse (adapters/ibkr.py:752).
THEOREM PreviewsAreNoOrders == ComponentsSpec => []PreviewIsNoOrder
<1>1. ComponentsInit => PreviewInv
  BY PreviewStart
<1>2. PreviewInv /\ [ComponentsNext]_componentsVars => PreviewInv'
  BY PreviewStep, PartSteps
<1>3. PreviewInv => PreviewIsNoOrder
  BY PreviewSafe
<1> QED
  BY <1>1, <1>2, <1>3, PTL DEF ComponentsSpec

-----------------------------------------------------------------------------
(* Receipts *)

Receipted == Receipts!Payloads

\* The handler's next transaction has what it rests on in the ledger, where
\* nothing is ever taken back.
ReceiptsInv ==
    /\ rJournal \in [saved : SUBSET Receipted, finished : SUBSET Receipted]
    /\ rJournal.finished \subseteq rJournal.saved
    /\ rRecorded \subseteq ReceiptTrades \cup ReceiptFills
    /\ rQueue \subseteq Receipted
    /\ rVenue \in [ReceiptTrades \cup ReceiptFills -> 0..2]
    /\ rReads \in 0..ReceiptReads
    /\ rWork \in {Receipts!Idle} \cup
         [step : {"save", "record", "finish"}, payload : Receipted]
    /\ rWork.step \in {"record", "finish"} => rWork.payload \in rJournal.saved
    /\ rWork.step = "finish" =>
         rWork.payload.of \in rRecorded /\ Receipts!FullyMapped(rWork.payload)
    /\ \A p \in rJournal.finished : p.of \in rRecorded /\ Receipts!FullyMapped(p)

LEMMA ReceiptsStart == ComponentsInit => ReceiptsInv
BY PartsAssumption DEF ComponentsInit, Receipts!Init, ReceiptsInv, Receipted, Receipts!Idle

LEMMA ReceiptsStep == ReceiptsInv /\ [Receipts!Next]_receiptsVars => ReceiptsInv'
<1> SUFFICES ASSUME ReceiptsInv, [Receipts!Next]_receiptsVars PROVE ReceiptsInv'
  OBVIOUS
<1> USE DEF ReceiptsInv, Receipts!Idle, Receipts!Mapped, Receipts!FullyMapped
<1>0. /\ ReceiptReads \in Nat
      /\ Receipted = [of : ReceiptTrades \cup ReceiptFills, tag : 0..(ReceiptReads + 2)]
  BY PartsAssumption DEF Receipted, Receipts!Payloads
<1>l. ASSUME NEW p \in Receipted, Receipts!Live(p) PROVE rQueue' \subseteq Receipted
  BY <1>l DEF Receipts!Live
<1>1. CASE Receipts!Take
  BY <1>1 DEF Receipts!Take
<1>2. CASE Receipts!SaveVenueReceipt
  <2>1. rWork \in [step : {"save", "record", "finish"}, payload : Receipted]
    BY <1>2 DEF Receipts!SaveVenueReceipt
  <2> QED
    BY <1>2, <2>1 DEF Receipts!SaveVenueReceipt
<1>3. CASE Receipts!Record
  <2>1. rWork \in [step : {"save", "record", "finish"}, payload : Receipted]
    BY <1>3 DEF Receipts!Record
  <2> QED
    BY <1>3, <2>1, <1>0 DEF Receipts!Record
<1>4. CASE Receipts!FinishVenueReceipt
  <2>1. rWork \in [step : {"save", "record", "finish"}, payload : Receipted]
    BY <1>4 DEF Receipts!FinishVenueReceipt
  <2> QED
    BY <1>4, <2>1 DEF Receipts!FinishVenueReceipt
<1>5. ASSUME NEW f \in ReceiptFills, Receipts!IbkrFills(f) PROVE ReceiptsInv'
  <2>1. Receipts!Report(f, 0) \in Receipted
    BY <1>0 DEF Receipts!Report
  <2> QED
    BY <1>5, <2>1, <1>l DEF Receipts!IbkrFills
<1>6. ASSUME NEW t \in ReceiptTrades, Receipts!TradeMoves(t) PROVE ReceiptsInv'
  <2>1. rVenue[t] \in 0..2 /\ rVenue[t] + 1 \in 0..2
    BY <1>6 DEF Receipts!TradeMoves
  <2>2. Receipts!Report(t, rVenue[t] + 1) \in Receipted
    BY <1>0, <2>1 DEF Receipts!Report
  <2> QED
    BY <1>6, <2>1, <2>2, <1>l DEF Receipts!TradeMoves
<1>7. CASE Receipts!IbkrRead
  BY <1>7, <1>0 DEF Receipts!IbkrRead, Receipts!Report
<1>8. CASE Receipts!ReconcilePolymarketAccount
  BY <1>8, <1>0 DEF Receipts!ReconcilePolymarketAccount, Receipts!Repeated, Receipts!Report,
                    Receipts!Pending
<1>9. CASE Receipts!Crash
  BY <1>9 DEF Receipts!Crash
<1>10. CASE UNCHANGED receiptsVars
  BY <1>10 DEF receiptsVars
<1> QED
  BY <1>1, <1>2, <1>3, <1>4, <1>5, <1>6, <1>7, <1>8, <1>9, <1>10 DEF Receipts!Next

LEMMA ReceiptsSafe == ReceiptsInv => FinishedIsRecorded /\ Receipts!TypeOK
BY DEF ReceiptsInv, Receipted, FinishedIsRecorded, Receipts!FinishedIsRecorded, Receipts!TypeOK,
       Receipts!Pending, Receipts!FullyMapped

\* However the handlers are cut off and their reports repeated, a finished
\* receipt's fill is in the ledger (execution/coordinator.py:1578).
THEOREM FinishedReceiptsRecorded == ComponentsSpec => []FinishedIsRecorded
<1>1. ComponentsInit => ReceiptsInv
  BY ReceiptsStart
<1>2. ReceiptsInv /\ [ComponentsNext]_componentsVars => ReceiptsInv'
  BY ReceiptsStep, PartSteps
<1>3. ReceiptsInv => FinishedIsRecorded
  BY ReceiptsSafe
<1> QED
  BY <1>1, <1>2, <1>3, PTL DEF ComponentsSpec

-----------------------------------------------------------------------------
(* The maintenance hold *)

Holds == [on : BOOLEAN, finished : BOOLEAN, drained : BOOLEAN, failed : BOOLEAN, at : 0..7,
          recovered : BOOLEAN]
Passes == [step : {"idle", "begun", "read"}, now : 0..6, ready : BOOLEAN, stopped : BOOLEAN]
Links == [up : BOOLEAN, read : {"none", "busy", "fresh"}, whole : BOOLEAN, pending : BOOLEAN,
          note : BOOLEAN, due : {"nothing", "disconnected", "1100"}, closing : BOOLEAN,
          dead : BOOLEAN]
Alarms == [at : 0..7, other : BOOLEAN]
Controls == [paused : BOOLEAN, kill : BOOLEAN]
Accounts == [clear : BOOLEAN, clean : BOOLEAN]

\* A hold is over once, and only the restart's own outage is recovered from.
HoldOK(h) ==
    h \in Holds /\ (h.on => ~h.finished) /\ (h.recovered => h.at = 3)

\* Nothing new becomes due while a pass uses what it read, for both need the
\* coordinator's lock.
ClearWhileRead == mPass.step = "read" /\ mPass.ready => mBook.clear

HoldInv ==
    /\ mSlot \in 0..6 /\ HoldOK(mHold) /\ mPass \in Passes /\ mVenue \in Links
    /\ mAlerts \in Alarms /\ mControl \in Controls /\ mBook \in Accounts
    /\ ClearWhileRead

LEMMA Slots ==
    /\ Hold!Before = 0 /\ Hold!Drain = 1 /\ Hold!Closed = 2 /\ Hold!Restart = 3
    /\ Hold!Break = 4 /\ Hold!Reopened = 5 /\ Hold!Overdue = 6 /\ Hold!Never = 7
    /\ 0 \in 0..6 /\ 0 \in 0..7 /\ 3 \in 0..7 /\ 7 \in 0..7 /\ 3 # 7
    /\ \A s \in 0..6 : s \in 0..7
BY DEF Hold!Before, Hold!Drain, Hold!Closed, Hold!Restart, Hold!Break, Hold!Reopened,
       Hold!Overdue, Hold!Never

LEMMA FreshHold == HoldOK(Hold!NoHold) /\ ~Hold!NoHold.finished
BY Slots DEF HoldOK, Holds, Hold!NoHold

LEMMA HoldUpdates ==
    ASSUME NEW h, HoldOK(h), NEW now \in 0..6
    PROVE  /\ HoldOK(Hold!Entered(h, now))
           /\ HoldOK(Hold!Interrupted(h, now))
           /\ HoldOK(Hold!Failed(h))
           /\ HoldOK(Hold!Finished(h))
<1>1. ASSUME NEW n, HoldOK(n), ~n.finished
      PROVE  HoldOK([n EXCEPT !.on = TRUE])
  BY <1>1 DEF HoldOK, Holds
<1>2. HoldOK(Hold!Entered(h, now))
  BY <1>1, FreshHold DEF Hold!Entered
<1>3. HoldOK(Hold!Interrupted(h, now))
  BY Slots DEF HoldOK, Holds, Hold!Interrupted
<1>4. HoldOK(Hold!Failed(h))
  BY DEF HoldOK, Holds, Hold!Failed
<1>5. HoldOK(Hold!Finished(h))
  BY DEF HoldOK, Holds, Hold!Finished
<1> QED
  BY <1>2, <1>3, <1>4, <1>5

\* What an update may have changed.
LEMMA Unended ==
    ASSUME NEW h, HoldOK(h), NEW now \in 0..6
    PROVE  /\ ~h.finished => ~Hold!Interrupted(h, now).finished
           /\ Hold!Failed(h).on <=> h.on
           /\ Hold!Failed(h).finished <=> h.finished
           /\ Hold!Failed(h).failed <=> h.failed \/ h.on
           /\ Hold!Finished(h).failed <=> h.failed
           /\ Hold!Finished(h).recovered <=> h.recovered
           /\ Hold!Finished(h).at = h.at
<1>1. ~h.finished => ~Hold!Interrupted(h, now).finished
  BY DEF HoldOK, Holds, Hold!Interrupted
<1>2. /\ Hold!Failed(h).on <=> h.on
      /\ Hold!Failed(h).finished <=> h.finished
      /\ Hold!Failed(h).failed <=> h.failed \/ h.on
  BY DEF HoldOK, Holds, Hold!Failed
<1>3. /\ Hold!Finished(h).failed <=> h.failed
      /\ Hold!Finished(h).recovered <=> h.recovered
      /\ Hold!Finished(h).at = h.at
  BY DEF HoldOK, Holds, Hold!Finished
<1> QED
  BY <1>1, <1>2, <1>3

LEMMA DrainedFacts ==
    ASSUME NEW h, HoldOK(h), HoldInv
    PROVE  LET d == Hold!Drained(h) IN
           /\ HoldOK(d)
           /\ d.on <=> h.on
           /\ d.failed <=> h.failed
           /\ d.at = h.at
           /\ d.recovered <=> h.recovered
           /\ mPass.now >= 5 /\ d.drained => h.drained /\ mBook.clear
<1> DEFINE certified == h.drained \/ (mPass.now < 2 /\ mPass.ready)
           b == certified /\ mBook.clear
           d == Hold!Drained(h)
<1>1. b \in BOOLEAN /\ d = [h EXCEPT !.drained = b]
  BY Slots DEF Hold!Drained
<1>2. mPass.now >= 5 /\ b => h.drained /\ mBook.clear
  BY DEF HoldInv, Passes
<1> HIDE DEF b, d
<1>3. HoldOK(d) /\ (d.on <=> h.on) /\ (d.failed <=> h.failed) /\ d.at = h.at
  BY <1>1 DEF HoldOK, Holds
<1>4. (d.recovered <=> h.recovered) /\ (d.drained <=> b)
  BY <1>1 DEF HoldOK, Holds
<1> QED
  BY <1>2, <1>3, <1>4 DEF d

\* What a pass makes of the hold: past the break, one that has not failed was
\* drained.
LEMMA PassAdvances ==
    ASSUME NEW h, HoldOK(h), HoldInv
    PROVE  LET a == Hold!Advanced(h) IN
           /\ HoldOK(a)
           /\ a.on <=> h.on
           /\ h.failed => a.failed
           /\ ~a.failed /\ mPass.now >= 5 /\ h.on => h.drained /\ mBook.clear
<1> DEFINE a == Hold!Advanced(h)
           d == Hold!Drained(h)
<1>0. /\ HoldOK(d) /\ (d.on <=> h.on) /\ (d.failed <=> h.failed)
      /\ mPass.now >= 5 /\ d.drained => h.drained /\ mBook.clear
  BY DrainedFacts
<1>n. mPass.now \in 0..6 /\ (mPass.now >= 5 => mPass.now >= 2)
  BY DEF HoldInv, Passes
<1> HIDE DEF d
<1>1. CASE h.failed
  <2>1. a = h
    BY <1>1 DEF Hold!Advanced
  <2> QED
    BY <1>1, <2>1
<1>2. CASE ~h.failed /\ ~d.drained /\ mPass.now >= 2
  <2>1. a = Hold!Failed(d)
    BY <1>2, Slots DEF Hold!Advanced, d
  <2> HIDE DEF a
  <2>2. HoldOK(a) /\ (a.on <=> d.on) /\ (a.failed <=> d.failed \/ d.on)
    BY <2>1, <1>0, Unended, HoldUpdates, Slots
  <2>3. a.at = d.at /\ (a.recovered <=> d.recovered)
    BY <2>1, <1>0 DEF Hold!Failed, HoldOK, Holds
  <2> QED
    BY <1>0, <1>2, <2>2 DEF a
<1>3. CASE ~h.failed /\ ~(~d.drained /\ mPass.now >= 2)
  <2>1. CASE Hold!Recovering(d, mPass.now) /\ mPass.ready
    <3>1. a = [d EXCEPT !.recovered = TRUE]
      BY <1>3, <2>1, Slots DEF Hold!Advanced, d
    <3>2. d.at = 3
      BY <2>1, Slots DEF Hold!Recovering
    <3>3. HoldOK(a) /\ (a.on <=> d.on) /\ (a.failed <=> d.failed) /\ a.recovered /\ a.at = 3
      BY <1>0, <3>1, <3>2 DEF HoldOK, Holds
    <3> QED
      BY <1>0, <1>n, <1>3, <3>3
  <2>2. CASE ~(Hold!Recovering(d, mPass.now) /\ mPass.ready) /\ mPass.ready /\ ~d.recovered
    <3>1. a = [d EXCEPT !.at = 7]
      BY <1>3, <2>2, Slots DEF Hold!Advanced, d
    <3>2. HoldOK(a) /\ (a.on <=> d.on) /\ (a.failed <=> d.failed) /\ a.at = 7
      BY <1>0, <2>2, <3>1, Slots DEF HoldOK, Holds
    <3> QED
      BY <1>0, <1>n, <1>3, <3>2
  <2>3. CASE ~(mPass.ready /\ (Hold!Recovering(d, mPass.now) \/ ~d.recovered))
    <3>1. a = d
      BY <1>3, <2>3, Slots DEF Hold!Advanced, d
    <3>2. d.recovered => d.at = 3
      BY <1>0 DEF HoldOK
    <3> QED
      BY <1>0, <1>n, <1>3, <2>3, <3>1, <3>2
  <2> QED
    BY <2>1, <2>2, <2>3
<1> QED
  BY <1>1, <1>2, <1>3

LEMMA PassReleases ==
    ASSUME NEW h, HoldOK(h), HoldInv
    PROVE  /\ HoldOK(Hold!Released(h))
           /\ ~h.finished /\ Hold!Released(h).finished /\ h.on
                /\ ~Hold!Released(h).failed /\ ~mPass.stopped =>
                ~h.failed /\ mPass.now >= 5 /\ mPass.ready /\ Hold!Released(h) = Hold!Finished(h)
<1> DEFINE f == Hold!Failed(h)
           r == Hold!Released(h)
<1>1. /\ HoldOK(f) /\ HoldOK(Hold!Finished(h)) /\ HoldOK(Hold!Finished(f))
      /\ f.failed <=> h.failed \/ h.on
      /\ Hold!Finished(f).failed <=> f.failed
      /\ Hold!Finished(h).failed <=> h.failed
  BY HoldUpdates, Unended, Slots
<1> HIDE DEF f
<1>2. CASE mPass.now < 5
  BY <1>2, Slots DEF Hold!Released
<1>n. mPass.now \in 0..6
  BY DEF HoldInv, Passes
<1>3. CASE mPass.now >= 5 /\ (h.failed \/ mPass.stopped)
  <2>1. r = Hold!Finished(h)
    BY <1>3, <1>n, Slots DEF Hold!Released
  <2> QED
    BY <1>1, <1>3, <2>1
<1>4. CASE mPass.now >= 5 /\ ~(h.failed \/ mPass.stopped) /\ mPass.now >= 6
  <2>1. r = Hold!Finished(f)
    BY <1>4, <1>n, Slots DEF Hold!Released, f
  <2> QED
    BY <1>1, <2>1
<1>5. CASE mPass.now >= 5 /\ ~(h.failed \/ mPass.stopped) /\ ~(mPass.now >= 6) /\ mPass.ready
  <2>1. r = Hold!Finished(h)
    BY <1>5, <1>n, Slots DEF Hold!Released
  <2> QED
    BY <1>1, <1>5, <2>1
<1>6. CASE mPass.now >= 5 /\ ~(h.failed \/ mPass.stopped) /\ ~(mPass.now >= 6) /\ ~mPass.ready
  <2>1. r = h
    BY <1>6, <1>n, Slots DEF Hold!Released
  <2> QED
    BY <2>1
<1> QED
  BY <1>n, <1>2, <1>3, <1>4, <1>5, <1>6

LEMMA HoldStart == ComponentsInit => HoldInv
<1> SUFFICES ASSUME ComponentsInit PROVE HoldInv
  OBVIOUS
<1>1. /\ mSlot = 0 /\ mHold = Hold!NoHold /\ mPass = Hold!Idle /\ mVenue = Hold!Starting
      /\ mAlerts = [at |-> 7, other |-> FALSE] /\ mControl = [paused |-> FALSE, kill |-> FALSE]
      /\ mBook = [clear |-> TRUE, clean |-> FALSE]
  BY Slots DEF ComponentsInit, Hold!Init
<1>2. mPass \in Passes /\ mPass.step = "idle" /\ mVenue \in Links
  BY <1>1, Slots DEF Passes, Links, Hold!Idle, Hold!Starting
<1> QED
  BY <1>1, <1>2, Slots, FreshHold DEF HoldInv, Alarms, Controls, Accounts, ClearWhileRead

LEMMA HoldStep == HoldInv /\ [Hold!Next]_holdVars => HoldInv'
<1> SUFFICES ASSUME HoldInv, [Hold!Next]_holdVars PROVE HoldInv'
  OBVIOUS
<1>0. /\ mSlot \in 0..6 /\ HoldOK(mHold) /\ mPass \in Passes /\ mVenue \in Links
      /\ mAlerts \in Alarms /\ mControl \in Controls /\ mBook \in Accounts
      /\ ClearWhileRead
  BY DEF HoldInv
<1> USE <1>0, Slots
<1>h. /\ HoldOK(Hold!Entered(mHold, mSlot)) /\ HoldOK(Hold!Interrupted(mHold, mSlot))
      /\ HoldOK(Hold!Failed(Hold!Interrupted(mHold, mSlot)))
      /\ HoldOK(Hold!NoHold)
  BY HoldUpdates, FreshHold
<1>m. Hold!MarkersReset \in Links
  BY DEF Hold!MarkersReset, Links
<1>1. CASE Hold!BeginPass
  <2>1. PICK r \in BOOLEAN, s \in BOOLEAN :
          mPass' = [step |-> "begun", now |-> mSlot, stopped |-> s, ready |-> r]
    BY <1>1 DEF Hold!BeginPass, Hold!Stopped
  <2>2. mPass' \in Passes /\ mPass'.step = "begun"
    BY <2>1 DEF Passes
  <2> QED
    BY <1>1, <1>h, <2>2 DEF Hold!BeginPass, HoldInv, ClearWhileRead
<1>2. CASE Hold!ReadReady
  <2>1. mPass' \in Passes
    BY <1>2 DEF Hold!ReadReady, Passes
  <2>2. mPass'.ready => mBook.clear
    BY <1>2 DEF Hold!ReadReady, Passes
  <2> QED
    BY <1>2, <2>1, <2>2 DEF Hold!ReadReady, HoldInv, ClearWhileRead
<1>3. CASE Hold!EndPass
  <2>1. HoldOK(mHold')
    BY <1>3, PassAdvances, PassReleases DEF Hold!EndPass
  <2>2. mPass' \in Passes /\ mPass'.step = "idle"
    BY <1>3 DEF Hold!EndPass, Hold!Idle, Passes
  <2>3. mAlerts' = mAlerts \/ mAlerts' = [mAlerts EXCEPT !.at = 7]
    BY <1>3 DEF Hold!EndPass
  <2>4. mAlerts' \in Alarms
    BY <2>3 DEF Alarms
  <2>5. mControl' = mControl \/ mControl' = [mControl EXCEPT !.paused = TRUE]
    BY <1>3 DEF Hold!EndPass, Hold!Pause
  <2>6. mControl' \in Controls
    BY <2>5 DEF Controls
  <2> QED
    BY <1>3, <2>1, <2>2, <2>4, <2>6 DEF Hold!EndPass, HoldInv, ClearWhileRead
<1>4. CASE Hold!ConnectionLost
  <2>1. mVenue' \in Links
    BY <1>4 DEF Hold!ConnectionLost, Links
  <2> QED
    BY <1>4, <2>1 DEF Hold!ConnectionLost, HoldInv, ClearWhileRead
<1>5. CASE Hold!ConnectFails
  <2>1. PICK e \in BOOLEAN : /\ mVenue' = [mVenue EXCEPT !.closing = FALSE, !.dead = e]
                             /\ mAlerts' = [mAlerts EXCEPT !.other = @ \/ e]
    BY <1>5 DEF Hold!ConnectFails
  <2>2. mVenue' \in Links
    BY <2>1 DEF Links
  <2>3. mAlerts' \in Alarms
    BY <2>1 DEF Alarms
  <2> QED
    BY <1>5, <1>h, <2>2, <2>3 DEF Hold!ConnectFails, HoldInv, ClearWhileRead
<1>6. CASE Hold!Reconnects
  <2>1. mVenue' \in Links
    BY <1>6, <1>m DEF Hold!Reconnects, Links
  <2>2. mBook' \in Accounts /\ mBook'.clear = mBook.clear
    BY <1>6 DEF Hold!Reconnects, Accounts
  <2> QED
    BY <1>6, <2>1, <2>2 DEF Hold!Reconnects, HoldInv, ClearWhileRead
<1>7. CASE Hold!ReadBegins
  <2>1. mVenue' \in Links
    BY <1>7 DEF Hold!ReadBegins, Links
  <2>2. mBook' \in Accounts /\ mBook'.clear = mBook.clear
    BY <1>7 DEF Hold!ReadBegins, Accounts
  <2> QED
    BY <1>7, <2>1, <2>2 DEF Hold!ReadBegins, HoldInv, ClearWhileRead
<1>8. CASE Hold!ReadTimesOut
  <2>1. mVenue' \in Links
    BY <1>8 DEF Hold!ReadTimesOut, Links
  <2>2. mControl' = mControl \/ mControl' = [mControl EXCEPT !.paused = TRUE]
    BY <1>8 DEF Hold!ReadTimesOut, Hold!Pause
  <2>3. mControl' \in Controls
    BY <2>2 DEF Controls
  <2> QED
    BY <1>8, <1>h, <2>1, <2>3 DEF Hold!ReadTimesOut, HoldInv, ClearWhileRead
<1>9. CASE Hold!HandleDisconnected
  <2>1. mVenue' \in Links
    BY <1>9, <1>m DEF Hold!HandleDisconnected, Links
  <2>2. mBook' \in Accounts /\ mBook'.clear = mBook.clear
    BY <1>9 DEF Hold!HandleDisconnected, Accounts
  <2> QED
    BY <1>9, <1>h, <2>1, <2>2 DEF Hold!HandleDisconnected, HoldInv, ClearWhileRead
<1>10. CASE Hold!ConnectivityLost
  <2>1. mVenue' \in Links
    BY <1>10 DEF Hold!ConnectivityLost, Links
  <2> QED
    BY <1>10, <1>h, <2>1 DEF Hold!ConnectivityLost, HoldInv, ClearWhileRead
<1>11. CASE Hold!LossPublished
  <2>1. mVenue' \in Links
    BY <1>11 DEF Hold!LossPublished, Links
  <2>2. mAlerts' = mAlerts \/ mAlerts' = [mAlerts EXCEPT !.at = mSlot]
    BY <1>11 DEF Hold!LossPublished
  <2>3. mAlerts' \in Alarms
    BY <2>2 DEF Alarms
  <2>4. mBook' \in Accounts /\ mBook'.clear = mBook.clear
    BY <1>11 DEF Hold!LossPublished, Accounts
  <2> QED
    BY <1>11, <2>1, <2>3, <2>4 DEF Hold!LossPublished, HoldInv, ClearWhileRead
<1>12. CASE Hold!ConnectivityRestored
  <2>1. mVenue' \in Links
    BY <1>12 DEF Hold!ConnectivityRestored, Links
  <2>2. mAlerts' \in Alarms
    BY <1>12 DEF Hold!ConnectivityRestored, Alarms
  <2> QED
    BY <1>12, <2>1, <2>2 DEF Hold!ConnectivityRestored, HoldInv, ClearWhileRead
<1>13. CASE Hold!ReadCompletes
  <2>1. mVenue' \in Links
    BY <1>13 DEF Hold!ReadCompletes, Links
  <2>2. mBook' \in Accounts /\ mBook'.clear = mBook.clear
    BY <1>13 DEF Hold!ReadCompletes, Accounts
  <2> QED
    BY <1>13, <2>1, <2>2 DEF Hold!ReadCompletes, HoldInv, ClearWhileRead
<1>14. CASE Hold!Reconciles
  <2>1. mBook' \in Accounts /\ mBook'.clear = mBook.clear
    BY <1>14 DEF Hold!Reconciles, Accounts
  <2> QED
    BY <1>14, <2>1 DEF Hold!Reconciles, HoldInv, ClearWhileRead
<1>15. CASE Hold!FillArrives
  <2>1. mBook' \in Accounts
    BY <1>15 DEF Hold!FillArrives, Accounts
  <2> QED
    BY <1>15, <2>1 DEF Hold!FillArrives, Hold!Unlocked, HoldInv, ClearWhileRead
<1>16. CASE Hold!ExecutionClears
  <2>1. mBook' \in Accounts /\ mBook'.clear
    BY <1>16 DEF Hold!ExecutionClears, Accounts
  <2> QED
    BY <1>16, <2>1 DEF Hold!ExecutionClears, HoldInv, ClearWhileRead
<1>17. CASE Hold!Operate
  <2>1. mControl.kill \in BOOLEAN
    BY DEF Controls
  <2>2. \E p \in BOOLEAN, k \in BOOLEAN : mControl' = [paused |-> p, kill |-> k]
    BY <1>17, <2>1 DEF Hold!Operate
  <2>3. mControl' \in Controls
    BY <2>2 DEF Controls
  <2> QED
    BY <1>17, <2>3 DEF Hold!Operate, HoldInv, ClearWhileRead
<1>18. CASE Hold!Tick
  <2>1. mSlot' \in 0..6
    BY <1>18 DEF Hold!Tick
  <2> QED
    BY <1>18, <2>1 DEF Hold!Tick, HoldInv, ClearWhileRead
<1>19. CASE Hold!RestartEngine
  <2>1. mPass' \in Passes /\ mPass'.step = "idle" /\ mVenue' \in Links
    BY <1>19 DEF Hold!RestartEngine, Hold!Starting, Hold!Idle, Passes, Links
  <2>2. mAlerts' \in Alarms /\ mControl' \in Controls /\ mBook' \in Accounts
    BY <1>19 DEF Hold!RestartEngine, Alarms, Controls, Accounts
  <2> QED
    BY <1>19, <1>h, <2>1, <2>2 DEF Hold!RestartEngine, HoldInv, ClearWhileRead
<1>20. CASE UNCHANGED holdVars
  BY <1>20 DEF holdVars, HoldInv, ClearWhileRead
<1> QED
  BY <1>1, <1>2, <1>3, <1>4, <1>5, <1>6, <1>7, <1>8, <1>9, <1>10, <1>11, <1>12, <1>13,
     <1>14, <1>15, <1>16, <1>17, <1>18, <1>19, <1>20 DEF Hold!Next, Hold!Step

-----------------------------------------------------------------------------
(* The history of the hold: what a release rests on.                        *)

Pasts == [certified : 0..7, lost : BOOLEAN, hidden : BOOLEAN, seen : 0..7]

CertifiedEarly == mHold.drained => mPast.certified < 2

\* The result is taken back with the read that it rests on.
CleanIsRead == mBook.clean => mVenue.whole

\* An outage that is not over goes on; a 1100 that follows a whole read and is
\* not published yet is one that no pass has seen.
OutageKept ==
    /\ Hold!Over(mVenue) => ~mPast.lost
    /\ mVenue.due = "1100" /\ mVenue.whole /\ ~Hold!Shown(mVenue) => mPast.hidden

Unseen == mPast.lost => mPast.hidden

\* A ready pass has taken its evidence outside of an outage; of the evidence it
\* has begun with, the last part is not read yet.
ReadyUnseen ==
    /\ mPass.step = "begun" /\ mPass.ready /\ mBook.clean => Unseen
    /\ mPass.step = "read" /\ mPass.ready => Unseen

PastInv == mPast \in Pasts /\ CertifiedEarly /\ CleanIsRead /\ OutageKept /\ ReadyUnseen

LEMMA PastStart == ComponentsInit => PastInv
<1> SUFFICES ASSUME ComponentsInit PROVE PastInv
  OBVIOUS
<1>1. /\ mHold = Hold!NoHold /\ mPass = Hold!Idle /\ mVenue = Hold!Starting
      /\ mBook = [clear |-> TRUE, clean |-> FALSE]
      /\ mPast = [certified |-> 7, lost |-> TRUE, hidden |-> FALSE, seen |-> 7]
  BY Slots DEF ComponentsInit, Hold!Init
<1>2. ~mHold.drained /\ mPass.step = "idle" /\ ~mVenue.up /\ mVenue.due = "nothing"
  BY <1>1 DEF Hold!NoHold, Hold!Idle, Hold!Starting
<1> QED
  BY <1>1, <1>2, Slots DEF PastInv, Pasts, CertifiedEarly, CleanIsRead, OutageKept, ReadyUnseen,
     Hold!Over, Hold!Shown

LEMMA PastFacts ==
    ASSUME HoldInv, HoldInv', mPast \in Pasts, Hold!Remember
    PROVE  /\ mPast' \in Pasts
           /\ mPast'.certified = IF ~mHold'.drained THEN 7
                                 ELSE IF ~mHold.drained THEN mPass.now ELSE mPast.certified
           /\ mPast'.lost <=> /\ ~Hold!Over(mVenue')
                              /\ mPast.lost \/ Hold!Shown(mVenue') \/ mVenue'.due = "1100"
           /\ mPast'.hidden <=> /\ mPast'.lost /\ (mPast.hidden \/ ~mPast.lost)
                                /\ mPass'.step = "idle" => ~Hold!Shown(mVenue')
<1> DEFINE lost == ~Hold!Over(mVenue') /\ (mPast.lost \/ Hold!Shown(mVenue') \/ mVenue'.due = "1100")
           certified == IF ~mHold'.drained THEN 7
                        ELSE IF ~mHold.drained THEN mPass.now ELSE mPast.certified
           hidden == /\ lost /\ (mPast.hidden \/ ~mPast.lost)
                     /\ mPass'.step = "idle" => ~Hold!Shown(mVenue')
           seen == IF ~lost THEN 7
                   ELSE IF mPast.seen = 7 /\ mHold'.at # mHold.at THEN mHold'.at ELSE mPast.seen
<1>1. mPast' = [certified |-> certified, lost |-> lost, hidden |-> hidden, seen |-> seen]
  BY Slots DEF Hold!Remember
<1>2. mPass.now \in 0..6 /\ mHold'.at \in 0..7 /\ mPast.certified \in 0..7 /\ mPast.seen \in 0..7
  BY DEF HoldInv, HoldOK, Holds, Passes, Pasts
<1>3. certified \in 0..7 /\ seen \in 0..7 /\ lost \in BOOLEAN /\ hidden \in BOOLEAN
  BY <1>2, Slots
<1> HIDE DEF certified, lost, hidden, seen
<1>4. mPast' \in Pasts /\ mPast'.certified = certified /\ mPast'.lost = lost /\ mPast'.hidden = hidden
  BY <1>1, <1>3 DEF Pasts
<1> QED
  BY <1>4 DEF certified, lost, hidden

\* Only a pass certifies, in time.
LEMMA PassCertifies ==
    ASSUME HoldInv, Hold!EndPass
    PROVE  mHold'.drained => mHold.drained \/ mPass.now < 2
<1> DEFINE d == Hold!Drained(mHold)
           a == Hold!Advanced(mHold)
<1>0. mPass.now \in 0..6 /\ HoldOK(mHold)
  BY DEF HoldInv, Passes
<1>1. HoldOK(d) /\ (d.drained => mHold.drained \/ mPass.now < 2)
  <2> DEFINE b == (mHold.drained \/ (mPass.now < 2 /\ mPass.ready)) /\ mBook.clear
  <2>1. b \in BOOLEAN /\ d = [mHold EXCEPT !.drained = b]
    BY Slots DEF Hold!Drained
  <2>2. b => mHold.drained \/ mPass.now < 2
    OBVIOUS
  <2> HIDE DEF b, d
  <2>3. HoldOK(d) /\ d.drained = b
    BY <1>0, <2>1 DEF HoldOK, Holds
  <2> QED
    BY <2>2, <2>3
<1> HIDE DEF d
<1>2. HoldOK(a) /\ (a.drained => mHold.drained \/ d.drained)
  <2>1. HoldOK(a)
    BY <1>0, PassAdvances
  <2>2. \/ a = mHold \/ a = d \/ a = Hold!Failed(d)
        \/ a = [d EXCEPT !.recovered = TRUE] \/ a = [d EXCEPT !.at = 7]
    BY Slots DEF Hold!Advanced, d
  <2>3. Hold!Failed(d).drained = d.drained
    BY <1>1 DEF Hold!Failed, HoldOK, Holds
  <2>4. [d EXCEPT !.recovered = TRUE].drained = d.drained /\ [d EXCEPT !.at = 7].drained = d.drained
    BY <1>1 DEF HoldOK, Holds
  <2> HIDE DEF a
  <2> QED
    BY <2>1, <2>2, <2>3, <2>4
<1>3. mHold' = Hold!Released(a)
  BY DEF Hold!EndPass
<1> HIDE DEF a
<1>4. \/ mHold' = a \/ mHold' = Hold!Finished(a) \/ mHold' = Hold!Finished(Hold!Failed(a))
  BY <1>3 DEF Hold!Released
<1>5. /\ Hold!Finished(a).drained = a.drained
      /\ Hold!Finished(Hold!Failed(a)).drained = a.drained
  BY <1>2 DEF Hold!Finished, Hold!Failed, HoldOK, Holds
<1> QED
  BY <1>1, <1>2, <1>4, <1>5

\* What the other steps make of the hold.
LEMMA HoldChanges ==
    ASSUME HoldInv, [Hold!Next]_holdVars, ~Hold!EndPass
    PROVE  \/ mHold' = mHold \/ mHold' = Hold!NoHold
           \/ mHold' = Hold!Entered(mHold, mSlot) \/ mHold' = Hold!Interrupted(mHold, mSlot)
           \/ mHold' = Hold!Failed(Hold!Interrupted(mHold, mSlot))
BY ZenonT(60) DEF Hold!Next, Hold!Step, Hold!BeginPass, Hold!ReadReady, Hold!ConnectionLost,
  Hold!ConnectFails, Hold!Reconnects, Hold!ReadBegins, Hold!HandleDisconnected,
  Hold!ConnectivityLost, Hold!LossPublished, Hold!ConnectivityRestored,
  Hold!ReadCompletes, Hold!ReadTimesOut, Hold!Reconciles, Hold!FillArrives,
  Hold!ExecutionClears, Hold!Operate, Hold!Tick, Hold!RestartEngine, holdVars

LEMMA CertifiedStep ==
    ASSUME HoldInv, [Hold!Next]_holdVars
    PROVE  mHold'.drained => mHold.drained \/ (Hold!EndPass /\ mPass.now < 2)
<1>1. HoldOK(mHold) /\ mSlot \in 0..6
  BY DEF HoldInv
<1>2. CASE ~Hold!EndPass
  <2>1. ~Hold!NoHold.drained
    BY DEF Hold!NoHold
  <2>2. Hold!Entered(mHold, mSlot).drained => mHold.drained
    <3>1. ~[Hold!NoHold EXCEPT !.on = TRUE].drained
      BY DEF Hold!NoHold
    <3> QED
      BY <3>1 DEF Hold!Entered
  <2>3. /\ HoldOK(Hold!Interrupted(mHold, mSlot))
        /\ Hold!Interrupted(mHold, mSlot).drained = mHold.drained
    BY <1>1, HoldUpdates DEF Hold!Interrupted, HoldOK, Holds
  <2>4. Hold!Failed(Hold!Interrupted(mHold, mSlot)).drained = mHold.drained
    BY <2>3 DEF Hold!Failed, HoldOK, Holds
  <2> QED
    BY <1>2, <2>1, <2>2, <2>3, <2>4, HoldChanges
<1> QED
  BY <1>2, PassCertifies

\* A result comes with the lock, and of a whole read; a 1100 is queued in a
\* connection that is up, and what it waits for is not read meanwhile.
LEMMA EvidenceMoves ==
    ASSUME HoldInv, CleanIsRead, Hold!Step
    PROVE  /\ CleanIsRead'
           /\ mPass.step # "idle" /\ mPass'.step # "idle" /\ mBook'.clean => mBook.clean
           /\ mVenue'.due = "1100" /\ mVenue'.whole /\ ~Hold!Shown(mVenue') =>
                \/ mVenue.due = "1100" /\ mVenue.whole /\ ~Hold!Shown(mVenue)
                \/ Hold!Over(mVenue)
<1> USE DEF CleanIsRead, Hold!Shown, Hold!Over, Hold!Unlocked
<1>0. mVenue \in Links /\ mBook \in Accounts /\ mPass \in Passes
  BY DEF HoldInv
<1>1. CASE Hold!BeginPass \/ Hold!ReadReady \/ Hold!EndPass \/ Hold!Operate \/ Hold!Tick
  BY <1>1 DEF Hold!BeginPass, Hold!ReadReady, Hold!EndPass, Hold!Operate, Hold!Tick
<1>2. CASE Hold!ConnectionLost
  BY <1>0, <1>2 DEF Hold!ConnectionLost, Links
<1>3. CASE Hold!ConnectFails
  BY <1>0, <1>3 DEF Hold!ConnectFails, Links
<1>4. CASE Hold!Reconnects
  BY <1>0, <1>4 DEF Hold!Reconnects, Hold!MarkersReset, Links, Accounts
<1>5. CASE Hold!ReadBegins
  BY <1>0, <1>5 DEF Hold!ReadBegins, Links, Accounts
<1>6. CASE Hold!ReadTimesOut
  BY <1>0, <1>6 DEF Hold!ReadTimesOut, Links
<1>7. CASE Hold!HandleDisconnected
  BY <1>0, <1>7 DEF Hold!HandleDisconnected, Hold!MarkersReset, Links, Accounts
<1>8. CASE Hold!ConnectivityLost
  BY <1>0, <1>8 DEF Hold!ConnectivityLost, Links
<1>9. CASE Hold!LossPublished
  BY <1>0, <1>9 DEF Hold!LossPublished, Links, Accounts
<1>10. CASE Hold!ConnectivityRestored
  BY <1>0, <1>10 DEF Hold!ConnectivityRestored, Links
<1>11. CASE Hold!ReadCompletes
  BY <1>0, <1>11 DEF Hold!ReadCompletes, Links, Accounts
<1>12. CASE Hold!Reconciles
  BY <1>0, <1>12 DEF Hold!Reconciles, Links, Accounts
<1>13. CASE Hold!FillArrives \/ Hold!ExecutionClears
  BY <1>0, <1>13 DEF Hold!FillArrives, Hold!ExecutionClears, Links, Accounts
<1>14. CASE Hold!RestartEngine
  BY <1>0, <1>14 DEF Hold!RestartEngine, Hold!Starting, Hold!Idle, Links, Accounts
<1> QED
  BY <1>1, <1>2, <1>3, <1>4, <1>5, <1>6, <1>7, <1>8, <1>9, <1>10, <1>11, <1>12, <1>13, <1>14
     DEF Hold!Step

\* While a pass is under way, a loss is one it has not seen.
LEMMA UnseenStays ==
    ASSUME HoldInv, HoldInv', mPast \in Pasts, Hold!Remember, Unseen, mPass'.step # "idle"
    PROVE  Unseen'
BY PastFacts DEF Unseen

\* A pass that begins ready with a clean result begins outside of an outage, or
\* with a 1100 that is not published yet.
LEMMA BeginsUnseen ==
    ASSUME HoldInv, HoldInv', PastInv, Hold!BeginPass, Hold!Remember, mPass'.ready, mBook.clean
    PROVE  Unseen'
<1>1. mVenue' = mVenue /\ mPass'.step = "begun" /\ mVenue.up /\ ~mVenue.pending
  BY DEF Hold!BeginPass
<1>2. ~Hold!Shown(mVenue) /\ mVenue.whole
  BY <1>1 DEF Hold!Shown, PastInv, CleanIsRead
<1>3. CASE mVenue.due = "1100"
  <2>1. mPast.hidden
    BY <1>2, <1>3 DEF PastInv, OutageKept
  <2> QED
    BY <1>1, <2>1, UnseenStays DEF Unseen, PastInv
<1>4. CASE mVenue.due # "1100"
  <2>1. Hold!Over(mVenue')
    BY <1>1, <1>2, <1>4 DEF Hold!Over
  <2> QED
    BY <2>1, PastFacts DEF Unseen, PastInv
<1> QED
  BY <1>3, <1>4

LEMMA ReadyStep ==
    ASSUME HoldInv, HoldInv', PastInv, Hold!Step, Hold!Remember
    PROVE  ReadyUnseen'
<1>1. CASE Hold!BeginPass
  <2>1. mPass'.step = "begun" /\ mBook' = mBook
    BY <1>1 DEF Hold!BeginPass
  <2> QED
    BY <1>1, <2>1, BeginsUnseen DEF ReadyUnseen
<1>2. CASE Hold!ReadReady
  <2>1. /\ mPass.step = "begun" /\ mPass'.step = "read"
        /\ mPass'.ready => mPass.ready /\ mBook.clean
    BY <1>2 DEF Hold!ReadReady, HoldInv, Passes
  <2>2. mPass'.ready => Unseen
    BY <2>1 DEF PastInv, ReadyUnseen
  <2>3. mPass'.ready => Unseen'
    BY <2>1, <2>2, UnseenStays DEF PastInv
  <2> QED
    BY <2>1, <2>3 DEF ReadyUnseen
<1>3. CASE Hold!EndPass \/ Hold!RestartEngine
  <2>1. mPass'.step = "idle"
    BY <1>3 DEF Hold!EndPass, Hold!RestartEngine, Hold!Idle
  <2> QED
    BY <2>1 DEF ReadyUnseen
<1>4. CASE mPass' = mPass
  <2>1. mPass.step # "idle" /\ mBook'.clean => mBook.clean
    BY <1>4, EvidenceMoves DEF PastInv
  <2>2. mPass.step # "idle" /\ Unseen => Unseen'
    BY <1>4, UnseenStays DEF PastInv
  <2>3. CASE mPass.step = "begun" /\ mPass.ready /\ mBook'.clean
    BY <1>4, <2>1, <2>2, <2>3 DEF PastInv, ReadyUnseen
  <2>4. CASE mPass.step = "read" /\ mPass.ready
    BY <1>4, <2>1, <2>2, <2>4 DEF PastInv, ReadyUnseen
  <2> QED
    BY <1>4, <2>3, <2>4 DEF ReadyUnseen
<1>5. \/ Hold!BeginPass \/ Hold!ReadReady \/ Hold!EndPass \/ Hold!RestartEngine
      \/ mPass' = mPass
  BY ZenonT(60) DEF Hold!Step, Hold!ConnectionLost,
    Hold!ConnectFails, Hold!Reconnects, Hold!ReadBegins, Hold!HandleDisconnected,
    Hold!ConnectivityLost, Hold!LossPublished, Hold!ConnectivityRestored,
    Hold!ReadCompletes, Hold!ReadTimesOut, Hold!Reconciles, Hold!FillArrives,
    Hold!ExecutionClears, Hold!Operate, Hold!Tick
<1> QED
  BY <1>1, <1>2, <1>3, <1>4, <1>5

LEMMA PastStep == HoldInv /\ PastInv /\ [Hold!Next]_holdVars => PastInv'
<1> SUFFICES ASSUME HoldInv, PastInv, [Hold!Next]_holdVars PROVE PastInv'
  OBVIOUS
<1>1. CASE UNCHANGED holdVars
  BY <1>1 DEF holdVars, PastInv, CertifiedEarly, CleanIsRead, OutageKept, ReadyUnseen, Unseen,
     Hold!Over, Hold!Shown
<1>2. CASE Hold!Step /\ Hold!Remember
  <2>1. HoldInv'
    BY HoldStep
  <2>2. /\ mPast \in Pasts /\ CertifiedEarly /\ CleanIsRead /\ OutageKept
    BY DEF PastInv
  <2>3. mPast' \in Pasts
    BY <1>2, <2>1, <2>2, PastFacts
  <2>4. CertifiedEarly'
    <3>1. mPass.now \in 0..6
      BY DEF HoldInv, Passes
    <3>2. /\ mHold'.drained /\ mHold.drained => mPast'.certified = mPast.certified
          /\ mHold'.drained /\ ~mHold.drained => mPast'.certified = mPass.now
      BY <1>2, <2>1, <2>2, PastFacts
    <3>3. mHold'.drained => mHold.drained \/ mPass.now < 2
      BY CertifiedStep
    <3> QED
      BY <2>2, <3>1, <3>2, <3>3 DEF CertifiedEarly
  <2>5. CleanIsRead'
    BY <1>2, <2>2, EvidenceMoves
  <2>6. OutageKept'
    <3>1. Hold!Over(mVenue') => ~mPast'.lost
      BY <1>2, <2>1, <2>2, PastFacts
    <3>2. ASSUME mVenue'.due = "1100", ~Hold!Shown(mVenue'), mVenue'.whole
          PROVE  mPast'.hidden
      <4>1. mPast.hidden \/ ~mPast.lost
        BY <1>2, <2>2, <3>2, EvidenceMoves DEF OutageKept
      <4>2. mPast'.lost
        BY <1>2, <2>1, <2>2, <3>2, PastFacts DEF Hold!Over
      <4> QED
        BY <1>2, <2>1, <2>2, <3>2, <4>1, <4>2, PastFacts
    <3>3. (Hold!Over(mVenue))' = Hold!Over(mVenue') /\ (Hold!Shown(mVenue))' = Hold!Shown(mVenue')
      BY DEF Hold!Over, Hold!Shown
    <3> QED
      BY <3>1, <3>2, <3>3 DEF OutageKept
  <2>7. ReadyUnseen'
    BY <1>2, <2>1, ReadyStep
  <2> QED
    BY <2>3, <2>4, <2>5, <2>6, <2>7 DEF PastInv
<1> QED
  BY <1>1, <1>2 DEF Hold!Next

Earned ==
    mHold.on /\ mHold'.finished /\ ~mHold'.failed /\ ~mPass.stopped =>
        /\ mPast.certified < Hold!Closed /\ mBook.clear
        /\ mPast.lost => mPast.hidden

LEMMA HoldEarned == HoldInv /\ PastInv /\ [Hold!Next]_holdVars => Earned
<1> SUFFICES ASSUME HoldInv, PastInv, [Hold!Next]_holdVars, mHold.on, mHold'.finished,
                    ~mHold'.failed, ~mPass.stopped
             PROVE  mPast.certified < 2 /\ mBook.clear /\ (mPast.lost => mPast.hidden)
  BY Slots DEF Earned
<1>1. HoldOK(mHold) /\ ~mHold.finished /\ mSlot \in 0..6
  BY DEF HoldInv, HoldOK
<1>2. CASE Hold!EndPass
  <2> DEFINE a == Hold!Advanced(mHold)
  <2>1. mHold' = Hold!Released(a) /\ mPass.step = "read"
    BY <1>2 DEF Hold!EndPass
  <2>2. HoldOK(a) /\ a.on /\ ~a.finished
    BY <1>1, PassAdvances DEF HoldOK
  <2>3. ~a.failed /\ mPass.now >= 5 /\ mPass.ready
    BY <2>1, <2>2, PassReleases
  <2>4. mHold.drained /\ mBook.clear
    BY <1>1, <2>3, PassAdvances
  <2> QED
    BY <2>1, <2>3, <2>4 DEF PastInv, CertifiedEarly, ReadyUnseen, Unseen
<1>3. CASE ~Hold!EndPass
  <2>2. HoldOK(Hold!Interrupted(mHold, mSlot)) /\ ~Hold!Interrupted(mHold, mSlot).finished
    BY <1>1, HoldUpdates, Unended
  <2>3. ~Hold!Failed(Hold!Interrupted(mHold, mSlot)).finished
    BY <1>1, <2>2, Unended
  <2>4. ~Hold!NoHold.finished
    BY FreshHold
  <2>5. Hold!Entered(mHold, mSlot) = mHold
    BY DEF Hold!Entered
  <2> QED
    BY <1>1, <1>3, <2>2, <2>3, <2>4, <2>5, HoldChanges
<1> QED
  BY <1>2, <1>3

\* A hold that ends without a pause was certified drained before the close and
\* is released after the outage, unless the outage began, or came to be shown,
\* after the releasing pass had taken its evidence (execution/coordinator.py:301).
THEOREM ReleasesAreEarned == ComponentsSpec => ReleaseIsEarned
<1>1. ComponentsInit => HoldInv /\ PastInv
  BY HoldStart, PastStart
<1>2. HoldInv /\ PastInv /\ [ComponentsNext]_componentsVars => HoldInv' /\ PastInv' /\ Earned
  BY HoldStep, PastStep, HoldEarned, PartSteps
<1>3. Earned => [Earned]_holdVars
  OBVIOUS
<1>4. ReleaseIsEarned <=> [][Earned]_holdVars
  BY DEF ReleaseIsEarned, Hold!ReleaseIsEarned, Hold!vars, holdVars, Earned
<1> QED
  BY <1>1, <1>2, <1>3, <1>4, PTL DEF ComponentsSpec

-----------------------------------------------------------------------------
(* Quotes *)

Sides == [request : 0..QuoteRequests, generation : Nat, straggler : BOOLEAN]
Priced == [status : {"PENDING_REVALIDATION", "ACTIVE", "SUSPECT", "DISCONNECTED"},
           bid : Sides, ask : Sides]
Metas == [generation : Nat, preallocated : BOOLEAN, required : BOOLEAN]
Requested == [current : 0..QuoteRequests, last : 0..QuoteRequests]
Sessions == [up : BOOLEAN, ready : BOOLEAN, subscribed : BOOLEAN,
             outage : {"none", "lost", "farm_down"}]
TickSet == [kind : {"bid", "ask", "size"}, request : 1..QuoteRequests]
NoticeSet == [kind : {"connected", "disconnected", "lost", "restored", "farm_up", "farm_down"}]

\* A price is of the last request, or came from a tick that was checked before it.
SideOK(side) == side.request \in {0, qRequest.last} \/ side.straggler

Overtaken == qHeld.kind \in {"bid", "ask", "size"} /\ qHeld.request # qRequest.last

QuoteTypes ==
    /\ qQuote \in Priced /\ qMeta \in Metas /\ qRequest \in Requested /\ qLink \in Sessions
    /\ qFarm \in {"UNKNOWN", "CONNECTED", "DISCONNECTED"}
    /\ qEvents \in Seq(TickSet \cup NoticeSet)
    /\ qHeld \in TickSet \cup NoticeSet \cup {Quotes!Nothing}
    /\ qRequest.current \in {0, qRequest.last}

QuotePrices ==
    /\ SideOK(qQuote.bid) /\ SideOK(qQuote.ask)
    /\ qQuote.status = "ACTIVE" => qQuote.bid.request # 0 /\ qQuote.ask.request # 0

\* Only one tick can have been checked before the last request.
OneStraggler ==
    /\ ~(qQuote.bid.straggler /\ qQuote.ask.straggler)
    /\ Overtaken => ~qQuote.bid.straggler /\ ~qQuote.ask.straggler

QuotesInv == QuoteTypes /\ QuotePrices /\ OneStraggler

LEMMA NothingKind == Quotes!Nothing.kind = "none"
BY DEF Quotes!Nothing

LEMMA NoSideFacts ==
    Quotes!NoSide \in Sides /\ Quotes!NoSide.request = 0 /\ ~Quotes!NoSide.straggler
BY PartsAssumption DEF Quotes!NoSide, Sides

LEMMA QuotesStart == ComponentsInit => QuotesInv
<1> SUFFICES ASSUME ComponentsInit PROVE QuotesInv
  OBVIOUS
<1>1. /\ qQuote = [status |-> "PENDING_REVALIDATION", bid |-> Quotes!NoSide, ask |-> Quotes!NoSide]
      /\ qMeta = [generation |-> 0, preallocated |-> FALSE, required |-> FALSE]
      /\ qFarm = "UNKNOWN" /\ qRequest = [current |-> 0, last |-> 0]
      /\ qLink = [up |-> FALSE, ready |-> FALSE, subscribed |-> FALSE, outage |-> "none"]
      /\ qEvents = <<>> /\ qHeld = Quotes!Nothing
  BY DEF ComponentsInit, Quotes!Init
<1>2. 0 \in 0..QuoteRequests /\ 0 \in Nat
  BY PartsAssumption
<1>3. qQuote \in Priced /\ qMeta \in Metas /\ qRequest \in Requested /\ qLink \in Sessions
  BY <1>1, <1>2, NoSideFacts DEF Priced, Metas, Requested, Sessions
<1>4. qEvents \in Seq(TickSet \cup NoticeSet)
  BY <1>1
<1> QED
  BY <1>1, <1>3, <1>4, NoSideFacts, NothingKind
     DEF QuotesInv, QuoteTypes, QuotePrices, OneStraggler, SideOK, Overtaken

\* A new subscription forgets every price.
LEMMA Resubscribed ==
    ASSUME QuotesInv, NEW advance \in BOOLEAN, Quotes!BeginIbkrSubscriptions(advance),
           Quotes!RequestMarketData, qLink' \in Sessions, UNCHANGED <<qFarm, qEvents, qHeld>>
    PROVE  QuotesInv'
<1>1. qRequest.last \in 0..QuoteRequests /\ qRequest.last < QuoteRequests
      /\ qMeta.generation \in Nat
  BY DEF QuotesInv, QuoteTypes, Requested, Metas, Quotes!RequestMarketData
<1>2. qRequest.last + 1 \in 0..QuoteRequests
  BY <1>1, PartsAssumption
<1>3. qRequest' \in Requested /\ qRequest'.current = qRequest'.last
  BY <1>2 DEF Requested, Quotes!RequestMarketData
<1>4. qMeta.generation + (IF advance THEN 1 ELSE 0) \in Nat
  BY <1>1
<1>5. qMeta' \in Metas
  BY <1>4 DEF Metas, Quotes!BeginIbkrSubscriptions
<1>6. qQuote' \in Priced /\ qQuote'.status # "ACTIVE"
      /\ qQuote'.bid = Quotes!NoSide /\ qQuote'.ask = Quotes!NoSide
  BY NoSideFacts DEF Priced, Quotes!BeginIbkrSubscriptions
<1>7. QuoteTypes'
  BY <1>3, <1>5, <1>6 DEF QuotesInv, QuoteTypes
<1> QED
  BY <1>6, <1>7, NoSideFacts DEF QuotesInv, QuotePrices, OneStraggler, SideOK

\* A status that does not qualify keeps the prices.
LEMMA Invalidates ==
    ASSUME QuotesInv, NEW s \in {"PENDING_REVALIDATION", "SUSPECT", "DISCONNECTED"},
           Quotes!Invalidated(s), qMeta' \in Metas, qLink' \in Sessions,
           qFarm' \in {"UNKNOWN", "CONNECTED", "DISCONNECTED"},
           UNCHANGED <<qRequest, qEvents>>, qHeld' = Quotes!Nothing
    PROVE  QuotesInv'
<1>1. /\ qQuote' \in Priced /\ qQuote'.status = s
      /\ qQuote'.bid = qQuote.bid /\ qQuote'.ask = qQuote.ask
  BY DEF QuotesInv, QuoteTypes, Priced, Quotes!Invalidated
<1> QED
  BY <1>1, NothingKind
     DEF QuotesInv, QuoteTypes, QuotePrices, OneStraggler, SideOK, Overtaken

\* The same quote, but ACTIVE when both sides are there.
LEMMA Revalidates ==
    ASSUME NEW q \in Priced, NEW r \in {Quotes!Revalidated(q), q, [q EXCEPT !.status = "ACTIVE"]},
           q.status = "ACTIVE" => q.bid.request # 0 /\ q.ask.request # 0,
           r.status = "ACTIVE" /\ q.status # "ACTIVE" => Quotes!TwoSided(q)
    PROVE  /\ r \in Priced /\ r.bid = q.bid /\ r.ask = q.ask
           /\ r.status = "ACTIVE" => r.bid.request # 0 /\ r.ask.request # 0
<1>1. r = q \/ r = [q EXCEPT !.status = "ACTIVE"]
  BY DEF Quotes!Revalidated
<1>2. r \in Priced /\ r.bid = q.bid /\ r.ask = q.ask
  BY <1>1 DEF Priced
<1> QED
  BY <1>2 DEF Quotes!TwoSided

LEMMA AppliesTick ==
    ASSUME QuotesInv, qHeld.kind \in {"bid", "ask", "size"}, Quotes!ApplyTick(qHeld),
           qHeld' = Quotes!Nothing, UNCHANGED <<qRequest, qEvents>>
    PROVE  QuotesInv'
<1> DEFINE side == Quotes!Side(qHeld)
<1>0. UNCHANGED <<qMeta, qFarm, qLink>>
  BY DEF Quotes!ApplyTick
<1>1. qHeld \in TickSet
  BY NothingKind DEF QuotesInv, QuoteTypes, NoticeSet
<1>2. qHeld.request \in 0..QuoteRequests /\ qHeld.request # 0 /\ qMeta.generation \in Nat
  BY <1>1, PartsAssumption DEF TickSet, QuotesInv, QuoteTypes, Metas
<1>3. side \in Sides /\ side.request = qHeld.request
      /\ (side.straggler <=> qHeld.request # qRequest.last)
  BY <1>2 DEF Quotes!Side, Sides
<1>4. side.straggler => ~qQuote.bid.straggler /\ ~qQuote.ask.straggler
  BY <1>3 DEF QuotesInv, OneStraggler, Overtaken
<1> DEFINE q == CASE qHeld.kind = "bid" -> [qQuote EXCEPT !.bid = side]
                  [] qHeld.kind = "ask" -> [qQuote EXCEPT !.ask = side]
                  [] qHeld.kind = "size" -> qQuote
<1>5. qQuote' = Quotes!Revalidated(q)
  BY DEF Quotes!ApplyTick
<1> HIDE DEF side
<1>6. /\ q \in Priced /\ q.status = qQuote.status
      /\ \/ q.bid = side /\ q.ask = qQuote.ask
         \/ q.ask = side /\ q.bid = qQuote.bid
         \/ q.ask = qQuote.ask /\ q.bid = qQuote.bid
  <2>0. qQuote \in Priced
    BY DEF QuotesInv, QuoteTypes
  <2>1. CASE qHeld.kind = "bid"
    <3>1. q = [qQuote EXCEPT !.bid = side]
      BY <2>1
    <3> HIDE DEF q
    <3> QED
      BY <1>3, <2>0, <3>1 DEF Priced
  <2>2. CASE qHeld.kind = "ask"
    <3>1. q = [qQuote EXCEPT !.ask = side]
      BY <2>2
    <3> HIDE DEF q
    <3> QED
      BY <1>3, <2>0, <3>1 DEF Priced
  <2>3. CASE qHeld.kind = "size"
    <3>1. q = qQuote
      BY <2>3
    <3> QED
      BY <2>0, <3>1
  <2> QED
    BY <2>1, <2>2, <2>3
<1> HIDE DEF q
<1>7. q.status = "ACTIVE" => q.bid.request # 0 /\ q.ask.request # 0
  BY <1>2, <1>3, <1>6 DEF QuotesInv, QuotePrices
<1>8. qQuote'.status = "ACTIVE" /\ q.status # "ACTIVE" => Quotes!TwoSided(q)
  BY <1>5 DEF Quotes!Revalidated
<1>9. /\ qQuote' \in Priced /\ qQuote'.bid = q.bid /\ qQuote'.ask = q.ask
      /\ qQuote'.status = "ACTIVE" => qQuote'.bid.request # 0 /\ qQuote'.ask.request # 0
  BY <1>5, <1>6, <1>7, <1>8, Revalidates
<1>10. SideOK(side) /\ SideOK(qQuote.bid) /\ SideOK(qQuote.ask)
  BY <1>3 DEF QuotesInv, QuotePrices, SideOK
<1>11. SideOK(qQuote.bid)' /\ SideOK(qQuote.ask)'
  BY <1>6, <1>9, <1>10 DEF SideOK
<1>12. ~Overtaken'
  BY NothingKind DEF Overtaken
<1>13. QuoteTypes'
  BY <1>0, <1>9 DEF QuotesInv, QuoteTypes
<1>14. OneStraggler'
  BY <1>4, <1>6, <1>9, <1>12 DEF QuotesInv, OneStraggler
<1> QED
  BY <1>9, <1>11, <1>13, <1>14 DEF QuotesInv, QuotePrices, SideOK

\* Whatever leaves the quote, the requests and the held event alone.
LEMMA QuoteQueued ==
    ASSUME QuotesInv, qLink' \in Sessions, qRequest'.last = qRequest.last,
           qRequest' \in Requested, qRequest'.current \in {0, qRequest'.last},
           qEvents' \in Seq(TickSet \cup NoticeSet), UNCHANGED <<qQuote, qMeta, qFarm, qHeld>>
    PROVE  QuotesInv'
BY DEF QuotesInv, QuoteTypes, QuotePrices, OneStraggler, SideOK, Overtaken

LEMMA QuotesStep == QuotesInv /\ [Quotes!Next]_quotesVars => QuotesInv'
<1> SUFFICES ASSUME QuotesInv, [Quotes!Next]_quotesVars PROVE QuotesInv'
  OBVIOUS
<1>0. QuoteTypes
  BY DEF QuotesInv
<1>q. ASSUME NEW e \in TickSet \cup NoticeSet, qEvents' = Append(qEvents, e)
      PROVE  qEvents' \in Seq(TickSet \cup NoticeSet)
  BY <1>0, <1>q, AppendProperties DEF QuoteTypes
<1>n. ASSUME NEW k \in {"connected", "disconnected", "lost", "restored", "farm_up", "farm_down"}
      PROVE  [kind |-> k] \in TickSet \cup NoticeSet
  BY DEF NoticeSet
<1>1. CASE Quotes!Connect
  <2>0. 0 \in 0..QuoteRequests
    BY PartsAssumption
  <2>1. qRequest' \in Requested /\ qRequest'.current = 0 /\ qRequest'.last = qRequest.last
    BY <1>0, <1>1, <2>0 DEF Quotes!Connect, QuoteTypes, Requested
  <2>2. qLink' \in Sessions
    BY <1>1 DEF Quotes!Connect, Sessions
  <2> QED
    BY <1>1, <1>q, <1>n, <2>1, <2>2, QuoteQueued DEF Quotes!Connect
<1>2. CASE Quotes!ConnectionClosed
  <2>1. qLink' \in Sessions
    BY <1>0, <1>2 DEF Quotes!ConnectionClosed, QuoteTypes, Sessions
  <2> QED
    BY <1>0, <1>2, <1>q, <1>n, <2>1, QuoteQueued DEF Quotes!ConnectionClosed, QuoteTypes
<1>3. CASE Quotes!SubscribeOnConnect
  <2>1. qLink' \in Sessions
    BY <1>0, <1>3 DEF Quotes!SubscribeOnConnect, QuoteTypes, Sessions
  <2> QED
    BY <1>3, <2>1, Resubscribed DEF Quotes!SubscribeOnConnect
<1>4. CASE Quotes!Resubscribe
  <2>1. (~qMeta.preallocated) \in BOOLEAN
    OBVIOUS
  <2> QED
    BY <1>0, <1>4, <2>1, Resubscribed DEF Quotes!Resubscribe, QuoteTypes
<1>5. ASSUME NEW k \in {"bid", "ask", "size"}, Quotes!TickArrives(k) PROVE QuotesInv'
  <2>1. qRequest.current \in 1..QuoteRequests
    BY <1>0, <1>5 DEF Quotes!TickArrives, QuoteTypes, Requested
  <2>2. [kind |-> k, request |-> qRequest.current] \in TickSet
    BY <2>1 DEF TickSet
  <2> QED
    BY <1>0, <1>5, <1>q, <2>2, QuoteQueued DEF Quotes!TickArrives, QuoteTypes
<1>6. ASSUME NEW k \in {"lost", "farm_down"}, Quotes!ServiceLost(k) PROVE QuotesInv'
  <2>1. qLink' \in Sessions
    BY <1>0, <1>6 DEF Quotes!ServiceLost, QuoteTypes, Sessions
  <2> QED
    BY <1>0, <1>6, <1>q, <1>n, <2>1, QuoteQueued DEF Quotes!ServiceLost, QuoteTypes
<1>7. CASE Quotes!ServiceRestored
  <2>1. qLink' \in Sessions
    BY <1>0, <1>7 DEF Quotes!ServiceRestored, QuoteTypes, Sessions
  <2> QED
    BY <1>0, <1>7, <1>q, <1>n, <2>1, QuoteQueued DEF Quotes!ServiceRestored, QuoteTypes
<1>8. CASE Quotes!FarmAnnounced
  BY <1>0, <1>8, <1>q, <1>n, QuoteQueued DEF Quotes!FarmAnnounced, QuoteTypes
<1>9. CASE Quotes!CheckEvent
  <2>1. /\ Head(qEvents) \in TickSet \cup NoticeSet
        /\ qEvents' \in Seq(TickSet \cup NoticeSet)
    BY <1>0, <1>9, HeadTailProperties DEF Quotes!CheckEvent, QuoteTypes
  <2>2. qHeld' \in TickSet \cup NoticeSet \cup {Quotes!Nothing}
    BY <1>9, <2>1 DEF Quotes!CheckEvent
  <2>3. UNCHANGED <<qQuote, qMeta, qFarm, qRequest, qLink>>
    BY <1>9 DEF Quotes!CheckEvent
  <2>4. ~Overtaken'
    <3>1. CASE qHeld' = Quotes!Nothing
      BY <3>1, NothingKind DEF Overtaken
    <3>2. CASE qHeld' = Head(qEvents) /\ ~Quotes!Retired(Head(qEvents))
      <4>1. qHeld'.kind \in {"bid", "ask", "size"} => qHeld' \in TickSet /\ qHeld'.request = qRequest.current
        BY <2>1, <3>2 DEF Quotes!Retired, Quotes!TickKinds, NoticeSet
      <4>2. \A e \in TickSet : e.request # 0
        BY DEF TickSet
      <4> QED
        BY <1>0, <2>3, <4>1, <4>2 DEF Overtaken, QuoteTypes
    <3> QED
      BY <1>9, <3>1, <3>2 DEF Quotes!CheckEvent
  <2> QED
    BY <2>1, <2>2, <2>3, <2>4 DEF QuotesInv, QuoteTypes, QuotePrices, OneStraggler, SideOK
<1>10. CASE Quotes!ApplyEvent
  <2>0. /\ qHeld \in TickSet \cup NoticeSet /\ qHeld' = Quotes!Nothing
        /\ UNCHANGED <<qRequest, qEvents>>
    BY <1>0, <1>10 DEF Quotes!ApplyEvent, QuoteTypes
  <2>a. qMeta \in Metas /\ qLink \in Sessions /\ qFarm \in {"UNKNOWN", "CONNECTED", "DISCONNECTED"}
        /\ qQuote \in Priced
    BY <1>0 DEF QuoteTypes
  <2>1. CASE qHeld.kind \in {"bid", "ask", "size"}
    <3>1. Quotes!ApplyTick(qHeld)
      BY <1>10, <2>1 DEF Quotes!ApplyEvent, Quotes!TickKinds
    <3> QED
      BY <2>0, <2>1, <3>1, AppliesTick
  <2>2. CASE qHeld.kind = "farm_down"
    <3>1. Quotes!FarmDown
      BY <1>10, <2>2 DEF Quotes!ApplyEvent, Quotes!TickKinds
    <3> QED
      BY <2>0, <2>a, <3>1, Invalidates DEF Quotes!FarmDown
  <2>3. CASE qHeld.kind = "farm_up"
    <3>1. Quotes!FarmUp
      BY <1>10, <2>3 DEF Quotes!ApplyEvent, Quotes!TickKinds
    <3>2. qFarm' = "CONNECTED" /\ qLink' = qLink
      BY <3>1 DEF Quotes!FarmUp
    <3>3. CASE qFarm = "DISCONNECTED"
      <4>1. qMeta' \in Metas
        BY <2>a, <3>1, <3>3 DEF Quotes!FarmUp, Metas
      <4> QED
        BY <2>0, <2>a, <3>1, <3>2, <3>3, <4>1, Invalidates DEF Quotes!FarmUp
    <3>4. CASE qFarm # "DISCONNECTED"
      <4>1. /\ qQuote' \in {qQuote, [qQuote EXCEPT !.status = "ACTIVE"]} /\ qMeta' = qMeta
            /\ qQuote'.status = "ACTIVE" /\ qQuote.status # "ACTIVE" => Quotes!TwoSided(qQuote)
        BY <3>1, <3>4 DEF Quotes!FarmUp
      <4>2. /\ qQuote' \in Priced /\ qQuote'.bid = qQuote.bid /\ qQuote'.ask = qQuote.ask
            /\ qQuote'.status = "ACTIVE" => qQuote'.bid.request # 0 /\ qQuote'.ask.request # 0
        BY <2>a, <4>1, Revalidates DEF QuotesInv, QuotePrices
      <4> QED
        BY <2>0, <2>a, <3>2, <4>1, <4>2, NothingKind
           DEF QuotesInv, QuoteTypes, QuotePrices, OneStraggler, SideOK, Overtaken
    <3> QED
      BY <3>3, <3>4
  <2>4. CASE qHeld.kind = "lost"
    <3>1. Quotes!Lost1100
      BY <1>10, <2>4 DEF Quotes!ApplyEvent, Quotes!TickKinds
    <3>2. qMeta.generation + 1 \in Nat
      BY <2>a DEF Metas
    <3>3. qMeta' \in Metas
      BY <2>a, <3>1, <3>2 DEF Quotes!Lost1100, Metas
    <3> QED
      BY <2>0, <2>a, <3>1, <3>3, Invalidates DEF Quotes!Lost1100
  <2>5. CASE qHeld.kind = "restored"
    <3>1. Quotes!Restored1102
      BY <1>10, <2>5 DEF Quotes!ApplyEvent, Quotes!TickKinds
    <3>2. qMeta' \in Metas
      BY <2>a, <3>1 DEF Quotes!Restored1102, Metas
    <3> QED
      BY <2>0, <2>a, <3>1, <3>2, Invalidates DEF Quotes!Restored1102
  <2>6. CASE qHeld.kind = "connected"
    <3>1. qLink' = [qLink EXCEPT !.ready = TRUE] /\ UNCHANGED <<qQuote, qMeta, qFarm>>
      BY <1>10, <2>6 DEF Quotes!ApplyEvent, Quotes!TickKinds
    <3>2. qLink' \in Sessions
      BY <2>a, <3>1 DEF Sessions
    <3> QED
      BY <2>0, <3>1, <3>2, NothingKind
         DEF QuotesInv, QuoteTypes, QuotePrices, OneStraggler, SideOK, Overtaken
  <2>7. CASE qHeld.kind = "disconnected"
    <3>1. /\ Quotes!Invalidated("DISCONNECTED") /\ qLink' = [qLink EXCEPT !.ready = FALSE]
          /\ UNCHANGED <<qMeta, qFarm>>
      BY <1>10, <2>7 DEF Quotes!ApplyEvent, Quotes!TickKinds
    <3>2. qLink' \in Sessions
      BY <2>a, <3>1 DEF Sessions
    <3> QED
      BY <2>0, <2>a, <3>1, <3>2, Invalidates
  <2> QED
    BY <2>0, <2>1, <2>2, <2>3, <2>4, <2>5, <2>6, <2>7 DEF TickSet, NoticeSet
<1>11. CASE UNCHANGED quotesVars
  BY <1>11 DEF quotesVars, QuotesInv, QuoteTypes, QuotePrices, OneStraggler, SideOK, Overtaken
<1> QED
  BY <1>1, <1>2, <1>3, <1>4, <1>5, <1>6, <1>7, <1>8, <1>9, <1>10, <1>11
     DEF Quotes!Next, Quotes!TickKinds

LEMMA QuotesSafe == QuotesInv => QuoteRebuilt
BY DEF QuotesInv, QuotePrices, OneStraggler, SideOK, QuoteRebuilt, Quotes!QuoteRebuilt

\* However often the month is subscribed again, and whatever ticks are still
\* queued, an ACTIVE quote holds prices of the last request, but for one tick
\* already past its check (services/state.py:349-390).
THEOREM QuotesAreRebuilt == ComponentsSpec => []QuoteRebuilt
<1>1. ComponentsInit => QuotesInv
  BY QuotesStart
<1>2. QuotesInv /\ [ComponentsNext]_componentsVars => QuotesInv'
  BY QuotesStep, PartSteps
<1>3. QuotesInv => QuoteRebuilt
  BY QuotesSafe
<1> QED
  BY <1>1, <1>2, <1>3, PTL DEF ComponentsSpec

-----------------------------------------------------------------------------
(* The shutdown *)

Callbacks == IngressFills \cup {"over"}
Taken == [event : Callbacks \cup {"market"}, step : {"idle", "taken", "begun"}]
Drains == [scheduled : BOOLEAN, soon : Nat, handle : BOOLEAN]
HedgedLedgers == [over : BOOLEAN, recorded : SUBSET IngressFills, hedged : SUBSET IngressFills,
                  revision : Nat]
Verdicts == [clean : BOOLEAN, revision : Nat]

In(q, e) == \E i \in 1..Len(q) : q[i] = e

ShutdownTypes ==
    /\ sIngress \in Seq(Callbacks) /\ Len(sIngress) <= IngressCapacity
    /\ sEvents \in Seq(Callbacks \cup {"market"}) /\ Len(sEvents) <= IngressCapacity
    /\ sDrain \in Drains /\ sHandling \in Taken /\ sLedger \in HedgedLedgers /\ sRecon \in Verdicts
    /\ sStop \in {"no", "halted", "orders read", "hedges read", "ready", "late"}
    /\ sStopped \in BOOLEAN /\ sOverflow \in BOOLEAN

\* Where a callback is: nothing that came is lost without a trace.
Traced(f) ==
    \/ f \in sLedger.recorded \/ f \in sDropped
    \/ In(sIngress, f) \/ In(sEvents, f)
    \/ sHandling.step # "idle" /\ sHandling.event = f

NoneLost == sOverflow \/ \A f \in sEmitted \cap IngressFills : Traced(f)

\* A disconnected adapter has an empty ingress, which a drain may clear.
ClosedIsEmpty == sStopped => sIngress = <<>>

\* A clean result at the ledger's revision is one about these hedges.
CleanIsSettled ==
    /\ sRecon.revision <= sLedger.revision
    /\ sRecon.clean /\ sRecon.revision = sLedger.revision => sLedger.hedged = sLedger.recorded

OrdersOver == sStop \in {"orders read", "hedges read", "ready"} => sLedger.over

ShutdownInv == ShutdownTypes /\ NoneLost /\ ClosedIsEmpty /\ CleanIsSettled /\ OrdersOver

\* Sequences by their elements.
LEMMA InAppend ==
    ASSUME NEW S, NEW q \in Seq(S), NEW e \in S
    PROVE  /\ Append(q, e) \in Seq(S) /\ Len(Append(q, e)) = Len(q) + 1
           /\ In(Append(q, e), e)
           /\ \A f : In(q, f) => In(Append(q, e), f)
<1>1. /\ Append(q, e) \in Seq(S) /\ Len(Append(q, e)) = Len(q) + 1 /\ Len(q) \in Nat
      /\ \A i \in 1..Len(q) : Append(q, e)[i] = q[i]
      /\ Append(q, e)[Len(q) + 1] = e
  BY AppendProperties, LenProperties
<1>2. Len(q) + 1 \in 1..Len(Append(q, e)) /\ \A i \in 1..Len(q) : i \in 1..Len(Append(q, e))
  BY <1>1
<1> QED
  BY <1>1, <1>2 DEF In

LEMMA InTail ==
    ASSUME NEW S, NEW q \in Seq(S), q # <<>>
    PROVE  /\ Head(q) \in S /\ Tail(q) \in Seq(S) /\ Len(Tail(q)) = Len(q) - 1
           /\ \A f : In(q, f) => f = Head(q) \/ In(Tail(q), f)
<1>1. /\ Head(q) \in S /\ Head(q) = q[1] /\ Tail(q) \in Seq(S) /\ Len(Tail(q)) = Len(q) - 1
      /\ Len(q) \in Nat /\ Len(q) # 0
      /\ \A i \in 1..Len(Tail(q)) : Tail(q)[i] = q[i + 1]
  BY HeadTailProperties, LenProperties, EmptySeq
<1>2. ASSUME NEW i \in 1..Len(q), i # 1
      PROVE  i - 1 \in 1..Len(Tail(q)) /\ Tail(q)[i - 1] = q[i]
  <2>1. i - 1 \in 1..Len(Tail(q)) /\ (i - 1) + 1 = i
    BY <1>1, <1>2
  <2> QED
    BY <1>1, <2>1
<1> QED
  BY <1>1, <1>2 DEF In

LEMMA ShutdownStart == ComponentsInit => ShutdownInv
<1> SUFFICES ASSUME ComponentsInit PROVE ShutdownInv
  OBVIOUS
<1>1. /\ sIngress = <<>> /\ sEvents = <<>>
      /\ sDrain = [scheduled |-> FALSE, soon |-> 0, handle |-> FALSE]
      /\ sStopped = FALSE /\ sOverflow = FALSE
      /\ sHandling = [event |-> "market", step |-> "idle"]
      /\ sLedger = [over |-> FALSE, recorded |-> {}, hedged |-> {}, revision |-> 0]
      /\ sRecon = [clean |-> FALSE, revision |-> 0]
      /\ sStop = "no" /\ sEmitted = {}
  BY DEF ComponentsInit, Shutdown!Init, Shutdown!Idle, Shutdown!Other
<1>2. sIngress \in Seq(Callbacks) /\ sEvents \in Seq(Callbacks \cup {"market"})
      /\ Len(sIngress) = 0 /\ Len(sEvents) = 0
  BY <1>1
<1>3. sDrain \in Drains /\ sHandling \in Taken /\ sLedger \in HedgedLedgers /\ sRecon \in Verdicts
  BY <1>1 DEF Drains, Taken, HedgedLedgers, Verdicts
<1>4. Len(sIngress) <= IngressCapacity /\ Len(sEvents) <= IngressCapacity
  BY <1>2, PartsAssumption
<1>5. ShutdownTypes
  BY <1>1, <1>2, <1>3, <1>4 DEF ShutdownTypes
<1>6. NoneLost /\ ClosedIsEmpty
  BY <1>1 DEF NoneLost, ClosedIsEmpty
<1>7. CleanIsSettled /\ OrdersOver
  <2>1. sRecon.revision = 0 /\ sLedger.revision = 0 /\ sRecon.clean = FALSE
    BY <1>1
  <2> QED
    BY <1>1, <2>1 DEF CleanIsSettled, OrdersOver
<1> QED
  BY <1>5, <1>6, <1>7 DEF ShutdownInv

\* Reconciling a ledger at its revision.
LEMMA Reconciles ==
    ASSUME NEW l \in HedgedLedgers, Shutdown!Reconciled(l)
    PROVE  /\ sRecon' \in Verdicts /\ sRecon'.revision <= l.revision
           /\ sRecon'.clean /\ sRecon'.revision = l.revision => l.hedged = l.recorded
<1>0. l.revision \in Nat
  BY DEF HedgedLedgers
<1>1. PICK clean \in {FALSE, l.hedged = l.recorded} :
        sRecon' = [clean |-> clean, revision |-> IF clean THEN l.revision ELSE 0]
  BY DEF Shutdown!Reconciled
<1>2. CASE clean
  <2>1. sRecon' = [clean |-> TRUE, revision |-> l.revision] /\ l.hedged = l.recorded
    BY <1>1, <1>2
  <2> QED
    BY <1>0, <2>1 DEF Verdicts
<1>3. CASE ~clean
  <2>1. sRecon' = [clean |-> FALSE, revision |-> 0]
    BY <1>1, <1>3
  <2> QED
    BY <1>0, <2>1 DEF Verdicts
<1> QED
  BY <1>2, <1>3

\* What leaves the ledger, the verdict and the shutdown alone.
LEMMA Moves ==
    ASSUME ShutdownInv, UNCHANGED <<sLedger, sRecon, sStop>>,
           sIngress' \in Seq(Callbacks), Len(sIngress') <= IngressCapacity,
           sEvents' \in Seq(Callbacks \cup {"market"}), Len(sEvents') <= IngressCapacity,
           sDrain' \in Drains, sHandling' \in Taken, sStopped' \in BOOLEAN, sOverflow' \in BOOLEAN,
           NoneLost', ClosedIsEmpty'
    PROVE  ShutdownInv'
BY DEF ShutdownInv, ShutdownTypes, CleanIsSettled, OrdersOver

\* A run of the drain, whatever it was scheduled by.
LEMMA DrainMoves ==
    ASSUME ShutdownInv, NEW d \in Drains, Shutdown!DrainRuns(d) PROVE ShutdownInv'
<1>0. /\ sIngress \in Seq(Callbacks) /\ Len(sIngress) <= IngressCapacity
      /\ sEvents \in Seq(Callbacks \cup {"market"}) /\ Len(sEvents) <= IngressCapacity
      /\ sHandling \in Taken /\ sStopped \in BOOLEAN /\ sOverflow \in BOOLEAN
      /\ IngressCapacity \in Nat
  BY PartsAssumption DEF ShutdownInv, ShutdownTypes
<1>u. UNCHANGED <<sStopped, sOverflow, sHandling, sEmitted, sDropped, sLedger, sRecon, sStop>>
  BY DEF Shutdown!DrainRuns, Shutdown!Unchanged
<1>d. ASSUME NEW left PROVE Shutdown!Drained(d, left) \in Drains
  <2>1. d.soon \in Nat /\ d.soon + 1 \in Nat
    BY DEF Drains
  <2>2. (IF d.handle THEN d.soon + 1 ELSE d.soon) \in Nat
    BY <2>1
  <2> QED
    BY <2>2 DEF Shutdown!Drained, Drains
<1>1. CASE sStopped
  <2>1. sIngress' = <<>> /\ sIngress = <<>> /\ sEvents' = sEvents
        /\ sDrain' = [d EXCEPT !.scheduled = FALSE]
    BY <1>1 DEF Shutdown!DrainRuns, ShutdownInv, ClosedIsEmpty
  <2>2. sDrain' \in Drains
    BY <2>1 DEF Drains
  <2>3. NoneLost' /\ ClosedIsEmpty'
    BY <1>u, <2>1 DEF ShutdownInv, NoneLost, Traced, ClosedIsEmpty
  <2> QED
    BY <1>0, <1>u, <2>1, <2>2, <2>3, Moves
<1>2. CASE ~sStopped /\ (sIngress = <<>> \/ Len(sEvents) >= IngressCapacity)
  <2>1. sEvents' = sEvents /\ sIngress' = sIngress /\ sDrain' = Shutdown!Drained(d, sIngress)
    <3>1. sEvents' = sEvents \o <<>> /\ sIngress' = SubSeq(sIngress, Len(<<>>) + 1, Len(sIngress))
          /\ sDrain' = Shutdown!Drained(d, SubSeq(sIngress, Len(<<>>) + 1, Len(sIngress)))
      BY <1>2 DEF Shutdown!DrainRuns
    <3>2. SubSeq(sIngress, Len(<<>>) + 1, Len(sIngress)) = sIngress /\ sEvents \o <<>> = sEvents
      BY <1>0
    <3> QED
      BY <3>1, <3>2
  <2>2. NoneLost' /\ ClosedIsEmpty'
    BY <1>u, <2>1 DEF ShutdownInv, NoneLost, Traced, ClosedIsEmpty
  <2> QED
    BY <1>0, <1>u, <1>d, <2>1, <2>2, Moves
<1>3. CASE ~sStopped /\ sIngress # <<>> /\ ~(Len(sEvents) >= IngressCapacity)
  <2>1. sEvents' = Append(sEvents, Head(sIngress)) /\ sIngress' = Tail(sIngress)
    <3>1. sEvents' = sEvents \o <<Head(sIngress)>>
          /\ sIngress' = SubSeq(sIngress, Len(<<Head(sIngress)>>) + 1, Len(sIngress))
      BY <1>3 DEF Shutdown!DrainRuns
    <3>2. SubSeq(sIngress, 2, Len(sIngress)) = Tail(sIngress)
      BY <1>0, <1>3
    <3>3. sEvents \o <<Head(sIngress)>> = Append(sEvents, Head(sIngress))
      BY <1>0, <1>3
    <3> QED
      BY <3>1, <3>2, <3>3
  <2>2. sDrain' \in Drains
    BY <1>3, <1>d DEF Shutdown!DrainRuns
  <2>3. /\ Head(sIngress) \in Callbacks /\ Tail(sIngress) \in Seq(Callbacks)
        /\ Len(Tail(sIngress)) = Len(sIngress) - 1
        /\ \A f : In(sIngress, f) => f = Head(sIngress) \/ In(Tail(sIngress), f)
    BY <1>0, <1>3, InTail
  <2>4. /\ sEvents' \in Seq(Callbacks \cup {"market"}) /\ Len(sEvents') = Len(sEvents) + 1
        /\ In(sEvents', Head(sIngress))
        /\ \A f : In(sEvents, f) => In(sEvents', f)
    BY <1>0, <2>1, <2>3, InAppend
  <2>5. NoneLost'
    BY <1>u, <2>1, <2>3, <2>4 DEF ShutdownInv, NoneLost, Traced
  <2>6. Len(sIngress') <= IngressCapacity /\ Len(sEvents') <= IngressCapacity
    BY <1>0, <1>3, <2>1, <2>3, <2>4, LenProperties
  <2>7. ClosedIsEmpty'
    BY <1>3, <1>u DEF ClosedIsEmpty
  <2> QED
    BY <1>0, <1>u, <2>1, <2>2, <2>3, <2>4, <2>5, <2>6, <2>7, Moves
<1> QED
  BY <1>1, <1>2, <1>3

LEMMA ShutdownStep == ShutdownInv /\ [Shutdown!Next]_shutdownVars => ShutdownInv'
<1> SUFFICES ASSUME ShutdownInv, [Shutdown!Next]_shutdownVars PROVE ShutdownInv'
  OBVIOUS
<1>0. /\ sIngress \in Seq(Callbacks) /\ Len(sIngress) <= IngressCapacity /\ Len(sIngress) \in Nat
      /\ sEvents \in Seq(Callbacks \cup {"market"}) /\ Len(sEvents) <= IngressCapacity
      /\ Len(sEvents) \in Nat
      /\ sDrain \in Drains /\ sHandling \in Taken /\ sLedger \in HedgedLedgers /\ sRecon \in Verdicts
      /\ sStopped \in BOOLEAN /\ sOverflow \in BOOLEAN
      /\ IngressCapacity \in Nat
  BY PartsAssumption, LenProperties DEF ShutdownInv, ShutdownTypes
<1>l. sLedger.revision \in Nat /\ sRecon.revision \in Nat
      /\ sLedger.recorded \subseteq IngressFills /\ sLedger.hedged \subseteq IngressFills
  BY <1>0 DEF HedgedLedgers, Verdicts
<1>1. ASSUME NEW e \in Callbacks, Shutdown!EmitCallback(e) PROVE ShutdownInv'
  <2>u. /\ UNCHANGED <<sStopped, sEvents, sHandling, sDropped, sLedger, sRecon, sStop>>
        /\ sEmitted' = sEmitted \cup {e} /\ ~sStopped
    BY <1>1 DEF Shutdown!EmitCallback, Shutdown!Unchanged
  <2>1. CASE Len(sIngress) >= IngressCapacity
    <3>1. sOverflow' = TRUE /\ sIngress' = sIngress /\ sDrain' = sDrain
      BY <1>1, <2>1 DEF Shutdown!EmitCallback, Shutdown!Admit
    <3> QED
      BY <1>0, <2>u, <3>1, Moves DEF NoneLost, ClosedIsEmpty
  <2>2. CASE ~(Len(sIngress) >= IngressCapacity)
    <3>1. /\ sOverflow' = sOverflow /\ sIngress' = Append(sIngress, e)
          /\ sDrain' = IF sDrain.scheduled THEN sDrain
                       ELSE [sDrain EXCEPT !.scheduled = TRUE, !.soon = @ + 1]
      BY <1>1, <2>2 DEF Shutdown!EmitCallback, Shutdown!Admit
    <3>2. sDrain.soon + 1 \in Nat
      BY <1>0 DEF Drains
    <3>3. sDrain' \in Drains
      BY <1>0, <3>1, <3>2 DEF Drains
    <3>4. /\ sIngress' \in Seq(Callbacks) /\ Len(sIngress') = Len(sIngress) + 1
          /\ In(sIngress', e) /\ \A f : In(sIngress, f) => In(sIngress', f)
      BY <1>0, <3>1, InAppend
    <3>5. NoneLost' /\ ClosedIsEmpty'
      BY <2>u, <3>1, <3>4 DEF ShutdownInv, NoneLost, Traced, ClosedIsEmpty
    <3>6. Len(sIngress') <= IngressCapacity
      BY <1>0, <2>2, <3>4
    <3> QED
      BY <1>0, <2>u, <3>1, <3>3, <3>4, <3>5, <3>6, Moves
  <2> QED
    BY <2>1, <2>2
<1>2. CASE Shutdown!DrainIngress
  <2>1. CASE sDrain.soon > 0 /\ Shutdown!DrainRuns([sDrain EXCEPT !.soon = @ - 1])
    <3>1. sDrain.soon \in Nat
      BY <1>0 DEF Drains
    <3>2. sDrain.soon - 1 \in Nat
      BY <2>1, <3>1
    <3>3. [sDrain EXCEPT !.soon = @ - 1] \in Drains
      BY <1>0, <3>2 DEF Drains
    <3> QED
      BY <2>1, <3>3, DrainMoves
  <2>2. CASE Shutdown!DrainRuns([sDrain EXCEPT !.handle = FALSE])
    <3>1. [sDrain EXCEPT !.handle = FALSE] \in Drains
      BY <1>0 DEF Drains
    <3> QED
      BY <2>2, <3>1, DrainMoves
  <2> QED
    BY <1>2, <2>1, <2>2 DEF Shutdown!DrainIngress
<1>3. CASE Shutdown!PutOther
  <2>1. /\ UNCHANGED <<sIngress, sDrain, sStopped, sOverflow, sHandling, sLedger, sRecon, sStop,
                       sEmitted, sDropped>>
        /\ sEvents' = Append(sEvents, "market") /\ Len(sEvents) < IngressCapacity
    BY <1>3 DEF Shutdown!PutOther, Shutdown!Other
  <2>2. /\ sEvents' \in Seq(Callbacks \cup {"market"}) /\ Len(sEvents') = Len(sEvents) + 1
        /\ \A f : In(sEvents, f) => In(sEvents', f)
    BY <1>0, <2>1, InAppend
  <2>3. NoneLost' /\ ClosedIsEmpty'
    BY <2>1, <2>2 DEF ShutdownInv, NoneLost, Traced, ClosedIsEmpty
  <2>4. Len(sEvents') <= IngressCapacity
    BY <1>0, <2>1, <2>2
  <2> QED
    BY <1>0, <2>1, <2>2, <2>3, <2>4, Moves
<1>4. CASE Shutdown!TakeEvent
  <2>1. /\ UNCHANGED <<sIngress, sDrain, sStopped, sOverflow, sLedger, sRecon, sStop,
                       sEmitted, sDropped>>
        /\ sEvents' = Tail(sEvents) /\ sEvents # <<>> /\ sHandling.step = "idle"
        /\ sHandling' = [event |-> Head(sEvents), step |-> "taken"]
    BY <1>4 DEF Shutdown!TakeEvent, Shutdown!Unchanged
  <2>2. /\ Head(sEvents) \in Callbacks \cup {"market"}
        /\ sEvents' \in Seq(Callbacks \cup {"market"}) /\ Len(sEvents') = Len(sEvents) - 1
        /\ \A f : In(sEvents, f) => f = Head(sEvents) \/ In(sEvents', f)
    BY <1>0, <2>1, InTail
  <2>3. sHandling' \in Taken /\ sHandling'.step # "idle" /\ sHandling'.event = Head(sEvents)
    BY <2>1, <2>2 DEF Taken
  <2>4. NoneLost' /\ ClosedIsEmpty'
    BY <2>1, <2>2, <2>3 DEF ShutdownInv, NoneLost, Traced, ClosedIsEmpty
  <2>5. Len(sEvents') <= IngressCapacity
    BY <1>0, <2>2
  <2> QED
    BY <1>0, <2>1, <2>2, <2>3, <2>4, <2>5, Moves
<1>5. CASE Shutdown!BeginEvent
  <2>1. /\ UNCHANGED <<sIngress, sDrain, sStopped, sOverflow, sEvents, sLedger, sStop,
                       sEmitted, sDropped>>
        /\ sHandling.step = "taken" /\ sHandling' = [sHandling EXCEPT !.step = "begun"]
        /\ sRecon' = sRecon \/ sRecon' = [sRecon EXCEPT !.clean = FALSE]
    BY <1>5 DEF Shutdown!BeginEvent
  <2>2. sHandling' \in Taken /\ sHandling'.step = "begun" /\ sHandling'.event = sHandling.event
    BY <1>0, <2>1 DEF Taken
  <2>3. sRecon' \in Verdicts /\ sRecon'.revision = sRecon.revision /\ (sRecon'.clean => sRecon.clean)
    BY <1>0, <2>1 DEF Verdicts
  <2>4. NoneLost'
    BY <2>1, <2>2 DEF ShutdownInv, NoneLost, Traced
  <2>5. CleanIsSettled'
    BY <2>1, <2>3 DEF ShutdownInv, CleanIsSettled
  <2> QED
    BY <2>1, <2>2, <2>3, <2>4, <2>5
       DEF ShutdownInv, ShutdownTypes, ClosedIsEmpty, OrdersOver
<1>6. CASE Shutdown!FinishEvent
  <2>1. /\ UNCHANGED <<sIngress, sDrain, sStopped, sOverflow, sEvents, sStop, sEmitted, sDropped>>
        /\ sHandling.step = "begun" /\ sHandling' = [event |-> "market", step |-> "idle"]
        /\ sLedger' = Shutdown!Written(sHandling.event)
        /\ IF sHandling.event = "market" THEN sRecon' = sRecon ELSE Shutdown!Reconciled(sLedger')
    BY <1>6 DEF Shutdown!FinishEvent, Shutdown!Idle, Shutdown!Other
  <2>2. sHandling.event \in Callbacks \cup {"market"} /\ sHandling' \in Taken
        /\ sHandling'.step = "idle"
    BY <1>0, <2>1 DEF Taken
  <2>3. sLedger.revision + 1 \in Nat
    BY <1>l
  <2>4. /\ sLedger' \in HedgedLedgers /\ (sLedger.over => sLedger'.over)
        /\ sLedger.recorded \subseteq sLedger'.recorded
        /\ sHandling.event \in IngressFills => sHandling.event \in sLedger'.recorded
        /\ sHandling.event = "market" => sLedger' = sLedger
    <3>1. CASE sHandling.event = "over"
      <4>1. sHandling.event # "market" /\ sHandling.event \notin IngressFills
        BY <3>1, PartsAssumption
      <4>2. sLedger' = [sLedger EXCEPT !.over = TRUE, !.revision = @ + 1]
        BY <2>1, <3>1, <4>1 DEF Shutdown!Written
      <4>3. /\ sLedger' \in HedgedLedgers /\ sLedger'.over = TRUE
            /\ sLedger'.recorded = sLedger.recorded
        BY <1>0, <2>3, <4>2 DEF HedgedLedgers
      <4> QED
        BY <4>1, <4>3
    <3>2. CASE sHandling.event \in IngressFills
      <4>1. sLedger' = [sLedger EXCEPT !.recorded = @ \cup {sHandling.event}, !.revision = @ + 1]
        BY <2>1, <3>2, PartsAssumption DEF Shutdown!Written
      <4>2. sLedger.recorded \cup {sHandling.event} \in SUBSET IngressFills
        BY <1>l, <3>2
      <4>3. sHandling.event # "market"
        BY <3>2, PartsAssumption
      <4> QED
        BY <1>0, <2>3, <4>1, <4>2, <4>3 DEF HedgedLedgers
    <3>3. CASE sHandling.event = "market"
      <4>1. sLedger' = sLedger
        BY <2>1, <3>3, PartsAssumption DEF Shutdown!Written
      <4> QED
        BY <1>0, <3>3, <4>1, PartsAssumption
    <3> QED
      BY <2>2, <3>1, <3>2, <3>3 DEF Callbacks
  <2>5. sRecon' \in Verdicts /\ CleanIsSettled'
    <3>1. CASE sHandling.event = "market"
      BY <1>0, <2>1, <2>4, <3>1 DEF ShutdownInv, CleanIsSettled
    <3>2. CASE sHandling.event # "market"
      BY <2>1, <2>4, <3>2, Reconciles DEF CleanIsSettled
    <3> QED
      BY <3>1, <3>2
  <2>6. NoneLost'
    BY <2>1, <2>2, <2>4 DEF ShutdownInv, NoneLost, Traced
  <2> QED
    BY <2>1, <2>2, <2>4, <2>5, <2>6 DEF ShutdownInv, ShutdownTypes, ClosedIsEmpty, OrdersOver
<1>7. CASE Shutdown!CycleReconciles
  <2>1. /\ UNCHANGED <<sIngress, sDrain, sStopped, sOverflow, sEvents, sHandling, sLedger, sStop,
                       sEmitted, sDropped>>
        /\ Shutdown!Reconciled(sLedger)
    BY <1>7 DEF Shutdown!CycleReconciles
  <2>2. sRecon' \in Verdicts /\ CleanIsSettled'
    BY <1>0, <2>1, Reconciles DEF CleanIsSettled
  <2>3. NoneLost'
    BY <2>1 DEF ShutdownInv, NoneLost, Traced
  <2> QED
    BY <2>1, <2>2, <2>3 DEF ShutdownInv, ShutdownTypes, ClosedIsEmpty, OrdersOver
<1>8. CASE Shutdown!HedgeSettles
  <2>1. /\ UNCHANGED <<sIngress, sDrain, sStopped, sOverflow, sEvents, sHandling, sRecon, sStop,
                       sEmitted, sDropped>>
    BY <1>8 DEF Shutdown!HedgeSettles
  <2>2. PICK f \in sLedger.recorded \ sLedger.hedged :
          sLedger' = [sLedger EXCEPT !.hedged = @ \cup {f}, !.revision = @ + 1]
    BY <1>8 DEF Shutdown!HedgeSettles
  <2>3. sLedger.hedged \cup {f} \in SUBSET IngressFills /\ sLedger.revision + 1 \in Nat
    BY <1>l
  <2>4. /\ sLedger' \in HedgedLedgers /\ sLedger'.over = sLedger.over
        /\ sLedger'.recorded = sLedger.recorded /\ sLedger'.revision = sLedger.revision + 1
    BY <1>0, <2>2, <2>3 DEF HedgedLedgers
  <2>5. CleanIsSettled'
    BY <1>l, <2>1, <2>4 DEF ShutdownInv, CleanIsSettled
  <2>6. NoneLost'
    BY <2>1, <2>4 DEF ShutdownInv, NoneLost, Traced
  <2> QED
    BY <2>1, <2>4, <2>5, <2>6 DEF ShutdownInv, ShutdownTypes, ClosedIsEmpty, OrdersOver
<1>9. CASE Shutdown!Disconnect
  <2>1. /\ UNCHANGED <<sOverflow, sEvents, sHandling, sLedger, sRecon, sStop, sEmitted>>
        /\ sStopped' = TRUE /\ sIngress' = <<>>
        /\ sDrain' = [sDrain EXCEPT !.handle = FALSE, !.scheduled = FALSE]
        /\ sDropped' = sDropped \cup {sIngress[i] : i \in 1..Len(sIngress)}
    BY <1>9 DEF Shutdown!Disconnect, Shutdown!Disconnected
  <2>2. sDrain' \in Drains
    BY <1>0, <2>1 DEF Drains
  <2>3. \A f : In(sIngress, f) => f \in sDropped'
    BY <2>1 DEF In
  <2>4. NoneLost' /\ ClosedIsEmpty'
    BY <2>1, <2>3 DEF ShutdownInv, NoneLost, Traced, ClosedIsEmpty
  <2>5. sIngress' \in Seq(Callbacks) /\ Len(sIngress') <= IngressCapacity
    BY <1>0, <2>1
  <2> QED
    BY <1>0, <2>1, <2>2, <2>4, <2>5, Moves
<1>10. CASE Shutdown!Connect
  <2>1. /\ UNCHANGED <<sIngress, sDrain, sOverflow, sEvents, sHandling, sLedger, sRecon, sStop,
                       sEmitted, sDropped>>
        /\ sStopped' = FALSE
    BY <1>10 DEF Shutdown!Connect, Shutdown!Unchanged
  <2>2. NoneLost' /\ ClosedIsEmpty'
    BY <2>1 DEF ShutdownInv, NoneLost, Traced, ClosedIsEmpty
  <2> QED
    BY <1>0, <2>1, <2>2, Moves
<1>11. CASE Shutdown!Halt \/ Shutdown!ReadOrders \/ Shutdown!ReadObligations
            \/ Shutdown!DecideShutdown \/ Shutdown!ShutdownTimesOut
  <2>1. /\ UNCHANGED <<sIngress, sDrain, sStopped, sOverflow, sEvents, sHandling, sLedger, sRecon,
                       sEmitted, sDropped>>
        /\ sStop' \in {"no", "halted", "orders read", "hedges read", "ready", "late"}
        /\ OrdersOver'
    BY <1>11 DEF Shutdown!Halt, Shutdown!ReadOrders, Shutdown!ReadObligations,
                 Shutdown!DecideShutdown, Shutdown!ShutdownTimesOut, Shutdown!StopUnchanged,
                 ShutdownInv, OrdersOver
  <2>2. NoneLost'
    BY <2>1 DEF ShutdownInv, NoneLost, Traced
  <2> QED
    BY <2>1, <2>2 DEF ShutdownInv, ShutdownTypes, ClosedIsEmpty, CleanIsSettled
<1>12. CASE UNCHANGED shutdownVars
  BY <1>12 DEF shutdownVars, ShutdownInv, ShutdownTypes, NoneLost, Traced, ClosedIsEmpty,
               CleanIsSettled, OrdersOver
<1> QED
  BY <1>1, <1>2, <1>3, <1>4, <1>5, <1>6, <1>7, <1>8, <1>9, <1>10, <1>11, <1>12
     DEF Shutdown!Next, Shutdown!Callbacks, Callbacks

Settled ==
    sStop # "ready" /\ sStop' = "ready" =>
        /\ sLedger.over /\ sLedger.hedged = sLedger.recorded
        /\ sEmitted \cap IngressFills \subseteq sLedger.recorded \cup sDropped

LEMMA ReadySettles == ShutdownInv /\ [Shutdown!Next]_shutdownVars => Settled
<1> SUFFICES ASSUME ShutdownInv, [Shutdown!Next]_shutdownVars, sStop # "ready", sStop' = "ready"
             PROVE  /\ sLedger.over /\ sLedger.hedged = sLedger.recorded
                    /\ sEmitted \cap IngressFills \subseteq sLedger.recorded \cup sDropped
  BY DEF Settled
<1>1. Shutdown!DecideShutdown
  BY DEF Shutdown!Next, Shutdown!EmitCallback, Shutdown!DrainIngress, Shutdown!DrainRuns,
    Shutdown!PutOther, Shutdown!TakeEvent, Shutdown!BeginEvent, Shutdown!FinishEvent,
    Shutdown!CycleReconciles, Shutdown!HedgeSettles, Shutdown!Disconnect, Shutdown!Connect,
    Shutdown!Halt, Shutdown!ReadOrders, Shutdown!ReadObligations, Shutdown!ShutdownTimesOut,
    Shutdown!Unchanged, shutdownVars
<1>2. sStop = "hedges read" /\ Shutdown!Ready
  BY <1>1 DEF Shutdown!DecideShutdown
<1>3. /\ sEvents = <<>> /\ sHandling.step = "idle" /\ sIngress = <<>> /\ ~sOverflow
      /\ sRecon.clean /\ sRecon.revision = sLedger.revision
  BY <1>2 DEF Shutdown!Ready, Shutdown!NothingLeft
<1>4. sLedger.over /\ sLedger.hedged = sLedger.recorded
  BY <1>2, <1>3 DEF ShutdownInv, OrdersOver, CleanIsSettled
<1>5. \A f : ~In(sEvents, f) /\ ~In(sIngress, f)
  BY <1>3 DEF In
<1> QED
  BY <1>3, <1>4, <1>5 DEF ShutdownInv, NoneLost, Traced

\* A shutdown that calls itself reconciled has applied every callback it was
\* given and leaves no hedge due, at any capacity of the queues
\* (services/engine.py:195, adapters/ibkr.py:481).
THEOREM ShutdownsAreSettled == ComponentsSpec => ReadyIsSettled
<1>1. ComponentsInit => ShutdownInv
  BY ShutdownStart
<1>2. ShutdownInv /\ [ComponentsNext]_componentsVars => ShutdownInv' /\ Settled
  BY ShutdownStep, ReadySettles, PartSteps
<1>3. Settled => [Settled]_shutdownVars
  OBVIOUS
<1>4. ReadyIsSettled <=> [][Settled]_shutdownVars
  BY DEF ReadyIsSettled, Shutdown!ReadyIsSettled, Shutdown!vars, shutdownVars, Settled
<1> QED
  BY <1>1, <1>2, <1>3, <1>4, PTL DEF ComponentsSpec

-----------------------------------------------------------------------------
(* The order books *)

VenueChange == [level : Levels, gone : BOOLEAN]
PublicEvents == [kind : {"book"}, version : Nat] \cup [kind : {"price_change"}, version : Nat]
    \cup [kind : {"malformed"}]
PublicQueued == [event : PublicEvents, generation : Nat]
Streams == [generation : Nat, reset : BOOLEAN, up : BOOLEAN, fed : BOOLEAN]
RestReads == [generation : Nat, version : Nat, held : BOOLEAN]

\* The venue's book as a function of its changes.
Hits(v, n, l) == {i \in 1..n : v[i].level = l}
IsLast(i, hits) == i \in hits /\ \A j \in hits : j <= i
SizeAfter(v, i) == IF v[i].gone THEN 0 ELSE i
SizeAmong(v, hits) ==
    IF hits = {} THEN 0 ELSE SizeAfter(v, CHOOSE i \in hits : \A j \in hits : j <= i)
LevelAt(v, n, l) == SizeAmong(v, Hits(v, n, l))
Content(v, n) == [l \in Levels |-> LevelAt(v, n, l)]

\* A level that changed has a last change.
LastChanges(v) ==
    \A n \in 0..Len(v), l \in Levels : Hits(v, n, l) # {} => \E i \in Hits(v, n, l) : IsLast(i, Hits(v, n, l))

Fresh(q) == q.generation = bStream.generation

BookTypes ==
    /\ bVenue \in Seq(VenueChange) /\ bQueue \in Seq(PublicQueued)
    /\ bStream \in Streams /\ bRest \in RestReads
    /\ bBook = [levels |-> bBook.levels, hash |-> bBook.hash, synchronized |-> bBook.synchronized]
    /\ bBook.hash \in Nat /\ bBook.synchronized \in BOOLEAN

\* No version is known before the venue reaches it, no generation before it starts.
BookBounds ==
    /\ bBook.hash <= Len(bVenue) /\ bRest.version <= Len(bVenue)
    /\ \A i \in 1..Len(bQueue) :
          /\ bQueue[i].generation <= bStream.generation
          /\ bQueue[i].event.kind # "malformed" => bQueue[i].event.version <= Len(bVenue)

\* A price change of the present stream follows what is before it: the event in
\* front of it in the queue, or the synchronized book.
Linked ==
    \A i \in 1..Len(bQueue) :
        Fresh(bQueue[i]) /\ bQueue[i].event.kind = "price_change" =>
            IF i = 1 THEN bBook.synchronized => bQueue[i].event.version = bBook.hash + 1
            ELSE /\ Fresh(bQueue[i - 1])
                 /\ bQueue[i - 1].event.kind # "malformed" =>
                        bQueue[i].event.version = bQueue[i - 1].event.version + 1

\* What a fed stream sent last is the venue's present book.
UpToDate ==
    bStream.fed =>
        IF bQueue = <<>> THEN bBook.synchronized => bBook.hash = Len(bVenue)
        ELSE /\ Fresh(bQueue[Len(bQueue)])
             /\ bQueue[Len(bQueue)].event.kind # "malformed" =>
                    bQueue[Len(bQueue)].event.version = Len(bVenue)

ResetUnsynchronizes == bStream.reset => ~bBook.synchronized

Matches == bBook.synchronized => bBook.levels = Content(bVenue, bBook.hash)

BooksInv == BookTypes /\ BookBounds /\ Linked /\ UpToDate /\ ResetUnsynchronizes
            /\ LastChanges(bVenue) /\ Matches

LEMMA ContentIs == \A n : Books!ContentAt(n) = Content(bVenue, n)
BY DEF Books!ContentAt, Content, LevelAt, SizeAmong, Hits, SizeAfter

\* There is one last element.
LEMMA LastIsChosen ==
    ASSUME NEW hits \in SUBSET Nat, NEW i, IsLast(i, hits)
    PROVE  (CHOOSE k \in hits : \A j \in hits : j <= k) = i
<1> DEFINE c == CHOOSE k \in hits : \A j \in hits : j <= k
<1>1. i \in hits /\ \A j \in hits : j <= i
  BY DEF IsLast
<1>2. c \in hits /\ \A j \in hits : j <= c
  BY <1>1
<1>3. c <= i /\ i <= c /\ c \in Nat /\ i \in Nat
  BY <1>1, <1>2
<1> QED
  BY <1>3

\* What the venue changes later leaves a version as it was.
LEMMA ContentStays ==
    ASSUME NEW v \in Seq(VenueChange), NEW w \in Seq(VenueChange), LastChanges(v),
           NEW n \in 0..Len(v), \A i \in 1..Len(v) : w[i] = v[i]
    PROVE  Content(w, n) = Content(v, n)
<1>0. Len(v) \in Nat
  BY LenProperties
<1>1. ASSUME NEW l \in Levels PROVE LevelAt(w, n, l) = LevelAt(v, n, l)
  <2>1. Hits(w, n, l) = Hits(v, n, l)
    BY <1>0 DEF Hits
  <2>2. CASE Hits(v, n, l) = {}
    BY <2>1, <2>2 DEF LevelAt, SizeAmong
  <2>3. CASE Hits(v, n, l) # {}
    <3>1. PICK i \in Hits(v, n, l) : IsLast(i, Hits(v, n, l))
      BY <1>1, <2>3 DEF LastChanges
    <3>2. i \in 1..Len(v) /\ Hits(v, n, l) \in SUBSET Nat
      BY <1>0 DEF Hits
    <3>3. (CHOOSE k \in Hits(v, n, l) : \A j \in Hits(v, n, l) : j <= k) = i
      BY <3>1, <3>2, LastIsChosen
    <3>4. SizeAfter(w, i) = SizeAfter(v, i)
      BY <3>2 DEF SizeAfter
    <3> QED
      BY <2>1, <2>3, <3>3, <3>4 DEF LevelAt, SizeAmong
  <2> QED
    BY <2>2, <2>3
<1> QED
  BY <1>1 DEF Content

\* The next version differs from this one at the level that changed.
LEMMA ContentNext ==
    ASSUME NEW v \in Seq(VenueChange), NEW n \in Nat, n + 1 <= Len(v)
    PROVE  Content(v, n + 1) = [Content(v, n) EXCEPT ![v[n + 1].level] = SizeAfter(v, n + 1)]
<1>0. n + 1 \in 1..Len(v) /\ Len(v) \in Nat
  BY LenProperties
<1>1. ASSUME NEW l \in Levels
      PROVE  LevelAt(v, n + 1, l) = IF l = v[n + 1].level THEN SizeAfter(v, n + 1)
                                    ELSE LevelAt(v, n, l)
  <2>1. CASE l = v[n + 1].level
    <3>1. IsLast(n + 1, Hits(v, n + 1, l)) /\ Hits(v, n + 1, l) \in SUBSET Nat
      BY <2>1 DEF IsLast, Hits
    <3>2. (CHOOSE k \in Hits(v, n + 1, l) : \A j \in Hits(v, n + 1, l) : j <= k) = n + 1
      BY <3>1, LastIsChosen
    <3>3. Hits(v, n + 1, l) # {}
      BY <3>1 DEF IsLast
    <3>4. LevelAt(v, n + 1, l) =
            SizeAfter(v, CHOOSE k \in Hits(v, n + 1, l) : \A j \in Hits(v, n + 1, l) : j <= k)
      BY <3>3, Zenon DEF LevelAt, SizeAmong
    <3>5. LevelAt(v, n + 1, l) = SizeAfter(v, n + 1)
      BY <3>2, <3>4
    <3> QED
      BY <2>1, <3>5
  <2>2. CASE l # v[n + 1].level
    <3>1. Hits(v, n + 1, l) = Hits(v, n, l)
      BY <2>2 DEF Hits
    <3>2. LevelAt(v, n + 1, l) = LevelAt(v, n, l)
      BY <3>1, Zenon DEF LevelAt
    <3> QED
      BY <2>2, <3>2
  <2> QED
    BY <2>1, <2>2
<1>2. v[n + 1] \in VenueChange
  BY <1>0, ElementOfSeq
<1>3. v[n + 1].level \in Levels
  BY <1>2 DEF VenueChange
<1> QED
  BY <1>1, <1>3 DEF Content

LEMMA LastChangesAppend ==
    ASSUME NEW v \in Seq(VenueChange), LastChanges(v), NEW c \in VenueChange
    PROVE  LastChanges(Append(v, c))
<1> DEFINE w == Append(v, c)
<1>1. /\ w \in Seq(VenueChange) /\ Len(w) = Len(v) + 1 /\ Len(v) \in Nat
      /\ \A i \in 1..Len(v) : w[i] = v[i]
  BY AppendProperties, LenProperties
<1>2. \A n \in 0..Len(v), l \in Levels : Hits(w, n, l) = Hits(v, n, l)
  BY <1>1 DEF Hits
<1> HIDE DEF w
<1>3. ASSUME NEW n \in 0..Len(w), NEW l \in Levels, Hits(w, n, l) # {}
      PROVE  \E i \in Hits(w, n, l) : IsLast(i, Hits(w, n, l))
  <2>1. CASE n \in 0..Len(v)
    BY <1>2, <1>3, <2>1 DEF LastChanges
  <2>2. CASE n \notin 0..Len(v)
    <3>0. n = Len(v) + 1 /\ n \in 1..n /\ n \in Nat
      BY <1>1, <2>2
    <3>1. CASE w[n].level = l
      <4>1. n \in Hits(w, n, l) /\ \A j \in Hits(w, n, l) : j <= n
        BY <3>0, <3>1 DEF Hits
      <4> QED
        BY <4>1 DEF IsLast
    <3>2. CASE w[n].level # l
      <4>1. Hits(w, n, l) = Hits(w, Len(v), l)
        BY <1>1, <3>0, <3>2 DEF Hits
      <4>2. Len(v) \in 0..Len(v)
        BY <1>1
      <4> QED
        BY <1>2, <1>3, <4>1, <4>2 DEF LastChanges
    <3> QED
      BY <3>1, <3>2
  <2> QED
    BY <2>1, <2>2
<1>4. LastChanges(w)
  BY <1>3 DEF LastChanges
<1> QED
  BY <1>4 DEF w

LEMMA BooksStart == ComponentsInit => BooksInv
<1> SUFFICES ASSUME ComponentsInit PROVE BooksInv
  OBVIOUS
<1>1. /\ bVenue = <<>> /\ bQueue = <<>>
      /\ bBook = [levels |-> [l \in Levels |-> 0], hash |-> 0, synchronized |-> FALSE]
      /\ bStream = [generation |-> 0, reset |-> FALSE, up |-> FALSE, fed |-> FALSE]
      /\ bRest = [generation |-> 0, version |-> 0, held |-> FALSE]
  BY DEF ComponentsInit, Books!Init, Books!NoSnapshot
<1>2. bStream \in Streams /\ bRest \in RestReads /\ bRest.version = 0
  BY <1>1 DEF Streams, RestReads
<1>3. /\ bVenue \in Seq(VenueChange) /\ bQueue \in Seq(PublicQueued)
      /\ Len(bVenue) = 0 /\ Len(bQueue) = 0
  BY <1>1
<1>4. BookTypes
  BY <1>1, <1>2, <1>3 DEF BookTypes
<1>5. BookBounds /\ Linked
  <2>1. bBook.hash = 0
    BY <1>1
  <2> QED
    BY <1>2, <1>3, <2>1 DEF BookBounds, Linked
<1>6. UpToDate /\ ResetUnsynchronizes /\ Matches
  BY <1>1 DEF UpToDate, ResetUnsynchronizes, Matches
<1>7. LastChanges(bVenue)
  BY <1>3 DEF LastChanges, Hits
<1> QED
  BY <1>4, <1>5, <1>6, <1>7 DEF BooksInv

\* A book that is not synchronized promises nothing, whichever stream runs.
LEMMA Unsynchronizes ==
    ASSUME BooksInv, UNCHANGED <<bVenue, bQueue>>,
           bRest' \in RestReads, bRest'.version <= Len(bVenue),
           bBook' = [levels |-> bBook'.levels, hash |-> bBook'.hash, synchronized |-> FALSE],
           bBook'.hash \in Nat, bBook'.hash <= Len(bVenue),
           bStream' \in Streams,
           bStream'.generation \in {bStream.generation, bStream.generation + 1},
           bStream'.fed => bStream.fed /\ bStream'.generation = bStream.generation
    PROVE  BooksInv'
<1>1. bBook'.synchronized = FALSE
  OBVIOUS
<1>2. bStream.generation \in Nat /\ \A i \in 1..Len(bQueue) : bQueue[i] \in PublicQueued
  BY ElementOfSeq DEF BooksInv, BookTypes, Streams
<1>3. \A i \in 1..Len(bQueue) : bQueue[i].generation \in Nat
  BY <1>2 DEF PublicQueued
<1>4. BookTypes'
  BY <1>1 DEF BooksInv, BookTypes
<1>5. BookBounds'
  BY <1>2, <1>3 DEF BooksInv, BookBounds
<1>6. Linked'
  BY <1>1, <1>2, <1>3 DEF BooksInv, BookBounds, Linked, Fresh
<1>7. UpToDate'
  BY <1>1 DEF BooksInv, UpToDate, Fresh
<1> QED
  BY <1>1, <1>4, <1>5, <1>6, <1>7 DEF BooksInv, ResetUnsynchronizes, Matches

\* A change of the venue, and what the stream tells of it.
LEMMA VenueMoves ==
    ASSUME BooksInv, bVenue' \in Seq(VenueChange), Len(bVenue) <= Len(bVenue'),
           \A i \in 1..Len(bVenue) : bVenue'[i] = bVenue[i],
           LastChanges(bVenue'), UNCHANGED <<bBook, bRest>>,
           bStream' \in Streams, bStream'.generation = bStream.generation,
           bStream'.reset = bStream.reset
    PROVE  /\ ResetUnsynchronizes' /\ Matches'
           /\ LastChanges(bVenue)'
           /\ bBook'.hash <= Len(bVenue') /\ bRest'.version <= Len(bVenue')
<1>1. bBook.hash \in 0..Len(bVenue) /\ Len(bVenue) \in Nat /\ Len(bVenue') \in Nat
  BY LenProperties DEF BooksInv, BookTypes, BookBounds
<1>2. Content(bVenue', bBook.hash) = Content(bVenue, bBook.hash)
  BY <1>1, ContentStays DEF BooksInv, BookTypes
<1>3. Matches'
  BY <1>2 DEF BooksInv, Matches
<1> QED
  BY <1>1, <1>3 DEF BooksInv, BookTypes, BookBounds, RestReads, ResetUnsynchronizes

LEMMA BookQueued ==
    ASSUME BooksInv, bVenue' \in Seq(VenueChange), Len(bVenue) <= Len(bVenue'),
           \A i \in 1..Len(bVenue) : bVenue'[i] = bVenue[i],
           LastChanges(bVenue'), UNCHANGED <<bBook, bRest>>,
           bStream' \in Streams, bStream'.generation = bStream.generation,
           bStream'.reset = bStream.reset,
           NEW e \in PublicEvents,
           bQueue' = Append(bQueue, [event |-> e, generation |-> bStream.generation]),
           e.kind # "malformed" => e.version = Len(bVenue'),
           e.kind = "price_change" => bStream.fed /\ e.version = Len(bVenue) + 1
    PROVE  BooksInv'
<1> DEFINE q == [event |-> e, generation |-> bStream.generation]
<1>0. bStream.generation \in Nat /\ Len(bVenue) \in Nat /\ Len(bVenue') \in Nat /\ Len(bQueue) \in Nat
  BY LenProperties DEF BooksInv, BookTypes, Streams
<1>1. q \in PublicQueued /\ q.event = e /\ q.generation = bStream.generation
  BY <1>0 DEF PublicQueued
<1> HIDE DEF q
<1>2. /\ bQueue' \in Seq(PublicQueued) /\ Len(bQueue') = Len(bQueue) + 1 /\ bQueue' # <<>>
      /\ \A i \in 1..Len(bQueue) : bQueue'[i] = bQueue[i]
      /\ bQueue'[Len(bQueue) + 1] = q
  <2>1. bQueue \in Seq(PublicQueued) /\ bQueue' = Append(bQueue, q)
    BY DEF q, BooksInv, BookTypes
  <2> QED
    BY <1>1, <2>1, AppendProperties
<1>3. /\ ResetUnsynchronizes' /\ Matches' /\ LastChanges(bVenue)'
      /\ bBook'.hash <= Len(bVenue') /\ bRest'.version <= Len(bVenue')
  BY VenueMoves
<1>4. BookTypes'
  BY <1>2 DEF BooksInv, BookTypes
<1>5. \A i \in 1..Len(bQueue') : i = Len(bQueue) + 1 \/ i \in 1..Len(bQueue)
  BY <1>0, <1>2
<1>6. BookBounds'
  <2>1. ASSUME NEW i \in 1..Len(bQueue')
        PROVE  /\ bQueue'[i].generation <= bStream'.generation
               /\ bQueue'[i].event.kind # "malformed" => bQueue'[i].event.version <= Len(bVenue')
    <3>1. CASE i = Len(bQueue) + 1
      BY <1>0, <1>1, <1>2, <3>1
    <3>2. CASE i \in 1..Len(bQueue)
      <4>1. /\ bQueue'[i] = bQueue[i] /\ bQueue[i].generation <= bStream.generation
            /\ bQueue[i].event.kind # "malformed" => bQueue[i].event.version <= Len(bVenue)
        BY <1>2, <3>2 DEF BooksInv, BookBounds
      <4>2. bQueue[i] \in PublicQueued
        BY <3>2, ElementOfSeq DEF BooksInv, BookTypes
      <4>3. bQueue[i].event.kind # "malformed" => bQueue[i].event.version \in Nat
        BY <4>2 DEF PublicQueued, PublicEvents
      <4> QED
        BY <1>0, <4>1, <4>3
    <3> QED
      BY <1>5, <3>1, <3>2
  <2> QED
    BY <1>3, <2>1 DEF BookBounds
<1>7. Linked'
  <2>1. ASSUME NEW i \in 1..Len(bQueue'), bQueue'[i].generation = bStream.generation,
               bQueue'[i].event.kind = "price_change"
        PROVE  IF i = 1 THEN bBook.synchronized => bQueue'[i].event.version = bBook.hash + 1
               ELSE /\ bQueue'[i - 1].generation = bStream.generation
                    /\ bQueue'[i - 1].event.kind # "malformed" =>
                           bQueue'[i].event.version = bQueue'[i - 1].event.version + 1
    <3>1. CASE i \in 1..Len(bQueue)
      <4>1. bQueue'[i] = bQueue[i] /\ (i # 1 => i - 1 \in 1..Len(bQueue))
        BY <1>2, <3>1
      <4>2. i # 1 => bQueue'[i - 1] = bQueue[i - 1]
        BY <1>2, <4>1
      <4> QED
        BY <2>1, <3>1, <4>1, <4>2 DEF BooksInv, Linked, Fresh
    <3>2. CASE i = Len(bQueue) + 1
      <4>1. bStream.fed /\ bQueue'[i].event.version = Len(bVenue) + 1
        BY <1>1, <1>2, <2>1, <3>2
      <4>2. CASE bQueue = <<>>
        <5>1. i = 1 /\ (bBook.synchronized => bBook.hash = Len(bVenue))
          BY <3>2, <4>1, <4>2 DEF BooksInv, UpToDate
        <5> QED
          BY <4>1, <5>1
      <4>3. CASE bQueue # <<>>
        <5>1. /\ bQueue[Len(bQueue)].generation = bStream.generation
              /\ bQueue[Len(bQueue)].event.kind # "malformed" =>
                     bQueue[Len(bQueue)].event.version = Len(bVenue)
          BY <4>1, <4>3 DEF BooksInv, UpToDate, Fresh
        <5>2. Len(bQueue) # 0
          BY <4>3, EmptySeq DEF BooksInv, BookTypes
        <5>3. i # 1 /\ i - 1 = Len(bQueue) /\ bQueue'[Len(bQueue)] = bQueue[Len(bQueue)]
          BY <1>0, <1>2, <3>2, <5>2
        <5> QED
          BY <4>1, <5>1, <5>3
      <4> QED
        BY <4>2, <4>3
    <3> QED
      BY <1>5, <3>1, <3>2
  <2> QED
    BY <2>1 DEF Linked, Fresh
<1>8. UpToDate'
  BY <1>0, <1>1, <1>2 DEF UpToDate, Fresh
<1> QED
  BY <1>3, <1>4, <1>6, <1>7, <1>8 DEF BooksInv

\* An event leaves the queue and the book is what it says, or is unsynchronized.
LEMMA BookDequeued ==
    ASSUME BooksInv, bQueue # <<>>, bQueue' = Tail(bQueue), UNCHANGED <<bVenue, bRest>>,
           bBook' = [levels |-> bBook'.levels, hash |-> bBook'.hash,
                     synchronized |-> bBook'.synchronized],
           bBook'.hash \in Nat, bBook'.hash <= Len(bVenue), bBook'.synchronized \in BOOLEAN,
           bStream' \in Streams, bStream'.generation = bStream.generation,
           bStream'.fed = bStream.fed, bStream'.reset => ~bBook'.synchronized, Matches',
           bBook'.synchronized =>
               IF Fresh(bQueue[1])
               THEN bQueue[1].event.kind # "malformed" /\ bBook'.hash = bQueue[1].event.version
               ELSE bBook' = bBook
    PROVE  BooksInv'
<1>0. bStream.generation \in Nat /\ Len(bVenue) \in Nat /\ Len(bQueue) \in Nat /\ Len(bQueue) # 0
  BY LenProperties, EmptySeq DEF BooksInv, BookTypes, Streams
<1>1. /\ bQueue' \in Seq(PublicQueued) /\ Len(bQueue') = Len(bQueue) - 1
      /\ \A i \in 1..Len(bQueue') : bQueue'[i] = bQueue[i + 1]
  BY HeadTailProperties DEF BooksInv, BookTypes
<1>2. \A i \in 1..Len(bQueue') : i \in Nat /\ i + 1 \in 1..Len(bQueue) /\ i + 1 # 1 /\ (i + 1) - 1 = i
  BY <1>0, <1>1
<1>3. BookTypes'
  BY <1>1 DEF BooksInv, BookTypes
<1>4. BookBounds'
  BY <1>1, <1>2 DEF BooksInv, BookBounds
<1>5. Linked'
  <2>1. ASSUME NEW i \in 1..Len(bQueue'), bQueue'[i].generation = bStream.generation,
               bQueue'[i].event.kind = "price_change"
        PROVE  IF i = 1 THEN bBook'.synchronized => bQueue'[i].event.version = bBook'.hash + 1
               ELSE /\ bQueue'[i - 1].generation = bStream.generation
                    /\ bQueue'[i - 1].event.kind # "malformed" =>
                           bQueue'[i].event.version = bQueue'[i - 1].event.version + 1
    <3>1. /\ bQueue'[i] = bQueue[i + 1] /\ bQueue[i].generation = bStream.generation
          /\ bQueue[i].event.kind # "malformed" =>
                 bQueue'[i].event.version = bQueue[i].event.version + 1
      BY <1>1, <1>2, <2>1 DEF BooksInv, Linked, Fresh
    <3>2. CASE i = 1
      BY <3>1, <3>2 DEF Fresh
    <3>3. CASE i # 1
      <4>1. i - 1 \in 1..Len(bQueue') /\ (i - 1) + 1 = i
        BY <1>1, <1>0, <3>3
      <4> QED
        BY <1>1, <3>1, <3>3, <4>1
    <3> QED
      BY <3>2, <3>3
  <2> QED
    BY <2>1 DEF Linked, Fresh
<1>6. UpToDate'
  <2>1. ASSUME bStream.fed PROVE
          IF bQueue' = <<>> THEN bBook'.synchronized => bBook'.hash = Len(bVenue)
          ELSE /\ bQueue'[Len(bQueue')].generation = bStream.generation
               /\ bQueue'[Len(bQueue')].event.kind # "malformed" =>
                      bQueue'[Len(bQueue')].event.version = Len(bVenue)
    <3>1. /\ bQueue[Len(bQueue)].generation = bStream.generation
          /\ bQueue[Len(bQueue)].event.kind # "malformed" =>
                 bQueue[Len(bQueue)].event.version = Len(bVenue)
      BY <2>1 DEF BooksInv, UpToDate, Fresh
    <3>2. CASE bQueue' = <<>>
      <4>0. Len(bQueue') = 0
        BY <1>1, <3>2, EmptySeq
      <4>1. Len(bQueue) = 1
        BY <1>0, <1>1, <4>0
      <4> QED
        BY <3>1, <3>2, <4>1 DEF Fresh
    <3>3. CASE bQueue' # <<>>
      <4>1. Len(bQueue') # 0
        BY <1>1, <3>3, EmptySeq
      <4>2. Len(bQueue') \in 1..Len(bQueue') /\ Len(bQueue') + 1 = Len(bQueue)
        BY <1>0, <1>1, <4>1
      <4> QED
        BY <1>1, <3>1, <3>3, <4>2
    <3> QED
      BY <3>2, <3>3
  <2> QED
    BY <2>1 DEF UpToDate, Fresh
<1> QED
  BY <1>3, <1>4, <1>5, <1>6 DEF BooksInv, ResetUnsynchronizes

\* An event of the present stream, applied to a book that takes it.
LEMMA BookUpdated ==
    ASSUME BooksInv, NEW e \in PublicEvents, e.kind # "malformed", e.version <= Len(bVenue),
           e.kind = "price_change" => bBook.synchronized /\ e.version = bBook.hash + 1,
           bBook' = Books!Updated(e), UNCHANGED bVenue
    PROVE  /\ bBook' = [levels |-> bBook'.levels, hash |-> bBook'.hash,
                        synchronized |-> bBook'.synchronized]
           /\ bBook'.hash = e.version /\ e.version \in Nat
           /\ bBook'.synchronized = TRUE /\ Matches'
<1>1. e.kind \in {"book", "price_change"} /\ e.version \in Nat
  BY DEF PublicEvents
<1>2. CASE e.kind = "book"
  <2>1. bBook' = [levels |-> Content(bVenue, e.version), hash |-> e.version, synchronized |-> TRUE]
    BY <1>2, ContentIs DEF Books!Updated
  <2> QED
    BY <1>1, <2>1 DEF Matches
<1>3. CASE e.kind = "price_change"
  <2> DEFINE n == bBook.hash
             c == bVenue[e.version]
  <2>1. n \in Nat /\ e.version = n + 1 /\ n + 1 <= Len(bVenue) /\ bVenue \in Seq(VenueChange)
    BY <1>3 DEF BooksInv, BookTypes
  <2>2. bBook.synchronized = TRUE /\ bBook.levels = Content(bVenue, n)
    BY <1>3 DEF BooksInv, BookTypes, Matches
  <2>3. bBook = [levels |-> Content(bVenue, n), hash |-> n, synchronized |-> TRUE]
    BY <2>2 DEF BooksInv, BookTypes
  <2>4. bBook' = [bBook EXCEPT !.levels[c.level] = SizeAfter(bVenue, e.version),
                               !.hash = e.version]
    BY <1>3 DEF Books!Updated, SizeAfter
  <2>5. [Content(bVenue, n) EXCEPT ![c.level] = SizeAfter(bVenue, e.version)] = Content(bVenue, e.version)
    BY <2>1, ContentNext
  <2> HIDE DEF n, c
  <2>6. bBook' = [levels |-> [Content(bVenue, n) EXCEPT ![c.level] = SizeAfter(bVenue, e.version)],
                  hash |-> e.version, synchronized |-> TRUE]
    BY <2>3, <2>4
  <2>7. bBook' = [levels |-> Content(bVenue, e.version), hash |-> e.version, synchronized |-> TRUE]
    BY <2>5, <2>6
  <2> QED
    BY <1>1, <2>7 DEF Matches
<1> QED
  BY <1>1, <1>2, <1>3

LEMMA BooksStep == BooksInv /\ [Books!Next]_booksVars => BooksInv'
<1> SUFFICES ASSUME BooksInv, [Books!Next]_booksVars PROVE BooksInv'
  OBVIOUS
<1>0. BookTypes /\ BookBounds /\ LastChanges(bVenue)
  BY DEF BooksInv
<1>a. /\ bStream.generation \in Nat /\ bStream.generation + 1 \in Nat
      /\ bVenue \in Seq(VenueChange) /\ Len(bVenue) \in Nat /\ bStream \in Streams
      /\ bRest \in RestReads /\ bRest.version \in Nat /\ bBook.hash \in Nat
      /\ bRest.version <= Len(bVenue) /\ bBook.hash <= Len(bVenue)
  BY <1>0, LenProperties DEF BookTypes, BookBounds, Streams, RestReads
<1>u. ASSUME bBook' = Books!Unsynchronized(bBook)
      PROVE  /\ bBook' = [levels |-> bBook'.levels, hash |-> bBook'.hash, synchronized |-> FALSE]
             /\ bBook'.hash = bBook.hash
  BY <1>0, <1>u DEF BookTypes, Books!Unsynchronized
<1>1. CASE Books!StreamStarts
  <2>1. bStream' = [generation |-> bStream.generation + 1, reset |-> FALSE, up |-> TRUE, fed |-> FALSE]
    BY <1>1 DEF Books!StreamStarts
  <2>2. bStream' \in Streams /\ bStream'.generation = bStream.generation + 1 /\ bStream'.fed = FALSE
    BY <1>a, <2>1 DEF Streams
  <2>3. bBook' = Books!Unsynchronized(bBook) /\ UNCHANGED <<bVenue, bQueue, bRest>>
    BY <1>1 DEF Books!StreamStarts
  <2> QED
    BY <1>a, <1>u, <2>2, <2>3, Unsynchronizes
<1>2. CASE Books!StreamResets \/ Books!StreamEnds
  <2>1. Books!StreamDown
    BY <1>2 DEF Books!StreamResets, Books!StreamEnds
  <2>2. bStream' = [bStream EXCEPT !.up = FALSE, !.fed = FALSE]
    BY <2>1 DEF Books!StreamDown
  <2>3. bStream' \in Streams /\ bStream'.generation = bStream.generation /\ bStream'.fed = FALSE
    BY <1>a, <2>2 DEF Streams
  <2>4. bBook' = Books!Unsynchronized(bBook) /\ UNCHANGED <<bVenue, bQueue, bRest>>
    BY <2>1 DEF Books!StreamDown
  <2> QED
    BY <1>a, <1>u, <2>3, <2>4, Unsynchronizes
<1>3. CASE Books!VenueSendsBook
  <2>1. /\ bStream' = [bStream EXCEPT !.fed = TRUE]
        /\ bQueue' = Append(bQueue, [event |-> [kind |-> "book", version |-> Len(bVenue)],
                                     generation |-> bStream.generation])
        /\ UNCHANGED <<bVenue, bBook, bRest>>
    BY <1>3 DEF Books!VenueSendsBook, Books!Queued, Books!Complete, Books!Now
  <2>2. /\ bStream' \in Streams /\ bStream'.generation = bStream.generation
        /\ bStream'.reset = bStream.reset
    BY <1>a, <2>1 DEF Streams
  <2>3. [kind |-> "book", version |-> Len(bVenue)] \in PublicEvents
    BY <1>a DEF PublicEvents
  <2> QED
    BY <1>0, <1>a, <2>1, <2>2, <2>3, BookQueued
<1>4. CASE Books!VenueSendsMalformed
  <2>1. /\ bQueue' = Append(bQueue, [event |-> [kind |-> "malformed"],
                                     generation |-> bStream.generation])
        /\ UNCHANGED <<bVenue, bBook, bRest, bStream>>
    BY <1>4 DEF Books!VenueSendsMalformed, Books!Queued
  <2>2. [kind |-> "malformed"] \in PublicEvents
    BY DEF PublicEvents
  <2> QED
    BY <1>0, <1>a, <2>1, <2>2, BookQueued
<1>5. ASSUME NEW l \in Levels, NEW gone \in BOOLEAN, Books!VenueChanges(l, gone)
      PROVE  BooksInv'
  <2>1. bVenue' = Append(bVenue, [level |-> l, gone |-> gone]) /\ UNCHANGED <<bBook, bRest, bStream>>
    BY <1>5 DEF Books!VenueChanges
  <2>2. [level |-> l, gone |-> gone] \in VenueChange
    BY DEF VenueChange
  <2>3. /\ bVenue' \in Seq(VenueChange) /\ Len(bVenue') = Len(bVenue) + 1
        /\ \A i \in 1..Len(bVenue) : bVenue'[i] = bVenue[i]
    BY <1>a, <2>1, <2>2, AppendProperties
  <2>4. LastChanges(bVenue')
    BY <1>0, <1>a, <2>1, <2>2, LastChangesAppend
  <2>5. Len(bVenue) <= Len(bVenue')
    BY <1>a, <2>3
  <2>6. CASE bStream.fed
    <3>1. PICK k \in {"book", "price_change"} :
            bQueue' = Append(bQueue, [event |-> [kind |-> k, version |-> Len(bVenue) + 1],
                                      generation |-> bStream.generation])
      BY <1>5, <2>6 DEF Books!VenueChanges, Books!Queued, Books!Complete, Books!Change, Books!Now
    <3>2. [kind |-> k, version |-> Len(bVenue) + 1] \in PublicEvents
      BY <1>a DEF PublicEvents
    <3> QED
      BY <1>a, <2>1, <2>3, <2>4, <2>5, <2>6, <3>1, <3>2, BookQueued
  <2>7. CASE ~bStream.fed
    <3>1. bQueue' = bQueue
      BY <1>5, <2>7 DEF Books!VenueChanges
    <3>2. /\ ResetUnsynchronizes' /\ Matches' /\ LastChanges(bVenue)'
          /\ bBook'.hash <= Len(bVenue') /\ bRest'.version <= Len(bVenue')
      BY <1>a, <2>1, <2>3, <2>4, <2>5, VenueMoves
    <3>3. \A i \in 1..Len(bQueue) : bQueue[i].event.kind # "malformed" => bQueue[i].event.version \in Nat
      <4>1. \A i \in 1..Len(bQueue) : bQueue[i] \in PublicQueued
        BY <1>0, ElementOfSeq DEF BookTypes
      <4> QED
        BY <4>1 DEF PublicQueued, PublicEvents
    <3>4. BookBounds'
      BY <1>0, <1>a, <2>1, <2>3, <3>1, <3>2, <3>3 DEF BookBounds
    <3> QED
      BY <2>1, <2>3, <2>7, <3>1, <3>2, <3>4 DEF BooksInv, BookTypes, Linked, UpToDate, Fresh
  <2> QED
    BY <2>6, <2>7
<1>6. CASE Books!ProcessEvent
  <2> DEFINE q == Head(bQueue)
  <2>1. bQueue # <<>> /\ bQueue' = Tail(bQueue) /\ UNCHANGED <<bVenue, bRest>>
    BY <1>6 DEF Books!ProcessEvent
  <2>2. q = bQueue[1] /\ q \in PublicQueued /\ 1 \in 1..Len(bQueue)
    <3>1. Len(bQueue) \in Nat /\ Len(bQueue) # 0
      BY <1>0, <2>1, EmptySeq, LenProperties DEF BookTypes
    <3> QED
      BY <1>0, <2>1, <3>1, HeadTailProperties DEF BookTypes
  <2> HIDE DEF q
  <2>3. q.event \in PublicEvents /\ (q.event.kind # "malformed" => q.event.version <= Len(bVenue))
    BY <1>0, <2>2 DEF BookBounds, PublicQueued
  <2>4. CASE ~Books!Current(q)
    <3>1. UNCHANGED <<bBook, bStream>>
      BY <1>6, <2>4 DEF Books!ProcessEvent, q
    <3>2. bBook.synchronized => ~Fresh(bQueue[1])
      BY <2>2, <2>4 DEF Books!Current, Fresh, BooksInv, ResetUnsynchronizes
    <3>3. Matches' /\ (bStream.reset => ~bBook.synchronized)
      BY <2>1, <3>1 DEF BooksInv, Matches, ResetUnsynchronizes
    <3> QED
      BY <1>0, <1>a, <2>1, <3>1, <3>2, <3>3, BookDequeued DEF BookTypes
  <2>5. CASE Books!Current(q) /\ Books!Refused(q.event)
    <3>1. bBook' = Books!Unsynchronized(bBook) /\ bStream' = [bStream EXCEPT !.reset = TRUE]
      BY <1>6, <2>5 DEF Books!ProcessEvent, q
    <3>2. /\ bStream' \in Streams /\ bStream'.generation = bStream.generation
          /\ bStream'.fed = bStream.fed
      BY <1>a, <3>1 DEF Streams
    <3>3. /\ bBook' = [levels |-> bBook'.levels, hash |-> bBook'.hash, synchronized |-> FALSE]
          /\ bBook'.hash = bBook.hash
      BY <1>u, <3>1
    <3>4. bBook'.synchronized = FALSE
      BY <3>3
    <3>5. Matches'
      BY <3>4 DEF Matches
    <3> QED
      BY <1>a, <2>1, <3>2, <3>3, <3>4, <3>5, BookDequeued
  <2>6. CASE Books!Current(q) /\ ~Books!Refused(q.event)
    <3>1. bBook' = Books!Updated(q.event) /\ bStream' = bStream
      BY <1>6, <2>6 DEF Books!ProcessEvent, q
    <3>2. /\ q.event.kind # "malformed" /\ (q.event.kind = "price_change" => bBook.synchronized)
          /\ q.generation = bStream.generation /\ ~bStream.reset
      BY <2>6 DEF Books!Current, Books!Refused
    <3>3. q.event.kind = "price_change" => q.event.version = bBook.hash + 1
      BY <2>2, <3>2 DEF BooksInv, Linked, Fresh
    <3>4. /\ bBook' = [levels |-> bBook'.levels, hash |-> bBook'.hash,
                       synchronized |-> bBook'.synchronized]
          /\ bBook'.hash = q.event.version /\ q.event.version \in Nat
          /\ bBook'.synchronized \in BOOLEAN /\ Matches'
      BY <2>1, <2>3, <3>1, <3>2, <3>3, BookUpdated
    <3>5. Fresh(bQueue[1]) /\ bQueue[1].event.kind # "malformed" /\ bBook'.hash = bQueue[1].event.version
      BY <2>2, <3>2, <3>4 DEF Fresh
    <3>6. bBook'.hash \in Nat /\ bBook'.hash <= Len(bVenue)
      BY <2>3, <3>2, <3>4
    <3> QED
      BY <1>a, <2>1, <3>1, <3>2, <3>4, <3>5, <3>6, BookDequeued
  <2> QED
    BY <2>4, <2>5, <2>6
<1>7. CASE Books!SnapshotBooks
  <2>1. /\ bRest' = [generation |-> bStream.generation, version |-> Len(bVenue), held |-> TRUE]
        /\ UNCHANGED <<bVenue, bBook, bStream, bQueue>>
    BY <1>7 DEF Books!SnapshotBooks, Books!Now
  <2>2. bRest' \in RestReads /\ bRest'.version = Len(bVenue)
    BY <1>a, <2>1 DEF RestReads
  <2>3. bRest'.version <= Len(bVenue)
    BY <1>a, <2>2
  <2> QED
    BY <2>1, <2>2, <2>3
       DEF BooksInv, BookTypes, BookBounds, Linked, UpToDate, Fresh, ResetUnsynchronizes, Matches
<1>8. CASE Books!SnapshotRead
  <2>1. /\ bRest' = [generation |-> 0, version |-> 0, held |-> FALSE]
        /\ UNCHANGED <<bVenue, bQueue>>
    BY <1>8 DEF Books!SnapshotRead, Books!NoSnapshot
  <2>2. bRest' \in RestReads /\ bRest'.version = 0 /\ bRest'.version <= Len(bVenue)
    <3>1. 0 \in Nat /\ 0 <= Len(bVenue)
      BY <1>a
    <3>2. bRest' \in RestReads /\ bRest'.version = 0
      BY <2>1, <3>1 DEF RestReads
    <3> QED
      BY <3>1, <3>2
  <2>3. CASE UNCHANGED <<bBook, bStream>>
    BY <2>1, <2>2, <2>3
       DEF BooksInv, BookTypes, BookBounds, Linked, UpToDate, Fresh, ResetUnsynchronizes, Matches
  <2>4. CASE bBook' = Books!RestBook /\ UNCHANGED bStream
    <3>1. /\ bBook' = [levels |-> bBook'.levels, hash |-> bBook'.hash, synchronized |-> FALSE]
          /\ bBook'.hash = bRest.version
      BY <2>4 DEF Books!RestBook
    <3> QED
      BY <1>a, <2>1, <2>2, <2>4, <3>1, Unsynchronizes
  <2>5. CASE bBook' = Books!Unsynchronized(bBook) /\ bStream' = [bStream EXCEPT !.reset = TRUE]
    <3>1. /\ bStream' \in Streams /\ bStream'.generation = bStream.generation
          /\ bStream'.fed = bStream.fed
      BY <1>a, <2>5 DEF Streams
    <3> QED
      BY <1>a, <1>u, <2>1, <2>2, <2>5, <3>1, Unsynchronizes
  <2> QED
    BY <1>8, <2>3, <2>4, <2>5 DEF Books!SnapshotRead, Books!ReconcileBooks
<1>9. CASE UNCHANGED booksVars
  BY <1>9 DEF booksVars, BooksInv, BookTypes, BookBounds, Linked, UpToDate, Fresh,
              ResetUnsynchronizes, Matches
<1> QED
  BY <1>1, <1>2, <1>3, <1>4, <1>5, <1>6, <1>7, <1>8, <1>9 DEF Books!Next

\* However streams, price changes, REST snapshots and malformed events
\* interleave, a synchronized book is the venue's at the version its hash
\* names (services/state.py:543-588, adapters/polymarket.py).
THEOREM BooksMatch == ComponentsSpec => []BookMatchesHash
<1>1. ComponentsInit => BooksInv
  BY BooksStart
<1>2. BooksInv /\ [ComponentsNext]_componentsVars => BooksInv'
  BY BooksStep, PartSteps
<1>3. BooksInv => BookMatchesHash
  BY ContentIs DEF BooksInv, Matches, BookMatchesHash, Books!BookMatchesHash
<1> QED
  BY <1>1, <1>2, <1>3, PTL DEF ComponentsSpec

-----------------------------------------------------------------------------
(* Types *)

\* The venue's book holds no version it did not reach.
LEMMA ContentBounded ==
    ASSUME NEW v \in Seq(VenueChange), LastChanges(v), NEW n \in 0..Len(v)
    PROVE  Content(v, n) \in [Levels -> 0..n]
<1>0. Len(v) \in Nat
  BY LenProperties
<1>1. ASSUME NEW l \in Levels PROVE LevelAt(v, n, l) \in 0..n
  <2>1. CASE Hits(v, n, l) = {}
    BY <1>0, <2>1 DEF LevelAt, SizeAmong
  <2>2. CASE Hits(v, n, l) # {}
    <3>1. PICK i \in Hits(v, n, l) : IsLast(i, Hits(v, n, l))
      BY <2>2 DEF LastChanges
    <3>2. i \in 1..n /\ Hits(v, n, l) \in SUBSET Nat
      BY <1>0 DEF Hits
    <3>3. (CHOOSE k \in Hits(v, n, l) : \A j \in Hits(v, n, l) : j <= k) = i
      BY <3>1, <3>2, LastIsChosen
    <3>4. LevelAt(v, n, l) = SizeAfter(v, i)
      BY <2>2, <3>3 DEF LevelAt, SizeAmong
    <3> QED
      BY <3>2, <3>4 DEF SizeAfter
  <2> QED
    BY <2>1, <2>2
<1> QED
  BY <1>1 DEF Content

\* Bounds, and that only a stream that was started has events.
BookSizes ==
    /\ Len(bVenue) <= BookChanges
    /\ bBook.levels \in [Levels -> 0..BookChanges]
    /\ bStream.up \/ bStream.fed => bStream.generation # 0
    /\ \A i \in 1..Len(bQueue) : bQueue[i].generation # 0
    /\ bReads \in 0..BookReads /\ bFaults \in 0..BookFaults

LEMMA SizesStart == ComponentsInit => BookSizes
BY PartsAssumption DEF ComponentsInit, Books!Init, BookSizes

\* A book that keeps its levels, or takes those of a version.
LEMMA SizesKept ==
    ASSUME BooksInv, BookSizes, UNCHANGED bVenue,
           \/ bBook' = Books!Unsynchronized(bBook) \/ bBook' = bBook
           \/ \E n \in 0..Len(bVenue) : bBook'.levels = Content(bVenue, n)
    PROVE  bBook'.levels \in [Levels -> 0..BookChanges]
<1>0. Len(bVenue) \in Nat /\ Len(bVenue) <= BookChanges /\ BookChanges \in Nat
  BY LenProperties, PartsAssumption DEF BooksInv, BookTypes, BookSizes
<1>1. CASE bBook' = Books!Unsynchronized(bBook) \/ bBook' = bBook
  <2>1. bBook'.levels = bBook.levels
    BY <1>1 DEF BooksInv, BookTypes, Books!Unsynchronized
  <2> QED
    BY <2>1 DEF BookSizes
<1>2. ASSUME NEW n \in 0..Len(bVenue), bBook'.levels = Content(bVenue, n)
      PROVE  bBook'.levels \in [Levels -> 0..BookChanges]
  <2>1. Content(bVenue, n) \in [Levels -> 0..n]
    BY ContentBounded DEF BooksInv, BookTypes
  <2>2. 0..n \subseteq 0..BookChanges
    BY <1>0
  <2> QED
    BY <1>2, <2>1, <2>2
<1> QED
  BY <1>1, <1>2

LEMMA SizesStep == BooksInv /\ BookSizes /\ [Books!Next]_booksVars => BookSizes'
<1> SUFFICES ASSUME BooksInv, BookSizes, [Books!Next]_booksVars PROVE BookSizes'
  OBVIOUS
<1>0. /\ bStream.generation \in Nat /\ bStream \in Streams
      /\ bVenue \in Seq(VenueChange) /\ Len(bVenue) \in Nat
      /\ bQueue \in Seq(PublicQueued) /\ Len(bQueue) \in Nat
      /\ bRest.version \in 0..Len(bVenue)
  BY LenProperties DEF BooksInv, BookTypes, BookBounds, Streams, RestReads
\* The counters, in one step.
<1>c. bReads' \in 0..BookReads /\ bFaults' \in 0..BookFaults /\ Len(bVenue') <= BookChanges
  <2>1. ASSUME NEW l \in Levels, NEW gone \in BOOLEAN, Books!VenueChanges(l, gone)
        PROVE  Len(bVenue') <= BookChanges
    <3>1. bVenue' = Append(bVenue, [level |-> l, gone |-> gone]) /\ Len(bVenue) < BookChanges
      BY <2>1 DEF Books!VenueChanges, Books!Now
    <3>2. [level |-> l, gone |-> gone] \in VenueChange
      BY DEF VenueChange
    <3>3. Len(bVenue') = Len(bVenue) + 1
      BY <1>0, <3>1, <3>2, AppendProperties
    <3> QED
      BY <1>0, <3>1, <3>3, PartsAssumption
  <2>2. Len(bVenue') <= BookChanges
    BY <2>1 DEF Books!Next, Books!StreamStarts, Books!StreamResets, Books!StreamEnds,
                Books!StreamDown, Books!VenueSendsBook, Books!VenueSendsMalformed,
                Books!ProcessEvent, Books!SnapshotBooks, Books!SnapshotRead, booksVars, BookSizes
  <2>3. ASSUME NEW l \in Levels, NEW gone \in BOOLEAN, Books!VenueChanges(l, gone)
        PROVE  UNCHANGED <<bReads, bFaults>>
    BY <2>3 DEF Books!VenueChanges
  <2>4. CASE Books!StreamEnds \/ Books!VenueSendsMalformed
    <3>1. bFaults < BookFaults /\ bFaults' = bFaults + 1 /\ bReads' = bReads
      BY <2>4 DEF Books!StreamEnds, Books!StreamDown, Books!VenueSendsMalformed
    <3> QED
      BY <2>2, <3>1, PartsAssumption DEF BookSizes
  <2>5. CASE Books!SnapshotBooks
    <3>1. bReads < BookReads /\ bReads' = bReads + 1 /\ bFaults' = bFaults
      BY <2>5 DEF Books!SnapshotBooks
    <3> QED
      BY <2>2, <3>1, PartsAssumption DEF BookSizes
  <2>6. CASE ~(Books!StreamEnds \/ Books!VenueSendsMalformed) /\ ~Books!SnapshotBooks
    <3>1. UNCHANGED <<bReads, bFaults>>
      BY <2>3, <2>6 DEF Books!Next, Books!StreamStarts, Books!StreamResets, Books!StreamDown,
                        Books!VenueSendsBook, Books!ProcessEvent, Books!SnapshotRead, booksVars
    <3> QED
      BY <2>2, <3>1 DEF BookSizes
  <2> QED
    BY <2>4, <2>5, <2>6
<1>q. ASSUME UNCHANGED bQueue PROVE \A i \in 1..Len(bQueue') : bQueue'[i].generation # 0
  BY <1>q DEF BookSizes
\* An event is queued by a stream that is up.
<1>e. ASSUME NEW e \in PublicEvents, bStream.generation # 0, bQueue' = Books!Queued(e)
      PROVE  \A i \in 1..Len(bQueue') : bQueue'[i].generation # 0
  <2> DEFINE q == [event |-> e, generation |-> bStream.generation]
  <2>1. q \in PublicQueued /\ q.generation # 0
    BY <1>0, <1>e DEF PublicQueued
  <2>2. bQueue' = Append(bQueue, q)
    BY <1>e DEF Books!Queued
  <2> HIDE DEF q
  <2>3. /\ Len(bQueue') = Len(bQueue) + 1 /\ bQueue'[Len(bQueue) + 1] = q
        /\ \A i \in 1..Len(bQueue) : bQueue'[i] = bQueue[i]
    BY <1>0, <2>1, <2>2, AppendProperties
  <2>4. \A i \in 1..Len(bQueue') : i \in 1..Len(bQueue) \/ i = Len(bQueue) + 1
    BY <1>0, <2>3
  <2> QED
    BY <2>1, <2>3, <2>4 DEF BookSizes
<1> DEFINE Kept == /\ bBook'.levels \in [Levels -> 0..BookChanges]
                   /\ bStream'.up \/ bStream'.fed => bStream'.generation # 0
                   /\ \A i \in 1..Len(bQueue') : bQueue'[i].generation # 0
<1> HIDE DEF Kept
<1>1. ASSUME Books!StreamStarts PROVE Kept
  <2>1. /\ bBook'.levels \in [Levels -> 0..BookChanges] /\ UNCHANGED bQueue
        /\ bStream'.generation = bStream.generation + 1
    BY <1>1, SizesKept DEF Books!StreamStarts
  <2> QED
    BY <1>0, <1>q, <2>1 DEF Kept
<1>2. ASSUME Books!StreamResets \/ Books!StreamEnds PROVE Kept
  <2>1. Books!StreamDown
    BY <1>2 DEF Books!StreamResets, Books!StreamEnds
  <2>2. bBook'.levels \in [Levels -> 0..BookChanges] /\ UNCHANGED bQueue
    BY <2>1, SizesKept DEF Books!StreamDown
  <2>3. ~bStream'.up /\ ~bStream'.fed
    BY <1>0, <2>1 DEF Books!StreamDown, Streams
  <2> QED
    BY <1>q, <2>2, <2>3 DEF Kept
<1>3. ASSUME Books!VenueSendsBook PROVE Kept
  <2>1. /\ UNCHANGED <<bBook, bVenue>> /\ bStream.generation # 0
        /\ bQueue' = Books!Queued(Books!Complete(Len(bVenue)))
        /\ bStream' = [bStream EXCEPT !.fed = TRUE]
    BY <1>3 DEF Books!VenueSendsBook, Books!Now, BookSizes
  <2>2. Books!Complete(Len(bVenue)) \in PublicEvents
    BY <1>0 DEF Books!Complete, PublicEvents
  <2>3. bStream'.generation = bStream.generation
    BY <1>0, <2>1 DEF Streams
  <2> QED
    BY <1>e, <2>1, <2>2, <2>3, SizesKept DEF Kept
<1>4. ASSUME Books!VenueSendsMalformed PROVE Kept
  <2>1. /\ UNCHANGED <<bBook, bVenue, bStream>> /\ bStream.generation # 0
        /\ bQueue' = Books!Queued([kind |-> "malformed"])
    BY <1>4 DEF Books!VenueSendsMalformed, BookSizes
  <2>2. [kind |-> "malformed"] \in PublicEvents
    BY DEF PublicEvents
  <2> QED
    BY <1>e, <2>1, <2>2, SizesKept DEF Kept, BookSizes
<1>5. ASSUME NEW l \in Levels, NEW gone \in BOOLEAN, Books!VenueChanges(l, gone) PROVE Kept
  <2>1. UNCHANGED <<bBook, bStream>>
    BY <1>5 DEF Books!VenueChanges
  <2>2. CASE bStream.fed
    <3>1. \E e \in {Books!Complete(Len(bVenue) + 1), Books!Change(Len(bVenue) + 1)} :
             bQueue' = Books!Queued(e)
      BY <1>5, <2>2 DEF Books!VenueChanges, Books!Now
    <3>2. /\ Books!Complete(Len(bVenue) + 1) \in PublicEvents
          /\ Books!Change(Len(bVenue) + 1) \in PublicEvents
      BY <1>0 DEF Books!Complete, Books!Change, PublicEvents
    <3> QED
      BY <1>e, <2>1, <2>2, <3>1, <3>2 DEF Kept, BookSizes
  <2>3. CASE ~bStream.fed
    BY <1>5, <1>q, <2>1, <2>3 DEF Books!VenueChanges, Kept, BookSizes
  <2> QED
    BY <2>2, <2>3
<1>6. ASSUME Books!ProcessEvent PROVE Kept
  <2> DEFINE q == Head(bQueue)
  <2>1. bQueue # <<>> /\ bQueue' = Tail(bQueue) /\ UNCHANGED bVenue
    BY <1>6 DEF Books!ProcessEvent
  <2>2. Len(bQueue) # 0 /\ q = bQueue[1] /\ q \in PublicQueued
    <3>1. Len(bQueue) # 0
      BY <1>0, <2>1, EmptySeq
    <3> QED
      BY <1>0, <2>1, <3>1, HeadTailProperties
  <2>3. \A i \in 1..Len(bQueue') : bQueue'[i].generation # 0
    <3>1. Len(bQueue') = Len(bQueue) - 1 /\ \A i \in 1..Len(bQueue') : bQueue'[i] = bQueue[i + 1]
      BY <1>0, <2>1, HeadTailProperties
    <3>2. \A i \in 1..Len(bQueue') : i + 1 \in 1..Len(bQueue)
      BY <1>0, <2>2, <3>1
    <3> QED
      BY <3>1, <3>2 DEF BookSizes
  <2> HIDE DEF q
  <2>4. q.event \in PublicEvents /\ (q.event.kind # "malformed" => q.event.version <= Len(bVenue))
    BY <1>0, <2>2 DEF BooksInv, BookBounds, PublicQueued
  <2>5. CASE ~Books!Current(q) \/ Books!Refused(q.event)
    <3>1. /\ bBook' = bBook \/ bBook' = Books!Unsynchronized(bBook)
          /\ bStream' = bStream \/ bStream' = [bStream EXCEPT !.reset = TRUE]
      BY <1>6, <2>5 DEF Books!ProcessEvent, q
    <3>2. bStream'.generation = bStream.generation /\ bStream'.up = bStream.up
          /\ bStream'.fed = bStream.fed
      BY <1>0, <3>1 DEF Streams
    <3> QED
      BY <2>1, <2>3, <3>1, <3>2, SizesKept DEF Kept, BookSizes
  <2>6. CASE Books!Current(q) /\ ~Books!Refused(q.event)
    <3>1. bBook' = Books!Updated(q.event) /\ bStream' = bStream
      BY <1>6, <2>6 DEF Books!ProcessEvent, q
    <3>2. /\ q.event.kind # "malformed" /\ (q.event.kind = "price_change" => bBook.synchronized)
          /\ q.generation = bStream.generation
      BY <2>6 DEF Books!Current, Books!Refused
    <3>3. 1 \in 1..Len(bQueue)
      BY <1>0, <2>2
    <3>4. q.event.kind = "price_change" => q.event.version = bBook.hash + 1
      BY <2>2, <3>2, <3>3 DEF BooksInv, Linked, Fresh
    <3>5. /\ bBook'.hash = q.event.version /\ q.event.version \in Nat
          /\ bBook'.synchronized = TRUE /\ Matches'
      BY <2>1, <2>4, <3>1, <3>2, <3>4, BookUpdated
    <3>6. q.event.version \in 0..Len(bVenue) /\ bBook'.levels = Content(bVenue, q.event.version)
      BY <1>0, <2>1, <2>4, <3>2, <3>5 DEF Matches
    <3>7. bBook'.levels \in [Levels -> 0..BookChanges]
      BY <2>1, <3>6, SizesKept
    <3> QED
      BY <2>3, <3>1, <3>7 DEF Kept, BookSizes
  <2> QED
    BY <2>5, <2>6
<1>7. ASSUME Books!SnapshotBooks PROVE Kept
  BY <1>7, <1>q DEF Books!SnapshotBooks, Kept, BookSizes
<1>8. ASSUME Books!SnapshotRead PROVE Kept
  <2>1. UNCHANGED <<bVenue, bQueue>>
    BY <1>8 DEF Books!SnapshotRead
  <2>2. /\ bStream' = bStream \/ bStream' = [bStream EXCEPT !.reset = TRUE]
        /\ bBook' = bBook \/ bBook' = Books!Unsynchronized(bBook) \/ bBook' = Books!RestBook
    BY <1>8 DEF Books!SnapshotRead, Books!ReconcileBooks
  <2>3. bStream'.generation = bStream.generation /\ bStream'.up = bStream.up
        /\ bStream'.fed = bStream.fed
    BY <1>0, <2>2 DEF Streams
  <2>4. bBook' = Books!RestBook => bBook'.levels = Content(bVenue, bRest.version)
    BY ContentIs DEF Books!RestBook
  <2>5. bBook'.levels \in [Levels -> 0..BookChanges]
    BY <1>0, <2>1, <2>2, <2>4, SizesKept
  <2> QED
    BY <1>q, <2>1, <2>3, <2>5 DEF Kept, BookSizes
<1>9. ASSUME UNCHANGED booksVars PROVE Kept
  BY <1>9, <1>q DEF booksVars, Kept, BookSizes
<1>10. Kept
  BY <1>1, <1>2, <1>3, <1>4, <1>5, <1>6, <1>7, <1>8, <1>9 DEF Books!Next
<1> QED
  BY <1>c, <1>10 DEF BookSizes, Kept

\* What the invariants say of the types.
LEMMA BooksTyped == BooksInv /\ BookSizes => Books!TypeOK
<1> SUFFICES ASSUME BooksInv, BookSizes PROVE Books!TypeOK
  OBVIOUS
<1>1. /\ bVenue \in Seq(VenueChange) /\ Len(bVenue) \in Nat /\ Len(bVenue) <= BookChanges
      /\ BookChanges \in Nat
  BY LenProperties, PartsAssumption DEF BooksInv, BookTypes, BookSizes
<1>2. bBook \in [levels : [Levels -> 0..BookChanges], hash : 0..BookChanges,
                 synchronized : BOOLEAN]
  <2>1. bBook.hash \in 0..BookChanges
    BY <1>1 DEF BooksInv, BookTypes, BookBounds
  <2> QED
    BY <2>1 DEF BooksInv, BookTypes, BookSizes
<1>3. bRest \in [generation : Nat, version : 0..BookChanges, held : BOOLEAN]
  BY <1>1 DEF BooksInv, BookTypes, BookBounds, RestReads
<1>4. \A i \in 1..Len(bQueue) : bQueue[i].generation \in 1..bStream.generation
  <2>1. \A i \in 1..Len(bQueue) : bQueue[i] \in PublicQueued
    BY ElementOfSeq DEF BooksInv, BookTypes
  <2> QED
    BY <2>1 DEF BooksInv, BookTypes, BookBounds, BookSizes, PublicQueued, Streams
<1> QED
  BY <1>1, <1>2, <1>3, <1>4
     DEF Books!TypeOK, Books!Now, BooksInv, BookTypes, BookSizes, VenueChange, Streams

LEMMA SizingTyped == SizingInv => Sizing!TypeOK
BY DEF SizingInv, SizingTypes, AskTypes, Quoted, Sizing!TypeOK

LEMMA OthersTyped ==
    QuotesInv /\ HoldInv /\ PastInv /\ ShutdownInv => Quotes!TypeOK /\ Hold!TypeOK /\ Shutdown!TypeOK
<1> SUFFICES ASSUME QuotesInv, HoldInv, PastInv, ShutdownInv
             PROVE  Quotes!TypeOK /\ Hold!TypeOK /\ Shutdown!TypeOK
  OBVIOUS
<1>1. Quotes!TypeOK
  BY DEF QuotesInv, QuoteTypes, Quotes!TypeOK, Quotes!Statuses, Sides, Priced, Metas,
         Requested, Sessions
<1>2. Hold!TypeOK
  BY Slots DEF HoldInv, HoldOK, PastInv, Pasts, Hold!TypeOK, Holds, Passes, Links, Alarms
<1>3. Shutdown!TypeOK
  BY DEF ShutdownInv, ShutdownTypes, Shutdown!TypeOK, Shutdown!Callbacks, Shutdown!Other,
         Callbacks, Taken, Drains, HedgedLedgers, Verdicts
<1> QED
  BY <1>1, <1>2, <1>3

\* Every part keeps its types, within every bound.
THEOREM PartsKeepTypes == ComponentsSpec => []TypesOK
<1> DEFINE All == /\ BooksInv /\ BookSizes /\ QuotesInv /\ PreviewInv /\ ShutdownInv
                  /\ HoldInv /\ PastInv /\ SizingInv /\ ReceiptsInv /\ EntryInv
<1>1. ComponentsInit => All
  BY BooksStart, SizesStart, QuotesStart, PreviewStart, ShutdownStart, HoldStart, PastStart,
     SizingStart, ReceiptsStart, EntryStart DEF ComponentsInit
<1>2. All /\ [ComponentsNext]_componentsVars => All'
  BY BooksStep, SizesStep, QuotesStep, PreviewStep, ShutdownStep, HoldStep, PastStep,
     SizingStep, ReceiptsStep, EntryStep, PartSteps
<1>3. All => TypesOK
  <2>1. SUFFICES ASSUME All PROVE TypesOK
    OBVIOUS
  <2>2. Preview!TypeOK /\ Receipts!TypeOK /\ TypeOK
    BY <2>1, PreviewSafe, ReceiptsSafe DEF EntryInv
  <2> QED
    BY <2>1, <2>2, BooksTyped, SizingTyped, OthersTyped DEF TypesOK
<1> QED
  BY <1>1, <1>2, <1>3, PTL DEF ComponentsSpec

=============================================================================
