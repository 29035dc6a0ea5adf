--------------------------- MODULE ZqBatchProofs ---------------------------
(***************************************************************************)
(* Proofs about ZqBatch, for every number of batches and contracts.        *)
(*                                                                         *)
(* What must hold of a batch is a predicate on three values, its row and   *)
(* IBKR's view of its order, so that each operation on a row is settled    *)
(* once by a lemma of its own and a step only says which row it applies    *)
(* the operation to.                                                       *)
(***************************************************************************)
EXTENDS MCZqBatch, FiniteSetTheorems, TLAPS

Rows == [state : BatchStates, zqStatus : ZqStatuses, cancelReason : BOOLEAN,
         reported : Unreported..Qty, hedge : [Fills -> HedgeStates]]
VenueOrders == {"UNSENT", "LIVE", "FILLED", "CANCELLED"}

\* A row r whose order is in state vo with vf fills at IBKR.
RowOK(r, vo, vf) ==
    /\ r \in Rows /\ vo \in VenueOrders /\ vf \in 0..Qty
    /\ Executed(r) \subseteq 1..vf
    /\ r.reported <= vf
    /\ r.state = "NONE" => r = NoBatch /\ vo = "UNSENT"
    /\ vo = "UNSENT" => /\ vf = 0
                        /\ r.zqStatus \in {"INTENT", "SUBMITTED", "ABORTED"}
    /\ r.zqStatus = "ABORTED" => vo = "UNSENT"
    /\ r.zqStatus \in TerminalZq => vo = r.zqStatus
    /\ vo = "FILLED" <=> vf = Qty
    /\ \A k \in Fills : r.hedge[k] \in {"DUE", "PART", "COVERED"} => r.state # "COMPLETE"

Numbered == \E n \in 0..MaxBatches : Existing = 1..n

\* Where the cycle is, and what that says of the batch it is opening.
PhaseOK ==
    /\ cancelling \subseteq Existing
    /\ pc \in {"final", "mark"} => Existing # {}
    /\ pc = "final" => /\ vOrder[Latest] = "UNSENT"
                       /\ batch[Latest].zqStatus = "INTENT"

Inv == /\ TypeOK
       /\ \A b \in Batches : RowOK(batch[b], vOrder[b], vFills[b])
       /\ Numbered
       /\ PhaseOK

-----------------------------------------------------------------------------
(* Operations on a row *)

\* A batch that was never opened.
LEMMA NoBatchRow == RowOK(NoBatch, "UNSENT", 0)
<1>1. NoBatch \in Rows
  BY BatchConstants DEF NoBatch, Rows, BatchStates, ZqStatuses, IbkrTerminal, TerminalZq,
                        Unreported, HedgeStates
<1>2. Executed(NoBatch) = {}
  BY DEF Executed, NoBatch
<1>3. /\ NoBatch.zqStatus = "INTENT" /\ NoBatch.reported = -1
      /\ \A k \in Fills : NoBatch.hedge[k] = "NONE"
  BY DEF NoBatch, Unreported
<1>4. "UNSENT" \in VenueOrders /\ 0 \in 0..Qty /\ 0 # Qty
  BY BatchConstants DEF VenueOrders
<1> QED
  BY <1>1, <1>2, <1>3, <1>4 DEF RowOK, TerminalZq

\* What _refresh_batch_state may do to a row.
LEMMA RefreshedRow ==
  ASSUME NEW r \in Rows
  PROVE  /\ Refreshed(r) \in Rows
         /\ Refreshed(r).zqStatus = r.zqStatus
         /\ Refreshed(r).reported = r.reported
         /\ Refreshed(r).hedge = r.hedge
         /\ Refreshed(r).state # "NONE" \/ r.state = "NONE"
         /\ Refreshed(r).state = "COMPLETE" =>
                Finished(r) \/ (r.state = "COMPLETE" /\ Executed(r) = {})
BY DEF Refreshed, Rows, BatchStates

\* The recorded fills are a matter of the obligations alone.
LEMMA ExecutedOfHedge ==
  ASSUME NEW r, NEW q, r.hedge = q.hedge
  PROVE  Executed(r) = Executed(q)
BY DEF Executed

\* What the batch must see before it is complete.
LEMMA FinishedIsHedged ==
  ASSUME NEW r \in Rows, Finished(r)
  PROVE  \A k \in Fills : r.hedge[k] \in {"NONE", "DONE"}
BY DEF Finished, Hedged, Executed, Rows, HedgeStates

\* Refreshing a row whose fields are sound leaves it sound, whatever its
\* cached state was worth before.
LEMMA RefreshedRowOK ==
  ASSUME NEW r \in Rows, NEW vo \in VenueOrders, NEW vf \in 0..Qty,
         r.state # "NONE",
         Executed(r) \subseteq 1..vf,
         r.reported <= vf,
         vo = "UNSENT" => vf = 0 /\ r.zqStatus \in {"INTENT", "SUBMITTED", "ABORTED"},
         r.zqStatus = "ABORTED" => vo = "UNSENT",
         r.zqStatus \in TerminalZq => vo = r.zqStatus,
         vo = "FILLED" <=> vf = Qty
  PROVE  RowOK(Refreshed(r), vo, vf)
<1>1. Executed(Refreshed(r)) = Executed(r)
  BY RefreshedRow, ExecutedOfHedge
<1>2. ASSUME NEW k \in Fills, r.hedge[k] \in {"DUE", "PART", "COVERED"}
      PROVE  Refreshed(r).state # "COMPLETE"
  <2>1. Executed(r) # {}
    BY <1>2 DEF Executed
  <2>2. ~Finished(r)
    BY <1>2, FinishedIsHedged
  <2> QED
    BY <2>1, <2>2, RefreshedRow
<1> QED
  BY <1>1, <1>2, RefreshedRow DEF RowOK

\* A status callback: a working status, or the one the order ended with.
LEMMA StatusRowOK ==
  ASSUME NEW r, NEW vo, NEW vf, RowOK(r, vo, vf), r.state # "NONE", vo # "UNSENT",
         NEW s \in {"SUBMITTED"} \cup ({vo} \cap TerminalZq),
         NEW f \in Unreported..vf
  PROVE  RowOK(StatusApplied(r, s, f), vo, vf)
<1> DEFINE n == IF s = "FILLED" /\ f = Unreported THEN Qty ELSE f
           q == [r EXCEPT !.zqStatus = s, !.reported = Larger(@, n)]
<1>1. n \in Unreported..vf
  BY BatchConstants DEF RowOK, TerminalZq, Unreported
<1>2. Larger(r.reported, n) \in Unreported..Qty /\ Larger(r.reported, n) <= vf
  BY <1>1, BatchConstants DEF RowOK, Rows, Larger, Unreported
<1>3. s \in ZqStatuses
  BY DEF ZqStatuses, IbkrTerminal, TerminalZq
<1>4. /\ q \in Rows /\ q.state = r.state /\ q.hedge = r.hedge
      /\ q.zqStatus = s /\ q.reported <= vf
  BY <1>2, <1>3 DEF RowOK, Rows
<1>5. Executed(q) = Executed(r)
  BY <1>4, ExecutedOfHedge
<1>6. /\ vo \in VenueOrders /\ vf \in 0..Qty /\ q.state # "NONE"
      /\ Executed(q) \subseteq 1..vf
      /\ vo = "FILLED" <=> vf = Qty
  BY <1>4, <1>5 DEF RowOK
<1>7. q.zqStatus # "ABORTED" /\ (q.zqStatus \in TerminalZq => vo = q.zqStatus)
  BY <1>4 DEF TerminalZq
<1> HIDE DEF q
<1>8. RowOK(Refreshed(q), vo, vf)
  BY <1>4, <1>6, <1>7, RefreshedRowOK
<1> QED
  BY <1>8 DEF StatusApplied, q

\* An execution of a contract that IBKR has filled.
LEMMA ExecutionRowOK ==
  ASSUME NEW r, NEW vo, NEW vf, RowOK(r, vo, vf), r.state # "NONE",
         NEW k \in Fills, k <= vf
  PROVE  RowOK(ExecutionApplied(r, k), vo, vf)
<1> DEFINE q == ExecutionApplied(r, k)
<1>1. /\ q \in Rows /\ q.state = "ZQ_PARTIAL" /\ q.zqStatus = r.zqStatus
      /\ q.reported = r.reported
      /\ q.hedge = [r.hedge EXCEPT ![k] = "DUE"]
  BY DEF ExecutionApplied, RowOK, Rows, BatchStates, HedgeStates
<1>2. Executed(q) \subseteq Executed(r) \cup {k}
  BY <1>1 DEF Executed, RowOK, Rows
<1>3. k \in 1..vf
  BY BatchConstants DEF RowOK, Fills
<1> QED
  BY <1>1, <1>2, <1>3 DEF RowOK

\* A hedge transaction on an obligation that exists.
LEMMA HedgeRowOK ==
  ASSUME NEW r, NEW vo, NEW vf, RowOK(r, vo, vf), r.state # "NONE",
         NEW k \in Executed(r), NEW h \in HedgeStates \ {"NONE"}
  PROVE  RowOK(HedgeApplied(r, k, h), vo, vf)
<1> DEFINE q == [r EXCEPT !.hedge[k] = h]
<1>1. /\ q \in Rows /\ q.state = r.state /\ q.zqStatus = r.zqStatus
      /\ q.reported = r.reported
      /\ q.hedge = [r.hedge EXCEPT ![k] = h]
  BY DEF RowOK, Rows, Executed
<1>2. Executed(q) = Executed(r)
  BY <1>1 DEF Executed, RowOK, Rows
<1>3. /\ vo \in VenueOrders /\ vf \in 0..Qty /\ q.reported <= vf
      /\ Executed(q) \subseteq 1..vf
      /\ vo = "UNSENT" => vf = 0 /\ q.zqStatus \in {"INTENT", "SUBMITTED", "ABORTED"}
      /\ q.zqStatus = "ABORTED" => vo = "UNSENT"
      /\ q.zqStatus \in TerminalZq => vo = q.zqStatus
      /\ vo = "FILLED" <=> vf = Qty
  BY <1>1, <1>2 DEF RowOK
<1> HIDE DEF q
<1>4. RowOK(Refreshed(q), vo, vf)
  BY <1>1, <1>3, RefreshedRowOK
<1> QED
  BY <1>4 DEF HedgeApplied, q

\* The normalisation at startup.
LEMMA RestartRowOK ==
  ASSUME NEW r, NEW vo, NEW vf, RowOK(r, vo, vf), r.state # "NONE"
  PROVE  RowOK(Refreshed(r), vo, vf)
BY RefreshedRowOK DEF RowOK

-----------------------------------------------------------------------------
(* Steps *)

\* Batches are numbered without gaps, so the latest one is the last.
LEMMA LatestNumber ==
  ASSUME Numbered
  PROVE  Latest \in 0..MaxBatches /\ Existing = 1..Latest
<1>1. PICK n \in 0..MaxBatches : Existing = 1..n
  BY DEF Numbered
<1>2. Cardinality(1..n) = n
  BY <1>1, FS_Interval, BatchConstants, n \in Nat, n >= 1 \/ n = 0
<1> QED
  BY <1>1, <1>2 DEF Latest

\* The typed part of the state that no row lemma speaks of.
ControlOK == /\ pc \in {"idle", "route", "preflight", "final", "mark"}
             /\ entryFresh \in BOOLEAN /\ fresh \in BOOLEAN
             /\ clean \in BOOLEAN /\ armed \in BOOLEAN
             /\ faults \in 0..MaxFaults

\* A step that changes no row and nothing at IBKR.
LEMMA QuietStep ==
  ASSUME Inv, UNCHANGED <<batch, ibkr>>, ControlOK', cancelling' \subseteq Existing,
         pc' \in {"final", "mark"} => pc' = pc
  PROVE  Inv'
<1>1. Existing' = Existing /\ Latest' = Latest
  BY DEF Existing, Latest
<1>2. TypeOK'
  BY DEF Inv, TypeOK, ControlOK, ibkr, Existing
<1>3. \A b \in Batches : RowOK(batch[b], vOrder[b], vFills[b])'
  BY DEF Inv, ibkr
<1>4. Numbered' /\ PhaseOK'
  BY <1>1 DEF Inv, Numbered, PhaseOK, ibkr
<1> QED
  BY <1>2, <1>3, <1>4 DEF Inv

\* A step that replaces the row of one open batch.
LEMMA RowStep ==
  ASSUME Inv, NEW b \in Existing, NEW q, RowOK(q, vOrder[b], vFills[b]), q.state # "NONE",
         batch' = [batch EXCEPT ![b] = q], UNCHANGED ibkr,
         ControlOK', cancelling' \subseteq Existing,
         pc' \in {"final", "mark"} => pc' = pc,
         pc' = "final" => q.zqStatus = batch[b].zqStatus \/ vOrder[b] # "UNSENT"
  PROVE  Inv'
<1>1. b \in Batches /\ batch \in [Batches -> Rows]
  BY DEF Existing, Inv, TypeOK, Rows
<1>2. /\ batch' \in [Batches -> Rows] /\ batch'[b] = q
      /\ \A c \in Batches \ {b} : batch'[c] = batch[c]
  BY <1>1 DEF RowOK
<1>3. Existing' = Existing /\ Latest' = Latest
  <2>1. Existing' = Existing
    BY <1>1, <1>2 DEF Existing
  <2> QED
    BY <2>1 DEF Latest
<1>4. TypeOK'
  BY <1>2 DEF Inv, TypeOK, ControlOK, ibkr, Existing, Rows
<1>5. \A c \in Batches : RowOK(batch[c], vOrder[c], vFills[c])'
  BY <1>2 DEF Inv, ibkr
<1>6. Numbered'
  BY <1>3 DEF Inv, Numbered
<1>7. PhaseOK'
  <2>1. Latest \in Batches \/ pc' # "final"
    BY LatestNumber, BatchConstants DEF Inv, PhaseOK, Batches
  <2> QED
    BY <1>2, <1>3, <2>1 DEF Inv, PhaseOK, ibkr
<1> QED
  BY <1>4, <1>5, <1>6, <1>7 DEF Inv

\* A step that only changes what IBKR knows of one order it is working.
LEMMA IbkrStep ==
  ASSUME Inv, NEW b \in Batches, vOrder[b] = "LIVE",
         NEW vo \in VenueOrders \ {"UNSENT"}, NEW vf \in 0..Qty, vf >= vFills[b],
         vo = "FILLED" <=> vf = Qty,
         vOrder' = [vOrder EXCEPT ![b] = vo], vFills' = [vFills EXCEPT ![b] = vf],
         UNCHANGED <<batch, coordinator, faults>>
  PROVE  Inv'
<1>1. /\ vOrder'[b] = vo /\ vFills'[b] = vf
      /\ \A c \in Batches \ {b} : vOrder'[c] = vOrder[c] /\ vFills'[c] = vFills[c]
  BY DEF Inv, TypeOK
<1>2. RowOK(batch[b], vOrder[b], vFills[b])
  BY DEF Inv
<1>3. 1..vFills[b] \subseteq 1..vf
  BY <1>2 DEF RowOK
<1>4. RowOK(batch[b], vo, vf)
  BY <1>2, <1>3, BatchConstants DEF RowOK, Rows, Unreported, TerminalZq
<1>5. Existing' = Existing /\ Latest' = Latest
  BY DEF Existing, Latest
<1>6. TypeOK'
  BY DEF Inv, TypeOK, coordinator, VenueOrders
<1>7. \A c \in Batches : RowOK(batch[c], vOrder[c], vFills[c])'
  BY <1>1, <1>4 DEF Inv
<1>8. Numbered'
  BY <1>5 DEF Inv, Numbered
<1>9. PhaseOK'
  <2>1. Latest \in Batches \/ pc # "final"
    BY LatestNumber, BatchConstants DEF Inv, PhaseOK, Batches
  <2> QED
    BY <1>1, <1>5, <2>1 DEF Inv, PhaseOK, coordinator
<1> QED
  BY <1>6, <1>7, <1>8, <1>9 DEF Inv

\* The empty ledger satisfies the invariant.
LEMMA InitInv == Init => Inv
<1> SUFFICES ASSUME Init PROVE Inv
  OBVIOUS
<1>1. TypeOK
  <2>1. NoBatch \in Rows
    BY NoBatchRow DEF RowOK
  <2>2. batch \in [Batches -> Rows]
    BY <2>1 DEF Init
  <2>3. 0 \in 0..Qty /\ 0 \in 0..MaxFaults
    BY BatchConstants
  <2>4. vOrder \in [Batches -> {"UNSENT", "LIVE", "FILLED", "CANCELLED"}]
        /\ vFills \in [Batches -> 0..Qty]
    BY <2>3 DEF Init
  <2> QED
    BY <2>2, <2>3, <2>4 DEF Init, TypeOK, Rows
<1>2. Existing = {}
  BY DEF Init, Existing, NoBatch
<1>3. Numbered
  BY <1>2, BatchConstants DEF Numbered
<1> QED
  BY <1>1, <1>2, <1>3, NoBatchRow DEF Init, Inv, PhaseOK

\* The row operations with the steps that carry them out.
LEMMA StatusStep ==
  ASSUME Inv, NEW b \in Batches, vOrder[b] # "UNSENT",
         NEW s \in {"SUBMITTED"} \cup ({vOrder[b]} \cap TerminalZq),
         NEW f \in Unreported..vFills[b],
         UpdateZqOrderStatus(b, s, f), clean' = FALSE,
         UNCHANGED <<cancelling, pc, armed, ibkr, faults>>
  PROVE  Inv'
<1>0. ControlOK' /\ cancelling' \subseteq Existing /\ pc' = pc
  BY DEF Inv, TypeOK, PhaseOK, ControlOK, UpdateZqOrderStatus, LedgerWritten
<1>1. CASE b \notin Existing \/ StatusIgnored(batch[b], s)
  BY <1>0, <1>1, QuietStep DEF UpdateZqOrderStatus
<1>2. CASE b \in Existing /\ ~StatusIgnored(batch[b], s)
  <2> DEFINE q == StatusApplied(batch[b], s, f)
  <2>1. RowOK(batch[b], vOrder[b], vFills[b]) /\ batch[b].state # "NONE"
    BY <1>2 DEF Inv, Existing
  <2>2. RowOK(q, vOrder[b], vFills[b])
    BY <2>1, StatusRowOK
  <2>3. batch' = [batch EXCEPT ![b] = q]
    BY <1>2 DEF UpdateZqOrderStatus
  <2>4. q.state # "NONE"
    <3> HIDE DEF q
    <3>1. CASE q.state = "NONE"
      BY <2>2, <3>1 DEF RowOK
    <3> QED
      BY <3>1
  <2> HIDE DEF q
  <2> QED
    BY <1>0, <1>2, <2>2, <2>3, <2>4, RowStep
<1> QED
  BY <1>1, <1>2

\* Inv is inductive: every step of the cycle, of a callback, of a hedge
\* transaction, of IBKR and a restart preserves it.
THEOREM InvStep == Inv /\ [Next]_vars => Inv'
<1> SUFFICES ASSUME Inv, [Next]_vars PROVE Inv'
  OBVIOUS
<1> USE DEF Inv
<1>0. ControlOK /\ cancelling \subseteq Existing
  BY DEF TypeOK, ControlOK, PhaseOK
<1>1. ASSUME CycleRead PROVE Inv'
  BY <1>0, <1>1, QuietStep DEF CycleRead, ControlOK
<1>2. ASSUME EntryStart PROVE Inv'
  BY <1>0, <1>2, QuietStep DEF EntryStart, ControlOK
<1>3. ASSUME EntryDeclines PROVE Inv'
  BY <1>0, <1>3, QuietStep DEF EntryDeclines, ControlOK
<1>4. ASSUME EntryIntent PROVE Inv'
  <2> DEFINE n == Latest + 1
             q == [NoBatch EXCEPT !.state = "QUALIFIED"]
  <2>1. Latest \in 0..MaxBatches /\ Existing = 1..Latest
    BY LatestNumber
  <2>2. n \in Batches /\ n \notin Existing
    BY <1>4, <2>1, BatchConstants DEF EntryIntent, Batches
  <2>3. batch[n] = NoBatch /\ vOrder[n] = "UNSENT" /\ vFills[n] = 0
    BY <2>2 DEF Existing, RowOK
  <2>4. RowOK(q, "UNSENT", 0) /\ q \in Rows /\ q.state = "QUALIFIED" /\ q.zqStatus = "INTENT"
    <3>1. q \in Rows /\ q.hedge = NoBatch.hedge /\ q.reported = NoBatch.reported
          /\ q.state = "QUALIFIED" /\ q.zqStatus = "INTENT"
      BY NoBatchRow DEF RowOK, Rows, BatchStates, NoBatch
    <3>2. Executed(q) = Executed(NoBatch)
      BY <3>1, ExecutedOfHedge
    <3> QED
      BY <3>1, <3>2, NoBatchRow DEF RowOK, NoBatch
  <2> HIDE DEF q, n
  <2>5. batch' = [batch EXCEPT ![n] = q]
    BY <1>4 DEF EntryIntent, q, n
  <2>6. /\ batch' \in [Batches -> Rows] /\ batch'[n] = q
        /\ \A c \in Batches \ {n} : batch'[c] = batch[c]
    BY <2>2, <2>4, <2>5 DEF TypeOK, Rows
  <2>7. Existing' = Existing \cup {n}
    BY <2>2, <2>4, <2>6 DEF Existing
  <2>8. Existing' = 1..(Latest + 1) /\ Latest + 1 \in 1..MaxBatches
    BY <2>1, <2>2, <2>7, BatchConstants DEF n, Batches
  <2>9. Numbered'
    BY <2>8, BatchConstants DEF Numbered
  <2>10. Latest' = n
    <3>1. Cardinality(1..(Latest + 1)) = Latest + 1
      BY <2>1, FS_Interval, BatchConstants
    <3> QED
      BY <2>8, <3>1 DEF Latest, n
  <2>11. TypeOK'
    BY <1>4, <2>6 DEF EntryIntent, TypeOK, Rows, ibkr
  <2>12. \A c \in Batches : RowOK(batch[c], vOrder[c], vFills[c])'
    BY <1>4, <2>3, <2>4, <2>6 DEF EntryIntent, ibkr
  <2>13. PhaseOK'
    BY <1>4, <1>0, <2>2, <2>3, <2>4, <2>6, <2>7, <2>10 DEF EntryIntent, PhaseOK, ibkr
  <2> QED
    BY <2>9, <2>11, <2>12, <2>13
<1>5. ASSUME EntrySend PROVE Inv'
  <2>1. Latest \in Existing /\ Existing \subseteq Batches
    BY <1>5, LatestNumber, BatchConstants DEF EntrySend, PhaseOK, Existing
  <2>2. RowOK(batch[Latest], "UNSENT", vFills[Latest]) /\ vOrder[Latest] = "UNSENT"
        /\ batch[Latest].zqStatus = "INTENT" /\ batch[Latest].state # "NONE"
    BY <1>5, <2>1 DEF EntrySend, PhaseOK, Existing
  <2>3. RowOK(batch[Latest], "LIVE", vFills[Latest])
    BY <2>2, BatchConstants DEF RowOK, VenueOrders
  <2>4. vOrder' \in [Batches -> VenueOrders]
        /\ \A c \in Batches : vOrder'[c] = vOrder[c] \/ (c = Latest /\ vOrder'[c] = "LIVE")
    BY <1>5, <2>1 DEF EntrySend, TypeOK, VenueOrders
  <2>5. TypeOK'
    <3>1. faults' \in 0..MaxFaults
      BY <1>5, BatchConstants DEF EntrySend, TypeOK
    <3>2. vOrder' \in [Batches -> {"UNSENT", "LIVE", "FILLED", "CANCELLED"}]
      BY <2>4 DEF VenueOrders
    <3>3. cancelling' \subseteq Batches /\ pc' = "mark" /\ entryFresh' = FALSE
          /\ clean' = FALSE /\ UNCHANGED <<batch, fresh, armed, vFills>>
      BY <1>5 DEF EntrySend, TypeOK
    <3> QED
      BY <3>1, <3>2, <3>3 DEF TypeOK
  <2>6. \A c \in Batches : RowOK(batch[c], vOrder[c], vFills[c])'
    BY <1>5, <2>3, <2>4 DEF EntrySend
  <2>7. Numbered'
    BY <1>5 DEF EntrySend, Numbered, Existing
  <2>8. PhaseOK'
    BY <1>5 DEF EntrySend, PhaseOK, Existing, Latest
  <2> QED
    BY <2>5, <2>6, <2>7, <2>8
<1>6. ASSUME EntryAbandon PROVE Inv'
  <2>1. Latest \in Existing /\ Existing \subseteq Batches
    BY <1>6, LatestNumber, BatchConstants DEF EntryAbandon, PhaseOK, Existing
  <2>2. RowOK(batch[Latest], "UNSENT", 0) /\ vOrder[Latest] = "UNSENT" /\ vFills[Latest] = 0
        /\ batch[Latest].zqStatus = "INTENT" /\ batch[Latest].state # "NONE"
    BY <1>6, <2>1 DEF EntryAbandon, PhaseOK, Existing, RowOK
  <2> DEFINE q == [batch[Latest] EXCEPT !.state = "COMPLETE", !.zqStatus = "ABORTED"]
  <2>3. /\ q \in Rows /\ q.state = "COMPLETE" /\ q.zqStatus = "ABORTED"
        /\ q.hedge = batch[Latest].hedge /\ q.reported = batch[Latest].reported
    BY <2>2 DEF RowOK, Rows, BatchStates, ZqStatuses, IbkrTerminal
  <2>4. Executed(q) = Executed(batch[Latest])
    BY <2>3, ExecutedOfHedge
  <2>5. Executed(batch[Latest]) = {}
    BY <2>2 DEF RowOK
  <2>6. RowOK(q, vOrder[Latest], vFills[Latest])
    <3>1. \A k \in Fills : q.hedge[k] \notin {"DUE", "PART", "COVERED"}
      BY <2>3, <2>5 DEF Executed
    <3> HIDE DEF q
    <3> QED
      BY <2>2, <2>3, <2>4, <2>5, <3>1 DEF RowOK, TerminalZq
  <2>7. batch' = [batch EXCEPT ![Latest] = q]
    BY <1>6, <2>1, <2>2 DEF EntryAbandon, TypeOK
  <2>8. ControlOK' /\ cancelling' \subseteq Existing /\ pc' = "idle"
    BY <1>0, <1>6 DEF EntryAbandon, ControlOK
  <2> HIDE DEF q
  <2> QED
    BY <1>6, <2>1, <2>3, <2>6, <2>7, <2>8, RowStep DEF EntryAbandon
<1>7. ASSUME EntryMark PROVE Inv'
  <2>1. Latest \in Existing /\ Existing \subseteq Batches
    BY <1>7, LatestNumber, BatchConstants DEF EntryMark, PhaseOK, Existing
  <2> DEFINE r == batch[Latest]
             q == Marked(r)
  <2>2. RowOK(r, vOrder[Latest], vFills[Latest]) /\ r.state # "NONE"
    BY <2>1 DEF Existing
  <2>3. /\ q \in Rows /\ q.hedge = r.hedge /\ q.reported = r.reported
        /\ q.state = IF r.state = "QUALIFIED" THEN "ZQ_SUBMITTED" ELSE r.state
        /\ q.zqStatus = IF r.zqStatus = "INTENT" THEN "SUBMITTED" ELSE r.zqStatus
    <3>1. r \in Rows
      BY <2>2 DEF RowOK
    <3>2. "ZQ_SUBMITTED" \in BatchStates /\ "SUBMITTED" \in ZqStatuses
      BY DEF BatchStates, ZqStatuses
    <3> QED
      BY <3>1, <3>2 DEF Rows, Marked
  <2>4. Executed(q) = Executed(r)
    BY <2>3, ExecutedOfHedge
  <2>5. RowOK(q, vOrder[Latest], vFills[Latest]) /\ q.state # "NONE"
    BY <2>2, <2>3, <2>4 DEF RowOK, TerminalZq
  <2>6. batch' = [batch EXCEPT ![Latest] = q]
    BY <1>7 DEF EntryMark
  <2>7. ControlOK' /\ cancelling' \subseteq Existing /\ pc' = "idle"
    BY <1>0, <1>7 DEF EntryMark, ControlOK
  <2> HIDE DEF q
  <2> QED
    BY <1>7, <2>1, <2>5, <2>6, <2>7, RowStep DEF EntryMark
<1>8. ASSUME NEW b \in Batches, IbkrFills(b) PROVE Inv'
  <2> DEFINE vf == vFills[b] + 1
             vo == IF vf = Qty THEN "FILLED" ELSE vOrder[b]
  <2>1. vFills[b] \in 0..Qty /\ vFills[b] # Qty
    BY <1>8 DEF IbkrFills, RowOK
  <2>2. vf \in 0..Qty /\ vf >= vFills[b] /\ vo \in VenueOrders \ {"UNSENT"}
        /\ (vo = "FILLED" <=> vf = Qty)
    BY <1>8, <2>1, BatchConstants DEF IbkrFills, VenueOrders
  <2>3. vOrder' = [vOrder EXCEPT ![b] = vo] /\ vFills' = [vFills EXCEPT ![b] = vf]
    BY <1>8 DEF IbkrFills
  <2> HIDE DEF vf, vo
  <2> QED
    BY <1>8, <2>2, <2>3, IbkrStep DEF IbkrFills
<1>9. ASSUME NEW b \in Batches, IbkrEnds(b) PROVE Inv'
  <2>1. vFills[b] \in 0..Qty /\ vFills[b] # Qty
    BY <1>9 DEF IbkrEnds, RowOK
  <2>2. vFills' = [vFills EXCEPT ![b] = vFills[b]]
    BY <1>9 DEF IbkrEnds, TypeOK
  <2>3. "CANCELLED" \in VenueOrders \ {"UNSENT"}
    BY DEF VenueOrders
  <2>4. vFills[b] >= vFills[b] /\ vOrder[b] = "LIVE"
        /\ vOrder' = [vOrder EXCEPT ![b] = "CANCELLED"]
        /\ UNCHANGED <<batch, coordinator, faults>>
    BY <1>9, <2>1 DEF IbkrEnds
  <2>5. "CANCELLED" = "FILLED" <=> vFills[b] = Qty
    BY <2>1
  <2> QED
    BY <2>1, <2>2, <2>3, <2>4, <2>5, IbkrStep
<1>10. ASSUME NEW b \in Batches, CancelDecided(b) PROVE Inv'
  BY <1>0, <1>10, QuietStep DEF CancelDecided, ControlOK
<1>11. ASSUME NEW b \in Batches, CancelMarked(b) PROVE Inv'
  <2>1. b \in Existing /\ batch[b].state # "NONE" /\ RowOK(batch[b], vOrder[b], vFills[b])
    BY <1>0, <1>11 DEF CancelMarked, Existing
  <2>2. ControlOK' /\ cancelling' \subseteq Existing /\ pc' = pc /\ UNCHANGED ibkr
    BY <1>0, <1>11 DEF CancelMarked, ControlOK, SetBatchCancelPending, LedgerWritten
  <2>3. CASE batch[b].state = "CANCEL_PENDING"
    BY <1>11, <2>2, <2>3, QuietStep DEF CancelMarked, SetBatchCancelPending
  <2>4. CASE batch[b].state # "CANCEL_PENDING"
    <3> DEFINE q == [batch[b] EXCEPT !.state = "CANCEL_PENDING", !.cancelReason = TRUE]
    <3>1. /\ q \in Rows /\ q.state = "CANCEL_PENDING" /\ q.zqStatus = batch[b].zqStatus
          /\ q.hedge = batch[b].hedge /\ q.reported = batch[b].reported
      BY <2>1 DEF RowOK, Rows, BatchStates
    <3>2. Executed(q) = Executed(batch[b])
      BY <3>1, ExecutedOfHedge
    <3>3. RowOK(q, vOrder[b], vFills[b])
      BY <2>1, <3>1, <3>2 DEF RowOK
    <3>4. batch' = [batch EXCEPT ![b] = q]
      BY <1>11, <2>1, <2>4 DEF CancelMarked, SetBatchCancelPending, TypeOK, Existing
    <3> HIDE DEF q
    <3> QED
      BY <2>1, <2>2, <3>1, <3>3, <3>4, RowStep
  <2> QED
    BY <2>3, <2>4
<1>12. ASSUME NEW b \in Batches, OrderStatusCallback(b) PROVE Inv'
  <2>1. PICK m \in StatusReports(b) : UpdateZqOrderStatus(b, m[1], m[2])
    BY <1>12 DEF OrderStatusCallback
  <2>2. vFills[b] \in 0..Qty
    BY DEF RowOK
  <2>3. m[1] \in {"SUBMITTED"} \cup ({vOrder[b]} \cap TerminalZq)
        /\ m[2] \in Unreported..vFills[b]
    BY <2>2, BatchConstants DEF StatusReports, Unreported
  <2> QED
    BY <1>12, <2>1, <2>3, StatusStep DEF OrderStatusCallback
<1>13. ASSUME NEW b \in Batches, OpenOrderCallback(b) PROVE Inv'
  <2>1. PICK s \in {"SUBMITTED"}
                      \cup ({vOrder[b]} \cap (IF CancelledOpenOrders THEN TerminalZq ELSE {"FILLED"})) :
           UpdateZqOrderStatus(b, s, Unreported)
    BY <1>13 DEF OpenOrderCallback
  <2>2. vFills[b] \in 0..Qty
    BY DEF RowOK
  <2>3. s \in {"SUBMITTED"} \cup ({vOrder[b]} \cap TerminalZq)
        /\ Unreported \in Unreported..vFills[b]
    <3>1. Unreported \in Unreported..vFills[b]
      BY <2>2, BatchConstants DEF Unreported
    <3>2. s \in {"SUBMITTED"} \cup ({vOrder[b]} \cap TerminalZq)
      BY <2>1 DEF TerminalZq
    <3> QED
      BY <3>1, <3>2
  <2> QED
    BY <1>13, <2>1, <2>3, StatusStep DEF OpenOrderCallback
<1>14. ASSUME NEW b \in Batches, CompletedOrderCallback(b) PROVE Inv'
  <2>1. vFills[b] \in 0..Qty
    BY DEF RowOK
  <2>2. vOrder[b] \in {"SUBMITTED"} \cup ({vOrder[b]} \cap TerminalZq)
        /\ vOrder[b] # "UNSENT" /\ vFills[b] \in Unreported..vFills[b]
    <3>1. vFills[b] \in Unreported..vFills[b]
      BY <2>1, BatchConstants DEF Unreported
    <3>2. vOrder[b] \in TerminalZq
      BY <1>14 DEF CompletedOrderCallback
    <3>3. vOrder[b] # "UNSENT"
      BY <3>2 DEF TerminalZq
    <3> QED
      BY <3>1, <3>2, <3>3
  <2> QED
    BY <1>14, <2>2, StatusStep DEF CompletedOrderCallback
<1>15. ASSUME NEW b \in Batches, NEW k \in Fills, ExecutionCallback(b, k) PROVE Inv'
  <2>1. ControlOK' /\ cancelling' \subseteq Existing /\ pc' = pc /\ UNCHANGED ibkr
    BY <1>0, <1>15 DEF ExecutionCallback, ControlOK, RecordIbkrExecution, LedgerWritten
  <2>2. CASE b \notin Existing \/ k \in Executed(batch[b])
    BY <1>15, <2>1, <2>2, QuietStep DEF ExecutionCallback, RecordIbkrExecution
  <2>3. CASE b \in Existing /\ k \notin Executed(batch[b])
    <3> DEFINE q == ExecutionApplied(batch[b], k)
    <3>1. RowOK(batch[b], vOrder[b], vFills[b]) /\ batch[b].state # "NONE" /\ k <= vFills[b]
      BY <1>15, <2>3 DEF Existing, ExecutionCallback
    <3>2. RowOK(q, vOrder[b], vFills[b])
      BY <3>1, ExecutionRowOK
    <3>3. batch' = [batch EXCEPT ![b] = q]
      BY <1>15, <2>3 DEF ExecutionCallback, RecordIbkrExecution
    <3>4. q.state # "NONE" /\ q.zqStatus = batch[b].zqStatus
      BY <3>1 DEF ExecutionApplied, RowOK, Rows
    <3> HIDE DEF q
    <3> QED
      BY <2>1, <2>3, <3>2, <3>3, <3>4, RowStep
  <2> QED
    BY <2>2, <2>3
<1>16. ASSUME NEW b \in Batches, NEW k \in Fills, HedgeProgress(b, k) \/ HedgeReopens(b, k)
       PROVE Inv'
  <2>1. PICK h \in HedgeStates \ {"NONE"} :
           batch' = [batch EXCEPT ![b] = HedgeApplied(@, k, h)]
    BY <1>16 DEF HedgeProgress, HedgeReopens, HedgeStates
  <2> DEFINE q == HedgeApplied(batch[b], k, h)
  <2>2. k \in Executed(batch[b])
    BY <1>16 DEF HedgeProgress, HedgeReopens, Executed
  <2>3. b \in Existing /\ batch[b].state # "NONE" /\ RowOK(batch[b], vOrder[b], vFills[b])
    BY <2>2 DEF Existing, RowOK, Executed, NoBatch
  <2>4. RowOK(q, vOrder[b], vFills[b])
    BY <2>2, <2>3, HedgeRowOK
  <2>5. q.state # "NONE" /\ q.zqStatus = batch[b].zqStatus
    <3> DEFINE p == [batch[b] EXCEPT !.hedge[k] = h]
    <3>1. p \in Rows /\ p.state = batch[b].state /\ p.zqStatus = batch[b].zqStatus
      BY <2>2, <2>3 DEF RowOK, Rows, Executed
    <3> HIDE DEF p
    <3>2. Refreshed(p).state # "NONE" /\ Refreshed(p).zqStatus = batch[b].zqStatus
      BY <2>3, <3>1, RefreshedRow
    <3> QED
      BY <3>2 DEF HedgeApplied, p
  <2>6. batch' = [batch EXCEPT ![b] = q]
    BY <2>1
  <2>7. ControlOK' /\ cancelling' \subseteq Existing /\ pc' = pc /\ UNCHANGED ibkr
    <3>1. CASE HedgeProgress(b, k)
      BY <1>0, <3>1 DEF HedgeProgress, ControlOK, LedgerWritten
    <3>2. CASE HedgeReopens(b, k)
      <4>1. faults' \in 0..MaxFaults
        BY <1>0, <3>2, BatchConstants DEF HedgeReopens, ControlOK
      <4> QED
        BY <1>0, <3>2, <4>1 DEF HedgeReopens, ControlOK, LedgerWritten
    <3> QED
      BY <1>16, <3>1, <3>2
  <2> HIDE DEF q
  <2> QED
    BY <2>3, <2>4, <2>5, <2>6, <2>7, RowStep
<1>17. ASSUME SetArmed PROVE Inv'
  BY <1>0, <1>17, QuietStep DEF SetArmed, ControlOK
<1>18. ASSUME Reconcile PROVE Inv'
  BY <1>0, <1>18, QuietStep DEF Reconcile, ControlOK
<1>19. ASSUME Restart PROVE Inv'
  <2>1. \A b \in Batches : batch'[b] = IF b \in Existing THEN Refreshed(batch[b]) ELSE batch[b]
    BY <1>19 DEF Restart
  <2>2. \A b \in Existing : RowOK(Refreshed(batch[b]), vOrder[b], vFills[b])
                            /\ Refreshed(batch[b]).state # "NONE"
    <3> SUFFICES ASSUME NEW b \in Existing
                 PROVE  RowOK(Refreshed(batch[b]), vOrder[b], vFills[b])
                        /\ Refreshed(batch[b]).state # "NONE"
      OBVIOUS
    <3>1. RowOK(batch[b], vOrder[b], vFills[b]) /\ batch[b].state # "NONE"
      BY DEF Existing
    <3>2. batch[b] \in Rows
      BY <3>1 DEF RowOK
    <3> QED
      BY <3>1, <3>2, RestartRowOK, RefreshedRow
  <2>3. \A b \in Batches : RowOK(batch[b], vOrder[b], vFills[b])'
    BY <1>19, <2>1, <2>2 DEF Restart, ibkr
  <2>4. batch' \in [Batches -> Rows]
    <3>1. \A b \in Batches : batch'[b] \in Rows
      BY <2>3 DEF RowOK
    <3> QED
      BY <1>19, <3>1 DEF Restart
  <2>5. Existing' = Existing
    BY <2>1, <2>2 DEF Existing
  <2>6. TypeOK'
    <3>1. faults' \in 0..MaxFaults
      BY <1>19, BatchConstants DEF Restart, TypeOK
    <3>2. /\ cancelling' \subseteq Batches /\ pc' = "idle" /\ entryFresh' = FALSE
          /\ fresh' = FALSE /\ clean' = FALSE /\ armed' = FALSE /\ UNCHANGED <<vOrder, vFills>>
      BY <1>19 DEF Restart, ibkr
    <3> QED
      BY <2>4, <3>1, <3>2 DEF TypeOK, Rows
  <2>7. Numbered' /\ PhaseOK'
    BY <1>19, <2>5 DEF Restart, Numbered, PhaseOK
  <2> QED
    BY <2>3, <2>6, <2>7
<1>20. CASE UNCHANGED vars
  BY <1>0, <1>20, QuietStep DEF vars, coordinator, ControlOK
<1> QED
  BY <1>1, <1>2, <1>3, <1>4, <1>5, <1>6, <1>7, <1>8, <1>9, <1>10, <1>11, <1>12, <1>13, <1>14,
     <1>15, <1>16, <1>17, <1>18, <1>19, <1>20 DEF Next, CycleStep, BatchStep

-----------------------------------------------------------------------------
(* Theorems *)

\* The rows hold only the documented states, and the count IBKR reported never
\* leaves 0..Qty, whatever the callbacks say and in whatever order.
THEOREM BatchTypeCorrect == Spec => []TypeOK
<1>1. Inv => TypeOK
  BY DEF Inv
<1> QED
  BY <1>1, InitInv, InvStep, PTL DEF Spec

\* The cached state of a batch never hides an unhedged fill: neither a late
\* execution nor a settlement taken back leaves it COMPLETE, and that even when
\* IBKR's openOrder says Cancelled before the last fill is reported.
THEOREM UnhedgedFillsStayActive == Spec => []UnhedgedFillIsActive
<1>1. Inv => UnhedgedFillIsActive
  BY DEF Inv, RowOK, UnhedgedFillIsActive
<1> QED
  BY <1>1, InitInv, InvStep, PTL DEF Spec

\* A status callback that arrives late never makes an order that ended look
\* like a working one, nor a cancelled order look filled.
THEOREM TerminalStatusesStay == Spec => TerminalStatusStays
<1> DEFINE Stays == \A b \in Batches : batch[b].zqStatus \in IbkrTerminal =>
                       batch'[b].zqStatus = batch[b].zqStatus
<1>1. Inv /\ [Next]_vars => [Stays]_vars
  <2> SUFFICES ASSUME Inv, Next, NEW b \in Batches, batch[b].zqStatus \in IbkrTerminal
               PROVE  batch'[b].zqStatus = batch[b].zqStatus
    OBVIOUS
  <2>0. /\ batch \in [Batches -> Rows] /\ RowOK(batch[b], vOrder[b], vFills[b])
        /\ batch[b].zqStatus # "INTENT"
        /\ b \in Existing
    BY DEF Inv, TypeOK, Rows, RowOK, NoBatch, IbkrTerminal, TerminalZq, Existing
  <2>1. ASSUME CycleStep PROVE batch'[b].zqStatus = batch[b].zqStatus
    <3>1. Latest \in 0..MaxBatches /\ Existing = 1..Latest /\ b # Latest + 1
      BY <2>0, LatestNumber, BatchConstants DEF Inv
    <3>2. CASE EntryIntent
      BY <2>0, <3>1, <3>2 DEF EntryIntent
    <3>3. CASE EntryAbandon
      BY <2>0, <3>3 DEF EntryAbandon
    <3>4. CASE EntryMark
      <4>1. batch'[b] = batch[b] \/ batch'[b] = Marked(batch[b])
        BY <2>0, <3>4 DEF EntryMark
      <4> QED
        BY <2>0, <4>1 DEF Marked, Rows
    <3>5. CASE UNCHANGED batch
      BY <3>5
    <3> QED
      BY <2>1, <3>2, <3>3, <3>4, <3>5
         DEF CycleStep, CycleRead, EntryStart, EntryDeclines, EntrySend
  <2>2. ASSUME NEW c \in Batches, NEW s, NEW f, UpdateZqOrderStatus(c, s, f),
               s \in {"SUBMITTED"} \cup ({vOrder[c]} \cap TerminalZq), vOrder[c] # "UNSENT"
        PROVE  batch'[b].zqStatus = batch[b].zqStatus
    <3>1. CASE c # b \/ UNCHANGED batch
      BY <2>0, <2>2, <3>1 DEF UpdateZqOrderStatus
    <3>2. CASE c = b /\ batch' # batch
      <4>1. ~StatusIgnored(batch[b], s) /\ batch'[b] = StatusApplied(batch[b], s, f)
        BY <2>0, <2>2, <3>2 DEF UpdateZqOrderStatus
      <4>2. StatusApplied(batch[b], s, f).zqStatus = s
        BY <2>0 DEF StatusApplied, Refreshed, RowOK, Rows
      <4>3. s = vOrder[b] /\ s = batch[b].zqStatus
        BY <2>0, <2>2, <3>2, <4>1 DEF StatusIgnored, RowOK, IbkrTerminal, TerminalZq
      <4> QED
        BY <4>1, <4>2, <4>3
    <3> QED
      BY <3>1, <3>2
  <2>3. ASSUME NEW c \in Batches, BatchStep(c) PROVE batch'[b].zqStatus = batch[b].zqStatus
    <3>1. CASE UNCHANGED batch
      BY <3>1
    <3>2. CASE CancelMarked(c)
      BY <2>0, <3>2 DEF CancelMarked, SetBatchCancelPending, Rows
    <3>3. CASE OrderStatusCallback(c)
      <4>1. PICK m \in StatusReports(c) : UpdateZqOrderStatus(c, m[1], m[2])
        BY <3>3 DEF OrderStatusCallback
      <4>2. m[1] \in {"SUBMITTED"} \cup ({vOrder[c]} \cap TerminalZq)
        BY DEF StatusReports
      <4> QED
        BY <2>2, <3>3, <4>1, <4>2 DEF OrderStatusCallback
    <3>4. CASE OpenOrderCallback(c)
      BY <2>2, <3>4 DEF OpenOrderCallback, TerminalZq
    <3>5. CASE CompletedOrderCallback(c)
      BY <2>2, <3>5 DEF CompletedOrderCallback, TerminalZq
    <3>6. ASSUME NEW k \in Fills, ExecutionCallback(c, k)
          PROVE  batch'[b].zqStatus = batch[b].zqStatus
      <4>1. batch'[b] = batch[b] \/ batch'[b] = ExecutionApplied(batch[b], k)
        BY <2>0, <3>6 DEF ExecutionCallback, RecordIbkrExecution
      <4> QED
        BY <2>0, <4>1 DEF ExecutionApplied, Rows
    <3>7. ASSUME NEW k \in Fills, HedgeProgress(c, k) \/ HedgeReopens(c, k)
          PROVE  batch'[b].zqStatus = batch[b].zqStatus
      <4>1. PICK h : batch' = [batch EXCEPT ![c] = HedgeApplied(@, k, h)]
        BY <3>7 DEF HedgeProgress, HedgeReopens
      <4> QED
        BY <2>0, <4>1 DEF HedgeApplied, Refreshed, Rows
    <3> QED
      BY <2>3, <3>1, <3>2, <3>3, <3>4, <3>5, <3>6, <3>7
         DEF BatchStep, IbkrFills, IbkrEnds, CancelDecided
  <2>4. CASE UNCHANGED batch
    BY <2>4
  <2>5. CASE Restart
    <3>1. batch'[b] = Refreshed(batch[b])
      BY <2>0, <2>5 DEF Restart
    <3> QED
      BY <2>0, <3>1, RefreshedRow DEF RowOK
  <2> QED
    BY <2>1, <2>3, <2>4, <2>5 DEF Next, SetArmed, Reconcile
<1>2. Spec => [][Stays]_vars
  BY <1>1, InitInv, InvStep, PTL DEF Spec
<1> QED
  BY <1>2 DEF TerminalStatusStays

-----------------------------------------------------------------------------
(***************************************************************************)
(* A complete batch is over and hedged, an order is sent only after every  *)
(* earlier batch is, and the whole implements ZqTrading.  From here on it  *)
(* is assumed that openOrder callbacks do not say Cancelled                *)
(* (CancelledOpenOrders = FALSE): such a callback carries no count of the  *)
(* filled contracts, and one that overtakes the report of a fill lets the  *)
(* batch complete without it.                                              *)
(***************************************************************************)

\* What a row says of the end of its order is true of the order.
FinalOK(r, vo, vf) ==
    /\ r.zqStatus \in TerminalZq => vo = r.zqStatus /\ r.reported = vf
    /\ r.state = "COMPLETE" => /\ vo # "LIVE"
                               /\ Executed(r) = 1..vf
                               /\ r.zqStatus = "ABORTED" <=> vo = "UNSENT"

Over(b) == vOrder[b] # "LIVE" /\ Executed(batch[b]) = 1..vFills[b]

HedgesDone(b) == \A k \in Fills : batch[b].hedge[k] \in {"NONE", "DONE"}

\* The intent between its transaction and the final check.
IntentOK == pc = "final" => batch[Latest].state \in {"QUALIFIED", "CANCEL_PENDING"}

\* What the cycle found when it looked for an active batch still holds at the
\* send: a batch that is over stays over...
OverOK == /\ pc \in {"route", "preflight"} => \A b \in Existing : Over(b)
          /\ pc = "final" => \A b \in Existing \ {Latest} : Over(b)

\* ...and no hedge was taken back while the ledger revision stood still.
DoneOK == /\ fresh => \A b \in Existing : HedgesDone(b)
          /\ pc \in {"preflight", "final"} /\ entryFresh => \A b \in Existing : HedgesDone(b)

Safe == /\ Inv
        /\ \A b \in Batches : FinalOK(batch[b], vOrder[b], vFills[b])
        /\ IntentOK /\ OverOK /\ DoneOK

-----------------------------------------------------------------------------
(* Operations on a row *)

\* The execIds of the first n fills.
LEMMA FillCount == ASSUME NEW n \in Nat PROVE IsFiniteSet(1..n) /\ Cardinality(1..n) = n
<1>1. n >= 1 \/ n = 0
  OBVIOUS
<1> QED
  BY <1>1, FS_Interval

\* As many recorded fills as contracts filled, all among them: all of them.
LEMMA AllExecuted ==
  ASSUME NEW S, NEW n \in Nat, S \subseteq 1..n, Cardinality(S) >= n
  PROVE  S = 1..n
<1>1. IsFiniteSet(1..n) /\ Cardinality(1..n) = n
  BY FillCount
<1>2. IsFiniteSet(S) /\ Cardinality(S) \in Nat /\ Cardinality(S) <= n
  BY <1>1, FS_Subset, FS_CardinalityType
<1>3. Cardinality(S) = Cardinality(1..n)
  BY <1>1, <1>2
<1> QED
  BY <1>1, <1>2, <1>3, FS_Subset

\* Refreshing a row.
LEMMA RefreshedFinal ==
  ASSUME NEW r \in Rows, NEW vo \in VenueOrders, NEW vf \in 0..Qty,
         Executed(r) \subseteq 1..vf,
         FinalOK(r, vo, vf)
  PROVE  FinalOK(Refreshed(r), vo, vf)
<1> DEFINE q == Refreshed(r)
<1>1. q.zqStatus = r.zqStatus /\ q.reported = r.reported /\ q.hedge = r.hedge
  BY RefreshedRow
<1>2. Executed(q) = Executed(r)
  BY <1>1, ExecutedOfHedge
<1>3. ASSUME Finished(r)
      PROVE  vo # "LIVE" /\ Executed(r) = 1..vf /\ (r.zqStatus = "ABORTED" <=> vo = "UNSENT")
  <2>1. r.zqStatus \in TerminalZq /\ Cardinality(Executed(r)) >= r.reported
    BY <1>3 DEF Finished, ExecutionsCaughtUp
  <2>2. vo \in TerminalZq /\ r.reported = vf /\ r.zqStatus = vo
    BY <2>1 DEF FinalOK
  <2>3. Executed(r) = 1..vf
    BY <2>1, <2>2, AllExecuted, BatchConstants
  <2> QED
    BY <2>2, <2>3 DEF TerminalZq
<1>4. q.state = "COMPLETE" => Finished(r) \/ r.state = "COMPLETE"
  BY RefreshedRow
<1> HIDE DEF q
<1>5. FinalOK(q, vo, vf)
  BY <1>1, <1>2, <1>3, <1>4 DEF FinalOK
<1> QED
  BY <1>5 DEF q

\* A callback that comes with the final count whenever its status is terminal.
LEMMA StatusFinal ==
  ASSUME NEW r, NEW vo, NEW vf, RowOK(r, vo, vf), FinalOK(r, vo, vf), vo # "UNSENT",
         NEW s \in {"SUBMITTED"} \cup ({vo} \cap TerminalZq),
         NEW f \in Unreported..vf,
         s # "SUBMITTED" => f = vf \/ (s = "FILLED" /\ f = Unreported),
         ~StatusIgnored(r, s)
  PROVE  FinalOK(StatusApplied(r, s, f), vo, vf)
<1> DEFINE n == IF s = "FILLED" /\ f = Unreported THEN Qty ELSE f
           q == [r EXCEPT !.zqStatus = s, !.reported = Larger(@, n)]
<1>1. n \in Unreported..vf
  BY BatchConstants DEF RowOK, TerminalZq, Unreported
<1>2. Larger(r.reported, n) \in Unreported..Qty /\ (n = vf => Larger(r.reported, n) = vf)
  BY <1>1, BatchConstants DEF RowOK, Rows, Larger, Unreported
<1>3. s \in ZqStatuses
  BY DEF ZqStatuses, IbkrTerminal, TerminalZq
<1>4. /\ q \in Rows /\ q.state = r.state /\ q.hedge = r.hedge
      /\ q.zqStatus = s /\ q.reported = Larger(r.reported, n)
  BY <1>2, <1>3 DEF RowOK, Rows
<1>5. Executed(q) = Executed(r)
  BY <1>4, ExecutedOfHedge
<1>6. s \in TerminalZq => vo = s /\ n = vf
  BY BatchConstants DEF RowOK, TerminalZq, Unreported
<1>7. s # "ABORTED" /\ r.zqStatus # "ABORTED"
  BY DEF TerminalZq, RowOK
<1> HIDE DEF n, q
<1>8. FinalOK(q, vo, vf)
  BY <1>2, <1>4, <1>5, <1>6, <1>7 DEF FinalOK
<1>9. q \in Rows /\ vo \in VenueOrders /\ vf \in 0..Qty /\ Executed(q) \subseteq 1..vf
  BY <1>4, <1>5 DEF RowOK
<1>10. FinalOK(Refreshed(q), vo, vf)
  BY <1>8, <1>9, RefreshedFinal
<1> QED
  BY <1>10 DEF StatusApplied, q, n

\* An execution reopens the batch, so it has nothing to promise.
LEMMA ExecutionFinal ==
  ASSUME NEW r, NEW vo, NEW vf, RowOK(r, vo, vf), FinalOK(r, vo, vf), NEW k \in Fills
  PROVE  FinalOK(ExecutionApplied(r, k), vo, vf)
<1>1. /\ ExecutionApplied(r, k).state = "ZQ_PARTIAL"
      /\ ExecutionApplied(r, k).zqStatus = r.zqStatus
      /\ ExecutionApplied(r, k).reported = r.reported
  BY DEF ExecutionApplied, RowOK, Rows
<1> QED
  BY <1>1 DEF FinalOK

\* A hedge transaction neither adds nor removes a recorded fill.
LEMMA HedgeFinal ==
  ASSUME NEW r, NEW vo, NEW vf, RowOK(r, vo, vf), FinalOK(r, vo, vf),
         NEW k \in Executed(r), NEW h \in HedgeStates \ {"NONE"}
  PROVE  /\ FinalOK(HedgeApplied(r, k, h), vo, vf)
         /\ Executed(HedgeApplied(r, k, h)) = Executed(r)
<1> DEFINE q == [r EXCEPT !.hedge[k] = h]
<1>1. /\ q \in Rows /\ q.state = r.state /\ q.zqStatus = r.zqStatus
      /\ q.reported = r.reported
      /\ q.hedge = [r.hedge EXCEPT ![k] = h]
  BY DEF RowOK, Rows, Executed
<1>2. Executed(q) = Executed(r)
  BY <1>1 DEF Executed, RowOK, Rows
<1>3. FinalOK(q, vo, vf)
  BY <1>1, <1>2 DEF FinalOK
<1> HIDE DEF q
<1>4. FinalOK(Refreshed(q), vo, vf)
  BY <1>1, <1>2, <1>3, RefreshedFinal DEF RowOK
<1>5. Executed(Refreshed(q)) = Executed(q)
  BY <1>1, RefreshedRow, ExecutedOfHedge
<1> QED
  BY <1>2, <1>4, <1>5 DEF HedgeApplied, q

-----------------------------------------------------------------------------
(* Steps *)

\* A step that changes no row and nothing at IBKR.
LEMMA QuietSafe ==
  ASSUME Safe, UNCHANGED <<batch, ibkr>>, Inv',
         pc' = "final" => pc = "final",
         pc' \in {"route", "preflight"} =>
            pc \in {"route", "preflight"} \/ \A b \in Existing : Over(b),
         fresh' => fresh \/ \A b \in Existing : HedgesDone(b),
         pc' \in {"preflight", "final"} /\ entryFresh' =>
            \/ pc \in {"preflight", "final"} /\ entryFresh
            \/ \A b \in Existing : HedgesDone(b)
  PROVE  Safe'
<1>1. Existing' = Existing /\ Latest' = Latest
  BY DEF Existing, Latest
<1>2. \A b \in Batches : FinalOK(batch[b], vOrder[b], vFills[b])'
  BY DEF Safe, ibkr
<1>3. \A b \in Existing : (Over(b)' <=> Over(b)) /\ (HedgesDone(b)' <=> HedgesDone(b))
  BY DEF Over, HedgesDone, ibkr
<1>4. IntentOK'
  BY <1>1 DEF Safe, IntentOK
<1>5. OverOK'
  BY <1>1, <1>3 DEF Safe, OverOK
<1>6. DoneOK'
  BY <1>1, <1>3 DEF Safe, DoneOK
<1> QED
  BY <1>2, <1>4, <1>5, <1>6 DEF Safe

\* A step that writes the row of one open batch.
LEMMA RowSafe ==
  ASSUME Safe, Inv', NEW b \in Existing, NEW q, q.state # "NONE",
         batch' = [batch EXCEPT ![b] = q], UNCHANGED ibkr,
         FinalOK(q, vOrder[b], vFills[b]),
         Executed(batch[b]) \subseteq Executed(q), Executed(q) \subseteq 1..vFills[b],
         pc' = pc \/ pc' = "idle",
         pc' = "final" /\ b = Latest => q.state \in {"QUALIFIED", "CANCEL_PENDING"},
         fresh' = FALSE,
         entryFresh' = FALSE \/ (entryFresh' = entryFresh /\ q.hedge = batch[b].hedge)
  PROVE  Safe'
<1>1. b \in Batches /\ batch \in [Batches -> Rows]
  BY DEF Existing, Safe, Inv, TypeOK, Rows
<1>2. batch'[b] = q /\ \A c \in Batches \ {b} : batch'[c] = batch[c]
  BY <1>1
<1>3. Existing' = Existing /\ Latest' = Latest
  <2>1. Existing' = Existing
    BY <1>1, <1>2 DEF Existing
  <2> QED
    BY <2>1 DEF Latest
<1>4. \A c \in Batches : FinalOK(batch[c], vOrder[c], vFills[c])'
  BY <1>2 DEF Safe, ibkr
<1>5. \A c \in Existing : Over(c) => Over(c)'
  BY <1>2 DEF Over, ibkr, Existing
<1>6. q.hedge = batch[b].hedge => \A c \in Existing : HedgesDone(c) => HedgesDone(c)'
  BY <1>2 DEF HedgesDone, Existing
<1>7. IntentOK'
  <2>1. Latest \in Batches \/ pc' # "final"
    BY LatestNumber, BatchConstants DEF Safe, Inv, PhaseOK, Batches
  <2> QED
    BY <1>2, <1>3, <2>1 DEF Safe, IntentOK
<1>8. OverOK'
  BY <1>3, <1>5 DEF Safe, OverOK
<1>9. DoneOK'
  BY <1>3, <1>6 DEF Safe, DoneOK
<1> QED
  BY <1>4, <1>7, <1>8, <1>9 DEF Safe

\* The callbacks that carry a status.
LEMMA StatusSafe ==
  ASSUME Safe, Inv', NEW b \in Batches, vOrder[b] # "UNSENT",
         NEW s \in {"SUBMITTED"} \cup ({vOrder[b]} \cap TerminalZq),
         NEW f \in Unreported..vFills[b],
         s # "SUBMITTED" => f = vFills[b] \/ (s = "FILLED" /\ f = Unreported),
         UpdateZqOrderStatus(b, s, f),
         UNCHANGED <<cancelling, pc, armed, ibkr, faults>>
  PROVE  Safe'
<1>1. CASE b \notin Existing \/ StatusIgnored(batch[b], s)
  BY <1>1, QuietSafe DEF UpdateZqOrderStatus
<1>2. CASE b \in Existing /\ ~StatusIgnored(batch[b], s)
  <2> DEFINE q == StatusApplied(batch[b], s, f)
  <2>1. /\ RowOK(batch[b], vOrder[b], vFills[b]) /\ FinalOK(batch[b], vOrder[b], vFills[b])
        /\ batch[b].state # "NONE"
    BY <1>2 DEF Safe, Inv, Existing
  <2>2. FinalOK(q, vOrder[b], vFills[b]) /\ RowOK(q, vOrder[b], vFills[b])
    BY <1>2, <2>1, StatusFinal, StatusRowOK
  <2>3. batch' = [batch EXCEPT ![b] = q] /\ fresh' = FALSE /\ entryFresh' = FALSE
    BY <1>2 DEF UpdateZqOrderStatus, LedgerWritten
  <2>4. Executed(q) = Executed(batch[b])
    <3> DEFINE p == [batch[b] EXCEPT !.zqStatus = s,
                        !.reported = Larger(@, IF s = "FILLED" /\ f = Unreported THEN Qty ELSE f)]
    <3>1. p.hedge = batch[b].hedge
      BY <2>1 DEF RowOK, Rows
    <3>2. Refreshed(p).hedge = p.hedge
      BY DEF Refreshed
    <3> HIDE DEF p
    <3>3. q.hedge = batch[b].hedge
      BY <3>1, <3>2 DEF StatusApplied, p
    <3> QED
      BY <3>3, ExecutedOfHedge
  <2>5. pc = "final" /\ b = Latest => FALSE
    BY DEF Safe, Inv, PhaseOK
  <2>6. q.state # "NONE"
    <3> HIDE DEF q
    <3> QED
      BY <2>2 DEF RowOK
  <2>7. Executed(q) \subseteq 1..vFills[b]
    BY <2>2 DEF RowOK
  <2> HIDE DEF q
  <2> QED
    BY <1>2, <2>2, <2>3, <2>4, <2>5, <2>6, <2>7, RowSafe
<1> QED
  BY <1>1, <1>2

\* Nothing but the cycle's own steps opens or sends a batch.
LEMMA CycleSafe == ASSUME Safe, Inv', CycleStep PROVE Safe'
<1>1. Latest \in 0..MaxBatches /\ Existing = 1..Latest
  BY LatestNumber DEF Safe, Inv
<1>2. ASSUME CycleRead PROVE Safe'
  <2>1. ASSUME NEW b \in Existing PROVE Over(b)
    BY <1>2, <2>1 DEF CycleRead, Safe, FinalOK, Over, Existing
  <2> QED
    BY <1>2, <2>1, QuietSafe DEF CycleRead
<1>3. ASSUME EntryStart PROVE Safe'
  <2>1. \A b \in Existing : HedgesDone(b)
    BY <1>3 DEF EntryStart, Safe, DoneOK
  <2> QED
    BY <1>3, <2>1, QuietSafe DEF EntryStart
<1>4. ASSUME EntryDeclines PROVE Safe'
  BY <1>4, QuietSafe DEF EntryDeclines
<1>5. ASSUME EntryIntent PROVE Safe'
  <2> DEFINE n == Latest + 1
             q == [NoBatch EXCEPT !.state = "QUALIFIED"]
  <2>1. n \in Batches /\ n \notin Existing
    BY <1>1, <1>5, BatchConstants DEF EntryIntent, Batches
  <2>2. q.state = "QUALIFIED" /\ q.zqStatus = "INTENT" /\ \A k \in Fills : q.hedge[k] = "NONE"
    BY DEF NoBatch
  <2>3. batch \in [Batches -> Rows]
    BY DEF Safe, Inv, TypeOK, Rows
  <2>4. batch' = [batch EXCEPT ![n] = q]
    BY <1>5 DEF EntryIntent
  <2> HIDE DEF q, n
  <2>5. batch'[n] = q /\ \A c \in Batches \ {n} : batch'[c] = batch[c]
    BY <2>1, <2>3, <2>4
  <2>6. Existing' = Existing \cup {n} /\ Latest' = n
    <3>1. Existing' = Existing \cup {n}
      BY <2>1, <2>2, <2>5 DEF Existing
    <3>2. Existing' = 1..(Latest + 1)
      BY <1>1, <3>1, BatchConstants DEF n
    <3>3. Cardinality(1..(Latest + 1)) = Latest + 1
      BY <1>1, FS_Interval, BatchConstants
    <3> QED
      BY <3>1, <3>2, <3>3 DEF Latest, n
  <2>7. \A c \in Batches : FinalOK(batch[c], vOrder[c], vFills[c])'
    <3>1. UNCHANGED <<vOrder, vFills>>
      BY <1>5 DEF EntryIntent, ibkr
    <3>2. FinalOK(q, vOrder[n], vFills[n])
      BY <2>2 DEF FinalOK, TerminalZq
    <3>3. \A c \in Batches : FinalOK(batch[c], vOrder[c], vFills[c])
      BY DEF Safe
    <3> QED
      BY <2>5, <3>1, <3>2, <3>3
  <2>8. IntentOK'
    BY <2>2, <2>5, <2>6 DEF IntentOK
  <2>9. \A c \in Existing : Over(c)
    BY <1>5 DEF EntryIntent, Safe, OverOK
  <2>10. OverOK'
    BY <1>5, <2>1, <2>5, <2>6, <2>9 DEF EntryIntent, OverOK, Over, ibkr, Existing
  <2>11. DoneOK'
    <3>1. fresh' = FALSE /\ entryFresh' = entryFresh
      BY <1>5 DEF EntryIntent
    <3>2. entryFresh => \A c \in Existing : HedgesDone(c)
      BY <1>5 DEF EntryIntent, Safe, DoneOK
    <3>3. \A c \in {n} : HedgesDone(c)'
      BY <2>2, <2>5, <2>1 DEF HedgesDone
    <3>4. \A c \in Existing : HedgesDone(c) => HedgesDone(c)'
      BY <2>1, <2>5 DEF HedgesDone, Existing
    <3> QED
      BY <2>6, <3>1, <3>2, <3>3, <3>4 DEF DoneOK
  <2> QED
    BY <2>7, <2>8, <2>10, <2>11 DEF Safe
<1>6. ASSUME EntrySend PROVE Safe'
  <2>1. Latest \in Existing /\ Latest \in Batches
    BY <1>1, <1>6, BatchConstants DEF EntrySend, Safe, Inv, PhaseOK, Batches
  <2>2. /\ batch[Latest].state # "COMPLETE" /\ batch[Latest].zqStatus = "INTENT"
    BY <1>6 DEF EntrySend, Safe, IntentOK, Inv, PhaseOK
  <2>3. \A c \in Batches \ {Latest} : vOrder'[c] = vOrder[c]
    BY <1>6, <2>1 DEF EntrySend, Safe, Inv, TypeOK
  <2>4. \A c \in Batches : FinalOK(batch[c], vOrder[c], vFills[c])'
    BY <1>6, <2>2, <2>3 DEF EntrySend, Safe, FinalOK, TerminalZq
  <2>5. IntentOK' /\ OverOK'
    BY <1>6 DEF EntrySend, IntentOK, OverOK
  <2>6. DoneOK'
    BY <1>6 DEF EntrySend, Safe, DoneOK, HedgesDone, Existing
  <2> QED
    BY <2>4, <2>5, <2>6 DEF Safe
<1>7. ASSUME EntryAbandon PROVE Safe'
  <2>1. Latest \in Existing /\ Latest \in Batches
    BY <1>1, <1>7, BatchConstants DEF EntryAbandon, Safe, Inv, PhaseOK, Batches
  <2>2. RowOK(batch[Latest], "UNSENT", 0) /\ vOrder[Latest] = "UNSENT" /\ vFills[Latest] = 0
        /\ batch[Latest].zqStatus = "INTENT"
    BY <1>7, <2>1 DEF EntryAbandon, Safe, Inv, PhaseOK, RowOK
  <2> DEFINE q == [batch[Latest] EXCEPT !.state = "COMPLETE", !.zqStatus = "ABORTED"]
  <2>3. q.state = "COMPLETE" /\ q.zqStatus = "ABORTED" /\ q.hedge = batch[Latest].hedge
    BY <2>2 DEF RowOK, Rows
  <2>4. Executed(q) = Executed(batch[Latest])
    BY <2>3, ExecutedOfHedge
  <2>5. Executed(batch[Latest]) = {}
    BY <2>2 DEF RowOK
  <2>6. FinalOK(q, vOrder[Latest], vFills[Latest])
    BY <2>2, <2>3, <2>4, <2>5 DEF FinalOK, TerminalZq
  <2>7. batch' = [batch EXCEPT ![Latest] = q]
    BY <1>7, <2>1, <2>2 DEF EntryAbandon, Safe, Inv, TypeOK
  <2> HIDE DEF q
  <2> QED
    BY <1>7, <2>1, <2>3, <2>4, <2>5, <2>6, <2>7, RowSafe DEF EntryAbandon
<1>8. ASSUME EntryMark PROVE Safe'
  <2> DEFINE r == batch[Latest]
             q == Marked(r)
  <2>1. Latest \in Existing /\ Latest \in Batches
    BY <1>1, <1>8, BatchConstants DEF EntryMark, Safe, Inv, PhaseOK, Batches
  <2>2. RowOK(r, vOrder[Latest], vFills[Latest]) /\ r.state # "NONE"
        /\ FinalOK(r, vOrder[Latest], vFills[Latest])
    BY <2>1 DEF Safe, Inv, Existing
  <2>3. /\ q.hedge = r.hedge /\ q.reported = r.reported
        /\ q.state = IF r.state = "QUALIFIED" THEN "ZQ_SUBMITTED" ELSE r.state
        /\ q.zqStatus = IF r.zqStatus = "INTENT" THEN "SUBMITTED" ELSE r.zqStatus
    BY <2>2 DEF RowOK, Rows, Marked
  <2>4. Executed(q) = Executed(r)
    BY <2>3, ExecutedOfHedge
  <2>5. FinalOK(q, vOrder[Latest], vFills[Latest]) /\ q.state # "NONE"
        /\ Executed(q) \subseteq 1..vFills[Latest]
    BY <2>2, <2>3, <2>4 DEF FinalOK, RowOK, TerminalZq
  <2>6. batch' = [batch EXCEPT ![Latest] = q]
    BY <1>8 DEF EntryMark
  <2> HIDE DEF q
  <2> QED
    BY <1>8, <2>1, <2>3, <2>4, <2>5, <2>6, RowSafe DEF EntryMark
<1> QED
  BY <1>2, <1>3, <1>4, <1>5, <1>6, <1>7, <1>8 DEF CycleStep

\* The empty ledger.
LEMMA InitSafe == Init => Safe
<1> SUFFICES ASSUME Init PROVE Safe
  OBVIOUS
<1>1. FinalOK(NoBatch, "UNSENT", 0)
  BY DEF FinalOK, NoBatch, TerminalZq
<1>2. Existing = {}
  BY DEF Init, Existing, NoBatch
<1>3. \A b \in Batches : FinalOK(batch[b], vOrder[b], vFills[b])
  BY <1>1 DEF Init
<1> QED
  BY <1>2, <1>3, InitInv DEF Init, Safe, IntentOK, OverOK, DoneOK

\* Everything that happens to one batch besides.
LEMMA BatchSafe ==
  ASSUME Safe, Inv', ~CancelledOpenOrders, NEW b \in Batches, BatchStep(b)
  PROVE  Safe'
<1> DEFINE r == batch[b]
<1>0. RowOK(r, vOrder[b], vFills[b]) /\ FinalOK(r, vOrder[b], vFills[b])
      /\ (b \in Existing <=> r.state # "NONE")
  BY DEF Safe, Inv, Existing
<1>1. ASSUME IbkrFills(b) \/ IbkrEnds(b) PROVE Safe'
  <2>1. vOrder[b] = "LIVE" /\ UNCHANGED <<batch, coordinator>>
        /\ (\A c \in Batches \ {b} : vOrder'[c] = vOrder[c] /\ vFills'[c] = vFills[c])
    BY <1>1 DEF IbkrFills, IbkrEnds, Safe, Inv, TypeOK
  <2>2. r.state # "COMPLETE" /\ r.zqStatus \notin TerminalZq /\ ~Over(b)
    BY <1>0, <2>1 DEF FinalOK, Over, TerminalZq
  <2>3. \A c \in Batches : FinalOK(batch[c], vOrder[c], vFills[c])'
    BY <2>1, <2>2 DEF Safe, FinalOK
  <2>4. \A c \in Existing : Over(c) => Over(c)'
    BY <2>1, <2>2 DEF Over, Existing
  <2>5. Existing' = Existing /\ Latest' = Latest
    BY <2>1 DEF Existing, Latest
  <2>6. IntentOK' /\ DoneOK'
    BY <2>1, <2>5 DEF Safe, IntentOK, DoneOK, HedgesDone, coordinator
  <2>7. OverOK'
    BY <2>1, <2>4, <2>5 DEF Safe, OverOK, coordinator
  <2> QED
    BY <2>3, <2>6, <2>7 DEF Safe
<1>2. ASSUME CancelDecided(b) PROVE Safe'
  BY <1>2, QuietSafe DEF CancelDecided
<1>3. ASSUME CancelMarked(b) PROVE Safe'
  <2>1. b \in Existing /\ UNCHANGED <<pc, ibkr>>
    BY <1>3 DEF CancelMarked, Safe, Inv, PhaseOK
  <2>2. CASE r.state = "CANCEL_PENDING"
    BY <1>3, <2>2, QuietSafe DEF CancelMarked, SetBatchCancelPending
  <2>3. CASE r.state # "CANCEL_PENDING"
    <3> DEFINE q == [r EXCEPT !.state = "CANCEL_PENDING", !.cancelReason = TRUE]
    <3>1. /\ q.state = "CANCEL_PENDING" /\ q.zqStatus = r.zqStatus
          /\ q.hedge = r.hedge /\ q.reported = r.reported
      BY <1>0 DEF RowOK, Rows
    <3>2. Executed(q) = Executed(r)
      BY <3>1, ExecutedOfHedge
    <3>3. FinalOK(q, vOrder[b], vFills[b]) /\ Executed(q) \subseteq 1..vFills[b]
      BY <1>0, <3>1, <3>2 DEF FinalOK, RowOK
    <3>4. batch' = [batch EXCEPT ![b] = q] /\ fresh' = FALSE /\ entryFresh' = FALSE
      BY <1>3, <2>3 DEF CancelMarked, SetBatchCancelPending, LedgerWritten, Safe, Inv, TypeOK
    <3> HIDE DEF q
    <3> QED
      BY <2>1, <3>1, <3>2, <3>3, <3>4, RowSafe
  <2> QED
    BY <2>2, <2>3
<1>4. ASSUME OrderStatusCallback(b) PROVE Safe'
  <2>1. PICK m \in StatusReports(b) : UpdateZqOrderStatus(b, m[1], m[2])
    BY <1>4 DEF OrderStatusCallback
  <2>2. /\ m[1] \in {"SUBMITTED"} \cup ({vOrder[b]} \cap TerminalZq)
        /\ m[2] \in Unreported..vFills[b]
        /\ m[1] # "SUBMITTED" => m[2] = vFills[b]
    BY <1>0, BatchConstants DEF StatusReports, Unreported, RowOK
  <2> QED
    BY <1>4, <2>1, <2>2, StatusSafe DEF OrderStatusCallback
<1>5. ASSUME OpenOrderCallback(b) PROVE Safe'
  <2>1. PICK s \in {"SUBMITTED"} \cup ({vOrder[b]} \cap {"FILLED"}) :
           UpdateZqOrderStatus(b, s, Unreported)
    BY <1>5 DEF OpenOrderCallback
  <2>2. /\ s \in {"SUBMITTED"} \cup ({vOrder[b]} \cap TerminalZq)
        /\ s # "SUBMITTED" => s = "FILLED"
    BY <2>1 DEF TerminalZq
  <2>3. Unreported \in Unreported..vFills[b]
    BY <1>0, BatchConstants DEF Unreported, RowOK
  <2> QED
    BY <1>5, <2>1, <2>2, <2>3, StatusSafe DEF OpenOrderCallback
<1>6. ASSUME CompletedOrderCallback(b) PROVE Safe'
  <2>1. vOrder[b] \in TerminalZq /\ vOrder[b] # "UNSENT" /\ vFills[b] \in Unreported..vFills[b]
    BY <1>0, <1>6, BatchConstants DEF CompletedOrderCallback, TerminalZq, Unreported, RowOK
  <2> QED
    BY <1>6, <2>1, StatusSafe DEF CompletedOrderCallback
<1>7. ASSUME NEW k \in Fills, ExecutionCallback(b, k) PROVE Safe'
  <2>1. CASE b \notin Existing \/ k \in Executed(r)
    BY <1>7, <2>1, QuietSafe DEF ExecutionCallback, RecordIbkrExecution
  <2>2. CASE b \in Existing /\ k \notin Executed(r)
    <3> DEFINE q == ExecutionApplied(r, k)
    <3>1. q.state = "ZQ_PARTIAL" /\ q.hedge = [r.hedge EXCEPT ![k] = "DUE"]
      BY <1>0 DEF ExecutionApplied, RowOK, Rows
    <3>2. FinalOK(q, vOrder[b], vFills[b])
      BY <1>0, ExecutionFinal
    <3>3. RowOK(q, vOrder[b], vFills[b])
      BY <1>0, <1>7, <2>2, ExecutionRowOK DEF ExecutionCallback
    <3>4. Executed(r) \subseteq Executed(q) /\ Executed(q) \subseteq 1..vFills[b]
      BY <1>0, <3>1, <3>3 DEF Executed, RowOK, Rows
    <3>5. batch' = [batch EXCEPT ![b] = q] /\ fresh' = FALSE /\ entryFresh' = FALSE
          /\ UNCHANGED <<pc, ibkr>>
      BY <1>7, <2>2 DEF ExecutionCallback, RecordIbkrExecution, LedgerWritten
    <3>6. pc' = "final" /\ b = Latest => FALSE
      <4>1. 1..vFills[b] # {}
        BY <1>7, <1>0, BatchConstants DEF ExecutionCallback, RowOK, Fills
      <4> QED
        BY <1>0, <3>5, <4>1, BatchConstants DEF Safe, Inv, PhaseOK, RowOK
    <3>7. q.state # "NONE"
      BY <3>1
    <3> HIDE DEF q
    <3> QED
      BY <2>2, <3>2, <3>4, <3>5, <3>6, <3>7, RowSafe
  <2> QED
    BY <2>1, <2>2
<1>8. ASSUME NEW k \in Fills, HedgeProgress(b, k) \/ HedgeReopens(b, k) PROVE Safe'
  <2>1. PICK h \in HedgeStates \ {"NONE"} :
           batch' = [batch EXCEPT ![b] = HedgeApplied(@, k, h)]
    BY <1>8 DEF HedgeProgress, HedgeReopens, HedgeStates
  <2> DEFINE q == HedgeApplied(r, k, h)
  <2>2. k \in Executed(r)
    BY <1>8 DEF HedgeProgress, HedgeReopens, Executed
  <2>3. b \in Existing
    BY <1>0, <2>2 DEF RowOK, Executed, NoBatch
  <2>4. FinalOK(q, vOrder[b], vFills[b]) /\ Executed(q) = Executed(r)
        /\ RowOK(q, vOrder[b], vFills[b])
    BY <1>0, <2>2, <2>3, HedgeFinal, HedgeRowOK
  <2>5. pc' = pc /\ UNCHANGED ibkr /\ fresh' = FALSE /\ entryFresh' = FALSE
    BY <1>8 DEF HedgeProgress, HedgeReopens, LedgerWritten
  <2>6. pc = "final" /\ b = Latest => FALSE
    BY <1>0, <2>2 DEF Safe, Inv, PhaseOK, RowOK
  <2>7. batch' = [batch EXCEPT ![b] = q]
    BY <2>1
  <2> HIDE DEF q
  <2>8. q.state # "NONE" /\ Executed(q) \subseteq 1..vFills[b]
    BY <2>2, <2>4 DEF RowOK, NoBatch, Executed
  <2> QED
    BY <2>3, <2>4, <2>5, <2>6, <2>7, <2>8, RowSafe
<1> QED
  BY <1>1, <1>2, <1>3, <1>4, <1>5, <1>6, <1>7, <1>8 DEF BatchStep

\* Safe is inductive when an openOrder callback does not say Cancelled.
THEOREM SafeStep ==
  ASSUME ~CancelledOpenOrders
  PROVE  Safe /\ [Next]_vars => Safe'
<1> SUFFICES ASSUME Safe, [Next]_vars PROVE Safe'
  OBVIOUS
<1>0. Inv'
  BY InvStep DEF Safe
<1>1. ASSUME CycleStep PROVE Safe'
  BY <1>0, <1>1, CycleSafe
<1>2. ASSUME NEW b \in Batches, BatchStep(b) PROVE Safe'
  BY <1>0, <1>2, BatchSafe
<1>3. ASSUME SetArmed PROVE Safe'
  BY <1>0, <1>3, QuietSafe DEF SetArmed
<1>4. ASSUME Reconcile PROVE Safe'
  <2>1. ASSUME NEW b \in Existing PROVE HedgesDone(b)
    <3>1. batch[b] \in Rows
      BY <2>1 DEF Safe, Inv, TypeOK, Rows, Existing
    <3> QED
      BY <1>4, <2>1, <3>1 DEF Reconcile, HedgesDone, Executed
  <2> QED
    BY <1>0, <1>4, <2>1, QuietSafe DEF Reconcile
<1>5. ASSUME Restart PROVE Safe'
  <2>1. \A b \in Batches : batch'[b] = IF b \in Existing THEN Refreshed(batch[b]) ELSE batch[b]
    BY <1>5 DEF Restart
  <2>2. ASSUME NEW b \in Batches PROVE FinalOK(batch[b], vOrder[b], vFills[b])'
    <3>1. RowOK(batch[b], vOrder[b], vFills[b]) /\ FinalOK(batch[b], vOrder[b], vFills[b])
      BY DEF Safe, Inv
    <3>2. FinalOK(Refreshed(batch[b]), vOrder[b], vFills[b])
      BY <3>1, RefreshedFinal DEF RowOK
    <3> QED
      BY <1>5, <2>1, <3>1, <3>2 DEF Restart, ibkr
  <2>3. IntentOK' /\ OverOK' /\ DoneOK'
    BY <1>5 DEF Restart, IntentOK, OverOK, DoneOK
  <2> QED
    BY <1>0, <2>2, <2>3 DEF Safe
<1>6. CASE UNCHANGED vars
  BY <1>0, <1>6, QuietSafe DEF vars, coordinator
<1> QED
  BY <1>1, <1>2, <1>3, <1>4, <1>5, <1>6 DEF Next

-----------------------------------------------------------------------------
(* Theorems *)

\* A batch shown as COMPLETE is over at IBKR, all its fills are recorded and
\* each is hedged in full; an abandoned one was never sent.
THEOREM CompleteBatchesAreSettled ==
  ASSUME ~CancelledOpenOrders
  PROVE  Spec => []CompleteIsSettled
<1>1. Safe => CompleteIsSettled
  <2> SUFFICES ASSUME Safe, NEW b \in Batches, batch[b].state = "COMPLETE"
               PROVE  Settled(b) /\ (batch[b].zqStatus = "ABORTED" <=> vOrder[b] = "UNSENT")
    BY DEF CompleteIsSettled
  <2>1. RowOK(batch[b], vOrder[b], vFills[b]) /\ FinalOK(batch[b], vOrder[b], vFills[b])
    BY DEF Safe, Inv
  <2>2. Cardinality(1..vFills[b]) = vFills[b]
    BY <2>1, FillCount, BatchConstants DEF RowOK
  <2>3. \A k \in Executed(batch[b]) : batch[b].hedge[k] = "DONE"
    BY <2>1 DEF RowOK, Rows, HedgeStates, Executed
  <2> QED
    BY <2>1, <2>2, <2>3 DEF FinalOK, Settled
<1>2. Safe /\ [Next]_vars => Safe'
  BY SafeStep
<1> QED
  BY <1>1, <1>2, InitSafe, PTL DEF Spec

\* Whatever happened between the cycle's read of the active batch and its
\* send, every earlier order is over and hedged at the send.
THEOREM EntriesFollowSettledBatches ==
  ASSUME ~CancelledOpenOrders
  PROVE  Spec => EntryOnlyWhenSettled
<1> DEFINE SentLast == \A b \in Batches : vOrder[b] = "UNSENT" /\ vOrder'[b] = "LIVE" =>
                          \A c \in Existing \ {b} : Settled(c)
<1>1. Safe /\ [Next]_vars => [SentLast]_vars
  <2> SUFFICES ASSUME Safe, Next, NEW b \in Batches, vOrder[b] = "UNSENT", vOrder'[b] = "LIVE",
                      NEW c \in Existing \ {b}
               PROVE  Settled(c)
    OBVIOUS
  <2>0. vOrder \in [Batches -> VenueOrders]
    BY DEF Safe, Inv, TypeOK, VenueOrders
  <2>1. ASSUME NEW d \in Batches, BatchStep(d) PROVE FALSE
    <3>1. \/ UNCHANGED vOrder
          \/ vOrder[d] = "LIVE" /\ \A e \in Batches \ {d} : vOrder'[e] = vOrder[e]
      BY <2>0, <2>1 DEF BatchStep, IbkrFills, IbkrEnds, CancelDecided, CancelMarked,
         OrderStatusCallback, OpenOrderCallback, CompletedOrderCallback, ExecutionCallback,
         HedgeProgress, HedgeReopens, ibkr
    <3> QED
      BY <3>1
  <2>2. EntrySend
    BY <2>1 DEF Next, CycleStep, CycleRead, EntryStart, EntryDeclines, EntryIntent, EntryAbandon,
                EntryMark, SetArmed, Reconcile, Restart, ibkr
  <2>3. b = Latest
    BY <2>0, <2>2 DEF EntrySend
  <2>4. Over(c) /\ HedgesDone(c)
    BY <2>2, <2>3 DEF EntrySend, FinalAuthorization, Safe, OverOK, DoneOK
  <2>5. vFills[c] \in 0..Qty /\ c \in Batches
    BY DEF Safe, Inv, RowOK, Existing
  <2>6. Cardinality(1..vFills[c]) = vFills[c]
    BY <2>5, FillCount, BatchConstants
  <2> QED
    BY <2>4, <2>6 DEF Over, HedgesDone, Settled, Executed
<1>2. Safe /\ [Next]_vars => Safe'
  BY SafeStep
<1>3. Spec => [][SentLast]_vars
  BY <1>1, <1>2, InitSafe, PTL DEF Spec
<1> QED
  BY <1>3 DEF EntryOnlyWhenSettled

-----------------------------------------------------------------------------
(* The rows, the cycle and the callbacks implement ZqTrading.  Safe is      *)
(* enough: what is left is to say which step trades.                        *)

DoneFills(b) == {k \in Fills : batch[b].hedge[k] = "DONE"}

\* The abstract trade of each batch.
Traded == [b \in Batches |-> [order |-> Phase(b), exposed |-> Exposed(b),
                              complete |-> batch[b].state = "COMPLETE"]]

LEMMA TradedFields ==
  \A b \in Batches : /\ Traded[b].order = Phase(b)
                     /\ Traded[b].exposed = Exposed(b)
                     /\ Traded[b].complete <=> batch[b].state = "COMPLETE"
BY DEF Traded

TradedNow == /\ \A b \in Batches : /\ Exposed(b) \in Int /\ Exposed(b) <= Qty
                                   /\ IsFiniteSet(DoneFills(b))
                                   /\ Exposed(b) = vFills[b] - Cardinality(DoneFills(b))
             /\ \A b \in Batches : batch[b].state = "COMPLETE" =>
                   Phase(b) = "abandoned" \/ (Phase(b) = "over" /\ Exposed(b) = 0)

\* What is recorded and hedged for good is exposed no more.
LEMMA NothingExposed ==
  ASSUME Inv, NEW b \in Batches, Executed(batch[b]) = 1..vFills[b], HedgesDone(b)
  PROVE  Exposed(b) = 0
<1>1. RowOK(batch[b], vOrder[b], vFills[b])
  BY DEF Inv
<1>2. DoneFills(b) = 1..vFills[b]
  BY <1>1, BatchConstants DEF DoneFills, Executed, HedgesDone, Fills, RowOK
<1>3. Cardinality(1..vFills[b]) = vFills[b] /\ vFills[b] \in Nat
  BY <1>1, FillCount, BatchConstants DEF RowOK
<1>4. Exposed(b) = vFills[b] - Cardinality(DoneFills(b))
  BY DEF Exposed, DoneFills
<1> QED
  BY <1>2, <1>3, <1>4

LEMMA TradedHonest == Safe => TradedNow
<1> SUFFICES ASSUME Safe PROVE TradedNow
  OBVIOUS
<1>1. ASSUME NEW b \in Batches
      PROVE  /\ Exposed(b) \in Int /\ Exposed(b) <= Qty /\ IsFiniteSet(DoneFills(b))
             /\ Exposed(b) = vFills[b] - Cardinality(DoneFills(b))
  <2>1. vFills[b] \in 0..Qty
    BY DEF Safe, Inv, RowOK
  <2>2. IsFiniteSet(Fills) /\ DoneFills(b) \subseteq Fills
    BY FillCount, BatchConstants DEF Fills, DoneFills
  <2>3. IsFiniteSet(DoneFills(b)) /\ Cardinality(DoneFills(b)) \in Nat
    BY <2>2, FS_Subset, FS_CardinalityType
  <2> QED
    BY <2>1, <2>3, BatchConstants DEF Exposed, DoneFills
<1>2. ASSUME NEW b \in Batches, batch[b].state = "COMPLETE"
      PROVE  Phase(b) = "abandoned" \/ (Phase(b) = "over" /\ Exposed(b) = 0)
  <2>1. RowOK(batch[b], vOrder[b], vFills[b]) /\ FinalOK(batch[b], vOrder[b], vFills[b])
    BY DEF Safe, Inv
  <2>2. HedgesDone(b)
    BY <1>2, <2>1 DEF RowOK, Rows, HedgeStates, HedgesDone
  <2>3. Exposed(b) = 0
    BY <1>2, <2>1, <2>2, NothingExposed DEF FinalOK, Safe
  <2>4. vOrder[b] # "LIVE" /\ (batch[b].zqStatus = "ABORTED" <=> vOrder[b] = "UNSENT")
    BY <1>2, <2>1 DEF FinalOK
  <2> QED
    BY <2>1, <2>3, <2>4 DEF Phase, RowOK, VenueOrders, TerminalZq
<1> QED
  BY <1>1, <1>2 DEF TradedNow

LEMMA TradedHonestNext == Safe' => TradedNow'
BY TradedHonest, PTL

SameTrade(b) == Phase(b)' = Phase(b) /\ Exposed(b)' = Exposed(b)

\* The steps of one batch in the abstract trading.
Trades(b) ==
  \/ /\ Phase(b) = "unsent" /\ Phase(b)' = "live" /\ Exposed(b)' = Exposed(b)
     /\ \A c \in Batches : Phase(c) # "live" /\ Exposed(c) = 0
  \/ Phase(b) = "unsent" /\ Phase(b)' = "abandoned" /\ Exposed(b)' = Exposed(b)
  \/ /\ Phase(b) = "live" /\ Phase(b)' \in {"live", "over"}
     /\ Exposed(b)' = Exposed(b) + 1
  \/ Phase(b) = "live" /\ Phase(b)' = "over" /\ Exposed(b)' = Exposed(b)
  \/ /\ Phase(b) \in {"live", "over"} /\ Phase(b)' = Phase(b)
     /\ Exposed(b) \in {Exposed(b)' - 1, Exposed(b)' + 1} /\ Exposed(b)' <= Qty

\* A batch trades only through its order at IBKR, a finished hedge or the end
\* of an intent that was not sent.
LEMMA SameTradeOf ==
  ASSUME NEW b \in Batches, vOrder'[b] = vOrder[b], vFills'[b] = vFills[b],
         \A k \in Fills : batch'[b].hedge[k] = "DONE" <=> batch[b].hedge[k] = "DONE",
         vOrder[b] = "UNSENT" =>
            (batch'[b].zqStatus = "ABORTED" <=> batch[b].zqStatus = "ABORTED")
  PROVE  SameTrade(b)
<1>1. Phase(b)' = Phase(b)
  BY DEF Phase
<1>2. {k \in Fills : batch[b].hedge[k] = "DONE"}' = {k \in Fills : batch[b].hedge[k] = "DONE"}
  OBVIOUS
<1> QED
  BY <1>1, <1>2 DEF SameTrade, Exposed

\* A step that writes no row and leaves IBKR alone.
LEMMA QuietTrade ==
  ASSUME UNCHANGED <<batch, ibkr>>
  PROVE  \A b \in Batches : SameTrade(b)
BY SameTradeOf DEF ibkr

\* A step that writes one row.
LEMMA RowTrade ==
  ASSUME Safe, NEW b \in Batches, NEW q, batch' = [batch EXCEPT ![b] = q], UNCHANGED ibkr
  PROVE  /\ \A c \in Batches \ {b} : SameTrade(c)
         /\ \/ \E k \in Fills : ~(q.hedge[k] = "DONE" <=> batch[b].hedge[k] = "DONE")
            \/ vOrder[b] = "UNSENT" /\ ~(q.zqStatus = "ABORTED" <=> batch[b].zqStatus = "ABORTED")
            \/ SameTrade(b)
<1>1. batch'[b] = q /\ \A c \in Batches \ {b} : batch'[c] = batch[c]
  BY DEF Safe, Inv, TypeOK
<1>2. vOrder' = vOrder /\ vFills' = vFills
  BY DEF ibkr
<1> QED
  BY <1>1, <1>2, SameTradeOf

\* Each hedge counts for one contract.
LEMMA HedgeTrade ==
  ASSUME Safe, Safe', NEW b \in Batches, NEW k \in Executed(batch[b]),
         NEW h \in HedgeStates \ {"NONE"},
         batch' = [batch EXCEPT ![b] = HedgeApplied(@, k, h)], UNCHANGED ibkr
  PROVE  (SameTrade(b) \/ Trades(b)) /\ \A c \in Batches \ {b} : SameTrade(c)
<1> DEFINE r == batch[b]
           q == HedgeApplied(r, k, h)
<1>0. /\ RowOK(r, vOrder[b], vFills[b]) /\ TradedNow /\ TradedNow'
      /\ batch \in [Batches -> Rows]
  BY TradedHonest, TradedHonestNext DEF Safe, Inv, TypeOK, Rows
<1>1. q.hedge = [r.hedge EXCEPT ![k] = h] /\ k \in Fills
  <2> DEFINE p == [r EXCEPT !.hedge[k] = h]
  <2>1. p \in Rows /\ p.hedge = [r.hedge EXCEPT ![k] = h]
    BY <1>0 DEF RowOK, Rows, Executed
  <2>2. Refreshed(p).hedge = p.hedge
    BY <2>1, RefreshedRow
  <2> QED
    BY <2>1, <2>2 DEF HedgeApplied, Executed
<1>2. batch'[b] = q
  BY <1>0
<1> HIDE DEF q
<1>3. vOrder[b] \in {"LIVE", "FILLED", "CANCELLED"} /\ vOrder' = vOrder /\ vFills' = vFills
  BY <1>0, BatchConstants DEF RowOK, VenueOrders, ibkr
<1>4. Phase(b) \in {"live", "over"} /\ Phase(b)' = Phase(b)
  BY <1>3 DEF Phase, TerminalZq
<1>5. \/ DoneFills(b)' = DoneFills(b)
      \/ DoneFills(b)' = DoneFills(b) \cup {k} /\ k \notin DoneFills(b)
      \/ DoneFills(b)' = DoneFills(b) \ {k} /\ k \in DoneFills(b)
  <2>1. \A j \in Fills : batch'[b].hedge[j] = IF j = k THEN h ELSE batch[b].hedge[j]
    BY <1>0, <1>1, <1>2 DEF RowOK, Rows
  <2>2. CASE h = "DONE"
    BY <1>1, <2>1, <2>2 DEF DoneFills
  <2>3. CASE h # "DONE"
    BY <1>1, <2>1, <2>3 DEF DoneFills
  <2> QED
    BY <2>2, <2>3
<1>6. /\ vFills[b] \in Int /\ Cardinality(DoneFills(b)) \in Nat
      /\ Exposed(b) = vFills[b] - Cardinality(DoneFills(b))
      /\ Exposed(b)' = vFills[b] - Cardinality(DoneFills(b)')
  BY <1>0, <1>3, FS_CardinalityType DEF RowOK, TradedNow
<1>7. \/ Cardinality(DoneFills(b)') = Cardinality(DoneFills(b))
      \/ Cardinality(DoneFills(b)') = Cardinality(DoneFills(b)) + 1
      \/ Cardinality(DoneFills(b)') = Cardinality(DoneFills(b)) - 1
  BY <1>0, <1>5, FS_AddElement, FS_RemoveElement DEF TradedNow
<1>8. Exposed(b)' = Exposed(b) \/ Exposed(b) \in {Exposed(b)' - 1, Exposed(b)' + 1}
  BY <1>6, <1>7
<1>9. Exposed(b)' <= Qty
  BY <1>0 DEF TradedNow
<1> QED
  BY <1>4, <1>8, <1>9, RowTrade DEF SameTrade, Trades

\* Every step is a step of one batch, or of none.
LEMMA StepTrades ==
  ASSUME Safe, Safe', [Next]_vars
  PROVE  \A b \in Batches : SameTrade(b)
            \/ (Trades(b) /\ \A c \in Batches \ {b} : SameTrade(c))
<1>0. /\ TradedNow /\ TradedNow' /\ Inv /\ TypeOK
      /\ \A b \in Batches : RowOK(batch[b], vOrder[b], vFills[b])
      /\ Latest \in 0..MaxBatches /\ Existing = 1..Latest
      /\ Qty \in Nat /\ MaxBatches \in Nat
  BY TradedHonest, TradedHonestNext, LatestNumber, BatchConstants DEF Safe, Inv
<1> SUFFICES \/ \A b \in Batches : SameTrade(b)
             \/ \E b \in Batches : (SameTrade(b) \/ Trades(b))
                                   /\ \A c \in Batches \ {b} : SameTrade(c)
  OBVIOUS
<1>1. CASE CycleRead \/ EntryStart \/ EntryDeclines \/ SetArmed \/ Reconcile \/ UNCHANGED vars
  BY <1>1, QuietTrade DEF CycleRead, EntryStart, EntryDeclines, SetArmed, Reconcile, vars
<1>2. CASE EntryIntent
  <2> DEFINE n == Latest + 1
             q == [NoBatch EXCEPT !.state = "QUALIFIED"]
  <2>1. n \in Batches /\ n \notin Existing
    BY <1>0, <1>2 DEF EntryIntent, Batches
  <2>2. batch[n] = NoBatch /\ q.hedge = NoBatch.hedge /\ q.zqStatus = NoBatch.zqStatus
    BY <1>0, <2>1 DEF Existing, RowOK, NoBatch
  <2>3. batch' = [batch EXCEPT ![n] = q] /\ UNCHANGED ibkr
    BY <1>2 DEF EntryIntent
  <2> HIDE DEF n, q
  <2> QED
    BY <2>1, <2>2, <2>3, RowTrade, ZenonT(60)
<1>3. CASE EntrySend
  <2>1. PICK n \in Batches : n = Latest
    BY <1>0, <1>3 DEF EntrySend, Inv, PhaseOK, Batches
  <2>2. /\ n \in Existing /\ vOrder[n] = "UNSENT" /\ batch[n].zqStatus = "INTENT"
        /\ batch' = batch /\ vFills' = vFills
        /\ vOrder' = [vOrder EXCEPT ![n] = "LIVE"] \/ vOrder' = vOrder
    BY <1>0, <1>3, <2>1 DEF EntrySend, Inv, PhaseOK, Batches
  <2>3. CASE vOrder' = vOrder
    BY <2>2, <2>3, QuietTrade DEF ibkr
  <2>4. CASE vOrder' = [vOrder EXCEPT ![n] = "LIVE"]
    <3>1. vOrder'[n] = "LIVE" /\ \A c \in Batches \ {n} : vOrder'[c] = vOrder[c]
      BY <1>0, <2>4 DEF TypeOK
    <3>2. \A c \in Batches \ {n} : SameTrade(c)
      BY <2>2, <3>1, SameTradeOf
    <3>3. Phase(n) = "unsent" /\ Phase(n)' = "live"
      BY <2>2, <3>1 DEF Phase, TerminalZq
    <3>4. Exposed(n)' = Exposed(n)
      BY <2>2 DEF Exposed
    <3>5. ASSUME NEW c \in Batches PROVE Phase(c) # "live" /\ Exposed(c) = 0
      <4>1. CASE c \in Existing \ {n}
        <5>1. Over(c) /\ HedgesDone(c)
          BY <1>3, <2>1, <4>1 DEF EntrySend, FinalAuthorization, Safe, OverOK, DoneOK
        <5>2. vOrder[c] # "LIVE" /\ Exposed(c) = 0
          BY <1>0, <5>1, NothingExposed DEF Over
        <5> QED
          BY <5>2 DEF Phase
      <4>2. CASE c \notin Existing \/ c = n
        <5>1. vOrder[c] = "UNSENT" /\ vFills[c] = 0 /\ Executed(batch[c]) = {}
          BY <1>0, <2>2, <4>2 DEF Existing, RowOK
        <5>2. HedgesDone(c) /\ Executed(batch[c]) = 1..vFills[c]
          BY <5>1 DEF HedgesDone, Executed
        <5>3. Exposed(c) = 0
          BY <1>0, <5>2, NothingExposed
        <5> QED
          BY <5>1, <5>3 DEF Phase, TerminalZq
      <4> QED
        BY <4>1, <4>2
    <3>6. Trades(n)
      BY <3>3, <3>4, <3>5 DEF Trades
    <3> QED
      BY <3>2, <3>6
  <2> QED
    BY <2>2, <2>3, <2>4
<1>4. CASE EntryAbandon
  <2>1. PICK n \in Batches : n = Latest
    BY <1>0, <1>4 DEF EntryAbandon, Inv, PhaseOK, Batches
  <2> DEFINE q == [batch[n] EXCEPT !.state = "COMPLETE", !.zqStatus = "ABORTED"]
  <2>2. /\ vOrder[n] = "UNSENT" /\ batch[n].zqStatus = "INTENT" /\ UNCHANGED ibkr
        /\ q.hedge = batch[n].hedge /\ q.zqStatus = "ABORTED"
        /\ batch' = [batch EXCEPT ![n] = q]
    BY <1>0, <1>4, <2>1 DEF EntryAbandon, Inv, PhaseOK, RowOK, Rows
  <2>3. batch'[n] = q
    BY <1>0, <2>2 DEF TypeOK
  <2> HIDE DEF q
  <2>4. Phase(n) = "unsent" /\ Phase(n)' = "abandoned"
    BY <2>2, <2>3 DEF Phase, TerminalZq, ibkr
  <2>5. Exposed(n)' = Exposed(n)
    BY <2>2, <2>3 DEF Exposed, ibkr
  <2>6. Trades(n)
    BY <2>4, <2>5 DEF Trades
  <2> QED
    BY <2>2, <2>6, RowTrade
<1>5. CASE EntryMark
  <2>1. PICK n \in Batches : n = Latest
    BY <1>0, <1>5 DEF EntryMark, Inv, PhaseOK, Batches
  <2> DEFINE q == Marked(batch[n])
  <2>2. /\ q.hedge = batch[n].hedge /\ (q.zqStatus = "ABORTED" <=> batch[n].zqStatus = "ABORTED")
        /\ batch' = [batch EXCEPT ![n] = q] /\ UNCHANGED ibkr
    BY <1>0, <1>5, <2>1 DEF EntryMark, RowOK, Rows, Marked
  <2> HIDE DEF q
  <2> QED
    BY <2>2, RowTrade
<1>6. ASSUME NEW b \in Batches, IbkrFills(b)
      PROVE  Trades(b) /\ \A c \in Batches \ {b} : SameTrade(c)
  <2>1. /\ vOrder[b] = "LIVE" /\ batch' = batch /\ vFills'[b] = vFills[b] + 1
        /\ vOrder'[b] \in {"LIVE", "FILLED"}
        /\ \A c \in Batches \ {b} : vOrder'[c] = vOrder[c] /\ vFills'[c] = vFills[c]
    BY <1>0, <1>6 DEF IbkrFills, TypeOK
  <2>2. Phase(b) = "live" /\ Phase(b)' \in {"live", "over"}
    BY <2>1 DEF Phase, TerminalZq
  <2>3. Exposed(b)' = Exposed(b) + 1
    <3>1. DoneFills(b)' = DoneFills(b)
      BY <2>1 DEF DoneFills
    <3>2. /\ vFills[b] \in Int /\ Cardinality(DoneFills(b)) \in Nat
          /\ Exposed(b) = vFills[b] - Cardinality(DoneFills(b))
          /\ Exposed(b)' = vFills'[b] - Cardinality(DoneFills(b)')
      BY <1>0, FS_CardinalityType DEF RowOK, TradedNow
    <3> QED
      BY <2>1, <3>1, <3>2
  <2>4. \A c \in Batches \ {b} : SameTrade(c)
    BY <2>1, SameTradeOf
  <2> QED
    BY <2>2, <2>3, <2>4 DEF Trades
<1>7. ASSUME NEW b \in Batches, IbkrEnds(b)
      PROVE  Trades(b) /\ \A c \in Batches \ {b} : SameTrade(c)
  <2>1. /\ vOrder[b] = "LIVE" /\ batch' = batch /\ vFills' = vFills
        /\ vOrder'[b] = "CANCELLED" /\ \A c \in Batches \ {b} : vOrder'[c] = vOrder[c]
    BY <1>0, <1>7 DEF IbkrEnds, TypeOK
  <2>2. Phase(b) = "live" /\ Phase(b)' = "over"
    BY <2>1 DEF Phase, TerminalZq
  <2>3. Exposed(b)' = Exposed(b)
    BY <2>1 DEF Exposed
  <2>4. \A c \in Batches \ {b} : SameTrade(c)
    BY <2>1, SameTradeOf
  <2> QED
    BY <2>2, <2>3, <2>4 DEF Trades
<1>8. ASSUME NEW b \in Batches, CancelDecided(b) \/ CancelMarked(b)
      PROVE  \A c \in Batches : SameTrade(c)
  <2>1. CASE batch' = batch
    BY <1>8, <2>1, QuietTrade DEF CancelDecided, CancelMarked
  <2>2. CASE batch' # batch
    <3> DEFINE q == [batch[b] EXCEPT !.state = "CANCEL_PENDING", !.cancelReason = TRUE]
    <3>1. batch' = [batch EXCEPT ![b] = q] /\ UNCHANGED ibkr
      BY <1>0, <1>8, <2>2 DEF CancelDecided, CancelMarked, SetBatchCancelPending, TypeOK
    <3>2. q.hedge = batch[b].hedge /\ q.zqStatus = batch[b].zqStatus
      BY <1>0 DEF RowOK, Rows
    <3> HIDE DEF q
    <3> QED
      BY <3>1, <3>2, RowTrade, ZenonT(60)
  <2> QED
    BY <2>1, <2>2
<1>9. ASSUME NEW b \in Batches, vOrder[b] # "UNSENT", NEW s, NEW f,
             UpdateZqOrderStatus(b, s, f), UNCHANGED ibkr
      PROVE  \A c \in Batches : SameTrade(c)
  <2>1. CASE batch' = batch
    BY <1>9, <2>1, QuietTrade
  <2>2. CASE batch' # batch
    <3> DEFINE n == IF s = "FILLED" /\ f = Unreported THEN Qty ELSE f
               p == [batch[b] EXCEPT !.zqStatus = s, !.reported = Larger(@, n)]
               q == StatusApplied(batch[b], s, f)
    <3>1. batch' = [batch EXCEPT ![b] = q]
      BY <1>9, <2>2 DEF UpdateZqOrderStatus
    <3>2. p.hedge = batch[b].hedge
      BY <1>0 DEF RowOK, Rows
    <3>3. Refreshed(p).hedge = p.hedge
      <4> HIDE DEF p
      <4> QED
        BY <3>2, <1>0 DEF Refreshed, RowOK, Rows
    <3>4. q.hedge = batch[b].hedge
      BY <3>2, <3>3 DEF StatusApplied
    <3> HIDE DEF n, p, q
    <3> QED
      BY <1>9, <3>1, <3>4, RowTrade
  <2> QED
    BY <2>1, <2>2
<1>10. ASSUME NEW b \in Batches,
              OrderStatusCallback(b) \/ OpenOrderCallback(b) \/ CompletedOrderCallback(b)
       PROVE  \A c \in Batches : SameTrade(c)
  BY <1>9, <1>10 DEF OrderStatusCallback, OpenOrderCallback, CompletedOrderCallback, TerminalZq
<1>11. ASSUME NEW b \in Batches, NEW k \in Fills, ExecutionCallback(b, k)
       PROVE  \A c \in Batches : SameTrade(c)
  <2>1. CASE batch' = batch
    BY <1>11, <2>1, QuietTrade DEF ExecutionCallback
  <2>2. CASE batch' # batch
    <3> DEFINE q == ExecutionApplied(batch[b], k)
    <3>1. /\ batch' = [batch EXCEPT ![b] = q] /\ UNCHANGED ibkr
          /\ k \notin Executed(batch[b])
      BY <1>11, <2>2 DEF ExecutionCallback, RecordIbkrExecution
    <3>2. q.hedge = [batch[b].hedge EXCEPT ![k] = "DUE"] /\ q.zqStatus = batch[b].zqStatus
      BY <1>0 DEF ExecutionApplied, RowOK, Rows
    <3>3. \A j \in Fills : q.hedge[j] = "DONE" <=> batch[b].hedge[j] = "DONE"
      BY <1>0, <3>1, <3>2 DEF Executed, RowOK, Rows
    <3>4. q.zqStatus = batch[b].zqStatus
      BY <3>2
    <3> HIDE DEF q
    <3>5. /\ \A c \in Batches \ {b} : SameTrade(c)
          /\ \/ \E j \in Fills : ~(q.hedge[j] = "DONE" <=> batch[b].hedge[j] = "DONE")
             \/ vOrder[b] = "UNSENT" /\ ~(q.zqStatus = "ABORTED" <=> batch[b].zqStatus = "ABORTED")
             \/ SameTrade(b)
      BY <3>1, RowTrade
    <3>6. SameTrade(b)
      BY <3>3, <3>4, <3>5
    <3> QED
      BY <3>5, <3>6
  <2> QED
    BY <2>1, <2>2
<1>12. ASSUME NEW b \in Batches, NEW k \in Fills, HedgeProgress(b, k) \/ HedgeReopens(b, k)
       PROVE  (SameTrade(b) \/ Trades(b)) /\ \A c \in Batches \ {b} : SameTrade(c)
  <2>1. PICK h \in HedgeStates \ {"NONE"} :
           batch' = [batch EXCEPT ![b] = HedgeApplied(@, k, h)]
    BY <1>12 DEF HedgeProgress, HedgeReopens, HedgeStates
  <2>2. k \in Executed(batch[b]) /\ UNCHANGED ibkr
    BY <1>12 DEF HedgeProgress, HedgeReopens, Executed
  <2> QED
    BY <2>1, <2>2, HedgeTrade
<1>13. CASE Restart
  <2>1. \A b \in Batches : batch'[b] = Refreshed(batch[b]) \/ batch'[b] = batch[b]
    BY <1>13 DEF Restart
  <2>2. \A b \in Batches : batch'[b].hedge = batch[b].hedge /\ batch'[b].zqStatus = batch[b].zqStatus
    BY <1>0, <2>1, RefreshedRow DEF RowOK
  <2>3. \A b \in Batches : SameTrade(b)
    BY <1>13, <2>2, SameTradeOf DEF Restart, ibkr
  <2> QED
    BY <2>3
<1>14. ASSUME NEW b \in Batches, BatchStep(b)
       PROVE  (SameTrade(b) \/ Trades(b)) /\ \A c \in Batches \ {b} : SameTrade(c)
  BY <1>6, <1>7, <1>8, <1>10, <1>11, <1>12, <1>14 DEF BatchStep
<1> QED
  BY <1>1, <1>2, <1>3, <1>4, <1>5, <1>13, <1>14 DEF Next, CycleStep

LEMMA TradedFieldsNext ==
  (\A b \in Batches : /\ Traded[b].order = Phase(b)
                      /\ Traded[b].exposed = Exposed(b)
                      /\ Traded[b].complete <=> batch[b].state = "COMPLETE")'
BY TradedFields, PTL

\* When an openOrder callback does not say Cancelled, the rows, the cycle and
\* the callbacks together do, for every number of batches, contracts and
\* restarts, what the entry promises: one order at a time, sent when nothing
\* is exposed, and complete shown only of a batch that is.
THEOREM BatchesImplementTrading ==
  ASSUME ~CancelledOpenOrders
  PROVE  Spec => ImplementsTrading
<1>1. Init => Promise!Init
  <2> SUFFICES ASSUME Init PROVE Promise!Init
    OBVIOUS
  <2>1. ASSUME NEW b \in Batches
        PROVE  Phase(b) = "unsent" /\ Exposed(b) = 0 /\ (batch[b].state = "COMPLETE" <=> FALSE)
    <3>1. vOrder[b] = "UNSENT" /\ vFills[b] = 0 /\ batch[b] = NoBatch
      BY DEF Init
    <3>2. {k \in Fills : batch[b].hedge[k] = "DONE"} = {}
      BY <3>1 DEF NoBatch
    <3>3. Exposed(b) = 0
      BY <3>1, <3>2, FS_EmptySet DEF Exposed
    <3> QED
      BY <3>1, <3>3 DEF Phase, TerminalZq, NoBatch
  <2> QED
    BY <2>1 DEF Promise!Init
<1>2. Safe /\ Safe' /\ [Next]_vars => [Promise!Next]_Traded
  <2> SUFFICES ASSUME Safe, Safe', [Next]_vars, Traded' # Traded PROVE Promise!Next
    OBVIOUS
  <2>1. TradedNow'
    BY TradedHonestNext
  <2>2. \A b \in Batches : SameTrade(b)
            \/ (Trades(b) /\ \A c \in Batches \ {b} : SameTrade(c))
    BY StepTrades
  <2>3. \A b \in Batches : Promise!Same(Traded[b], Traded'[b]) <=> SameTrade(b)
    BY TradedFields, TradedFieldsNext DEF Promise!Same, SameTrade
  <2>4. \A b \in Batches : Promise!Honest(Traded'[b])
    BY <2>1, TradedFieldsNext DEF Promise!Honest, TradedNow
  <2>5. \A b \in Batches : Trades(b) =>
           \/ Promise!Send(Traded, Traded', b) \/ Promise!GiveUp(Traded[b], Traded'[b])
           \/ Promise!Fill(Traded[b], Traded'[b]) \/ Promise!End(Traded[b], Traded'[b])
           \/ Promise!Hedge(Traded[b], Traded'[b])
    BY TradedFields, TradedFieldsNext
       DEF Trades, Promise!Send, Promise!Quiet, Promise!GiveUp, Promise!Fill, Promise!End,
           Promise!Hedge
  <2> QED
    BY <2>2, <2>3, <2>4, <2>5 DEF Promise!Next, Traded
<1>3. Safe /\ [Next]_vars => Safe'
  BY SafeStep
<1> QED
  BY <1>1, <1>2, <1>3, InitSafe, PTL DEF Spec, ImplementsTrading, Promise!Spec, Traded
=============================================================================
