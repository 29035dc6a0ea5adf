------------------------------ MODULE ZqBatch ------------------------------
(***************************************************************************)
(* The ZQ entry: the durable batches and their IBKR orders                 *)
(* (persistence/repository.py), the coordinator's cycle that opens them    *)
(* and the callbacks and cancellations that move them                      *)
(* (execution/coordinator.py), and IBKR itself.                            *)
(*                                                                         *)
(* A batch is one BUY order of Qty contracts.  A fill is one contract, and *)
(* fill k of a batch is the execution whose execId is "k"; the transaction *)
(* that records it also creates its hedge obligation, so hedge[k] # "NONE" *)
(* says that fill k is recorded.  What becomes of an obligation is the     *)
(* subject of HedgeLedger; here it is the part the batch looks at:         *)
(*   "DUE"      no share of it is settled,                                 *)
(*   "PART"     some share is settled, not exactly what is owed,           *)
(*   "COVERED"  settled in full, but an order of it is unresolved,         *)
(*   "DONE"     settled in full, and no order can add to it.               *)
(*                                                                         *)
(* Callbacks are delivered late, repeated and in any order.                *)
(***************************************************************************)
EXTENDS Integers, FiniteSets

CONSTANTS
    MaxBatches,           \* bound on the batches ever opened
    Qty,                  \* contracts of an order
    MaxFaults,            \* bound on restarts, lost sends and reopened hedges
    CancelledOpenOrders   \* TRUE: an openOrder callback may say Cancelled

ASSUME BatchConstants ==
    /\ MaxBatches \in Nat \ {0}
    /\ Qty \in Nat \ {0}
    /\ MaxFaults \in Nat
    /\ CancelledOpenOrders \in BOOLEAN

VARIABLES
    batch,       \* durable: the batch row with its IBKR order row
    cancelling,  \* batches some task has decided to cancel, not yet marked
    pc,          \* the cycle: its point of control
    entryFresh,  \* no ledger write since the entry noted the revision
    fresh,       \* no ledger write since the last clean reconciliation
    clean,       \* the published reconciliation result
    armed,       \* armed, neither paused nor halted
    vOrder,      \* IBKR: the order of each batch
    vFills,      \* IBKR: contracts filled
    faults

coordinator == <<cancelling, pc, entryFresh, fresh, clean, armed>>
ibkr == <<vOrder, vFills>>
vars == <<batch, coordinator, ibkr, faults>>

Batches == 1..MaxBatches
Fills   == 1..Qty

BatchStates == {"NONE", "QUALIFIED", "ZQ_SUBMITTED", "ZQ_PARTIAL", "POLY_HEDGE_PENDING",
                "PARTIALLY_HEDGED", "HEDGED", "CANCEL_PENDING", "COMPLETE"}
TerminalZq   == {"FILLED", "CANCELLED"}
IbkrTerminal == TerminalZq \cup {"ABORTED"}
ZqStatuses   == IbkrTerminal \cup {"INTENT", "SUBMITTED"}
HedgeStates  == {"NONE", "DUE", "PART", "COVERED", "DONE"}

Unreported == -1      \* no callback has counted the fills yet

NoBatch == [state |-> "NONE", zqStatus |-> "INTENT", cancelReason |-> FALSE,
            reported |-> Unreported, hedge |-> [k \in Fills |-> "NONE"]]

Existing == {b \in Batches : batch[b].state # "NONE"}
Latest == Cardinality(Existing)     \* batches are numbered as they are opened

-----------------------------------------------------------------------------
(* The batch row *)

Executed(r) == {k \in Fills : r.hedge[k] # "NONE"}

Hedged(r) ==
    /\ Executed(r) # {}
    /\ \A k \in Executed(r) : r.hedge[k] \in {"COVERED", "DONE"}

\* Mutants: a terminal status is taken for the end of the fills; the count is
\* off by one.
CaughtUpByStatus(r) == TRUE
CaughtUpStrictly(r) == r.reported # Unreported /\ Cardinality(Executed(r)) > r.reported

ExecutionsCaughtUp(r) == r.reported # Unreported /\ Cardinality(Executed(r)) >= r.reported

Finished(r) ==
    /\ r.zqStatus \in TerminalZq
    /\ ExecutionsCaughtUp(r)
    /\ Hedged(r) \/ (r.reported = 0 /\ Executed(r) = {})
    /\ \A k \in Fills : r.hedge[k] # "COVERED"

\* _refresh_batch_state
Refreshed(r) ==
    [r EXCEPT !.state =
        IF Finished(r) THEN "COMPLETE"
        ELSE IF r.cancelReason THEN "CANCEL_PENDING"
        ELSE IF Hedged(r) THEN "HEDGED"
        ELSE IF \E k \in Fills : r.hedge[k] \in {"PART", "COVERED", "DONE"}
             THEN "PARTIALLY_HEDGED"
        ELSE IF Executed(r) # {} THEN "POLY_HEDGE_PENDING"
        ELSE @]

Larger(a, b) == IF a >= b THEN a ELSE b

\* Mutant: the status is stored as the callback spells it.
StatusVerbatim(r, s, f) ==
    Refreshed([r EXCEPT !.zqStatus = IF s = "FILLED" THEN "Filled" ELSE s,
                        !.reported = Larger(@, f)])

\* update_zq_order_status with the count f of filled contracts, Unreported
\* when the callback has none.
StatusApplied(r, s, f) ==
    Refreshed([r EXCEPT !.zqStatus = s,
                        !.reported = Larger(@, IF s = "FILLED" /\ f = Unreported THEN Qty ELSE f)])

\* Mutant: the callback's status is always taken.
NeverIgnored(r, s) == FALSE

\* A working status never reopens a terminal order.
StatusIgnored(r, s) == r.zqStatus \in IbkrTerminal /\ s \notin IbkrTerminal

\* A transaction that changed the ledger moves its revision.
LedgerWritten == fresh' = FALSE /\ entryFresh' = FALSE

UpdateZqOrderStatus(b, s, f) ==
    IF b \notin Existing \/ StatusIgnored(batch[b], s)
    THEN UNCHANGED <<batch, fresh, entryFresh>>
    ELSE batch' = [batch EXCEPT ![b] = StatusApplied(@, s, f)] /\ LedgerWritten

\* Mutant: the fill is stored and the batch is left as it was.
ExecutedQuietly(r, k) == [r EXCEPT !.hedge[k] = "DUE"]

ExecutionApplied(r, k) == [r EXCEPT !.hedge[k] = "DUE", !.state = "ZQ_PARTIAL"]

\* record_ibkr_execution_and_obligations: unknown order and known execId are
\* ignored.
RecordIbkrExecution(b, k) ==
    IF b \notin Existing \/ k \in Executed(batch[b])
    THEN UNCHANGED <<batch, fresh, entryFresh>>
    ELSE batch' = [batch EXCEPT ![b] = ExecutionApplied(@, k)] /\ LedgerWritten

\* set_batch_cancel_pending
SetBatchCancelPending(b) ==
    IF batch[b].state = "CANCEL_PENDING"
    THEN UNCHANGED <<batch, fresh, entryFresh>>
    ELSE /\ batch' = [batch EXCEPT ![b].state = "CANCEL_PENDING", ![b].cancelReason = TRUE]
         /\ LedgerWritten

-----------------------------------------------------------------------------
(* IBKR (external): an order fills one contract at a time until it is full *)
(* or is ended by a cancel, a rejection or the end of the day.             *)

IbkrFills(b) ==
    /\ vOrder[b] = "LIVE"
    /\ vFills' = [vFills EXCEPT ![b] = @ + 1]
    /\ vOrder' = [vOrder EXCEPT ![b] = IF vFills[b] + 1 = Qty THEN "FILLED" ELSE @]
    /\ UNCHANGED <<batch, coordinator, faults>>

IbkrEnds(b) ==
    /\ vOrder[b] = "LIVE"
    /\ vOrder' = [vOrder EXCEPT ![b] = "CANCELLED"]
    /\ UNCHANGED <<batch, coordinator, vFills, faults>>

\* What order_status says at some time of the order's life.
StatusReports(b) ==
    {<<"SUBMITTED", f>> : f \in 0..vFills[b]}
      \cup (IF vOrder[b] \in TerminalZq THEN {<<vOrder[b], vFills[b]>>} ELSE {})

-----------------------------------------------------------------------------
(* The cycle: one task, so one entry at a time.  The batch being opened is *)
(* the latest one.                                                         *)

\* The active batch is read; with none, the entry is considered later.
CycleRead ==
    /\ pc = "idle"
    /\ \A b \in Existing : batch[b].state = "COMPLETE"
    /\ pc' = "route"
    /\ UNCHANGED <<batch, cancelling, entryFresh, fresh, clean, armed, ibkr, faults>>

\* Entry authorized on the last clean reconciliation: the ledger revision is
\* noted, and the venue preflight awaited.
EntryStart ==
    /\ pc = "route"
    /\ armed /\ clean /\ fresh
    /\ entryFresh' = TRUE
    /\ pc' = "preflight"
    /\ UNCHANGED <<batch, cancelling, fresh, clean, armed, ibkr, faults>>

\* Not authorized, no opportunity, preflight refused, or the quote moved.
EntryDeclines ==
    /\ pc \in {"route", "preflight"}
    /\ pc' = "idle" /\ entryFresh' = FALSE
    /\ UNCHANGED <<batch, cancelling, fresh, clean, armed, ibkr, faults>>

\* create_zq_batch_intent, the write the noted revision allows for.
EntryIntent ==
    /\ pc = "preflight"
    /\ Latest < MaxBatches
    /\ batch' = [batch EXCEPT ![Latest + 1] = [NoBatch EXCEPT !.state = "QUALIFIED"]]
    /\ fresh' = FALSE
    /\ pc' = "final"
    /\ UNCHANGED <<cancelling, entryFresh, clean, armed, ibkr, faults>>

\* Mutant: the ledger revision is not compared.
AuthorizedByState == armed /\ clean

FinalAuthorization == armed /\ clean /\ entryFresh

\* The final check and placeOrder, with no await between; the send may be
\* lost on a connection that is already gone.
EntrySend ==
    /\ pc = "final"
    /\ FinalAuthorization
    /\ \/ /\ vOrder' = [vOrder EXCEPT ![Latest] = "LIVE"]
          /\ UNCHANGED faults
       \/ /\ faults < MaxFaults /\ faults' = faults + 1
          /\ UNCHANGED vOrder
    /\ clean' = FALSE
    /\ pc' = "mark" /\ entryFresh' = FALSE
    /\ UNCHANGED <<batch, cancelling, fresh, armed, vFills>>

\* abandon_zq_intent: authorization, snapshot or callback stream changed.
EntryAbandon ==
    /\ pc = "final"
    /\ batch' = [batch EXCEPT ![Latest] =
                    IF @.zqStatus = "INTENT"
                    THEN [@ EXCEPT !.state = "COMPLETE", !.zqStatus = "ABORTED"]
                    ELSE @]
    /\ fresh' = FALSE
    /\ pc' = "idle" /\ entryFresh' = FALSE
    /\ UNCHANGED <<cancelling, clean, armed, ibkr, faults>>

\* mark_zq_submitted
Marked(r) == [r EXCEPT !.state = IF @ = "QUALIFIED" THEN "ZQ_SUBMITTED" ELSE @,
                       !.zqStatus = IF @ = "INTENT" THEN "SUBMITTED" ELSE @]

EntryMark ==
    /\ pc = "mark"
    /\ batch' = [batch EXCEPT ![Latest] = Marked(@)]
    /\ fresh' = FALSE
    /\ pc' = "idle"
    /\ UNCHANGED <<cancelling, entryFresh, clean, armed, ibkr, faults>>

-----------------------------------------------------------------------------
(* The other actors *)

\* A halt, a pause, the operator or the residual check decides, on what it
\* has read, to cancel: cancel_working_zq any order that is not terminal,
\* the others any batch that is active...
CancelDecided(b) ==
    /\ b \in Existing \ cancelling
    /\ batch[b].zqStatus \notin IbkrTerminal \/ batch[b].state # "COMPLETE"
    /\ cancelling' = cancelling \cup {b}
    /\ UNCHANGED <<batch, pc, entryFresh, fresh, clean, armed, ibkr, faults>>

\* ...then sends cancelOrder and marks the batch, whatever it has become.
\* IBKR may end the order at any time, so the call itself changes nothing here.
CancelMarked(b) ==
    /\ b \in cancelling
    /\ cancelling' = cancelling \ {b}
    /\ SetBatchCancelPending(b)
    /\ UNCHANGED <<pc, clean, armed, ibkr, faults>>

\* The operator or a safety pause changes the authorization.
SetArmed ==
    /\ armed' = ~armed
    /\ UNCHANGED <<batch, cancelling, pc, entryFresh, fresh, clean, ibkr, faults>>

\* A callback invalidates the reconciliation and updates the order.
OrderStatusCallback(b) ==
    /\ vOrder[b] # "UNSENT"
    /\ \E m \in StatusReports(b) : UpdateZqOrderStatus(b, m[1], m[2])
    /\ clean' = FALSE
    /\ UNCHANGED <<cancelling, pc, armed, ibkr, faults>>

\* openOrder carries a status and no count.
OpenOrderCallback(b) ==
    /\ vOrder[b] # "UNSENT"
    /\ \E s \in {"SUBMITTED"}
                  \cup ({vOrder[b]} \cap (IF CancelledOpenOrders THEN TerminalZq ELSE {"FILLED"})) :
          UpdateZqOrderStatus(b, s, Unreported)
    /\ clean' = FALSE
    /\ UNCHANGED <<cancelling, pc, armed, ibkr, faults>>

\* completedOrder, read at every account refresh.
CompletedOrderCallback(b) ==
    /\ vOrder[b] \in TerminalZq
    /\ UpdateZqOrderStatus(b, vOrder[b], vFills[b])
    /\ clean' = FALSE
    /\ UNCHANGED <<cancelling, pc, armed, ibkr, faults>>

ExecutionCallback(b, k) ==
    /\ k <= vFills[b]
    /\ RecordIbkrExecution(b, k)
    /\ clean' = FALSE
    /\ UNCHANGED <<cancelling, pc, armed, ibkr, faults>>

HedgeApplied(r, k, h) == Refreshed([r EXCEPT !.hedge[k] = h])

\* A hedge transaction (HedgeLedger's RefreshHedge) changes what the batch
\* sees of an obligation.  Taking back what was settled is a fault: the venue
\* contradicted itself.
HedgeProgress(b, k) ==
    /\ batch[b].hedge[k] \in {"DUE", "PART", "COVERED"}
    /\ \E h \in {"PART", "COVERED", "DONE"} \ {batch[b].hedge[k]} :
          /\ batch[b].hedge[k] = "COVERED" => h = "DONE"
          /\ batch' = [batch EXCEPT ![b] = HedgeApplied(@, k, h)]
    /\ LedgerWritten
    /\ UNCHANGED <<cancelling, pc, clean, armed, ibkr, faults>>

HedgeReopens(b, k) ==
    /\ faults < MaxFaults /\ faults' = faults + 1
    /\ batch[b].hedge[k] \in {"PART", "COVERED", "DONE"}
    /\ \E h \in {"DUE", "PART", "COVERED"} \ {batch[b].hedge[k]} :
          batch' = [batch EXCEPT ![b] = HedgeApplied(@, k, h)]
    /\ LedgerWritten
    /\ UNCHANGED <<cancelling, pc, clean, armed, ibkr>>

\* A reconciliation that finds no difference.  It holds the transaction lock.
\* Whether the snapshots it compares are complete and recent is not modelled:
\* it may find the ledger clean whenever the ledger alone does not forbid it.
Reconcile ==
    /\ \A b \in Existing :
          /\ \A k \in Executed(batch[b]) : batch[b].hedge[k] = "DONE"
          /\ batch[b].reported <= Cardinality(Executed(batch[b]))
          /\ Cardinality(Executed(batch[b])) = Qty => batch[b].zqStatus \in IbkrTerminal
    /\ clean' = TRUE /\ fresh' = TRUE
    /\ UNCHANGED <<batch, cancelling, pc, entryFresh, armed, ibkr, faults>>

\* The process stops; the next one recovers before anything else runs.
Restart ==
    /\ faults < MaxFaults /\ faults' = faults + 1
    /\ batch' = [b \in Batches |-> IF b \in Existing THEN Refreshed(batch[b]) ELSE batch[b]]
    /\ cancelling' = {} /\ pc' = "idle" /\ entryFresh' = FALSE
    /\ fresh' = FALSE /\ clean' = FALSE /\ armed' = FALSE
    /\ UNCHANGED ibkr

-----------------------------------------------------------------------------
Init ==
    /\ batch = [b \in Batches |-> NoBatch]
    /\ cancelling = {} /\ pc = "idle"
    /\ entryFresh = FALSE /\ fresh = FALSE /\ clean = FALSE /\ armed = FALSE
    /\ vOrder = [b \in Batches |-> "UNSENT"]
    /\ vFills = [b \in Batches |-> 0]
    /\ faults = 0

CycleStep == CycleRead \/ EntryStart \/ EntryDeclines \/ EntryIntent \/ EntrySend
             \/ EntryAbandon \/ EntryMark

BatchStep(b) ==
    \/ IbkrFills(b) \/ IbkrEnds(b)
    \/ CancelDecided(b) \/ CancelMarked(b)
    \/ OrderStatusCallback(b) \/ OpenOrderCallback(b) \/ CompletedOrderCallback(b)
    \/ \E k \in Fills : ExecutionCallback(b, k) \/ HedgeProgress(b, k) \/ HedgeReopens(b, k)

Next == CycleStep \/ (\E b \in Batches : BatchStep(b)) \/ SetArmed \/ Reconcile \/ Restart

Spec == Init /\ [][Next]_vars

\* Every order ends (it is a DAY order); account refreshes re-read executions
\* and completed orders; a decided cancel is marked; every hedge is eventually
\* settled (HedgeLedger, and a market to buy from).
Fairness ==
    /\ WF_vars(EntryMark)
    /\ \A b \in Batches :
          /\ WF_vars(IbkrFills(b) \/ IbkrEnds(b))
          /\ WF_vars(CompletedOrderCallback(b)) /\ WF_vars(CancelMarked(b))
          /\ \A k \in Fills : WF_vars(ExecutionCallback(b, k)) /\ WF_vars(HedgeProgress(b, k))

FairSpec == Spec /\ Fairness

-----------------------------------------------------------------------------
(* Properties *)

TypeOK ==
    /\ batch \in [Batches -> [state : BatchStates, zqStatus : ZqStatuses,
                              cancelReason : BOOLEAN, reported : Unreported..Qty,
                              hedge : [Fills -> HedgeStates]]]
    /\ cancelling \subseteq Batches
    /\ pc \in {"idle", "route", "preflight", "final", "mark"}
    /\ entryFresh \in BOOLEAN /\ fresh \in BOOLEAN /\ clean \in BOOLEAN /\ armed \in BOOLEAN
    /\ vOrder \in [Batches -> {"UNSENT", "LIVE", "FILLED", "CANCELLED"}]
    /\ vFills \in [Batches -> 0..Qty]
    /\ faults \in 0..MaxFaults

\* The order is over at IBKR (or was never sent), each of its fills is in the
\* ledger, and each is hedged.
Settled(b) ==
    /\ vOrder[b] # "LIVE"
    /\ Cardinality(Executed(batch[b])) = vFills[b]
    /\ \A k \in Executed(batch[b]) : batch[b].hedge[k] = "DONE"

\* Whatever the order in which statuses, executions, hedge settlements, late
\* cancellations and restarts arrive, a batch shown as COMPLETE is over at
\* IBKR and hedged to the last contract, and an abandoned one was never sent.
CompleteIsSettled ==
    \A b \in Batches : batch[b].state = "COMPLETE" =>
        /\ Settled(b)
        /\ batch[b].zqStatus = "ABORTED" <=> vOrder[b] = "UNSENT"

\* A fill whose hedge is not finished keeps its batch active, even a fill
\* reported after the batch completed or a hedge taken back long after: the
\* cached state of the batch never hides it.
UnhedgedFillIsActive ==
    \A b \in Batches : \A k \in Fills :
        batch[b].hedge[k] \in {"DUE", "PART", "COVERED"} => batch[b].state # "COMPLETE"

\* A new order is sent only when every earlier order is over and hedged to the
\* last contract, although the cycle looked for an active batch several awaits
\* earlier and callbacks, hedges and cancellations went on in between.
EntryOnlyWhenSettled ==
    [][\A b \in Batches : vOrder[b] = "UNSENT" /\ vOrder'[b] = "LIVE" =>
          \A c \in Existing \ {b} : Settled(c)]_vars

\* A status callback that arrives late never makes an order that ended look
\* like a working one.
TerminalStatusStays ==
    [][\A b \in Batches : batch[b].zqStatus \in IbkrTerminal =>
          batch'[b].zqStatus = batch[b].zqStatus]_vars

\* Every order that was sent ends in a complete batch, and a batch reopened by
\* a late fill, a failed settlement or a late cancellation completes again.
SentBatchesComplete ==
    \A b \in Batches :
        vOrder[b] # "UNSENT" /\ batch[b].state # "COMPLETE" ~> batch[b].state = "COMPLETE"

\* docs/event-pipeline-remedy.md:35 "If authorization changed, the unsent
\* intent becomes ABORTED and its batch becomes COMPLETE; it cannot leave a
\* phantom active batch."
AbandonedStaysComplete ==
    \A b \in Batches : batch[b].zqStatus = "ABORTED" => batch[b].state = "COMPLETE"
=============================================================================
