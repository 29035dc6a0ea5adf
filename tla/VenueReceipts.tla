---------------------------- MODULE VenueReceipts ----------------------------
(***************************************************************************)
(* The journal of venue receipts (persistence/hedge_ledger.py) and the two *)
(* handlers that write it (execution/coordinator.py): a report of a fill   *)
(* is saved under the hash of its payload, the fill is recorded, and the   *)
(* receipt is finished, in three transactions between which the process    *)
(* may stop.  What stays unfinished blocks reconciliation.                 *)
(*                                                                         *)
(* Both handlers hold the coordinator's lock.  An IBKR execution is        *)
(* reported live and by every account read, whose request id is part of    *)
(* the payload; a Polymarket trade is reported once per status, and every  *)
(* account read repeats its current one.  Left out: opening inventory,     *)
(* identity conflicts, what recording does (HedgeLedger, ZqBatch).         *)
(***************************************************************************)
EXTENDS Naturals

CONSTANTS
    Trades,      \* Polymarket trades that may be reported, of {"own", "mixed", "foreign"}
    Fills,       \* IBKR executions, of {"fill", "other"}
    MaxReads,    \* bound on IBKR account reads
    MaxFaults    \* bound on crashes and lost live reports

VARIABLES
    journal,   \* receipts saved, receipts finished
    recorded,  \* executions and trades in the ledger, as the handlers know them
    work,      \* the handler under way: its payload and its next transaction
    queue,     \* payloads waiting for the handlers, in memory; in any order
    venue,     \* status of each trade, fills made; 0 before
    reads,
    faults

vars == <<journal, recorded, work, queue, venue, reads, faults>>

\* mixed: one leg is an own order's, a maker order of the wallet is unknown.
Statuses == 1..2    \* MATCHED, CONFIRMED

Report(of, tag) == [of |-> of, tag |-> tag]
Mapped(p) == p.of \in {"own", "mixed", "fill"}

\* Mutant: one own leg is enough to finish a receipt.
AnyLegMapped(p) == Mapped(p)

FullyMapped(p) == p.of \in {"own", "fill"}
Idle == [step |-> "idle"]

Pending == journal.saved \ journal.finished

-----------------------------------------------------------------------------
(* _handle_ibkr_execution, _handle_polymarket_trade *)

Take ==
    /\ work = Idle
    /\ \E p \in queue :
          /\ work' = [step |-> "save", payload |-> p]
          /\ queue' = queue \ {p}
    /\ UNCHANGED <<journal, recorded, venue, reads, faults>>

SaveVenueReceipt ==
    /\ work.step = "save"
    /\ journal' = [journal EXCEPT !.saved = @ \cup {work.payload}]
    /\ work' = IF Mapped(work.payload) THEN [work EXCEPT !.step = "record"] ELSE Idle
    /\ UNCHANGED <<recorded, queue, venue, reads, faults>>

Record ==
    /\ work.step = "record"
    /\ recorded' = recorded \cup {work.payload.of}
    /\ work' = IF FullyMapped(work.payload) THEN [work EXCEPT !.step = "finish"] ELSE Idle
    /\ UNCHANGED <<journal, queue, venue, reads, faults>>

FinishVenueReceipt ==
    /\ work.step = "finish"
    /\ journal' = [journal EXCEPT !.finished = @ \cup {work.payload}]
    /\ work' = Idle
    /\ UNCHANGED <<recorded, queue, venue, reads, faults>>

-----------------------------------------------------------------------------
(* The venues (external) *)

\* A live report may be lost on its way.
Live(p) ==
    \/ queue' = queue \cup {p} /\ UNCHANGED faults
    \/ faults < MaxFaults /\ faults' = faults + 1 /\ UNCHANGED queue

IbkrFills(f) ==
    /\ venue[f] = 0
    /\ venue' = [venue EXCEPT ![f] = 1]
    /\ Live(Report(f, 0))
    /\ UNCHANGED <<journal, recorded, work, reads>>

TradeMoves(t) ==
    /\ venue[t] < 2
    /\ venue' = [venue EXCEPT ![t] = @ + 1]
    /\ Live(Report(t, venue[t] + 1))
    /\ UNCHANGED <<journal, recorded, work, reads>>

-----------------------------------------------------------------------------
(* Account reads *)

IbkrRead ==
    /\ reads < MaxReads
    /\ reads' = reads + 1
    /\ queue' = queue \cup {Report(f, reads + 1) : f \in {g \in Fills : venue[g] > 0}}
    /\ UNCHANGED <<journal, recorded, work, venue, faults>>

\* Mutant: only what the venue repeats is handled again.
HistoryOnly ==
    {Report(t, venue[t]) : t \in {u \in Trades : venue[u] > 0}}

\* The trade history, then the receipts still pending, which the venue may
\* never repeat in that form.
Repeated ==
    {Report(t, venue[t]) : t \in {u \in Trades : venue[u] > 0}}
      \cup {p \in Pending : p.of \in Trades}

ReconcilePolymarketAccount ==
    /\ work = Idle /\ queue = {}
    /\ queue' = Repeated
    /\ UNCHANGED <<journal, recorded, work, venue, reads, faults>>

\* Restarts with an empty memory; request ids count on.
Crash ==
    /\ faults < MaxFaults /\ faults' = faults + 1
    /\ work' = Idle /\ queue' = {}
    /\ UNCHANGED <<journal, recorded, venue, reads>>

-----------------------------------------------------------------------------
Init ==
    /\ journal = [saved |-> {}, finished |-> {}]
    /\ recorded = {}
    /\ work = Idle /\ queue = {}
    /\ venue = [x \in Trades \cup Fills |-> 0]
    /\ reads = 0 /\ faults = 0

Next ==
    \/ Take \/ SaveVenueReceipt \/ Record \/ FinishVenueReceipt
    \/ \E f \in Fills : IbkrFills(f)
    \/ \E t \in Trades : TradeMoves(t)
    \/ IbkrRead \/ ReconcilePolymarketAccount \/ Crash

Spec == Init /\ [][Next]_vars

\* The account is read again and again, and the handlers run.
Fairness ==
    /\ WF_vars(Take) /\ WF_vars(SaveVenueReceipt) /\ WF_vars(Record)
    /\ WF_vars(FinishVenueReceipt) /\ WF_vars(ReconcilePolymarketAccount)

Payloads == [of : Trades \cup Fills, tag : 0..(MaxReads + 2)]

TypeOK ==
    /\ journal \in [saved : SUBSET Payloads, finished : SUBSET Payloads]
    /\ journal.finished \subseteq journal.saved
    /\ recorded \subseteq Trades \cup Fills
    /\ queue \subseteq Payloads

\* Whatever is finished or was never mapped is what it seems: a finished
\* receipt's fill is in the ledger, and a report that names an order the
\* ledger does not know stays pending and blocks, across crashes.
FinishedIsRecorded ==
    /\ \A p \in journal.finished : p.of \in recorded /\ FullyMapped(p)
    /\ \A p \in journal.saved : p.of \in {"foreign", "mixed", "other"} => p \in Pending

\* A crash between saving, recording and finishing never leaves the report of
\* an own trade blocking for good, also when the venue shows it no more.
TradesFinish ==
    \A s \in Statuses :
        Report("own", s) \in Pending ~> Report("own", s) \in journal.finished

=============================================================================
