---------------------------- MODULE EngineShutdown ----------------------------
(***************************************************************************)
(* The way of an IBKR callback from the network thread through the bounded *)
(* ingress and the shared queue into the ledger (adapters/ibkr.py,         *)
(* services/engine.py), and the shutdown that may call itself reconciled   *)
(* only when nothing is left on that way (engine.stop, shutdown_ready).    *)
(*                                                                         *)
(* One order and its fills.  The ledger is read by shutdown in sessions of *)
(* its own, without the coordinator's lock, while events are handled and   *)
(* hedges settle.  What makes a reconciliation clean beyond the hedges is  *)
(* IBKR's evidence (module Reconciliation), here a free choice.  Left out: *)
(* ticks of retired subscriptions, the inspecting run modes.               *)
(***************************************************************************)
EXTENDS Naturals, Sequences, FiniteSets

CONSTANTS
    Fills,       \* fills IBKR may report
    Capacity,    \* of the ingress and of the shared queue
    MaxFaults    \* bound on lost connections and other events of the queue

VARIABLES
    ingress,    \* _ingress
    drain,      \* scheduled flag, calls that cannot be cancelled, the latest handle
    stopped,    \* the adapter's _stopped
    overflow,   \* event_queue_overflowed
    events,     \* the shared queue
    handling,   \* the consumer: the event it holds, and how far it is
    ledger,     \* the order is over, fills recorded and hedged, revision
    recon,      \* reconciliation.clean, _last_ledger_revision
    stop,       \* the shutdown's point of control
    emitted,    \* history: callbacks the adapter was called with
    dropped,    \* history: callbacks a disconnect cleared
    faults

vars == <<ingress, drain, stopped, overflow, events, handling, ledger, recon, stop,
          emitted, dropped, faults>>

Callbacks == Fills \cup {"over"}
Other == "market"
Idle == [event |-> Other, step |-> "idle"]
Running == stop \notin {"ready", "late"}
Unchanged == UNCHANGED <<ledger, recon, stop, faults>>

-----------------------------------------------------------------------------
(* The network thread *)

\* Mutant: the callback that finds the ingress full is dropped quietly.
AdmitQuietly(e) ==
    IF Len(ingress) >= Capacity THEN UNCHANGED <<ingress, drain, overflow>>
    ELSE /\ ingress' = Append(ingress, e)
         /\ drain' = IF drain.scheduled THEN drain
                     ELSE [drain EXCEPT !.scheduled = TRUE, !.soon = @ + 1]
         /\ UNCHANGED overflow

\* Mutant: the limit is off by one.
AdmitPastLimit(e) ==
    IF Len(ingress) > Capacity THEN overflow' = TRUE /\ UNCHANGED <<ingress, drain>>
    ELSE /\ ingress' = Append(ingress, e)
         /\ drain' = IF drain.scheduled THEN drain
                     ELSE [drain EXCEPT !.scheduled = TRUE, !.soon = @ + 1]
         /\ UNCHANGED overflow

Admit(e) ==
    IF Len(ingress) >= Capacity THEN overflow' = TRUE /\ UNCHANGED <<ingress, drain>>
    ELSE /\ ingress' = Append(ingress, e)
         /\ drain' = IF drain.scheduled THEN drain
                     ELSE [drain EXCEPT !.scheduled = TRUE, !.soon = @ + 1]
         /\ UNCHANGED overflow

EmitCallback(e) ==
    /\ e \notin emitted /\ ~stopped
    /\ Admit(e)
    /\ emitted' = emitted \cup {e}
    /\ UNCHANGED <<stopped, events, handling, dropped>> /\ Unchanged

-----------------------------------------------------------------------------
(* The event loop: draining, the consumer, other producers *)

\* A drain that leaves something behind schedules another, and only the
\* latest of these can be cancelled.
Drained(d, left) ==
    IF left = <<>> THEN [d EXCEPT !.scheduled = FALSE]
    ELSE [d EXCEPT !.handle = TRUE, !.soon = IF d.handle THEN @ + 1 ELSE @]

\* One run moves one callback where the code moves up to 64.
DrainRuns(d) ==
    /\ IF stopped
       THEN /\ ingress' = <<>> /\ drain' = [d EXCEPT !.scheduled = FALSE]
            /\ UNCHANGED events
       ELSE LET moved == IF ingress = <<>> \/ Len(events) >= Capacity
                         THEN <<>> ELSE <<Head(ingress)>>
                left == SubSeq(ingress, Len(moved) + 1, Len(ingress))
            IN /\ events' = events \o moved
               /\ ingress' = left
               /\ drain' = Drained(d, left)
    /\ UNCHANGED <<stopped, overflow, handling, emitted, dropped>> /\ Unchanged

DrainIngress ==
    \/ drain.soon > 0 /\ DrainRuns([drain EXCEPT !.soon = @ - 1])
    \/ drain.handle /\ DrainRuns([drain EXCEPT !.handle = FALSE])

PutOther ==
    /\ Running /\ Len(events) < Capacity
    /\ faults < MaxFaults /\ faults' = faults + 1
    /\ events' = Append(events, Other)
    /\ UNCHANGED <<ingress, drain, stopped, overflow, handling, ledger, recon, stop,
                   emitted, dropped>>

TakeEvent ==
    /\ Running /\ handling.step = "idle" /\ events # <<>>
    /\ handling' = [event |-> Head(events), step |-> "taken"]
    /\ events' = Tail(events)
    /\ UNCHANGED <<ingress, drain, stopped, overflow, emitted, dropped>> /\ Unchanged

\* invalidate_reconciliation, before the ledger is written.
BeginEvent ==
    /\ Running /\ handling.step = "taken"
    /\ handling' = [handling EXCEPT !.step = "begun"]
    /\ recon' = IF handling.event = Other THEN recon ELSE [recon EXCEPT !.clean = FALSE]
    /\ UNCHANGED <<ingress, drain, stopped, overflow, events, ledger, stop,
                   emitted, dropped, faults>>

Reconciled(l) ==
    \E clean \in {FALSE, l.hedged = l.recorded} :
        recon' = [clean |-> clean, revision |-> IF clean THEN l.revision ELSE 0]

\* Written in a transaction of its own, or one that changes nothing.
Written(e) ==
    CASE e = "over"    -> [ledger EXCEPT !.over = TRUE, !.revision = @ + 1]
      [] e \in Fills   -> [ledger EXCEPT !.recorded = @ \cup {e}, !.revision = @ + 1]
      [] OTHER         -> ledger

FinishEvent ==
    /\ Running /\ handling.step = "begun"
    /\ handling' = Idle
    /\ ledger' = Written(handling.event)
    /\ IF handling.event = Other THEN UNCHANGED recon ELSE Reconciled(ledger')
    /\ UNCHANGED <<ingress, drain, stopped, overflow, events, stop, emitted, dropped, faults>>

\* The cycle of the coordinator, under its lock.
CycleReconciles ==
    /\ Running /\ handling.step # "begun"
    /\ Reconciled(ledger)
    /\ UNCHANGED <<ingress, drain, stopped, overflow, events, handling, ledger, stop,
                   emitted, dropped, faults>>

HedgeSettles ==
    /\ Running
    /\ \E f \in ledger.recorded \ ledger.hedged :
          ledger' = [ledger EXCEPT !.hedged = @ \cup {f}, !.revision = @ + 1]
    /\ UNCHANGED <<ingress, drain, stopped, overflow, events, handling, recon, stop,
                   emitted, dropped, faults>>

-----------------------------------------------------------------------------
(* The connection loop *)

\* Mutant: the scheduled flag outlives the drain that is cancelled.
DisconnectedStillScheduled ==
    /\ ingress' = <<>>
    /\ drain' = [drain EXCEPT !.handle = FALSE]

Disconnected ==
    /\ ingress' = <<>>
    /\ drain' = [drain EXCEPT !.handle = FALSE, !.scheduled = FALSE]

Disconnect ==
    /\ Running /\ ~stopped
    /\ faults < MaxFaults /\ faults' = faults + 1
    /\ stopped' = TRUE
    /\ Disconnected
    /\ dropped' = dropped \cup {ingress[i] : i \in 1..Len(ingress)}
    /\ UNCHANGED <<overflow, events, handling, ledger, recon, stop, emitted>>

Connect ==
    /\ Running /\ stopped
    /\ stopped' = FALSE
    /\ UNCHANGED <<ingress, drain, overflow, events, handling, emitted, dropped>> /\ Unchanged

-----------------------------------------------------------------------------
(* stop() and shutdown_ready(): the orders, then the hedges, then the rest *)

StopUnchanged ==
    UNCHANGED <<ingress, drain, stopped, overflow, events, handling, ledger, recon,
                emitted, dropped, faults>>

Halt == stop = "no" /\ stop' = "halted" /\ StopUnchanged

ReadOrders ==
    /\ stop = "halted"
    /\ stop' = IF ledger.over THEN "orders read" ELSE "halted"
    /\ StopUnchanged

ReadObligations ==
    /\ stop = "orders read"
    /\ stop' = IF ledger.hedged = ledger.recorded THEN "hedges read" ELSE "halted"
    /\ StopUnchanged

NothingLeft ==
    /\ events = <<>> /\ handling.step = "idle" /\ ingress = <<>> /\ ~overflow

Ready == recon.clean /\ recon.revision = ledger.revision /\ NothingLeft

DecideShutdown ==
    /\ stop = "hedges read"
    /\ stop' = IF Ready THEN "ready" ELSE "halted"
    /\ StopUnchanged

\* shutdown_drain_seconds are over; the tasks are cancelled all the same.
ShutdownTimesOut ==
    /\ stop \in {"halted", "orders read", "hedges read"}
    /\ stop' = "late"
    /\ StopUnchanged

-----------------------------------------------------------------------------
Init ==
    /\ ingress = <<>> /\ events = <<>>
    /\ drain = [scheduled |-> FALSE, soon |-> 0, handle |-> FALSE]
    /\ stopped = FALSE /\ overflow = FALSE
    /\ handling = Idle
    /\ ledger = [over |-> FALSE, recorded |-> {}, hedged |-> {}, revision |-> 0]
    /\ recon = [clean |-> FALSE, revision |-> 0]
    /\ stop = "no"
    /\ emitted = {} /\ dropped = {}
    /\ faults = 0

Next ==
    \/ \E e \in Callbacks : EmitCallback(e)
    \/ DrainIngress \/ PutOther \/ TakeEvent \/ BeginEvent \/ FinishEvent
    \/ CycleReconciles \/ HedgeSettles \/ Disconnect \/ Connect
    \/ Halt \/ ReadOrders \/ ReadObligations \/ DecideShutdown \/ ShutdownTimesOut

Spec == Init /\ [][Next]_vars

\* The event loop runs what is scheduled on it and the consumer keeps up.
Fairness ==
    /\ WF_vars(DrainIngress)
    /\ WF_vars(TakeEvent) /\ WF_vars(BeginEvent) /\ WF_vars(FinishEvent)

TypeOK ==
    /\ ingress \in Seq(Callbacks) /\ Len(ingress) <= Capacity
    /\ events \in Seq(Callbacks \cup {Other}) /\ Len(events) <= Capacity
    /\ drain \in [scheduled : BOOLEAN, soon : Nat, handle : BOOLEAN]
    /\ handling \in [event : Callbacks \cup {Other}, step : {"idle", "taken", "begun"}]
    /\ ledger \in [over : BOOLEAN, recorded : SUBSET Fills, hedged : SUBSET Fills,
                   revision : Nat]
    /\ recon \in [clean : BOOLEAN, revision : Nat]
    /\ stop \in {"no", "halted", "orders read", "hedges read", "ready", "late"}

\* A shutdown that calls itself reconciled has applied every callback the
\* adapter was given, save those a disconnect cleared, and leaves no hedge due,
\* although it read the orders, the hedges and the rest at different moments.
ReadyIsSettled ==
    [][stop # "ready" /\ stop' = "ready" =>
          /\ ledger.over /\ ledger.hedged = ledger.recorded
          /\ emitted \cap Fills \subseteq ledger.recorded \cup dropped]_vars

\* Whatever was admitted to the ingress leaves it, across disconnects and
\* reconnects, and however full the shared queue is.
IngressDrains == ingress # <<>> ~> (ingress = <<>> \/ ~Running)

=============================================================================
