----------------------------- MODULE Maintenance -----------------------------
(***************************************************************************)
(* The daily maintenance hold (execution/maintenance.py, maintain() in     *)
(* execution/coordinator.py) around the scheduled restart of the Gateway.  *)
(* A pass of maintain() holds the coordinator's lock but is three steps:   *)
(* the clock it captured and the evidence it read are used after awaits in *)
(* which the connection is lost, the operator pauses, hedges settle and    *)
(* the connection loop, which takes no lock, observes interruptions.       *)
(*                                                                         *)
(* One day; the clock is the slot between two of the window's instants,    *)
(* the restart's slot lasting from a minute before it to two minutes       *)
(* after.  Left out: weekends, audits, arming.                             *)
(***************************************************************************)
EXTENDS Naturals

CONSTANTS
    MaxFaults   \* bound on losses, timeouts, controls of the operator, fills, restarts

VARIABLES
    slot,     \* the clock
    hold,     \* MaintenanceHold
    pass,     \* the pass of maintain() under way, and what it has read
    venue,    \* connection, account read and its markers, losses queued and being published
    alerts,   \* IBKR_1100 with the slot of its creation, any other critical one
    control,  \* paused, kill switch
    book,     \* _maintenance_execution_clear, reconciliation.clean
    faults,
    past      \* history, read by the properties only: the certification, the outage

vars == <<slot, hold, pass, venue, alerts, control, book, faults, past>>

Before == 0
Drain == 1
Closed == 2
Restart == 3
Break == 4
Reopened == 5
Overdue == 6
Never == 7

NoHold == [on |-> FALSE, finished |-> FALSE, drained |-> FALSE, failed |-> FALSE,
           at |-> Never, recovered |-> FALSE]
Idle == [step |-> "idle", now |-> Before, ready |-> FALSE, stopped |-> FALSE]

Fault == faults < MaxFaults /\ faults' = faults + 1
Unlocked == pass.step = "idle"

-----------------------------------------------------------------------------
(* MaintenanceHold *)

Entered(h, now) ==
    IF ~h.on /\ ~h.finished /\ now \in Drain..Break
    THEN [NoHold EXCEPT !.on = TRUE] ELSE h

Interrupted(h, now) ==
    IF h.on /\ h.drained /\ ~h.failed /\ ~h.recovered /\ h.at = Never
    THEN [h EXCEPT !.at = now] ELSE h

Recovering(h, now) ==
    h.on /\ h.drained /\ ~h.failed /\ h.at = Restart /\ ~h.recovered /\ now < Overdue

Finished(h) == [h EXCEPT !.on = FALSE, !.finished = @ \/ h.on]

ExpectedAlert(h, now) == Recovering(h, now) /\ alerts.at \in Restart..Reopened

UnexpectedAlert(h, now) ==
    alerts.other \/ (alerts.at # Never /\ ~ExpectedAlert(h, now))

\* _latch_reconciliation_pause
Failed(h) == [h EXCEPT !.failed = @ \/ h.on]
Pause == control' = [control EXCEPT !.paused = TRUE]

Stopped == control.paused \/ control.kill

\* maintenance_recovery_allowed, after its observation
Allowed(h) == Recovering(h, slot) /\ ~Stopped /\ ~UnexpectedAlert(h, slot) /\ book.clear

\* Of a connection that went: a read under way is over.
MarkersReset ==
    [venue EXCEPT !.whole = FALSE, !.read = IF @ = "busy" THEN "none" ELSE @]

-----------------------------------------------------------------------------
(* maintain() *)

\* enter(), and after the cancellations of working ZQ the part of `ready`
\* that is read without an await.
BeginPass ==
    LET h == Entered(hold, slot)
    IN /\ Unlocked /\ h.on
       /\ hold' = h
       /\ pass' = [step |-> "begun", now |-> slot, stopped |-> Stopped,
                   ready |-> /\ venue.up /\ ~venue.pending /\ venue.read = "fresh"
                             /\ ~UnexpectedAlert(h, slot)]
       /\ UNCHANGED <<slot, venue, alerts, control, book, faults>>

\* await shutdown_ready()
ReadReady ==
    /\ pass.step = "begun"
    /\ pass' = [pass EXCEPT !.step = "read", !.ready = @ /\ book.clear /\ book.clean]
    /\ UNCHANGED <<slot, hold, venue, alerts, control, book, faults>>

\* Mutant: the close is not a limit of the drain.
DrainedLate(h) ==
    LET certified == h.drained \/ pass.ready
    IN [h EXCEPT !.drained = certified /\ book.clear]

Drained(h) ==
    LET certified == h.drained \/ (pass.now < Closed /\ pass.ready)
    IN [h EXCEPT !.drained = certified /\ book.clear]

\* Drain, recovery, and what an outage that is over leaves behind.
Advanced(h) ==
    LET d == Drained(h)
    IN IF h.failed THEN h
       ELSE IF ~d.drained /\ pass.now >= Closed THEN Failed(d)
       ELSE IF Recovering(d, pass.now) /\ pass.ready THEN [d EXCEPT !.recovered = TRUE]
       ELSE IF pass.ready /\ ~d.recovered THEN [d EXCEPT !.at = Never]
       ELSE d

\* Mutant: the recovery has no deadline.
ReleasedWhenReady(h) ==
    IF pass.now >= Reopened /\ (h.failed \/ pass.stopped \/ pass.ready) THEN Finished(h) ELSE h

Released(h) ==
    IF pass.now < Reopened THEN h
    ELSE IF h.failed \/ pass.stopped THEN Finished(h)
    ELSE IF pass.now >= Overdue THEN Finished(Failed(h))
    ELSE IF pass.ready THEN Finished(h)
    ELSE h

EndPass ==
    /\ pass.step = "read"
    /\ pass' = Idle
    /\ LET h == Advanced(hold)
           resolves == h.recovered /\ ~hold.recovered /\ ExpectedAlert(hold, slot)
       IN /\ hold' = Released(h)
          /\ alerts' = IF resolves THEN [alerts EXCEPT !.at = Never] ELSE alerts
          /\ IF hold'.failed /\ ~hold.failed THEN Pause ELSE UNCHANGED control
    /\ UNCHANGED <<slot, venue, book, faults>>

-----------------------------------------------------------------------------
(* The connection loop: no lock *)

\* The socket closes; its callback is cleared by disconnect() or queued.
ConnectionLost ==
    /\ venue.up /\ Fault
    /\ \E note \in BOOLEAN :
          venue' = [venue EXCEPT !.up = FALSE, !.closing = TRUE, !.note = note]
    /\ UNCHANGED <<slot, hold, pass, alerts, control, book>>

\* A loss and each failed attempt ask maintenance_recovery_allowed(), which
\* observes; a refusal of the last attempt gives the connection up.
ConnectFails ==
    /\ ~venue.up /\ ~venue.dead
    /\ IF venue.closing THEN UNCHANGED faults ELSE Fault
    /\ hold' = Interrupted(hold, slot)
    /\ \E last \in BOOLEAN :
          LET exhausted == last /\ ~Allowed(hold')
          IN /\ venue' = [venue EXCEPT !.closing = FALSE, !.dead = exhausted]
             /\ alerts' = [alerts EXCEPT !.other = @ \/ exhausted]
    /\ UNCHANGED <<slot, pass, control, book>>

\* CONNECTING, whose handler resets the markers and with them the result, and
\* CONNECTED; what was queued is handled before them.
Reconnects ==
    /\ Unlocked /\ ~venue.up /\ ~venue.dead /\ ~venue.closing
    /\ ~venue.note /\ venue.due = "nothing"
    /\ venue' = [MarkersReset EXCEPT !.up = TRUE, !.pending = FALSE]
    /\ book' = [book EXCEPT !.clean = FALSE]
    /\ UNCHANGED <<slot, hold, pass, alerts, control, faults>>

\* At every connection, and again on request or with age.
ReadBegins ==
    /\ Unlocked /\ venue.up /\ venue.read # "busy"
    /\ IF venue.whole THEN Fault ELSE UNCHANGED faults
    /\ venue' = [venue EXCEPT !.read = "busy", !.whole = FALSE]
    /\ book' = [book EXCEPT !.clean = FALSE]
    /\ UNCHANGED <<slot, hold, pass, alerts, control>>

\* The read is ambiguous: recovery is allowed or the pause is latched, and
\* the connection loop disconnects.
ReadTimesOut ==
    /\ Unlocked /\ venue.up /\ venue.read = "busy" /\ Fault
    /\ LET h == Interrupted(hold, slot)
       IN IF Allowed(h) THEN hold' = h /\ UNCHANGED control ELSE hold' = Failed(h) /\ Pause
    /\ \E note \in BOOLEAN :
          venue' = [venue EXCEPT !.up = FALSE, !.closing = TRUE, !.note = note]
    /\ UNCHANGED <<slot, pass, alerts, book>>

-----------------------------------------------------------------------------
(* The event consumer: the coordinator's handler, under its lock, then what *)
(* the state store publishes, without it                                    *)

HandleDisconnected ==
    /\ Unlocked /\ venue.note /\ venue.due = "nothing"
    /\ hold' = Interrupted(hold, slot)
    /\ venue' = [MarkersReset EXCEPT !.note = FALSE, !.due = "disconnected"]
    /\ book' = [book EXCEPT !.clean = FALSE]
    /\ UNCHANGED <<slot, pass, alerts, control, faults>>

\* 1100
ConnectivityLost ==
    /\ Unlocked /\ venue.up /\ ~venue.pending /\ venue.due = "nothing" /\ Fault
    /\ hold' = Interrupted(hold, slot)
    /\ venue' = [venue EXCEPT !.due = "1100"]
    /\ UNCHANGED <<slot, pass, alerts, control, book>>

LossPublished ==
    /\ venue.due # "nothing"
    /\ venue' = [venue EXCEPT !.due = "nothing", !.pending = TRUE]
    /\ alerts' = IF venue.due = "1100" THEN [alerts EXCEPT !.at = slot] ELSE alerts
    /\ book' = [book EXCEPT !.clean = FALSE]
    /\ UNCHANGED <<slot, hold, pass, control, faults>>

\* 1101 or 1102
ConnectivityRestored ==
    /\ venue.up /\ venue.pending /\ venue.due = "nothing"
    /\ venue' = [venue EXCEPT !.pending = FALSE]
    /\ alerts' = [alerts EXCEPT !.at = Never]
    /\ UNCHANGED <<slot, hold, pass, control, book, faults>>

ReadCompletes ==
    /\ Unlocked /\ venue.up /\ venue.read = "busy" /\ venue.due = "nothing"
    /\ venue' = [venue EXCEPT !.read = "fresh", !.whole = TRUE]
    /\ book' = [book EXCEPT !.clean = book.clear]
    /\ UNCHANGED <<slot, hold, pass, alerts, control, faults>>

\* The cycle's reconciliation: clean only with every marker of the read.
Reconciles ==
    /\ Unlocked
    /\ book' = [book EXCEPT !.clean = book.clear /\ venue.whole]
    /\ UNCHANGED <<slot, hold, pass, venue, alerts, control, faults>>

\* A fill of an order whose cancellation is unconfirmed, or a late one.
FillArrives ==
    /\ Unlocked /\ Fault
    /\ book' = [clear |-> FALSE, clean |-> FALSE]
    /\ UNCHANGED <<slot, hold, pass, venue, alerts, control>>

\* Cancellations are confirmed and hedges settle.
ExecutionClears ==
    /\ ~book.clear
    /\ book' = [book EXCEPT !.clear = TRUE]
    /\ UNCHANGED <<slot, hold, pass, venue, alerts, control, faults>>

-----------------------------------------------------------------------------
(* The operator, the clock, a restart of the engine *)

Operate ==
    /\ Fault
    /\ \E kill \in {control.kill, TRUE} : control' \in
          {[paused |-> TRUE, kill |-> kill], [paused |-> FALSE, kill |-> control.kill]}
    /\ UNCHANGED <<slot, hold, pass, venue, alerts, book>>

Tick ==
    /\ slot < Overdue
    /\ slot' = slot + 1
    /\ UNCHANGED <<hold, pass, venue, alerts, control, book, faults>>

Starting == [up |-> FALSE, read |-> "none", whole |-> FALSE, pending |-> FALSE,
             note |-> FALSE, due |-> "nothing", closing |-> FALSE, dead |-> FALSE]

\* The hold is in memory only.
RestartEngine ==
    /\ Fault
    /\ hold' = NoHold /\ pass' = Idle /\ venue' = Starting
    /\ alerts' = [at |-> Never, other |-> FALSE]
    /\ control' = [paused |-> FALSE, kill |-> FALSE]
    /\ book' = [book EXCEPT !.clean = FALSE]
    /\ UNCHANGED slot

-----------------------------------------------------------------------------
(* History *)

\* A loss that the evidence of a pass shows.
Shown(v) == ~v.up \/ v.pending

\* An outage is over when the connection is back and read anew.
Over(v) == ~Shown(v) /\ v.due # "1100" /\ v.whole

\* The pass clock that certified the drain; whether an outage goes on, whether
\* it was not shown yet when the pass under way took its evidence, and the slot
\* in which the hold first observed it.
Remember ==
    LET lost == ~Over(venue') /\ (past.lost \/ Shown(venue') \/ venue'.due = "1100")
    IN past' = [certified |-> IF ~hold'.drained THEN Never
                              ELSE IF ~hold.drained THEN pass.now
                              ELSE past.certified,
                lost   |-> lost,
                hidden |-> /\ lost /\ (past.hidden \/ ~past.lost)
                           /\ pass'.step = "idle" => ~Shown(venue'),
                seen   |-> IF ~lost THEN Never
                           ELSE IF past.seen = Never /\ hold'.at # hold.at THEN hold'.at
                           ELSE past.seen]

-----------------------------------------------------------------------------
Init ==
    /\ slot = Before
    /\ hold = NoHold /\ pass = Idle /\ venue = Starting
    /\ alerts = [at |-> Never, other |-> FALSE]
    /\ control = [paused |-> FALSE, kill |-> FALSE]
    /\ book = [clear |-> TRUE, clean |-> FALSE]
    /\ faults = 0
    /\ past = [certified |-> Never, lost |-> TRUE, hidden |-> FALSE, seen |-> Never]

Step ==
    \/ BeginPass \/ ReadReady \/ EndPass
    \/ ConnectionLost \/ ConnectFails \/ Reconnects \/ ReadBegins
    \/ HandleDisconnected \/ ConnectivityLost \/ LossPublished \/ ConnectivityRestored
    \/ ReadCompletes \/ ReadTimesOut \/ Reconciles \/ FillArrives \/ ExecutionClears
    \/ Operate \/ Tick \/ RestartEngine

Next == Step /\ Remember

Spec == Init /\ [][Next]_vars

\* The clock advances and the execution loop keeps calling maintain().
Fairness ==
    /\ WF_vars(Tick /\ Remember)
    /\ WF_vars(BeginPass /\ Remember) /\ WF_vars(ReadReady /\ Remember)
    /\ WF_vars(EndPass /\ Remember)

TypeOK ==
    /\ slot \in Before..Overdue
    /\ hold \in [on : BOOLEAN, finished : BOOLEAN, drained : BOOLEAN, failed : BOOLEAN,
                 at : Before..Never, recovered : BOOLEAN]
    /\ pass \in [step : {"idle", "begun", "read"}, now : Before..Overdue,
                 ready : BOOLEAN, stopped : BOOLEAN]
    /\ venue.read \in {"none", "busy", "fresh"} /\ venue.due \in {"nothing", "disconnected", "1100"}
    /\ alerts \in [at : Before..Never, other : BOOLEAN]
    /\ past \in [certified : Before..Never, lost : BOOLEAN, hidden : BOOLEAN,
                 seen : Before..Never]

\* A hold released without a pause was certified drained before the close, has
\* no order or hedge pending at the release, and is released after the outage:
\* the connection is back and has been read anew, unless it was lost, or the
\* loss shown, only after the releasing pass took its evidence.
ReleaseIsEarned ==
    [][hold.on /\ hold'.finished /\ ~hold'.failed /\ ~pass.stopped =>
          /\ past.certified < Closed /\ book.clear
          /\ past.lost => past.hidden]_vars

\* A hold ends: with the recovery, a pause, or at the deadline.
HoldEnds == hold.on ~> ~hold.on

\* "Retries cannot move an earlier unrelated outage into the restart window"
\* (maintenance.py:92).  Violated: a pass that took its evidence before an
\* outage forgets when the outage was observed, and a retry observes it anew.
EarlierOutageStays == hold.at = Restart => past.seen \in {Restart, Never}

=============================================================================
