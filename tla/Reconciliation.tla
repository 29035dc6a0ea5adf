--------------------------- MODULE Reconciliation ---------------------------
(***************************************************************************)
(* The account reconciliation with IBKR (execution/coordinator.py) and the *)
(* connection loop that drives it (services/engine.py): an account read is *)
(* four requests answered in any order, each by data and an end marker,    *)
(* only one of which carries a request id; live callbacks of the working   *)
(* order arrive between them; fills, positions and statuses disagree for a *)
(* while (the callback gap); reads time out, the connection is lost, and   *)
(* events of an earlier connection are still queued when the next is up.   *)
(*                                                                         *)
(* One strategy order of Quantity contracts stands for all.  Every handler *)
(* runs under the coordinator's lock and ends with a reconciliation, hence *)
(* is one action: c' = Reconciled(...).  The re-publication skipped when    *)
(* the result is unchanged changes nothing modelled here.  Elapsed time is *)
(* a flag per deadline, raised by an action of its own.  Left out: foreign *)
(* and other-month orders, identity conflicts, operator resume.            *)
(***************************************************************************)
EXTENDS Integers, FiniteSets, Sequences

CONSTANTS
    Quantity,        \* contracts of the order
    MaxReads,        \* bound on account reads
    MaxFaults,       \* bound on lost connections, timeouts, restarts, trades by hand,
                     \* changes and failed reads of the Polymarket account
    MaxWire,         \* callbacks are queued only while fewer than this are waiting
    Backlog,         \* TRUE: events may stay queued through the reconnect backoff
    PolymarketMoves  \* TRUE: the Polymarket side changes and is read again

ASSUME ReconciliationAssumption ==
    /\ Quantity \in Nat \ {0}
    /\ MaxReads \in Nat \ {0}
    /\ MaxFaults \in Nat
    /\ MaxWire \in Nat \ {0}
    /\ Backlog \in BOOLEAN
    /\ PolymarketMoves \in BOOLEAN

VARIABLES
    c,        \* the coordinator's evidence and its published result
    led,      \* the ledger rows of the order
    venue,    \* IBKR: the order, its fills, contracts bought by hand
    owed,     \* live callbacks IBKR has still to send
    asked,    \* requests of account reads IBKR has still to answer
    wire,     \* events queued between IBKR and the coordinator
    lpc,      \* the connection loop's point of control
    begun,    \* history: what IBKR had done when the current read was begun, and
              \* whether nothing of an earlier request or connection was queued
    blame,    \* history: a deadline passed or someone traded by hand
    faults

vars == <<c, led, venue, owed, asked, wire, lpc, begun, blame, faults>>

None == -1
Kinds == {"open_order", "completed_order", "execution", "position"}

NoGap == [on |-> FALSE, serial |-> 0, late |-> FALSE, expired |-> FALSE]

\* got[k]: the read whose request the counted end marker of kind k answered,
\* 0 when the completeness flag of k is down.
Startup ==
    [got |-> [k \in Kinds |-> 0], reading |-> FALSE, late |-> FALSE, ambiguous |-> FALSE,
     serial |-> 0, completed |-> 0, snapshot |-> "none", open |-> FALSE,
     pos |-> 0, cbPos |-> None, matched |-> None, gap |-> NoGap,
     termConf |-> FALSE, refConf |-> FALSE, ready |-> FALSE,
     recovery |-> FALSE, clean |-> FALSE, paused |-> FALSE,
     venueSame |-> FALSE, ledgerSame |-> FALSE, poly |-> ~PolymarketMoves, polyRead |-> "no"]

Bought == venue.filled + venue.manual
Executed(l) == Cardinality(l.executed)
Larger(a, b) == IF a >= b THEN a ELSE b
Whole(d) == \A k \in Kinds : d.got[k] # 0

-----------------------------------------------------------------------------
(* Classification of callback gaps *)

\* Mutant: the deadline waits for the account read under way.
ExpiredBetweenReads(d) ==
    IF d.gap.on /\ d.gap.late /\ ~d.gap.expired /\ ~d.reading
    THEN [d EXCEPT !.gap.expired = TRUE, !.recovery = FALSE, !.paused = TRUE, !.clean = FALSE]
    ELSE d

Expired(d) ==
    IF d.gap.on /\ d.gap.late /\ ~d.gap.expired
    THEN [d EXCEPT !.gap.expired = TRUE, !.recovery = FALSE, !.paused = TRUE, !.clean = FALSE]
    ELSE d

\* The position to compare: the read's when it is whole, the last clean one
\* plus live callbacks while the next read is being rebuilt.
Comparable(d) == Whole(d) \/ (d.matched # None /\ d.cbPos # None)
Observed(d) == IF Whole(d) THEN d.pos ELSE d.cbPos

Disagreements(d, l) ==
    IF ~Comparable(d) THEN {}
    ELSE (IF l.reported > Executed(l) THEN {"ibkr_unrecorded_fills"} ELSE {})
           \cup (IF Executed(l) = Quantity /\ ~l.over THEN {"ibkr_unconfirmed_completion"} ELSE {})
           \cup (IF d.termConf THEN {"ibkr_terminal_conflicts"} ELSE {})
           \cup (IF Observed(d) # Executed(l) THEN {"zq_position_mismatch"} ELSE {})

\* Mutant: one contract of the open part is left out of account.
ExplainableShort(d, l) ==
    /\ d.matched # None
    /\ \/ 0 < Observed(d) - Executed(l) /\ Observed(d) - Executed(l) < Quantity - Executed(l)
       \/ d.matched <= Observed(d) /\ Observed(d) < Executed(l)

\* A position difference the open part of the order, or executions not yet
\* followed by their position callback, can explain.
Explainable(d, l) ==
    LET capacity == IF ~l.over \/ l.reported > Executed(l) THEN Quantity - Executed(l) ELSE 0
        ahead == Observed(d) - Executed(l)
    IN /\ d.matched # None
       /\ \/ ahead > 0 /\ ahead <= capacity /\ Executed(l) >= d.matched
          \/ d.matched <= Observed(d) /\ ahead < 0

Candidates(d, l) ==
    (Disagreements(d, l) \ ({"zq_position_mismatch"}
        \cup IF d.refConf /\ ~d.reading THEN {"ibkr_terminal_conflicts"} ELSE {}))
      \cup (IF Comparable(d) /\ Explainable(d, l) THEN {"zq_position_mismatch"} ELSE {})

Reanchored(d, l) ==
    IF Comparable(d) /\ d.matched # None
         /\ Observed(d) = Executed(l) /\ l.reported <= Executed(l)
    THEN [d EXCEPT !.matched = Executed(l)]
    ELSE d

\* The gap is closed, started, or left as it is.
GapTracked(d, l) ==
    IF ~Comparable(d) THEN d
    ELSE IF Disagreements(d, l) = {} THEN [d EXCEPT !.gap = NoGap]
    ELSE IF Candidates(d, l) # {} /\ d.matched # None /\ ~d.gap.on
    THEN [d EXCEPT !.gap = [NoGap EXCEPT !.on = TRUE, !.serial = d.completed]]
    ELSE d

\* The differences that may wait for further callbacks: none once the gap has
\* expired or a read completed since it began.
Transient(d, l) ==
    IF Comparable(d) /\ d.gap.on /\ ~d.gap.expired /\ d.completed <= d.gap.serial
    THEN Candidates(d, l) ELSE {}

-----------------------------------------------------------------------------
(* The reconciliation *)

EvidenceComplete(d) == Whole(d) /\ d.poly /\ d.snapshot = "fresh"

FullDifferences(d, l) ==
    Disagreements(d, l)
      \cup (IF ~l.over /\ ~d.open THEN {"missing_ibkr_orders"} ELSE {})
      \cup (IF l.over /\ d.open THEN {"unexpected_ibkr_orders"} ELSE {})
      \cup (IF l.unhedged THEN {"unresolved_hedge_obligations"} ELSE {})

Unsafe == {"zq_position_mismatch", "unexpected_ibkr_orders", "ibkr_unrecorded_fills",
           "ibkr_unconfirmed_completion", "ibkr_terminal_conflicts"}

Judged(d, l, transient) ==
    LET differences == FullDifferences(d, l)
        unsafe == (differences \cap Unsafe) \ transient
        clean == differences = {}
    IN [d EXCEPT !.clean = clean,
                 !.recovery = unsafe = {} /\ ~d.gap.expired,
                 !.paused = @ \/ unsafe # {},
                 !.ledgerSame = clean,
                 !.venueSame = @ \/ clean,
                 !.matched = IF clean THEN Executed(l) ELSE @,
                 !.cbPos = IF clean THEN d.pos ELSE @]

Reconciled(d0, l) ==
    LET d1 == Reanchored(Expired(d0), l)
        d2 == GapTracked(d1, l)
        transient == Transient(d2, l)
        early == Disagreements(d1, l) \ transient
        d3 == [d2 EXCEPT !.recovery = @ /\ early = {},
                         !.paused = @ \/ early # {},
                         !.ambiguous = @ \/ (d2.reading /\ d2.late)]
    IN IF d3.ambiguous THEN [d3 EXCEPT !.recovery = FALSE, !.paused = TRUE, !.clean = FALSE]
       ELSE IF ~EvidenceComplete(d3) THEN [d3 EXCEPT !.clean = FALSE]
       ELSE Judged(d3, l, transient)

-----------------------------------------------------------------------------
(* handle_ibkr_event: what an event does to the evidence and to the ledger *)

\* The venue changed: a published result and a Polymarket read under way no
\* longer describe it.
Revised(d) ==
    [d EXCEPT !.venueSame = FALSE, !.clean = FALSE,
              !.polyRead = IF @ = "reading" THEN "overtaken" ELSE @]

\* Mutant: reported counts are added up.
StatusAdded(l, ends, filled) ==
    IF l.over /\ ~ends THEN l
    ELSE [l EXCEPT !.over = ends, !.reported = @ + filled]

LedgerStatus(l, ends, filled) ==
    IF l.over /\ ~ends THEN l
    ELSE [l EXCEPT !.over = ends, !.reported = Larger(@, filled)]

ObservedOrder(d, l, ends) ==
    LET over == LedgerStatus(l, ends, 0).over
    IN [d EXCEPT !.open = ~over,
                 !.termConf = IF over /\ ~ends THEN TRUE ELSE IF ends THEN FALSE ELSE @,
                 !.refConf = @ \/ (over /\ ~ends /\ d.reading)]

\* Mutant: the end of executions is counted whatever request it answers.
CountedAny(d, e) == [d EXCEPT !.got[e.of] = e.serial]

\* Only the end of executions carries the id of its request.
Counted(d, e) ==
    IF e.of = "execution" /\ e.serial # d.serial THEN d
    ELSE [d EXCEPT !.got[e.of] = e.serial]

Ended(d, e) ==
    LET counted == Counted([d EXCEPT !.ambiguous = @ \/ (d.reading /\ d.late)], e)
    IN IF e.of = "position" /\ d.cbPos # None
       THEN [counted EXCEPT !.cbPos = d.pos] ELSE counted

ConnectionReset(d) ==
    [Revised(d) EXCEPT !.clean = d.clean, !.ready = FALSE, !.recovery = FALSE,
        !.got = [k \in Kinds |-> 0], !.reading = FALSE, !.late = FALSE,
        !.matched = None, !.cbPos = None, !.ambiguous = FALSE]

Evidence(d, l, e) ==
    CASE e.kind = "connection"   -> IF e.up THEN [d EXCEPT !.ready = TRUE] ELSE ConnectionReset(d)
      [] e.kind = "end"          -> Ended(d, e)
      [] e.kind = "execution"    -> [Revised(d) EXCEPT !.ledgerSame = FALSE]
      [] e.kind = "order_status" -> [ObservedOrder(Revised(d), l, e.ends) EXCEPT !.ledgerSame = FALSE]
      [] e.kind = "completed"    -> [Revised(d) EXCEPT !.open = FALSE, !.termConf = FALSE,
                                                       !.ledgerSame = FALSE]
      [] e.kind = "position"     -> [Revised(d) EXCEPT !.pos = e.quantity,
                                        !.cbPos = IF @ = None THEN None ELSE e.quantity]

Recorded(l, e) ==
    CASE e.kind = "execution" ->
            [l EXCEPT !.executed = @ \cup {e.fill}, !.unhedged = @ \/ e.fill \notin l.executed]
      [] e.kind = "order_status" -> LedgerStatus(l, e.ends, e.filled)
      [] e.kind = "completed"    -> LedgerStatus(l, TRUE, e.filled)
      [] OTHER -> l

Completed(d) ==
    IF d.reading /\ Whole(d)
    THEN [d EXCEPT !.snapshot = "fresh", !.reading = FALSE, !.late = FALSE,
                   !.completed = d.serial, !.termConf = d.refConf]
    ELSE d

HandleEvent ==
    /\ wire # <<>>
    /\ LET e == Head(wire)
           l == Recorded(led, e)
       IN /\ led' = l
          /\ c' = Reconciled(Completed(Evidence(c, led, e)), l)
    /\ wire' = Tail(wire)
    /\ UNCHANGED <<venue, owed, asked, lpc, begun, blame, faults>>

\* The cycle reconciles once a second, whatever arrived.
Cycle ==
    /\ c' = Reconciled(c, led)
    /\ UNCHANGED <<led, venue, owed, asked, wire, lpc, begun, blame, faults>>

\* The hedges of the recorded executions are settled.
HedgesSettle ==
    /\ led.unhedged
    /\ led' = [led EXCEPT !.unhedged = FALSE]
    /\ c' = [c EXCEPT !.ledgerSame = FALSE]
    /\ UNCHANGED <<venue, owed, asked, wire, lpc, begun, blame, faults>>

-----------------------------------------------------------------------------
(* Deadlines *)

GapTimesOut ==
    /\ c.gap.on /\ ~c.gap.late
    /\ c' = [c EXCEPT !.gap.late = TRUE]
    /\ blame' = TRUE
    /\ UNCHANGED <<led, venue, owed, asked, wire, lpc, begun, faults>>

\* The watchdog wakes and takes the lock.
WatchGap ==
    /\ c.gap.late /\ ~c.gap.expired
    /\ c' = Expired(c)
    /\ UNCHANGED <<led, venue, owed, asked, wire, lpc, begun, blame, faults>>

ReadTimesOut ==
    /\ c.reading /\ ~c.late
    /\ faults < MaxFaults /\ faults' = faults + 1
    /\ c' = [c EXCEPT !.late = TRUE]
    /\ blame' = TRUE
    /\ UNCHANGED <<led, venue, owed, asked, wire, lpc, begun>>

SnapshotAges ==
    /\ c.snapshot = "fresh" /\ c.serial < MaxReads
    /\ c' = [c EXCEPT !.snapshot = "old"]
    /\ UNCHANGED <<led, venue, owed, asked, wire, lpc, begun, blame, faults>>

-----------------------------------------------------------------------------
(* The connection loop *)

\* Mutant: a new read keeps what the last one collected.
BegunCarelessly(d) ==
    [d EXCEPT !.reading = TRUE, !.late = FALSE, !.serial = @ + 1,
              !.refConf = FALSE, !.clean = FALSE, !.open = FALSE,
              !.snapshot = "none", !.pos = 0]

\* begin_ibkr_reconciliation where it returns True.
Begun(d) ==
    [d EXCEPT !.reading = TRUE, !.late = FALSE, !.serial = @ + 1,
              !.refConf = FALSE, !.clean = FALSE, !.open = FALSE,
              !.got = [k \in Kinds |-> 0], !.snapshot = "none", !.pos = 0]

Disconnect(queued) ==
    /\ \E n \in 0..Len(queued) : wire' = SubSeq(queued, 1, n)
    /\ owed' = {} /\ asked' = {} /\ lpc' = "down"

\* For the properties only.
Alone == asked = {} /\ \A i \in DOMAIN wire : wire[i].kind \notin {"connection", "end"}
Viewed == [filled |-> venue.filled, manual |-> venue.manual, alone |-> Alone]

RefreshAccount(d) ==
    IF d.reading
    THEN UNCHANGED <<c, asked, begun>>
    ELSE /\ d.serial < MaxReads
         /\ c' = Begun(d)
         /\ asked' = asked \cup {[of |-> k, serial |-> d.serial + 1] : k \in Kinds}
         /\ begun' = Viewed

\* connect() queues CONNECTING, the handshake done it queues CONNECTED.
Connect ==
    /\ lpc = "down"
    /\ Backlog \/ wire = <<>>
    /\ lpc' = "connecting"
    /\ c' = [c EXCEPT !.ready = FALSE]
    /\ wire' = Append(wire, [kind |-> "connection", up |-> FALSE])
    /\ UNCHANGED <<led, venue, owed, asked, begun, blame, faults>>

Connected ==
    /\ lpc = "connecting"
    /\ lpc' = "waiting"
    /\ wire' = Append(wire, [kind |-> "connection", up |-> TRUE])
    /\ UNCHANGED <<c, led, venue, owed, asked, begun, blame, faults>>

\* CONNECTED was processed: the first account read of the connection.
ConnectionReady ==
    /\ lpc = "waiting" /\ c.ready
    /\ IF c.ambiguous
       THEN Disconnect(wire) /\ UNCHANGED <<c, begun>>
       ELSE lpc' = "up" /\ RefreshAccount(c) /\ UNCHANGED <<owed, wire>>
    /\ UNCHANGED <<led, venue, blame, faults>>

ReadyTimesOut ==
    /\ lpc = "waiting" /\ ~c.ready
    /\ faults < MaxFaults /\ faults' = faults + 1
    /\ Disconnect(wire)
    /\ UNCHANGED <<c, led, venue, begun, blame>>

\* One turn of the inner loop: reconnect after a timeout, else refresh if a
\* gap asked for it or it is due.  A request met by a read in progress is lost.
LoopTurn ==
    /\ lpc = "up"
    /\ IF c.ambiguous \/ (c.reading /\ c.late)
       THEN /\ c' = IF c.ambiguous THEN c ELSE Reconciled([c EXCEPT !.ambiguous = TRUE], led)
            /\ Disconnect(wire)
            /\ UNCHANGED begun
       ELSE /\ RefreshAccount(c)
            /\ UNCHANGED <<owed, wire, lpc>>
    /\ UNCHANGED <<led, venue, blame, faults>>

ConnectionLost ==
    /\ lpc # "down"
    /\ faults < MaxFaults /\ faults' = faults + 1
    /\ Disconnect(Append(wire, [kind |-> "connection", up |-> FALSE]))
    /\ UNCHANGED <<c, led, venue, begun, blame>>

\* The process is restarted: only the ledger is left.
Restart ==
    /\ faults < MaxFaults /\ faults' = faults + 1
    /\ c' = [Startup EXCEPT !.serial = c.serial]
    /\ wire' = <<>> /\ owed' = {} /\ asked' = {} /\ lpc' = "down"
    /\ UNCHANGED <<led, venue, begun, blame>>

-----------------------------------------------------------------------------
(* The Polymarket side of the evidence *)

\* A user event; the stream's own connects and disconnects also end recovery.
PolymarketChanges ==
    /\ PolymarketMoves
    /\ faults < MaxFaults /\ faults' = faults + 1
    /\ \E recovery \in {c.recovery, FALSE} :
          c' = Reconciled([Revised(c) EXCEPT !.poly = FALSE, !.recovery = recovery], led)
    /\ UNCHANGED <<led, venue, owed, asked, wire, lpc, begun, blame>>

PolymarketReadStarts ==
    /\ PolymarketMoves
    /\ c.polyRead = "no" /\ ~c.poly
    /\ c' = [c EXCEPT !.polyRead = "reading"]
    /\ UNCHANGED <<led, venue, owed, asked, wire, lpc, begun, blame, faults>>

PolymarketReadFails ==
    /\ c.polyRead # "no"
    /\ faults < MaxFaults /\ faults' = faults + 1
    /\ c' = [Revised(c) EXCEPT !.poly = FALSE, !.polyRead = "no"]
    /\ UNCHANGED <<led, venue, owed, asked, wire, lpc, begun, blame>>

\* Complete only if no event changed either venue since the read began.
PolymarketReadEnds ==
    /\ c.polyRead # "no"
    /\ c' = Reconciled([c EXCEPT !.poly = c.polyRead = "reading", !.polyRead = "no"], led)
    /\ UNCHANGED <<led, venue, owed, asked, wire, lpc, begun, blame, faults>>

-----------------------------------------------------------------------------
(* IBKR (external): live callbacks of one connection come in any order, an *)
(* answer describes the account when it is sent.                           *)

Session == lpc \in {"waiting", "up"}
Owing(es) == owed' = IF Session THEN owed \cup es ELSE owed

StatusNow(filled, ends) == [kind |-> "order_status", filled |-> filled, ends |-> ends]

IbkrFills ==
    /\ venue.working /\ venue.filled < Quantity
    /\ LET n == venue.filled + 1
       IN /\ venue' = [venue EXCEPT !.filled = n, !.working = n < Quantity]
          /\ Owing({[kind |-> "execution", fill |-> n], [kind |-> "position"],
                    StatusNow(n, n = Quantity)})
    /\ UNCHANGED <<c, led, asked, wire, lpc, begun, blame, faults>>

IbkrEnds ==
    /\ venue.working
    /\ venue' = [venue EXCEPT !.working = FALSE]
    /\ Owing({StatusNow(venue.filled, TRUE)})
    /\ UNCHANGED <<c, led, asked, wire, lpc, begun, blame, faults>>

ManualTrade ==
    /\ faults < MaxFaults /\ faults' = faults + 1
    /\ venue' = [venue EXCEPT !.manual = @ + 1]
    /\ Owing({[kind |-> "position"]})
    /\ blame' = TRUE
    /\ UNCHANGED <<c, led, asked, wire, lpc, begun>>

PositionNow == [kind |-> "position", quantity |-> Bought]

IbkrNotifies(e) ==
    /\ e \in owed /\ Len(wire) < MaxWire
    /\ owed' = owed \ {e}
    /\ wire' = Append(wire, IF e.kind = "position" THEN PositionNow ELSE e)
    /\ UNCHANGED <<c, led, venue, asked, lpc, begun, blame, faults>>

Answer(k) ==
    CASE k = "open_order"      -> IF venue.working THEN <<StatusNow(0, FALSE)>> ELSE <<>>
      [] k = "completed_order" -> IF venue.working THEN <<>>
                                  ELSE <<[kind |-> "completed", filled |-> venue.filled]>>
      [] k = "execution"       -> [n \in 1..venue.filled |-> [kind |-> "execution", fill |-> n]]
      [] k = "position"        -> IF Bought = 0 THEN <<>> ELSE <<PositionNow>>

IbkrAnswers(q) ==
    /\ q \in asked /\ Len(wire) < MaxWire
    /\ \A r \in asked : r.of = q.of => q.serial <= r.serial
    /\ asked' = asked \ {q}
    /\ wire' = wire \o Answer(q.of) \o <<[kind |-> "end", of |-> q.of, serial |-> q.serial]>>
    /\ UNCHANGED <<c, led, venue, owed, lpc, begun, blame, faults>>

-----------------------------------------------------------------------------
Init ==
    /\ c = Startup
    /\ led = [executed |-> {}, reported |-> 0, over |-> FALSE, unhedged |-> FALSE]
    /\ venue = [working |-> TRUE, filled |-> 0, manual |-> 0]
    /\ owed = {} /\ asked = {} /\ wire = <<>>
    /\ lpc = "down"
    /\ begun = Viewed
    /\ blame = FALSE
    /\ faults = 0

LoopStep == Connect \/ Connected \/ ConnectionReady \/ LoopTurn \/ ReadyTimesOut \/ ConnectionLost
VenueStep ==
    \/ IbkrFills \/ IbkrEnds \/ ManualTrade
    \/ \E e \in owed : IbkrNotifies(e)
    \/ \E q \in asked : IbkrAnswers(q)
PolymarketStep ==
    PolymarketChanges \/ PolymarketReadStarts \/ PolymarketReadEnds \/ PolymarketReadFails
Deadline == GapTimesOut \/ WatchGap \/ ReadTimesOut \/ SnapshotAges

Next == HandleEvent \/ Cycle \/ HedgesSettle \/ Deadline \/ LoopStep
        \/ PolymarketStep \/ VenueStep \/ Restart

Spec == Init /\ [][Next]_vars

\* The clock reaches a gap's deadline and its watchdog task gets its turn.
Fairness == WF_vars(GapTimesOut) /\ WF_vars(WatchGap)

FairSpec == Spec /\ Fairness

-----------------------------------------------------------------------------
(* Properties *)

TypeOK ==
    /\ c \in [got : [Kinds -> 0..MaxReads], reading : BOOLEAN, late : BOOLEAN,
              ambiguous : BOOLEAN, serial : 0..MaxReads, completed : 0..MaxReads,
              snapshot : {"none", "fresh", "old"}, open : BOOLEAN,
              pos : Nat, cbPos : Nat \cup {None}, matched : 0..Quantity \cup {None},
              gap : [on : BOOLEAN, serial : 0..MaxReads, late : BOOLEAN, expired : BOOLEAN],
              termConf : BOOLEAN, refConf : BOOLEAN, ready : BOOLEAN,
              recovery : BOOLEAN, clean : BOOLEAN, paused : BOOLEAN,
              venueSame : BOOLEAN, ledgerSame : BOOLEAN, poly : BOOLEAN,
              polyRead : {"no", "reading", "overtaken"}]
    /\ led \in [executed : SUBSET (1..Quantity), reported : 0..Quantity,
                over : BOOLEAN, unhedged : BOOLEAN]
    /\ venue \in [working : BOOLEAN, filled : 0..Quantity, manual : Nat]
    /\ lpc \in {"down", "connecting", "waiting", "up"}
    /\ faults \in 0..MaxFaults

\* _new_entry_authorized, as far as it rests on the reconciliation.
Authorized ==
    /\ c.clean /\ ~c.gap.on /\ ~c.reading /\ ~c.ambiguous
    /\ c.venueSame /\ c.ledgerSame /\ ~c.paused /\ ~led.unhedged

\* An entry is authorized only on four answers to the same account read.
CleanReadIsWhole ==
    Authorized => \A k \in Kinds : c.got[k] = c.completed

\* Of a read with nothing of an earlier request or connection queued ahead of
\* it, the same holds whatever happened in earlier sessions.
LoneReadIsWhole ==
    Authorized /\ begun.alone => \A k \in Kinds : c.got[k] = c.completed

\* Even with events of earlier connections queued, no fill that IBKR had done
\* when the authorizing read was begun is missing in the ledger, for the end of
\* the executions is the one that carries its request's id; what was bought by
\* hand is seen by a read begun alone.
AuthorizedSeesRead ==
    Authorized =>
        /\ c.got["execution"] = c.serial /\ 1..begun.filled \subseteq led.executed
        /\ begun.alone => begun.manual = 0 \/ venue.filled > begun.filled

\* Once a session has reconciled, callbacks that arrive in time never latch
\* the trading pause, in whatever order they come: it takes a deadline, a
\* trade by hand, an account read that completes in disagreement, or a read
\* that was begun with events of an earlier request or connection queued.
PauseHasCause ==
    [][~c.paused /\ c'.paused /\ c.matched # None =>
          \/ blame \/ ~begun.alone
          \/ c'.completed # c.completed
          \/ c.gap.on /\ c.completed > c.gap.serial]_vars

\* A gap ends: agreement is found or the pause is latched.
GapEnds == c.gap.on ~> (~c.gap.on \/ c.gap.expired)

=============================================================================
