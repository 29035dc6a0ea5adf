--------------------------- MODULE EntryQualification ---------------------------
(***************************************************************************)
(* From a qualified opportunity to the order sent on it: the analytics     *)
(* loop computes the gates on one snapshot (services/engine.py and         *)
(* risk/engine.py), the coordinator's cycle rereads what it rests on after *)
(* each await (execution/coordinator.py), and meanwhile market data, the   *)
(* operator, IBKR callbacks, account reads and hedges publish to the state *)
(* store (services/state.py), each publication with a new snapshot id.     *)
(*                                                                         *)
(* A gate is TRUE or FALSE, except those that relate two facts: the        *)
(* preview to the bid, the bid to what the hedges leave of it, and the     *)
(* position to its limit.  The opportunity is part of the snapshot: a pass *)
(* of the loop that has no bid, ask or EFFR to compute with leaves the     *)
(* last one published (section 5 of the README).  The handler of a         *)
(* callback holds the coordinator's lock; only CycleReconciles of the      *)
(* cycle takes it.  The life of a batch is ZqBatch's, evidence and gaps    *)
(* are Reconciliation's.  Left out: simulated fills, the ages of previews  *)
(* and of EFFR.                                                            *)
(***************************************************************************)
EXTENDS Integers

CONSTANTS
    Quantity,    \* contracts of an entry, at least one
    Limit,       \* contracts the strategy may hold
    MaxBid,      \* bids are 1..MaxBid, 0 is no price
    MaxChanges,  \* bound on what the market, the operator and IBKR do
    MaxOwned     \* no cycle begins when this many contracts are bought

ASSUME EntryAssumption ==
    /\ Quantity \in Nat \ {0} /\ Limit \in Nat /\ MaxBid \in Nat \ {0}
    /\ MaxChanges \in Nat /\ MaxOwned \in Nat

VARIABLES
    snap,      \* the published snapshot, as far as gates and controls read it; offer is the
               \* price of its tradeable opportunity, 0 if it has none; known, that an ask
               \* and a valid EFFR are there
    same,      \* its id is still the one the cycle was given
    outside,   \* what gates and the final check read outside the snapshot
    led,       \* the ledger
    rec,       \* the coordinator's evidence
    handling,  \* the callback being handled, and where the handler is
    cyc,       \* the cycle: point of control, limit price, ledger revision as expected
    ibkr,      \* IBKR: contracts of the strategy, bought by hand, still working; callbacks due
    changes

vars == <<snap, same, outside, led, rec, handling, cyc, ibkr, changes>>

Bids == 1..MaxBid
Change == changes < MaxChanges /\ changes' = changes + 1

\* StateStore.update: whatever is written, the id is a new one.
Publish(s) == snap' = s /\ same' = FALSE

-----------------------------------------------------------------------------
(* RiskEngine.qualify *)

\* VENUE, MARKET_RULES, ELIGIBILITY and CONTRACT.
VenueGates(s) == s.venues

\* What the opportunity is computed from: bid, ask and a valid EFFR.
InputsKnown(s) == s.bid # 0 /\ s.known

\* CROSS_VENUE: the quote, the hedge books and EFFR are all qualified.
CrossVenueGates(s) == InputsKnown(s) /\ s.market

\* The preview was asked for a limit price that is still the bid.
MarginGates(s) == s.preview = s.bid

PositionGates(s) == s.position >= 0 /\ s.position + Quantity <= Limit
ExecutionGates(s) == ~s.active /\ ~s.unhedged /\ s.clean
OperationGates(s) == ~s.alert /\ ~s.paused /\ ~s.killed /\ ~outside.hold
TimeGates == ~outside.cutoff

\* HEDGE_LIQUIDITY too: the depth prices the hedges, and bought at the bid the
\* contracts earn what is required after them.
EconomicsGates(s) == s.bid <= s.worth

Gates(s) ==
    /\ VenueGates(s) /\ CrossVenueGates(s) /\ MarginGates(s) /\ PositionGates(s)
    /\ ExecutionGates(s) /\ OperationGates(s) /\ EconomicsGates(s)

-----------------------------------------------------------------------------
(* The cycle *)

\* The opportunity _calculate publishes: without its inputs it returns early,
\* and the snapshot keeps the one it had.
Offer(s) ==
    IF ~InputsKnown(s) THEN s.offer ELSE IF Gates(s) /\ TimeGates THEN s.bid ELSE 0

\* state.update(_calculate): the opportunity and its gates on one snapshot,
\* published under the id that the cycle is given.
Calculate ==
    /\ cyc.pc = "idle" /\ ibkr.own < MaxOwned
    /\ snap' = [snap EXCEPT !.offer = Offer(snap)]
    /\ same' = TRUE
    /\ cyc' = [cyc EXCEPT !.pc = "calculated", !.price = Offer(snap)]
    /\ UNCHANGED <<outside, led, rec, handling, ibkr, changes>>

\* A result that is the published one is not published again, if the rest of
\* what it compares has not changed either.
Reconcile ==
    LET clean == ~rec.busy /\ rec.observed = led.position /\ ~led.unhedged
        done == /\ Publish([snap EXCEPT !.clean = clean])
                /\ rec' = [rec EXCEPT !.ledgerSame = clean, !.venueSame = @ \/ clean]
                /\ cyc' = [cyc EXCEPT !.revSame = FALSE]
    IN \/ done
       \/ /\ snap.clean = clean /\ (clean => rec.ledgerSame)
          /\ UNCHANGED <<snap, same, rec, cyc>>

CycleReconciles ==
    /\ cyc.pc = "calculated" /\ handling.pc = "idle"
    /\ Reconcile
    /\ UNCHANGED <<outside, led, handling, ibkr, changes>>

CycleReads ==
    /\ cyc.pc = "calculated"
    /\ cyc' = [cyc EXCEPT !.pc = IF led.active THEN "publish" ELSE "read"]
    /\ UNCHANGED <<snap, same, outside, led, rec, handling, ibkr, changes>>

\* _new_entry_authorized; revision: the ledger is at the one expected.
Authorized(revision) ==
    /\ snap.armed /\ ~outside.hold /\ ~rec.busy
    /\ snap.clean /\ rec.venueSame /\ revision
    /\ ~outside.halt /\ ~snap.paused /\ ~snap.killed /\ ~snap.unhedged

EntryChosen ==
    /\ cyc.pc = "read"
    /\ cyc' = IF Authorized(rec.ledgerSame) /\ cyc.price # 0
              THEN [cyc EXCEPT !.pc = "chosen", !.revSame = TRUE]
              ELSE [cyc EXCEPT !.pc = "publish"]
    /\ UNCHANGED <<snap, same, outside, led, rec, handling, ibkr, changes>>

\* Mutant: the price is compared, the snapshot is not.
SameBid == snap.bid = cyc.price

Unchanged == same /\ snap.bid = cyc.price

\* Before the preflight and after it.
EntryChecked(from, to) ==
    /\ cyc.pc = from
    /\ cyc' = [cyc EXCEPT !.pc = IF Unchanged THEN to ELSE "publish"]
    /\ UNCHANGED <<snap, same, outside, led, rec, handling, ibkr, changes>>

\* The preflight times out or refuses: the loop reports it and starts again.
PreflightFails ==
    /\ cyc.pc = "preflight" /\ Change
    /\ Publish([snap EXCEPT !.alert = TRUE])
    /\ cyc' = [cyc EXCEPT !.pc = "idle"]
    /\ UNCHANGED <<outside, led, rec, handling, ibkr>>

\* create_zq_batch_intent: the one revision the final check expects.
EntryIntent ==
    /\ cyc.pc = "intent"
    /\ led' = [led EXCEPT !.active = TRUE]
    /\ rec' = [rec EXCEPT !.ledgerSame = FALSE]
    /\ cyc' = [cyc EXCEPT !.pc = "final"]
    /\ UNCHANGED <<snap, same, outside, handling, ibkr, changes>>

MayEnter == Unchanged /\ Authorized(cyc.revSame) /\ ~outside.overflow

\* No await between the final check and the send.
EntrySends ==
    /\ cyc.pc = "final" /\ MayEnter
    /\ ibkr' = [ibkr EXCEPT !.left = Quantity]
    /\ cyc' = [cyc EXCEPT !.pc = "sent"]
    /\ UNCHANGED <<snap, same, outside, led, rec, handling, changes>>

EntryAbandons ==
    /\ cyc.pc = "final" /\ ~MayEnter
    /\ led' = [led EXCEPT !.active = FALSE]
    /\ cyc' = [cyc EXCEPT !.pc = "publish"]
    /\ UNCHANGED <<snap, same, outside, rec, handling, ibkr, changes>>

EntryInvalidates ==
    /\ cyc.pc = "sent"
    /\ Publish([snap EXCEPT !.clean = FALSE])
    /\ cyc' = [cyc EXCEPT !.pc = "publish"]
    /\ UNCHANGED <<outside, led, rec, handling, ibkr, changes>>

\* set_execution_state: what the ledger says, by the cycle and by a handler.
LedgerPublished == Publish([snap EXCEPT !.active = led.active, !.unhedged = led.unhedged])

CyclePublishes ==
    /\ cyc.pc = "publish"
    /\ LedgerPublished
    /\ cyc' = [cyc EXCEPT !.pc = "idle", !.price = 0, !.revSame = FALSE]
    /\ UNCHANGED <<outside, led, rec, handling, ibkr, changes>>

-----------------------------------------------------------------------------
(* handle_ibkr_event, one step for each await that changes something *)

CallbackNoted(kind) ==
    /\ handling.pc = "idle" /\ kind \in ibkr.due
    /\ ibkr' = [ibkr EXCEPT !.due = @ \ {kind}]
    /\ handling' = [pc |-> "invalidate", kind |-> kind]
    /\ rec' = [rec EXCEPT !.venueSame = FALSE]
    /\ UNCHANGED <<snap, same, outside, led, cyc, changes>>

CallbackInvalidates ==
    /\ handling.pc = "invalidate"
    /\ Publish([snap EXCEPT !.clean = FALSE])
    /\ handling' = [handling EXCEPT !.pc = "apply"]
    /\ UNCHANGED <<outside, led, rec, cyc, ibkr, changes>>

Applies(kind) ==
    /\ handling.pc = "apply" /\ handling.kind = kind
    /\ handling' = [handling EXCEPT !.pc = "reconcile"]

ExecutionRecorded ==
    /\ Applies("execution")
    /\ led' = [led EXCEPT !.position = ibkr.own, !.unhedged = TRUE]
    /\ rec' = [rec EXCEPT !.ledgerSame = FALSE]
    /\ cyc' = [cyc EXCEPT !.revSame = FALSE]
    /\ UNCHANGED <<snap, same, outside, ibkr, changes>>

\* The positions of a read under way are published by its end.
PositionObserved ==
    /\ Applies("position")
    /\ rec' = [rec EXCEPT !.observed = ibkr.own + ibkr.manual]
    /\ IF rec.busy THEN UNCHANGED <<snap, same>>
       ELSE Publish([snap EXCEPT !.position = ibkr.own + ibkr.manual])
    /\ UNCHANGED <<outside, led, cyc, ibkr, changes>>

ReadEnds ==
    /\ Applies("end")
    /\ rec' = [rec EXCEPT !.busy = FALSE, !.observed = ibkr.own + ibkr.manual]
    /\ Publish([snap EXCEPT !.position = ibkr.own + ibkr.manual])
    /\ UNCHANGED <<outside, led, cyc, ibkr, changes>>

CallbackReconciles ==
    /\ handling.pc = "reconcile"
    /\ Reconcile
    /\ handling' = [handling EXCEPT !.pc = "publish"]
    /\ UNCHANGED <<outside, led, ibkr, changes>>

CallbackPublishes ==
    /\ handling.pc = "publish"
    /\ LedgerPublished
    /\ handling' = [pc |-> "idle", kind |-> "none"]
    /\ UNCHANGED <<outside, led, rec, cyc, ibkr, changes>>

\* begin_ibkr_reconciliation, under the lock: the positions start over.
ReadBegins ==
    /\ handling.pc = "idle" /\ ~rec.busy /\ Change
    /\ rec' = [rec EXCEPT !.busy = TRUE, !.observed = 0]
    /\ Publish([snap EXCEPT !.clean = FALSE])
    /\ ibkr' = [ibkr EXCEPT !.due = @ \cup {"end"}]
    /\ UNCHANGED <<outside, led, handling, cyc>>

\* The hedge task: the hedges settle and end a batch that is filled.
HedgesSettle ==
    /\ led.unhedged
    /\ led' = [led EXCEPT !.unhedged = FALSE,
                          !.active = @ /\ (ibkr.left > 0 \/ ibkr.own # led.position)]
    /\ rec' = [rec EXCEPT !.ledgerSame = FALSE]
    /\ cyc' = [cyc EXCEPT !.revSame = FALSE]
    /\ UNCHANGED <<snap, same, outside, handling, ibkr, changes>>

-----------------------------------------------------------------------------
(* Everyone else who writes what an entry rests on *)

\* Ticks, books, farms, streams and EFFR; a side of the quote may go away, and
\* EFFR be valid no more.
MarketMoves ==
    /\ Change
    /\ \/ Publish([snap EXCEPT !.market = ~@])
       \/ Publish([snap EXCEPT !.known = ~@])
       \/ \E bid \in 0..MaxBid : Publish([snap EXCEPT !.bid = bid])
       \/ \E worth \in 0..MaxBid : Publish([snap EXCEPT !.worth = worth])
    /\ UNCHANGED <<outside, led, rec, handling, cyc, ibkr>>

\* Connections, market mapping, eligibility, contract details.
VenuesChange ==
    /\ Change
    /\ Publish([snap EXCEPT !.venues = ~@])
    /\ UNCHANGED <<outside, led, rec, handling, cyc, ibkr>>

\* A preview comes for the bid it was asked at, which may have moved since.
PreviewArrives ==
    /\ Change
    /\ \E bid \in Bids : Publish([snap EXCEPT !.preview = bid])
    /\ UNCHANGED <<outside, led, rec, handling, cyc, ibkr>>

\* Arming clears the pause and is refused after a halt; alerts come and are
\* acknowledged.
OperatorControls ==
    /\ Change
    /\ \/ ~snap.killed /\ Publish([snap EXCEPT !.armed = TRUE, !.paused = FALSE])
       \/ Publish([snap EXCEPT !.armed = FALSE])
       \/ Publish([snap EXCEPT !.armed = FALSE, !.paused = TRUE])
       \/ Publish([snap EXCEPT !.alert = ~@])
    /\ UNCHANGED <<outside, led, rec, handling, cyc, ibkr>>

\* halt: the flag first, then what it publishes.
Halt ==
    /\ Change
    /\ outside' = [outside EXCEPT !.halt = TRUE]
    /\ UNCHANGED <<snap, same, led, rec, handling, cyc, ibkr>>

HaltPublished ==
    /\ outside.halt /\ ~snap.killed
    /\ Publish([snap EXCEPT !.armed = FALSE, !.paused = TRUE, !.killed = TRUE])
    /\ UNCHANGED <<outside, led, rec, handling, cyc, ibkr, changes>>

\* The clock reaches a maintenance window or the cutoff; the ingress overflows.
OutsideMoves ==
    /\ Change
    /\ \/ outside' = [outside EXCEPT !.hold = ~@]
       \/ outside' = [outside EXCEPT !.cutoff = TRUE]
       \/ outside' = [outside EXCEPT !.overflow = TRUE]
    /\ UNCHANGED <<snap, same, led, rec, handling, cyc, ibkr>>

-----------------------------------------------------------------------------
(* IBKR (external) *)

IbkrFills ==
    /\ ibkr.left > 0
    /\ ibkr' = [ibkr EXCEPT !.own = @ + 1, !.left = @ - 1, !.due = @ \cup {"execution", "position"}]
    /\ UNCHANGED <<snap, same, outside, led, rec, handling, cyc, changes>>

ManualTrade ==
    /\ Change
    /\ ibkr' = [ibkr EXCEPT !.manual = @ + 1, !.due = @ \cup {"position"}]
    /\ UNCHANGED <<snap, same, outside, led, rec, handling, cyc>>

\* A running engine, connected, armed, flat and reconciled.
Init ==
    /\ snap = [venues |-> TRUE, market |-> TRUE, known |-> TRUE, bid |-> 1, worth |-> 1,
               preview |-> 1, offer |-> 0, position |-> 0,
               active |-> FALSE, unhedged |-> FALSE, clean |-> TRUE, alert |-> FALSE,
               paused |-> FALSE, killed |-> FALSE, armed |-> TRUE]
    /\ same = FALSE
    /\ outside = [hold |-> FALSE, cutoff |-> FALSE, halt |-> FALSE, overflow |-> FALSE]
    /\ led = [position |-> 0, active |-> FALSE, unhedged |-> FALSE]
    /\ rec = [busy |-> FALSE, venueSame |-> TRUE, ledgerSame |-> TRUE, observed |-> 0]
    /\ handling = [pc |-> "idle", kind |-> "none"]
    /\ cyc = [pc |-> "idle", price |-> 0, revSame |-> FALSE]
    /\ ibkr = [own |-> 0, manual |-> 0, left |-> 0, due |-> {}]
    /\ changes = 0

Next ==
    \/ Calculate \/ CycleReconciles \/ CycleReads \/ EntryChosen
    \/ EntryChecked("chosen", "preflight") \/ EntryChecked("preflight", "intent")
    \/ PreflightFails \/ EntryIntent \/ EntrySends \/ EntryAbandons \/ EntryInvalidates
    \/ CyclePublishes
    \/ \E kind \in ibkr.due : CallbackNoted(kind)
    \/ CallbackInvalidates \/ ExecutionRecorded \/ PositionObserved \/ ReadEnds
    \/ CallbackReconciles \/ CallbackPublishes
    \/ ReadBegins \/ HedgesSettle
    \/ MarketMoves \/ VenuesChange \/ PreviewArrives
    \/ OperatorControls \/ Halt \/ HaltPublished \/ OutsideMoves
    \/ IbkrFills \/ ManualTrade

Spec == Init /\ [][Next]_vars

\* The types of the snapshot, the ledger, the evidence and the three actors.
TypeOK ==
    /\ snap \in [venues : BOOLEAN, market : BOOLEAN, known : BOOLEAN, bid : 0..MaxBid,
                 worth : 0..MaxBid, preview : Bids, offer : 0..MaxBid, position : Nat,
                 active : BOOLEAN, unhedged : BOOLEAN, clean : BOOLEAN,
                 alert : BOOLEAN, paused : BOOLEAN, killed : BOOLEAN, armed : BOOLEAN]
    /\ same \in BOOLEAN
    /\ outside \in [hold : BOOLEAN, cutoff : BOOLEAN, halt : BOOLEAN, overflow : BOOLEAN]
    /\ led \in [position : Nat, active : BOOLEAN, unhedged : BOOLEAN]
    /\ rec \in [busy : BOOLEAN, venueSame : BOOLEAN, ledgerSame : BOOLEAN, observed : Nat]
    /\ handling \in [pc : {"idle", "invalidate", "apply", "reconcile", "publish"},
                     kind : {"none", "execution", "position", "end"}]
    /\ cyc \in [pc : {"idle", "calculated", "read", "chosen", "preflight", "intent", "final",
                      "sent", "publish"}, price : 0..MaxBid, revSame : BOOLEAN]
    /\ ibkr \in [own : Nat, manual : Nat, left : 0..Quantity,
                 due : SUBSET {"execution", "position", "end"}]
    /\ changes \in 0..MaxChanges

\* An order is sent at the bid, while the operator has neither disarmed, paused
\* nor halted, and no fill the ledger knows is unhedged.  If the bid, the ask
\* and EFFR are there, every gate of the published snapshot holds again at that
\* moment (the clock's cutoff apart), and filled in full the order stays within
\* the limit by the ledger's own position, not only by the published one.
EntryOnCurrentFacts ==
    [][ibkr'.left > ibkr.left =>
          /\ cyc.price = snap.bid
          /\ snap.armed /\ ~snap.paused /\ ~outside.halt /\ ~led.unhedged
          /\ InputsKnown(snap) => Gates(snap) /\ led.position + Quantity <= Limit]_vars

\* "every other entry gate must pass before submission" (src/README.md:110).
\* Violated: without ask or EFFR the gates are not computed, and the last
\* opportunity they let through is sent again.
EntryGatesHold == [][ibkr'.left > ibkr.left => Gates(snap)]_vars

=============================================================================
