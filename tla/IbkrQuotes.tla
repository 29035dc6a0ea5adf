------------------------------ MODULE IbkrQuotes ------------------------------
(***************************************************************************)
(* The quote of the traded ZQ month (services/state.py) and the streaming  *)
(* subscription behind it (adapters/ibkr.py, services/engine.py): ticks    *)
(* carry the request id they answer, connectivity and farm errors suspend  *)
(* the quote, and two loops subscribe again.  A quote is ACTIVE when it    *)
(* may qualify an opportunity.                                             *)
(*                                                                         *)
(* The state store's lock is never held across an await, so each of its    *)
(* updates is one step; the consumer does wait for the coordinator's lock  *)
(* between the check of an event and its application.  A side of the quote *)
(* is known by the request and the generation it was applied under.  Left  *)
(* out: prices (two sides are taken as uncrossed), delayed and frozen      *)
(* data, the other months, contract verification, alerts.                  *)
(***************************************************************************)
EXTENDS Naturals, Sequences

CONSTANTS
    MaxRequests,   \* bound on subscriptions requested
    MaxTicks,      \* bound on ticks sent
    MaxFaults      \* bound on lost connections, connectivity and farm losses

VARIABLES
    quote,      \* status, both sides
    meta,       \* generation, generation preallocated, resubscription required
    farm,       \* ibkr_farms["US_FUTURES"]
    request,    \* the request id ticks are accepted of (0: none), and the last one
    link,       \* the connection loop and IBKR: up, ready, subscribed, an outage
    events,     \* queued between IBKR and the state store
    held,       \* the event the consumer has checked
    ticks,
    faults

vars == <<quote, meta, farm, request, link, events, held, ticks, faults>>

NoSide == [request |-> 0, generation |-> 0, straggler |-> FALSE]
Nothing == [kind |-> "none"]
Statuses == {"PENDING_REVALIDATION", "ACTIVE", "SUSPECT", "DISCONNECTED"}
TickKinds == {"bid", "ask", "size"}

TwoSided(q) == q.bid.request # 0 /\ q.ask.request # 0

-----------------------------------------------------------------------------
(* Subscriptions *)

\* Mutant: the prices of the replaced subscription are kept.
BegunKeepingPrices(advance) ==
    /\ meta' = [generation |-> meta.generation + (IF advance THEN 1 ELSE 0),
                preallocated |-> FALSE, required |-> FALSE]
    /\ quote' = [quote EXCEPT !.status = "PENDING_REVALIDATION"]

BeginIbkrSubscriptions(advance) ==
    /\ meta' = [generation |-> meta.generation + (IF advance THEN 1 ELSE 0),
                preallocated |-> FALSE, required |-> FALSE]
    /\ quote' = [status |-> "PENDING_REVALIDATION", bid |-> NoSide, ask |-> NoSide]

RequestMarketData ==
    /\ request.last < MaxRequests
    /\ request' = [current |-> request.last + 1, last |-> request.last + 1]

\* The connection is up again and CONNECTED was processed.
SubscribeOnConnect ==
    /\ link.up /\ link.ready /\ ~link.subscribed
    /\ BeginIbkrSubscriptions(TRUE)
    /\ RequestMarketData
    /\ link' = [link EXCEPT !.subscribed = TRUE]
    /\ UNCHANGED <<farm, events, held, ticks, faults>>

\* _ibkr_market_data_supervisor_loop
Resubscribe ==
    /\ link.up /\ meta.required
    /\ BeginIbkrSubscriptions(~meta.preallocated)
    /\ RequestMarketData
    /\ UNCHANGED <<farm, link, events, held, ticks, faults>>

\* connect(): retired requests are forgotten before any new one is made.
Connect ==
    /\ ~link.up
    /\ link' = [up |-> TRUE, ready |-> FALSE, subscribed |-> FALSE, outage |-> "none"]
    /\ request' = [request EXCEPT !.current = 0]
    /\ events' = Append(events, [kind |-> "connected"])
    /\ UNCHANGED <<quote, meta, farm, held, ticks, faults>>

Fault == faults < MaxFaults /\ faults' = faults + 1

ConnectionClosed ==
    /\ link.up /\ Fault
    /\ link' = [link EXCEPT !.up = FALSE]
    /\ events' = Append(events, [kind |-> "disconnected"])
    /\ UNCHANGED <<quote, meta, farm, request, held, ticks>>

-----------------------------------------------------------------------------
(* IBKR (external) *)

TickArrives(k) ==
    /\ link.up /\ link.outage = "none" /\ request.current # 0 /\ ticks < MaxTicks
    /\ ticks' = ticks + 1
    /\ events' = Append(events, [kind |-> k, request |-> request.current])
    /\ UNCHANGED <<quote, meta, farm, request, link, held, faults>>

\* 1100, 2103: no ticks until 1101, 1102 and 2104 end it.
ServiceLost(k) ==
    /\ link.up /\ link.outage = "none" /\ Fault
    /\ link' = [link EXCEPT !.outage = k]
    /\ events' = Append(events, [kind |-> k])
    /\ UNCHANGED <<quote, meta, farm, request, held, ticks>>

ServiceRestored ==
    /\ link.up /\ link.outage # "none"
    /\ link' = [link EXCEPT !.outage = "none"]
    /\ events' = Append(events, [kind |-> IF link.outage = "lost" THEN "restored" ELSE "farm_up"])
    /\ UNCHANGED <<quote, meta, farm, request, held, ticks, faults>>

\* 2104 at startup
FarmAnnounced ==
    /\ link.up /\ link.outage = "none" /\ farm = "UNKNOWN"
    /\ \A i \in 1..Len(events) : events[i].kind # "farm_up"
    /\ held.kind # "farm_up"
    /\ events' = Append(events, [kind |-> "farm_up"])
    /\ UNCHANGED <<quote, meta, farm, request, link, held, ticks, faults>>

-----------------------------------------------------------------------------
(* The consumer *)

Retired(e) == e.kind \in TickKinds /\ e.request # request.current

CheckEvent ==
    /\ held = Nothing /\ events # <<>>
    /\ events' = Tail(events)
    /\ held' = IF Retired(Head(events)) THEN Nothing ELSE Head(events)
    /\ UNCHANGED <<quote, meta, farm, request, link, ticks, faults>>

Revalidated(q) ==
    IF farm = "CONNECTED" /\ TwoSided(q) THEN [q EXCEPT !.status = "ACTIVE"] ELSE q

Side(e) == [request |-> e.request, generation |-> meta.generation,
            straggler |-> e.request # request.last]

ApplyTick(e) ==
    /\ quote' = Revalidated(CASE e.kind = "bid" -> [quote EXCEPT !.bid = Side(e)]
                              [] e.kind = "ask" -> [quote EXCEPT !.ask = Side(e)]
                              [] e.kind = "size" -> quote)
    /\ UNCHANGED <<meta, farm, link>>

Invalidated(status) == quote' = [quote EXCEPT !.status = status]

FarmDown ==
    /\ farm' = "DISCONNECTED"
    /\ Invalidated("SUSPECT")
    /\ UNCHANGED <<meta, link>>

FarmUp ==
    /\ farm' = "CONNECTED"
    /\ IF farm = "DISCONNECTED"
       THEN Invalidated("PENDING_REVALIDATION") /\ meta' = [meta EXCEPT !.required = TRUE]
       ELSE /\ quote' = IF farm = "UNKNOWN" /\ TwoSided(quote)
                        THEN [quote EXCEPT !.status = "ACTIVE"] ELSE quote
            /\ UNCHANGED meta
    /\ UNCHANGED link

Lost1100 ==
    /\ Invalidated("DISCONNECTED")
    /\ meta' = [meta EXCEPT !.generation = @ + 1, !.preallocated = TRUE]
    /\ UNCHANGED <<farm, link>>

Restored1102 ==
    /\ Invalidated("PENDING_REVALIDATION")
    /\ meta' = [meta EXCEPT !.required = TRUE]
    /\ UNCHANGED <<farm, link>>

ApplyEvent ==
    /\ held # Nothing
    /\ held' = Nothing
    /\ CASE held.kind \in TickKinds      -> ApplyTick(held)
         [] held.kind = "farm_down"      -> FarmDown
         [] held.kind = "farm_up"        -> FarmUp
         [] held.kind = "lost"           -> Lost1100
         [] held.kind = "restored"       -> Restored1102
         [] held.kind = "connected"      -> /\ link' = [link EXCEPT !.ready = TRUE]
                                            /\ UNCHANGED <<quote, meta, farm>>
         [] held.kind = "disconnected"   -> /\ Invalidated("DISCONNECTED")
                                            /\ link' = [link EXCEPT !.ready = FALSE]
                                            /\ UNCHANGED <<meta, farm>>
    /\ UNCHANGED <<request, events, ticks, faults>>

-----------------------------------------------------------------------------
Init ==
    /\ quote = [status |-> "PENDING_REVALIDATION", bid |-> NoSide, ask |-> NoSide]
    /\ meta = [generation |-> 0, preallocated |-> FALSE, required |-> FALSE]
    /\ farm = "UNKNOWN"
    /\ request = [current |-> 0, last |-> 0]
    /\ link = [up |-> FALSE, ready |-> FALSE, subscribed |-> FALSE, outage |-> "none"]
    /\ events = <<>> /\ held = Nothing
    /\ ticks = 0 /\ faults = 0

Next ==
    \/ Connect \/ ConnectionClosed \/ SubscribeOnConnect \/ Resubscribe
    \/ \E k \in TickKinds : TickArrives(k)
    \/ \E k \in {"lost", "farm_down"} : ServiceLost(k)
    \/ ServiceRestored \/ FarmAnnounced \/ CheckEvent \/ ApplyEvent

Spec == Init /\ [][Next]_vars

TypeOK ==
    LET Sides == [request : 0..MaxRequests, generation : Nat, straggler : BOOLEAN]
    IN /\ quote \in [status : Statuses, bid : Sides, ask : Sides]
       /\ meta \in [generation : Nat, preallocated : BOOLEAN, required : BOOLEAN]
       /\ farm \in {"UNKNOWN", "CONNECTED", "DISCONNECTED"}
       /\ request \in [current : 0..MaxRequests, last : 0..MaxRequests]
       /\ link \in [up : BOOLEAN, ready : BOOLEAN, subscribed : BOOLEAN,
                   outage : {"none", "lost", "farm_down"}]

\* However often the month is subscribed again, no price of an earlier request
\* makes its quote ACTIVE, save one tick the consumer had already checked.
QuoteRebuilt ==
    quote.status = "ACTIVE" =>
        /\ quote.bid.request = request.last \/ quote.bid.straggler
        /\ quote.ask.request = request.last \/ quote.ask.straggler
        /\ ~(quote.bid.straggler /\ quote.ask.straggler)

\* ZQ_POLYMARKET_ARBITRAGE_ENGINE_DESIGN.md:782 "A subscription becomes
\* `ACTIVE` only after current-generation streaming callbacks have rebuilt a
\* complete positive uncrossed live bid/ask".
ActiveIsCurrentGeneration ==
    quote.status = "ACTIVE" =>
        /\ quote.bid.generation = meta.generation
        /\ quote.ask.generation = meta.generation

=============================================================================
