----------------------------- MODULE HedgeSizing -----------------------------
(***************************************************************************)
(* What an opportunity promises and what its hedges cost: the sizing and   *)
(* pricing of analytics/payoff.py, and the fills of a batch hedged one by  *)
(* one at the lowest asks (persistence/repository.py,                      *)
(* execution/coordinator.py).  The rest of a batch is quoted again after   *)
(* every fill by the same code (_cancel_unprofitable_residual).            *)
(*                                                                         *)
(* Money is in ticks times share steps times Den, all integers; a dollar   *)
(* is Par ticks.  A ratio is Ratio[m] / Den share steps per contract.  The *)
(* asks lie on the tick grid and stay while a quote is being hedged.  Left *)
(* out: margin and return on capital, the texts of the gates, the moves of *)
(* the market, and the venue's least order size: that a hedge proceeds     *)
(* means that it is sized and priced, not that the venue takes it.         *)
(***************************************************************************)
EXTENDS Integers, FiniteSetsExt

CONSTANTS
    Contracts,     \* of a batch
    Ratio, Den,    \* hedge_shares_per_contract, by move
    Edge,          \* gain of a contract, were the rate not to move
    Par,           \* ticks of a dollar
    Tick,
    PostCap,       \* polymarket_hard_price_cap
    EmergencyCap,  \* polymarket_emergency_max_price
    Fee,           \* taker fee of a share step, by price
    Commission,
    AskBooks       \* the books a leg may have: shares asked, by price

VARIABLES
    asks,     \* shares asked, by leg and price
    filled,   \* contracts of the batch filled
    owed,     \* hedge shares due and not bought, by leg
    quote,    \* the latest opportunity
    spent     \* by leg, since that quote

vars == <<asks, filled, owed, quote, spent>>

Moves == {0, 25, 50}
Legs == {25, 50}
Prices == 1..(Par - 1)

Ceiling(a, b) == -((-a) \div b)
Smaller(a, b) == IF a <= b THEN a ELSE b
Larger(a, b) == IF a >= b THEN a ELSE b
Total(f, S) == MapThenSumSet(LAMBDA x : f[x], S)

-----------------------------------------------------------------------------
(* Sizing *)

RoundSharesUp(shares) == Ceiling(shares, Den)

\* Mutant: every fill is rounded up by itself.
RoundedEachFill(ratio, before, additional) == RoundSharesUp(ratio * additional)

\* The batch's rounded shares, allocated across its fills.
IncrementalHedgeShares(ratio, before, additional) ==
    RoundSharesUp(ratio * (before + additional)) - RoundSharesUp(ratio * before)

-----------------------------------------------------------------------------
(* Depth *)

\* Cheapest asks first, from the prices offered.
WalkAsks(book, shares, offered) ==
    LET rest(p) == Larger(0, shares - Total(book, {x \in offered : x < p}))
        fills == [p \in Prices |-> IF p \in offered THEN Smaller(book[p], rest(p)) ELSE 0]
        used == {p \in Prices : fills[p] > 0}
    IN [fills |-> fills,
        filled |-> Total(fills, Prices),
        cost |-> Total([p \in Prices |-> p * fills[p]], Prices),
        fees |-> Total([p \in Prices |-> Fee[p] * fills[p]], Prices),
        sufficient |-> Total(fills, Prices) = shares,
        worst |-> IF used = {} THEN 0 ELSE Max(used)]

\* The lowest ask inside the cap, 0 if there is none.
MarketableLimitPrice(book, cap) ==
    LET offered == {p \in Prices : book[p] > 0}
    IN IF offered = {} \/ Min(offered) > cap THEN 0 ELSE Min(offered)

\* Only the leg of the larger move may take the next tick too.
PlanHedgeEntry(leg, book, shares, cap) ==
    LET lowest == MarketableLimitPrice(book, cap)
        ceiling == IF leg = 50 THEN Smaller(cap, lowest + Tick) ELSE lowest
        offered == {p \in Prices : /\ lowest # 0 /\ lowest <= p /\ p <= ceiling
                                   /\ (p - lowest) % Tick = 0}
    IN WalkAsks(book, shares, offered)

-----------------------------------------------------------------------------
(* build_three_state_opportunity *)

Payout(leg, move) == IF (leg = 25 /\ move = 25) \/ (leg = 50 /\ move >= 50) THEN Par ELSE 0

\* Futures and tokens in one scenario.
GrossPnl(contracts, shares, cost, move) ==
    contracts * (Edge - (IF move = 0 THEN 0 ELSE Ratio[move] * Par))
      + Den * Total([leg \in Legs |-> shares[leg] * Payout(leg, move) - cost[leg]], Legs)

Worst(contracts, shares, depth, costs) ==
    Min({GrossPnl(contracts, shares, [leg \in Legs |-> depth[leg].cost], move) - costs :
            move \in Moves})

Opportunity(before, contracts) ==
    LET shares == [leg \in Legs |-> IncrementalHedgeShares(Ratio[leg], before, contracts)]
        entry == [leg \in Legs |-> PlanHedgeEntry(leg, asks[leg], shares[leg], PostCap)]
        emergency == [leg \in Legs |-> WalkAsks(asks[leg], shares[leg], 1..EmergencyCap)]
        fees == Total([leg \in Legs |-> Larger(entry[leg].fees, emergency[leg].fees)], Legs)
        costs == contracts * Commission + Den * fees
    IN [complete |-> \A leg \in Legs : /\ entry[leg].sufficient /\ emergency[leg].sufficient
                                      /\ MarketableLimitPrice(asks[leg], PostCap) # 0,
        shares |-> shares,
        minimum |-> Smaller(Worst(contracts, shares, entry, costs),
                            Worst(contracts, shares, emergency, costs)),
        contracts |-> contracts]

-----------------------------------------------------------------------------
NoQuote == [complete |-> FALSE, shares |-> [leg \in Legs |-> 0], minimum |-> 0, contracts |-> 0]
Nothing == [cost |-> 0, fees |-> 0, shares |-> 0]

\* A quote of what is left to fill, everything filled being hedged.
Quote ==
    /\ filled < Contracts /\ owed = [leg \in Legs |-> 0]
    /\ quote' = Opportunity(filled, Contracts - filled)
    /\ spent' = [leg \in Legs |-> Nothing]
    /\ UNCHANGED <<asks, filled, owed>>

\* record_ibkr_execution_and_obligations
Fill(k) ==
    /\ quote.complete /\ filled + k <= Contracts
    /\ owed' = [leg \in Legs |-> owed[leg] + IncrementalHedgeShares(Ratio[leg], filled, k)]
    /\ filled' = filled + k
    /\ UNCHANGED <<asks, quote, spent>>

\* One hedge attempt: the limit is the plan's worst price, the venue fills
\* what is asked up to it, and the rest is cancelled and priced again.
Hedge(leg) ==
    /\ owed[leg] > 0
    /\ LET plan == PlanHedgeEntry(leg, asks[leg], owed[leg], EmergencyCap)
           bought == WalkAsks(asks[leg], owed[leg], 1..plan.worst)
       IN /\ plan.worst # 0
          /\ owed' = [owed EXCEPT ![leg] = @ - bought.filled]
          /\ asks' = [asks EXCEPT ![leg] = [p \in Prices |-> @[p] - bought.fills[p]]]
          /\ spent' = [spent EXCEPT ![leg] = [cost |-> @.cost + bought.cost,
                                              fees |-> @.fees + bought.fees,
                                              shares |-> @.shares + bought.filled]]
    /\ UNCHANGED <<filled, quote>>

\* The books of a new batch.
Offer ==
    /\ filled \in {0, Contracts} /\ owed = [leg \in Legs |-> 0]
    /\ asks' \in [Legs -> AskBooks]
    /\ filled' = 0
    /\ quote' = NoQuote
    /\ spent' = [leg \in Legs |-> Nothing]
    /\ UNCHANGED owed

-----------------------------------------------------------------------------
Init ==
    /\ asks = [leg \in Legs |-> [p \in Prices |-> 0]]
    /\ filled = Contracts
    /\ owed = [leg \in Legs |-> 0]
    /\ quote = NoQuote
    /\ spent = [leg \in Legs |-> Nothing]

Next ==
    \/ Offer \/ Quote
    \/ \E k \in 1..Contracts : Fill(k)
    \/ \E leg \in Legs : Hedge(leg)

Spec == Init /\ [][Next]_vars

TypeOK ==
    /\ asks \in [Legs -> [Prices -> Nat]]
    /\ filled \in 0..Contracts
    /\ owed \in [Legs -> Nat]
    /\ quote.complete \in BOOLEAN /\ quote.minimum \in Int /\ quote.contracts \in 0..Contracts

Realised(move) ==
    GrossPnl(quote.contracts, [leg \in Legs |-> spent[leg].shares],
             [leg \in Legs |-> spent[leg].cost], move)
      - quote.contracts * Commission
      - Den * Total([leg \in Legs |-> spent[leg].fees], Legs)

\* A quote is honored: however the contracts it was for are split into fills,
\* and in whatever order and attempts the fills are hedged on those books, no
\* scenario ends below its minimum net profit.
QuoteHonored ==
    quote.complete /\ filled = Contracts /\ (\A leg \in Legs : owed[leg] = 0) =>
        \A move \in Moves : Realised(move) >= quote.minimum

\* On the books a quote was made for a hedge is never stuck: while shares of
\* its fills are owed, in whatever order legs were bought and by whatever
\* number of attempts, the next attempt has a limit price and buys some.
HedgesProceed ==
    quote.complete =>
        \A leg \in Legs : owed[leg] > 0 =>
            LET plan == PlanHedgeEntry(leg, asks[leg], owed[leg], EmergencyCap)
            IN WalkAsks(asks[leg], owed[leg], 1..plan.worst).filled > 0

=============================================================================
