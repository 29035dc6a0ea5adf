# Formal models of the ZQ / Polymarket arbitrage engine

The program buys a ZQ future at IBKR and, contract by contract, hedges every
fill by buying shares of outcome tokens at Polymarket. What matters is that the
two sides never come apart: every ZQ fill is hedged once, never twice, through
lost answers, late and repeated reports, crashes and cancellations; and no new
entry is sent before the last one is over. This directory holds TLA+ models of
the code that is responsible for that, the TLC runs that check them on small
instances, and TLAPS proofs of every safety property for all values of
the constants. Paths below are relative to `src/src/zq_arb/` unless they say
otherwise.

1. [The system](#1-the-system)
2. [The modules and the code](#2-the-modules-and-the-code)
3. [The runs](#3-the-runs)
4. [The proofs](#4-the-proofs)
5. [Where code and documents disagree](#5-where-code-and-documents-disagree)
6. [Limits](#6-limits)
7. [Plan](#7-plan)

## 1. The system

One Python process, one asyncio loop, one SQLite (or PostgreSQL) ledger, two
venues. The loop interleaves tasks at every `await`; a transaction of the
ledger is serial (`Database.session` holds a lock from its first statement to
its commit); the process may stop between any two of them.

| Component | State it keeps | Operations | Correct when |
| --- | --- | --- | --- |
| **Hedge ledger** `persistence/hedge_ledger.py` | Polymarket orders (state, `terminal_verified`, `venue_matched_shares`), their executions with settlement status, obligation totals, venue receipts | intent, submission state, accept, status, verify, record execution, refresh, save/finish receipt | cached totals are those of the fills; an order's reservation is released only on conclusive evidence; settled statuses stay |
| **Hedge task** `coordinator._route_one_hedge`, `_post_prepared`, `_run_hedge` | locals across awaits, per-obligation lock, timeout | look up, verify, cancel, replay, size, sign, store, post, accept | the venue is never asked for more than is owed; every stored order is resolved in the end |
| **Batch repository** `persistence/repository.py` | batches, IBKR orders, executions, obligations | intent, send mark, abandon, status, execution + obligation, cancel pending, refresh, normalise at startup | COMPLETE means over and hedged; a late fill is never hidden |
| **Execution coordinator** `execution/coordinator.py` | account-read markers, open orders, callback gap, reconciliation signature, cancel times, tasks | cycle and entry, IBKR callbacks, Polymarket events, cancel, halt, reconcile, maintain, shutdown test | an entry is sent only on evidence that still holds at the send |
| **Database** `persistence/database.py` | transaction lock, ledger revision | session | one transaction at a time, and every write moves the revision |
| **State store** `services/state.py` | published snapshot: quotes, books, subscriptions, operating state, reconciliation, alerts | apply event, begin subscription, publish | nothing of a retired subscription is published |
| **Engine runtime** `services/engine.py` | event queues, stream generation, worker tasks, stop flags | loops, consumers, reconnects, shutdown | no event of a closed stream is applied; shutdown waits for what is in flight |
| **IBKR adapter** `adapters/ibkr.py` | bounded ingress, drain flag, request maps, next order id | connect, subscribe, submit, cancel, drain | a lost callback is seen; one drain at a time |
| **Polymarket adapter** `adapters/polymarket.py` | clients, streams | sign, post, cancel, get, account, books | a prepared order's identity is its hash |
| **Maintenance hold** `execution/maintenance.py` | one episode: drain, close, recovery deadline | enter, tick, clear | neither resumes on stale evidence nor pauses a drained restart |
| **Batch state machine** `execution/state_machine.py` | a reference transition table | transition | not used by the coordinator; see section 5 |
| **Analytics** `analytics/` | none | payoff, depth walk, probabilities, portfolio, hedge shares | rounded hedge shares telescope to the rounded total |
| **Risk engine** `risk/engine.py` | none | evaluate all gates on one snapshot | every gate is applied |
| **Opening inventory** `persistence/opening_inventory.py` | adoption record | one-shot adoption | adopts only what matches |
| **API and sessions** `api/` | sessions, rate limits | operator controls, views | controls reach the coordinator |
| **EFFR source**, **configuration and domain**, **operator tools**, **web, deploy** | none or their own | fetch, parse, present, package | no part of the trading logic |

How they interact:

* the *cycle* reads the ledger and the published snapshot and, if every gate
  agrees, stores a batch intent and sends one order to IBKR;
* IBKR *callbacks* arrive on another thread, go through the bounded ingress
  into a queue, and are handled one at a time under the coordinator's lock;
  an execution creates the hedge obligations in its own transaction;
* each open obligation has a *hedge task*, restarted by the cycle, that runs
  **outside** the coordinator's lock under a lock per obligation;
* the *account reconciliation* reads every unresolved Polymarket order without
  a lock and applies the answers later; the *user stream* reports orders and
  trades at any time, possibly late and twice;
* `halt`, `cancel_working_zq` and shutdown cancel orders deliberately
  **outside** every lock.

What is hard, and hence what the models are for: an order answer or a ledger
read used after an await in which something else happened; the same fill
reported by four channels in any order; a POST whose outcome is unknown; a
status that overtakes the fill it counts; a crash between a commit and the call
it announces; cancellations that race with the entry and with completion.
`PROJECT.json` lists these hazards at their lines, with the properties that
cover them and, where none does yet, the reason.

## 2. The modules and the code

### HedgeLedger

One obligation, everything that acts on it, and the venue. Obligations share no
ledger rows and each has its own task lock, so one stands for all.

| Model | Code |
| --- | --- |
| attempt `n` | the order whose idempotency key ends in `ATTEMPT:n`; its exchange hash is computed before it is stored, so `n` also names it at the venue |
| `orderState, quantity, verified, venueMatched` | the order row: `state`, `quantity`, `terminal_verified`, `venue_matched_shares` |
| `execStatus[t]` | the status of the execution row of trade `t`, `"NONE"` when there is none |
| `obligation` | the totals and the state that `_refresh_hedge` caches |
| `pc, cur, seen, snap, shares` | the task's await point and its locals |
| `recon` | the answers `_reconcile_polymarket_account_unlocked` has read and not yet applied |
| `ready` | `_recovery_ready`, without which `_hedge_submission_ready()` is false and nothing is posted |
| `vState, tOrder, vHist, posts` | the venue: orders, whose fill each trade is, every status a trade was given, POSTs under way |

Shares are counted in lots and a trade fills one lot, so every sum of
quantities in the code is the cardinality of a set of trades. A ledger method is
one action; an action that follows an await is one of its own. Every transaction
ends, as in the code, with `RefreshHedge`: reopen the orders with more fills
than their verification counted, recompute the totals, choose the state.

| Actions | Handler |
| --- | --- |
| `TaskStart` ... `TaskCancel` | the loop of `_route_one_hedge` over the unresolved orders: look up, replay if unknown, verify, cancel when stale, look up and verify again |
| `TaskSize, TaskDeclines, TaskIntent` | sizing on the obligation, the early returns, signature, and the guarded insert of the intent |
| `TaskSubmit` ... `TaskOutcomeUnknown` | `_post_prepared`, with its three outcomes |
| `TaskTimeout`, `Crash` | `_run_hedge`'s timeout at any await; the process stops and only the rows remain |
| `ReconcileList, ReconcileRead, ReconcileApply` | the account reconciliation |
| `RecoveryReady, RecoveryLost` | what a reconciliation of the ledger with both venues decides of `_recovery_ready`; a lost stream or connection |
| `TradeReported, OrderReported` | trades (stream or history) and order events |
| `VenueTakesPost` ... `VenueSettles` | the venue (external) |

`Lagging = TRUE` lets an answer about an order that is over omit fills it
already had; `Contradictions = TRUE` lets the venue publish both CONFIRMED and
FAILED of one trade. The properties that need the venue to be truthful are
checked and proved with these off, those that do not, with them on.

### ZqBatch

The entry: batches with their IBKR order, the cycle, the callbacks, the
cancellations, IBKR.

| Model | Code |
| --- | --- |
| `batch[b].state, zqStatus, cancelReason, reported` | the batch row with its order row: `state`, `zq_order_status`, `cancel_reason`, `reported_filled_quantity` |
| `batch[b].hedge[k]` | fill `k` of the batch (`execId`) and what the batch sees of its obligation: `DUE`, `PART` (some settled), `COVERED` (all settled, an order unresolved), `DONE` |
| `cancelling` | batches for which `cancel_working_zq` or the cycle has decided to cancel and has not yet marked the row |
| `pc`, `entryFresh` | the cycle's await point; the ledger revision noted by the entry still holds |
| `fresh, clean` | the ledger revision of the last clean reconciliation still holds; the published result |
| `armed` | armed, not paused, not halted |

| Actions | Handler |
| --- | --- |
| `CycleRead, EntryStart, EntryDeclines, EntryIntent` | `cycle`, `_submit_new_batch` up to the intent |
| `EntrySend, EntryAbandon, EntryMark` | the final check with the send (no await between them), the abandoned intent, the mark |
| `OrderStatusCallback, OpenOrderCallback, CompletedOrderCallback, ExecutionCallback` | the IBKR callbacks with the repository transaction each one makes |
| `CancelDecided, CancelMarked` | the cancellations, in the two halves an await separates |
| `HedgeProgress, HedgeReopens` | `_refresh_hedge` as the batch sees it, `_refresh_batch_state` included |
| `Reconcile, Restart` | the published result of a reconciliation; process start |
| `IbkrFills, IbkrEnds` | IBKR (external) |

A reconciliation is clean only if the hedges are done and the ledger has no open
order; the model may also find it unclean at any time, for the reasons that
`Reconciliation` models.

### Obligation and ZqTrading

What the two promise each other and the operator, without rows, tasks or
messages. `Obligation` buys the lots of one fill, one order at a time, and shows
the batch a view (`DUE`, `PART`, `COVERED`, `DONE`, the values of ZqBatch's
`hedge[k]`) that is full only when all is bought and nothing works for it.
`ZqTrading` sends one order at a time, with nothing exposed, and shows a batch
as complete only when that is so. `MCHedgeLedger!ImplementsObligation` and
`MCZqBatch!ImplementsTrading` are the refinement mappings: lots bought are the
fills that have not failed, lots working are what the orders that can trade may
still buy, a contract is exposed while its hedge is not `DONE`. What ZqBatch
assumes of hedges in `HedgeProgress` and `HedgeReopens` is thereby what
HedgeLedger does: with a truthful venue a full view changes only between
`COVERED` and `DONE` (a stale answer reopens an order, section 5). ZqBatch is
the more cautious of the two and also lets a full view be taken back, as a venue
that contradicts itself may.

### Reconciliation

The coordinator's evidence about IBKR and the connection loop that gathers it.

| Model | Code |
| --- | --- |
| `c.got, reading, late, ambiguous, serial, completed` | the four `_ibkr_*_complete` flags (each with the read it answers), `_ibkr_refresh_started`, its deadline, `_ibkr_refresh_ambiguous`, the serials of reads begun and completed |
| `c.open, pos, cbPos, matched, gap` | open orders observed, the position of the read, the callback position, the last position that agreed, the callback gap |
| `c.venueSame, ledgerSame, clean, recovery, paused` | the venue and ledger revisions of the last clean result, and what is published |
| `led, venue, owed, asked, wire` | the order's rows; IBKR; what it still has to send; the event queue |
| `lpc` | the await point of `_ibkr_connection_loop` |

| Actions | Code |
| --- | --- |
| `HandleEvent` | `handle_ibkr_event` whole: the evidence, the row, the end markers, the completed read, and the reconciliation it ends with |
| `Cycle, GapTimesOut, WatchGap, ReadTimesOut, SnapshotAges` | the cycle's reconciliation; the deadlines |
| `Connect` ... `ConnectionLost` | the connection loop between its awaits |
| `PolymarketChanges, PolymarketReadStarts, PolymarketReadEnds, PolymarketReadFails` | the Polymarket half of the evidence |
| `IbkrFills` ... `IbkrAnswers`, `Restart` | IBKR (external), which answers the four requests and sends live callbacks in any order; process start |

`Reconciled` is `_reconcile_ledger_snapshot` with `_classify_ibkr_callbacks`:
which disagreements are unsafe, which of them callbacks under way may explain,
when a gap opens, closes and expires.

### EntryQualification

From the gates to `placeOrder`: the analytics pass (`Calculate`; without bid, ask
or EFFR it leaves the published opportunity as it is, `Offer`), the cycle in
the steps its awaits make (`CycleReconciles`, `CycleReads`, `EntryChosen`,
`EntryChecked`, `EntryIntent`, `EntrySends`, ...), and everything that publishes
or writes in between: callbacks in the four steps of their handler, account
reads, hedges, market data, the operator. `snap` is the published snapshot,
`same` says that its id is still the one the cycle holds, `led` is the ledger,
`rec` the coordinator's evidence. The gates of `RiskEngine.qualify` and
`_cross_venue_checks` are grouped by what they read; those that relate two facts
(preview and bid, bid and what the hedges leave of it, position and limit) are
computed.

### The smaller components

| Module | What it models | State | Actions |
| --- | --- | --- | --- |
| `PolymarketBooks` | one token's book under stream, reconnects and REST reads | `book`, `stream` (generation, reset event), `queue`, `rest`, and `venue`, all changes the venue made | `ProcessEvent` (consumer), `StreamStarts, StreamResets, StreamEnds`, `SnapshotBooks, SnapshotRead` (reference loop) |
| `IbkrQuotes` | the quote of the traded month and its subscription | `quote` (each side known by request and generation), `meta`, `farm`, `request`, `link`, `events`, `held` | `CheckEvent`, then `ApplyEvent` (an await lies between), `Resubscribe`, `SubscribeOnConnect`, ticks, outages, farms |
| `MarginPreview` | what-if orders beside real ones | `context`, `known`, `nextId`, `waiting`, `preview` | the loop's request, end and timeout; the four callbacks, for previews and orders; `PlaceZqOrder` |
| `EngineShutdown` | a callback from the network thread to the ledger, and `stop()` | `ingress`, `drain`, `events`, `handling`, `ledger`, `recon`, `stop` | `EmitCallback, DrainIngress, TakeEvent, BeginEvent, FinishEvent`; `Halt, ReadOrders, ReadObligations, DecideShutdown`; `Disconnect, Connect` |
| `Maintenance` | the daily hold around the Gateway's restart | `slot` (the clock), `hold`, `pass` (a run of `maintain()`), `venue`, `alerts`, `control`, `book`, and `past`, a history that only properties read | `BeginPass, ReadReady, EndPass`; connection, 1100/1102, account reads, reconciliations, fills, operator, `Tick` |
| `HedgeSizing` | `payoff.py`, and a batch's fills hedged on the books it was quoted on, of whatever size (the venue's `min_order_size` is outside the model) | `asks`, `filled`, `owed`, `quote`, `spent` | `Offer`, `Quote`, `Fill(k)`, `Hedge(leg)` |
| `VenueReceipts` | the receipt journal of both venues | `journal`, `recorded`, `work` (the handler between its transactions), `queue` | `Take, SaveVenueReceipt, Record, FinishVenueReceipt`, account reads, `Crash` |

### Instances and composition

`MCHedgeLedger`, `MCZqBatch` and `MCReconciliation` instantiate the large
modules. `MCComponents` extends EntryQualification and puts the smaller
components beside it: a behaviour picks a part and runs it while the others stand still, so
one run explores each of them in full. It also gives the functions that are
constants of HedgeSizing (ratios, fees, books) small values: `MCRatios`,
`MCTakerFee`, `MCAskBooks`. `MCProgress` does the same with ZqBatch and
HedgeLedger, for what must come to an end in each. The states of the parts are disjoint. They touch
each other only through inputs that each takes at any time (the preview's
arrival, a lost connection, a clean or unclean result), hence nothing that one
may do to another is missing. Where two parts share an actor, the same lines
appear in both at the detail each needs: the end of a read is four answers in
`Reconciliation` and one action in `EntryQualification`.

Operators that are named after a slip (`ResolvedByStatus`, `NeverOutrun`,
`BegunCarelessly`, `DrainedLate`, ...) and stand right before the definition
they vary are mutations of it: no action uses them, and each is the witness that
a property depends on that line of the code.

## 3. The runs

| Run | Instance | Checks | States |
| --- | --- | --- | --- |
| `hedge_truthful` | 2 lots owed, 2 orders, 2 trades that match, settle or fail, 1 fault | `TypeOK`, `NoOverHedge`, `OneOrderCanTrade`, `ReleasedOnlyWhenFinal`, `HedgedIsSettled`, `ImplementsObligation` | 2.0 M |
| `hedge_adverse` | 1 lot, 2 orders, 2 trades, lagging answers and contradictions | `AccountingCurrent`, `LateFillsReopen`, `IntentFitsLedger`, `SettlementNeverRegresses` | 2.6 M |
| `hedge_stale` | 2 lots, 1 order | `StaleAnswerNeverReopens`: violated | |
| `zq_batch` | 2 batches of 2 contracts, 2 faults | `TypeOK`, `CompleteIsSettled`, `EntryOnlyWhenSettled`, `TerminalStatusStays`, `ImplementsTrading` | 1.1 M |
| `progress` | 1 batch of 2 contracts, 2 faults, `Cancelled` openOrder callbacks; 1 lot, 2 orders, 1 trade, 2 faults; fairness | `UnhedgedFillIsActive`, `SentBatchesComplete`, `EveryOrderResolves` | 0.1 M |
| `zq_abandoned` | 1 batch of 1 contract, 1 fault | `AbandonedStaysComplete`: violated | |
| `reconcile` | 1 contract, 2 account reads, 1 fault, events that stay queued through a reconnection, fairness | `TypeOK`, `LoneReadIsWhole`, `AuthorizedSeesRead`, `PauseHasCause`, `GapEnds` | 1.5 M |
| `reconcile_backlog` | the same, Polymarket at rest | `CleanReadIsWhole`: violated | |
| `outage_moved` | 2 faults | `EarlierOutageStays`: violated | |
| `entry_stale` | 1 contract, 1 change | `EntryGatesHold`: violated | |
| `quote_revived` | 2 subscriptions, 3 ticks, 1 outage | `ActiveIsCurrentGeneration`: violated | |
| `components` | eight parts, bounds in `Components.cfg`, fairness | `TypesOK` and the thirteen properties below | 0.6 M |

What `components` shows, part by part:

| Property | Says |
| --- | --- |
| `BookMatchesHash`, `BookResynchronizes` | a synchronized book is the venue's at the version its hash names, whatever generations, REST answers and malformed events are mixed; synchronization lost comes back |
| `QuoteRebuilt` | however often the month is subscribed again, no price of an earlier request makes its quote ACTIVE, save one tick the consumer had checked before (`CheckEvent` and `ApplyEvent` are two steps) |
| `PreviewIsNoOrder` | late callbacks about a what-if order are not taken for a real order's, nor the reverse |
| `ReadyIsSettled`, `IngressDrains` | a shutdown that calls itself reconciled has applied every callback the adapter was given and not cleared by a disconnect; an accepted callback is drained |
| `ReleaseIsEarned`, `HoldEnds` | a maintenance hold released without a pause was certified drained by a pass of before the close, has no order or hedge pending at the release, and is released after the outage, unless the connection was lost, or the loss shown, only after the releasing pass took its evidence; every hold ends |
| `QuoteHonored` | however the contracts are split into fills and the fills hedged on the quoted books, no scenario ends below the quoted minimum |
| `HedgesProceed` | on those books a hedge is never without a price: while shares are owed, the next attempt is sized, has a limit and, at the asks quoted, buys some, whatever was filled and bought before. Whether the venue takes an order that small is not asked |
| `FinishedIsRecorded`, `TradesFinish` | a finished receipt's fills are in the ledger; the report of an own trade does not stay open for good, across crashes |
| `EntryOnCurrentFacts` | an order is sent at the bid of that moment, armed, neither paused nor halted, all known fills hedged; if bid, ask and EFFR are there at that moment, also under gates that hold again and within the limit by the ledger's own position. Where they are not, the gates need not hold: `entry_stale` |

*Bounds.* `MaxAttempts`, `MaxFaults`, `MaxBatches` cap what would otherwise
grow; the size of `Trades` caps what the venue fills. Two orders suffice for a
replacement to meet its predecessor. Two trades suffice for two lots:
`NoOverHedge` counts what the working orders could still fill, so a third fill
need not happen to be seen coming. A third order, for a trade that fails after
a replacement was bought, is left to the theorems of section 4, which remove
these bounds for the safety properties. In `progress` one trade is as good as two:
one lot is owed, and what is bought and does not fail is not bought again. Two
batches suffice for an entry to meet an unfinished predecessor, two contracts
for a partial fill. One fault is a crash, a timeout, a lost POST, a lost send, a
reopened hedge or a loss of `ready`.
In `reconcile`, two reads suffice for an answer to meet the wrong read, one
contract for a gap between its execution, status and position; with `MaxWire =
1` a callback may be late by any number of steps and overtaken by any other kind
(`owed` and `asked` are sets), but not queued behind one. In `components`: two
levels and two changes for a mixed book, one reconnection and one REST read; two
subscriptions and an outage; three order ids (a preview, an order, a preview); a
queue of two, which three callbacks overflow; three contracts at ratios of one
and a half and two and a half shares, a tick of one, asks of two or six shares
at two neighbouring prices and of none or two at a third, so that a book may
just suffice, and a fee that is not monotone, so that every rounding and every
non-linear choice of `walk_asks` occurs; one crash and one account read for the
receipts; two faults for maintenance; two changes between the cycle's awaits, and no cycle once `MaxOwned` contracts
are bought, for a stale opportunity is sent again without end (section 5).
`PauseHasCause` was also checked with a third read and a second fault (15 M
states), which takes too long for a run kept here.

*Deadlock* is not checked in the hedge runs: with every order, trade and fault
used up, an obligation that is still owed has nothing left to do. `zq_batch`,
`zq_abandoned` and the runs of `Reconciliation` check it. In the other runs a part may use up its
bounds and stop.

*Fairness* (`progress`, the hedge): the cycle restarts the task of an owed
obligation and the task advances (`TaskAdvances`); the account loop keeps reading and applying;
a posted order reaches the venue; a trade is reported at least once (the trade
history is read in full at each reconciliation). A stored order is posted, and an
unanswered one posted again, only while `ready`, which every disconnection and
difference takes away (a fault) and which is false after a start; it is fair to
come back while the positions agree (`RecoveryReady /\ PositionsAgree`), because
the account loops keep reading and the cycle reconciles every second. That
neither the IBKR side of the reconciliation nor an excess of another obligation
holds it back for good is an assumption about the world: those need the operator.
`TaskReplay` and
`TaskVerifyThenCancel` are strongly fair: they wait for an age (five seconds, the
stale-order timeout), between which the task returns and starts again. Nothing
is assumed about the venue filling or settling anything. The batch in `progress`: an order
ends (it is a DAY order), the account refresh re-reads executions and completed
orders, a decided cancel is marked, and every hedge is settled in the end,
which rests on `EveryOrderResolves` and on a market to buy from, the latter an
assumption about the world. A restart does not interrupt these for good, because
faults are bounded. An order that never reached IBKR is *not* covered: nothing
ends it without the operator (`missing_ibkr_orders`).

In `reconcile`, only the deadline and the watchdog that sleeps for it are fair:
a gap ends even if IBKR never sends another callback. In `components`: the
loops that run for ever (event consumer, stream loop, drain, `maintain()`,
Polymarket account loop) take their turns, the clock advances, and the venue
sends a full book after a subscription; nothing is assumed of fills, operator
or network.

Symmetry is used on trades in safety runs only; no action tells them apart.

## 4. The proofs

All in the eight `*Proofs` modules, checked by `tlapm` with no step left open.
With them every safety property of the passing runs, invariant or action
property, is proved for all values of the constants that the named assumptions
admit, save `PauseHasCause`; liveness is left to TLC.

**HedgeLedgerProofs.** `TypeCorrect`: the type invariant. It is inductive
only with `AnswersReal`, that the answers in the task's and the
reconciliation's hands count trades the order really has, without which
`venueMatched` would be unbounded. The
module also proves what each ledger operation does to types, one lemma per
operation.

**HedgeSafetyProofs.** The steps go through two summaries, `LedgerEffect`
(what any step may do to the rows) and its counterpart for the venue, so that
each invariant looks at a handful of effects and not at 28 actions.

* For every venue, truthful or not (`FactInv`): `AccountingHolds`,
  `LateFillsAlwaysReopen`, `IntentsFitLedger`, `SettlementsStay`.
* Under `~Lagging` (`SafeInv`): `ReleasesAreFinal`, `OneOrderTrades`,
  `NeverOverHedged`. `NoOverHedge` is not inductive. The argument is: an
  answer that says an order is over tells all its fills, and stays true while
  it waits to be applied, for an order that is over gains no fill
  (`AnswersInv`); hence an order is released only when it is final
  (`ReleaseInv`); hence a new intent, which the ledger refuses while an order
  is unresolved, is stored when no order can trade (`OneOrderCanTrade`) and all
  fills are recorded; hence what the ledger leaves open is what is really open,
  and the budget holds.
* Under `~Lagging` and `~Contradictions` (`HedgedInv`): `HedgedMeansSettled`.

**ZqBatchProofs.** `BatchTypeCorrect`, `UnhedgedFillsStayActive`,
`TerminalStatusesStay`, for every venue behaviour. The invariant is a predicate
`RowOK(row, order, fills)` on one batch and IBKR's view of it, so that each
operation on a row is one lemma; `Numbered` and `PhaseOK` say where the cycle is.

In its second half, under `~CancelledOpenOrders`: `CompleteBatchesAreSettled`,
`EntriesFollowSettledBatches`, from the invariant `Safe`: a terminal status
comes with the full count (`FinalOK`); the cycle's finding that no batch is
active survives until the send because a batch that is over stays over
(`OverOK`); and no hedge was taken back meanwhile because the revision noted by
the entry still holds (`DoneOK`). Dropping the revision check from the final
authorization breaks the property (the mutation `AuthorizedByState`).

**HedgeRefinementProofs.** `HedgeImplementsObligation`: with a truthful venue
(`~Lagging`, `~Contradictions`) every step of the ledger, its task and the venue
is a step of `Obligation` or leaves its variables alone. `NoOverHedge` bounds what
an order that can *trade* may still buy, which is not enough for the view: a lot
that failed at the venue before its fill was recorded will be counted as bought
when that fill is reported, so its order must keep its share of the budget until
all its fills are recorded. `PromiseInv` adds that to `SafeInv` (`ReservedInv`:
at most one order is not final, and its whole quantity fits beside what the
others hold), with `ClashInv`, that no trade was both confirmed and failed.

`BatchesImplementTrading`, in **ZqBatchProofs**, is the same for `ZqTrading`.
`Safe` is strong enough for it; the proof says which step trades (`StepTrades`)
and that a complete batch exposes nothing (`TradedHonest`).

**ReconciliationProofs.** `TypeCorrect`, `LoneReadIsWholeHolds` and
`AuthorizedSeesReadHolds`, for every constant, a queue that keeps the events of
earlier connections (`Backlog = TRUE`) included. That every authorization rests
on four answers to one read (`CleanReadIsWhole`) is not true of such a queue
(`reconcile_backlog`); these two say what of it is left, for every state the code
can reach. The invariant is a conjunction:

* `Typing`, and `ReadInv`: an end of executions is counted only for the read
  last asked for, and nothing on its way names a later one.
* `Venue`: no queued event runs ahead of IBKR.
* `FillsInv`: the end of the executions carries the id of its request and is
  counted for the read under way only (`Counted`); it stands in the queue behind
  every execution IBKR had at the request. A restart or another read cannot make
  it say less, so an authorization misses no fill. Counting any end
  (`CountedAny`) breaks it.
* `LoneInv`: of a read begun alone (nothing asked, and in the queue neither a
  connection event nor an end), all that is asked or queued later is its own
  until the connection is lost, and then the reset erases it; so its evidence is
  fresh, partial or whole, and the position it ends with counts all that was
  bought before the request.

`PauseHasCause` is only model-checked, in `reconcile`. It exempts a read that
completes in disagreement, and one that was begun with events of an earlier
request or connection queued: what those count into the read may disagree with
the ledger, and without that exemption TLC finds it violated with a third read.

**ComponentsProofs.** The safety properties of the six other components that
`components` checks. Whichever part a behaviour runs, its steps are those of
its module (`PartSteps` of SizingProofs), so each has an invariant of its own:
* `BooksMatch`: a price change of the present stream follows the event before
  it in the queue, or the synchronized book (`Linked`); what the stream sent
  last is the venue's present book (`UpToDate`); a reset leaves the book
  unsynchronized. What one change does to the book at a version is
  `ContentNext`.
* `QuotesAreRebuilt`: at most one side, or the event past its check, was
  overtaken by a new request (`OneStraggler`).
* `PreviewsAreNoOrders`: an id is a preview's or an order's for good, and what
  is queued as an order's callback is one.
* `FinishedReceiptsRecorded`, across crashes and partial reads.
* `ShutdownsAreSettled`: every accepted callback is somewhere, unless an
  overflow is on record (`NoneLost`), and a clean result at the ledger's
  revision is about these hedges (`CleanIsSettled`).
* `ReleasesAreEarned`: a drained hold has the pass that certified it, and that
  was before the close; a pass that is ready took its evidence when the
  connection was up, not pending and read anew, so an outage that goes on at its
  end began, or was shown, after that.
* `PartsKeepTypes`: `TypesOK`, from the invariants of all the parts together.
  Those of the books get `BookSizes`: a book's levels are of versions the venue
  reached (`ContentBounded`), and only a stream that was started has events.

The only assumption is `PartsAssumption`: bounds are numbers, and a fill is
neither of the two other events.

**SizingProofs.** `QuotesAreHonored` and `HedgesAlwaysProceed`, under
`SizingAssumption`: quantities, fees and prices are naturals, the edge of a
contract an integer, the books any on the tick grid. `QuoteHonored` speaks of
the moment when all is filled and hedged; the invariant `SizingInv` says what is
true on the way there, whatever has been filled and bought so far:

* `SharesAllocated`: the shares not bought yet are those owed and those of the
  contracts still to be filled, because a fill is charged the difference of two
  rounded totals (`SharesAre`) and these telescope. Rounding each fill by itself
  breaks it (`RoundedEachFill`).
* `AsksCover`: the asks up to the emergency price cover them.
* `NoneBelow`: were they all bought now, walking those asks, no scenario would
  end below the quote.

A quote starts there because it takes the worse of two plans, of which the
emergency walk is one, with the greater of their fees (`OpportunityIsPrudent`). A
hedge attempt keeps it because its limit is inside the cap (`PlanInCap`) and
buying some shares first, cheapest first, and the rest later from what is left
takes from every price what buying all at once takes (`SplitWalk`, `SplitMoney`).

`HedgesProceed` is what keeps `QuoteHonored` from being a promise about hedges
that never end. It follows from the same invariant: what is owed is a part of
what the asks inside the cap suffice for, so one of them is the lowest ask, the
limit is at least that, and buying up to it buys some (`HedgeBuys`).

These rest on sums over a book, hence on induction over finite sets, and the
library's induction theorems take an operator. `SubsetStep` and `NaturalStep` are
the same for a *set* of good cases, and follow from its facts on well-founded
orders (`WFMin`), which take none. From them: a fold sums whichever element it
takes first (`TotalTake`), sums add term by term (`TotalPlus`), and the shares
asked below a price grow with it (`BeforeNext`, `BeforeGrows`).

**EntryProofs.** `EntriesOnCurrentFacts`, under `EntryAssumption`.
`EntryOnCurrentFacts` is about the moment of the send, and rests on what
was read several awaits before, so the invariant says what each of these reads
is still worth: while the snapshot id is the cycle's and bid, ask and EFFR are
there, the gates it computed hold again and its price is the bid (`Carried`); a
price is carried from the first step that needs one (`Chosen`); a published clean
result describes the ledger (`CleanIsCurrent`), because a handler withdraws it
before it writes (`Withdrawn`); and the published position is the reconciled one
unless a read is under way (`PositionPublished`). The last three join the
published facts to the ledger's, which no gate reads.

*Only model-checked*: `PauseHasCause`, and the liveness properties (`EveryOrderResolves`,
`SentBatchesComplete`, `GapEnds`, `BookResynchronizes`, `IngressDrains`,
`HoldEnds`, `TradesFinish`): temporal reasoning under fairness and ENABLED
are out of the prover's reach.

*Assumptions*: the named ASSUMEs of HedgeLedger, ZqBatch, Reconciliation,
EntryQualification and MCComponents, on the constants only; and the switches
named above (`Lagging`, `Contradictions`, `CancelledOpenOrders`).

## 5. Where code and documents disagree

* `hedge_stale`: `hedge_ledger.py:299` says a stale live update cannot reopen a
  reconciled cancelled order. An answer LIVE with *fewer* fills than recorded,
  read by the reconciliation before the hedge task cancelled and verified the
  order, reopens it, for the test asks that the answer count at least the
  recorded fills. It errs on the safe side (a reservation comes back) and
  heals at the next answer.
* `zq_abandoned`: `src/docs/event-pipeline-remedy.md:35` says an abandoned
  intent cannot leave a phantom active batch. `cancel_working_zq` runs outside
  every lock; if it read the intent before it was abandoned, it marks the
  COMPLETE batch CANCEL_PENDING afterwards, and nothing completes it again.

* `reconcile_backlog`: `services/engine.py:347` says a queued reset cannot
  erase the read just started, and `src/docs/execution-safety.md:30` that streams
  without request ids are serialized. The wait is for any CONNECTED: when an
  attempt timed out because the consumer was behind, its CONNECTED is still
  queued and ends the next attempt's wait, the reset that follows erases the
  first read, a second one begins, and answers to the first are counted into it.
  `LoneReadIsWhole` and `AuthorizedSeesRead` are what holds.
* `quote_revived`: `src/ZQ_POLYMARKET_ARBITRAGE_ENGINE_DESIGN.md:782` says a
  subscription becomes ACTIVE only after callbacks of its generation have rebuilt
  both sides. Error 1100 advances the generation but keeps the prices until the
  supervisor subscribes again; one tick in between makes the quote ACTIVE with a
  side from before the outage. `QuoteRebuilt` is what holds.

* `entry_stale`: `src/README.md:110` says every other entry gate must pass before
  submission. Without a bid, an ask or a valid EFFR, `_calculate` returns early
  (`services/engine.py:842-872`) and leaves the last tradeable opportunity in the
  snapshot it publishes under a new id. The cycle takes it, and the checks
  before the send compare id and bid and read the authorization, but neither the
  ask, EFFR, the books, the preview nor the position limit. While the input stays
  away the same opportunity is sent again after every batch. (Should the bid
  be the one that is missing, the comparison of bids stops it.)
  `EntryOnCurrentFacts` is what holds.
* `outage_moved`: `execution/maintenance.py:92` says retries cannot move an
  earlier unrelated outage into the restart window. A pass of `maintain()` that
  took its evidence before the outage clears the time at which it was observed
  (`coordinator.py:310-312`), and a retry within the restart's minutes observes it
  anew, as the scheduled one. By the same slip a hold may be released during an
  outage that began while the releasing pass awaited the ledger, which
  `ReleaseIsEarned` excepts.

A milder form of the second: a cancellation decided on an old read turns a
batch that has since settled from COMPLETE to CANCEL_PENDING until the next
completed-order callback, a transition that `ALLOWED_TRANSITIONS`
(`execution/state_machine.py:55`) does not have; the coordinator does not use
that table. `SentBatchesComplete` shows that such a batch completes again.

Smaller observations, met while modelling and not the subject of a run:

* *Reconciliation.* A refresh requested while a read is in progress is dropped
  with it (`services/engine.py:358-380`). A read already in progress when a gap
  opens ends its grace when it completes in disagreement
  (`coordinator.py:1154`), hence a lasting pause, although
  `src/docs/plans/ibkr-fill-reconciliation.md:56` expects none when evidence
  converges within the deadline. A delayed working status during a read makes
  the completing read pause, even if the terminal callback follows. A trade by
  hand may be masked by a fill between the answers about positions and
  executions (`AuthorizedSeesRead` allows that case).
* *PolymarketBooks.* Events queued by a stream that has ended are applied during
  the backoff, as they are of the current generation still; a queued full book
  even marks the book synchronized again (`src/README.md:82`). What it holds is
  the venue's at that version, so `BookMatchesHash` stands.
* *Maintenance.* A process restarted during the break has lost the hold and takes
  the pause, by design.
* *EngineShutdown.* A disconnect clears accepted callbacks from the ingress;
  the next account read brings them back, a shutdown does not.
* *VenueReceipts.* An IBKR receipt saved before a crash is never finished, as the
  repeated execution has another request id and thus another hash; it blocks
  entries until an operator acts, while Polymarket's do finish.
* *MarginPreview.* A preview that timed out while its own request event was still
  queued is shown as pending again.

## 6. Limits

* One obligation stands for all; in HedgeLedger prices, books, fees and tokens
  are left out, and a trade is one lot.
* Simulated Polymarket fills are left out (their second transaction is listed
  among the hazards), and with them the PAPER mode that attests by hand and
  skips the revision check in `_new_entry_authorized`:
  `EntryOnlyWhenSettled` and `EntryOnCurrentFacts` are about the modes that
  reconcile.
* `CompleteIsSettled` is checked and proved without `Cancelled` openOrder
  callbacks. Such a callback carries no count; if it overtakes both the count
  and the last execution, the batch completes early and reopens when the
  execution is reported (`progress`).
* A ledger or venue revision is the fact that nothing was written since it was
  noted, not a number.
* Reconciliation has one order of the strategy and no foreign or other-month
  orders, no identity conflicts and no operator resume; a complete Polymarket
  account is not read a second time. EntryQualification does not read the fees,
  the ages of preview and EFFR and the cutoff's clock again at the send, as the
  code does not. HedgeSizing leaves out margin, return on capital and the venue's least order
  size, so a remainder below it is priced and perhaps refused, as in the code; a
  quote for the rest of a batch does not count shares still owed, as in the
  code.
* Maintenance covers the daily window, not the weekend; PolymarketBooks and
  IbkrQuotes leave out tick sizes, delayed data and the other months.
* *Not modelled*: Opening inventory (one offline transaction), the unused
  `BatchMachine`, sessions and rate limits, EFFR fetching and parsing,
  configuration, probabilities and portfolio display, authentication,
  packaging, the dashboard and the operator tools: pure I/O, presentation or
  stateless computation that unit tests cover.

## 7. Plan

1. Simulated fills and their second transaction, as a switch of HedgeLedger,
   and its proofs extended to it.
2. A proof of `PauseHasCause`.
