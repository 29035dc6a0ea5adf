---------------------------- MODULE MCComponents ----------------------------
(***************************************************************************)
(* The entry and the smaller components, side by side: a behaviour is one  *)
(* of the parts, from its initial state, while the others stand still.     *)
(* Their states are disjoint and they act on each other only through the   *)
(* inputs that each of them already takes in any order, so no interleaving *)
(* is lost.  EntryQualification is extended, the others are instances.     *)
(***************************************************************************)
EXTENDS EntryQualification

CONSTANTS
    Levels, BookChanges, BookReads, BookFaults,
    QuoteRequests, QuoteTicks, QuoteFaults,
    PreviewIds, PreviewPending,
    IngressFills, IngressCapacity, ShutdownFaults,
    HoldFaults,
    BatchContracts, Ratios, ShareSteps, ContractEdge, DollarTicks, PriceTick,
    HardCap, EmergencyPrice, TakerFee, ContractFee, AskBooks,
    ReceiptTrades, ReceiptFills, ReceiptReads, ReceiptFaults

\* Bounds are numbers; a fill is neither the end of its order nor another event.
ASSUME PartsAssumption ==
    /\ BookChanges \in Nat /\ BookReads \in Nat /\ BookFaults \in Nat
    /\ QuoteRequests \in Nat /\ QuoteTicks \in Nat /\ QuoteFaults \in Nat
    /\ PreviewIds \in Nat /\ PreviewPending \in Nat
    /\ IngressCapacity \in Nat /\ ShutdownFaults \in Nat /\ HoldFaults \in Nat
    /\ ReceiptReads \in Nat /\ ReceiptFaults \in Nat
    /\ IngressFills \cap {"over", "market"} = {}

\* Quantities and prices are not negative, and a share and a dollar have parts;
\* the edge of a contract may be of either sign.
ASSUME SizingAssumption ==
    /\ BatchContracts \in Nat /\ Ratios \in [{25, 50} -> Nat] /\ ShareSteps \in Nat \ {0}
    /\ ContractEdge \in Int /\ DollarTicks \in Nat \ {0} /\ PriceTick \in Nat \ {0}
    /\ HardCap \in Nat /\ EmergencyPrice \in Nat
    /\ TakerFee \in [1..(DollarTicks - 1) -> Nat] /\ ContractFee \in Nat
    /\ AskBooks \subseteq [1..(DollarTicks - 1) -> Nat]

\* For TLC: ratios that are not whole, a fee that is not monotone, asks of a
\* small or a large size at two prices and of none or a small one at a third.
MCRatios == [move \in {25, 50} |-> IF move = 25 THEN 3 ELSE 5]
MCTakerFee == [p \in 1..(DollarTicks - 1) |-> p % 3]
MCAskBooks ==
    {[p \in 1..(DollarTicks - 1) |-> IF p - low \in 0..2 THEN size[p - low] ELSE 0] :
        low \in {1, 2}, size \in {s \in [0..2 -> {0, 2, 6}] : s[0] # 0 /\ s[1] # 0 /\ s[2] # 6}}

VARIABLES
    part,
    bVenue, bBook, bStream, bQueue, bRest, bReads, bFaults,
    qQuote, qMeta, qFarm, qRequest, qLink, qEvents, qHeld, qTicks, qFaults,
    pContext, pKnown, pNextId, pWaiting, pPending, pPreview, pPlaced, pAsked, pOrderIds,
    sIngress, sDrain, sStopped, sOverflow, sEvents, sHandling, sLedger, sRecon, sStop,
    sEmitted, sDropped, sFaults,
    mSlot, mHold, mPass, mVenue, mAlerts, mControl, mBook, mFaults, mPast,
    zAsks, zFilled, zOwed, zQuote, zSpent,
    rJournal, rRecorded, rWork, rQueue, rVenue, rReads, rFaults

Books == INSTANCE PolymarketBooks
    WITH MaxChanges <- BookChanges, MaxReads <- BookReads, MaxFaults <- BookFaults,
         venue <- bVenue, book <- bBook, stream <- bStream, queue <- bQueue,
         rest <- bRest, reads <- bReads, faults <- bFaults

Quotes == INSTANCE IbkrQuotes
    WITH MaxRequests <- QuoteRequests, MaxTicks <- QuoteTicks, MaxFaults <- QuoteFaults,
         quote <- qQuote, meta <- qMeta, farm <- qFarm, request <- qRequest,
         link <- qLink, events <- qEvents, held <- qHeld, ticks <- qTicks, faults <- qFaults

Preview == INSTANCE MarginPreview
    WITH MaxIds <- PreviewIds, MaxPending <- PreviewPending,
         context <- pContext, known <- pKnown, nextId <- pNextId, waiting <- pWaiting,
         pending <- pPending, preview <- pPreview, placed <- pPlaced, asked <- pAsked,
         orderIds <- pOrderIds

Shutdown == INSTANCE EngineShutdown
    WITH Fills <- IngressFills, Capacity <- IngressCapacity, MaxFaults <- ShutdownFaults,
         ingress <- sIngress, drain <- sDrain, stopped <- sStopped, overflow <- sOverflow,
         events <- sEvents, handling <- sHandling, ledger <- sLedger, recon <- sRecon,
         stop <- sStop, emitted <- sEmitted, dropped <- sDropped, faults <- sFaults

Hold == INSTANCE Maintenance
    WITH MaxFaults <- HoldFaults,
         slot <- mSlot, hold <- mHold, pass <- mPass, venue <- mVenue, alerts <- mAlerts,
         control <- mControl, book <- mBook, faults <- mFaults, past <- mPast

Sizing == INSTANCE HedgeSizing
    WITH Contracts <- BatchContracts, Ratio <- Ratios, Den <- ShareSteps,
         Edge <- ContractEdge, Par <- DollarTicks, Tick <- PriceTick, PostCap <- HardCap,
         EmergencyCap <- EmergencyPrice, Fee <- TakerFee, Commission <- ContractFee,
         asks <- zAsks, filled <- zFilled, owed <- zOwed, quote <- zQuote, spent <- zSpent

Receipts == INSTANCE VenueReceipts
    WITH Trades <- ReceiptTrades, Fills <- ReceiptFills, MaxReads <- ReceiptReads,
         MaxFaults <- ReceiptFaults,
         journal <- rJournal, recorded <- rRecorded, work <- rWork, queue <- rQueue,
         venue <- rVenue, reads <- rReads, faults <- rFaults

booksVars == <<bVenue, bBook, bStream, bQueue, bRest, bReads, bFaults>>
quotesVars == <<qQuote, qMeta, qFarm, qRequest, qLink, qEvents, qHeld, qTicks, qFaults>>
previewVars == <<pContext, pKnown, pNextId, pWaiting, pPending, pPreview, pPlaced, pAsked,
    pOrderIds>>
shutdownVars == <<sIngress, sDrain, sStopped, sOverflow, sEvents, sHandling, sLedger,
    sRecon, sStop, sEmitted, sDropped, sFaults>>
holdVars == <<mSlot, mHold, mPass, mVenue, mAlerts, mControl, mBook, mFaults, mPast>>
sizingVars == <<zAsks, zFilled, zOwed, zQuote, zSpent>>
receiptsVars == <<rJournal, rRecorded, rWork, rQueue, rVenue, rReads, rFaults>>
componentsVars == <<part, booksVars, quotesVars, previewVars, shutdownVars,
                    holdVars, sizingVars, receiptsVars, vars>>

Parts == {"books", "quotes", "preview", "shutdown", "hold", "sizing", "receipts",
          "entry"}

ComponentsInit ==
    /\ part \in Parts
    /\ Books!Init /\ Quotes!Init /\ Preview!Init /\ Shutdown!Init /\ Hold!Init
    /\ Sizing!Init /\ Receipts!Init /\ Init

Step(p) ==
    CASE p = "books"    -> Books!Next
      [] p = "quotes"   -> Quotes!Next
      [] p = "preview"  -> Preview!Next
      [] p = "shutdown" -> Shutdown!Next
      [] p = "hold"     -> Hold!Next
      [] p = "sizing"   -> Sizing!Next
      [] p = "receipts" -> Receipts!Next
      [] p = "entry"    -> Next

Still(p) ==
    /\ IF p = "books" THEN TRUE ELSE UNCHANGED booksVars
    /\ IF p = "quotes" THEN TRUE ELSE UNCHANGED quotesVars
    /\ IF p = "preview" THEN TRUE ELSE UNCHANGED previewVars
    /\ IF p = "shutdown" THEN TRUE ELSE UNCHANGED shutdownVars
    /\ IF p = "hold" THEN TRUE ELSE UNCHANGED holdVars
    /\ IF p = "sizing" THEN TRUE ELSE UNCHANGED sizingVars
    /\ IF p = "receipts" THEN TRUE ELSE UNCHANGED receiptsVars
    /\ IF p = "entry" THEN TRUE ELSE UNCHANGED vars

ComponentsNext == Step(part) /\ Still(part) /\ UNCHANGED part

ComponentsSpec == ComponentsInit /\ [][ComponentsNext]_componentsVars

\* Each part's Fairness, for the part that runs.
Fairness ==
    /\ WF_booksVars(part = "books" /\ Books!StreamStarts)
    /\ WF_booksVars(part = "books" /\ Books!StreamResets)
    /\ WF_booksVars(part = "books" /\ Books!ProcessEvent)
    /\ WF_booksVars(part = "books" /\ Books!VenueSendsBook)
    /\ WF_shutdownVars(part = "shutdown" /\ Shutdown!DrainIngress)
    /\ WF_shutdownVars(part = "shutdown" /\ Shutdown!TakeEvent)
    /\ WF_shutdownVars(part = "shutdown" /\ Shutdown!BeginEvent)
    /\ WF_shutdownVars(part = "shutdown" /\ Shutdown!FinishEvent)
    /\ WF_holdVars(part = "hold" /\ Hold!Tick /\ Hold!Remember)
    /\ WF_holdVars(part = "hold" /\ Hold!BeginPass /\ Hold!Remember)
    /\ WF_holdVars(part = "hold" /\ Hold!ReadReady /\ Hold!Remember)
    /\ WF_holdVars(part = "hold" /\ Hold!EndPass /\ Hold!Remember)
    /\ WF_receiptsVars(part = "receipts" /\ Receipts!Take)
    /\ WF_receiptsVars(part = "receipts" /\ Receipts!SaveVenueReceipt)
    /\ WF_receiptsVars(part = "receipts" /\ Receipts!Record)
    /\ WF_receiptsVars(part = "receipts" /\ Receipts!FinishVenueReceipt)
    /\ WF_receiptsVars(part = "receipts" /\ Receipts!ReconcilePolymarketAccount)

FairSpec == ComponentsSpec /\ Fairness

-----------------------------------------------------------------------------
\* Every part keeps its types.
TypesOK ==
    /\ Books!TypeOK /\ Quotes!TypeOK /\ Preview!TypeOK /\ Shutdown!TypeOK /\ Hold!TypeOK
    /\ Sizing!TypeOK /\ Receipts!TypeOK /\ TypeOK

\* A synchronized book is the venue's at the version its hash names, whatever
\* generations, resets, REST answers and malformed events are mixed.
BookMatchesHash == Books!BookMatchesHash

\* A book that lost its synchronization has it again.
BookResynchronizes == part = "books" => Books!BookResynchronizes

\* An ACTIVE quote holds no price of an earlier subscription, save of one tick
\* that was already checked.
QuoteRebuilt == Quotes!QuoteRebuilt

\* Late callbacks of a what-if order are never taken for an order's.
PreviewIsNoOrder == Preview!PreviewIsNoOrder

\* A shutdown that calls itself reconciled has applied every callback.
ReadyIsSettled == Shutdown!ReadyIsSettled

\* Accepted callbacks reach the shared queue, across connections.
IngressDrains == Shutdown!IngressDrains

\* A maintenance hold released without a pause was certified drained before the
\* close and is released after the outage, or before a pass could know of it.
ReleaseIsEarned == Hold!ReleaseIsEarned

\* A maintenance hold ends, released or with a pause.
HoldEnds == Hold!HoldEnds

\* A quoted worst case is reached at least, however the fills are split.
QuoteHonored == Sizing!QuoteHonored

\* A hedge of a quoted batch always has asks to buy, until it is bought.
HedgesProceed == Sizing!HedgesProceed

\* A finished receipt's fills are in the ledger.
FinishedIsRecorded == Receipts!FinishedIsRecorded

\* The report of an own trade does not block for good, across crashes.
TradesFinish == Receipts!TradesFinish

=============================================================================
