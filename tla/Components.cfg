SPECIFICATION FairSpec
CONSTANTS
  Quantity = 1
  Limit = 1
  MaxBid = 2
  MaxChanges = 2
  MaxOwned = 2
  Levels = {1, 2}
  BookChanges = 2
  BookReads = 1
  BookFaults = 1
  QuoteRequests = 2
  QuoteTicks = 3
  QuoteFaults = 1
  PreviewIds = 3
  PreviewPending = 2
  IngressFills = {"f1", "f2"}
  IngressCapacity = 2
  ShutdownFaults = 1
  HoldFaults = 2
  BatchContracts = 3
  Ratios <- MCRatios
  ShareSteps = 2
  ContractEdge = 20
  DollarTicks = 6
  PriceTick = 1
  HardCap = 4
  EmergencyPrice = 5
  TakerFee <- MCTakerFee
  ContractFee = 1
  AskBooks <- MCAskBooks
  ReceiptTrades = {"own", "mixed"}
  ReceiptFills = {"other"}
  ReceiptReads = 1
  ReceiptFaults = 1
\* The parts' bounds may be used up.
CHECK_DEADLOCK FALSE
INVARIANT TypesOK
INVARIANT BookMatchesHash
INVARIANT QuoteRebuilt
INVARIANT PreviewIsNoOrder
PROPERTY ReadyIsSettled
INVARIANT QuoteHonored
INVARIANT HedgesProceed
INVARIANT FinishedIsRecorded
PROPERTY BookResynchronizes
PROPERTY IngressDrains
 
PROPERTY HoldEnds
PROPERTY TradesFinish
PROPERTY EntryOnCurrentFacts
