----------------------------- MODULE MCProgress -----------------------------
(* The two things that must come to an end, for TLC: a sent batch           *)
(* (ZqBatch) and a stored hedge order (HedgeLedger).  A behaviour is of one *)
(* of them, under the fairness of its module; what the batch assumes of     *)
(* hedges and the hedge of trades is stated there.                          *)
EXTENDS ZqBatch

CONSTANTS Due, MaxAttempts, Trades, HedgeFaults

VARIABLES
    part,   \* the part that runs
    hOrderState, hQuantity, hVerified, hVenueMatched, hExecStatus, hObligation,
    hPc, hCur, hSeen, hSnap, hShares, hRecon, hReady,
    hState, hOrder, hHist, hPosts, hFaults

Hedge == INSTANCE HedgeLedger
    WITH TradeStatuses <- {"MATCHED", "CONFIRMED"}, MaxFaults <- HedgeFaults,
         Lagging <- FALSE, Contradictions <- FALSE,
         orderState <- hOrderState, quantity <- hQuantity, verified <- hVerified,
         venueMatched <- hVenueMatched, execStatus <- hExecStatus, obligation <- hObligation,
         pc <- hPc, cur <- hCur, seen <- hSeen, snap <- hSnap, shares <- hShares,
         recon <- hRecon, ready <- hReady, vState <- hState, tOrder <- hOrder,
         vHist <- hHist, posts <- hPosts, faults <- hFaults

hedgeVars == <<hOrderState, hQuantity, hVerified, hVenueMatched, hExecStatus, hObligation,
               hPc, hCur, hSeen, hSnap, hShares, hRecon, hReady,
               hState, hOrder, hHist, hPosts, hFaults>>
progressVars == <<part, vars, hedgeVars>>

ProgressInit == part \in {"batch", "hedge"} /\ Init /\ Hedge!Init

BatchRuns == part = "batch" /\ Next /\ UNCHANGED <<part, hedgeVars>>
HedgeRuns == part = "hedge" /\ Hedge!Next /\ UNCHANGED <<part, vars>>

\* HedgeLedger's Fairness, while the hedge is the part that runs.  That of
\* ZqBatch needs no such condition: none of its actions is enabled before an
\* entry is made.
HedgeFairness ==
    /\ WF_hedgeVars(part = "hedge" /\ Hedge!TaskAdvances)
    /\ SF_hedgeVars(part = "hedge" /\ Hedge!TaskReplay)
    /\ SF_hedgeVars(part = "hedge" /\ Hedge!TaskVerifyThenCancel)
    /\ WF_hedgeVars(part = "hedge" /\ Hedge!ReconcileList)
    /\ WF_hedgeVars(part = "hedge" /\ Hedge!RecoveryReady /\ Hedge!PositionsAgree)
    /\ \A n \in 1..MaxAttempts :
          /\ WF_hedgeVars(part = "hedge" /\ Hedge!ReconcileRead(n))
          /\ WF_hedgeVars(part = "hedge" /\ Hedge!ReconcileApply(n))
          /\ WF_hedgeVars(part = "hedge" /\ Hedge!VenueTakesPost(n))
    /\ \A t \in Trades : WF_hedgeVars(part = "hedge" /\ Hedge!TradeReported(t, "MATCHED"))

ProgressSpec ==
    /\ ProgressInit /\ [][BatchRuns \/ HedgeRuns]_progressVars
    /\ Fairness /\ HedgeFairness

\* Every order the ledger has stored is resolved in the end, however often it
\* was lost, timed out, interrupted or held back by a recovery that was not
\* ready (execution/coordinator.py, _route_one_hedge).
EveryOrderResolves == Hedge!EveryOrderResolves
=============================================================================
