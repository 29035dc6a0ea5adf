----------------------------- MODULE MCZqBatch -----------------------------
(* ZqBatch as TLC runs it: every constant is a number or a switch, given a *)
(* value in the configurations; and the abstract trading it implements.    *)
EXTENDS ZqBatch

Phase(b) == CASE vOrder[b] = "LIVE"                                       -> "live"
              [] vOrder[b] \in TerminalZq                                 -> "over"
              [] vOrder[b] = "UNSENT" /\ batch[b].zqStatus = "ABORTED"    -> "abandoned"
              [] OTHER                                                    -> "unsent"

Exposed(b) == vFills[b] - Cardinality({k \in Fills : batch[b].hedge[k] = "DONE"})

Promise == INSTANCE ZqTrading
    WITH trade <- [b \in Batches |-> [order |-> Phase(b), exposed |-> Exposed(b),
                                      complete |-> batch[b].state = "COMPLETE"]]

\* The rows, the cycle and the callbacks together do what the entry promises:
\* each of their steps, however old what it was decided on, is a step of the
\* abstract trading, which sends one order at a time with nothing exposed and
\* never shows as complete a batch with an open order, an unreported fill or
\* an unfinished hedge.
ImplementsTrading == Promise!Spec
=============================================================================
