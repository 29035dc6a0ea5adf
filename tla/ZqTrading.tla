----------------------------- MODULE ZqTrading -----------------------------
(***************************************************************************)
(* What the ZQ entry promises, without its rows, its cycle and its         *)
(* callbacks: one order at a time, the next one only when every contract   *)
(* bought before is hedged for good; a batch is shown as complete only     *)
(* when its order is over and nothing of it is exposed, or when its order  *)
(* was given up before it was sent.                                        *)
(***************************************************************************)
EXTENDS Naturals

CONSTANTS Batches, Qty

VARIABLE trade   \* per batch: its order; its contracts filled and not hedged
                 \* for good, reported or not; whether it is shown as complete

Init == trade = [b \in Batches |-> [order |-> "unsent", exposed |-> 0, complete |-> FALSE]]

Quiet(t) == t.order # "live" /\ t.exposed = 0

Send(old, new, b) ==
    /\ old[b].order = "unsent" /\ new[b].order = "live"
    /\ new[b].exposed = old[b].exposed
    /\ \A c \in Batches : Quiet(old[c])

GiveUp(t, u) ==
    t.order = "unsent" /\ u.order = "abandoned" /\ u.exposed = t.exposed

Fill(t, u) ==
    t.order = "live" /\ u.order \in {"live", "over"} /\ u.exposed = t.exposed + 1

End(t, u) ==
    t.order = "live" /\ u.order = "over" /\ u.exposed = t.exposed

\* A contract is hedged for good, or the venue takes a hedge back.
Hedge(t, u) ==
    /\ t.order \in {"live", "over"} /\ u.order = t.order
    /\ t.exposed \in {u.exposed - 1, u.exposed + 1} /\ u.exposed <= Qty

\* What is shown is true.
Honest(t) == t.complete => t.order = "abandoned" \/ (t.order = "over" /\ t.exposed = 0)

Same(t, u) == t.order = u.order /\ t.exposed = u.exposed

\* One batch trades, and what is shown may change with it.
Next ==
    LET old == trade
        new == trade'
    IN /\ new # old
       /\ \A b \in Batches : Honest(new[b])
       /\ \A b \in Batches : ~Same(old[b], new[b]) =>
             /\ \A c \in Batches \ {b} : Same(old[c], new[c])
             /\ \/ Send(old, new, b) \/ GiveUp(old[b], new[b])
                \/ Fill(old[b], new[b]) \/ End(old[b], new[b]) \/ Hedge(old[b], new[b])

Spec == Init /\ [][Next]_trade
=============================================================================
