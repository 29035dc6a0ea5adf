---------------------------- MODULE MarginPreview ----------------------------
(***************************************************************************)
(* The what-if margin preview: a loop (services/engine.py) places a what-if *)
(* order and waits for its answer or a timeout; IBKR's callbacks about it   *)
(* come through the same openOrder, completedOrder, orderStatus and error   *)
(* handlers (adapters/ibkr.py) as those of a real order, also after the     *)
(* loop has given it up; the state store keeps the published preview.       *)
(*                                                                         *)
(* Ids come from the one sequence real orders are numbered in.  Left out:   *)
(* amounts and their parsing, pacing, the conditions that make a request    *)
(* due.                                                                     *)
(***************************************************************************)
EXTENDS Naturals, Sequences

CONSTANTS
    MaxIds,     \* bound on order ids
    MaxPending  \* IBKR calls back only while fewer events are queued

VARIABLES
    context,   \* _margin_preview_context: previews being waited for
    known,     \* _margin_preview_ids: every id used for a preview
    nextId,
    waiting,   \* the loop: the id it waits for, 0 when it sleeps
    pending,   \* events queued for the consumer
    preview,   \* snapshot.margin_preview
    placed,    \* IBKR: real orders of this client
    asked,     \* IBKR: what-if orders received
    orderIds   \* history: ids reported to the coordinator as orders

vars == <<context, known, nextId, waiting, pending, preview, placed, asked, orderIds>>

Queue(e) == pending' = Append(pending, e)

-----------------------------------------------------------------------------
(* The loop *)

RequestPreview ==
    /\ waiting = 0 /\ nextId <= MaxIds
    /\ waiting' = nextId /\ nextId' = nextId + 1
    /\ context' = context \cup {nextId}
    /\ known' = known \cup {nextId}
    /\ asked' = asked \cup {nextId}
    /\ Queue([kind |-> "margin_preview_requested", id |-> nextId])
    /\ UNCHANGED <<preview, placed, orderIds>>

\* Mutant: the finished preview is forgotten altogether.
FinishForgets(id) ==
    /\ context' = context \ {id}
    /\ known' = known \ {id}

FinishMarginPreview(id) ==
    /\ context' = context \ {id}
    /\ UNCHANGED known

PreviewSettles ==
    /\ waiting # 0 /\ preview.id = waiting /\ preview.status \in {"AVAILABLE", "FAILED"}
    /\ FinishMarginPreview(waiting)
    /\ waiting' = 0
    /\ UNCHANGED <<nextId, pending, preview, placed, asked, orderIds>>

FailMarginPreview(id) ==
    IF preview.id \in {0, id}
    THEN preview' = [status |-> "FAILED", id |-> id]
    ELSE UNCHANGED preview

PreviewTimesOut ==
    /\ waiting # 0
    /\ FailMarginPreview(waiting)
    /\ FinishMarginPreview(waiting)
    /\ waiting' = 0
    /\ UNCHANGED <<nextId, pending, placed, asked, orderIds>>

\* A real order takes an id of the same sequence.
PlaceZqOrder ==
    /\ nextId <= MaxIds
    /\ placed' = placed \cup {nextId} /\ nextId' = nextId + 1
    /\ UNCHANGED <<context, known, waiting, pending, preview, asked, orderIds>>

-----------------------------------------------------------------------------
(* IBKR's callbacks (external), as the adapter takes them *)

\* _is_margin_preview_order: evidence of a real order overrides the memory.
OpenOrder(id, whatIf) ==
    /\ Len(pending) < MaxPending
    /\ IF id \in known /\ whatIf
       THEN /\ IF id \in context THEN Queue([kind |-> "margin_preview", id |-> id])
               ELSE UNCHANGED pending
            /\ UNCHANGED <<context, known, nextId>>
       ELSE /\ known' = known \ {id}
            /\ context' = context \ {id}
            /\ nextId' = IF nextId > id THEN nextId ELSE id + 1
            /\ Queue([kind |-> "open_order", id |-> id])
    /\ UNCHANGED <<waiting, preview, placed, asked, orderIds>>

CompletedOrder(id, whatIf) ==
    /\ Len(pending) < MaxPending
    /\ IF id \in known /\ whatIf
       THEN UNCHANGED <<pending, known, context>>
       ELSE /\ known' = known \ {id}
            /\ context' = context \ {id}
            /\ Queue([kind |-> "completed_order", id |-> id])
    /\ UNCHANGED <<nextId, waiting, preview, placed, asked, orderIds>>

OrderStatus(id) ==
    /\ Len(pending) < MaxPending
    /\ IF id \in known THEN UNCHANGED pending
       ELSE Queue([kind |-> "order_status", id |-> id])
    /\ UNCHANGED <<context, known, nextId, waiting, preview, placed, asked, orderIds>>

\* rejected is code 201, cancelled the acknowledgement of a cancellation.
OrderError(id, code) ==
    /\ Len(pending) < MaxPending
    /\ IF id \in known \ context /\ code = "cancelled"
       THEN UNCHANGED pending
       ELSE Queue([kind |-> IF id \in context \/ (id \in known /\ code = "rejected")
                            THEN "preview_error" ELSE "error", id |-> id])
    /\ UNCHANGED <<context, known, nextId, waiting, preview, placed, asked, orderIds>>

-----------------------------------------------------------------------------
(* The consumer *)

Answered(id) == preview.id = id /\ preview.status = "PENDING"

HandlePreviewEvent ==
    /\ pending # <<>>
    /\ pending' = Tail(pending)
    /\ LET e == Head(pending)
       IN CASE e.kind = "margin_preview_requested" ->
                 /\ preview' = [status |-> "PENDING", id |-> e.id]
                 /\ UNCHANGED orderIds
            [] e.kind = "margin_preview" ->
                 /\ \E status \in {"AVAILABLE", "FAILED"} :
                       preview' = IF Answered(e.id) THEN [status |-> status, id |-> e.id]
                                  ELSE preview
                 /\ UNCHANGED orderIds
            [] e.kind = "preview_error" ->
                 FailMarginPreview(e.id) /\ UNCHANGED orderIds
            [] e.kind = "error" -> UNCHANGED <<preview, orderIds>>
            [] OTHER ->
                 /\ orderIds' = orderIds \cup {e.id}
                 /\ UNCHANGED preview
    /\ UNCHANGED <<context, known, nextId, waiting, placed, asked>>

-----------------------------------------------------------------------------
Init ==
    /\ context = {} /\ known = {} /\ nextId = 1 /\ waiting = 0
    /\ pending = <<>>
    /\ preview = [status |-> "UNAVAILABLE", id |-> 0]
    /\ placed = {} /\ asked = {} /\ orderIds = {}

Next ==
    \/ RequestPreview \/ PreviewSettles \/ PreviewTimesOut \/ PlaceZqOrder
    \/ \E id \in asked : OpenOrder(id, TRUE) \/ CompletedOrder(id, TRUE)
    \/ \E id \in placed : OpenOrder(id, FALSE) \/ CompletedOrder(id, FALSE)
    \/ \E id \in asked \cup placed : OrderStatus(id)
    \/ \E id \in asked \cup placed, code \in {"rejected", "cancelled", "other"} :
          OrderError(id, code)
    \/ HandlePreviewEvent

Spec == Init /\ [][Next]_vars

TypeOK ==
    /\ known \subseteq 1..MaxIds /\ context \subseteq known
    /\ nextId \in 1..(MaxIds + 1) /\ waiting \in 0..MaxIds
    /\ preview \in [status : {"UNAVAILABLE", "PENDING", "AVAILABLE", "FAILED"}, id : 0..MaxIds]

\* Callbacks about a what-if order, however late, are never taken for a real
\* order's, and those of a real order are never swallowed as a preview's.
PreviewIsNoOrder == orderIds \subseteq placed /\ placed \cap known = {}

=============================================================================
