--------------------------- MODULE PolymarketBooks ---------------------------
(***************************************************************************)
(* One token's order book (services/state.py, adapters/polymarket.py) as   *)
(* three writers maintain it: the event consumer applies the stream's full *)
(* books and price changes, the stream loop reconnects and starts a new    *)
(* generation, the reference loop compares it with a REST snapshot.  The   *)
(* state store's lock is never held across an await and public events take *)
(* no other lock, so each of their turns is one step.                      *)
(*                                                                         *)
(* The venue's book is known by its version: venue[n] is its n-th change,  *)
(* and n stands for its hash and its timestamp.  Left out: tick sizes and  *)
(* the other metadata, the displayed health.                               *)
(***************************************************************************)
EXTENDS Naturals, Sequences

CONSTANTS
    Levels,       \* price levels of the book
    MaxChanges,   \* bound on the changes of the venue's book
    MaxReads,     \* bound on REST snapshots
    MaxFaults     \* bound on streams that end and malformed events

VARIABLES
    venue,    \* the changes the venue made
    book,     \* snapshot.books[token]
    stream,   \* the stream loop: its generation, its reset event, its connection
    queue,    \* public events of the shared queue
    rest,     \* the REST snapshot being read, with the generation it began in
    reads,
    faults

vars == <<venue, book, stream, queue, rest, reads, faults>>

NoSnapshot == [generation |-> 0, version |-> 0, held |-> FALSE]

\* The venue's book after n changes; a level that is gone has size 0.
ContentAt(n) ==
    [l \in Levels |->
        LET hits == {i \in 1..n : venue[i].level = l}
        IN IF hits = {} THEN 0
           ELSE LET i == CHOOSE i \in hits : \A j \in hits : j <= i
                IN IF venue[i].gone THEN 0 ELSE i]

Now == Len(venue)

Complete(n) == [kind |-> "book", version |-> n]
Change(n) == [kind |-> "price_change", version |-> n]

\* mark_polymarket_books_unsynchronized
Unsynchronized(b) == [b EXCEPT !.synchronized = FALSE]

-----------------------------------------------------------------------------
(* The stream loop *)

StreamStarts ==
    /\ ~stream.up
    /\ book' = Unsynchronized(book)
    /\ stream' = [generation |-> stream.generation + 1, reset |-> FALSE,
                  up |-> TRUE, fed |-> FALSE]
    /\ UNCHANGED <<venue, queue, rest, reads, faults>>

\* The pump is cancelled; what it queued stays queued.
StreamDown ==
    /\ book' = Unsynchronized(book)
    /\ stream' = [stream EXCEPT !.up = FALSE, !.fed = FALSE]
    /\ UNCHANGED <<venue, queue, rest, reads>>

StreamResets ==
    /\ stream.up /\ stream.reset
    /\ StreamDown
    /\ UNCHANGED faults

StreamEnds ==
    /\ stream.up
    /\ faults < MaxFaults /\ faults' = faults + 1
    /\ StreamDown

Queued(e) == Append(queue, [event |-> e, generation |-> stream.generation])

-----------------------------------------------------------------------------
(* The venue (external): a full book first, then every change in order *)

VenueSendsBook ==
    /\ stream.up /\ ~stream.fed
    /\ stream' = [stream EXCEPT !.fed = TRUE]
    /\ queue' = Queued(Complete(Now))
    /\ UNCHANGED <<venue, book, rest, reads, faults>>

VenueChanges(l, gone) ==
    /\ Now < MaxChanges
    /\ venue' = Append(venue, [level |-> l, gone |-> gone])
    /\ IF stream.fed
       THEN \E e \in {Complete(Now + 1), Change(Now + 1)} : queue' = Queued(e)
       ELSE UNCHANGED queue
    /\ UNCHANGED <<book, stream, rest, reads, faults>>

VenueSendsMalformed ==
    /\ stream.fed
    /\ faults < MaxFaults /\ faults' = faults + 1
    /\ queue' = Queued([kind |-> "malformed"])
    /\ UNCHANGED <<venue, book, stream, rest, reads>>

-----------------------------------------------------------------------------
(* The consumer *)

Current(q) == q.generation = stream.generation /\ ~stream.reset

\* A price change cannot heal a book that is not synchronized.
Refused(e) ==
    \/ e.kind = "malformed"
    \/ e.kind = "price_change" /\ ~book.synchronized

Updated(e) ==
    IF e.kind = "book"
    THEN [levels |-> ContentAt(e.version), hash |-> e.version, synchronized |-> TRUE]
    ELSE LET c == venue[e.version]
         IN [book EXCEPT !.levels[c.level] = IF c.gone THEN 0 ELSE e.version,
                         !.hash = e.version]

ProcessEvent ==
    /\ queue # <<>>
    /\ queue' = Tail(queue)
    /\ LET q == Head(queue)
       IN IF ~Current(q) THEN UNCHANGED <<book, stream>>
          ELSE IF Refused(q.event)
          THEN /\ book' = Unsynchronized(book)
               /\ stream' = [stream EXCEPT !.reset = TRUE]
          ELSE /\ book' = Updated(q.event)
               /\ UNCHANGED stream
    /\ UNCHANGED <<venue, rest, reads, faults>>

-----------------------------------------------------------------------------
(* The reference loop *)

SnapshotBooks ==
    /\ ~rest.held /\ reads < MaxReads
    /\ reads' = reads + 1
    /\ rest' = [generation |-> stream.generation, version |-> Now, held |-> TRUE]
    /\ UNCHANGED <<venue, book, stream, queue, faults>>

RestBook == [levels |-> ContentAt(rest.version), hash |-> rest.version, synchronized |-> FALSE]

\* older: its timestamp is, which two changes of one instant do not show.
Agrees(older) == book.hash = rest.version \/ book.levels = RestBook.levels \/ older

\* Mutant: a mismatch is healed with the REST book.
RestReplaces(older) ==
    IF ~book.synchronized THEN book' = RestBook /\ UNCHANGED stream
    ELSE IF Agrees(older) THEN UNCHANGED <<book, stream>>
    ELSE book' = [RestBook EXCEPT !.synchronized = TRUE] /\ UNCHANGED stream

\* Mutant: the mismatch is not reported to the stream loop.
ReconciledQuietly(older) ==
    IF ~book.synchronized THEN book' = RestBook /\ UNCHANGED stream
    ELSE IF Agrees(older) THEN UNCHANGED <<book, stream>>
    ELSE book' = Unsynchronized(book) /\ UNCHANGED stream

ReconcileBooks(older) ==
    IF ~book.synchronized THEN book' = RestBook /\ UNCHANGED stream
    ELSE IF Agrees(older) THEN UNCHANGED <<book, stream>>
    ELSE /\ book' = Unsynchronized(book)
         /\ stream' = [stream EXCEPT !.reset = TRUE]

SnapshotRead ==
    /\ rest.held
    /\ rest' = NoSnapshot
    /\ IF rest.generation # stream.generation
       THEN UNCHANGED <<book, stream>>
       ELSE \E older \in BOOLEAN :
               /\ older => rest.version < book.hash
               /\ ReconcileBooks(older)
    /\ UNCHANGED <<venue, queue, reads, faults>>

-----------------------------------------------------------------------------
Init ==
    /\ venue = <<>> /\ queue = <<>>
    /\ book = [levels |-> [l \in Levels |-> 0], hash |-> 0, synchronized |-> FALSE]
    /\ stream = [generation |-> 0, reset |-> FALSE, up |-> FALSE, fed |-> FALSE]
    /\ rest = NoSnapshot
    /\ reads = 0 /\ faults = 0

Next ==
    \/ StreamStarts \/ StreamResets \/ StreamEnds
    \/ VenueSendsBook \/ VenueSendsMalformed
    \/ \E l \in Levels, gone \in BOOLEAN : VenueChanges(l, gone)
    \/ ProcessEvent \/ SnapshotBooks \/ SnapshotRead

Spec == Init /\ [][Next]_vars

\* The loops of the runtime keep turning and the venue answers a subscription.
Fairness ==
    /\ WF_vars(StreamStarts) /\ WF_vars(StreamResets)
    /\ WF_vars(ProcessEvent) /\ WF_vars(VenueSendsBook)

TypeOK ==
    /\ venue \in Seq([level : Levels, gone : BOOLEAN]) /\ Now <= MaxChanges
    /\ book \in [levels : [Levels -> 0..MaxChanges], hash : 0..MaxChanges,
                 synchronized : BOOLEAN]
    /\ stream \in [generation : Nat, reset : BOOLEAN, up : BOOLEAN, fed : BOOLEAN]
    /\ \A i \in 1..Len(queue) : queue[i].generation \in 1..stream.generation
    /\ rest \in [generation : Nat, version : 0..MaxChanges, held : BOOLEAN]
    /\ reads \in 0..MaxReads /\ faults \in 0..MaxFaults

\* A synchronized book is the venue's book at the version its hash names:
\* never a mixture of generations, nor of a REST answer and queued changes.
BookMatchesHash == book.synchronized => book.levels = ContentAt(book.hash)

\* An unsynchronized book is synchronized again by a fresh stream.
BookResynchronizes == ~book.synchronized ~> book.synchronized

=============================================================================
