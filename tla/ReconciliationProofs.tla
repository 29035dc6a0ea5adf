------------------------ MODULE ReconciliationProofs ------------------------
(***************************************************************************)
(* Proofs about Reconciliation, for every order size, every bound and      *)
(* whatever is still queued when a connection is made (every Backlog).     *)
(*                                                                         *)
(* Typing says what everything is.  ReadInv: an end of executions is       *)
(* counted only for the read last asked for, and nothing on its way names  *)
(* a later one.  Venue: what is known or on its way of the account never   *)
(* runs ahead of it.  FillsInv: the fills such an end speaks for are       *)
(* recorded or queued ahead of it.  LoneInv, of a read begun with nothing  *)
(* of an earlier one queued: every request and answer on its way is its    *)
(* own, and the end of positions speaks for all that was bought.           *)
(***************************************************************************)
EXTENDS Reconciliation, TLAPS, SequenceTheorems, FiniteSetTheorems

-----------------------------------------------------------------------------
(* Types *)

Gaps == [on : BOOLEAN, serial : 0..MaxReads, late : BOOLEAN, expired : BOOLEAN]
Coords ==
    [got : [Kinds -> 0..MaxReads], reading : BOOLEAN, late : BOOLEAN,
     ambiguous : BOOLEAN, serial : 0..MaxReads, completed : 0..MaxReads,
     snapshot : {"none", "fresh", "old"}, open : BOOLEAN,
     pos : Nat, cbPos : Nat \cup {None}, matched : 0..Quantity \cup {None},
     gap : Gaps,
     termConf : BOOLEAN, refConf : BOOLEAN, ready : BOOLEAN,
     recovery : BOOLEAN, clean : BOOLEAN, paused : BOOLEAN,
     venueSame : BOOLEAN, ledgerSame : BOOLEAN, poly : BOOLEAN,
     polyRead : {"no", "reading", "overtaken"}]
Ledgers == [executed : SUBSET (1..Quantity), reported : 0..Quantity,
            over : BOOLEAN, unhedged : BOOLEAN]
Frames == [working : BOOLEAN, filled : 0..Quantity, manual : Nat]
Views == [filled : 0..Quantity, manual : Nat, alone : BOOLEAN]

\* The events, by what they carry, and the callbacks and answers they come from.
Links == [kind : {"connection"}, up : BOOLEAN]
Ends == [kind : {"end"}, of : Kinds, serial : 1..MaxReads]
Executions == [kind : {"execution"}, fill : 1..Quantity]
Statuses == [kind : {"order_status"}, filled : 0..Quantity, ends : BOOLEAN]
Completions == [kind : {"completed"}, filled : 0..Quantity]
Positions == [kind : {"position"}, quantity : Nat]
Events == Links \cup Ends \cup Executions \cup Statuses \cup Completions \cup Positions
Owable == Executions \cup Statuses \cup [kind : {"position"}]
Asks == [of : Kinds, serial : 1..MaxReads]

\* The two events of the connection itself.
Down == [kind |-> "connection", up |-> FALSE]
Up == [kind |-> "connection", up |-> TRUE]

LEMMA GapsType ==
  ASSUME NEW d \in Coords
  PROVE /\ d.gap \in Gaps /\ [d.gap EXCEPT !.expired = TRUE] \in Gaps
        /\ [d.gap EXCEPT !.late = TRUE] \in Gaps
        /\ [NoGap EXCEPT !.on = TRUE, !.serial = d.completed] \in Gaps
        /\ (NoGap \in Gaps)
<1>1. d.gap \in Gaps /\ d.completed \in 0..MaxReads /\ 0 \in 0..MaxReads
  BY ReconciliationAssumption DEF Coords
<1> QED
  BY <1>1 DEF Gaps, NoGap

LEMMA LedgerCount ==
  ASSUME NEW l \in Ledgers
  PROVE  Executed(l) \in 0..Quantity /\ IsFiniteSet(l.executed)
<1>1. l.executed \subseteq 1..Quantity
  BY DEF Ledgers
<1>2. IsFiniteSet(1..Quantity) /\ Cardinality(1..Quantity) = Quantity
  BY FS_Interval, ReconciliationAssumption
<1>3. /\ IsFiniteSet(l.executed) /\ Cardinality(l.executed) <= Quantity
      /\ Cardinality(l.executed) \in Nat
  BY <1>1, <1>2, FS_Subset, FS_CardinalityType
<1> QED
  BY <1>3, ReconciliationAssumption DEF Executed

-----------------------------------------------------------------------------
(* What a reconciliation leaves alone: the collected evidence.  It finds    *)
(* the result clean only on a whole read that agrees with the ledger.       *)

SameEvidence(r, d) ==
    /\ r.got = d.got /\ r.reading = d.reading
    /\ r.serial = d.serial /\ r.completed = d.completed /\ r.pos = d.pos

LEMMA ExpiredFacts ==
  ASSUME NEW d \in Coords
  PROVE LET r == Expired(d) IN
          r \in Coords /\ SameEvidence(r, d) /\ (r.clean => d.clean)
<1>1. CASE d.gap.on /\ d.gap.late /\ ~d.gap.expired
  <2> DEFINE g == [d.gap EXCEPT !.expired = TRUE]
  <2>1. g \in Gaps
    BY GapsType
  <2>2. Expired(d) = [d EXCEPT !.gap = g, !.recovery = FALSE, !.paused = TRUE, !.clean = FALSE]
    BY <1>1 DEF Expired
  <2> HIDE DEF g
  <2> QED
    BY <2>1, <2>2, ZenonT(60) DEF Coords, SameEvidence
<1>2. CASE ~(d.gap.on /\ d.gap.late /\ ~d.gap.expired)
  BY <1>2 DEF Expired, SameEvidence
<1> QED
  BY <1>1, <1>2

LEMMA ReanchoredFacts ==
  ASSUME NEW d \in Coords, NEW l, Executed(l) \in 0..Quantity
  PROVE Reanchored(d, l) \in Coords /\ SameEvidence(Reanchored(d, l), d)
<1>1. [d EXCEPT !.matched = Executed(l)] \in Coords
  BY DEF Coords
<1>2. SameEvidence([d EXCEPT !.matched = Executed(l)], d) /\ SameEvidence(d, d)
  BY DEF Coords, SameEvidence
<1>3. Reanchored(d, l) \in {d, [d EXCEPT !.matched = Executed(l)]}
  BY DEF Reanchored
<1> QED
  BY <1>1, <1>2, <1>3

LEMMA GapTrackedFacts ==
  ASSUME NEW d \in Coords, NEW l
  PROVE GapTracked(d, l) \in Coords /\ SameEvidence(GapTracked(d, l), d)
<1> DEFINE g == [NoGap EXCEPT !.on = TRUE, !.serial = d.completed]
<1>1. NoGap \in Gaps /\ g \in Gaps
  BY GapsType
<1> HIDE DEF g
<1>2. GapTracked(d, l) \in {d, [d EXCEPT !.gap = NoGap], [d EXCEPT !.gap = g]}
  BY DEF GapTracked, g
<1>3. [d EXCEPT !.gap = NoGap] \in Coords /\ [d EXCEPT !.gap = g] \in Coords
  BY <1>1 DEF Coords
<1>4. /\ SameEvidence([d EXCEPT !.gap = NoGap], d) /\ SameEvidence([d EXCEPT !.gap = g], d)
      /\ SameEvidence(d, d)
  BY DEF Coords, SameEvidence
<1> QED
  BY <1>2, <1>3, <1>4

LEMMA JudgedFacts ==
  ASSUME NEW d \in Coords, NEW l, Executed(l) \in 0..Quantity, NEW t, Whole(d)
  PROVE LET r == Judged(d, l, t) IN
          /\ r \in Coords /\ SameEvidence(r, d)
          /\ r.clean => d.pos = Executed(l)
<1> DEFINE r == Judged(d, l, t)
           clean == FullDifferences(d, l) = {}
           q0 == ((FullDifferences(d, l) \cap Unsafe) \ t) = {} /\ ~d.gap.expired
           p0 == d.paused \/ (FullDifferences(d, l) \cap Unsafe) \ t # {}
           v0 == d.venueSame \/ clean
           m0 == IF clean THEN Executed(l) ELSE d.matched
           b0 == IF clean THEN d.pos ELSE d.cbPos
<1>1. clean => d.pos = Executed(l)
  BY DEF FullDifferences, Disagreements, Comparable, Observed
<1>2. r = [d EXCEPT !.clean = clean, !.recovery = q0, !.paused = p0, !.ledgerSame = clean,
                    !.venueSame = v0, !.matched = m0, !.cbPos = b0]
  BY DEF Judged
<1>3. clean \in BOOLEAN /\ p0 \in BOOLEAN /\ q0 \in BOOLEAN /\ v0 \in BOOLEAN
  OBVIOUS
<1>4. m0 \in 0..Quantity \cup {None} /\ b0 \in Nat \cup {None}
  BY DEF Coords
<1> HIDE DEF r, clean, p0, q0, v0, m0, b0
<1>5. PICK n \in BOOLEAN, q \in BOOLEAN, p \in BOOLEAN, v \in BOOLEAN,
           m \in 0..Quantity \cup {None}, b \in Nat \cup {None} :
         /\ r = [d EXCEPT !.clean = n, !.recovery = q, !.paused = p, !.ledgerSame = n,
                          !.venueSame = v, !.matched = m, !.cbPos = b]
         /\ n = clean
  BY <1>2, <1>3, <1>4, ZenonT(60)
<1>6. /\ r = [d EXCEPT !.clean = n, !.recovery = q, !.paused = p, !.ledgerSame = n,
                       !.venueSame = v, !.matched = m, !.cbPos = b]
      /\ n = clean
  BY <1>5, Zenon
<1>7. [d EXCEPT !.clean = n, !.recovery = q, !.paused = p, !.ledgerSame = n,
                !.venueSame = v, !.matched = m, !.cbPos = b] \in Coords
  BY ZenonT(60) DEF Coords
<1>8. SameEvidence(r, d)
  BY <1>6 DEF Coords, SameEvidence
<1>9. r.clean = n
  BY <1>6 DEF Coords
<1>10. r.clean => d.pos = Executed(l)
  BY <1>1, <1>6, <1>9, Zenon
<1>11. r \in Coords
  BY <1>6, <1>7, Zenon
<1> QED
  BY <1>8, <1>10, <1>11 DEF r

LEMMA ReconciledFacts ==
  ASSUME NEW d \in Coords, NEW l, Executed(l) \in 0..Quantity
  PROVE LET r == Reconciled(d, l) IN
          /\ r \in Coords /\ SameEvidence(r, d)
          /\ r.clean => Whole(d) /\ d.pos = Executed(l)
<1> DEFINE r == Reconciled(d, l)
           d0 == Expired(d)
           d1 == Reanchored(d0, l)
           d2 == GapTracked(d1, l)
           transient == Transient(d2, l)
           early == Disagreements(d1, l) \ transient
           pp == d2.paused \/ early # {}
           qq == d2.recovery /\ early = {}
           aa == d2.ambiguous \/ (d2.reading /\ d2.late)
           d3 == [d2 EXCEPT !.recovery = @ /\ early = {},
                            !.paused = @ \/ early # {},
                            !.ambiguous = @ \/ (d2.reading /\ d2.late)]
           d4 == [d3 EXCEPT !.recovery = FALSE, !.paused = TRUE, !.clean = FALSE]
           d5 == [d3 EXCEPT !.clean = FALSE]
           j == Judged(d3, l, transient)
<1>1. d0 \in Coords /\ SameEvidence(d0, d)
  BY ExpiredFacts
<1>2. d1 \in Coords /\ SameEvidence(d1, d0)
  BY <1>1, ReanchoredFacts
<1>3. d2 \in Coords /\ SameEvidence(d2, d1)
  BY <1>2, GapTrackedFacts
<1> HIDE DEF d0, d1, d2
<1>4. SameEvidence(d2, d)
  BY <1>1, <1>2, <1>3 DEF SameEvidence
<1>5. d3 = [d2 EXCEPT !.recovery = qq, !.paused = pp, !.ambiguous = aa]
  OBVIOUS
<1>6. pp \in BOOLEAN /\ qq \in BOOLEAN /\ aa \in BOOLEAN
  OBVIOUS
<1>7. r = IF d3.ambiguous THEN d4 ELSE IF ~EvidenceComplete(d3) THEN d5 ELSE j
  BY DEF Reconciled, d0, d1, d2
<1> HIDE DEF d3, pp, qq, aa
<1>8. PICK p \in BOOLEAN, q \in BOOLEAN, a \in BOOLEAN :
         d3 = [d2 EXCEPT !.recovery = q, !.paused = p, !.ambiguous = a]
  BY <1>5, <1>6, Zenon
<1> HIDE DEF d4, d5, early, transient, r, j
<1>9. d3 \in Coords
  <2>1. [d2 EXCEPT !.recovery = q, !.paused = p, !.ambiguous = a] \in Coords
    BY <1>3 DEF Coords
  <2> QED
    BY <1>8, <2>1, Zenon
<1>10. SameEvidence(d3, d2)
  BY <1>3, <1>8 DEF Coords, SameEvidence
<1>11. SameEvidence(d3, d) /\ Whole(d3) = Whole(d) /\ d3.pos = d.pos
  BY <1>4, <1>10 DEF SameEvidence, Whole
<1>12. d4 \in Coords /\ SameEvidence(d4, d3) /\ ~d4.clean
  BY <1>9, ZenonT(60) DEF Coords, SameEvidence, d4
<1>13. d5 \in Coords /\ SameEvidence(d5, d3) /\ ~d5.clean
  BY <1>9, ZenonT(60) DEF Coords, SameEvidence, d5
<1>14. ASSUME EvidenceComplete(d3)
       PROVE  j \in Coords /\ SameEvidence(j, d3) /\ Whole(d3) /\ (j.clean => d3.pos = Executed(l))
  <2>1. Whole(d3)
    BY <1>14 DEF EvidenceComplete
  <2> QED
    BY <1>9, <2>1, JudgedFacts DEF j
<1>15. \A x : SameEvidence(x, d3) => SameEvidence(x, d)
  BY <1>11 DEF SameEvidence
<1> QED
  BY <1>7, <1>11, <1>12, <1>13, <1>14, <1>15 DEF r

-----------------------------------------------------------------------------
(* What an event does to the evidence and to the ledger *)

LEMMA RevisedFacts ==
  ASSUME NEW d \in Coords
  PROVE  Revised(d) \in Coords /\ SameEvidence(Revised(d), d)
<1>1. Revised(d) \in Coords
  BY ZenonT(60) DEF Coords, Revised
<1>2. SameEvidence(Revised(d), d)
  BY DEF Coords, Revised, SameEvidence
<1> QED
  BY <1>1, <1>2

LEMMA RecordedFacts ==
  ASSUME NEW l \in Ledgers, NEW e \in Events
  PROVE  /\ Recorded(l, e) \in Ledgers
         /\ e.kind = "execution" => Recorded(l, e).executed = l.executed \cup {e.fill}
         /\ e.kind # "execution" => Recorded(l, e).executed = l.executed
<1>1. ASSUME NEW ends \in BOOLEAN, NEW n \in 0..Quantity
      PROVE  /\ LedgerStatus(l, ends, n) \in Ledgers
             /\ LedgerStatus(l, ends, n).executed = l.executed
  <2>1. Larger(l.reported, n) \in 0..Quantity
    BY DEF Larger, Ledgers
  <2> DEFINE m == [l EXCEPT !.over = ends, !.reported = Larger(l.reported, n)]
  <2>2. m \in Ledgers /\ m.executed = l.executed
    BY <2>1 DEF Ledgers
  <2>3. LedgerStatus(l, ends, n) \in {l, m}
    BY DEF LedgerStatus
  <2> QED
    BY <2>2, <2>3
<1>2. CASE e \in Executions
  <2>1. e.kind = "execution" /\ e.fill \in 1..Quantity
    BY <1>2 DEF Executions
  <2> DEFINE u == l.unhedged \/ e.fill \notin l.executed
             s == l.executed \cup {e.fill}
  <2>2. u \in BOOLEAN /\ s \in SUBSET (1..Quantity)
    BY <2>1 DEF Ledgers
  <2>3. Recorded(l, e) = [l EXCEPT !.executed = s, !.unhedged = u]
    BY <2>1 DEF Recorded
  <2> HIDE DEF u, s
  <2>4. [l EXCEPT !.executed = s, !.unhedged = u] \in Ledgers
    BY <2>2 DEF Ledgers
  <2>5. [l EXCEPT !.executed = s, !.unhedged = u].executed = s
    BY DEF Ledgers
  <2> QED
    BY <2>1, <2>3, <2>4, <2>5 DEF s
<1>3. CASE e \in Statuses
  <2>1. e.kind = "order_status" /\ e.filled \in 0..Quantity /\ e.ends \in BOOLEAN
    BY <1>3 DEF Statuses
  <2>2. Recorded(l, e) = LedgerStatus(l, e.ends, e.filled)
    BY <2>1 DEF Recorded
  <2> QED
    BY <1>1, <2>1, <2>2
<1>4. CASE e \in Completions
  <2>1. e.kind = "completed" /\ e.filled \in 0..Quantity
    BY <1>4 DEF Completions
  <2>2. Recorded(l, e) = LedgerStatus(l, TRUE, e.filled)
    BY <2>1 DEF Recorded
  <2> QED
    BY <1>1, <2>1, <2>2
<1>5. CASE e \in Links \cup Ends \cup Positions
  BY <1>5 DEF Recorded, Links, Ends, Positions
<1> QED
  BY <1>2, <1>3, <1>4, <1>5 DEF Events

LEMMA LinkUpEvent ==
  ASSUME NEW d \in Coords, NEW l
  PROVE  Evidence(d, l, Up) \in Coords /\ SameEvidence(Evidence(d, l, Up), d)
<1> DEFINE x == [d EXCEPT !.ready = TRUE]
<1>1. Evidence(d, l, Up) = x
  BY DEF Evidence, Up
<1>2. x \in Coords
  BY DEF Coords
<1>3. SameEvidence(x, d)
  BY DEF Coords, SameEvidence
<1> QED
  BY <1>1, <1>2, <1>3

LEMMA LinkDownEvent ==
  ASSUME NEW d \in Coords, NEW l
  PROVE  LET x == Evidence(d, l, Down) IN
           /\ x \in Coords
           /\ \A k \in Kinds : x.got[k] = 0
           /\ ~x.reading
           /\ x.serial = d.serial /\ x.completed = d.completed /\ x.pos = d.pos
<1> DEFINE y == Revised(d)
           none == [k \in Kinds |-> 0]
           n == d.clean
           x == [y EXCEPT !.clean = n, !.ready = FALSE, !.recovery = FALSE,
                    !.got = none, !.reading = FALSE, !.late = FALSE,
                    !.matched = None, !.cbPos = None, !.ambiguous = FALSE]
<1>1. Evidence(d, l, Down) = x
  BY DEF Evidence, Down, ConnectionReset
<1>2. y \in Coords /\ SameEvidence(y, d)
  BY RevisedFacts
<1>3. none \in [Kinds -> 0..MaxReads] /\ \A k \in Kinds : none[k] = 0
  BY ReconciliationAssumption
<1>4. n \in BOOLEAN
  BY DEF Coords
<1> HIDE DEF y, none, n
<1>5. x \in Coords
  BY <1>2, <1>3, <1>4, ZenonT(60) DEF Coords
<1>6. /\ x.got = none /\ ~x.reading
      /\ x.serial = y.serial /\ x.completed = y.completed /\ x.pos = y.pos
  BY <1>2 DEF Coords
<1> HIDE DEF x
<1> QED
  BY <1>1, <1>2, <1>3, <1>5, <1>6 DEF SameEvidence

LEMMA ExecutionEvent ==
  ASSUME NEW d \in Coords, NEW l, NEW e \in Executions
  PROVE  Evidence(d, l, e) \in Coords /\ SameEvidence(Evidence(d, l, e), d)
<1> DEFINE y == Revised(d)
           x == [y EXCEPT !.ledgerSame = FALSE]
<1>1. Evidence(d, l, e) = x
  BY DEF Evidence, Executions
<1>2. y \in Coords /\ SameEvidence(y, d)
  BY RevisedFacts
<1> HIDE DEF y
<1>3. x \in Coords
  BY <1>2 DEF Coords
<1>4. SameEvidence(x, y)
  BY <1>2 DEF Coords, SameEvidence
<1> HIDE DEF x
<1> QED
  BY <1>1, <1>2, <1>3, <1>4 DEF SameEvidence

LEMMA PositionEvent ==
  ASSUME NEW d \in Coords, NEW l, NEW e \in Positions
  PROVE  LET x == Evidence(d, l, e) IN
           /\ x \in Coords
           /\ x.got = d.got /\ x.reading = d.reading
           /\ x.serial = d.serial /\ x.completed = d.completed
           /\ x.pos = e.quantity
<1> DEFINE y == Revised(d)
           q == e.quantity
           b == IF y.cbPos = None THEN None ELSE q
           x == [y EXCEPT !.pos = q, !.cbPos = b]
<1>1. Evidence(d, l, e) = x
  BY DEF Evidence, Positions
<1>2. y \in Coords /\ SameEvidence(y, d)
  BY RevisedFacts
<1>3. q \in Nat
  BY DEF Positions
<1> HIDE DEF y, q
<1>4. b \in Nat \cup {None}
  BY <1>3
<1> HIDE DEF b
<1>5. x \in Coords
  BY <1>2, <1>3, <1>4 DEF Coords
<1>6. /\ x.got = y.got /\ x.reading = y.reading
      /\ x.serial = y.serial /\ x.completed = y.completed /\ x.pos = q
  BY <1>2 DEF Coords
<1> HIDE DEF x
<1> QED
  BY <1>1, <1>2, <1>5, <1>6 DEF SameEvidence, q

LEMMA StatusEvent ==
  ASSUME NEW d \in Coords, NEW l \in Ledgers, NEW e \in Statuses
  PROVE  Evidence(d, l, e) \in Coords /\ SameEvidence(Evidence(d, l, e), d)
<1> DEFINE y == Revised(d)
           over == LedgerStatus(l, e.ends, 0).over
           o == ~over
           t == IF over /\ ~e.ends THEN TRUE ELSE IF e.ends THEN FALSE ELSE y.termConf
           f == y.refConf \/ (over /\ ~e.ends /\ y.reading)
           x == [[y EXCEPT !.open = o, !.termConf = t, !.refConf = f] EXCEPT !.ledgerSame = FALSE]
<1>1. Evidence(d, l, e) = x
  BY DEF Evidence, Statuses, ObservedOrder
<1>2. y \in Coords /\ SameEvidence(y, d)
  BY RevisedFacts
<1> HIDE DEF y, over
<1>3. o \in BOOLEAN /\ f \in BOOLEAN
  OBVIOUS
<1>4. t \in BOOLEAN
  BY <1>2 DEF Coords
<1> HIDE DEF o, t, f, x
<1>5. PICK p \in BOOLEAN, q \in BOOLEAN, g \in BOOLEAN :
        x = [y EXCEPT !.open = p, !.termConf = q, !.refConf = g, !.ledgerSame = FALSE]
  BY <1>3, <1>4, Zenon DEF x
<1>6. [y EXCEPT !.open = p, !.termConf = q, !.refConf = g, !.ledgerSame = FALSE] \in Coords
  BY <1>2, ZenonT(60) DEF Coords
<1>7. SameEvidence(x, y)
  BY <1>2, <1>5 DEF Coords, SameEvidence
<1> QED
  BY <1>1, <1>2, <1>5, <1>6, <1>7 DEF SameEvidence

LEMMA CompletedEvent ==
  ASSUME NEW d \in Coords, NEW l, NEW e \in Completions
  PROVE  Evidence(d, l, e) \in Coords /\ SameEvidence(Evidence(d, l, e), d)
<1> DEFINE y == Revised(d)
           x == [y EXCEPT !.open = FALSE, !.termConf = FALSE, !.ledgerSame = FALSE]
<1>1. Evidence(d, l, e) = x
  BY DEF Evidence, Completions
<1>2. y \in Coords /\ SameEvidence(y, d)
  BY RevisedFacts
<1> HIDE DEF y
<1>3. x \in Coords
  BY <1>2, ZenonT(60) DEF Coords
<1>4. SameEvidence(x, y)
  BY <1>2 DEF Coords, SameEvidence
<1> HIDE DEF x
<1> QED
  BY <1>1, <1>2, <1>3, <1>4 DEF SameEvidence

\* An end marker is counted under the read it answers; that of the executions
\* only for the read the coordinator asked for last.
LEMMA EndEvent ==
  ASSUME NEW d \in Coords, NEW l, NEW e \in Ends
  PROVE  LET x == Evidence(d, l, e) IN
           /\ x \in Coords
           /\ x.reading = d.reading
           /\ x.serial = d.serial /\ x.completed = d.completed /\ x.pos = d.pos
           /\ x.got = IF e.of = "execution" /\ e.serial # d.serial THEN d.got
                      ELSE [d.got EXCEPT ![e.of] = e.serial]
<1> DEFINE a == d.ambiguous \/ (d.reading /\ d.late)
           y == [d EXCEPT !.ambiguous = a]
           z == Counted(y, e)
           x == Ended(d, e)
<1>1. Evidence(d, l, e) = x /\ e.of \in Kinds /\ e.serial \in 1..MaxReads
  BY DEF Evidence, Ends
<1>2. a \in BOOLEAN
  OBVIOUS
<1> HIDE DEF a
<1>3. y \in Coords
  BY <1>2 DEF Coords
<1>4. SameEvidence(y, d)
  BY <1>2 DEF Coords, SameEvidence
<1> DEFINE g == IF e.of = "execution" /\ e.serial # y.serial THEN y.got
                ELSE [y.got EXCEPT ![e.of] = e.serial]
<1>5. g \in [Kinds -> 0..MaxReads]
  BY <1>1, <1>3 DEF Coords
<1>6. z = [y EXCEPT !.got = g]
  <2>1. [y EXCEPT !.got = y.got] = y
    BY <1>3 DEF Coords
  <2> HIDE DEF y
  <2> QED
    BY <2>1 DEF Counted
<1>7. g = IF e.of = "execution" /\ e.serial # d.serial THEN d.got
          ELSE [d.got EXCEPT ![e.of] = e.serial]
  BY <1>4 DEF SameEvidence
<1> HIDE DEF g, y, z
<1> DEFINE b == IF e.of = "position" /\ d.cbPos # None THEN d.pos ELSE z.cbPos
<1>8. z \in Coords
  BY <1>3, <1>5, <1>6 DEF Coords
<1>9. /\ z.got = g /\ z.reading = y.reading
      /\ z.serial = y.serial /\ z.completed = y.completed /\ z.pos = y.pos
  BY <1>3, <1>5, <1>6 DEF Coords
<1>10. b \in Nat \cup {None}
  BY <1>8 DEF Coords
<1>11. x = [z EXCEPT !.cbPos = b]
  <2>1. [z EXCEPT !.cbPos = z.cbPos] = z
    BY <1>8 DEF Coords
  <2> QED
    BY <2>1 DEF Ended, z, y, a
<1> HIDE DEF b, x
<1>12. x \in Coords
  BY <1>8, <1>10, <1>11 DEF Coords
<1>13. SameEvidence(x, z)
  BY <1>8, <1>10, <1>11 DEF Coords, SameEvidence
<1>14. /\ x.got = g /\ x.reading = d.reading
       /\ x.serial = d.serial /\ x.completed = d.completed /\ x.pos = d.pos
  BY <1>4, <1>9, <1>13 DEF SameEvidence
<1> QED
  BY <1>1, <1>7, <1>12, <1>14

LEMMA CompletedFacts ==
  ASSUME NEW d \in Coords
  PROVE  LET x == Completed(d) IN
           /\ x \in Coords /\ x.got = d.got /\ x.serial = d.serial /\ x.pos = d.pos
           /\ \/ x = d /\ ~(d.reading /\ Whole(d))
              \/ d.reading /\ Whole(d) /\ ~x.reading /\ x.completed = d.serial
<1>1. CASE ~(d.reading /\ Whole(d))
  BY <1>1 DEF Completed
<1>2. CASE d.reading /\ Whole(d)
  <2> DEFINE x == [d EXCEPT !.snapshot = "fresh", !.reading = FALSE, !.late = FALSE,
                            !.completed = d.serial, !.termConf = d.refConf]
  <2>1. Completed(d) = x
    BY <1>2 DEF Completed
  <2>2. x \in Coords
    BY DEF Coords
  <2>3. /\ x.got = d.got /\ x.serial = d.serial /\ x.pos = d.pos
        /\ ~x.reading /\ x.completed = d.serial
    BY DEF Coords
  <2> QED
    BY <1>2, <2>1, <2>2, <2>3
<1> QED
  BY <1>1, <1>2

LEMMA EvidenceType ==
  ASSUME NEW d \in Coords, NEW l \in Ledgers, NEW e \in Events
  PROVE  Evidence(d, l, e) \in Coords
<1>1. CASE e \in Links
  <2>1. e = Up \/ e = Down
    BY <1>1 DEF Links, Up, Down
  <2> QED
    BY <2>1, LinkUpEvent, LinkDownEvent
<1>2. CASE e \notin Links
  BY <1>2, EndEvent, ExecutionEvent, StatusEvent, CompletedEvent, PositionEvent, ZenonT(60) DEF Events
<1> QED
  BY <1>1, <1>2

LEMMA HandledType ==
  ASSUME NEW d \in Coords, NEW l \in Ledgers, NEW e \in Events
  PROVE  Reconciled(Completed(Evidence(d, l, e)), Recorded(l, e)) \in Coords
<1>1. Completed(Evidence(d, l, e)) \in Coords
  BY EvidenceType, CompletedFacts
<1>2. Executed(Recorded(l, e)) \in 0..Quantity
  BY RecordedFacts, LedgerCount
<1> QED
  BY <1>1, <1>2, ReconciledFacts

-----------------------------------------------------------------------------
(* The queue of events *)

LEMMA HeadFacts ==
  ASSUME NEW w \in Seq(Events), w # <<>>
  PROVE  /\ Len(w) \in Nat /\ Len(w) >= 1 /\ Head(w) = w[1] /\ Head(w) \in Events
         /\ Tail(w) \in Seq(Events) /\ Len(Tail(w)) = Len(w) - 1
         /\ \A i \in 1..Len(Tail(w)) : Tail(w)[i] = w[i + 1] /\ i + 1 \in 1..Len(w)
<1>1. /\ Len(w) \in Nat \ {0} /\ Head(w) \in Events /\ Tail(w) \in Seq(Events)
      /\ Len(Tail(w)) = Len(w) - 1
      /\ \A i \in 1..Len(Tail(w)) : Tail(w)[i] = w[i + 1]
  BY EmptySeq, HeadTailProperties
<1>2. Head(w) = w[1]
  BY <1>1
<1> QED
  BY <1>1, <1>2

LEMMA AppendFacts ==
  ASSUME NEW w \in Seq(Events), NEW e \in Events
  PROVE  /\ Append(w, e) \in Seq(Events) /\ Len(w) \in Nat
         /\ Len(Append(w, e)) = Len(w) + 1
         /\ \A i \in 1..Len(w) : Append(w, e)[i] = w[i]
         /\ Append(w, e)[Len(w) + 1] = e
BY AppendProperties, LenProperties

\* What is left of the queue once the connection is closed: a prefix, with or
\* without the event that announces the loss.
Cut(w) ==
    /\ wire' \in Seq(Events) /\ Len(wire') <= Len(w) + 1
    /\ \A i \in 1..Len(wire') : wire'[i] = IF i <= Len(w) THEN w[i] ELSE Down
    /\ owed' = {} /\ asked' = {} /\ lpc' = "down"

LEMMA PrefixFacts ==
  ASSUME NEW w \in Seq(Events), NEW n \in 0..Len(w)
  PROVE  /\ SubSeq(w, 1, n) \in Seq(Events) /\ Len(SubSeq(w, 1, n)) = n
         /\ \A i \in 1..n : SubSeq(w, 1, n)[i] = w[i]
<1>1. Len(w) \in Nat /\ \A i \in 1..n : w[i] \in Events
  BY LenProperties, ElementOfSeq
<1>2. n \in Int /\ 1 \in Int
  BY <1>1
<1>3. /\ SubSeq(w, 1, n) \in Seq(Events)
      /\ Len(SubSeq(w, 1, n)) = IF 1 <= n THEN n-1+1 ELSE 0
      /\ \A i \in 1..(n-1+1) : SubSeq(w, 1, n)[i] = w[1+i-1]
  BY <1>1, <1>2, SubSeqProperties
<1>4. /\ n - 1 + 1 = n /\ \A i \in 1..n : 1 + i - 1 = i
      /\ 1 > n => n = 0
  BY <1>1, <1>2
<1> QED
  BY <1>3, <1>4

LEMMA DownEvent == Down \in Events /\ Up \in Events
BY DEF Down, Up, Events, Links

LEMMA DisconnectFacts ==
  ASSUME wire \in Seq(Events), Disconnect(wire) \/ Disconnect(Append(wire, Down))
  PROVE  Cut(wire)
<1>1. CASE Disconnect(wire)
  <2>1. PICK n \in 0..Len(wire) : wire' = SubSeq(wire, 1, n)
    BY <1>1 DEF Disconnect
  <2>2. Len(wire) \in Nat
    BY LenProperties
  <2>3. wire' \in Seq(Events) /\ Len(wire') = n /\ \A i \in 1..n : wire'[i] = wire[i]
    BY <2>1, PrefixFacts
  <2> QED
    BY <1>1, <2>2, <2>3 DEF Cut, Disconnect
<1>2. CASE Disconnect(Append(wire, Down))
  <2> DEFINE w == Append(wire, Down)
  <2>1. /\ w \in Seq(Events) /\ Len(wire) \in Nat /\ Len(w) = Len(wire) + 1
        /\ \A i \in 1..Len(wire) : w[i] = wire[i]
        /\ w[Len(wire) + 1] = Down
    BY AppendFacts, DownEvent
  <2>2. PICK n \in 0..Len(w) : wire' = SubSeq(w, 1, n)
    BY <1>2 DEF Disconnect
  <2> HIDE DEF w
  <2>3. wire' \in Seq(Events) /\ Len(wire') = n /\ \A i \in 1..n : wire'[i] = w[i]
    BY <2>1, <2>2, PrefixFacts
  <2>4. \A i \in 1..n : wire'[i] = IF i <= Len(wire) THEN wire[i] ELSE Down
    BY <2>1, <2>3
  <2> QED
    BY <1>2, <2>1, <2>3, <2>4 DEF Cut, Disconnect
<1> QED
  BY <1>1, <1>2

-----------------------------------------------------------------------------
(* What the steps do, grouped by what they leave alone *)

\* A step that collects no evidence: at most the classification, the clocks
\* and the verdict move.
NoEvidence ==
    /\ c' \in Coords /\ led' \in Ledgers /\ SameEvidence(c', c)
    /\ led'.executed = led.executed
    /\ c'.clean => c.clean \/ (Whole(c) /\ c.pos = Executed(led))
    /\ blame' \in BOOLEAN /\ faults' \in 0..MaxFaults
    /\ UNCHANGED <<venue, begun>>

Stay == UNCHANGED <<owed, asked, wire, lpc>>

\* The evidence is judged again.
Verdict(d) == c' = Reconciled(d, led) /\ led' = led

LEMMA ReconciledStep ==
  ASSUME led \in Ledgers, blame \in BOOLEAN, faults' \in 0..MaxFaults,
         NEW d \in Coords, Verdict(d), SameEvidence(d, c), UNCHANGED <<venue, begun, blame>>
  PROVE  NoEvidence
<1>1. Executed(led) \in 0..Quantity
  BY LedgerCount
<1>2. /\ c' \in Coords /\ SameEvidence(c', d)
      /\ c'.clean => Whole(d) /\ d.pos = Executed(led)
  BY <1>1, ReconciledFacts DEF Verdict
<1>3. SameEvidence(c', c) /\ Whole(d) = Whole(c) /\ d.pos = c.pos
  BY <1>2 DEF SameEvidence, Whole
<1> QED
  BY <1>2, <1>3 DEF NoEvidence, Verdict

\* A field of the coordinator that is no evidence is set.
LEMMA FieldStep ==
  ASSUME led' \in Ledgers, led'.executed = led.executed,
         c' \in Coords, SameEvidence(c', c), c'.clean => c.clean,
         blame' \in BOOLEAN, faults' \in 0..MaxFaults, UNCHANGED <<venue, begun>>
  PROVE  NoEvidence
BY DEF NoEvidence

LEMMA TypeParts ==
  /\ TypeOK <=> /\ c \in Coords /\ led \in Ledgers /\ faults \in 0..MaxFaults
                /\ venue \in Frames /\ lpc \in {"down", "connecting", "waiting", "up"}
  /\ TypeOK' <=> /\ c' \in Coords /\ led' \in Ledgers /\ faults' \in 0..MaxFaults
                 /\ venue' \in Frames /\ lpc' \in {"down", "connecting", "waiting", "up"}
BY DEF TypeOK, Coords, Gaps, Ledgers, Frames

Typing ==
    /\ c \in Coords /\ led \in Ledgers /\ faults \in 0..MaxFaults
    /\ venue \in Frames /\ lpc \in {"down", "connecting", "waiting", "up"}
    /\ wire \in Seq(Events) /\ owed \subseteq Owable /\ asked \subseteq Asks
    /\ begun \in Views /\ blame \in BOOLEAN

LEMMA QuietSteps ==
  ASSUME Typing,
         \/ Cycle \/ HedgesSettle \/ Deadline \/ PolymarketStep
  PROVE  NoEvidence /\ Stay
<1>1. /\ c \in Coords /\ led \in Ledgers /\ blame \in BOOLEAN /\ faults \in 0..MaxFaults
      /\ c.recovery \in BOOLEAN
  BY DEF Typing, Coords
<1>2. ASSUME faults < MaxFaults, faults' = faults + 1 PROVE faults' \in 0..MaxFaults
  BY <1>1, <1>2, ReconciliationAssumption
<1>3. CASE Cycle
  <2>1. Verdict(c) /\ faults' \in 0..MaxFaults /\ UNCHANGED <<venue, begun, blame>> /\ Stay
    BY <1>1, <1>3 DEF Cycle, Verdict, Stay
  <2> QED
    BY <1>1, <2>1, ReconciledStep DEF SameEvidence
<1>4. CASE HedgesSettle
  <2> DEFINE l == [led EXCEPT !.unhedged = FALSE]
             d == [c EXCEPT !.ledgerSame = FALSE]
  <2>1. l \in Ledgers /\ l.executed = led.executed
    BY <1>1 DEF Ledgers
  <2>2. d \in Coords
    BY <1>1 DEF Coords
  <2>3. SameEvidence(d, c) /\ d.clean = c.clean
    BY <1>1 DEF Coords, SameEvidence
  <2>4. c' = d /\ led' = l /\ UNCHANGED <<venue, begun, blame, faults>> /\ Stay
    BY <1>4 DEF HedgesSettle, Stay
  <2> HIDE DEF d, l
  <2> QED
    BY <1>1, <2>1, <2>2, <2>3, <2>4, FieldStep
<1>5. CASE GapTimesOut
  <2> DEFINE g == [c.gap EXCEPT !.late = TRUE]
             d == [c EXCEPT !.gap = g]
  <2>1. g \in Gaps
    BY <1>1, GapsType
  <2>2. c' = d /\ blame' = TRUE /\ UNCHANGED <<led, venue, begun, faults>> /\ Stay
    BY <1>5 DEF GapTimesOut, Stay
  <2> HIDE DEF g
  <2>3. d \in Coords
    BY <1>1, <2>1 DEF Coords
  <2>4. SameEvidence(d, c) /\ d.clean = c.clean
    BY <1>1 DEF Coords, SameEvidence
  <2> HIDE DEF d
  <2> QED
    BY <1>1, <2>2, <2>3, <2>4, FieldStep
<1>6. CASE WatchGap
  <2>1. c' = Expired(c) /\ UNCHANGED <<led, venue, begun, blame, faults>> /\ Stay
    BY <1>6 DEF WatchGap, Stay
  <2> QED
    BY <1>1, <2>1, ExpiredFacts, FieldStep
<1>7. CASE ReadTimesOut
  <2> DEFINE d == [c EXCEPT !.late = TRUE]
  <2>1. c' = d /\ blame' = TRUE /\ UNCHANGED <<led, venue, begun>> /\ Stay /\ faults' \in 0..MaxFaults
    BY <1>2, <1>7 DEF ReadTimesOut, Stay
  <2>2. d \in Coords
    BY <1>1 DEF Coords
  <2>3. SameEvidence(d, c) /\ d.clean = c.clean
    BY <1>1 DEF Coords, SameEvidence
  <2> HIDE DEF d
  <2> QED
    BY <1>1, <2>1, <2>2, <2>3, FieldStep
<1>8. CASE SnapshotAges
  <2> DEFINE d == [c EXCEPT !.snapshot = "old"]
  <2>1. c' = d /\ UNCHANGED <<led, venue, begun, blame, faults>> /\ Stay
    BY <1>8 DEF SnapshotAges, Stay
  <2>2. d \in Coords
    BY <1>1 DEF Coords
  <2>3. SameEvidence(d, c) /\ d.clean = c.clean
    BY <1>1 DEF Coords, SameEvidence
  <2> HIDE DEF d
  <2> QED
    BY <1>1, <2>1, <2>2, <2>3, FieldStep
<1>9. CASE PolymarketChanges
  <2>1. PICK recovery \in {c.recovery, FALSE} :
           c' = Reconciled([Revised(c) EXCEPT !.poly = FALSE, !.recovery = recovery], led)
    BY <1>9 DEF PolymarketChanges
  <2> DEFINE y == Revised(c)
             d == [y EXCEPT !.poly = FALSE, !.recovery = recovery]
  <2>2. y \in Coords /\ SameEvidence(y, c) /\ recovery \in BOOLEAN
    BY <1>1, RevisedFacts
  <2>3. Verdict(d) /\ UNCHANGED <<venue, begun, blame>> /\ Stay /\ faults' \in 0..MaxFaults
    BY <1>2, <1>9, <2>1 DEF PolymarketChanges, Stay, Verdict
  <2> HIDE DEF y
  <2>4. d \in Coords
    BY <2>2 DEF Coords
  <2>5. SameEvidence(d, y)
    BY <2>2 DEF Coords, SameEvidence
  <2> HIDE DEF d
  <2>6. SameEvidence(d, c)
    BY <2>2, <2>5 DEF SameEvidence
  <2> QED
    BY <1>1, <2>3, <2>4, <2>6, ReconciledStep
<1>10. CASE PolymarketReadStarts
  <2> DEFINE d == [c EXCEPT !.polyRead = "reading"]
  <2>1. c' = d /\ UNCHANGED <<led, venue, begun, blame, faults>> /\ Stay
    BY <1>10 DEF PolymarketReadStarts, Stay
  <2>2. d \in Coords
    BY <1>1 DEF Coords
  <2>3. SameEvidence(d, c) /\ d.clean = c.clean
    BY <1>1 DEF Coords, SameEvidence
  <2> HIDE DEF d
  <2> QED
    BY <1>1, <2>1, <2>2, <2>3, FieldStep
<1>11. CASE PolymarketReadFails
  <2> DEFINE y == Revised(c)
             d == [y EXCEPT !.poly = FALSE, !.polyRead = "no"]
  <2>1. y \in Coords /\ SameEvidence(y, c)
    BY <1>1, RevisedFacts
  <2>2. ~y.clean
    BY <1>1 DEF Revised, Coords
  <2>3. c' = d /\ UNCHANGED <<led, venue, begun, blame>> /\ Stay /\ faults' \in 0..MaxFaults
    BY <1>2, <1>11 DEF PolymarketReadFails, Stay
  <2> HIDE DEF y
  <2>4. d \in Coords
    BY <2>1 DEF Coords
  <2>5. SameEvidence(d, y) /\ d.clean = y.clean
    BY <2>1 DEF Coords, SameEvidence
  <2> HIDE DEF d
  <2>6. SameEvidence(d, c)
    BY <2>1, <2>5 DEF SameEvidence
  <2> QED
    BY <1>1, <2>2, <2>3, <2>4, <2>5, <2>6, FieldStep
<1>12. CASE PolymarketReadEnds
  <2> DEFINE p == c.polyRead = "reading"
             d == [c EXCEPT !.poly = p, !.polyRead = "no"]
  <2>1. Verdict(d) /\ UNCHANGED <<venue, begun, blame, faults>> /\ Stay
    BY <1>12 DEF PolymarketReadEnds, Stay, Verdict
  <2>2. p \in BOOLEAN
    OBVIOUS
  <2> HIDE DEF p
  <2>3. d \in Coords
    BY <1>1, <2>2 DEF Coords
  <2>4. SameEvidence(d, c)
    BY <1>1, <2>2 DEF Coords, SameEvidence
  <2> HIDE DEF d
  <2> QED
    BY <1>1, <2>1, <2>3, <2>4, ReconciledStep
<1> QED
  BY <1>3, <1>4, <1>5, <1>6, <1>7, <1>8, <1>9, <1>10, <1>11, <1>12 DEF Deadline, PolymarketStep

\* The connection is closed, by whatever part of the loop.
Closes ==
    \/ ConnectionReady /\ c.ambiguous
    \/ LoopTurn /\ (c.ambiguous \/ (c.reading /\ c.late))
    \/ ReadyTimesOut \/ ConnectionLost

LEMMA CloseSteps ==
  ASSUME Typing, Closes
  PROVE  NoEvidence /\ Cut(wire)
<1>1. /\ c \in Coords /\ led \in Ledgers /\ blame \in BOOLEAN /\ faults \in 0..MaxFaults
      /\ wire \in Seq(Events)
  BY DEF Typing
<1>2. ASSUME faults < MaxFaults, faults' = faults + 1 PROVE faults' \in 0..MaxFaults
  BY <1>1, <1>2, ReconciliationAssumption
<1>3. ASSUME UNCHANGED <<c, led, venue, begun, blame>>, faults' \in 0..MaxFaults
      PROVE  NoEvidence
  BY <1>1, <1>3, FieldStep DEF SameEvidence
<1>4. CASE ConnectionReady /\ c.ambiguous
  <2>1. Disconnect(wire) /\ UNCHANGED <<c, led, venue, begun, blame, faults>>
    BY <1>4 DEF ConnectionReady
  <2> QED
    BY <1>1, <1>3, <2>1, DisconnectFacts
<1>5. CASE LoopTurn /\ (c.ambiguous \/ (c.reading /\ c.late))
  <2>1. /\ Disconnect(wire) /\ UNCHANGED <<led, venue, begun, blame, faults>>
        /\ c' = IF c.ambiguous THEN c ELSE Reconciled([c EXCEPT !.ambiguous = TRUE], led)
    BY <1>5 DEF LoopTurn
  <2>2. CASE c.ambiguous
    BY <1>1, <1>3, <2>1, <2>2, DisconnectFacts
  <2>3. CASE ~c.ambiguous
    <3> DEFINE d == [c EXCEPT !.ambiguous = TRUE]
    <3>1. d \in Coords
      BY <1>1 DEF Coords
    <3>2. SameEvidence(d, c)
      BY <1>1 DEF Coords, SameEvidence
    <3>3. Verdict(d)
      BY <2>1, <2>3 DEF Verdict
    <3> HIDE DEF d
    <3> QED
      BY <1>1, <2>1, <3>1, <3>2, <3>3, ReconciledStep, DisconnectFacts
  <2> QED
    BY <2>2, <2>3
<1>6. CASE ReadyTimesOut
  BY <1>1, <1>2, <1>3, <1>6, DisconnectFacts DEF ReadyTimesOut
<1>7. CASE ConnectionLost
  BY <1>1, <1>2, <1>3, <1>7, DisconnectFacts DEF ConnectionLost, Down
<1> QED
  BY <1>4, <1>5, <1>6, <1>7 DEF Closes

LEMMA BegunFacts ==
  ASSUME NEW d \in Coords, d.serial < MaxReads
  PROVE  LET r == Begun(d) IN
           /\ r \in Coords
           /\ r.got = [k \in Kinds |-> 0] /\ r.reading
           /\ r.serial = d.serial + 1 /\ r.completed = d.completed
           /\ r.pos = 0 /\ ~r.clean
<1> DEFINE none == [k \in Kinds |-> 0]
           s == d.serial + 1
           r == [d EXCEPT !.reading = TRUE, !.late = FALSE, !.serial = s,
              !.refConf = FALSE, !.clean = FALSE, !.open = FALSE,
              !.got = none, !.snapshot = "none", !.pos = 0]
<1>1. s \in 0..MaxReads
  BY ReconciliationAssumption DEF Coords
<1>2. none \in [Kinds -> 0..MaxReads]
  BY ReconciliationAssumption
<1>3. Begun(d) = r
  BY DEF Begun
<1> HIDE DEF none, s
<1>4. r \in Coords
  BY <1>1, <1>2 DEF Coords
<1>5. /\ r.got = none /\ r.reading
      /\ r.serial = s /\ r.completed = d.completed
      /\ r.pos = 0 /\ ~r.clean
  BY <1>1, <1>2 DEF Coords
<1> QED
  BY <1>3, <1>4, <1>5 DEF none, s

\* The loop asks for an account read, unless one is under way.
Asking ==
    /\ lpc' = "up" /\ RefreshAccount(c)
    /\ UNCHANGED <<led, venue, blame, faults, owed, wire>>

Begins ==
    /\ Asking /\ ~c.reading
    /\ c.serial < MaxReads /\ c' = Begun(c) /\ begun' = Viewed
    /\ asked' = asked \cup {[of |-> k, serial |-> c.serial + 1] : k \in Kinds}

\* Every step is of one of these sorts.
Sorts ==
    \/ HandleEvent
    \/ NoEvidence /\ Stay
    \/ NoEvidence /\ Cut(wire)
    \/ Begins
    \/ Asking /\ UNCHANGED <<c, asked, begun>> /\ c.reading
    \/ Connect \/ Connected \/ Restart
    \/ IbkrFills \/ IbkrEnds \/ ManualTrade
    \/ \E e \in owed : IbkrNotifies(e)
    \/ \E q \in asked : IbkrAnswers(q)

LEMMA StepSorts ==
  ASSUME Typing, Next
  PROVE  Sorts
<1>1. ASSUME (ConnectionReady /\ ~c.ambiguous) \/ (LoopTurn /\ ~(c.ambiguous \/ (c.reading /\ c.late)))
      PROVE  Begins \/ (Asking /\ UNCHANGED <<c, asked, begun>> /\ c.reading)
  <2>1. Asking
    BY <1>1 DEF Asking, ConnectionReady, LoopTurn
  <2> QED
    BY <2>1 DEF Begins, Asking, RefreshAccount
<1> QED
  BY <1>1, QuietSteps, CloseSteps DEF Next, LoopStep, VenueStep, Sorts, Closes

-----------------------------------------------------------------------------
(* What IBKR sends, and type correctness *)

LEMMA AnswerFacts ==
  ASSUME Typing, NEW k \in Kinds
  PROVE  /\ Answer(k) \in Seq(Events)
         /\ \A i \in 1..Len(Answer(k)) :
              /\ Answer(k)[i].kind \notin {"connection", "end"}
              /\ Answer(k)[i].kind = "execution" => Answer(k)[i].fill <= venue.filled
              /\ Answer(k)[i].kind = "position" => Answer(k)[i].quantity = Bought
         /\ k = "execution" => /\ Len(Answer(k)) = venue.filled
                               /\ \A n \in 1..venue.filled :
                                     Answer(k)[n] = [kind |-> "execution", fill |-> n]
         /\ k = "position" => \/ Bought = 0
                              \/ /\ Len(Answer(k)) = 1
                                 /\ Answer(k)[1].kind = "position" /\ Answer(k)[1].quantity = Bought
<1>1. /\ venue.filled \in 0..Quantity /\ venue.working \in BOOLEAN /\ venue.manual \in Nat
      /\ venue.filled \in Nat /\ Bought \in Nat
  BY ReconciliationAssumption DEF Typing, Frames, Bought
<1>one. ASSUME NEW e \in Events, Answer(k) = <<e>>, e.kind \notin {"connection", "end", "execution"},
               e.kind = "position" => e.quantity = Bought
        PROVE  /\ Answer(k) \in Seq(Events) /\ Len(Answer(k)) = 1 /\ Answer(k)[1] = e
               /\ \A i \in 1..Len(Answer(k)) :
                    /\ Answer(k)[i].kind \notin {"connection", "end"}
                    /\ Answer(k)[i].kind = "execution" => Answer(k)[i].fill <= venue.filled
                    /\ Answer(k)[i].kind = "position" => Answer(k)[i].quantity = Bought
  <2>1. Answer(k) \in Seq(Events) /\ Len(Answer(k)) = 1 /\ Answer(k)[1] = e
    BY <1>one
  <2>2. \A i \in 1..Len(Answer(k)) : Answer(k)[i] = e
    BY <2>1
  <2> HIDE DEF Answer
  <2> QED
    BY <1>one, <2>1, <2>2
<1>none. ASSUME Answer(k) = <<>>
         PROVE  Answer(k) \in Seq(Events) /\ Len(Answer(k)) = 0
  BY <1>none
<1>2. CASE k = "open_order" /\ venue.working
  <2>1. Answer(k) = <<StatusNow(0, FALSE)>>
    BY <1>2 DEF Answer
  <2>2. StatusNow(0, FALSE) \in Events
    BY ReconciliationAssumption DEF StatusNow, Events, Statuses
  <2>3. StatusNow(0, FALSE).kind = "order_status"
    BY DEF StatusNow
  <2> QED
    BY <1>2, <1>one, <2>1, <2>2, <2>3
<1>3. CASE k = "completed_order" /\ ~venue.working
  <2> DEFINE e == [kind |-> "completed", filled |-> venue.filled]
  <2>1. Answer(k) = <<e>>
    BY <1>3 DEF Answer
  <2>2. e \in Events
    BY <1>1 DEF Events, Completions
  <2>3. e.kind = "completed"
    OBVIOUS
  <2> HIDE DEF e
  <2> QED
    BY <1>3, <1>one, <2>1, <2>2, <2>3
<1>4. CASE (k = "open_order" /\ ~venue.working) \/ (k = "completed_order" /\ venue.working)
  <2>1. Answer(k) = <<>>
    BY <1>4 DEF Answer
  <2> QED
    BY <1>4, <1>none, <2>1
<1>5. CASE k = "execution"
  <2>1. Answer(k) = [n \in 1..venue.filled |-> [kind |-> "execution", fill |-> n]]
    BY <1>5 DEF Answer
  <2>2. \A n \in 1..venue.filled : [kind |-> "execution", fill |-> n] \in Events
    <3>1. \A n \in 1..venue.filled : n \in 1..Quantity
      BY <1>1, ReconciliationAssumption
    <3> QED
      BY <3>1 DEF Events, Executions
  <2>3. Answer(k) \in Seq(Events) /\ Len(Answer(k)) = venue.filled
    BY <1>1, <2>1, <2>2
  <2>4. \A n \in 1..venue.filled : Answer(k)[n] = [kind |-> "execution", fill |-> n]
    BY <2>1, Zenon
  <2>5. ASSUME NEW n \in 1..venue.filled
        PROVE  Answer(k)[n].kind = "execution" /\ Answer(k)[n].fill <= venue.filled
    <3>1. PICK e : e = [kind |-> "execution", fill |-> n]
      OBVIOUS
    <3>2. e.kind = "execution" /\ e.fill <= venue.filled
      BY <1>1, <3>1
    <3>3. Answer(k)[n] = e
      BY <2>4, <3>1
    <3> QED
      BY <3>2, <3>3
  <2> HIDE DEF Answer
  <2>6. \A i \in 1..Len(Answer(k)) :
              /\ Answer(k)[i].kind \notin {"connection", "end"}
              /\ Answer(k)[i].kind = "execution" => Answer(k)[i].fill <= venue.filled
              /\ Answer(k)[i].kind = "position" => Answer(k)[i].quantity = Bought
    BY <2>3, <2>5
  <2>7. k # "position"
    BY <1>5
  <2> QED
    BY <2>3, <2>4, <2>6, <2>7
<1>6. CASE k = "position" /\ Bought # 0
  <2>1. Answer(k) = <<PositionNow>>
    BY <1>6 DEF Answer
  <2>2. PositionNow \in Events
    BY <1>1 DEF PositionNow, Events, Positions
  <2>3. PositionNow.kind = "position" /\ PositionNow.quantity = Bought
    BY DEF PositionNow
  <2> QED
    BY <1>6, <1>one, <2>1, <2>2, <2>3
<1>7. CASE k = "position" /\ Bought = 0
  <2>1. Answer(k) = <<>>
    BY <1>7 DEF Answer
  <2> QED
    BY <1>7, <1>none, <2>1
<1> QED
  BY <1>2, <1>3, <1>4, <1>5, <1>6, <1>7 DEF Kinds

\* The queue after an answer: as it was, the data, the end marker.
LEMMA AnswersFacts ==
  ASSUME Typing, NEW q \in asked, IbkrAnswers(q)
  PROVE  LET n == Len(wire)
             m == Len(Answer(q.of)) IN
         /\ q.of \in Kinds /\ q.serial \in 1..MaxReads
         /\ n \in Nat /\ m \in Nat
         /\ wire' \in Seq(Events) /\ Len(wire') = n + m + 1
         /\ \A i \in 1..n : wire'[i] = wire[i]
         /\ \A i \in 1..m : wire'[n + i] = Answer(q.of)[i]
         /\ wire'[n + m + 1] = [kind |-> "end", of |-> q.of, serial |-> q.serial]
<1> DEFINE n == Len(wire)
           a == Answer(q.of)
           e == [kind |-> "end", of |-> q.of, serial |-> q.serial]
<1>1. q.of \in Kinds /\ q.serial \in 1..MaxReads
  BY DEF Typing, Asks
<1>2. a \in Seq(Events) /\ wire \in Seq(Events)
  BY <1>1, AnswerFacts DEF Typing
<1>3. e \in Events
  BY <1>1 DEF Events, Ends
<1>4. wire' = wire \o a \o <<e>>
  BY DEF IbkrAnswers
<1> HIDE DEF a, e
<1>5. n \in Nat /\ Len(a) \in Nat
  BY <1>2, LenProperties
<1>6. /\ wire \o a \in Seq(Events) /\ Len(wire \o a) = n + Len(a)
      /\ \A i \in 1..(n + Len(a)) : (wire \o a)[i] = IF i <= n THEN wire[i] ELSE a[i - n]
  BY <1>2, ConcatProperties
<1>7. <<e>> \in Seq(Events) /\ Len(<<e>>) = 1 /\ <<e>>[1] = e
  BY <1>3
<1>8. /\ wire' \in Seq(Events) /\ Len(wire') = n + Len(a) + 1
      /\ \A i \in 1..(n + Len(a) + 1) :
            wire'[i] = IF i <= n + Len(a) THEN (wire \o a)[i] ELSE <<e>>[i - (n + Len(a))]
  BY <1>4, <1>6, <1>7, ConcatProperties
<1>9. \A i \in 1..n : wire'[i] = wire[i]
  BY <1>5, <1>6, <1>8
<1>10. ASSUME NEW i \in 1..Len(a) PROVE wire'[n + i] = a[i]
  <2>1. n + i \in 1..(n + Len(a)) /\ ~(n + i <= n) /\ (n + i) - n = i
    BY <1>5
  <2> QED
    BY <1>5, <1>6, <1>8, <2>1
<1>11. wire'[n + Len(a) + 1] = e
  <2>1. /\ n + Len(a) + 1 \in 1..(n + Len(a) + 1)
        /\ ~(n + Len(a) + 1 <= n + Len(a)) /\ (n + Len(a) + 1) - (n + Len(a)) = 1
    BY <1>5
  <2> QED
    BY <1>7, <1>8, <2>1
<1> QED
  BY <1>1, <1>5, <1>8, <1>9, <1>10, <1>11 DEF a, e

\* The queue after a live callback.
LEMMA NotifiesFacts ==
  ASSUME Typing, NEW e \in owed, IbkrNotifies(e)
  PROVE  LET n == Len(wire)
             f == wire'[n + 1] IN
         /\ n \in Nat /\ wire' \in Seq(Events) /\ Len(wire') = n + 1
         /\ \A i \in 1..n : wire'[i] = wire[i]
         /\ \/ f = PositionNow
            \/ f = e /\ e \in Executions \cup Statuses
<1> DEFINE f == IF e.kind = "position" THEN PositionNow ELSE e
<1>1. e \in Owable /\ wire \in Seq(Events)
  BY DEF Typing
<1>2. f = PositionNow \/ (f = e /\ e \in Executions \cup Statuses)
  BY <1>1 DEF Owable
<1>3. Bought \in Nat
  BY ReconciliationAssumption DEF Typing, Frames, Bought
<1>4. f \in Events
  BY <1>2, <1>3 DEF Events, PositionNow, Positions
<1>5. wire' = Append(wire, f)
  BY DEF IbkrNotifies
<1> HIDE DEF f
<1> QED
  BY <1>1, <1>2, <1>4, <1>5, AppendFacts

LEMMA ViewedType ==
  ASSUME venue \in Frames
  PROVE  Viewed \in Views /\ (Viewed.alone <=> Alone)
BY DEF Viewed, Views, Frames, Alone

LEMMA TypingInit == Init => Typing
<1> SUFFICES ASSUME Init PROVE Typing
  OBVIOUS
<1> USE ReconciliationAssumption
<1>1. Startup \in Coords
  <2>1. NoGap \in Gaps
    BY DEF Gaps, NoGap
  <2>2. [k \in Kinds |-> 0] \in [Kinds -> 0..MaxReads]
    OBVIOUS
  <2>3. (~PolymarketMoves) \in BOOLEAN
    OBVIOUS
  <2> QED
    BY <2>1, <2>2, <2>3 DEF Startup, Coords, None
<1>2. led \in Ledgers
  BY DEF Init, Ledgers
<1>3. venue \in Frames /\ begun \in Views
  BY ViewedType DEF Init, Frames
<1>4. wire \in Seq(Events) /\ owed \subseteq Owable /\ asked \subseteq Asks
  BY DEF Init
<1> QED
  <2>1. c = Startup /\ lpc = "down" /\ blame = FALSE /\ faults = 0
    BY DEF Init
  <2>2. faults \in 0..MaxFaults
    BY <2>1
  <2> QED
    BY <1>1, <1>2, <1>3, <1>4, <2>1, <2>2 DEF Typing

LEMMA TypingStep == Typing /\ [Next]_vars => Typing'
<1> SUFFICES ASSUME Typing, [Next]_vars PROVE Typing'
  OBVIOUS
<1> USE ReconciliationAssumption
<1>1. CASE HandleEvent
  <2>1. /\ Head(wire) \in Events /\ Tail(wire) \in Seq(Events)
    BY <1>1, HeadFacts DEF HandleEvent, Typing
  <2>2. /\ led' = Recorded(led, Head(wire))
        /\ c' = Reconciled(Completed(Evidence(c, led, Head(wire))), Recorded(led, Head(wire)))
        /\ wire' = Tail(wire)
    BY <1>1 DEF HandleEvent
  <2>3. c' \in Coords /\ led' \in Ledgers
    BY <2>1, <2>2, HandledType, RecordedFacts DEF Typing
  <2> QED
    BY <1>1, <2>1, <2>2, <2>3 DEF HandleEvent, Typing
<1>2. CASE NoEvidence /\ Stay
  BY <1>2 DEF NoEvidence, Stay, Typing
<1>3. CASE NoEvidence /\ Cut(wire)
  BY <1>3 DEF NoEvidence, Cut, Typing
<1>4. CASE Begins
  <2>1. c' \in Coords
    BY <1>4, BegunFacts DEF Begins, Typing
  <2>2. c.serial + 1 \in 1..MaxReads
    BY <1>4 DEF Begins, Typing, Coords
  <2>3. {[of |-> k, serial |-> c.serial + 1] : k \in Kinds} \subseteq Asks
    BY <2>2 DEF Asks
  <2>4. asked' \subseteq Asks
    BY <1>4, <2>3 DEF Begins, Typing
  <2>5. begun' \in Views
    BY <1>4, ViewedType DEF Begins, Typing
  <2> QED
    BY <1>4, <2>1, <2>4, <2>5 DEF Begins, Asking, Typing
<1>5. CASE Asking /\ UNCHANGED <<c, asked, begun>> /\ c.reading
  BY <1>5 DEF Asking, Typing
<1>6. CASE Connect
  <2>1. wire' \in Seq(Events)
    BY <1>6, AppendFacts, DownEvent DEF Connect, Typing, Down
  <2>2. [c EXCEPT !.ready = FALSE] \in Coords
    BY DEF Coords, Typing
  <2> QED
    BY <1>6, <2>1, <2>2 DEF Connect, Typing
<1>7. CASE Connected
  <2>1. wire' \in Seq(Events)
    BY <1>7, AppendFacts, DownEvent DEF Connected, Typing, Up
  <2> QED
    BY <1>7, <2>1 DEF Connected, Typing
<1>8. CASE Restart
  <2>1. [Startup EXCEPT !.serial = c.serial] \in Coords
    <3>1. NoGap \in Gaps
      BY DEF Gaps, NoGap
    <3>2. [k \in Kinds |-> 0] \in [Kinds -> 0..MaxReads]
      OBVIOUS
    <3>3. (~PolymarketMoves) \in BOOLEAN
      OBVIOUS
    <3>4. c.serial \in 0..MaxReads
      BY DEF Typing, Coords
    <3>5. Startup \in Coords
      BY <3>1, <3>2, <3>3 DEF Startup, Coords, None
    <3> QED
      BY <3>4, <3>5 DEF Coords
  <2>2. faults' \in 0..MaxFaults /\ c' \in Coords
    BY <1>8, <2>1 DEF Restart, Typing
  <2>3. UNCHANGED <<led, venue, begun, blame>> /\ wire' = <<>> /\ owed' = {} /\ asked' = {}
        /\ lpc' = "down"
    BY <1>8 DEF Restart
  <2>4. wire' \in Seq(Events)
    BY <2>3
  <2> QED
    BY <2>2, <2>3, <2>4 DEF Typing
<1>9. CASE IbkrFills
  <2>1. venue.filled + 1 \in 1..Quantity
    BY <1>9 DEF IbkrFills, Typing, Frames
  <2> DEFINE n == venue.filled + 1
             w == n < Quantity
  <2>2. venue' \in Frames
    <3>1. w \in BOOLEAN /\ n \in 0..Quantity
      BY <2>1
    <3>2. venue' = [venue EXCEPT !.filled = n, !.working = w]
      BY <1>9 DEF IbkrFills
    <3> HIDE DEF n, w
    <3> QED
      BY <3>1, <3>2 DEF Typing, Frames
  <2>3. {[kind |-> "execution", fill |-> venue.filled + 1], [kind |-> "position"],
         StatusNow(venue.filled + 1, venue.filled + 1 = Quantity)} \subseteq Owable
    BY <2>1 DEF Owable, Executions, Statuses, StatusNow
  <2>4. owed' \subseteq Owable
    BY <1>9, <2>3 DEF IbkrFills, Owing, Typing
  <2> QED
    BY <1>9, <2>2, <2>4 DEF IbkrFills, Typing
<1>10. CASE IbkrEnds
  <2>1. venue' \in Frames
    BY <1>10 DEF IbkrEnds, Typing, Frames
  <2>2. {StatusNow(venue.filled, TRUE)} \subseteq Owable
    BY DEF Owable, Statuses, StatusNow, Typing, Frames
  <2>3. owed' \subseteq Owable
    BY <1>10, <2>2 DEF IbkrEnds, Owing, Typing
  <2> QED
    BY <1>10, <2>1, <2>3 DEF IbkrEnds, Typing
<1>11. CASE ManualTrade
  <2>1. venue' \in Frames
    BY <1>11 DEF ManualTrade, Typing, Frames
  <2>2. {[kind |-> "position"]} \subseteq Owable
    BY DEF Owable
  <2>3. owed' \subseteq Owable
    BY <1>11, <2>2 DEF ManualTrade, Owing, Typing
  <2> QED
    BY <1>11, <2>1, <2>3 DEF ManualTrade, Typing
<1>12. CASE \E e \in owed : IbkrNotifies(e)
  BY <1>12, NotifiesFacts DEF IbkrNotifies, Typing
<1>13. CASE \E q \in asked : IbkrAnswers(q)
  BY <1>13, AnswersFacts DEF IbkrAnswers, Typing
<1>14. CASE UNCHANGED vars
  BY <1>14 DEF vars, Typing
<1> QED
  BY <1>1, <1>2, <1>3, <1>4, <1>5, <1>6, <1>7, <1>8, <1>9, <1>10, <1>11, <1>12, <1>13, <1>14,
     StepSorts DEF Sorts

\* Every field of the evidence, the ledger, the order and the loop keeps its
\* type: in particular the reads counted, the position last matched and the
\* fills recorded stay within their bounds.
THEOREM TypeCorrect == Spec => []TypeOK
<1>1. Typing => TypeOK
  BY TypeParts DEF Typing
<1> QED
  BY <1>1, TypingInit, TypingStep, PTL DEF Spec

-----------------------------------------------------------------------------
(* The handling of one event *)

\* The evidence once the first event is in, before it is reconciled.
Seen == Completed(Evidence(c, led, wire[1]))

Places == 1..Len(wire)

LEMMA HandledFacts ==
  ASSUME Typing, HandleEvent
  PROVE  /\ Len(wire) \in Nat /\ Len(wire) >= 1 /\ Len(wire') = Len(wire) - 1
         /\ \A i \in Places' : wire'[i] = wire[i + 1] /\ i + 1 \in Places /\ i \in Nat
         /\ \A i \in Places : i = 1 \/ (i - 1 \in Places' /\ wire'[i - 1] = wire[i])
         /\ wire[1] \in Events /\ 1 \in Places /\ \A i \in Places : ~(i < 1)
         /\ UNCHANGED <<venue, owed, asked, lpc, begun, blame, faults>>
         /\ led' = Recorded(led, wire[1]) /\ led' \in Ledgers
         /\ Seen \in Coords /\ c' = Reconciled(Seen, led')
<1>1. /\ Len(wire) \in Nat /\ Len(wire) >= 1 /\ Head(wire) = wire[1] /\ wire[1] \in Events
      /\ Len(Tail(wire)) = Len(wire) - 1
      /\ \A i \in 1..Len(Tail(wire)) : Tail(wire)[i] = wire[i + 1] /\ i + 1 \in 1..Len(wire)
  BY HeadFacts DEF HandleEvent, Typing
<1>2. /\ wire' = Tail(wire) /\ UNCHANGED <<venue, owed, asked, lpc, begun, blame, faults>>
      /\ led' = Recorded(led, wire[1]) /\ c' = Reconciled(Seen, led')
  BY <1>1 DEF HandleEvent, Seen
<1>3. led' \in Ledgers /\ Seen \in Coords
  BY <1>1, <1>2, RecordedFacts, EvidenceType, CompletedFacts DEF Typing, Seen
<1>4. \A i \in Places : i = 1 \/ (i - 1 \in Places' /\ (i - 1) + 1 = i)
  BY <1>1, <1>2 DEF Places
<1>5. \A i \in Places : ~(i < 1)
  BY <1>1 DEF Places
<1> QED
  BY <1>1, <1>2, <1>3, <1>4, <1>5 DEF Places

\* What each kind of event leaves of the evidence and of the ledger, while no
\* read is whole before its last answer.
LEMMA SeenFacts ==
  ASSUME Typing, HandleEvent, c.reading => ~Whole(c)
  PROVE  /\ c'.serial = c.serial
         /\ wire[1].kind # "end" /\ wire[1] # Down =>
              c'.got = c.got /\ c'.reading = c.reading /\ c'.completed = c.completed
         /\ wire[1] = Down =>
              (\A k \in Kinds : c'.got[k] = 0) /\ ~c'.reading /\ c'.completed = c.completed
         /\ wire[1].kind = "end" =>
              /\ wire[1].of \in Kinds /\ wire[1].serial \in 1..MaxReads
              /\ c'.got = IF wire[1].of = "execution" /\ wire[1].serial # c.serial THEN c.got
                          ELSE [c.got EXCEPT ![wire[1].of] = wire[1].serial]
              /\ \/ /\ c'.reading = c.reading /\ c'.completed = c.completed
                    /\ ~(c'.reading /\ Whole(c'))
                 \/ c.reading /\ Whole(c') /\ ~c'.reading /\ c'.completed = c.serial
         /\ wire[1].kind = "position" =>
              wire[1].quantity \in Nat /\ c'.pos = wire[1].quantity
         /\ wire[1].kind # "position" => c'.pos = c.pos
         /\ wire[1].kind = "execution" => led'.executed = led.executed \cup {wire[1].fill}
         /\ wire[1].kind # "execution" => led'.executed = led.executed
         /\ c'.clean => Whole(c') /\ c'.pos = Executed(led')
<1> DEFINE e == wire[1]
           y == Evidence(c, led, e)
<1>1. /\ c \in Coords /\ led \in Ledgers /\ e \in Events /\ led' = Recorded(led, e)
      /\ led' \in Ledgers /\ Seen \in Coords /\ c' = Reconciled(Seen, led')
  BY HandledFacts DEF Typing
<1>2. SameEvidence(c', Seen) /\ (c'.clean => Whole(Seen) /\ Seen.pos = Executed(led'))
  BY <1>1, LedgerCount, ReconciledFacts
<1>3. Whole(c') = Whole(Seen)
  BY <1>2 DEF Whole, SameEvidence
<1>4. y \in Coords
  BY <1>1, EvidenceType
<1>5. /\ Seen.got = y.got /\ Seen.serial = y.serial /\ Seen.pos = y.pos
      /\ \/ Seen = y /\ ~(y.reading /\ Whole(y))
         \/ y.reading /\ Whole(y) /\ ~Seen.reading /\ Seen.completed = y.serial
  BY <1>4, CompletedFacts DEF Seen
<1>6. Whole(Seen) = Whole(y)
  BY <1>5 DEF Whole
<1>7. /\ e.kind = "execution" => led'.executed = led.executed \cup {e.fill}
      /\ e.kind # "execution" => led'.executed = led.executed
  BY <1>1, RecordedFacts
<1>k. /\ "end" # "connection" /\ "end" # "execution" /\ "end" # "order_status"
      /\ "end" # "completed" /\ "end" # "position" /\ "position" # "connection"
      /\ Down.kind = "connection" /\ Up.kind = "connection" /\ Up # Down
  BY DEF Down, Up
<1> HIDE DEF e, y
<1>same. ASSUME SameEvidence(y, c)
         PROVE  Seen = y /\ SameEvidence(c', c)
  <2>1. ~(y.reading /\ Whole(y))
    BY <1>same DEF SameEvidence, Whole
  <2> QED
    BY <1>2, <1>5, <1>same, <2>1 DEF SameEvidence
<1>8. CASE e = Up \/ e \in Executions \/ e \in Statuses \/ e \in Completions
  <2>1. SameEvidence(y, c)
    BY <1>1, <1>8, LinkUpEvent, ExecutionEvent, StatusEvent, CompletedEvent DEF y
  <2>2. e.kind \notin {"end", "position"} /\ e # Down
    BY <1>8, <1>k DEF Executions, Statuses, Completions
  <2> QED
    BY <1>2, <1>3, <1>7, <1>same, <2>1, <2>2 DEF SameEvidence, e
<1>9. CASE e = Down
  <2>1. /\ \A k \in Kinds : y.got[k] = 0
        /\ ~y.reading /\ y.serial = c.serial /\ y.completed = c.completed /\ y.pos = c.pos
    BY <1>1, <1>9, LinkDownEvent DEF y
  <2>2. Seen = y
    BY <1>5, <2>1
  <2> QED
    BY <1>2, <1>3, <1>7, <1>k, <1>9, <2>1, <2>2 DEF SameEvidence, e
<1>10. CASE e \in Positions
  <2>1. /\ y.got = c.got /\ y.reading = c.reading
        /\ y.serial = c.serial /\ y.completed = c.completed /\ y.pos = e.quantity
    BY <1>1, <1>10, PositionEvent DEF y
  <2>2. e.kind = "position" /\ e.quantity \in Nat
    BY <1>10 DEF Positions
  <2>3. Seen = y
    BY <1>5, <2>1 DEF Whole
  <2> QED
    BY <1>2, <1>3, <1>7, <1>k, <2>1, <2>2, <2>3 DEF SameEvidence, e
<1>11. CASE e \in Ends
  <2>1. e.kind = "end" /\ e.of \in Kinds /\ e.serial \in 1..MaxReads
    BY <1>11 DEF Ends
  <2>2. /\ y.reading = c.reading
        /\ y.serial = c.serial /\ y.completed = c.completed /\ y.pos = c.pos
        /\ y.got = IF e.of = "execution" /\ e.serial # c.serial THEN c.got
                   ELSE [c.got EXCEPT ![e.of] = e.serial]
    BY <1>1, <1>11, EndEvent DEF y
  <2>3. \/ c'.reading = c.reading /\ c'.completed = c.completed /\ ~(c'.reading /\ Whole(c'))
        \/ c.reading /\ Whole(c') /\ ~c'.reading /\ c'.completed = c.serial
    BY <1>2, <1>3, <1>5, <1>6, <2>2 DEF SameEvidence
  <2>4. c'.got = y.got /\ c'.serial = c.serial /\ c'.pos = c.pos
    BY <1>2, <1>5, <2>2 DEF SameEvidence
  <2>5. e.kind # "position" /\ e.kind # "execution" /\ e # Down
    BY <1>k, <2>1
  <2>6. c'.clean => Whole(c') /\ c'.pos = Executed(led')
    BY <1>2, <1>3 DEF SameEvidence
  <2> HIDE DEF Whole
  <2> QED
    BY <1>7, <2>1, <2>2, <2>3, <2>4, <2>5, <2>6 DEF e
<1>12. e \in Links => e = Up \/ e = Down
  BY DEF Links, Up, Down
<1> QED
  BY <1>1, <1>8, <1>9, <1>10, <1>11, <1>12 DEF Events

-----------------------------------------------------------------------------
(* Of any read, whatever is queued: nothing on its way names a later read,  *)
(* and the end of executions is counted for the read last asked for only.   *)

ReadInv ==
    /\ lpc # "up" => asked = {}
    /\ \A q \in asked : q.serial <= c.serial
    /\ \A i \in Places : wire[i].kind = "end" => wire[i].serial <= c.serial
    /\ c.completed <= c.serial
    /\ c.reading => ~Whole(c)
    /\ c.got["execution"] \in {0, c.serial}
    /\ c.clean => Whole(c) /\ c.pos = Executed(led)

LEMMA WireTyped ==
  ASSUME Typing
  PROVE  /\ Len(wire) \in Nat /\ \A i \in Places : wire[i] \in Events
         /\ c \in Coords /\ c.serial \in 0..MaxReads /\ c.completed \in 0..MaxReads
         /\ c.reading \in BOOLEAN /\ c.got \in [Kinds -> 0..MaxReads]
BY LenProperties, ElementOfSeq DEF Typing, Coords, Places

\* A step that leaves the evidence but perhaps the verdict, and queues no end
\* of a read that was not asked for.
LEMMA ReadKept ==
  ASSUME Typing, ReadInv, SameEvidence(c', c), led'.executed = led.executed,
         c'.clean => c.clean \/ (Whole(c) /\ c.pos = Executed(led)),
         asked' \subseteq asked, lpc' # "up" => lpc # "up" \/ asked' = {},
         \A i \in Places' : wire'[i].kind = "end" =>
            \/ i \in Places /\ wire'[i] = wire[i]
            \/ wire'[i].serial \in {q.serial : q \in asked}
  PROVE  ReadInv'
<1>1. Whole(c') = Whole(c) /\ Executed(led') = Executed(led) /\ c'.pos = c.pos
      /\ c'.serial = c.serial /\ c'.reading = c.reading /\ c'.completed = c.completed
      /\ c'.got = c.got
  BY DEF SameEvidence, Whole, Executed
<1>2. \A i \in Places' : wire'[i].kind = "end" => wire'[i].serial <= c'.serial
  BY <1>1 DEF ReadInv
<1>3. lpc' # "up" => asked' = {}
  BY DEF ReadInv
<1> HIDE DEF Whole, Executed
<1> QED
  BY <1>1, <1>2, <1>3 DEF ReadInv

LEMMA ReadHandled ==
  ASSUME Typing, ReadInv, HandleEvent
  PROVE  ReadInv'
<1>1. c.reading => ~Whole(c)
  BY DEF ReadInv
<1>2. c'.serial = c.serial /\ c.serial \in Int /\ c.completed <= c.serial
  BY <1>1, SeenFacts, WireTyped DEF ReadInv
<1>3. /\ \A i \in Places' : wire'[i] = wire[i + 1] /\ i + 1 \in Places
      /\ UNCHANGED <<asked, lpc>>
  BY HandledFacts
<1>4. \A i \in Places' : wire'[i].kind = "end" => wire'[i].serial <= c'.serial
  BY <1>2, <1>3 DEF ReadInv
<1>5. /\ c'.completed <= c'.serial /\ (c'.reading => ~Whole(c'))
      /\ c'.got["execution"] \in {0, c'.serial}
  <2>1. CASE wire[1].kind # "end" /\ wire[1] # Down
    <3>1. c'.got = c.got /\ c'.reading = c.reading /\ c'.completed = c.completed
      BY <1>1, <2>1, SeenFacts
    <3> QED
      BY <1>2, <3>1 DEF ReadInv, Whole
  <2>2. CASE wire[1] = Down
    <3>1. (\A k \in Kinds : c'.got[k] = 0) /\ ~c'.reading /\ c'.completed = c.completed
      BY <1>1, <2>2, SeenFacts
    <3> QED
      BY <1>2, <3>1 DEF Kinds
  <2>3. CASE wire[1].kind = "end"
    <3>1. /\ wire[1].of \in Kinds
          /\ c'.got = IF wire[1].of = "execution" /\ wire[1].serial # c.serial THEN c.got
                      ELSE [c.got EXCEPT ![wire[1].of] = wire[1].serial]
          /\ \/ /\ c'.reading = c.reading /\ c'.completed = c.completed
                /\ ~(c'.reading /\ Whole(c'))
             \/ c.reading /\ Whole(c') /\ ~c'.reading /\ c'.completed = c.serial
      BY <1>1, <2>3, SeenFacts
    <3>2. c'.got["execution"] \in {c.got["execution"], c.serial}
      BY <3>1, WireTyped DEF Kinds
    <3> HIDE DEF Whole
    <3> QED
      BY <1>2, <3>1, <3>2 DEF ReadInv
  <2> QED
    BY <2>1, <2>2, <2>3
<1>6. c'.clean => Whole(c') /\ c'.pos = Executed(led')
  BY <1>1, SeenFacts
<1> QED
  BY <1>2, <1>3, <1>4, <1>5, <1>6 DEF ReadInv

LEMMA ReadBegins ==
  ASSUME Typing, ReadInv, Begins
  PROVE  ReadInv'
<1>1. /\ c' = Begun(c) /\ c.serial < MaxReads /\ c \in Coords
      /\ asked' = asked \cup {[of |-> k, serial |-> c.serial + 1] : k \in Kinds}
      /\ lpc' = "up" /\ UNCHANGED wire
  BY DEF Begins, Asking, Typing
<1>2. /\ \A k \in Kinds : c'.got[k] = 0
      /\ c'.serial = c.serial + 1 /\ c'.completed = c.completed /\ ~c'.clean
  BY <1>1, BegunFacts
<1>3. c.serial \in Nat /\ c.completed \in Nat /\ c.completed <= c.serial
  BY WireTyped, ReconciliationAssumption DEF ReadInv
<1>4. ~Whole(c') /\ c'.got["execution"] = 0
  BY <1>2 DEF Whole, Kinds
<1>5. \A q \in asked' : q.serial <= c'.serial
  <2>1. \A q \in asked : q.serial \in Nat /\ q.serial <= c.serial
    BY ReconciliationAssumption DEF ReadInv, Typing, Asks
  <2>2. \A q \in asked' : q \in asked \/ q.serial = c.serial + 1
    BY <1>1
  <2> QED
    BY <1>2, <1>3, <2>1, <2>2
<1>6. \A i \in Places' : wire'[i].kind = "end" => wire'[i].serial <= c'.serial
  <2>1. \A i \in Places : wire[i].kind = "end" => wire[i].serial \in Nat
    <3>1. \A e \in Events : e.kind = "end" => e.serial \in Nat
      BY ReconciliationAssumption DEF Events, Links, Ends, Executions, Statuses, Completions, Positions
    <3> QED
      BY <3>1, WireTyped
  <2> QED
    BY <1>1, <1>2, <1>3, <2>1 DEF ReadInv, Places
<1> QED
  BY <1>1, <1>2, <1>3, <1>4, <1>5, <1>6 DEF ReadInv

\* The queue after an answer, place by place.
LEMMA AnsweredPlaces ==
  ASSUME Typing, NEW q \in asked, IbkrAnswers(q)
  PROVE  LET z == Len(wire') IN
         /\ q.of \in Kinds /\ q.serial \in 1..MaxReads /\ z \in Places'
         /\ wire'[z].kind = "end" /\ wire'[z].of = q.of /\ wire'[z].serial = q.serial
         /\ \A i \in Places : i \in Places' /\ wire'[i] = wire[i] /\ i < z
         /\ \A i \in Places' :
              \/ i \in Places /\ wire'[i] = wire[i] /\ i < z
              \/ /\ ~(i \in Places) /\ i < z /\ wire'[i].kind \notin {"connection", "end"}
                 /\ wire'[i].kind = "execution" => wire'[i].fill <= venue.filled
                 /\ wire'[i].kind = "position" => wire'[i].quantity = Bought
              \/ ~(i \in Places) /\ i = z
         /\ \A i \in Places', j \in Places' : i \in Places /\ j < i => j \in Places
         /\ q.of = "execution" => \A k \in 1..venue.filled :
              \E i \in Places' : i < z /\ wire'[i] = [kind |-> "execution", fill |-> k]
         /\ q.of = "position" =>
              \/ Bought = 0
              \/ \E i \in Places' : i < z /\ wire'[i].kind = "position" /\ wire'[i].quantity = Bought
<1> DEFINE n == Len(wire)
           a == Answer(q.of)
           m == Len(a)
<1>z. PICK z : z = n + m + 1
  OBVIOUS
<1>1. /\ q.of \in Kinds /\ q.serial \in 1..MaxReads
      /\ n \in Nat /\ m \in Nat /\ Len(wire') = z
      /\ \A i \in 1..n : wire'[i] = wire[i]
      /\ \A i \in 1..m : wire'[n + i] = a[i]
      /\ wire'[z] = [kind |-> "end", of |-> q.of, serial |-> q.serial]
  BY <1>z, AnswersFacts
<1>2. /\ \A i \in 1..m :
              /\ a[i].kind \notin {"connection", "end"}
              /\ a[i].kind = "execution" => a[i].fill <= venue.filled
              /\ a[i].kind = "position" => a[i].quantity = Bought
      /\ q.of = "execution" =>
           m = venue.filled /\ \A i \in 1..venue.filled : a[i] = [kind |-> "execution", fill |-> i]
      /\ q.of = "position" => \/ Bought = 0
                              \/ m = 1 /\ a[1].kind = "position" /\ a[1].quantity = Bought
  BY <1>1, AnswerFacts
<1> HIDE DEF a, m
<1>end. wire'[z].kind = "end" /\ wire'[z].of = q.of /\ wire'[z].serial = q.serial
  BY <1>1
<1>3. \A i \in Places' :
        \/ i \in Places /\ wire'[i] = wire[i] /\ i < z
        \/ /\ ~(i \in Places) /\ i < z /\ wire'[i].kind \notin {"connection", "end"}
           /\ wire'[i].kind = "execution" => wire'[i].fill <= venue.filled
           /\ wire'[i].kind = "position" => wire'[i].quantity = Bought
        \/ ~(i \in Places) /\ i = z
  <2> SUFFICES ASSUME NEW i \in Places', i # z, ~(i \in Places)
               PROVE  /\ i < z /\ wire'[i].kind \notin {"connection", "end"}
                      /\ wire'[i].kind = "execution" => wire'[i].fill <= venue.filled
                      /\ wire'[i].kind = "position" => wire'[i].quantity = Bought
    BY <1>1, <1>z DEF Places
  <2>1. i \in 1..(n + m + 1) /\ i > n /\ i < n + m + 1
    BY <1>1, <1>z DEF Places
  <2>2. i - n \in 1..m /\ n + (i - n) = i
    BY <1>1, <2>1
  <2>3. wire'[i] = a[i - n] /\ i < z
    BY <1>1, <1>z, <2>1, <2>2
  <2> QED
    BY <1>2, <2>2, <2>3
<1>4. /\ \A i \in Places : i \in Places' /\ wire'[i] = wire[i] /\ i < z
      /\ \A i \in Places', j \in Places' : i \in Places /\ j < i => j \in Places
      /\ z \in Places'
  BY <1>1, <1>z DEF Places
<1>5. \A i \in 1..m : n + i \in Places' /\ n + i < z
  BY <1>1, <1>z DEF Places
<1>6. ASSUME q.of = "execution", NEW k \in 1..venue.filled
      PROVE  \E i \in Places' : i < z /\ wire'[i] = [kind |-> "execution", fill |-> k]
  <2>1. k \in 1..m /\ a[k] = [kind |-> "execution", fill |-> k]
    BY <1>2, <1>6
  <2>2. wire'[n + k] = a[k] /\ n + k \in Places' /\ n + k < z
    BY <1>1, <1>5, <2>1
  <2> QED
    BY <2>1, <2>2
<1>7. ASSUME q.of = "position", Bought # 0
      PROVE  \E i \in Places' : i < z /\ wire'[i].kind = "position" /\ wire'[i].quantity = Bought
  <2>1. 1 \in 1..m /\ a[1].kind = "position" /\ a[1].quantity = Bought
    BY <1>1, <1>2, <1>7
  <2>2. wire'[n + 1] = a[1] /\ n + 1 \in Places' /\ n + 1 < z
    BY <1>1, <1>5, <2>1
  <2> QED
    BY <2>1, <2>2
<1> QED
  BY <1>1, <1>end, <1>3, <1>4, <1>6, <1>7

\* The loop's own events.
LEMMA LinkedFacts ==
  ASSUME Typing, Connect \/ Connected
  PROVE  /\ SameEvidence(c', c) /\ c'.clean = c.clean
         /\ lpc # "up" /\ lpc' # "up" /\ UNCHANGED <<led, venue, owed, asked, begun>>
         /\ Len(wire) \in Nat /\ Len(wire') = Len(wire) + 1
         /\ \A i \in Places : i \in Places' /\ wire'[i] = wire[i]
         /\ \A i \in Places' : i \in Places \/ (i = Len(wire) + 1 /\ wire'[i].kind = "connection")
<1>1. /\ SameEvidence(c', c) /\ c'.clean = c.clean
      /\ lpc # "up" /\ lpc' # "up" /\ UNCHANGED <<led, venue, owed, asked, begun>>
      /\ \E e \in {Down, Up} : wire' = Append(wire, e)
  BY DEF Connect, Connected, Down, Up, Typing, Coords, SameEvidence
<1>2. PICK e \in {Down, Up} : wire' = Append(wire, e)
  BY <1>1
<1>3. /\ Len(wire) \in Nat /\ Len(wire') = Len(wire) + 1
      /\ \A i \in 1..Len(wire) : wire'[i] = wire[i]
      /\ wire'[Len(wire) + 1].kind = "connection"
  BY <1>2, AppendFacts, DownEvent DEF Typing, Down, Up
<1>4. /\ \A i \in Places : i \in Places' /\ wire'[i] = wire[i]
      /\ \A i \in Places' : i \in Places \/ i = Len(wire) + 1
  BY <1>3 DEF Places
<1> QED
  BY <1>1, <1>3, <1>4

\* What is left of the queue once the connection is closed.
LEMMA CutFacts ==
  ASSUME Typing, Cut(wire)
  PROVE  /\ owed' = {} /\ asked' = {} /\ lpc' = "down"
         /\ \A i \in Places' : \/ i \in Places /\ wire'[i] = wire[i]
                               \/ i = Len(wire) + 1 /\ wire'[i].kind = "connection"
         /\ \A i \in Places, j \in Places' : i < j => i \in Places' /\ wire'[i] = wire[i]
<1>1. /\ Len(wire) \in Nat /\ Len(wire') \in Nat /\ Len(wire') <= Len(wire) + 1
      /\ \A i \in 1..Len(wire') : wire'[i] = IF i <= Len(wire) THEN wire[i] ELSE Down
      /\ owed' = {} /\ asked' = {} /\ lpc' = "down" /\ Down.kind = "connection"
  BY LenProperties DEF Cut, Typing, Down
<1> HIDE DEF Down
<1> QED
  BY <1>1 DEF Places

LEMMA StartupFacts ==
  LET r == [Startup EXCEPT !.serial = c.serial] IN
    /\ \A k \in Kinds : r.got[k] = 0
    /\ ~r.reading /\ r.serial = c.serial /\ r.completed = 0 /\ ~r.clean /\ r.pos = 0
BY DEF Startup

LEMMA ReadRestarts ==
  ASSUME Typing, ReadInv, Restart
  PROVE  ReadInv'
<1>1. /\ lpc' = "down" /\ wire' = <<>> /\ asked' = {}
      /\ c' = [Startup EXCEPT !.serial = c.serial]
  BY DEF Restart
<1>2. /\ \A k \in Kinds : c'.got[k] = 0
      /\ ~c'.reading /\ c'.serial = c.serial /\ c'.completed = 0 /\ ~c'.clean
  BY <1>1, StartupFacts
<1>3. Places' = {} /\ c.serial \in Nat /\ "execution" \in Kinds
  BY <1>1, WireTyped, ReconciliationAssumption DEF Places, Kinds
<1> QED
  BY <1>1, <1>2, <1>3 DEF ReadInv

LEMMA ReadStep ==
  ASSUME Typing, ReadInv, [Next]_vars
  PROVE  ReadInv'
<1>1. CASE NoEvidence /\ Stay
  BY <1>1, ReadKept DEF NoEvidence, Stay, Places
<1>2. CASE NoEvidence /\ Cut(wire)
  <2>1. \A i \in Places' : wire'[i].kind = "end" => i \in Places /\ wire'[i] = wire[i]
    BY <1>2, CutFacts
  <2>2. asked' = {} /\ NoEvidence
    BY <1>2, CutFacts
  <2> QED
    BY <2>1, <2>2, ReadKept DEF NoEvidence
<1>3. CASE Asking /\ UNCHANGED <<c, asked, begun>>
  BY <1>3, ReadKept DEF Asking, Places, SameEvidence
<1>4. CASE Connect \/ Connected
  <2>1. /\ SameEvidence(c', c) /\ c'.clean = c.clean
        /\ lpc # "up" /\ UNCHANGED <<led, asked>>
        /\ \A i \in Places : i \in Places' /\ wire'[i] = wire[i]
        /\ \A i \in Places' : wire'[i].kind = "end" => i \in Places
    BY <1>4, LinkedFacts
  <2> QED
    BY <2>1, ReadKept
<1>5. CASE UNCHANGED <<c, led, asked, wire, lpc>>
  BY <1>5, ReadKept DEF Places, SameEvidence
<1>6. CASE \E e \in owed : IbkrNotifies(e)
  <2>1. PICK e \in owed : IbkrNotifies(e)
    BY <1>6
  <2>2. /\ Len(wire) \in Nat /\ Len(wire') = Len(wire) + 1
        /\ \A i \in 1..Len(wire) : wire'[i] = wire[i]
        /\ wire'[Len(wire) + 1].kind # "end"
    BY <2>1, NotifiesFacts DEF PositionNow, Executions, Statuses
  <2>3. \A i \in Places' : wire'[i].kind = "end" => i \in Places /\ wire'[i] = wire[i]
    BY <2>2 DEF Places
  <2> QED
    BY <2>1, <2>3, ReadKept DEF IbkrNotifies, SameEvidence
<1>7. CASE \E q \in asked : IbkrAnswers(q)
  <2>1. PICK q \in asked : IbkrAnswers(q)
    BY <1>7
  <2>2. \A i \in Places' : wire'[i].kind = "end" =>
           \/ i \in Places /\ wire'[i] = wire[i]
           \/ wire'[i].serial = q.serial
    <3>1. wire'[Len(wire')].serial = q.serial
      BY <2>1, AnsweredPlaces
    <3>2. \A i \in Places' : \/ i \in Places /\ wire'[i] = wire[i]
                             \/ wire'[i].kind # "end"
                             \/ i = Len(wire')
      BY <2>1, AnsweredPlaces
    <3> QED
      BY <3>1, <3>2
  <2> QED
    BY <2>1, <2>2, ReadKept DEF IbkrAnswers, SameEvidence
<1>8. CASE UNCHANGED vars
  BY <1>5, <1>8 DEF vars
<1>9. CASE IbkrFills \/ IbkrEnds \/ ManualTrade
  BY <1>5, <1>9 DEF IbkrFills, IbkrEnds, ManualTrade
<1> QED
  BY <1>1, <1>2, <1>3, <1>4, <1>6, <1>7, <1>8, <1>9, StepSorts, ReadHandled, ReadBegins,
     ReadRestarts DEF Sorts

LEMMA ReadInit == Init => ReadInv
<1> SUFFICES ASSUME Init PROVE ReadInv
  OBVIOUS
<1>1. /\ \A k \in Kinds : c.got[k] = 0
      /\ ~c.reading /\ c.serial = 0 /\ c.completed = 0 /\ ~c.clean
  BY DEF Init, Startup
<1>2. Places = {} /\ asked = {} /\ lpc = "down" /\ "execution" \in Kinds
  BY DEF Init, Places, Kinds
<1> QED
  BY <1>1, <1>2 DEF ReadInv

-----------------------------------------------------------------------------
(* The steps other than the handling of an event                            *)

\* The ledger, the events on their way and the position reported do not run
\* ahead of IBKR, and the positions on their way never go back.
Venue ==
    /\ begun.filled <= venue.filled /\ begun.manual <= venue.manual
    /\ led.executed \subseteq 1..venue.filled
    /\ \A e \in owed : e.kind = "execution" => e.fill <= venue.filled
    /\ \A i \in Places : wire[i].kind = "execution" => wire[i].fill <= venue.filled
    /\ c.pos <= Bought
    /\ \A i \in Places : wire[i].kind = "position" =>
          /\ c.pos <= wire[i].quantity /\ wire[i].quantity <= Bought
          /\ \A j \in Places : j < i /\ wire[j].kind = "position" =>
                wire[j].quantity <= wire[i].quantity

\* What stays queued keeps its place; a new event tells the account as it is.
QueueKept ==
    \A i \in Places' :
       \/ /\ i \in Places /\ wire'[i] = wire[i]
          /\ \A j \in Places \cup Places' : j < i => j \in Places /\ j \in Places'
       \/ /\ i \notin Places
          /\ wire'[i].kind = "connection" => asked' = {}
          /\ wire'[i].kind = "execution" => wire'[i].fill <= venue'.filled
          /\ wire'[i].kind = "position" => wire'[i].quantity = Bought'
          /\ wire'[i].kind = "end" => i = Len(wire') /\ \E q \in asked : IbkrAnswers(q)

\* What IBKR did only grows.
AccountGrows ==
    /\ venue.filled <= venue'.filled /\ venue.manual <= venue'.manual
    /\ venue'.filled \in Nat /\ venue'.manual \in Nat
    /\ \A e \in owed' : e.kind = "execution" => e \in owed \/ e.fill <= venue'.filled

LEMMA Counts ==
  ASSUME Typing
  PROVE  /\ venue.filled \in Nat /\ venue.manual \in Nat /\ Bought \in Nat
         /\ begun.filled \in Nat /\ begun.manual \in Nat
         /\ c.pos \in Nat
         /\ \A i \in Places : wire[i].kind = "position" => wire[i].quantity \in Nat
         /\ \A i \in Places : wire[i].kind = "execution" => wire[i].fill \in 1..Quantity
         /\ \A e \in owed : e.kind = "execution" => e.fill \in 1..Quantity
<1>1. \A i \in Places : wire[i] \in Events
  BY WireTyped
<1>2. \A e \in Events : /\ e.kind = "position" => e.quantity \in Nat
                        /\ e.kind = "execution" => e.fill \in 1..Quantity
  BY DEF Events, Links, Ends, Executions, Statuses, Completions, Positions
<1>3. venue.filled \in Nat /\ venue.manual \in Nat /\ begun.filled \in Nat /\ begun.manual \in Nat
  BY ReconciliationAssumption DEF Typing, Frames, Views
<1>4. \A e \in owed : e.kind = "execution" => e.fill \in 1..Quantity
  BY DEF Typing, Owable, Executions, Statuses
<1> QED
  BY <1>1, <1>2, <1>3, <1>4, SMTT(60) DEF Typing, Coords, Bought

LEMMA AccountSteps ==
  ASSUME Typing, IbkrFills \/ IbkrEnds \/ ManualTrade
  PROVE  UNCHANGED <<c, led, asked, wire, lpc, begun>> /\ AccountGrows
<1>1. venue \in Frames /\ venue.filled \in Nat /\ venue.manual \in Nat
  BY Counts DEF Typing
<1>2. CASE IbkrFills
  <2> DEFINE n == venue.filled + 1
             w == n < Quantity
  <2>1. /\ venue' = [venue EXCEPT !.filled = n, !.working = w]
        /\ owed' \subseteq owed \cup {[kind |-> "execution", fill |-> n], [kind |-> "position"],
                                     StatusNow(n, n = Quantity)}
    BY <1>2 DEF IbkrFills, Owing
  <2>2. w \in BOOLEAN /\ n \in Nat /\ venue.filled <= n /\ n <= n
    BY <1>1
  <2>3. venue'.filled = n /\ venue'.manual = venue.manual
    <3> HIDE DEF w, n
    <3> QED
      BY <1>1, <2>1, <2>2 DEF Frames
  <2>4. PICK b \in BOOLEAN : b = (n = Quantity)
    OBVIOUS
  <2>5. StatusNow(n, n = Quantity) = [kind |-> "order_status", filled |-> n, ends |-> b]
    BY <2>4 DEF StatusNow
  <2> HIDE DEF n, w
  <2>6. \A e \in owed' : e.kind = "execution" => e \in owed \/ e.fill <= venue'.filled
    BY <2>1, <2>2, <2>3, <2>5
  <2> QED
    BY <1>1, <1>2, <2>2, <2>3, <2>6 DEF IbkrFills, AccountGrows
<1>3. CASE IbkrEnds
  <2>1. venue' = [venue EXCEPT !.working = FALSE]
    BY <1>3 DEF IbkrEnds
  <2>2. venue'.filled = venue.filled /\ venue'.manual = venue.manual
    BY <1>1, <2>1 DEF Frames
  <2>3. \A e \in owed' : e.kind = "execution" => e \in owed
    BY <1>3 DEF IbkrEnds, Owing, StatusNow
  <2> QED
    BY <1>1, <1>3, <2>2, <2>3 DEF IbkrEnds, AccountGrows
<1>4. CASE ManualTrade
  <2>1. venue' = [venue EXCEPT !.manual = venue.manual + 1]
    BY <1>4 DEF ManualTrade
  <2>2. venue'.filled = venue.filled /\ venue'.manual = venue.manual + 1
    BY <1>1, <2>1 DEF Frames
  <2>3. \A e \in owed' : e.kind = "execution" => e \in owed
    BY <1>4 DEF ManualTrade, Owing
  <2> QED
    BY <1>1, <1>4, <2>2, <2>3 DEF ManualTrade, AccountGrows
<1> QED
  BY <1>2, <1>3, <1>4

\* Everything but the handling of an event leaves the ledger's fills.
Moves ==
    /\ led'.executed = led.executed /\ QueueKept /\ AccountGrows
    /\ c'.pos = c.pos \/ c'.pos = 0
    /\ \/ begun' = begun
       \/ Begins /\ c'.serial = c.serial + 1 /\ \A k \in Kinds : c'.got[k] = 0
    /\ Begins \/ Restart \/ SameEvidence(c', c)
    /\ Begins \/ asked' \subseteq asked

LEMMA OtherSteps ==
  ASSUME Typing, ReadInv, Venue, Sorts \/ UNCHANGED vars, ~HandleEvent
  PROVE  Moves
<1>2. ASSUME UNCHANGED wire
      PROVE  QueueKept
  BY <1>2 DEF QueueKept, Places
<1>3. ASSUME UNCHANGED venue, owed' \subseteq owed
      PROVE  AccountGrows
  BY <1>3, Counts DEF AccountGrows
<1>4. CASE NoEvidence /\ Stay
  BY <1>2, <1>3, <1>4 DEF Moves, NoEvidence, Stay, SameEvidence
<1>5. CASE NoEvidence /\ Cut(wire)
  <2>1. /\ owed' = {} /\ asked' = {}
        /\ \A i \in Places' : \/ i \in Places /\ wire'[i] = wire[i]
                              \/ i = Len(wire) + 1 /\ wire'[i].kind = "connection"
        /\ \A i \in Places, j \in Places' : i < j => i \in Places' /\ wire'[i] = wire[i]
    BY <1>5, CutFacts
  <2>2. Len(wire) \in Nat /\ Len(wire) + 1 \notin Places
    BY WireTyped DEF Places
  <2>3. \A i \in Places, j \in Places' : j < i => j \in Places
    BY <2>2 DEF Places
  <2>4. QueueKept
    BY <2>1, <2>2, <2>3 DEF QueueKept
  <2> QED
    BY <1>3, <1>5, <2>1, <2>4 DEF Moves, NoEvidence, SameEvidence
<1>6. CASE Begins
  <2>1. /\ c' = Begun(c) /\ c.serial < MaxReads /\ c \in Coords
        /\ UNCHANGED <<led, venue, owed, wire>>
    BY <1>6 DEF Begins, Asking, Typing
  <2>2. (\A k \in Kinds : c'.got[k] = 0) /\ c'.serial = c.serial + 1 /\ c'.pos = 0
    BY <2>1, BegunFacts
  <2> QED
    BY <1>2, <1>3, <1>6, <2>1, <2>2 DEF Moves
<1>7. CASE Asking /\ UNCHANGED <<c, asked, begun>> /\ c.reading
  BY <1>2, <1>3, <1>7 DEF Moves, Asking, SameEvidence
<1>8. CASE Connect \/ Connected
  <2>1. /\ SameEvidence(c', c)
        /\ lpc # "up" /\ UNCHANGED <<led, venue, owed, asked, begun>>
        /\ Len(wire) \in Nat
        /\ \A i \in Places : i \in Places' /\ wire'[i] = wire[i]
        /\ \A i \in Places' : i \in Places \/ (i = Len(wire) + 1 /\ wire'[i].kind = "connection")
    BY <1>8, LinkedFacts
  <2>2. asked' = {} /\ Len(wire) + 1 \notin Places
    BY <2>1 DEF ReadInv, Places
  <2>3. \A i \in Places, j \in Places' : j < i => j \in Places
    BY <2>1 DEF Places
  <2>4. QueueKept
    BY <2>1, <2>2, <2>3 DEF QueueKept
  <2> QED
    BY <1>3, <2>1, <2>4 DEF Moves, SameEvidence
<1>9. CASE Restart
  <2>1. Places' = {} /\ c'.pos = 0 /\ asked' = {} /\ UNCHANGED <<led, venue, begun>> /\ owed' = {}
    BY <1>9, StartupFacts DEF Restart, Places
  <2> QED
    BY <1>3, <1>9, <2>1 DEF Moves, QueueKept
<1>10. CASE IbkrFills \/ IbkrEnds \/ ManualTrade
  BY <1>2, <1>10, AccountSteps DEF Moves, SameEvidence
<1>11. CASE \E e \in owed : IbkrNotifies(e)
  <2>1. PICK e \in owed : IbkrNotifies(e)
    BY <1>11
  <2> DEFINE n == Len(wire) + 1
  <2>2. /\ Len(wire) \in Nat /\ Len(wire') = n
        /\ \A i \in 1..Len(wire) : wire'[i] = wire[i]
        /\ \/ wire'[n] = PositionNow
           \/ wire'[n] = e /\ e \in Executions \cup Statuses
    BY <2>1, NotifiesFacts
  <2>3. UNCHANGED <<c, led, venue, asked, begun>> /\ owed' \subseteq owed
    BY <2>1 DEF IbkrNotifies
  <2>4. /\ wire'[n].kind \notin {"connection", "end"}
        /\ wire'[n].kind = "position" => wire'[n].quantity = Bought
        /\ wire'[n].kind = "execution" => wire'[n].fill <= venue.filled
    BY <2>2 DEF PositionNow, Executions, Statuses, Venue
  <2>5. /\ n \notin Places /\ \A i \in Places' : i \in Places \/ i = n
        /\ \A i \in Places : i \in Places' /\ wire'[i] = wire[i] /\ ~(n < i)
    BY <2>2 DEF Places
  <2>6. Bought' = Bought
    BY <2>3 DEF Bought
  <2> HIDE DEF n
  <2>7. QueueKept
    BY <2>3, <2>4, <2>5, <2>6 DEF QueueKept
  <2> QED
    BY <1>3, <2>3, <2>7 DEF Moves, SameEvidence
<1>12. CASE \E q \in asked : IbkrAnswers(q)
  <2>1. PICK q \in asked : IbkrAnswers(q)
    BY <1>12
  <2>2. UNCHANGED <<c, led, venue, owed, begun>> /\ asked' \subseteq asked
    BY <2>1 DEF IbkrAnswers
  <2>3. PICK z : z = Len(wire')
    OBVIOUS
  <2>4. /\ wire'[z].kind = "end"
        /\ \A i \in Places : i \in Places' /\ wire'[i] = wire[i] /\ i < z
        /\ \A i \in Places' :
              \/ i \in Places /\ wire'[i] = wire[i] /\ i < z
              \/ /\ ~(i \in Places) /\ i < z /\ wire'[i].kind \notin {"connection", "end"}
                 /\ wire'[i].kind = "execution" => wire'[i].fill <= venue.filled
                 /\ wire'[i].kind = "position" => wire'[i].quantity = Bought
              \/ ~(i \in Places) /\ i = z
    BY <2>1, <2>3, AnsweredPlaces
  <2>5. \A i \in Places', j \in Places' : i \in Places /\ j < i => j \in Places
    BY <2>1, AnsweredPlaces
  <2>6. Bought' = Bought
    BY <2>2 DEF Bought
  <2>7. QueueKept
    <3> SUFFICES ASSUME NEW i \in Places'
                 PROVE  \/ /\ i \in Places /\ wire'[i] = wire[i]
                           /\ \A j \in Places \cup Places' : j < i => j \in Places /\ j \in Places'
                        \/ /\ i \notin Places
                           /\ wire'[i].kind = "connection" => asked' = {}
                           /\ wire'[i].kind = "execution" => wire'[i].fill <= venue'.filled
                           /\ wire'[i].kind = "position" => wire'[i].quantity = Bought'
                           /\ wire'[i].kind = "end" => i = Len(wire') /\ \E r \in asked : IbkrAnswers(r)
      BY DEF QueueKept
    <3>1. CASE i \in Places
      BY <2>4, <2>5, <3>1
    <3>2. CASE i \notin Places /\ i # z
      BY <2>2, <2>4, <2>6, <3>2
    <3>3. CASE i \notin Places /\ i = z
      BY <1>12, <2>3, <2>4, <3>3
    <3> QED
      BY <3>1, <3>2, <3>3
  <2> QED
    BY <1>3, <2>2, <2>7 DEF Moves, SameEvidence
<1>13. CASE UNCHANGED vars
  BY <1>2, <1>3, <1>13 DEF vars, Moves, SameEvidence
<1> QED
  BY <1>4, <1>5, <1>6, <1>7, <1>8, <1>9, <1>10, <1>11, <1>12, <1>13 DEF Sorts

\* What happened at IBKR goes on bounding what the coordinator knows of it.
LEMMA VenueMoves ==
  ASSUME Typing, Typing', Venue, Moves
  PROVE  Venue'
<1>1. /\ venue.filled <= venue'.filled /\ venue.manual <= venue'.manual
      /\ venue'.filled \in Nat /\ venue'.manual \in Nat
      /\ \A e \in owed' : e.kind = "execution" => e \in owed \/ e.fill <= venue'.filled
      /\ led'.executed = led.executed /\ (c'.pos = c.pos \/ c'.pos = 0) /\ QueueKept
  BY DEF Moves, AccountGrows
<1>2. begun' = begun \/ (begun'.filled = venue.filled /\ begun'.manual = venue.manual)
  BY DEF Moves, Begins, Viewed
<1>3. /\ Bought \in Nat /\ Bought' \in Nat /\ Bought <= Bought' /\ c.pos \in Nat
      /\ c'.pos \in Nat /\ c'.pos <= c.pos /\ c.pos <= Bought /\ c'.pos <= Bought'
  BY <1>1, Counts DEF Bought, Venue
<1>4. begun'.filled <= venue'.filled /\ begun'.manual <= venue'.manual
  BY <1>1, <1>2, Counts DEF Venue
<1>5. led'.executed \subseteq 1..venue'.filled
  BY <1>1, Counts DEF Venue
<1>6. \A n \in 1..Quantity : n <= venue.filled => n <= venue'.filled
  BY <1>1, Counts, ReconciliationAssumption
<1>7. \A e \in owed' : e.kind = "execution" => e.fill <= venue'.filled
  BY <1>1, <1>6, Counts DEF Venue
<1>8. \A i \in Places' : wire'[i].kind = "execution" => wire'[i].fill <= venue'.filled
  BY <1>1, <1>6, Counts DEF Venue, QueueKept
<1>9. ASSUME NEW i \in Places', wire'[i].kind = "position"
      PROVE  wire'[i].quantity \in Nat /\ c'.pos <= wire'[i].quantity /\ wire'[i].quantity <= Bought'
  <2>1. CASE i \in Places /\ wire'[i] = wire[i]
    <3>1. wire[i].quantity \in Nat /\ c.pos <= wire[i].quantity /\ wire[i].quantity <= Bought
      BY <1>9, <2>1, Counts DEF Venue
    <3> QED
      BY <1>3, <2>1, <3>1
  <2>2. CASE wire'[i].quantity = Bought'
    BY <1>3, <2>2
  <2> QED
    BY <1>1, <1>9, <2>1, <2>2 DEF QueueKept
<1>10. ASSUME NEW i \in Places', wire'[i].kind = "position",
              NEW j \in Places', j < i, wire'[j].kind = "position"
       PROVE  wire'[j].quantity <= wire'[i].quantity
  <2>1. CASE /\ i \in Places /\ wire'[i] = wire[i]
             /\ \A k \in Places \cup Places' : k < i => k \in Places /\ k \in Places'
    <3>1. j \in Places /\ wire'[j] = wire[j]
      BY <1>1, <1>10, <2>1 DEF QueueKept
    <3> QED
      BY <1>10, <2>1, <3>1 DEF Venue
  <2>2. CASE wire'[i].quantity = Bought'
    BY <1>9, <1>10, <2>2
  <2> QED
    BY <1>1, <1>10, <2>1, <2>2 DEF QueueKept
<1> QED
  BY <1>3, <1>4, <1>5, <1>7, <1>8, <1>9, <1>10 DEF Venue

LEMMA VenueHandled ==
  ASSUME Typing, ReadInv, Venue, HandleEvent
  PROVE  Venue' /\ c.pos <= c'.pos
<1>1. /\ Len(wire) \in Nat /\ Len(wire') = Len(wire) - 1
      /\ \A i \in Places' : wire'[i] = wire[i + 1] /\ i + 1 \in Places /\ i \in Nat
      /\ 1 \in Places /\ UNCHANGED <<venue, owed, begun>>
  BY HandledFacts
<1>2. /\ wire[1].kind = "position" => c'.pos = wire[1].quantity
      /\ wire[1].kind # "position" => c'.pos = c.pos
      /\ wire[1].kind = "execution" => led'.executed = led.executed \cup {wire[1].fill}
      /\ wire[1].kind # "execution" => led'.executed = led.executed
  BY SeenFacts DEF ReadInv
<1>3. c.pos \in Nat /\ c'.pos \in Nat /\ Bought \in Nat /\ c.pos <= c'.pos /\ c'.pos <= Bought
  BY <1>1, <1>2, Counts DEF Venue
<1>4. led'.executed \subseteq 1..venue.filled
  <2>1. wire[1].kind = "execution" => wire[1].fill \in 1..venue.filled
    BY <1>1, Counts DEF Venue
  <2> QED
    BY <1>2, <2>1 DEF Venue
<1>5. \A i \in Places' : wire'[i].kind = "execution" => wire'[i].fill <= venue.filled
  BY <1>1 DEF Venue
<1>6. ASSUME NEW i \in Places', wire'[i].kind = "position"
      PROVE  /\ c'.pos <= wire'[i].quantity /\ wire'[i].quantity <= Bought
             /\ \A j \in Places' : j < i /\ wire'[j].kind = "position" =>
                   wire'[j].quantity <= wire'[i].quantity
  <2>1. wire'[i] = wire[i + 1] /\ i + 1 \in Places /\ 1 < i + 1 /\ i \in Nat
    BY <1>1 DEF Places
  <2>2. /\ c.pos <= wire[i + 1].quantity /\ wire[i + 1].quantity <= Bought
        /\ \A j \in Places : j < i + 1 /\ wire[j].kind = "position" =>
              wire[j].quantity <= wire[i + 1].quantity
    BY <1>6, <2>1 DEF Venue
  <2>3. c'.pos <= wire[i + 1].quantity
    BY <1>1, <1>2, <2>1, <2>2
  <2>4. \A j \in Places' : j < i => j + 1 \in Places /\ j + 1 < i + 1 /\ wire'[j] = wire[j + 1]
    BY <1>1, <2>1 DEF Places
  <2> QED
    BY <2>1, <2>2, <2>3, <2>4
<1>7. Bought' = Bought
  BY <1>1 DEF Bought
<1>8. /\ begun.filled <= venue.filled /\ begun.manual <= venue.manual
      /\ \A e \in owed : e.kind = "execution" => e.fill <= venue.filled
  BY DEF Venue
<1> QED
  BY <1>1, <1>3, <1>4, <1>5, <1>6, <1>7, <1>8 DEF Venue

-----------------------------------------------------------------------------
(* Fills: the end of executions that is counted has let pass, ahead of it,  *)
(* every fill IBKR had done when its read was begun.                        *)

FillEvent(n) == [kind |-> "execution", fill |-> n]
FillsAhead(j) ==
    \A n \in 1..begun.filled :
       n \in led.executed \/ \E i \in Places : i < j /\ wire[i] = FillEvent(n)

FillsInv ==
    /\ c.got["execution"] # 0 => 1..begun.filled \subseteq led.executed
    /\ \A j \in Places :
          wire[j].kind = "end" /\ wire[j].of = "execution" /\ wire[j].serial = c.serial
          => FillsAhead(j)

LEMMA FillsHandled ==
  ASSUME Typing, ReadInv, FillsInv, HandleEvent
  PROVE  FillsInv'
<1>1. /\ Len(wire) \in Nat /\ Len(wire') = Len(wire) - 1
      /\ \A i \in Places' : wire'[i] = wire[i + 1] /\ i + 1 \in Places /\ i \in Nat
      /\ \A i \in Places : i = 1 \/ (i - 1 \in Places' /\ wire'[i - 1] = wire[i])
      /\ 1 \in Places /\ (\A i \in Places : ~(i < 1)) /\ UNCHANGED begun
  BY HandledFacts
<1>2. /\ c'.serial = c.serial
      /\ wire[1].kind = "execution" => led'.executed = led.executed \cup {wire[1].fill}
      /\ wire[1].kind # "execution" => led'.executed = led.executed
  BY SeenFacts DEF ReadInv
<1>3. led.executed \subseteq led'.executed
  BY <1>2
<1>4. ASSUME NEW j \in Places', wire'[j].kind = "end", wire'[j].of = "execution",
             wire'[j].serial = c'.serial, NEW n \in 1..begun.filled
      PROVE  n \in led'.executed \/ \E i \in Places' : i < j /\ wire'[i] = FillEvent(n)
  <2>1. wire'[j] = wire[j + 1] /\ j + 1 \in Places
    BY <1>1
  <2>2. n \in led.executed \/ \E i \in Places : i < j + 1 /\ wire[i] = FillEvent(n)
    BY <1>2, <1>4, <2>1 DEF FillsInv, FillsAhead
  <2>3. \A i \in Places : i < j + 1 => i = 1 \/ (i - 1 \in Places' /\ i - 1 < j /\ wire'[i - 1] = wire[i])
    BY <1>1 DEF Places
  <2>4. wire[1] = FillEvent(n) => n \in led'.executed
    BY <1>2 DEF FillEvent
  <2> QED
    BY <1>3, <2>2, <2>3, <2>4
<1>5. c'.got["execution"] # 0 => 1..begun.filled \subseteq led'.executed
  <2>1. CASE wire[1].kind = "end" /\ wire[1].of = "execution" /\ wire[1].serial = c.serial
    BY <1>1, <1>3, <2>1 DEF FillsInv, FillsAhead
  <2>2. CASE ~(wire[1].kind = "end" /\ wire[1].of = "execution" /\ wire[1].serial = c.serial)
    <3>1. c'.got["execution"] = 0 \/ c'.got["execution"] = c.got["execution"]
      <4>1. CASE wire[1] = Down
        BY <4>1, SeenFacts DEF ReadInv, Kinds
      <4>2. CASE wire[1].kind # "end" /\ wire[1] # Down
        BY <4>2, SeenFacts DEF ReadInv
      <4>3. CASE wire[1].kind = "end"
        <5>1. c'.got = IF wire[1].of = "execution" /\ wire[1].serial # c.serial THEN c.got
                       ELSE [c.got EXCEPT ![wire[1].of] = wire[1].serial]
          BY <4>3, SeenFacts DEF ReadInv
        <5> QED
          BY <2>2, <4>3, <5>1, WireTyped DEF Kinds
      <4> QED
        BY <4>1, <4>2, <4>3
    <3> QED
      BY <1>3, <3>1 DEF FillsInv
  <2> QED
    BY <2>1, <2>2
<1> QED
  BY <1>1, <1>4, <1>5 DEF FillsInv, FillsAhead

LEMMA EndsTyped ==
  ASSUME Typing
  PROVE  \A i \in Places : wire[i].kind = "end" => wire[i].serial \in Nat /\ wire[i].of \in Kinds
<1>1. \A e \in Events : e.kind = "end" => e.serial \in Nat /\ e.of \in Kinds
  BY ReconciliationAssumption DEF Events, Links, Ends, Executions, Statuses, Completions, Positions
<1> QED
  BY <1>1, WireTyped

LEMMA FillsMoves ==
  ASSUME Typing, ReadInv, Venue, FillsInv, Moves
  PROVE  FillsInv'
<1>1. QueueKept /\ led'.executed = led.executed
  BY DEF Moves
<1>2. CASE Begins
  <2>1. c'.serial = c.serial + 1 /\ c'.got["execution"] = 0 /\ Places' = Places /\ wire' = wire
    BY <1>2, BegunFacts DEF Begins, Asking, Typing, Kinds, Places
  <2>2. \A i \in Places : wire[i].kind = "end" => wire[i].serial # c.serial + 1
    BY EndsTyped, WireTyped, ReconciliationAssumption DEF ReadInv
  <2> QED
    BY <2>1, <2>2 DEF FillsInv
<1>3. CASE Restart
  <2>1. Places' = {} /\ c'.got["execution"] = 0
    BY <1>3, StartupFacts DEF Restart, Places, Kinds
  <2> QED
    BY <2>1 DEF FillsInv
<1>4. CASE SameEvidence(c', c) /\ begun' = begun
  <2>1. c'.got = c.got /\ c'.serial = c.serial
    BY <1>4 DEF SameEvidence
  <2>2. ASSUME NEW j \in Places', wire'[j].kind = "end", wire'[j].of = "execution",
               wire'[j].serial = c.serial, NEW n \in 1..begun.filled
        PROVE  n \in led.executed \/ \E i \in Places' : i < j /\ wire'[i] = FillEvent(n)
    <3>1. CASE /\ j \in Places /\ wire'[j] = wire[j]
               /\ \A i \in Places \cup Places' : i < j => i \in Places /\ i \in Places'
      <4>1. n \in led.executed \/ \E i \in Places : i < j /\ wire[i] = FillEvent(n)
        BY <2>2, <3>1 DEF FillsInv, FillsAhead
      <4>2. \A i \in Places : i < j => i \in Places' /\ wire'[i] = wire[i]
        BY <1>1, <3>1 DEF QueueKept
      <4> QED
        BY <4>1, <4>2
    <3>2. CASE j = Len(wire') /\ \E q \in asked : IbkrAnswers(q)
      <4>1. PICK q \in asked : IbkrAnswers(q)
        BY <3>2
      <4>2. PICK z : z = Len(wire')
        OBVIOUS
      <4>3. wire'[z].of = q.of
        BY <4>1, <4>2, AnsweredPlaces
      <4>4. q.of = "execution"
        BY <2>2, <3>2, <4>2, <4>3
      <4>5. \A k \in 1..venue.filled :
              \E i \in Places' : i < z /\ wire'[i] = [kind |-> "execution", fill |-> k]
        BY <4>1, <4>2, <4>4, AnsweredPlaces
      <4>6. n \in 1..venue.filled
        BY Counts DEF Venue
      <4> QED
        BY <3>2, <4>2, <4>5, <4>6 DEF FillEvent
    <3> QED
      BY <1>1, <2>2, <3>1, <3>2 DEF QueueKept
  <2> QED
    BY <1>1, <1>4, <2>1, <2>2 DEF FillsInv, FillsAhead
<1> QED
  BY <1>2, <1>3, <1>4 DEF Moves

LEMMA FillsInit == Init => Venue /\ FillsInv
<1> SUFFICES ASSUME Init PROVE Venue /\ FillsInv
  OBVIOUS
<1>1. c.pos = 0 /\ \A k \in Kinds : c.got[k] = 0
  BY DEF Init, Startup
<1>2. Places = {} /\ owed = {} /\ led.executed = {} /\ venue.filled = 0 /\ venue.manual = 0
      /\ begun.filled = 0 /\ begun.manual = 0
  BY DEF Init, Places, Viewed
<1>3. Bought = 0
  BY <1>2 DEF Bought
<1> QED
  BY <1>1, <1>2, <1>3 DEF Venue, FillsInv, Kinds

\* What holds of every read, whatever is queued.
AnyRead == Typing /\ ReadInv /\ Venue /\ FillsInv

LEMMA AnyReadStep == AnyRead /\ [Next]_vars => AnyRead'
<1> SUFFICES ASSUME AnyRead, [Next]_vars PROVE AnyRead'
  OBVIOUS
<1> USE DEF AnyRead
<1>1. Typing' /\ ReadInv'
  BY TypingStep, ReadStep
<1>2. CASE HandleEvent
  BY <1>1, <1>2, VenueHandled, FillsHandled
<1>3. CASE ~HandleEvent
  <2>1. Moves
    BY <1>3, StepSorts, OtherSteps
  <2> QED
    BY <1>1, <2>1, VenueMoves, FillsMoves
<1> QED
  BY <1>2, <1>3

LEMMA AnyReadInit == Init => AnyRead
BY TypingInit, ReadInit, FillsInit DEF AnyRead

-----------------------------------------------------------------------------
(* A read begun alone: of earlier requests and connections nothing is       *)
(* queued, so requests and answers on their way are its own, one per kind.  *)

Total == begun.filled + begun.manual
PositionAhead(j) ==
    \/ Total <= c.pos
    \/ \E i \in Places : i < j /\ wire[i].kind = "position" /\ Total <= wire[i].quantity

Fresh == ~c.reading /\ \A k \in Kinds : c.got[k] = 0

\* The i-th event ends an answer to this read that is not counted yet.
Pending(i) ==
    /\ c.reading /\ wire[i].serial = c.serial /\ c.got[wire[i].of] = 0
    /\ \A q \in asked : q.of # wire[i].of
    /\ \A j \in Places : j < i =>
          /\ wire[j].kind # "connection"
          /\ wire[j].kind = "end" => wire[j].of # wire[i].of
    /\ wire[i].of = "position" => PositionAhead(i)

Once ==
    /\ asked # {} => \A i \in Places : wire[i].kind # "connection"
    /\ \A q \in asked : c.reading /\ q.serial = c.serial /\ c.got[q.of] = 0
    /\ \A i \in Places : wire[i].kind = "end" => Pending(i)

LoneRead ==
    /\ \A k \in Kinds : c.got[k] \in {0, c.serial}
    /\ ~c.reading => Fresh \/ (Whole(c) /\ c.completed = c.serial)
    /\ c.got["position"] # 0 => Total <= c.pos

LoneInv == begun.alone => Once /\ LoneRead

LEMMA PositionHandled ==
  ASSUME Typing, ReadInv, Venue, HandleEvent,
         NEW j \in Places', PositionAhead(j + 1)
  PROVE  PositionAhead(j)'
<1>1. /\ \A i \in Places' : wire'[i] = wire[i + 1] /\ i + 1 \in Places /\ i \in Nat
      /\ \A i \in Places : i = 1 \/ (i - 1 \in Places' /\ wire'[i - 1] = wire[i])
      /\ Len(wire) \in Nat /\ UNCHANGED begun
  BY HandledFacts
<1>2. c.pos <= c'.pos /\ (wire[1].kind = "position" => c'.pos = wire[1].quantity)
  BY VenueHandled, SeenFacts DEF ReadInv
<1>t. c'.pos \in Nat
  <2>1. Typing'
    BY TypingStep DEF Next
  <2> QED
    BY <2>1 DEF Typing, Coords
<1>3. Total' = Total /\ Total \in Nat /\ c.pos \in Nat /\ c'.pos \in Nat
  BY <1>1, <1>t, Counts DEF Total
<1>4. \A i \in Places : i < j + 1 => i = 1 \/ (i - 1 \in Places' /\ i - 1 < j /\ wire'[i - 1] = wire[i])
  BY <1>1 DEF Places
<1>5. CASE Total <= c.pos
  BY <1>2, <1>3, <1>5 DEF PositionAhead
<1>6. CASE \E i \in Places : i < j + 1 /\ wire[i].kind = "position" /\ Total <= wire[i].quantity
  BY <1>2, <1>3, <1>4, <1>6 DEF PositionAhead
<1> QED
  BY <1>5, <1>6 DEF PositionAhead

LEMMA LoneHandled ==
  ASSUME AnyRead, LoneInv, begun.alone, HandleEvent
  PROVE  Once' /\ LoneRead'
<1> USE DEF AnyRead
<1>1. /\ Len(wire) \in Nat
      /\ \A i \in Places' : wire'[i] = wire[i + 1] /\ i + 1 \in Places /\ i \in Nat
      /\ 1 \in Places /\ (\A i \in Places : ~(i < 1))
      /\ UNCHANGED <<asked, begun>>
  BY HandledFacts
<1>2. Once /\ LoneRead
  BY DEF LoneInv
<1>3. c'.serial = c.serial /\ c.pos <= c'.pos /\ Total' = Total
  BY <1>1, SeenFacts, VenueHandled DEF ReadInv, Total
<1>4. c.pos \in Nat /\ c'.pos \in Nat /\ Total \in Nat /\ c.got \in [Kinds -> 0..MaxReads]
  <2>1. Typing'
    BY TypingStep DEF Next
  <2>2. c'.pos \in Nat
    BY <2>1 DEF Typing, Coords
  <2> QED
    BY <2>2, Counts, WireTyped DEF Total
<1>5. \A i \in Places' : i + 1 \in Places /\ 1 < i + 1
        /\ \A j \in Places' : j < i => wire'[j] = wire[j + 1] /\ j + 1 \in Places /\ j + 1 < i + 1
  BY <1>1 DEF Places
<1>6. asked # {} => \A i \in Places' : wire'[i].kind # "connection"
  BY <1>1, <1>2 DEF Once
\* An end still queued stays pending while the read goes on.
<1>7. ASSUME NEW i \in Places', wire'[i].kind = "end",
             c'.reading /\ c'.got[wire[i + 1].of] = 0
      PROVE  Pending(i)'
  <2>1. wire'[i] = wire[i + 1] /\ i + 1 \in Places /\ wire[i + 1].kind = "end"
    BY <1>1, <1>7
  <2>2. Pending(i + 1)
    BY <1>2, <2>1 DEF Once
  <2>3. wire'[i].of = "position" => PositionAhead(i)'
    BY <2>1, <2>2, PositionHandled DEF Pending
  <2>4. \A j \in Places' : j < i =>
           /\ wire'[j].kind # "connection"
           /\ wire'[j].kind = "end" => wire'[j].of # wire'[i].of
    BY <1>5, <2>1, <2>2 DEF Pending
  <2>5. wire'[i].serial = c'.serial /\ \A q \in asked : q.of # wire'[i].of
    BY <1>3, <2>1, <2>2 DEF Pending
  <2> QED
    BY <1>1, <1>7, <2>1, <2>3, <2>4, <2>5 DEF Pending
<1>8. CASE wire[1].kind # "end" /\ wire[1] # Down
  <2>1. c'.got = c.got /\ c'.reading = c.reading /\ c'.completed = c.completed
    BY <1>8, SeenFacts DEF ReadInv
  <2>2. Whole(c') = Whole(c) /\ Fresh' = Fresh
    BY <2>1 DEF Whole, Fresh
  <2>3. \A i \in Places' : wire'[i].kind = "end" => Pending(i)'
    <3>1. ASSUME NEW i \in Places', wire'[i].kind = "end" PROVE Pending(i + 1)
      BY <1>1, <1>2, <3>1 DEF Once
    <3> QED
      BY <1>7, <2>1, <3>1 DEF Pending
  <2>4. Once'
    BY <1>1, <1>2, <1>3, <1>6, <2>1, <2>3 DEF Once
  <2>5. LoneRead'
    BY <1>2, <1>3, <1>4, <2>1, <2>2 DEF LoneRead
  <2> QED
    BY <2>4, <2>5
<1>9. CASE wire[1] = Down
  <2>1. (\A k \in Kinds : c'.got[k] = 0) /\ ~c'.reading
    BY <1>9, SeenFacts DEF ReadInv
  <2>2. wire[1].kind = "connection"
    BY <1>9 DEF Down
  <2>3. asked = {}
    BY <1>1, <1>2, <2>2 DEF Once
  <2>4. \A i \in Places' : wire'[i].kind # "end"
    <3> SUFFICES ASSUME NEW i \in Places', wire'[i].kind = "end" PROVE FALSE
      OBVIOUS
    <3>1. Pending(i + 1)
      BY <1>1, <1>2 DEF Once
    <3> QED
      BY <1>1, <1>5, <2>2, <3>1 DEF Pending
  <2> QED
    BY <1>1, <2>1, <2>3, <2>4 DEF Once, LoneRead, Fresh, Kinds
<1>10. CASE wire[1].kind = "end"
  <2> DEFINE k0 == wire[1].of
  <2>1. Pending(1)
    BY <1>1, <1>2, <1>10 DEF Once
  <2>2. /\ k0 \in Kinds /\ c'.got = [c.got EXCEPT ![k0] = c.serial] /\ c'.pos = c.pos
        /\ \/ c'.reading = c.reading /\ ~(c'.reading /\ Whole(c'))
           \/ Whole(c') /\ ~c'.reading /\ c'.completed = c.serial
    <3>1. c'.pos = c.pos
      BY <1>10, SeenFacts DEF ReadInv
    <3>2. /\ wire[1].of \in Kinds
          /\ c'.got = IF wire[1].of = "execution" /\ wire[1].serial # c.serial THEN c.got
                      ELSE [c.got EXCEPT ![wire[1].of] = wire[1].serial]
          /\ \/ c'.reading = c.reading /\ ~(c'.reading /\ Whole(c'))
             \/ Whole(c') /\ ~c'.reading /\ c'.completed = c.serial
      BY <1>10, SeenFacts DEF ReadInv
    <3> HIDE DEF Whole
    <3> QED
      BY <2>1, <3>1, <3>2 DEF Pending
  <2>3. c.reading /\ c.got[k0] = 0 /\ \A q \in asked : q.of # k0
    BY <2>1 DEF Pending
  <2>4. \A k \in Kinds : c'.got[k] = IF k = k0 THEN c.serial ELSE c.got[k]
    BY <1>4, <2>2
  <2> HIDE DEF k0
  <2>5. ASSUME NEW k \in Kinds, k # k0, c.got[k] = 0
        PROVE  c'.reading /\ c'.got[k] = 0
    <3>1. c'.got[k] = 0
      BY <2>4, <2>5
    <3>2. ~Whole(c')
      BY <3>1 DEF Whole
    <3> HIDE DEF Whole
    <3> QED
      BY <2>2, <2>3, <3>1, <3>2
  <2>6. \A q \in asked' : c'.reading /\ q.serial = c'.serial /\ c'.got[q.of] = 0
    <3>1. \A q \in asked : q.of \in Kinds /\ q.of # k0 /\ q.serial = c.serial /\ c.got[q.of] = 0
      BY <1>2, <2>3 DEF Once, Typing, Asks
    <3> QED
      BY <1>1, <1>3, <2>5, <3>1
  <2>7. ASSUME NEW i \in Places', wire'[i].kind = "end"
        PROVE  Pending(i)'
    <3>1. wire[i + 1].kind = "end" /\ i + 1 \in Places /\ 1 < i + 1
      BY <1>1, <1>5, <2>7
    <3>2. Pending(i + 1) /\ wire[i + 1].of \in Kinds
      BY <1>2, <3>1, EndsTyped DEF Once
    <3>3. wire[i + 1].of # k0
      BY <1>1, <1>10, <3>1, <3>2 DEF Pending, k0
    <3> QED
      BY <1>7, <2>5, <2>7, <3>2, <3>3 DEF Pending
  <2>8. Once'
    BY <1>1, <1>6, <2>6, <2>7 DEF Once
  <2>9. c'.got["position"] # 0 => Total <= c'.pos
    <3>1. CASE k0 = "position"
      <4>1. PositionAhead(1)
        BY <2>1, <3>1 DEF Pending, k0
      <4> QED
        BY <1>1, <2>2, <4>1 DEF PositionAhead
    <3>2. CASE k0 # "position"
      BY <1>2, <2>2, <2>4, <3>2 DEF LoneRead, Kinds
    <3> QED
      BY <3>1, <3>2
  <2>10. \A k \in Kinds : c'.got[k] \in {0, c'.serial}
    BY <1>2, <1>3, <2>4 DEF LoneRead
  <2>11. ~c'.reading => Whole(c') /\ c'.completed = c'.serial
    BY <1>3, <2>2, <2>3
  <2> QED
    BY <1>3, <2>8, <2>9, <2>10, <2>11 DEF LoneRead
<1> QED
  BY <1>8, <1>9, <1>10

\* Of the other steps one answers a request, the rest add no end.
LEMMA LoneMoves ==
  ASSUME AnyRead, LoneInv, begun.alone, Moves, begun' = begun,
         SameEvidence(c', c), asked' \subseteq asked
  PROVE  Once' /\ LoneRead'
<1> USE DEF AnyRead
<1>1. /\ c'.got = c.got /\ c'.reading = c.reading /\ c'.serial = c.serial
      /\ c'.completed = c.completed /\ c'.pos = c.pos
      /\ QueueKept /\ Once /\ LoneRead
  BY DEF SameEvidence, Moves, LoneInv
<1>2. Whole(c') = Whole(c) /\ Fresh' = Fresh /\ Total' = Total
  BY <1>1 DEF Whole, Fresh, Total
<1>3. LoneRead'
  BY <1>1, <1>2 DEF LoneRead
<1>4. asked' # {} => \A i \in Places' : wire'[i].kind # "connection"
  BY <1>1 DEF Once, QueueKept
<1>5. \A q \in asked' : c'.reading /\ q.serial = c'.serial /\ c'.got[q.of] = 0
  BY <1>1 DEF Once
<1>6. ASSUME NEW i \in Places', wire'[i].kind = "end"
      PROVE  Pending(i)'
  <2>1. CASE /\ i \in Places /\ wire'[i] = wire[i]
             /\ \A j \in Places \cup Places' : j < i => j \in Places /\ j \in Places'
    <3>1. Pending(i)
      BY <1>1, <1>6, <2>1 DEF Once
    <3>2. \A j \in Places \cup Places' :
             j < i => j \in Places /\ j \in Places' /\ wire'[j] = wire[j]
      BY <1>1, <2>1 DEF QueueKept
    <3>3. PositionAhead(i) => PositionAhead(i)'
      BY <1>1, <1>2, <3>2 DEF PositionAhead
    <3> QED
      BY <1>1, <2>1, <3>1, <3>2, <3>3 DEF Pending
  <2>2. CASE i = Len(wire') /\ \E q \in asked : IbkrAnswers(q)
    <3>1. PICK q \in asked : IbkrAnswers(q)
      BY <2>2
    <3>2. PICK z : z = Len(wire')
      OBVIOUS
    <3>3. /\ wire'[z].of = q.of /\ wire'[z].serial = q.serial
          /\ \A j \in Places' : \/ j \in Places /\ wire'[j] = wire[j] /\ j < z
                                \/ ~(j \in Places) /\ j < z /\ wire'[j].kind \notin {"connection", "end"}
                                \/ ~(j \in Places) /\ j = z
      BY <3>1, <3>2, AnsweredPlaces
    <3>4. c.reading /\ q.serial = c.serial /\ c.got[q.of] = 0
      BY <1>1 DEF Once
    <3>5. \A r \in asked' : r.of # q.of
      <4>1. asked' = asked \ {q}
        BY <3>1 DEF IbkrAnswers
      <4>2. ASSUME NEW r \in asked, r.of = q.of PROVE r = q
        BY <1>1, <3>4, <4>2 DEF Once, Typing, Asks
      <4> QED
        BY <4>1, <4>2
    <3>6. z \in Nat
      BY <2>2, <3>2 DEF Places
    <3>7. ASSUME NEW j \in Places', j < z
          PROVE  /\ wire'[j].kind # "connection"
                 /\ wire'[j].kind = "end" => wire'[j].of # q.of
      <4>1. \A k \in Places : /\ wire[k].kind # "connection"
                              /\ wire[k].kind = "end" => wire[k].of # q.of
        BY <1>1 DEF Once, Pending
      <4>2. j # z
        BY <3>6, <3>7
      <4> QED
        BY <3>3, <4>1, <4>2
    <3>8. q.of = "position" => PositionAhead(z)'
      <4> SUFFICES ASSUME q.of = "position"
                   PROVE  \/ Total <= c.pos
                          \/ \E j \in Places' : j < z /\ wire'[j].kind = "position" /\ Total <= wire'[j].quantity
        BY <1>1, <1>2 DEF PositionAhead
      <4>1. Total <= Bought /\ Total \in Nat /\ c.pos \in Nat
        BY Counts DEF Total, Bought, Venue
      <4>2. \/ Bought = 0
            \/ \E j \in Places' : j < z /\ wire'[j].kind = "position" /\ wire'[j].quantity = Bought
        BY <3>1, <3>2, AnsweredPlaces
      <4> QED
        BY <4>1, <4>2
    <3>9. i = z
      BY <2>2, <3>2
    <3> QED
      BY <1>1, <3>3, <3>4, <3>5, <3>7, <3>8, <3>9 DEF Pending
  <2> QED
    BY <1>1, <1>6, <2>1, <2>2 DEF QueueKept
<1>7. Once'
  BY <1>4, <1>5, <1>6 DEF Once
<1> QED
  BY <1>3, <1>7

LEMMA LoneBegins ==
  ASSUME AnyRead, Begins, Alone
  PROVE  Once' /\ LoneRead'
<1>1. /\ c' = Begun(c) /\ c.serial < MaxReads /\ c \in Coords
      /\ asked' = asked \cup {[of |-> k, serial |-> c.serial + 1] : k \in Kinds}
      /\ UNCHANGED wire
  BY DEF AnyRead, Begins, Asking, Typing
<1>2. /\ c'.got = [k \in Kinds |-> 0] /\ c'.reading /\ c'.serial = c.serial + 1
  BY <1>1, BegunFacts
<1>3. asked = {} /\ \A i \in Places' : wire'[i].kind \notin {"connection", "end"}
  BY <1>1 DEF Alone, Places, AnyRead, Typing
<1>4. \A q \in asked' : q.of \in Kinds /\ q.serial = c.serial + 1
  BY <1>1, <1>3
<1> QED
  BY <1>2, <1>3, <1>4 DEF Once, LoneRead, Kinds

LEMMA LoneRestarts ==
  ASSUME Restart
  PROVE  Once' /\ LoneRead'
<1>1. Places' = {} /\ asked' = {} /\ (\A k \in Kinds : c'.got[k] = 0) /\ ~c'.reading
  BY StartupFacts DEF Restart, Places
<1> QED
  BY <1>1 DEF Once, LoneRead, Fresh, Kinds

LEMMA LoneStep == AnyRead /\ LoneInv /\ [Next]_vars => LoneInv'
<1> SUFFICES ASSUME AnyRead, LoneInv, [Next]_vars, begun'.alone
             PROVE  Once' /\ LoneRead'
  BY DEF LoneInv
<1>1. CASE HandleEvent
  <2>1. begun' = begun
    BY <1>1 DEF HandleEvent
  <2> QED
    BY <1>1, <2>1, LoneHandled
<1>2. CASE Begins
  <2>1. Alone
    BY <1>2, ViewedType DEF Begins, AnyRead, Typing
  <2> QED
    BY <1>2, <2>1, LoneBegins
<1>3. CASE Restart
  BY <1>3, LoneRestarts
<1>4. CASE ~HandleEvent /\ ~Begins /\ ~Restart
  <2>1. Moves
    BY <1>4, StepSorts, OtherSteps DEF AnyRead
  <2>2. begun' = begun /\ SameEvidence(c', c) /\ asked' \subseteq asked
    BY <1>4, <2>1 DEF Moves
  <2> QED
    BY <2>1, <2>2, LoneMoves
<1> QED
  BY <1>1, <1>2, <1>3, <1>4

LEMMA LoneInit == Init => LoneInv
<1> SUFFICES ASSUME Init PROVE Once /\ LoneRead
  BY DEF LoneInv
<1>1. Places = {} /\ asked = {} /\ (\A k \in Kinds : c.got[k] = 0) /\ ~c.reading
  BY DEF Init, Startup, Places
<1> QED
  BY <1>1 DEF Once, LoneRead, Fresh, Kinds

\* An authorized entry rests on a whole read that is complete.
LEMMA AuthorizedRead ==
  ASSUME AnyRead, LoneInv, Authorized
  PROVE  /\ Whole(c) /\ c.got["execution"] = c.serial /\ c.pos = Executed(led)
         /\ begun.alone => /\ c.completed = c.serial /\ \A k \in Kinds : c.got[k] = c.serial
                           /\ Total <= c.pos
<1>1. Whole(c) /\ c.pos = Executed(led) /\ ~c.reading /\ c.got["execution"] \in {0, c.serial}
  BY DEF Authorized, AnyRead, ReadInv
<1>2. c.got["execution"] # 0 /\ c.got["position"] # 0
  BY <1>1 DEF Whole, Kinds
<1>3. begun.alone => c.completed = c.serial /\ (\A k \in Kinds : c.got[k] = c.serial) /\ Total <= c.pos
  BY <1>1, <1>2 DEF LoneInv, LoneRead, Fresh, Whole, Kinds
<1> QED
  BY <1>1, <1>2, <1>3

\* An entry is authorized only on four answers to the same account read, the
\* one last completed, whatever is lost, late or repeated around it - when at
\* its beginning no answer to an earlier read and no connection event was queued.
THEOREM LoneReadIsWholeHolds == Spec => []LoneReadIsWhole
<1>1. AnyRead /\ LoneInv => LoneReadIsWhole
  BY AuthorizedRead DEF LoneReadIsWhole
<1>2. AnyRead /\ LoneInv /\ [Next]_vars => (AnyRead /\ LoneInv)'
  BY AnyReadStep, LoneStep
<1>3. Init => AnyRead /\ LoneInv
  BY AnyReadInit, LoneInit
<1> QED
  BY <1>1, <1>2, <1>3, PTL DEF Spec

\* Every fill IBKR had done when the authorizing read was begun is in the
\* ledger, even if answers of earlier reads and connections were still queued.
\* What was bought by hand before a read begun alone goes unseen only if the
\* order was filled by as many contracts since, so that the counts agree.
THEOREM AuthorizedSeesReadHolds == Spec => []AuthorizedSeesRead
<1>1. AnyRead /\ LoneInv => AuthorizedSeesRead
  <2> SUFFICES ASSUME AnyRead, LoneInv, Authorized
               PROVE  /\ c.got["execution"] = c.serial /\ 1..begun.filled \subseteq led.executed
                      /\ begun.alone => begun.manual = 0 \/ venue.filled > begun.filled
    BY DEF AuthorizedSeesRead
  <2>1. c.got["execution"] = c.serial /\ 1..begun.filled \subseteq led.executed
    <3>1. Whole(c) /\ c.got["execution"] = c.serial
      BY AuthorizedRead
    <3> QED
      BY <3>1 DEF AnyRead, FillsInv, Whole, Kinds
  <2>2. Executed(led) <= venue.filled /\ Executed(led) \in Nat
    <3>1. led.executed \subseteq 1..venue.filled /\ venue.filled \in Nat /\ led \in Ledgers
      BY Counts DEF AnyRead, Venue, Typing
    <3>2. IsFiniteSet(1..venue.filled) /\ Cardinality(1..venue.filled) = venue.filled
      <4>1. \A n \in Nat : IsFiniteSet(1..n) /\ Cardinality(1..n) = n
        BY FS_Interval
      <4> QED
        BY <3>1, <4>1
    <3> QED
      BY <3>1, <3>2, FS_Subset, LedgerCount, ReconciliationAssumption DEF Executed
  <2>3. begun.alone => Total <= Executed(led)
    BY AuthorizedRead
  <2> QED
    BY <2>1, <2>2, <2>3, Counts DEF Total, AnyRead
<1>2. AnyRead /\ LoneInv /\ [Next]_vars => (AnyRead /\ LoneInv)'
  BY AnyReadStep, LoneStep
<1>3. Init => AnyRead /\ LoneInv
  BY AnyReadInit, LoneInit
<1> QED
  BY <1>1, <1>2, <1>3, PTL DEF Spec

=============================================================================
