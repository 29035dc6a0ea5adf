---------------------------- MODULE SizingProofs ----------------------------
(***************************************************************************)
(* HedgeSizing's QuoteHonored, as MCComponents composes it, for every book *)
(* on the tick grid, all ratios, fees and caps, every split of a batch     *)
(* into fills and every order of hedge attempts.                           *)
(*                                                                         *)
(* First what the sums and the walks over a book are worth: facts about    *)
(* finite sets follow from the library's well-founded orders, for a set of *)
(* good cases; then what a quote says; then the invariant, that buying now *)
(* what is not bought yet, at the emergency prices, leaves no scenario     *)
(* below the quote.                                                        *)
(***************************************************************************)
EXTENDS MCComponents, FiniteSetTheorems, WellFoundedInduction, TLAPS

\* A part runs or stands still.
LEMMA PartSteps ==
    [ComponentsNext]_componentsVars =>
        /\ [Books!Next]_booksVars
        /\ [Quotes!Next]_quotesVars
        /\ [Preview!Next]_previewVars
        /\ [Shutdown!Next]_shutdownVars
        /\ [Hold!Next]_holdVars
        /\ [Receipts!Next]_receiptsVars
        /\ [Sizing!Next]_sizingVars
        /\ [Next]_vars
<1> SUFFICES ASSUME [ComponentsNext]_componentsVars
             PROVE /\ [Books!Next]_booksVars
                   /\ [Quotes!Next]_quotesVars
                   /\ [Preview!Next]_previewVars
                   /\ [Shutdown!Next]_shutdownVars
                   /\ [Hold!Next]_holdVars
                   /\ [Receipts!Next]_receiptsVars
                   /\ [Sizing!Next]_sizingVars
                   /\ [Next]_vars
  OBVIOUS
<1>1. CASE UNCHANGED componentsVars
  BY <1>1 DEF componentsVars
<1>2. CASE ComponentsNext
  <2>1. CASE part = "books"
    BY <1>2, <2>1 DEF ComponentsNext, Step, Still
  <2>2. CASE part = "quotes"
    BY <1>2, <2>2 DEF ComponentsNext, Step, Still
  <2>3. CASE part = "preview"
    BY <1>2, <2>3 DEF ComponentsNext, Step, Still
  <2>4. CASE part = "shutdown"
    BY <1>2, <2>4 DEF ComponentsNext, Step, Still
  <2>5. CASE part = "hold"
    BY <1>2, <2>5 DEF ComponentsNext, Step, Still
  <2>6. CASE part = "receipts"
    BY <1>2, <2>6 DEF ComponentsNext, Step, Still
  <2>7. CASE part = "sizing"
    BY <1>2, <2>7 DEF ComponentsNext, Step, Still
  <2>8. CASE part = "entry"
    BY <1>2, <2>8 DEF ComponentsNext, Step, Still
  <2>9. CASE part \notin {"books", "quotes", "preview", "shutdown", "hold", "receipts",
                          "sizing", "entry"}
    BY <1>2, <2>9 DEF ComponentsNext, Still
  <2> QED
    BY <2>1, <2>2, <2>3, <2>4, <2>5, <2>6, <2>7, <2>8, <2>9
<1> QED
  BY <1>1, <1>2

-----------------------------------------------------------------------------
(* Sums over finite sets *)

\* The element a fold takes first.
Pick(S) == CHOOSE x \in S : TRUE

\* g sums f over every subset of S.
Summing(f, S, g) ==
    g = [s \in SUBSET S |-> IF s = {} THEN 0 ELSE f[Pick(s)] + g[s \ {Pick(s)}]]

\* What holds of 0 and of each successor holds of every number.
LEMMA NaturalStep ==
    ASSUME NEW G, 0 \in G, \A n \in Nat : n \in G => n + 1 \in G
    PROVE  \A n \in Nat : n \in G
<1> SUFFICES ASSUME Nat \ G # {} PROVE FALSE
  OBVIOUS
<1>1. PICK n \in Nat \ G : \A m \in Nat \ G : ~ <<m, n>> \in OpToRel(<, Nat)
  BY NatLessThanWellFounded, WFMin
<1>2. n # 0 /\ n - 1 \in Nat /\ n - 1 < n
  OBVIOUS
<1>3. <<n - 1, n>> \in OpToRel(<, Nat)
  BY <1>2 DEF OpToRel
<1>4. n - 1 \in G
  BY <1>1, <1>2, <1>3
<1>5. (n - 1) + 1 \in G
  BY <1>2, <1>4
<1>6. (n - 1) + 1 = n
  OBVIOUS
<1> QED
  BY <1>5, <1>6

\* What holds of a set when it holds of its proper subsets holds of all.
LEMMA SubsetStep ==
    ASSUME NEW S, IsFiniteSet(S), NEW G,
           \A U \in SUBSET S : (\A V \in SUBSET U : V # U => V \in G) => U \in G
    PROVE  \A U \in SUBSET S : U \in G
<1> SUFFICES ASSUME (SUBSET S) \ G # {} PROVE FALSE
  OBVIOUS
<1> DEFINE T == (SUBSET S) \ G
<1>1. IsWellFoundedOn(StrictSubsetOrdering(S), SUBSET S)
  <2>1. FiniteSubsetsOf(S) = SUBSET S
    BY FS_FiniteSubsetsOfFinite
  <2>2. IsWellFoundedOn(StrictSubsetOrdering(S), FiniteSubsetsOf(S))
    BY FS_StrictSubsetOrderingWellFounded
  <2> QED
    BY <2>1, <2>2
<1>2. T \subseteq SUBSET S /\ T # {}
  OBVIOUS
<1> HIDE DEF T
<1>3. PICK U \in T : \A V \in T : ~ (<<V, U>> \in StrictSubsetOrdering(S))
  BY <1>1, <1>2, WFMin
<1> USE DEF T
<1>4. ASSUME NEW V \in SUBSET U, V # U PROVE V \in G
  BY <1>3, <1>4 DEF StrictSubsetOrdering
<1> QED
  BY <1>3, <1>4

\* A total is a choice among the functions that sum; there is just one.
LEMMA TotalIs ==
    ASSUME NEW f, NEW S
    PROVE  Sizing!Total(f, S) = (CHOOSE g : Summing(f, S, g))[S]
BY DEF Sizing!Total, Sizing!MapThenSumSet, Sizing!MapThenFoldSet, Summing, Pick

LEMMA PickIn ==
    ASSUME NEW S, S # {}
    PROVE  Pick(S) \in S /\ S \ {Pick(S)} \in SUBSET S /\ S \ {Pick(S)} # S
BY DEF Pick

LEMMA SumsAgree ==
    ASSUME NEW f, NEW A, IsFiniteSet(A), NEW B, NEW g, NEW h, Summing(f, A, g), Summing(f, B, h)
    PROVE  \A s \in SUBSET A : s \subseteq B => g[s] = h[s]
<1> DEFINE G == {s \in SUBSET A : s \subseteq B => g[s] = h[s]}
<1>1. ASSUME NEW U \in SUBSET A, \A V \in SUBSET U : V # U => V \in G
      PROVE  U \in G
  <2> SUFFICES ASSUME U \subseteq B PROVE g[U] = h[U]
    OBVIOUS
  <2>1. /\ g[U] = IF U = {} THEN 0 ELSE f[Pick(U)] + g[U \ {Pick(U)}]
        /\ h[U] = IF U = {} THEN 0 ELSE f[Pick(U)] + h[U \ {Pick(U)}]
    BY DEF Summing
  <2>2. U # {} => g[U \ {Pick(U)}] = h[U \ {Pick(U)}]
    BY <1>1, PickIn
  <2> QED
    BY <2>1, <2>2
<1>2. \A U \in SUBSET A : U \in G
  <2> HIDE DEF G
  <2> QED BY <1>1, SubsetStep
<1> QED
  BY <1>2

LEMMA SumUnfolds ==
    ASSUME NEW f, NEW S, IsFiniteSet(S), S # {},
           \E g : Summing(f, S, g), \E g : Summing(f, S \ {Pick(S)}, g)
    PROVE  Sizing!Total(f, S) = f[Pick(S)] + Sizing!Total(f, S \ {Pick(S)})
<1> DEFINE V == S \ {Pick(S)}
           g == CHOOSE x : Summing(f, S, x)
           h == CHOOSE x : Summing(f, V, x)
<1>1. Summing(f, S, g) /\ Summing(f, V, h)
  OBVIOUS
<1>2. Sizing!Total(f, S) = g[S] /\ Sizing!Total(f, V) = h[V]
  BY TotalIs
<1>3. IsFiniteSet(V) /\ V \in SUBSET S
  BY FS_Subset
<1> HIDE DEF g, h
<1>4. h[V] = g[V]
  BY <1>1, <1>3, SumsAgree
<1>5. g[S] = f[Pick(S)] + g[V]
  BY <1>1 DEF Summing
<1> QED
  BY <1>2, <1>4, <1>5

LEMMA SumEmpty ==
    ASSUME NEW f
    PROVE  Sizing!Total(f, {}) = 0
<1> DEFINE g == [s \in SUBSET {} |-> 0]
<1>1. Summing(f, {}, g)
  BY DEF Summing
<1> HIDE DEF g
<1>2. Summing(f, {}, CHOOSE x : Summing(f, {}, x))
  BY <1>1
<1> QED
  BY <1>2, TotalIs DEF Summing

LEMMA SumExists ==
    ASSUME NEW f, NEW S, IsFiniteSet(S)
    PROVE  \A U \in SUBSET S : \E g : Summing(f, U, g)
<1> DEFINE G == {U \in SUBSET S : \E g : Summing(f, U, g)}
<1>1. ASSUME NEW U \in SUBSET S, \A V \in SUBSET U : V # U => V \in G
      PROVE  U \in G
  <2> DEFINE T(s) == Sizing!Total(f, s)
             h == [s \in SUBSET U |-> IF s = {} THEN 0 ELSE f[Pick(s)] + T(s \ {Pick(s)})]
  <2>1. ASSUME NEW s \in SUBSET U, s # {}
        PROVE  h[s \ {Pick(s)}] = T(s \ {Pick(s)})
    <3> DEFINE t == s \ {Pick(s)}
    <3>1. t \in SUBSET U /\ t # U
      BY <2>1, PickIn
    <3>2. CASE t = {}
      BY <3>1, <3>2, SumEmpty
    <3>3. CASE t # {}
      <4>1. /\ IsFiniteSet(t) /\ t \ {Pick(t)} \in SUBSET U /\ t \ {Pick(t)} # U
        BY <3>1, <3>3, PickIn, FS_Subset
      <4>2. t \in G /\ t \ {Pick(t)} \in G
        BY <1>1, <3>1, <4>1
      <4>3. (\E g : Summing(f, t, g)) /\ (\E g : Summing(f, t \ {Pick(t)}, g))
        BY <4>2
      <4> HIDE DEF t
      <4>4. T(t) = f[Pick(t)] + T(t \ {Pick(t)})
        BY <3>3, <4>1, <4>3, SumUnfolds
      <4>5. h[t] = f[Pick(t)] + T(t \ {Pick(t)})
        BY <3>1, <3>3
      <4>6. h[t] = T(t)
        BY <4>4, <4>5
      <4> QED
        BY <4>6 DEF t
    <3> QED
      BY <3>2, <3>3
  <2>2. h = [s \in SUBSET U |-> IF s = {} THEN 0 ELSE f[Pick(s)] + h[s \ {Pick(s)}]]
    <3>1. \A s \in SUBSET U :
             (IF s = {} THEN 0 ELSE f[Pick(s)] + T(s \ {Pick(s)}))
                = (IF s = {} THEN 0 ELSE f[Pick(s)] + h[s \ {Pick(s)}])
      BY <2>1
    <3> QED
      BY <3>1
  <2>3. Summing(f, U, h)
    BY <2>2 DEF Summing
  <2> QED
    BY <2>3
<1>2. \A U \in SUBSET S : U \in G
  <2> HIDE DEF G
  <2> QED BY <1>1, SubsetStep
<1> QED
  BY <1>2

\* The first step of a sum, the element the library's CHOOSE takes.
LEMMA TotalPick ==
    ASSUME NEW f, NEW S, IsFiniteSet(S), S # {}
    PROVE  Sizing!Total(f, S) = f[Pick(S)] + Sizing!Total(f, S \ {Pick(S)})
<1>1. /\ \E g : Summing(f, S, g)
      /\ \E g : Summing(f, S \ {Pick(S)}, g)
  BY SumExists, PickIn
<1> QED
  BY <1>1, SumUnfolds

\* A sum of integers, or of naturals, is one.
LEMMA TotalInt ==
    ASSUME NEW S, IsFiniteSet(S), NEW f, \A x \in S : f[x] \in Int
    PROVE  \A U \in SUBSET S : Sizing!Total(f, U) \in Int
<1> DEFINE G == {U \in SUBSET S : Sizing!Total(f, U) \in Int}
<1>1. ASSUME NEW U \in SUBSET S, \A V \in SUBSET U : V # U => V \in G
      PROVE  U \in G
  <2>1. CASE U = {}
    BY <2>1, SumEmpty
  <2>2. CASE U # {}
    <3>1. IsFiniteSet(U) /\ Pick(U) \in U /\ U \ {Pick(U)} \in G
      BY <1>1, <2>2, PickIn, FS_Subset
    <3>2. Sizing!Total(f, U) = f[Pick(U)] + Sizing!Total(f, U \ {Pick(U)})
      BY <2>2, <3>1, TotalPick
    <3> QED
      BY <3>1, <3>2
  <2> QED
    BY <2>1, <2>2
<1>2. \A U \in SUBSET S : U \in G
  <2> HIDE DEF G
  <2> QED BY <1>1, SubsetStep
<1> QED
  BY <1>2

LEMMA TotalNat ==
    ASSUME NEW S, IsFiniteSet(S), NEW f, \A x \in S : f[x] \in Nat
    PROVE  \A U \in SUBSET S : Sizing!Total(f, U) \in Nat
<1> DEFINE G == {U \in SUBSET S : Sizing!Total(f, U) \in Nat}
<1>1. ASSUME NEW U \in SUBSET S, \A V \in SUBSET U : V # U => V \in G
      PROVE  U \in G
  <2>1. CASE U = {}
    BY <2>1, SumEmpty
  <2>2. CASE U # {}
    <3>1. IsFiniteSet(U) /\ Pick(U) \in U /\ U \ {Pick(U)} \in G
      BY <1>1, <2>2, PickIn, FS_Subset
    <3>2. Sizing!Total(f, U) = f[Pick(U)] + Sizing!Total(f, U \ {Pick(U)})
      BY <2>2, <3>1, TotalPick
    <3> QED
      BY <3>1, <3>2
  <2> QED
    BY <2>1, <2>2
<1>2. \A U \in SUBSET S : U \in G
  <2> HIDE DEF G
  <2> QED BY <1>1, SubsetStep
<1> QED
  BY <1>2

\* Any element may be taken out first.
LEMMA TotalTake ==
    ASSUME NEW S, IsFiniteSet(S), NEW f, \A x \in S : f[x] \in Int, NEW z \in S
    PROVE  Sizing!Total(f, S) = f[z] + Sizing!Total(f, S \ {z})
<1> DEFINE T(U) == Sizing!Total(f, U)
           G == {U \in SUBSET S : \A x \in U : T(U) = f[x] + T(U \ {x})}
<1>1. ASSUME NEW U \in SUBSET S, \A V \in SUBSET U : V # U => V \in G
      PROVE  U \in G
  <2> SUFFICES ASSUME NEW x \in U PROVE T(U) = f[x] + T(U \ {x})
    OBVIOUS
  <2> DEFINE y == Pick(U)
             rest == (U \ {x}) \ {y}
  <2>1. IsFiniteSet(U) /\ y \in U
    BY PickIn, FS_Subset
  <2>2. T(U) = f[y] + T(U \ {y})
    BY <2>1, TotalPick
  <2> HIDE DEF y
  <2>3. CASE y = x
    BY <2>2, <2>3
  <2>4. CASE y # x
    <3>1. U \ {x} \in G /\ U \ {y} \in G /\ y \in U \ {x} /\ x \in U \ {y}
      BY <1>1, <2>1, <2>4
    <3>2. T(U \ {x}) = f[y] + T(rest) /\ T(U \ {y}) = f[x] + T((U \ {y}) \ {x})
      BY <3>1
    <3>3. (U \ {y}) \ {x} = rest
      OBVIOUS
    <3>4. f[x] \in Int /\ f[y] \in Int /\ T(rest) \in Int
      BY <2>1, TotalInt
    <3>5. T((U \ {y}) \ {x}) = T(rest)
      BY <3>3, Zenon
    <3> HIDE DEF T, G, rest
    <3> QED
      BY <2>2, <3>2, <3>4, <3>5
  <2> QED
    BY <2>3, <2>4
<1>2. \A U \in SUBSET S : U \in G
  <2> HIDE DEF G
  <2> QED BY <1>1, SubsetStep
<1>3. S \in G
  BY <1>2
<1> QED
  BY <1>3

\* Sums add up term by term.
LEMMA TotalPlus ==
    ASSUME NEW S, IsFiniteSet(S), NEW f, NEW g, NEW h,
           \A x \in S : f[x] \in Int /\ g[x] \in Int /\ h[x] = f[x] + g[x]
    PROVE  Sizing!Total(h, S) = Sizing!Total(f, S) + Sizing!Total(g, S)
<1> DEFINE G == {U \in SUBSET S :
                    Sizing!Total(h, U) = Sizing!Total(f, U) + Sizing!Total(g, U)}
<1>1. ASSUME NEW U \in SUBSET S, \A V \in SUBSET U : V # U => V \in G
      PROVE  U \in G
  <2>1. CASE U = {}
    BY <2>1, SumEmpty
  <2>2. CASE U # {}
    <3> DEFINE x == Pick(U)
               V == U \ {x}
    <3>1. IsFiniteSet(U) /\ x \in U /\ V \in G
      BY <1>1, <2>2, PickIn, FS_Subset
    <3>2. /\ Sizing!Total(h, U) = h[x] + Sizing!Total(h, V)
          /\ Sizing!Total(f, U) = f[x] + Sizing!Total(f, V)
          /\ Sizing!Total(g, U) = g[x] + Sizing!Total(g, V)
      BY <2>2, <3>1, TotalPick
    <3>3. /\ Sizing!Total(f, V) \in Int /\ Sizing!Total(g, V) \in Int
          /\ Sizing!Total(h, V) = Sizing!Total(f, V) + Sizing!Total(g, V)
      <4>1. Sizing!Total(f, V) \in Int
        BY <3>1, TotalInt
      <4>2. Sizing!Total(g, V) \in Int
        BY <3>1, TotalInt
      <4> QED
        BY <3>1, <4>1, <4>2
    <3>4. f[x] \in Int /\ g[x] \in Int /\ h[x] = f[x] + g[x]
      BY <3>1
    <3> HIDE DEF x, V
    <3>5. Sizing!Total(h, U) = Sizing!Total(f, U) + Sizing!Total(g, U)
      BY <3>2, <3>3, <3>4
    <3> QED
      BY <3>5
  <2> QED
    BY <2>1, <2>2
<1>2. \A U \in SUBSET S : U \in G
  <2> HIDE DEF G
  <2> QED BY <1>1, SubsetStep
<1> QED
  BY <1>2

\* One more price.
LEMMA TotalNext ==
    ASSUME NEW n \in Nat \ {0}, NEW S, S = 1..n, NEW f, \A p \in S : f[p] \in Int
    PROVE  Sizing!Total(f, S) = Sizing!Total(f, 1..(n - 1)) + f[n]
<1>1. IsFiniteSet(S) /\ n \in S
  BY FS_Interval
<1>2. S \ {n} = 1..(n - 1)
  OBVIOUS
<1>3. S \in SUBSET S /\ 1..(n - 1) \in SUBSET S
  OBVIOUS
<1>4. Sizing!Total(f, S) = f[n] + Sizing!Total(f, S \ {n})
  BY <1>1, TotalTake
<1>5. Sizing!Total(f, 1..(n - 1)) \in Int /\ f[n] \in Int
  BY <1>1, <1>3, TotalInt, Zenon
<1>6. Sizing!Total(f, S) = f[n] + Sizing!Total(f, 1..(n - 1))
  BY <1>2, <1>4, Zenon
<1> QED
  BY <1>5, <1>6

\* Both legs.
LEMMA TotalPair ==
    ASSUME NEW a, NEW b, a # b, NEW f, f[a] \in Int, f[b] \in Int
    PROVE  Sizing!Total(f, {a, b}) = f[a] + f[b]
<1> DEFINE S == {a, b}
<1>1. IsFiniteSet(S) /\ IsFiniteSet({b}) /\ a \in S
  <2>1. IsFiniteSet({a}) /\ IsFiniteSet({b}) /\ S = {a} \cup {b}
    BY FS_Singleton
  <2> QED
    BY <2>1, FS_Union
<1>2. S \ {a} = {b} /\ {b} \ {b} = {}
  OBVIOUS
<1>3. S \in SUBSET S /\ {b} \in SUBSET S /\ \A x \in S : f[x] \in Int
  OBVIOUS
<1> HIDE DEF S
<1>4. Sizing!Total(f, S) = f[a] + Sizing!Total(f, S \ {a})
  BY <1>1, <1>3, TotalTake
<1>5. Sizing!Total(f, {b}) = f[b] + Sizing!Total(f, {b} \ {b})
  BY <1>1, <1>3, TotalTake
<1>6. Sizing!Total(f, {b}) = f[b] + 0
  BY <1>2, <1>5, SumEmpty, Zenon
<1>7. Sizing!Total(f, S) = f[a] + Sizing!Total(f, {b})
  BY <1>2, <1>4, Zenon
<1>8. Sizing!Total(f, S) = f[a] + f[b]
  BY <1>6, <1>7
<1> QED
  BY <1>8 DEF S

-----------------------------------------------------------------------------
(* Depth *)

\* What is asked below p, and what a walk takes.
Before(f, p) == Sizing!Total(f, 1..(p - 1))
Fills(book, n, offered) ==
    [p \in Sizing!Prices |->
        IF p \in offered
        THEN Sizing!Smaller(book[p], Sizing!Larger(0,
                n - Sizing!Total(book, {x \in offered : x < p})))
        ELSE 0]
CostOf(fills) == Sizing!Total([p \in Sizing!Prices |-> p * fills[p]], Sizing!Prices)
FeesOf(fills) == Sizing!Total([p \in Sizing!Prices |-> TakerFee[p] * fills[p]], Sizing!Prices)

\* A walk by its parts.
LEMMA WalkIs ==
    ASSUME NEW book, NEW n, NEW offered
    PROVE  LET w == Sizing!WalkAsks(book, n, offered)
               fills == Fills(book, n, offered)
           IN /\ w.fills = fills
              /\ w.filled = Sizing!Total(fills, Sizing!Prices)
              /\ w.cost = CostOf(fills) /\ w.fees = FeesOf(fills)
              /\ w.sufficient <=> Sizing!Total(fills, Sizing!Prices) = n
BY DEF Sizing!WalkAsks, Fills, CostOf, FeesOf

LEMMA PricesFinite == IsFiniteSet(Sizing!Prices) /\ \A p \in Sizing!Prices : p \in Nat \ {0}
BY FS_Interval, SizingAssumption DEF Sizing!Prices

\* A walk takes naturals, at each price no more than is asked.
LEMMA FillsType ==
    ASSUME NEW book \in [Sizing!Prices -> Nat], NEW n \in Int,
           NEW offered, offered \subseteq Nat \ {0}
    PROVE  /\ Fills(book, n, offered) \in [Sizing!Prices -> Nat]
           /\ \A p \in Sizing!Prices : Fills(book, n, offered)[p] <= book[p]
<1> SUFFICES ASSUME NEW p \in Sizing!Prices
             PROVE  /\ Fills(book, n, offered)[p] \in Nat
                    /\ Fills(book, n, offered)[p] <= book[p]
  BY DEF Fills
<1>1. {x \in offered : x < p} \in SUBSET Sizing!Prices
  <2>1. DollarTicks \in Nat /\ p \in 1..(DollarTicks - 1)
    BY SizingAssumption DEF Sizing!Prices
  <2>2. ASSUME NEW x \in offered, x < p PROVE x \in 1..(DollarTicks - 1)
    BY <2>1, <2>2
  <2> QED
    BY <2>2 DEF Sizing!Prices
<1>2. Sizing!Total(book, {x \in offered : x < p}) \in Nat
  BY <1>1, PricesFinite, TotalNat
<1> QED
  BY <1>2 DEF Fills, Sizing!Smaller, Sizing!Larger

\* What is taken costs a natural number of units.
LEMMA MoneyType ==
    ASSUME NEW fills \in [Sizing!Prices -> Nat]
    PROVE  /\ CostOf(fills) \in Nat /\ FeesOf(fills) \in Nat
           /\ Sizing!Total(fills, Sizing!Prices) \in Nat
<1>1. Sizing!Total(fills, Sizing!Prices) \in Nat
  BY PricesFinite, TotalNat
<1> DEFINE c == [p \in Sizing!Prices |-> p * fills[p]]
           d == [p \in Sizing!Prices |-> TakerFee[p] * fills[p]]
<1>2. \A p \in Sizing!Prices : c[p] \in Nat
  BY PricesFinite
<1>3. \A p \in Sizing!Prices : d[p] \in Nat
  BY SizingAssumption DEF Sizing!Prices
<1> HIDE DEF c, d
<1>4. Sizing!Total(c, Sizing!Prices) \in Nat
  BY <1>2, PricesFinite, TotalNat
<1>5. Sizing!Total(d, Sizing!Prices) \in Nat
  BY <1>3, PricesFinite, TotalNat
<1> QED
  BY <1>1, <1>4, <1>5 DEF CostOf, FeesOf, c, d

\* One price further.
LEMMA BeforeNext ==
    ASSUME NEW f, \A q \in Sizing!Prices : f[q] \in Int, NEW p \in Sizing!Prices
    PROVE  Before(f, p) \in Int /\ f[p] \in Int /\ Before(f, p + 1) = Before(f, p) + f[p]
<1>1. p \in Nat \ {0} /\ 1..p \subseteq Sizing!Prices /\ 1..(p - 1) \in SUBSET Sizing!Prices
  BY SizingAssumption DEF Sizing!Prices
<1>2. Sizing!Total(f, 1..p) = Sizing!Total(f, 1..(p - 1)) + f[p]
  BY <1>1, TotalNext
<1>3. Sizing!Total(f, 1..(p - 1)) \in Int
  BY <1>1, PricesFinite, TotalInt
<1>4. (p + 1) - 1 = p
  BY <1>1
<1> QED
  BY <1>2, <1>3, <1>4 DEF Before

\* Nothing is below the lowest price.
LEMMA BeforeFirst == \A f : Before(f, 1) = 0
<1>1. 1..(1 - 1) = {}
  OBVIOUS
<1> QED
  BY <1>1, SumEmpty DEF Before

\* All of a book is what is below a dollar.
LEMMA BeforeAll == \A f : Sizing!Total(f, Sizing!Prices) = Before(f, DollarTicks)
BY DEF Before, Sizing!Prices

\* A fact about the prices, from the lowest up.
LEMMA PriceStep ==
    ASSUME NEW G, 1 \in G, \A p \in Sizing!Prices : p \in G => p + 1 \in G
    PROVE  \A p \in 1..DollarTicks : p \in G
<1> DEFINE H == {i \in Nat : i + 1 \in 1..DollarTicks => i + 1 \in G}
<1>1. 0 \in H
  OBVIOUS
<1>2. ASSUME NEW n \in Nat, n \in H PROVE n + 1 \in H
  <2> SUFFICES ASSUME (n + 1) + 1 \in 1..DollarTicks PROVE (n + 1) + 1 \in G
    OBVIOUS
  <2>1. n + 1 \in Sizing!Prices /\ n + 1 \in 1..DollarTicks
    BY SizingAssumption DEF Sizing!Prices
  <2> QED
    BY <1>2, <2>1
<1>3. \A n \in Nat : n \in H
  <2> HIDE DEF H
  <2> QED BY <1>1, <1>2, NaturalStep
<1> SUFFICES ASSUME NEW p \in 1..DollarTicks PROVE p \in G
  OBVIOUS
<1>4. p - 1 \in Nat /\ (p - 1) + 1 = p
  BY SizingAssumption
<1> QED
  BY <1>3, <1>4

\* A walk of the prices up to k takes what is asked, cheapest first.
LEMMA FillsUpTo ==
    ASSUME NEW book, NEW n, NEW k \in Nat, NEW p \in Sizing!Prices
    PROVE  Fills(book, n, 1..k)[p] =
              IF p <= k THEN Sizing!Smaller(book[p], Sizing!Larger(0, n - Before(book, p))) ELSE 0
<1>1. p \in Nat \ {0}
  BY PricesFinite
<1>2. CASE p <= k
  <2>1. {x \in 1..k : x < p} = 1..(p - 1) /\ p \in 1..k
    BY <1>1, <1>2
  <2> QED
    BY <1>2, <2>1 DEF Fills, Before
<1>3. CASE ~ (p <= k)
  BY <1>1, <1>3 DEF Fills
<1> QED
  BY <1>2, <1>3

\* What is below a price is a number of shares.
LEMMA BeforeNat ==
    ASSUME NEW f \in [Sizing!Prices -> Nat], NEW p \in 1..DollarTicks
    PROVE  Before(f, p) \in Nat
<1>1. 1..(p - 1) \in SUBSET Sizing!Prices
  BY SizingAssumption DEF Sizing!Prices
<1> QED
  BY <1>1, PricesFinite, TotalNat DEF Before

\* Below p the walk has taken all that is asked, or all it wants; above k no more.
LEMMA FillsBefore ==
    ASSUME NEW book \in [Sizing!Prices -> Nat], NEW n \in Nat, NEW k \in Sizing!Prices,
           NEW taken, taken = Fills(book, n, 1..k)
    PROVE  \A p \in 1..DollarTicks :
              /\ p <= k + 1 => Before(taken, p) = Sizing!Smaller(Before(book, p), n)
              /\ p > k => Before(taken, p) = Sizing!Smaller(Before(book, k + 1), n)
<1> DEFINE Right(p) ==
        /\ p <= k + 1 => Before(taken, p) = Sizing!Smaller(Before(book, p), n)
        /\ p > k => Before(taken, p) = Sizing!Smaller(Before(book, k + 1), n)
           G == {p \in 1..DollarTicks : Right(p)}
<1>k. k \in Nat \ {0} /\ 1..k \subseteq Nat \ {0}
  BY PricesFinite
<1>t. taken \in [Sizing!Prices -> Nat]
  BY <1>k, FillsType
<1>1. 1 \in G
  <2>1. Before(taken, 1) = 0 /\ Before(book, 1) = 0
    BY BeforeFirst
  <2>2. 1 \in 1..DollarTicks
    BY SizingAssumption
  <2> QED
    BY <1>k, <2>1, <2>2 DEF Sizing!Smaller
<1>2. ASSUME NEW p \in Sizing!Prices, p \in G PROVE p + 1 \in G
  <2>1. p \in Nat /\ p + 1 \in 1..DollarTicks /\ p \in 1..DollarTicks
    BY SizingAssumption DEF Sizing!Prices
  <2>2. /\ Before(taken, p + 1) = Before(taken, p) + taken[p]
        /\ Before(taken, p) \in Int
    BY <1>t, BeforeNext
  <2>3. /\ Before(book, p + 1) = Before(book, p) + book[p]
        /\ Before(book, p) \in Nat /\ book[p] \in Nat
    BY <2>1, BeforeNext, BeforeNat
  <2>4. taken[p] = IF p <= k
                   THEN Sizing!Smaller(book[p], Sizing!Larger(0, n - Before(book, p))) ELSE 0
    BY <1>k, FillsUpTo
  <2>5. CASE p <= k
    <3>1. Before(taken, p) = Sizing!Smaller(Before(book, p), n)
      BY <1>2, <1>k, <2>1, <2>5
    <3>2. Before(taken, p + 1) = Sizing!Smaller(Before(book, p + 1), n)
      BY <2>2, <2>3, <2>4, <2>5, <3>1 DEF Sizing!Smaller, Sizing!Larger
    <3>3. p + 1 > k => p + 1 = k + 1
      BY <1>k, <2>1, <2>5
    <3> QED
      BY <2>1, <3>2, <3>3
  <2>6. CASE ~ (p <= k)
    <3>1. Before(taken, p) = Sizing!Smaller(Before(book, k + 1), n)
      BY <1>2, <1>k, <2>1, <2>6
    <3>2. Before(taken, p + 1) = Before(taken, p)
      BY <2>2, <2>4, <2>6
    <3>3. ~ (p + 1 <= k + 1)
      BY <1>k, <2>1, <2>6
    <3> QED
      BY <2>1, <3>1, <3>2, <3>3
  <2> QED
    BY <2>5, <2>6
<1>3. \A p \in 1..DollarTicks : p \in G
  <2> HIDE DEF G
  <2> QED BY <1>1, <1>2, PriceStep
<1> QED
  BY <1>3

\* What is below p in the rest of a book.
Remaining(book, taken) == [p \in Sizing!Prices |-> book[p] - taken[p]]

LEMMA BeforeRest ==
    ASSUME NEW book \in [Sizing!Prices -> Nat], NEW taken \in [Sizing!Prices -> Nat],
           NEW p \in 1..DollarTicks
    PROVE  Before(book, p) = Before(taken, p) + Before(Remaining(book, taken), p)
<1> DEFINE S == 1..(p - 1)
           rest == Remaining(book, taken)
<1>1. S \in SUBSET Sizing!Prices
  BY SizingAssumption DEF Sizing!Prices
<1>2. IsFiniteSet(S)
  BY <1>1, PricesFinite, FS_Subset
<1> HIDE DEF S
<1>3. \A q \in S : taken[q] \in Int /\ rest[q] \in Int /\ book[q] = taken[q] + rest[q]
  BY <1>1 DEF Remaining
<1> HIDE DEF rest
<1>4. Sizing!Total(book, S) = Sizing!Total(taken, S) + Sizing!Total(rest, S)
  BY <1>2, <1>3, TotalPlus
<1> QED
  BY <1>4 DEF Before, S, rest

\* What is asked at a price is below the next one.
LEMMA BeforeGrows ==
    ASSUME NEW f \in [Sizing!Prices -> Nat], NEW p \in Sizing!Prices
    PROVE  \A q \in 1..DollarTicks : p < q => Before(f, p) + f[p] <= Before(f, q)
<1> DEFINE G == {q \in 1..DollarTicks : p < q => Before(f, p) + f[p] <= Before(f, q)}
<1>p. p \in Nat \ {0} /\ p \in 1..DollarTicks
  BY SizingAssumption DEF Sizing!Prices
<1>1. 1 \in G
  BY SizingAssumption, <1>p
<1>2. ASSUME NEW q \in Sizing!Prices, q \in G PROVE q + 1 \in G
  <2>1. q \in Nat \ {0} /\ q \in 1..DollarTicks /\ q + 1 \in 1..DollarTicks
    BY SizingAssumption DEF Sizing!Prices
  <2>2. Before(f, q + 1) = Before(f, q) + f[q] /\ Before(f, q) \in Nat /\ f[q] \in Nat
    BY <2>1, BeforeNext, BeforeNat
  <2>3. Before(f, p) \in Nat /\ f[p] \in Nat
    BY <1>p, BeforeNat
  <2> SUFFICES ASSUME p < q + 1 PROVE Before(f, p) + f[p] <= Before(f, q + 1)
    BY <2>1
  <2>4. CASE p = q
    BY <2>2, <2>4
  <2>5. CASE p < q
    BY <1>2, <2>2, <2>3, <2>5
  <2> QED
    BY <1>p, <2>1, <2>4, <2>5
<1>3. \A q \in 1..DollarTicks : q \in G
  <2> HIDE DEF G
  <2> QED BY <1>1, <1>2, PriceStep
<1> QED
  BY <1>3

\* Walking a part of the shares first, at prices the rest may use as well,
\* takes from every price what walking them at once takes.
Splits(book, n, all, k, cap) ==
    LET taken == Fills(book, n, 1..k)
        rest == Remaining(book, taken)
        m == Sizing!Total(taken, Sizing!Prices)
    IN /\ m \in Nat /\ m <= n
       /\ taken \in [Sizing!Prices -> Nat] /\ rest \in [Sizing!Prices -> Nat]
       /\ \A p \in Sizing!Prices :
             Fills(book, all, 1..cap)[p] = taken[p] + Fills(rest, all - m, 1..cap)[p]

LEMMA SplitWalk ==
    ASSUME NEW book \in [Sizing!Prices -> Nat], NEW n \in Nat, NEW all \in Nat, n <= all,
           NEW k \in Sizing!Prices, NEW cap \in Nat, k <= cap
    PROVE  Splits(book, n, all, k, cap)
<1> DEFINE taken == Fills(book, n, 1..k)
           rest == Remaining(book, taken)
           m == Sizing!Total(taken, Sizing!Prices)
<1>d. /\ taken = Fills(book, n, 1..k)
      /\ rest = [p \in Sizing!Prices |-> book[p] - taken[p]]
      /\ m = Sizing!Total(taken, Sizing!Prices)
  BY DEF Remaining
<1> HIDE DEF taken, rest, m
<1>k. k \in Nat \ {0} /\ 1..k \subseteq Nat \ {0} /\ k + 1 \in 1..DollarTicks
      /\ DollarTicks \in 1..DollarTicks /\ DollarTicks > k
  BY SizingAssumption DEF Sizing!Prices
<1>1. /\ taken \in [Sizing!Prices -> Nat]
      /\ \A p \in Sizing!Prices : taken[p] <= book[p]
  BY <1>d, <1>k, FillsType
<1>2. rest \in [Sizing!Prices -> Nat]
  BY <1>1, <1>d
<1>3. m = Sizing!Smaller(Before(book, k + 1), n) /\ Before(book, k + 1) \in Nat
  <2>1. m = Before(taken, DollarTicks)
    BY <1>d, BeforeAll
  <2> QED
    BY <1>d, <1>k, <2>1, FillsBefore, BeforeNat
<1>4. m \in Nat /\ m <= n
  BY <1>3 DEF Sizing!Smaller
<1>5. ASSUME NEW p \in Sizing!Prices
      PROVE  Fills(book, all, 1..cap)[p] = taken[p] + Fills(rest, all - m, 1..cap)[p]
  <2>1. p \in Nat \ {0} /\ p \in 1..DollarTicks
    BY SizingAssumption DEF Sizing!Prices
  <2> DEFINE b == Before(book, p)
             t == Before(taken, p)
             r == Before(rest, p)
             d == Before(book, k + 1)
  <2>2. b \in Nat /\ t \in Nat /\ r \in Nat /\ b = t + r /\ d \in Nat
    <3>1. b \in Nat /\ d \in Nat
      BY <1>k, <2>1, BeforeNat
    <3>2. t \in Nat /\ r \in Nat
      BY <1>1, <1>2, <2>1, BeforeNat
    <3>3. b = t + r
      BY <1>1, <2>1, BeforeRest DEF rest
    <3> QED
      BY <3>1, <3>2, <3>3
  <2>3. /\ p <= k => t = Sizing!Smaller(b, n)
        /\ p > k => t = Sizing!Smaller(d, n)
    BY <1>d, <1>k, <2>1, FillsBefore
  <2>4. /\ book[p] \in Nat /\ rest[p] = book[p] - taken[p]
        /\ taken[p] = IF p <= k
                      THEN Sizing!Smaller(book[p], Sizing!Larger(0, n - b)) ELSE 0
    BY <1>d, <1>k, FillsUpTo
  <2>5. /\ Fills(book, all, 1..cap)[p] =
              IF p <= cap THEN Sizing!Smaller(book[p], Sizing!Larger(0, all - b)) ELSE 0
        /\ Fills(rest, all - m, 1..cap)[p] =
              IF p <= cap THEN Sizing!Smaller(rest[p], Sizing!Larger(0, (all - m) - r)) ELSE 0
    BY FillsUpTo
  <2>6. p <= k => b + book[p] <= d
    BY <1>k, <2>1, BeforeGrows
  <2>7. m = Sizing!Smaller(d, n)
    BY <1>3
  <2> HIDE DEF b, t, r, d
  <2>8. \/ /\ b + book[p] <= d /\ t = Sizing!Smaller(b, n)
           /\ taken[p] = Sizing!Smaller(book[p], Sizing!Larger(0, n - b))
        \/ t = m /\ taken[p] = 0
    BY <1>k, <2>1, <2>3, <2>4, <2>6, <2>7
  <2>9. Sizing!Smaller(book[p], Sizing!Larger(0, all - b)) =
           taken[p] + Sizing!Smaller(book[p] - taken[p], Sizing!Larger(0, (all - m) - r))
    <3> DEFINE x == book[p]
               y == taken[p]
    <3>1. /\ x \in Nat
          /\ \/ /\ b + x <= d /\ t = Sizing!Smaller(b, n)
                /\ y = Sizing!Smaller(x, Sizing!Larger(0, n - b))
             \/ t = m /\ y = 0
      BY <2>4, <2>8
    <3> HIDE DEF x, y
    <3>2. Sizing!Smaller(x, Sizing!Larger(0, all - b)) =
             y + Sizing!Smaller(x - y, Sizing!Larger(0, (all - m) - r))
      <4>1. m \in Nat /\ n \in Nat /\ all \in Nat /\ n <= all
        BY <1>4
      <4>2. CASE t = m /\ y = 0
        BY <2>2, <2>7, <3>1, <4>1, <4>2 DEF Sizing!Smaller, Sizing!Larger
      <4>3. CASE /\ b + x <= d /\ t = Sizing!Smaller(b, n)
                 /\ y = Sizing!Smaller(x, Sizing!Larger(0, n - b))
        <5>1. CASE n <= b
          <6>1. t = n /\ m = n /\ y = 0
            BY <2>2, <2>7, <3>1, <4>1, <4>3, <5>1 DEF Sizing!Smaller, Sizing!Larger
          <6> QED
            BY <2>2, <3>1, <4>1, <6>1 DEF Sizing!Smaller, Sizing!Larger
        <5>2. CASE b < n /\ x <= n - b
          <6>1. t = b /\ r = 0 /\ y = x /\ m <= n
            BY <2>2, <2>7, <3>1, <4>1, <4>3, <5>2 DEF Sizing!Smaller, Sizing!Larger
          <6> QED
            BY <2>2, <3>1, <4>1, <5>2, <6>1 DEF Sizing!Smaller, Sizing!Larger
        <5>3. CASE b < n /\ ~ (x <= n - b)
          <6>1. t = b /\ r = 0 /\ y = n - b /\ m = n
            BY <2>2, <2>7, <3>1, <4>1, <4>3, <5>3 DEF Sizing!Smaller, Sizing!Larger
          <6> QED
            BY <2>2, <3>1, <4>1, <5>3, <6>1 DEF Sizing!Smaller, Sizing!Larger
        <5> QED
          BY <2>2, <4>1, <5>1, <5>2, <5>3
      <4> QED
        BY <3>1, <4>2, <4>3
    <3> QED
      BY <3>2 DEF x, y
  <2>10. CASE p <= cap
    BY <2>4, <2>5, <2>9, <2>10
  <2>11. CASE ~ (p <= cap)
    BY <1>k, <2>1, <2>4, <2>5, <2>11
  <2> QED
    BY <2>10, <2>11
<1> QED
  BY <1>1, <1>2, <1>4, <1>5 DEF Splits, taken, rest, m

\* Cost, fees and quantity of what two walks take together.
LEMMA SplitMoney ==
    ASSUME NEW f \in [Sizing!Prices -> Nat], NEW g \in [Sizing!Prices -> Nat],
           NEW h \in [Sizing!Prices -> Nat], \A p \in Sizing!Prices : h[p] = f[p] + g[p]
    PROVE  /\ CostOf(h) = CostOf(f) + CostOf(g)
           /\ FeesOf(h) = FeesOf(f) + FeesOf(g)
           /\ Sizing!Total(h, Sizing!Prices) =
                 Sizing!Total(f, Sizing!Prices) + Sizing!Total(g, Sizing!Prices)
<1> DEFINE Cost(x) == [p \in Sizing!Prices |-> p * x[p]]
           Fees(x) == [p \in Sizing!Prices |-> TakerFee[p] * x[p]]
<1>m. \A a, b, c, d \in Nat : d = b + c => a * d = a * b + a * c
  OBVIOUS
<1>1. \A p \in Sizing!Prices :
         /\ Cost(f)[p] \in Int /\ Cost(g)[p] \in Int
         /\ Cost(h)[p] = Cost(f)[p] + Cost(g)[p]
  <2> SUFFICES ASSUME NEW p \in Sizing!Prices
               PROVE  /\ p * f[p] \in Int /\ p * g[p] \in Int
                      /\ p * h[p] = p * f[p] + p * g[p]
    OBVIOUS
  <2>1. p \in Nat /\ f[p] \in Nat /\ g[p] \in Nat /\ h[p] \in Nat /\ h[p] = f[p] + g[p]
    BY PricesFinite
  <2> QED
    BY <1>m, <2>1
<1>2. \A p \in Sizing!Prices :
         /\ Fees(f)[p] \in Int /\ Fees(g)[p] \in Int
         /\ Fees(h)[p] = Fees(f)[p] + Fees(g)[p]
  <2> SUFFICES ASSUME NEW p \in Sizing!Prices
               PROVE  /\ TakerFee[p] * f[p] \in Int /\ TakerFee[p] * g[p] \in Int
                      /\ TakerFee[p] * h[p] = TakerFee[p] * f[p] + TakerFee[p] * g[p]
    OBVIOUS
  <2>1. /\ TakerFee[p] \in Nat
        /\ f[p] \in Nat /\ g[p] \in Nat /\ h[p] \in Nat /\ h[p] = f[p] + g[p]
    BY SizingAssumption DEF Sizing!Prices
  <2> QED
    BY <1>m, <2>1
<1> HIDE DEF Cost, Fees
<1>3. Sizing!Total(Cost(h), Sizing!Prices) =
         Sizing!Total(Cost(f), Sizing!Prices) + Sizing!Total(Cost(g), Sizing!Prices)
  BY <1>1, PricesFinite, TotalPlus
<1>4. Sizing!Total(Fees(h), Sizing!Prices) =
         Sizing!Total(Fees(f), Sizing!Prices) + Sizing!Total(Fees(g), Sizing!Prices)
  BY <1>2, PricesFinite, TotalPlus
<1>5. Sizing!Total(h, Sizing!Prices) =
         Sizing!Total(f, Sizing!Prices) + Sizing!Total(g, Sizing!Prices)
  BY PricesFinite, TotalPlus
<1> QED
  BY <1>3, <1>4, <1>5 DEF CostOf, FeesOf, Cost, Fees

\* No shares cost nothing.
LEMMA NothingTaken ==
    ASSUME NEW book \in [Sizing!Prices -> Nat], NEW cap \in Nat
    PROVE  CostOf(Fills(book, 0, 1..cap)) = 0 /\ FeesOf(Fills(book, 0, 1..cap)) = 0
<1> DEFINE f == Fills(book, 0, 1..cap)
<1>1. f \in [Sizing!Prices -> Nat]
  BY FillsType
<1>2. ASSUME NEW p \in Sizing!Prices PROVE f[p] = 0
  <2>1. f[p] = IF p <= cap
               THEN Sizing!Smaller(book[p], Sizing!Larger(0, 0 - Before(book, p))) ELSE 0
    BY FillsUpTo
  <2>2. p \in 1..DollarTicks
    BY SizingAssumption DEF Sizing!Prices
  <2>3. Before(book, p) \in Nat
    BY <2>2, BeforeNat
  <2> QED
    BY <2>1, <2>3 DEF Sizing!Smaller, Sizing!Larger
<1> HIDE DEF f
<1>3. CostOf(f) = CostOf(f) + CostOf(f) /\ FeesOf(f) = FeesOf(f) + FeesOf(f)
  BY <1>1, <1>2, SplitMoney
<1>4. CostOf(f) \in Nat /\ FeesOf(f) \in Nat
  BY <1>1, MoneyType
<1>5. \A c \in Nat : c = c + c => c = 0
  OBVIOUS
<1>6. CostOf(f) = 0 /\ FeesOf(f) = 0
  BY <1>3, <1>4, <1>5, Zenon
<1> QED
  BY <1>6 DEF f

-----------------------------------------------------------------------------
(* Prices and shares *)

\* A nonempty set of numbers has a least one, of prices a highest one.
LEMMA LowestPrice ==
    ASSUME NEW S, S \subseteq Nat, S # {}
    PROVE  Sizing!Min(S) \in S /\ \A x \in S : Sizing!Min(S) <= x
<1>1. PICK x \in S : \A y \in S : ~ (<<y, x>> \in OpToRel(<, Nat))
  BY NatLessThanWellFounded, WFMin
<1>2. ASSUME NEW y \in S PROVE x <= y
  <2>1. <<y, x>> \in Nat \X Nat /\ ~ (<<y, x>> \in OpToRel(<, Nat))
    BY <1>1
  <2>2. ~ (y < x)
    BY <2>1 DEF OpToRel
  <2> QED
    BY <2>2
<1> QED
  BY <1>2 DEF Sizing!Min

LEMMA HighestPrice ==
    ASSUME NEW S, S \subseteq Sizing!Prices, S # {}
    PROVE  Sizing!Max(S) \in S
<1>d. DollarTicks \in Nat /\ \A x \in S : x \in 1..(DollarTicks - 1)
  BY SizingAssumption DEF Sizing!Prices
<1> DEFINE T == {DollarTicks - x : x \in S}
<1>1. T \subseteq Nat /\ T # {}
  BY <1>d
<1>2. Sizing!Min(T) \in T /\ \A t \in T : Sizing!Min(T) <= t
  BY <1>1, LowestPrice
<1>3. PICK x \in S : Sizing!Min(T) = DollarTicks - x
  BY <1>2
<1>4. ASSUME NEW y \in S PROVE x >= y
  <2>1. DollarTicks - y \in T
    OBVIOUS
  <2>2. DollarTicks - x <= DollarTicks - y
    BY <1>2, <1>3, <2>1
  <2> QED
    BY <1>d, <2>2
<1> QED
  BY <1>4 DEF Sizing!Max

\* The limit of a hedge is a price inside its cap.
LEMMA PlanInCap ==
    ASSUME NEW leg, NEW book \in [Sizing!Prices -> Nat], NEW n, NEW cap \in Nat,
           Sizing!PlanHedgeEntry(leg, book, n, cap).worst # 0
    PROVE  /\ Sizing!PlanHedgeEntry(leg, book, n, cap).worst \in Sizing!Prices
           /\ Sizing!PlanHedgeEntry(leg, book, n, cap).worst <= cap
<1> DEFINE lowest == Sizing!MarketableLimitPrice(book, cap)
           ceiling == IF leg = 50 THEN Sizing!Smaller(cap, lowest + PriceTick) ELSE lowest
           offered == {p \in Sizing!Prices : /\ lowest # 0 /\ lowest <= p /\ p <= ceiling
                                             /\ (p - lowest) % PriceTick = 0}
           used == {p \in Sizing!Prices : Fills(book, n, offered)[p] > 0}
<1>1. lowest # 0 => lowest \in Nat /\ lowest <= cap
  <2> DEFINE S == {p \in Sizing!Prices : book[p] > 0}
  <2>1. lowest = IF S = {} \/ Sizing!Min(S) > cap THEN 0 ELSE Sizing!Min(S)
    BY DEF Sizing!MarketableLimitPrice
  <2>2. S \subseteq Nat
    BY PricesFinite
  <2>3. S # {} => Sizing!Min(S) \in Nat
    BY <2>2, LowestPrice
  <2> HIDE DEF S
  <2> QED
    BY <2>1, <2>3
<1>2. lowest # 0 => ceiling <= cap
  BY <1>1, SizingAssumption DEF Sizing!Smaller
<1>3. \A p \in offered : p <= cap
  BY <1>1, <1>2, PricesFinite, SizingAssumption DEF Sizing!Smaller
<1>4. Sizing!PlanHedgeEntry(leg, book, n, cap).worst =
         IF used = {} THEN 0 ELSE Sizing!Max(used)
  <2>1. Sizing!PlanHedgeEntry(leg, book, n, cap) = Sizing!WalkAsks(book, n, offered)
    BY DEF Sizing!PlanHedgeEntry
  <2>2. Sizing!WalkAsks(book, n, offered).worst = IF used = {} THEN 0 ELSE Sizing!Max(used)
    BY DEF Sizing!WalkAsks, Fills
  <2> QED
    BY <2>1, <2>2
<1>5. \A p \in used : p \in offered
  BY DEF Fills
<1> HIDE DEF offered
<1>6. used # {} => Sizing!Max(used) \in used
  BY HighestPrice
<1> QED
  BY <1>3, <1>4, <1>5, <1>6

\* Asks inside the cap that suffice for more are enough for a limit price, and
\* for a purchase up to it.
LEMMA HedgeBuys ==
    ASSUME NEW leg, NEW book \in [Sizing!Prices -> Nat], NEW n \in Nat \ {0},
           NEW all \in Nat, n <= all, NEW cap \in Nat,
           Sizing!Total(Fills(book, all, 1..cap), Sizing!Prices) = all
    PROVE  LET k == Sizing!PlanHedgeEntry(leg, book, n, cap).worst
           IN Sizing!Total(Fills(book, n, 1..k), Sizing!Prices) > 0
<1> DEFINE asked == {p \in Sizing!Prices : book[p] > 0}
           lowest == Sizing!MarketableLimitPrice(book, cap)
           ceiling == IF leg = 50 THEN Sizing!Smaller(cap, lowest + PriceTick) ELSE lowest
           offered == {p \in Sizing!Prices : /\ lowest # 0 /\ lowest <= p /\ p <= ceiling
                                             /\ (p - lowest) % PriceTick = 0}
           used == {p \in Sizing!Prices : Fills(book, n, offered)[p] > 0}
           k == Sizing!PlanHedgeEntry(leg, book, n, cap).worst
\* Some shares are asked inside the cap.
<1>1. \E p \in asked : p <= cap
  <2> SUFFICES ASSUME \A p \in asked : ~ (p <= cap) PROVE FALSE
    OBVIOUS
  <2> DEFINE f == Fills(book, all, 1..cap)
  <2>1. f \in [Sizing!Prices -> Nat] /\ \A p \in Sizing!Prices : f[p] <= book[p]
    BY FillsType
  <2>2. ASSUME NEW p \in Sizing!Prices PROVE f[p] = 0
    <3>1. f[p] \in Nat /\ f[p] <= book[p] /\ book[p] \in Nat
      BY <2>1
    <3>2. ~ (p <= cap) => f[p] = 0
      BY FillsUpTo
    <3> HIDE DEF f
    <3> QED
      BY <3>1, <3>2
  <2> HIDE DEF f
  <2>3. Sizing!Total(f, Sizing!Prices)
           = Sizing!Total(f, Sizing!Prices) + Sizing!Total(f, Sizing!Prices)
    BY <2>1, <2>2, SplitMoney
  <2>4. Sizing!Total(f, Sizing!Prices) = all
    BY DEF f
  <2> QED
    BY <2>3, <2>4
\* So the lowest ask is the plan's first price.
<1>2. lowest \in asked /\ lowest <= cap
  <2>1. lowest = IF asked = {} \/ Sizing!Min(asked) > cap THEN 0 ELSE Sizing!Min(asked)
    BY DEF Sizing!MarketableLimitPrice
  <2>2. asked \subseteq Nat /\ asked # {}
    BY <1>1, PricesFinite
  <2> HIDE DEF asked
  <2>3. Sizing!Min(asked) \in asked /\ \A x \in asked : Sizing!Min(asked) <= x
    BY <2>2, LowestPrice
  <2>4. Sizing!Min(asked) \in Nat
    BY <2>2, <2>3
  <2>5. Sizing!Min(asked) <= cap
    <3>1. PICK p \in asked : p <= cap
      BY <1>1
    <3>2. p \in Nat /\ Sizing!Min(asked) <= p
      BY <2>2, <2>3
    <3> QED
      BY <2>4, <3>1, <3>2
  <2> HIDE DEF lowest
  <2> QED
    BY <2>1, <2>2, <2>3, <2>4, <2>5
<1>3. lowest \in Nat \ {0} /\ lowest \in Sizing!Prices /\ book[lowest] \in Nat /\ book[lowest] > 0
  BY <1>2, PricesFinite
<1> HIDE DEF lowest, asked
<1>4. lowest \in offered /\ \A p \in offered : lowest <= p
  <2>1. lowest <= ceiling
    BY <1>2, <1>3, SizingAssumption DEF Sizing!Smaller
  <2>2. (lowest - lowest) % PriceTick = 0
    BY <1>3, SizingAssumption
  <2> QED
    BY <1>3, <2>1, <2>2
<1> HIDE DEF ceiling
<1>5. lowest \in used /\ used \subseteq offered
  <2>1. {x \in offered : x < lowest} = {}
    <3>1. offered \subseteq Nat
      BY PricesFinite
    <3>2. ASSUME NEW x \in offered PROVE ~ (x < lowest)
      <4>1. x \in Nat /\ lowest <= x
        BY <1>4, <3>1
      <4> QED
        BY <1>3, <4>1
    <3> QED
      BY <3>2
  <2>2. Fills(book, n, offered)[lowest] =
           Sizing!Smaller(book[lowest], Sizing!Larger(0, n - Sizing!Total(book, {})))
    BY <1>3, <1>4, <2>1 DEF Fills
  <2>3. Fills(book, n, offered)[lowest] > 0
    BY <1>3, <2>2, SumEmpty DEF Sizing!Smaller, Sizing!Larger
  <2> QED
    BY <1>3, <2>3 DEF Fills
<1>6. k = IF used = {} THEN 0 ELSE Sizing!Max(used)
  <2>1. Sizing!PlanHedgeEntry(leg, book, n, cap) = Sizing!WalkAsks(book, n, offered)
    BY DEF Sizing!PlanHedgeEntry, lowest, ceiling
  <2>2. Sizing!WalkAsks(book, n, offered).worst = IF used = {} THEN 0 ELSE Sizing!Max(used)
    BY DEF Sizing!WalkAsks, Fills
  <2> QED
    BY <2>1, <2>2
<1>7. k \in Sizing!Prices /\ lowest <= k
  <2>1. used \subseteq Sizing!Prices /\ used # {}
    BY <1>5
  <2> HIDE DEF used, offered
  <2>2. Sizing!Max(used) \in used
    BY <2>1, HighestPrice
  <2> HIDE DEF k
  <2> QED
    BY <1>4, <1>5, <1>6, <2>1, <2>2
<1> HIDE DEF k, used, offered
\* Up to its limit the hedge takes what is asked, or all it wants.
<1>8. Sizing!Total(Fills(book, n, 1..k), Sizing!Prices) =
         Sizing!Smaller(Before(book, k + 1), n)
  <2> DEFINE taken == Fills(book, n, 1..k)
  <2>1. DollarTicks \in 1..DollarTicks /\ DollarTicks > k
    BY <1>7, SizingAssumption DEF Sizing!Prices
  <2> HIDE DEF taken
  <2>2. Before(taken, DollarTicks) = Sizing!Smaller(Before(book, k + 1), n)
    BY <1>7, <2>1, FillsBefore DEF taken
  <2> QED
    BY <2>2, BeforeAll DEF taken
<1>9. Before(book, k + 1) > 0 /\ Before(book, k + 1) \in Nat
  <2>1. k + 1 \in 1..DollarTicks /\ lowest < k + 1 /\ lowest \in 1..DollarTicks
    BY <1>3, <1>7, SizingAssumption DEF Sizing!Prices
  <2>2. Before(book, lowest) \in Nat /\ Before(book, k + 1) \in Nat
    BY <2>1, BeforeNat
  <2>3. Before(book, lowest) + book[lowest] <= Before(book, k + 1)
    BY <1>3, <2>1, BeforeGrows
  <2> QED
    BY <1>3, <2>2, <2>3
<1>10. Sizing!Total(Fills(book, n, 1..k), Sizing!Prices) > 0
  BY <1>8, <1>9 DEF Sizing!Smaller
<1> QED
  BY <1>10 DEF k

\* Rounding up keeps the order.
LEMMA RoundedUp ==
    ASSUME NEW a \in Int, NEW b \in Int, a <= b
    PROVE  /\ Sizing!RoundSharesUp(a) \in Int
           /\ Sizing!RoundSharesUp(a) <= Sizing!RoundSharesUp(b)
BY SizingAssumption DEF Sizing!RoundSharesUp, Sizing!Ceiling

\* The money of a walk is a number.
LEMMA WalkMoney ==
    ASSUME NEW book \in [Sizing!Prices -> Nat], NEW n \in Int,
           NEW offered, offered \subseteq Nat \ {0}
    PROVE  /\ Sizing!WalkAsks(book, n, offered).cost \in Nat
           /\ Sizing!WalkAsks(book, n, offered).fees \in Nat
<1>1. Fills(book, n, offered) \in [Sizing!Prices -> Nat]
  BY FillsType
<1> QED
  BY <1>1, MoneyType, WalkIs

\* So is that of a plan.
LEMMA PlanMoney ==
    ASSUME NEW leg, NEW book \in [Sizing!Prices -> Nat], NEW n \in Int, NEW cap
    PROVE  /\ Sizing!PlanHedgeEntry(leg, book, n, cap).cost \in Nat
           /\ Sizing!PlanHedgeEntry(leg, book, n, cap).fees \in Nat
<1> DEFINE lowest == Sizing!MarketableLimitPrice(book, cap)
           ceiling == IF leg = 50 THEN Sizing!Smaller(cap, lowest + PriceTick) ELSE lowest
           offered == {p \in Sizing!Prices : /\ lowest # 0 /\ lowest <= p /\ p <= ceiling
                                             /\ (p - lowest) % PriceTick = 0}
<1>1. offered \subseteq Nat \ {0}
  BY PricesFinite
<1>2. Sizing!PlanHedgeEntry(leg, book, n, cap) = Sizing!WalkAsks(book, n, offered)
  BY DEF Sizing!PlanHedgeEntry
<1> HIDE DEF offered
<1> QED
  BY <1>1, <1>2, WalkMoney

-----------------------------------------------------------------------------
(* Quotes *)

\* A sum over the legs.
LEMMA LegsSum ==
    ASSUME NEW f, f[25] \in Int, f[50] \in Int
    PROVE  Sizing!Total(f, Sizing!Legs) = f[25] + f[50]
<1>1. Sizing!Total(f, {25, 50}) = f[25] + f[50]
  <2> DEFINE a == 25
             b == 50
  <2>1. a # b /\ f[a] \in Int /\ f[b] \in Int
    OBVIOUS
  <2> HIDE DEF a, b
  <2>2. Sizing!Total(f, {a, b}) = f[a] + f[b]
    BY <2>1, TotalPair
  <2> QED
    BY <2>2 DEF a, b
<1> QED
  BY <1>1 DEF Sizing!Legs

\* A result is an integer.
LEMMA GrossType ==
    ASSUME NEW contracts \in Nat, NEW shares \in [Sizing!Legs -> Nat],
           NEW cost \in [Sizing!Legs -> Int], NEW move \in Sizing!Moves
    PROVE  Sizing!GrossPnl(contracts, shares, cost, move) \in Int
<1> DEFINE f == [leg \in Sizing!Legs |-> shares[leg] * Sizing!Payout(leg, move) - cost[leg]]
<1>1. \A leg \in Sizing!Legs : Sizing!Payout(leg, move) \in Nat
  BY SizingAssumption DEF Sizing!Payout
<1>2. \A leg \in Sizing!Legs : f[leg] \in Int
  BY <1>1
<1> HIDE DEF f
<1>3. Sizing!Total(f, Sizing!Legs) \in Int
  BY <1>2, LegsSum DEF Sizing!Legs
<1>4. ContractEdge - (IF move = 0 THEN 0 ELSE Ratios[move] * DollarTicks) \in Int
  BY SizingAssumption DEF Sizing!Moves
<1>5. contracts * (ContractEdge - (IF move = 0 THEN 0 ELSE Ratios[move] * DollarTicks)) \in Int
  BY <1>4
<1>6. ShareSteps * Sizing!Total(f, Sizing!Legs) \in Int
  BY <1>3, SizingAssumption
<1>7. Sizing!GrossPnl(contracts, shares, cost, move) =
         contracts * (ContractEdge - (IF move = 0 THEN 0 ELSE Ratios[move] * DollarTicks))
           + ShareSteps * Sizing!Total(f, Sizing!Legs)
  BY DEF Sizing!GrossPnl, f
<1> QED
  BY <1>5, <1>6, <1>7

\* The worst case is the least of the scenarios.
LEMMA WorstIs ==
    ASSUME NEW contracts \in Nat, NEW shares \in [Sizing!Legs -> Nat],
           NEW depth, \A leg \in Sizing!Legs : depth[leg].cost \in Int, NEW costs \in Int
    PROVE  /\ Sizing!Worst(contracts, shares, depth, costs) \in Int
           /\ \A move \in Sizing!Moves :
                 Sizing!Worst(contracts, shares, depth, costs) <=
                    Sizing!GrossPnl(contracts, shares,
                                    [leg \in Sizing!Legs |-> depth[leg].cost], move) - costs
<1> DEFINE cost == [leg \in Sizing!Legs |-> depth[leg].cost]
           v(move) == Sizing!GrossPnl(contracts, shares, cost, move) - costs
           V == {v(move) : move \in Sizing!Moves}
<1>1. \A move \in Sizing!Moves : v(move) \in Int
  BY GrossType
<1>2. Sizing!Worst(contracts, shares, depth, costs) = Sizing!Min(V)
  BY DEF Sizing!Worst
<1> HIDE DEF v
<1>3. v(0) \in Int /\ v(25) \in Int /\ v(50) \in Int /\ V = {v(0), v(25), v(50)}
  BY <1>1 DEF Sizing!Moves
<1>4. \E x \in V : \A y \in V : x <= y
  BY <1>3
<1>5. Sizing!Min(V) \in V /\ \A y \in V : Sizing!Min(V) <= y
  BY <1>4 DEF Sizing!Min
<1>6. \A move \in Sizing!Moves : v(move) \in V
  OBVIOUS
<1>7. Sizing!Min(V) \in Int /\ \A move \in Sizing!Moves : Sizing!Min(V) <= v(move)
  BY <1>3, <1>5, <1>6
<1> QED
  BY <1>2, <1>7 DEF v

\* The shares of the batch's first n contracts, rounded once.
Rounded(leg, n) == Sizing!RoundSharesUp(Ratios[leg] * n)

\* They grow with the contracts.
LEMMA RoundedGrows ==
    ASSUME NEW leg \in Sizing!Legs, NEW a \in Nat, NEW b \in Nat, a <= b
    PROVE  Rounded(leg, a) \in Int /\ Rounded(leg, b) \in Int /\ Rounded(leg, a) <= Rounded(leg, b)
<1>1. Ratios[leg] \in Nat
  BY SizingAssumption DEF Sizing!Legs
<1>2. \A r \in Nat : r * a \in Int /\ r * b \in Int /\ r * a <= r * b
  OBVIOUS
<1> QED
  BY <1>1, <1>2, RoundedUp DEF Rounded

\* A fill's shares are the difference of two of them.
LEMMA SharesAre ==
    ASSUME NEW leg \in Sizing!Legs, NEW before \in Nat, NEW additional \in Nat
    PROVE  /\ Sizing!IncrementalHedgeShares(Ratios[leg], before, additional) =
                 Rounded(leg, before + additional) - Rounded(leg, before)
           /\ Sizing!IncrementalHedgeShares(Ratios[leg], before, additional) \in Nat
<1>1. Sizing!IncrementalHedgeShares(Ratios[leg], before, additional) =
         Rounded(leg, before + additional) - Rounded(leg, before)
  BY DEF Sizing!IncrementalHedgeShares, Rounded
<1>2. before + additional \in Nat /\ before <= before + additional
  OBVIOUS
<1>3. /\ Rounded(leg, before) \in Int /\ Rounded(leg, before + additional) \in Int
      /\ Rounded(leg, before) <= Rounded(leg, before + additional)
  BY <1>2, RoundedGrows
<1> QED
  BY <1>1, <1>3

\* The emergency walk of a quote's shares, and its result in a scenario.
Emergency(shares) ==
    [leg \in Sizing!Legs |-> Fills(zAsks[leg], shares[leg], 1..EmergencyPrice)]
NetResult(contracts, shares, cost, fees, move) ==
    Sizing!GrossPnl(contracts, shares, cost, move)
      - contracts * ContractFee - ShareSteps * Sizing!Total(fees, Sizing!Legs)

AskTypes == zAsks \in [Sizing!Legs -> [Sizing!Prices -> Nat]]

\* What is quoted is not above the emergency walk's result in any scenario.
Prudent(quote, before, contracts) ==
    \E complete \in BOOLEAN, shares \in [Sizing!Legs -> Nat], minimum \in Int :
        /\ quote = [complete |-> complete, shares |-> shares, minimum |-> minimum,
                    contracts |-> contracts]
        /\ \A leg \in Sizing!Legs :
              shares[leg] = Rounded(leg, before + contracts) - Rounded(leg, before)
        /\ complete => \A leg \in Sizing!Legs :
              Sizing!Total(Emergency(shares)[leg], Sizing!Prices) = shares[leg]
        /\ \A move \in Sizing!Moves :
              minimum <= NetResult(contracts, shares,
                            [leg \in Sizing!Legs |-> CostOf(Emergency(shares)[leg])],
                            [leg \in Sizing!Legs |-> FeesOf(Emergency(shares)[leg])], move)

\* A quote takes the worse of two plans, of which this walk is one, and of
\* their fees the greater of each leg.
LEMMA OpportunityIsPrudent ==
    ASSUME AskTypes, NEW before \in Nat, NEW contracts \in Nat
    PROVE  Prudent(Sizing!Opportunity(before, contracts), before, contracts)
<1> DEFINE shares == [leg \in Sizing!Legs |->
                        Sizing!IncrementalHedgeShares(Ratios[leg], before, contracts)]
           entry == [leg \in Sizing!Legs |->
                        Sizing!PlanHedgeEntry(leg, zAsks[leg], shares[leg], HardCap)]
           emergency == [leg \in Sizing!Legs |->
                        Sizing!WalkAsks(zAsks[leg], shares[leg], 1..EmergencyPrice)]
           larger == [leg \in Sizing!Legs |->
                        Sizing!Larger(entry[leg].fees, emergency[leg].fees)]
           least == [leg \in Sizing!Legs |-> FeesOf(Emergency(shares)[leg])]
           fees == Sizing!Total(larger, Sizing!Legs)
           costs == contracts * ContractFee + ShareSteps * fees
           complete == \A leg \in Sizing!Legs :
                          /\ entry[leg].sufficient /\ emergency[leg].sufficient
                          /\ Sizing!MarketableLimitPrice(zAsks[leg], HardCap) # 0
           minimum == Sizing!Smaller(Sizing!Worst(contracts, shares, entry, costs),
                                     Sizing!Worst(contracts, shares, emergency, costs))
<1>1. Sizing!Opportunity(before, contracts) =
         [complete |-> complete, shares |-> shares, minimum |-> minimum,
          contracts |-> contracts]
  BY DEF Sizing!Opportunity
<1>2. /\ shares \in [Sizing!Legs -> Nat]
      /\ \A leg \in Sizing!Legs :
            shares[leg] = Rounded(leg, before + contracts) - Rounded(leg, before)
  BY SharesAre
<1> HIDE DEF shares
<1>3. ASSUME NEW leg \in Sizing!Legs
      PROVE  /\ entry[leg].cost \in Nat /\ entry[leg].fees \in Nat
             /\ emergency[leg].cost \in Nat /\ emergency[leg].fees \in Nat
             /\ emergency[leg].cost = CostOf(Emergency(shares)[leg])
             /\ emergency[leg].fees = FeesOf(Emergency(shares)[leg])
             /\ emergency[leg].sufficient =>
                   Sizing!Total(Emergency(shares)[leg], Sizing!Prices) = shares[leg]
  <2>1. zAsks[leg] \in [Sizing!Prices -> Nat] /\ shares[leg] \in Int
    BY <1>2 DEF AskTypes
  <2>2. entry[leg].cost \in Nat /\ entry[leg].fees \in Nat
    BY <2>1, PlanMoney
  <2>3. 1..EmergencyPrice \subseteq Nat \ {0}
    BY SizingAssumption
  <2>4. emergency[leg].cost \in Nat /\ emergency[leg].fees \in Nat
    BY <2>1, <2>3, WalkMoney
  <2>5. Emergency(shares)[leg] = Fills(zAsks[leg], shares[leg], 1..EmergencyPrice)
    BY DEF Emergency
  <2>6. /\ emergency[leg].cost = CostOf(Emergency(shares)[leg])
        /\ emergency[leg].fees = FeesOf(Emergency(shares)[leg])
        /\ emergency[leg].sufficient <=>
              Sizing!Total(Emergency(shares)[leg], Sizing!Prices) = shares[leg]
    BY <2>5, WalkIs
  <2> QED
    BY <2>2, <2>4, <2>6
<1>4. /\ larger[25] \in Int /\ larger[50] \in Int /\ least[25] \in Int /\ least[50] \in Int
      /\ least[25] <= larger[25] /\ least[50] <= larger[50]
  <2>1. 25 \in Sizing!Legs /\ 50 \in Sizing!Legs
    BY DEF Sizing!Legs
  <2>2. \A leg \in Sizing!Legs : /\ larger[leg] \in Int /\ least[leg] \in Int
                                 /\ least[leg] <= larger[leg]
    BY <1>3 DEF Sizing!Larger
  <2> QED
    BY <2>1, <2>2
<1>5. /\ fees \in Int /\ Sizing!Total(least, Sizing!Legs) \in Int
      /\ Sizing!Total(least, Sizing!Legs) <= fees
  <2> HIDE DEF larger, least
  <2>1. fees = larger[25] + larger[50]
    BY <1>4, LegsSum
  <2>2. Sizing!Total(least, Sizing!Legs) = least[25] + least[50]
    BY <1>4, LegsSum
  <2> QED
    BY <1>4, <2>1, <2>2
<1>6. ShareSteps * Sizing!Total(least, Sizing!Legs) <= ShareSteps * fees
      /\ ShareSteps * Sizing!Total(least, Sizing!Legs) \in Int /\ ShareSteps * fees \in Int
  <2>1. \A a \in Nat, b, c \in Int : b <= c => a * b <= a * c /\ a * b \in Int /\ a * c \in Int
    OBVIOUS
  <2> HIDE DEF fees, least
  <2> QED
    BY <1>5, <2>1, SizingAssumption
<1>7. contracts * ContractFee \in Int /\ costs \in Int
  BY <1>6, SizingAssumption
<1> DEFINE walked == [leg \in Sizing!Legs |-> CostOf(Emergency(shares)[leg])]
<1>8. walked = [leg \in Sizing!Legs |-> emergency[leg].cost] /\ walked \in [Sizing!Legs -> Int]
  BY <1>3
<1>9. /\ Sizing!Worst(contracts, shares, entry, costs) \in Int
      /\ Sizing!Worst(contracts, shares, emergency, costs) \in Int
      /\ \A move \in Sizing!Moves :
            Sizing!Worst(contracts, shares, emergency, costs) <=
               Sizing!GrossPnl(contracts, shares, walked, move) - costs
  <2>1. \A leg \in Sizing!Legs : entry[leg].cost \in Int /\ emergency[leg].cost \in Int
    BY <1>3
  <2> HIDE DEF entry, emergency, costs, walked
  <2>2. Sizing!Worst(contracts, shares, entry, costs) \in Int
    BY <1>2, <1>7, <2>1, WorstIs
  <2>3. /\ Sizing!Worst(contracts, shares, emergency, costs) \in Int
        /\ \A move \in Sizing!Moves :
              Sizing!Worst(contracts, shares, emergency, costs) <=
                 Sizing!GrossPnl(contracts, shares,
                                 [leg \in Sizing!Legs |-> emergency[leg].cost], move) - costs
    BY <1>2, <1>7, <2>1, WorstIs
  <2> QED
    BY <1>8, <2>2, <2>3
<1>10. minimum \in Int /\ minimum <= Sizing!Worst(contracts, shares, emergency, costs)
  BY <1>9 DEF Sizing!Smaller
<1>11. ASSUME NEW move \in Sizing!Moves
       PROVE  minimum <= NetResult(contracts, shares, walked, least, move)
  <2> DEFINE gross == Sizing!GrossPnl(contracts, shares, walked, move)
             worst == Sizing!Worst(contracts, shares, emergency, costs)
  <2>1. gross \in Int
    BY <1>2, <1>8, GrossType
  <2>2. worst \in Int /\ worst <= gross - costs /\ minimum <= worst
    BY <1>9, <1>10
  <2>3. NetResult(contracts, shares, walked, least, move) =
           gross - contracts * ContractFee - ShareSteps * Sizing!Total(least, Sizing!Legs)
    BY DEF NetResult
  <2>4. costs = contracts * ContractFee + ShareSteps * fees
    OBVIOUS
  <2> HIDE DEF gross, worst, minimum, costs, fees, least, walked
  <2> QED
    BY <1>6, <1>7, <1>10, <2>1, <2>2, <2>3, <2>4
<1>12. complete => \A leg \in Sizing!Legs :
          Sizing!Total(Emergency(shares)[leg], Sizing!Prices) = shares[leg]
  BY <1>3
<1>13. complete \in BOOLEAN
  OBVIOUS
<1> HIDE DEF complete, minimum
<1> QED
  BY <1>1, <1>2, <1>10, <1>11, <1>12, <1>13 DEF Prudent

-----------------------------------------------------------------------------
(* The invariant: while a quote is being honored, the hedge shares still to *)
(* be bought are those owed and those of the contracts not filled yet, the  *)
(* asks up to the emergency price cover them, and buying them all there now *)
(* would leave no scenario below the quote.                                 *)

\* The values of a quote and of what is spent.
Quoted == [complete : BOOLEAN, shares : [Sizing!Legs -> Nat], minimum : Int,
           contracts : 0..BatchContracts]
Purchases == [cost : Nat, fees : Nat, shares : Nat]

SizingTypes ==
    /\ AskTypes
    /\ zFilled \in 0..BatchContracts
    /\ zOwed \in [Sizing!Legs -> Nat]
    /\ zQuote \in Quoted
    /\ zSpent \in [Sizing!Legs -> Purchases]

\* What is not bought yet, and the costs when it is bought at the emergency prices.
Unbought == [leg \in Sizing!Legs |-> zQuote.shares[leg] - zSpent[leg].shares]
FinalCost == [leg \in Sizing!Legs |-> zSpent[leg].cost + CostOf(Emergency(Unbought)[leg])]
FinalFees == [leg \in Sizing!Legs |-> zSpent[leg].fees + FeesOf(Emergency(Unbought)[leg])]

\* The batch's rounded shares are allocated across its fills.
SharesAllocated ==
    \A leg \in Sizing!Legs :
        Unbought[leg] =
            zOwed[leg] + (Rounded(leg, BatchContracts) - Rounded(leg, zFilled))

\* The asks up to the emergency price suffice for it.
AsksCover ==
    \A leg \in Sizing!Legs :
        Sizing!Total(Emergency(Unbought)[leg], Sizing!Prices) = Unbought[leg]

\* No scenario would end below the quote.
NoneBelow ==
    \A move \in Sizing!Moves :
        zQuote.minimum <= NetResult(zQuote.contracts, zQuote.shares, FinalCost, FinalFees, move)

SizingInv ==
    /\ SizingTypes
    /\ zQuote.complete => SharesAllocated /\ AsksCover /\ NoneBelow

-----------------------------------------------------------------------------
(* Every step preserves it *)

LEMMA SizingStart == ComponentsInit => SizingInv
<1> SUFFICES ASSUME ComponentsInit PROVE SizingInv
  OBVIOUS
<1>1. /\ zAsks = [leg \in Sizing!Legs |-> [p \in Sizing!Prices |-> 0]]
      /\ zFilled = BatchContracts
      /\ zOwed = [leg \in Sizing!Legs |-> 0]
      /\ zQuote = Sizing!NoQuote
      /\ zSpent = [leg \in Sizing!Legs |-> Sizing!Nothing]
  BY DEF ComponentsInit, Sizing!Init
<1>2. Sizing!NoQuote \in Quoted /\ Sizing!NoQuote.complete = FALSE /\ Sizing!Nothing \in Purchases
  BY SizingAssumption DEF Sizing!NoQuote, Sizing!Nothing, Quoted, Purchases
<1>3. zFilled \in 0..BatchContracts
  BY <1>1, SizingAssumption
<1> QED
  BY <1>1, <1>2, <1>3 DEF SizingInv, SizingTypes, AskTypes

\* A new batch has no quote.
LEMMA OfferStep == SizingInv /\ Sizing!Offer => SizingInv'
<1> SUFFICES ASSUME SizingInv, Sizing!Offer PROVE SizingInv'
  OBVIOUS
<1>1. /\ zAsks' \in [Sizing!Legs -> AskBooks]
      /\ zFilled' = 0
      /\ zOwed' = zOwed
      /\ zQuote' = Sizing!NoQuote
      /\ zSpent' = [leg \in Sizing!Legs |-> Sizing!Nothing]
  BY DEF Sizing!Offer
<1>2. Sizing!NoQuote \in Quoted /\ Sizing!NoQuote.complete = FALSE /\ Sizing!Nothing \in Purchases
  BY SizingAssumption DEF Sizing!NoQuote, Sizing!Nothing, Quoted, Purchases
<1>3. AskBooks \subseteq [Sizing!Prices -> Nat]
  BY SizingAssumption DEF Sizing!Prices
<1>4. zFilled' \in 0..BatchContracts
  BY <1>1, SizingAssumption
<1>5. zAsks' \in [Sizing!Legs -> [Sizing!Prices -> Nat]]
  BY <1>1, <1>3
<1> QED
  BY <1>1, <1>2, <1>4, <1>5 DEF SizingInv, SizingTypes, AskTypes

LEMMA QuoteStep == SizingInv /\ Sizing!Quote => SizingInv'
<1> SUFFICES ASSUME SizingInv, Sizing!Quote PROVE SizingInv'
  OBVIOUS
<1>1. /\ zFilled < BatchContracts /\ zOwed = [leg \in Sizing!Legs |-> 0]
      /\ zQuote' = Sizing!Opportunity(zFilled, BatchContracts - zFilled)
      /\ zSpent' = [leg \in Sizing!Legs |-> Sizing!Nothing]
      /\ zAsks' = zAsks /\ zFilled' = zFilled /\ zOwed' = zOwed
  BY DEF Sizing!Quote
<1>2. /\ zFilled \in Nat /\ BatchContracts \in Nat /\ BatchContracts - zFilled \in 0..BatchContracts
      /\ BatchContracts - zFilled \in Nat
      /\ zFilled + (BatchContracts - zFilled) = BatchContracts
  BY <1>1, SizingAssumption DEF SizingInv, SizingTypes
<1>3. PICK complete \in BOOLEAN, shares \in [Sizing!Legs -> Nat], minimum \in Int :
         /\ zQuote' = [complete |-> complete, shares |-> shares, minimum |-> minimum,
                       contracts |-> BatchContracts - zFilled]
         /\ \A leg \in Sizing!Legs :
               shares[leg] = Rounded(leg, zFilled + (BatchContracts - zFilled))
                               - Rounded(leg, zFilled)
         /\ complete => \A leg \in Sizing!Legs :
               Sizing!Total(Emergency(shares)[leg], Sizing!Prices) = shares[leg]
         /\ \A move \in Sizing!Moves :
               minimum <= NetResult(BatchContracts - zFilled, shares,
                             [leg \in Sizing!Legs |-> CostOf(Emergency(shares)[leg])],
                             [leg \in Sizing!Legs |-> FeesOf(Emergency(shares)[leg])], move)
  <2> DEFINE c == BatchContracts - zFilled
  <2>1. c \in Nat /\ zFilled \in Nat /\ zQuote' = Sizing!Opportunity(zFilled, c) /\ AskTypes
    BY <1>1, <1>2 DEF SizingInv, SizingTypes
  <2> HIDE DEF c
  <2>2. Prudent(zQuote', zFilled, c)
    BY <2>1, OpportunityIsPrudent
  <2>3. Prudent(zQuote', zFilled, BatchContracts - zFilled)
    BY <2>2 DEF c
  <2> QED
    BY <2>3 DEF Prudent
<1>4. SizingTypes'
  <2>1. zQuote' \in Quoted
    BY <1>2, <1>3 DEF Quoted
  <2>2. zSpent' \in [Sizing!Legs -> Purchases]
    BY <1>1 DEF Sizing!Nothing, Purchases
  <2> QED
    BY <1>1, <2>1, <2>2 DEF SizingInv, SizingTypes, AskTypes
<1>5. /\ zQuote'.complete = complete /\ zQuote'.shares = shares
      /\ zQuote'.minimum = minimum /\ zQuote'.contracts = BatchContracts - zFilled
  BY <1>3
<1>6. \A leg \in Sizing!Legs :
         zSpent'[leg].shares = 0 /\ zSpent'[leg].cost = 0 /\ zSpent'[leg].fees = 0
  BY <1>1 DEF Sizing!Nothing
<1>7. Unbought' = shares
  <2>1. Unbought' = [leg \in Sizing!Legs |-> shares[leg] - zSpent'[leg].shares]
    BY <1>5 DEF Unbought
  <2>2. \A leg \in Sizing!Legs : shares[leg] - zSpent'[leg].shares = shares[leg]
    BY <1>6
  <2> QED
    BY <2>1, <2>2
<1>8. Emergency(Unbought)' = Emergency(shares)
  BY <1>1, <1>7 DEF Emergency
<1>9. ASSUME NEW leg \in Sizing!Legs
      PROVE  /\ CostOf(Emergency(shares)[leg]) \in Nat
             /\ FeesOf(Emergency(shares)[leg]) \in Nat
  <2>1. zAsks[leg] \in [Sizing!Prices -> Nat] /\ shares[leg] \in Int
    BY DEF SizingInv, SizingTypes, AskTypes
  <2>2. 1..EmergencyPrice \subseteq Nat \ {0}
    BY SizingAssumption
  <2>3. Emergency(shares)[leg] \in [Sizing!Prices -> Nat]
    BY <2>1, <2>2, FillsType DEF Emergency
  <2> QED
    BY <2>3, MoneyType
<1>10. FinalCost' = [leg \in Sizing!Legs |-> CostOf(Emergency(shares)[leg])]
  <2>1. FinalCost' = [leg \in Sizing!Legs |->
                        zSpent'[leg].cost + CostOf(Emergency(shares)[leg])]
    BY <1>8 DEF FinalCost
  <2> QED
    BY <1>6, <1>9, <2>1
<1>11. FinalFees' = [leg \in Sizing!Legs |-> FeesOf(Emergency(shares)[leg])]
  <2>1. FinalFees' = [leg \in Sizing!Legs |->
                        zSpent'[leg].fees + FeesOf(Emergency(shares)[leg])]
    BY <1>8 DEF FinalFees
  <2> QED
    BY <1>6, <1>9, <2>1
<1>12. SharesAllocated'
  <2> SUFFICES ASSUME NEW leg \in Sizing!Legs
               PROVE  shares[leg] = zOwed'[leg]
                         + (Rounded(leg, BatchContracts) - Rounded(leg, zFilled'))
    BY <1>7 DEF SharesAllocated, Rounded
  <2>1. zOwed'[leg] = 0
    BY <1>1
  <2>2. shares[leg] = Rounded(leg, BatchContracts) - Rounded(leg, zFilled)
    BY <1>2, <1>3
  <2>3. shares[leg] \in Nat
    OBVIOUS
  <2>4. shares[leg] = 0 + shares[leg]
    BY <2>3
  <2> QED
    BY <1>1, <2>1, <2>2, <2>4
<1>13. complete => AsksCover'
  BY <1>3, <1>7, <1>8 DEF AsksCover
<1>14. NoneBelow'
  BY <1>3, <1>5, <1>10, <1>11 DEF NoneBelow, NetResult
<1> QED
  BY <1>4, <1>5, <1>12, <1>13, <1>14 DEF SizingInv

LEMMA FillStep ==
    ASSUME SizingInv, NEW k \in 1..BatchContracts, Sizing!Fill(k)
    PROVE  SizingInv'
<1>1. /\ zQuote.complete /\ zFilled + k <= BatchContracts
      /\ zOwed' = [leg \in Sizing!Legs |->
                     zOwed[leg] + Sizing!IncrementalHedgeShares(Ratios[leg], zFilled, k)]
      /\ zFilled' = zFilled + k
      /\ zAsks' = zAsks /\ zQuote' = zQuote /\ zSpent' = zSpent
  BY DEF Sizing!Fill
<1>2. zFilled \in Nat /\ k \in Nat /\ zFilled' \in 0..BatchContracts /\ BatchContracts \in Nat
  BY <1>1, SizingAssumption DEF SizingInv, SizingTypes
<1>3. ASSUME NEW leg \in Sizing!Legs
      PROVE  /\ zOwed'[leg] = zOwed[leg] + (Rounded(leg, zFilled') - Rounded(leg, zFilled))
             /\ zOwed'[leg] \in Nat /\ zOwed[leg] \in Nat
             /\ Rounded(leg, zFilled') \in Int /\ Rounded(leg, zFilled) \in Int
             /\ Rounded(leg, BatchContracts) \in Int
  <2>1. zOwed[leg] \in Nat
    BY DEF SizingInv, SizingTypes
  <2>2. /\ Sizing!IncrementalHedgeShares(Ratios[leg], zFilled, k) =
              Rounded(leg, zFilled + k) - Rounded(leg, zFilled)
        /\ Sizing!IncrementalHedgeShares(Ratios[leg], zFilled, k) \in Nat
    BY <1>2, SharesAre
  <2>3. zFilled' \in Nat /\ zFilled' = zFilled + k
    BY <1>1, <1>2
  <2>4. /\ Rounded(leg, zFilled') \in Int /\ Rounded(leg, zFilled) \in Int
        /\ Rounded(leg, BatchContracts) \in Int
    <3>1. zFilled <= BatchContracts /\ zFilled' <= BatchContracts
      BY <1>1, <1>2 DEF SizingInv, SizingTypes
    <3> QED
      BY <1>2, <2>3, <3>1, RoundedGrows
  <2> QED
    BY <1>1, <2>1, <2>2, <2>3, <2>4
<1>4. SizingTypes'
  BY <1>1, <1>2, <1>3 DEF SizingInv, SizingTypes, AskTypes
<1>5. Unbought' = Unbought /\ Emergency(Unbought)' = Emergency(Unbought)
  BY <1>1 DEF Unbought, Emergency
<1>6. FinalCost' = FinalCost /\ FinalFees' = FinalFees
  BY <1>1, <1>5 DEF FinalCost, FinalFees
<1>7. SharesAllocated'
  <2> SUFFICES ASSUME NEW leg \in Sizing!Legs
               PROVE  Unbought[leg] = zOwed'[leg]
                         + (Rounded(leg, BatchContracts) - Rounded(leg, zFilled'))
    BY <1>5 DEF SharesAllocated, Rounded
  <2>1. Unbought[leg] = zOwed[leg] + (Rounded(leg, BatchContracts) - Rounded(leg, zFilled))
    BY <1>1 DEF SizingInv, SharesAllocated
  <2> QED
    BY <1>3, <2>1
<1>8. AsksCover'
  BY <1>1, <1>5 DEF SizingInv, AsksCover
<1>9. NoneBelow'
  BY <1>1, <1>6 DEF SizingInv, NoneBelow, NetResult
<1> QED
  BY <1>4, <1>7, <1>8, <1>9 DEF SizingInv

LEMMA HedgeStep ==
    ASSUME SizingInv, NEW leg \in Sizing!Legs, Sizing!Hedge(leg)
    PROVE  SizingInv'
<1> DEFINE book == zAsks[leg]
           n == zOwed[leg]
           k == Sizing!PlanHedgeEntry(leg, book, n, EmergencyPrice).worst
           taken == Fills(book, n, 1..k)
           rest == Remaining(book, taken)
           m == Sizing!Total(taken, Sizing!Prices)
<1>1. /\ n > 0 /\ k # 0
      /\ zOwed' = [zOwed EXCEPT ![leg] = n - m]
      /\ zAsks' = [zAsks EXCEPT ![leg] = rest]
      /\ zSpent' = [zSpent EXCEPT ![leg] = [cost |-> zSpent[leg].cost + CostOf(taken),
                                            fees |-> zSpent[leg].fees + FeesOf(taken),
                                            shares |-> zSpent[leg].shares + m]]
      /\ zFilled' = zFilled /\ zQuote' = zQuote
  <2>1. LET bought == Sizing!WalkAsks(book, n, 1..k)
        IN /\ bought.fills = taken /\ bought.filled = m
           /\ bought.cost = CostOf(taken) /\ bought.fees = FeesOf(taken)
    BY WalkIs
  <2> QED
    BY <2>1 DEF Sizing!Hedge, Remaining
<1>2. book \in [Sizing!Prices -> Nat] /\ n \in Nat /\ EmergencyPrice \in Nat
  BY SizingAssumption DEF SizingInv, SizingTypes, AskTypes
<1> HIDE DEF book, n
<1>3. k \in Sizing!Prices /\ k <= EmergencyPrice
  BY <1>1, <1>2, PlanInCap
<1> HIDE DEF k
<1>4. m \in Nat /\ m <= n /\ taken \in [Sizing!Prices -> Nat] /\ rest \in [Sizing!Prices -> Nat]
  <2>1. n <= n
    BY <1>2
  <2>2. Splits(book, n, n, k, EmergencyPrice)
    BY <1>2, <1>3, <2>1, SplitWalk
  <2> QED
    BY <2>2 DEF Splits
<1>5. CostOf(taken) \in Nat /\ FeesOf(taken) \in Nat
  BY <1>4, MoneyType
<1> DEFINE bill == [cost |-> zSpent[leg].cost + CostOf(taken),
                    fees |-> zSpent[leg].fees + FeesOf(taken),
                    shares |-> zSpent[leg].shares + m]
<1>6. SizingTypes'
  <2>1. zSpent[leg] \in Purchases
    BY DEF SizingInv, SizingTypes
  <2>2. bill \in Purchases
    BY <1>4, <1>5, <2>1 DEF Purchases
  <2>3. n - m \in Nat
    BY <1>2, <1>4
  <2> HIDE DEF bill, rest, m, taken
  <2>4. zSpent' = [zSpent EXCEPT ![leg] = bill]
    BY <1>1 DEF bill
  <2>5. zAsks' \in [Sizing!Legs -> [Sizing!Prices -> Nat]]
    BY <1>1, <1>4 DEF SizingInv, SizingTypes, AskTypes
  <2>6. zOwed' \in [Sizing!Legs -> Nat]
    BY <1>1, <2>3 DEF SizingInv, SizingTypes
  <2>7. zSpent' \in [Sizing!Legs -> Purchases]
    BY <2>2, <2>4 DEF SizingInv, SizingTypes
  <2> QED
    BY <1>1, <2>5, <2>6, <2>7 DEF SizingInv, SizingTypes, AskTypes
<1>7. ASSUME zQuote.complete PROVE SharesAllocated' /\ AsksCover' /\ NoneBelow'
  <2> DEFINE all == Unbought[leg]
             before == Fills(book, all, 1..EmergencyPrice)
             after == Fills(rest, all - m, 1..EmergencyPrice)
             later == Rounded(leg, BatchContracts) - Rounded(leg, zFilled)
  <2>1. later \in Nat
    <3>1. zFilled \in Nat /\ BatchContracts \in Nat /\ zFilled <= BatchContracts
      BY SizingAssumption DEF SizingInv, SizingTypes
    <3> QED
      BY <3>1, RoundedGrows
  <2>2. all = n + later
    BY <1>7 DEF SizingInv, SharesAllocated, n
  <2>3. all \in Nat /\ n <= all /\ all - m \in Nat
    <3> HIDE DEF all, later, m
    <3> QED
      BY <1>2, <1>4, <2>1, <2>2
  <2> HIDE DEF all, later
  <2>4. \A p \in Sizing!Prices : before[p] = taken[p] + after[p]
    <3>1. Splits(book, n, all, k, EmergencyPrice)
      BY <1>2, <1>3, <2>3, SplitWalk
    <3> QED
      BY <3>1 DEF Splits
  <2>5. before \in [Sizing!Prices -> Nat] /\ after \in [Sizing!Prices -> Nat]
    <3>1. 1..EmergencyPrice \subseteq Nat \ {0}
      BY <1>2
    <3> HIDE DEF rest, m
    <3>2. before \in [Sizing!Prices -> Nat]
      BY <1>2, <2>3, <3>1, FillsType
    <3>3. all - m \in Int
      BY <2>3
    <3>4. after \in [Sizing!Prices -> Nat]
      BY <1>4, <3>1, <3>3, FillsType
    <3> QED
      BY <3>2, <3>4
  <2> HIDE DEF before, after
  <2>6. /\ CostOf(before) = CostOf(taken) + CostOf(after)
        /\ FeesOf(before) = FeesOf(taken) + FeesOf(after)
        /\ Sizing!Total(before, Sizing!Prices) = m + Sizing!Total(after, Sizing!Prices)
    <3> HIDE DEF taken
    <3> QED
      BY <1>4, <2>4, <2>5, SplitMoney
  <2>7. /\ CostOf(after) \in Nat /\ FeesOf(after) \in Nat
        /\ Sizing!Total(after, Sizing!Prices) \in Nat
    BY <2>5, MoneyType
  <2> HIDE DEF taken, rest, m
  <2>8. /\ zSpent'[leg] = bill
        /\ \A other \in Sizing!Legs : other # leg => zSpent'[other] = zSpent[other]
        /\ zAsks'[leg] = rest
        /\ \A other \in Sizing!Legs : other # leg => zAsks'[other] = zAsks[other]
        /\ zOwed'[leg] = n - m
        /\ \A other \in Sizing!Legs : other # leg => zOwed'[other] = zOwed[other]
    BY <1>1 DEF SizingInv, SizingTypes, AskTypes
  <2>9. Unbought'[leg] = all - m /\ \A other \in Sizing!Legs : other # leg =>
                                       Unbought'[other] = Unbought[other]
    <3>1. zSpent'[leg].shares = zSpent[leg].shares + m
      BY <2>8
    <3>2. zQuote.shares[leg] \in Nat /\ zSpent[leg].shares \in Nat
      BY DEF SizingInv, SizingTypes, Quoted, Purchases
    <3>3. Unbought'[leg] = zQuote.shares[leg] - (zSpent[leg].shares + m)
      BY <1>1, <3>1 DEF Unbought
    <3>4. all = zQuote.shares[leg] - zSpent[leg].shares
      BY DEF Unbought, all
    <3>5. Unbought'[leg] = all - m
      BY <1>4, <3>2, <3>3, <3>4
    <3> QED
      BY <1>1, <2>8, <3>5 DEF Unbought
  <2>10. /\ Emergency(Unbought)[leg] = before /\ Emergency(Unbought)'[leg] = after
         /\ \A other \in Sizing!Legs : other # leg =>
               Emergency(Unbought)'[other] = Emergency(Unbought)[other]
    BY <2>8, <2>9 DEF Emergency, before, after, all, book
  <2>11. FinalCost' = FinalCost
    <3>1. zSpent'[leg].cost = zSpent[leg].cost + CostOf(taken)
      BY <2>8
    <3>2. zSpent[leg].cost \in Nat
      BY DEF SizingInv, SizingTypes, Purchases
    <3>3. FinalCost'[leg] = (zSpent[leg].cost + CostOf(taken)) + CostOf(after)
      BY <2>10, <3>1 DEF FinalCost
    <3>4. FinalCost[leg] = zSpent[leg].cost + CostOf(before)
      BY <2>10 DEF FinalCost
    <3>5. FinalCost'[leg] = FinalCost[leg]
      BY <1>5, <2>6, <2>7, <3>2, <3>3, <3>4
    <3>6. \A other \in Sizing!Legs : other # leg => FinalCost'[other] = FinalCost[other]
      BY <2>8, <2>10 DEF FinalCost
    <3>7. \A other \in Sizing!Legs : FinalCost'[other] = FinalCost[other]
      BY <3>5, <3>6
    <3> QED
      BY <3>7 DEF FinalCost
  <2>12. FinalFees' = FinalFees
    <3>1. zSpent'[leg].fees = zSpent[leg].fees + FeesOf(taken)
      BY <2>8
    <3>2. zSpent[leg].fees \in Nat
      BY DEF SizingInv, SizingTypes, Purchases
    <3>3. FinalFees'[leg] = (zSpent[leg].fees + FeesOf(taken)) + FeesOf(after)
      BY <2>10, <3>1 DEF FinalFees
    <3>4. FinalFees[leg] = zSpent[leg].fees + FeesOf(before)
      BY <2>10 DEF FinalFees
    <3>5. FinalFees'[leg] = FinalFees[leg]
      BY <1>5, <2>6, <2>7, <3>2, <3>3, <3>4
    <3>6. \A other \in Sizing!Legs : other # leg => FinalFees'[other] = FinalFees[other]
      BY <2>8, <2>10 DEF FinalFees
    <3>7. \A other \in Sizing!Legs : FinalFees'[other] = FinalFees[other]
      BY <3>5, <3>6
    <3> QED
      BY <3>7 DEF FinalFees
  <2>13. SharesAllocated'
    <3> SUFFICES ASSUME NEW other \in Sizing!Legs
                 PROVE  Unbought'[other] = zOwed'[other]
                           + (Rounded(other, BatchContracts) - Rounded(other, zFilled))
      BY <1>1 DEF SharesAllocated, Rounded
    <3>1. CASE other = leg
      <4>1. all - m = (n - m) + later
        BY <1>2, <1>4, <2>1, <2>2
      <4> QED
        BY <2>8, <2>9, <3>1, <4>1 DEF later
    <3>2. CASE other # leg
      BY <1>7, <2>8, <2>9, <3>2 DEF SizingInv, SharesAllocated
    <3> QED
      BY <3>1, <3>2
  <2>14. AsksCover'
    <3> SUFFICES ASSUME NEW other \in Sizing!Legs
                 PROVE  Sizing!Total(Emergency(Unbought)'[other], Sizing!Prices)
                           = Unbought'[other]
      BY DEF AsksCover
    <3>1. CASE other = leg
      <4>1. Sizing!Total(before, Sizing!Prices) = all
        BY <1>7, <2>10 DEF SizingInv, AsksCover, all
      <4>2. Sizing!Total(after, Sizing!Prices) = all - m
        BY <1>4, <2>3, <2>6, <2>7, <4>1
      <4> QED
        BY <2>9, <2>10, <3>1, <4>2
    <3>2. CASE other # leg
      BY <1>7, <2>9, <2>10, <3>2 DEF SizingInv, AsksCover
    <3> QED
      BY <3>1, <3>2
  <2>15. NoneBelow'
    BY <1>1, <1>7, <2>11, <2>12 DEF SizingInv, NoneBelow, NetResult
  <2> QED
    BY <2>13, <2>14, <2>15
<1> QED
  BY <1>1, <1>6, <1>7 DEF SizingInv

LEMMA SizingStep == SizingInv /\ [Sizing!Next]_sizingVars => SizingInv'
<1> SUFFICES ASSUME SizingInv, [Sizing!Next]_sizingVars PROVE SizingInv'
  OBVIOUS
<1>1. CASE Sizing!Offer
  BY <1>1, OfferStep
<1>2. CASE Sizing!Quote
  BY <1>2, QuoteStep
<1>3. CASE \E k \in 1..BatchContracts : Sizing!Fill(k)
  BY <1>3, FillStep
<1>4. CASE \E leg \in Sizing!Legs : Sizing!Hedge(leg)
  BY <1>4, HedgeStep
<1>5. CASE UNCHANGED sizingVars
  BY <1>5 DEF sizingVars, SizingInv, SizingTypes, AskTypes, SharesAllocated, AsksCover,
              NoneBelow, NetResult, FinalCost, FinalFees, Unbought, Emergency, Rounded
<1> QED
  BY <1>1, <1>2, <1>3, <1>4, <1>5 DEF Sizing!Next

\* Filled and hedged, a batch has bought the shares of its quote, at what the
\* invariant bounds.
LEMMA SizingSafe == SizingInv => QuoteHonored
<1> SUFFICES ASSUME SizingInv, zQuote.complete, zFilled = BatchContracts,
                    \A leg \in Sizing!Legs : zOwed[leg] = 0, NEW move \in Sizing!Moves
             PROVE  Sizing!Realised(move) >= zQuote.minimum
  BY DEF QuoteHonored, Sizing!QuoteHonored
<1>1. ASSUME NEW leg \in Sizing!Legs
      PROVE  /\ zSpent[leg].shares = zQuote.shares[leg]
             /\ FinalCost[leg] = zSpent[leg].cost /\ FinalFees[leg] = zSpent[leg].fees
  <2>1. Rounded(leg, BatchContracts) \in Int
    BY SizingAssumption, RoundedGrows
  <2>2. Unbought[leg] = 0
    BY <2>1 DEF SizingInv, SharesAllocated
  <2>3. zSpent[leg] \in Purchases /\ zQuote.shares[leg] \in Nat
        /\ zAsks[leg] \in [Sizing!Prices -> Nat]
    BY DEF SizingInv, SizingTypes, AskTypes, Quoted
  <2>4. Emergency(Unbought)[leg] = Fills(zAsks[leg], 0, 1..EmergencyPrice)
    BY <2>2 DEF Emergency
  <2>5. CostOf(Emergency(Unbought)[leg]) = 0 /\ FeesOf(Emergency(Unbought)[leg]) = 0
    <3>1. EmergencyPrice \in Nat
      BY SizingAssumption
    <3>2. /\ CostOf(Fills(zAsks[leg], 0, 1..EmergencyPrice)) = 0
          /\ FeesOf(Fills(zAsks[leg], 0, 1..EmergencyPrice)) = 0
      BY <2>3, <3>1, NothingTaken
    <3> QED
      BY <2>4, <3>2
  <2>6. zSpent[leg].shares \in Nat /\ zSpent[leg].cost \in Nat /\ zSpent[leg].fees \in Nat
    BY <2>3 DEF Purchases
  <2>7. zSpent[leg].shares = zQuote.shares[leg]
    BY <2>2, <2>3, <2>6 DEF Unbought
  <2>8. FinalCost[leg] = zSpent[leg].cost + 0 /\ FinalFees[leg] = zSpent[leg].fees + 0
    BY <2>5 DEF FinalCost, FinalFees
  <2> QED
    BY <2>6, <2>7, <2>8
<1>2. /\ [leg \in Sizing!Legs |-> zSpent[leg].shares] = zQuote.shares
      /\ [leg \in Sizing!Legs |-> zSpent[leg].cost] = FinalCost
      /\ [leg \in Sizing!Legs |-> zSpent[leg].fees] = FinalFees
  <2>1. zQuote.shares = [leg \in Sizing!Legs |-> zQuote.shares[leg]]
    BY DEF SizingInv, SizingTypes, Quoted
  <2>2. FinalCost = [leg \in Sizing!Legs |-> FinalCost[leg]]
        /\ FinalFees = [leg \in Sizing!Legs |-> FinalFees[leg]]
    BY DEF FinalCost, FinalFees
  <2> QED
    BY <1>1, <2>1, <2>2
<1>3. Sizing!Realised(move) =
         NetResult(zQuote.contracts, zQuote.shares, FinalCost, FinalFees, move)
  BY <1>2 DEF Sizing!Realised, NetResult
<1>4. zQuote.minimum <= NetResult(zQuote.contracts, zQuote.shares, FinalCost, FinalFees, move)
  BY DEF SizingInv, NoneBelow
<1>5. NetResult(zQuote.contracts, zQuote.shares, FinalCost, FinalFees, move) \in Int
  <2>1. /\ zQuote.contracts \in Nat /\ zQuote.shares \in [Sizing!Legs -> Nat]
        /\ \A leg \in Sizing!Legs : zSpent[leg].cost \in Int /\ zSpent[leg].fees \in Int
    BY SizingAssumption DEF SizingInv, SizingTypes, Quoted, Purchases
  <2>2. FinalCost \in [Sizing!Legs -> Int] /\ \A leg \in Sizing!Legs : FinalFees[leg] \in Int
    BY <1>2, <2>1
  <2>3. Sizing!GrossPnl(zQuote.contracts, zQuote.shares, FinalCost, move) \in Int
    BY <2>1, <2>2, GrossType
  <2>4. Sizing!Total(FinalFees, Sizing!Legs) \in Int
    <3>1. FinalFees[25] \in Int /\ FinalFees[50] \in Int
      BY <2>2 DEF Sizing!Legs
    <3> QED
      BY <3>1, LegsSum
  <2>5. zQuote.contracts * ContractFee \in Int
        /\ ShareSteps * Sizing!Total(FinalFees, Sizing!Legs) \in Int
    BY <2>1, <2>4, SizingAssumption
  <2> QED
    BY <2>3, <2>5 DEF NetResult
<1>6. zQuote.minimum \in Int
  BY DEF SizingInv, SizingTypes, Quoted
<1> QED
  BY <1>3, <1>4, <1>5, <1>6

\* What is owed is a part of what the invariant says the asks suffice for.
LEMMA SizingProceeds == SizingInv => HedgesProceed
<1> SUFFICES ASSUME SizingInv, zQuote.complete, NEW leg \in Sizing!Legs, zOwed[leg] > 0
             PROVE  LET k == Sizing!PlanHedgeEntry(leg, zAsks[leg], zOwed[leg],
                                                   EmergencyPrice).worst
                    IN Sizing!WalkAsks(zAsks[leg], zOwed[leg], 1..k).filled > 0
  BY DEF HedgesProceed, Sizing!HedgesProceed
<1> DEFINE book == zAsks[leg]
           n == zOwed[leg]
           all == Unbought[leg]
           later == Rounded(leg, BatchContracts) - Rounded(leg, zFilled)
           k == Sizing!PlanHedgeEntry(leg, book, n, EmergencyPrice).worst
<1>1. book \in [Sizing!Prices -> Nat] /\ n \in Nat \ {0} /\ EmergencyPrice \in Nat
  BY SizingAssumption DEF SizingInv, SizingTypes, AskTypes
<1>2. later \in Nat
  <2>1. zFilled \in Nat /\ BatchContracts \in Nat /\ zFilled <= BatchContracts
    BY SizingAssumption DEF SizingInv, SizingTypes
  <2> QED
    BY <2>1, RoundedGrows
<1>3. all = n + later
  BY DEF SizingInv, SharesAllocated
<1>4. Sizing!Total(Fills(book, all, 1..EmergencyPrice), Sizing!Prices) = all
  <2>1. Emergency(Unbought)[leg] = Fills(book, all, 1..EmergencyPrice)
    BY DEF Emergency
  <2> QED
    BY <2>1 DEF SizingInv, AsksCover
<1> HIDE DEF book, n, all, later
<1>5. all \in Nat /\ n <= all
  BY <1>1, <1>2, <1>3
<1>6. Sizing!Total(Fills(book, n, 1..k), Sizing!Prices) > 0
  BY <1>1, <1>4, <1>5, HedgeBuys
<1>7. Sizing!WalkAsks(book, n, 1..k).filled = Sizing!Total(Fills(book, n, 1..k), Sizing!Prices)
  BY WalkIs
<1> QED
  BY <1>6, <1>7 DEF book, n, k

\* A quote is honored: whatever the books, the ratios, the fees and the caps,
\* and however the contracts it was for are split into fills and the fills'
\* hedges into attempts, no scenario ends below its minimum net profit
\* (analytics/payoff.py, coordinator.py:_route_one_hedge).
THEOREM QuotesAreHonored == ComponentsSpec => []QuoteHonored
<1>1. ComponentsInit => SizingInv
  BY SizingStart
<1>2. SizingInv /\ [ComponentsNext]_componentsVars => SizingInv'
  BY SizingStep, PartSteps
<1>3. SizingInv => QuoteHonored
  BY SizingSafe
<1> QED
  BY <1>1, <1>2, <1>3, PTL DEF ComponentsSpec

\* The hedges of a quoted batch are never stuck on the books it was quoted on:
\* whatever the books, the ratios, the fees and the caps, and whatever fills and
\* attempts came before, the next attempt has a limit price and buys some
\* (coordinator.py:_route_one_hedge, analytics/payoff.py).
THEOREM HedgesAlwaysProceed == ComponentsSpec => []HedgesProceed
<1>1. ComponentsInit => SizingInv
  BY SizingStart
<1>2. SizingInv /\ [ComponentsNext]_componentsVars => SizingInv'
  BY SizingStep, PartSteps
<1>3. SizingInv => HedgesProceed
  BY SizingProceeds
<1> QED
  BY <1>1, <1>2, <1>3, PTL DEF ComponentsSpec

=============================================================================
