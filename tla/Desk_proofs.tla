---------------------------- MODULE Desk_proofs ----------------------------
(***************************************************************************)
(* What Desk and WorkQueue guarantee for any decisions, snapshots, ledgers  *)
(* and page sizes.                                                         *)
(*                                                                         *)
(* The reports of profit and loss agree because the projection was built    *)
(* from the events and a subset of today's snapshots (Projected): a mark    *)
(* that is stored has a price that is still there to be found.             *)
(*                                                                         *)
(* Exposure follows the entries because each rebuild nets one instrument    *)
(* from all of its entries (Nets), and a market is the sum of its          *)
(* instruments.  The model sums over sets with a fold, which takes the     *)
(* elements in some order: SumsAreOne says that the order does not matter,  *)
(* SumPlus that an element more adds its value.                            *)
(*                                                                         *)
(* A walk through the queue misses nothing because a row that stayed was    *)
(* shown or is after the cursor (WalkIsOn).  That a page keeps this needs   *)
(* the rows to be in a strict order of which a page is an initial segment   *)
(* (PageIs): Before is a strict order (BeforeIsStrict), so a row has a      *)
(* smaller place than each that comes after it (PlaceCounts).              *)
(***************************************************************************)
EXTENDS WorkQueue, FiniteSetTheorems, WellFoundedInduction, TLAPS

LEMMA LeastNatural ==
    ASSUME NEW T, T \subseteq Nat, T # {}
    PROVE  \E n \in T : \A m \in T : n <= m
<1> DEFINE R == {p \in Nat \X Nat : p[1] < p[2]}
<1>1. R = OpToRel(<, Nat)
  BY DEF OpToRel
<1>2. IsWellFoundedOn(R, Nat)
  BY <1>1, NatLessThanWellFounded
<1>3. \E n \in T : \A m \in T : <<m, n>> \notin R
  BY <1>2, WFMin
<1>4. \A n \in T, m \in T : <<m, n>> \notin R => n <= m
  OBVIOUS
<1> QED
  BY <1>3, <1>4

LEMMA Greatest ==
    ASSUME NEW n \in Nat, NEW T, T \subseteq 0..n, T # {}
    PROVE  \E i \in T : \A j \in T : i >= j
<1> DEFINE S == {k \in Nat : n - k \in T}
<1>1. S \subseteq Nat /\ S # {}
  <2>1. PICK i \in T : i \in 0..n
    OBVIOUS
  <2>2. n - (n - i) = i /\ n - i \in Nat
    BY <2>1
  <2> QED
    BY <2>1, <2>2
<1>2. PICK k \in S : \A j \in S : k <= j
  BY <1>1, LeastNatural
<1>3. n - k \in T /\ k \in Nat
  BY <1>2
<1>4. \A j \in T : n - k >= j
  <2> TAKE j \in T
  <2>1. j \in 0..n /\ n - (n - j) = j /\ n - j \in Nat
    OBVIOUS
  <2>2. k <= n - j
    BY <1>2, <2>1
  <2> QED
    BY <1>3, <2>1, <2>2
<1> QED
  BY <1>3, <1>4

LEMMA ImageIsFinite ==
    ASSUME NEW S, IsFiniteSet(S), NEW f, f = [x \in S |-> f[x]]
    PROVE  IsFiniteSet({f[x] : x \in S})
<1> DEFINE T == {f[x] : x \in S}
<1>1. f \in Surjection(S, T)
  BY DEF Surjection
<1> HIDE DEF T
<1>2. IsFiniteSet(T)
  BY <1>1, FS_Surjection
<1> QED
  BY <1>2 DEF T

LEMMA MinIsLeast ==
    ASSUME NEW T, T \subseteq Nat, T # {}
    PROVE  Min(T) \in T /\ \A j \in T : Min(T) <= j
BY LeastNatural DEF Min

-----------------------------------------------------------------------------
(* Types *)

Recorded == [kind : {k \in DecisionKinds : Allowed(k)}, created : Nat]
Event == [market : Markets, side : PositionSides, price : 0..100, delta : Int, decision : Nat]
Snapshot == [market : Markets, captured : 1..MaxSnapshots, price : 0..100 \cup {None}]

DecisionTypesOK == decisions \in Seq(Recorded) /\ day \in Nat
BookTypes ==
    /\ events \in Seq(Event)
    /\ \A p \in DOMAIN events :
         /\ events[p].side = "yes" => events[p].delta >= 0
         /\ events[p].side = "no" => events[p].delta <= 0
    /\ snapshots \subseteq Snapshot
OneQuote == \A s, t \in snapshots : s.market = t.market /\ s.captured = t.captured => s = t
Projected == \E quoted \in SUBSET snapshots : positions = Rebuilt(events, quoted)
DeskInv == DecisionTypesOK /\ BookTypes /\ OneQuote /\ Projected

LEMMA KindFacts ==
    ASSUME NEW k \in DecisionKinds
    PROVE  /\ k \in DecisionKind
           /\ k.quantity \in Nat \cup {None} /\ k.price \in 0..100 \cup {None}
           /\ k.market \in Markets /\ None \notin Nat
BY DeskAssumption DEF DecisionKind

LEMMA BoundFacts == /\ MaxSnapshots \in Nat /\ StaleAfter \in Nat /\ Prices \subseteq 0..100
                    /\ None \notin 0..100
<1>1. 0..100 \subseteq Nat
  OBVIOUS
<1> QED
  BY <1>1, DeskAssumption

LEMMA DeskInit == Init => DeskInv
<1> SUFFICES ASSUME Init PROVE DeskInv
  OBVIOUS
<1>1. DecisionTypesOK /\ BookTypes /\ OneQuote
  BY DEF Init, DecisionTypesOK, BookTypes, OneQuote
<1>2. positions = Rebuilt(events, {})
  BY DEF Init, Rebuilt
<1> QED
  BY <1>1, <1>2 DEF DeskInv, Projected

LEMMA DecisionAddKeeps ==
    ASSUME DeskInv, NEW k \in DecisionKinds, DecisionAdd(k)
    PROVE  DeskInv'
<1>1. DecisionTypesOK /\ BookTypes /\ OneQuote /\ Projected
  BY DEF DeskInv
<1>2. decisions' = Append(decisions, [kind |-> k, created |-> day]) /\ Allowed(k)
      /\ snapshots' = snapshots /\ day' = day
  BY DEF DecisionAdd, RecordDecision
<1>3. DecisionTypesOK' /\ Len(decisions) \in Nat
  BY <1>1, <1>2 DEF DecisionTypesOK, Recorded
<1>4. OneQuote'
  BY <1>1, <1>2 DEF OneQuote
<1>5. CASE k.type = "paper_enter"
  <2> DEFINE opened == [market |-> k.market, side |-> k.side, price |-> k.price,
                        delta |-> SignedDelta(k), decision |-> Len(decisions) + 1]
  <2>1. events' = Append(events, opened) /\ k.side \in PositionSides /\ positions' = Rebuilt(events', snapshots)
    BY <1>5 DEF DecisionAdd, OpenPosition
  <2>2. k.quantity \in Nat /\ k.price \in 0..100 /\ k.market \in Markets
    BY <1>2, <1>5, KindFacts DEF Allowed, Priced
  <2>3. /\ SignedDelta(k) \in Int /\ (k.side = "yes" => SignedDelta(k) >= 0)
        /\ (k.side = "no" => SignedDelta(k) <= 0)
    BY <2>2 DEF SignedDelta
  <2>4. opened \in Event
    BY <1>3, <2>1, <2>2, <2>3 DEF Event
  <2>5. /\ opened.side = "yes" => opened.delta >= 0
        /\ opened.side = "no" => opened.delta <= 0
    BY <2>3
  <2> HIDE DEF opened
  <2>6. events \in Seq(Event)
    BY <1>1 DEF BookTypes
  <2>7. /\ events' \in Seq(Event) /\ Len(events) \in Nat /\ DOMAIN events' = 1..(Len(events) + 1)
        /\ DOMAIN events = 1..Len(events)
        /\ events'[Len(events) + 1] = opened /\ \A i \in 1..Len(events) : events'[i] = events[i]
    BY <2>1, <2>4, <2>6
  <2>8. ASSUME NEW p \in DOMAIN events'
        PROVE  /\ events'[p].side = "yes" => events'[p].delta >= 0
               /\ events'[p].side = "no" => events'[p].delta <= 0
    <3>1. CASE p \in 1..Len(events)
      BY <1>1, <2>7, <3>1 DEF BookTypes
    <3>2. CASE p = Len(events) + 1
      BY <2>5, <2>7, <3>2
    <3> QED
      BY <2>7, <3>1, <3>2
  <2>9. BookTypes'
    BY <1>1, <1>2, <2>7, <2>8 DEF BookTypes
  <2>10. Projected'
    BY <1>2, <2>1 DEF Projected
  <2> QED
    BY <1>3, <1>4, <2>9, <2>10 DEF DeskInv
<1>6. CASE k.type # "paper_enter"
  <2>1. events' = events /\ positions' = positions
    BY <1>6 DEF DecisionAdd
  <2>2. BookTypes'
    BY <1>1, <1>2, <2>1 DEF BookTypes
  <2>3. Projected'
    BY <1>1, <1>2, <2>1 DEF Projected, Rebuilt
  <2> QED
    BY <1>3, <1>4, <2>2, <2>3 DEF DeskInv
<1> QED
  BY <1>5, <1>6

LEMMA SnapshotAddKeeps ==
    ASSUME DeskInv, NEW m \in Markets, NEW t \in 1..MaxSnapshots, NEW p \in Prices \cup {None},
           SnapshotAdd(m, t, p)
    PROVE  DeskInv'
<1>1. DecisionTypesOK /\ BookTypes /\ OneQuote /\ Projected
  BY DEF DeskInv
<1>2. /\ snapshots' = snapshots \cup {[market |-> m, captured |-> t, price |-> p]}
      /\ \A s \in snapshots : s.market = m => s.captured # t
      /\ UNCHANGED <<day, decisions, events, positions>>
  BY DEF SnapshotAdd, book
<1>3. [market |-> m, captured |-> t, price |-> p] \in Snapshot
  BY BoundFacts DEF Snapshot
<1>4. BookTypes' /\ DecisionTypesOK'
  BY <1>1, <1>2, <1>3 DEF BookTypes, DecisionTypesOK
<1>5. OneQuote'
  BY <1>1, <1>2 DEF OneQuote
<1>6. Projected'
  BY <1>1, <1>2 DEF Projected, Rebuilt
<1> QED
  BY <1>4, <1>5, <1>6 DEF DeskInv

LEMMA DeskStep == DeskInv /\ [Next]_vars => DeskInv'
<1> SUFFICES ASSUME DeskInv, [Next]_vars PROVE DeskInv'
  OBVIOUS
<1>1. DecisionTypesOK /\ BookTypes /\ OneQuote /\ Projected
  BY DEF DeskInv
<1>2. ASSUME UNCHANGED <<decisions, events, positions, snapshots>>, day' \in Nat
      PROVE  DeskInv'
  BY <1>1, <1>2 DEF DeskInv, DecisionTypesOK, BookTypes, OneQuote, Projected, Rebuilt
<1>3. day \in Nat
  BY <1>1 DEF DecisionTypesOK
<1>4. CASE \E k \in DecisionKinds : DecisionAdd(k)
  BY <1>4, DecisionAddKeeps
<1>5. CASE \E m \in Markets, t \in 1..MaxSnapshots, p \in Prices \cup {None} : SnapshotAdd(m, t, p)
  BY <1>5, SnapshotAddKeeps
<1>6. CASE RebuildProjections
  BY <1>1, <1>6 DEF RebuildProjections, DeskInv, DecisionTypesOK, BookTypes, OneQuote, Projected
<1>7. CASE \E m \in Markets : OutcomeAdd(m)
  BY <1>2, <1>3, <1>7 DEF OutcomeAdd, book
<1>8. CASE \E d \in DOMAIN decisions : Note(d)
  BY <1>2, <1>3, <1>8 DEF Note, book
<1>9. CASE Tick
  BY <1>2, <1>3, <1>9 DEF Tick, book
<1>10. CASE UNCHANGED vars
  BY <1>2, <1>3, <1>10 DEF vars
<1> QED
  BY <1>4, <1>5, <1>6, <1>7, <1>8, <1>9, <1>10 DEF Next
-----------------------------------------------------------------------------
(* Sums over finite sets.  A fold takes the elements in an order that CHOOSE     *)
(* picks; a sum may take away any element first (Adding), and by this it is      *)
(* known (SumsAreOne), grows by one element at a time (SumPlus), and does not    *)
(* depend on what is outside of the set (SumExt).                                *)

Pick(s) == CHOOSE x \in s : TRUE
Turn(it, h, s) == IF s = {} THEN 0 ELSE h[Pick(s)] + it[s \ {Pick(s)}]
IsFold(it, h, S) == it = [s \in SUBSET S |-> Turn(it, h, s)]
Small(S, k) == {s \in SUBSET S : Cardinality(s) <= k}
Adding(g, h, S) == \A s \in SUBSET S : /\ g[s] \in Int /\ (s = {} => g[s] = 0)
                                     /\ \A x \in s : g[s] = h[x] + g[s \ {x}]
Adds(v, h, S) == \E g : Adding(g, h, S) /\ v = g[S]

LEMMA PickIs == ASSUME NEW s, s # {} PROVE Pick(s) \in s
BY DEF Pick

LEMMA SubsetSizes ==
    ASSUME NEW S, IsFiniteSet(S), NEW s \in SUBSET S
    PROVE  /\ IsFiniteSet(s) /\ Cardinality(s) \in Nat /\ Cardinality(s) <= Cardinality(S)
           /\ Cardinality(s) = 0 <=> s = {}
           /\ \A x \in s : Cardinality(s \ {x}) = Cardinality(s) - 1 /\ s \ {x} \in SUBSET S
<1>1. IsFiniteSet(s) /\ Cardinality(s) <= Cardinality(S)
  BY FS_Subset
<1>2. Cardinality(s) \in Nat
  BY <1>1, FS_CardinalityType
<1>3. Cardinality(s) = 0 <=> s = {}
  BY <1>1, FS_EmptySet
<1>4. \A x \in s : Cardinality(s \ {x}) = Cardinality(s) - 1
  BY <1>1, FS_RemoveElement
<1> QED
  BY <1>1, <1>2, <1>3, <1>4

LEMMA FoldExists ==
    ASSUME NEW S, IsFiniteSet(S), NEW h
    PROVE  \E it : IsFold(it, h, S)
<1> DEFINE Part(it, k) == it = [s \in Small(S, k) |-> Turn(it, h, s)]
           Bad == {k \in Nat : ~ \E it : Part(it, k)}
<1>1. SUFFICES Bad = {}
  <2>1. Small(S, Cardinality(S)) = SUBSET S /\ Cardinality(S) \in Nat
    BY SubsetSizes, FS_CardinalityType DEF Small
  <2>2. Bad = {} => \E it : Part(it, Cardinality(S))
    BY <2>1
  <2>3. \A it : Part(it, Cardinality(S)) => IsFold(it, h, S)
    BY <2>1 DEF IsFold
  <2> QED
    BY <2>2, <2>3
<1>2. SUFFICES ASSUME Bad # {} PROVE FALSE
  OBVIOUS
<1>3. Bad \subseteq Nat
  OBVIOUS
<1>4. PICK least \in Bad : \A k \in Bad : least <= k
  BY <1>2, <1>3, LeastNatural
<1>5. least # 0
  <2> DEFINE it == [s \in Small(S, 0) |-> 0]
  <2>1. ASSUME NEW s \in Small(S, 0) PROVE s = {}
    <3>1. s \in SUBSET S /\ Cardinality(s) <= 0
      BY <2>1 DEF Small
    <3>2. Cardinality(s) = 0
      BY <3>1, SubsetSizes
    <3> QED
      BY <3>1, <3>2, SubsetSizes
  <2>2. \A s \in Small(S, 0) : Turn(it, h, s) = 0
    BY <2>1 DEF Turn
  <2>3. Part(it, 0)
    BY <2>2
  <2> HIDE DEF it
  <2> QED
    BY <2>3
<1> DEFINE m == least - 1
<1>6. m \in Nat /\ least = m + 1 /\ m \notin Bad
  BY <1>3, <1>4, <1>5
<1>7. PICK g : Part(g, m)
  BY <1>6
<1> HIDE DEF m
<1> DEFINE it == [s \in Small(S, m + 1) |-> Turn(g, h, s)]
<1>8. ASSUME NEW s \in Small(S, m + 1) PROVE it[s] = Turn(it, h, s)
  <2>1. it[s] = Turn(g, h, s)
    OBVIOUS
  <2>2. CASE s = {}
    BY <2>1, <2>2 DEF Turn
  <2>3. CASE s # {}
    <3> DEFINE t == s \ {Pick(s)}
    <3>1. s \in SUBSET S /\ Cardinality(s) <= m + 1 /\ Pick(s) \in s
      BY <2>3, PickIs DEF Small
    <3>2. Cardinality(t) = Cardinality(s) - 1 /\ t \in SUBSET S /\ Cardinality(s) \in Nat
      BY <3>1, SubsetSizes
    <3>3. t \in Small(S, m) /\ t \in Small(S, m + 1)
      BY <1>6, <3>1, <3>2 DEF Small
    <3> HIDE DEF t
    <3>4. g[t] = Turn(g, h, t)
      BY <1>7, <3>3
    <3>5. it[t] = Turn(g, h, t)
      BY <3>3
    <3> HIDE DEF it
    <3> QED
      BY <2>1, <2>3, <3>4, <3>5 DEF Turn, t
  <2> QED
    BY <2>2, <2>3
<1>9. it = [s \in Small(S, m + 1) |-> it[s]]
  OBVIOUS
<1> HIDE DEF it
<1>10. Part(it, m + 1)
  BY <1>8, <1>9
<1> QED
  BY <1>4, <1>6, <1>10

LEMMA FoldAdds ==
    ASSUME NEW S, IsFiniteSet(S), NEW h, \A x \in S : h[x] \in Int,
           NEW it, IsFold(it, h, S)
    PROVE  Adding(it, h, S)
<1> DEFINE Good(s) == it[s] \in Int /\ (s = {} => it[s] = 0) /\ \A x \in s : it[s] = h[x] + it[s \ {x}]
           Bad == {Cardinality(s) : s \in {t \in SUBSET S : ~Good(t)}}
<1>1. SUFFICES ASSUME Bad # {} PROVE FALSE
  BY DEF Adding
<1>2. Bad \subseteq Nat
  BY SubsetSizes
<1>3. PICK least \in Bad : \A k \in Bad : least <= k
  BY <1>1, <1>2, LeastNatural
<1>4. PICK s \in SUBSET S : ~Good(s) /\ Cardinality(s) = least
  BY <1>3
<1>5. ASSUME NEW t \in SUBSET S, Cardinality(t) < Cardinality(s) PROVE Good(t)
  <2> HIDE DEF Good
  <2>1. Cardinality(t) \in Nat /\ Cardinality(s) \in Nat
    BY SubsetSizes
  <2>2. ~Good(t) => Cardinality(t) \in Bad
    OBVIOUS
  <2>3. \A k \in Bad : Cardinality(s) <= k
    BY <1>3, <1>4
  <2> HIDE DEF Bad
  <2> QED
    BY <1>5, <2>1, <2>2, <2>3
<1>6. it[s] = Turn(it, h, s)
  BY DEF IsFold
<1>7. s # {}
  BY <1>4, <1>6 DEF Turn
<1> DEFINE c == Pick(s)
<1>8. c \in s /\ it[s] = h[c] + it[s \ {c}] /\ h[c] \in Int
  BY <1>6, <1>7, PickIs DEF Turn
<1>9. \A x \in s : s \ {x} \in SUBSET S /\ Cardinality(s \ {x}) < Cardinality(s)
  BY SubsetSizes
<1> HIDE DEF c
<1>10. \A x \in s : Good(s \ {x})
  BY <1>5, <1>9
<1>11. ASSUME NEW x \in s PROVE it[s] = h[x] + it[s \ {x}]
  <2>1. CASE x = c
    BY <1>8, <2>1
  <2>2. CASE x # c
    <3>1. it[s \ {c}] = h[x] + it[(s \ {c}) \ {x}] /\ it[s \ {x}] = h[c] + it[(s \ {x}) \ {c}]
      BY <1>8, <1>10, <2>2
    <3>2. (s \ {c}) \ {x} = (s \ {x}) \ {c}
      OBVIOUS
    <3> DEFINE u == (s \ {c}) \ {x}
    <3>3. it[u] \in Int
      <4>1. x \in s \ {c} /\ s \ {c} \in SUBSET S
        BY <1>8, <2>2
      <4>2. /\ Cardinality(s \ {c}) = Cardinality(s) - 1 /\ Cardinality(s) \in Nat
            /\ Cardinality(u) = Cardinality(s \ {c}) - 1 /\ u \in SUBSET S
        <5>1. Cardinality(s \ {c}) = Cardinality(s) - 1 /\ Cardinality(s) \in Nat
          BY <1>8, SubsetSizes
        <5> DEFINE r == s \ {c}
        <5>2. x \in r /\ r \in SUBSET S /\ u = r \ {x}
          BY <4>1
        <5> HIDE DEF r, u
        <5>3. Cardinality(u) = Cardinality(r) - 1 /\ u \in SUBSET S
          BY <5>2, SubsetSizes
        <5> QED
          BY <5>1, <5>3 DEF r
      <4>3. Cardinality(u) < Cardinality(s)
        BY <4>2
      <4> QED
        BY <1>5, <4>2, <4>3
    <3>4. h[x] \in Int
      OBVIOUS
    <3> HIDE DEF u
    <3>5. it[s \ {c}] = h[x] + it[u] /\ it[s \ {x}] = h[c] + it[u]
      BY <3>1, <3>2 DEF u
    <3> QED
      BY <1>8, <3>3, <3>4, <3>5
  <2> QED
    BY <2>1, <2>2
<1>12. it[s] \in Int
  <2>1. it[s \ {c}] \in Int
    BY <1>8, <1>10
  <2> QED
    BY <1>8, <2>1
<1> QED
  BY <1>4, <1>7, <1>11, <1>12

LEMMA SumExists ==
    ASSUME NEW S, IsFiniteSet(S), NEW h, \A x \in S : h[x] \in Int
    PROVE  \E g : Adding(g, h, S)
<1>1. PICK it : IsFold(it, h, S)
  BY FoldExists
<1>2. Adding(it, h, S)
  BY <1>1, FoldAdds
<1> QED
  BY <1>2

LEMMA SumsAreOne ==
    ASSUME NEW S, IsFiniteSet(S), NEW h, NEW v, NEW w, Adds(v, h, S), Adds(w, h, S)
    PROVE  v = w
<1>1. PICK g : Adding(g, h, S) /\ v = g[S]
  BY DEF Adds
<1>2. PICK k : Adding(k, h, S) /\ w = k[S]
  BY DEF Adds
<1> DEFINE Bad == {Cardinality(s) : s \in {t \in SUBSET S : g[t] # k[t]}}
<1>3. SUFFICES ASSUME Bad # {} PROVE FALSE
  BY <1>1, <1>2
<1>4. Bad \subseteq Nat
  BY SubsetSizes
<1>5. PICK least \in Bad : \A n \in Bad : least <= n
  BY <1>3, <1>4, LeastNatural
<1>6. PICK s \in SUBSET S : g[s] # k[s] /\ Cardinality(s) = least
  BY <1>5
<1>7. s # {}
  BY <1>1, <1>2, <1>6 DEF Adding
<1>8. PICK x \in s : TRUE
  BY <1>7
<1>9. s \ {x} \in SUBSET S /\ Cardinality(s \ {x}) = Cardinality(s) - 1 /\ Cardinality(s) \in Nat
  BY SubsetSizes
<1>10. g[s \ {x}] = k[s \ {x}]
  <2>1. g[s \ {x}] # k[s \ {x}] => Cardinality(s \ {x}) \in Bad
    BY <1>9
  <2> QED
    BY <1>5, <1>6, <1>9, <2>1
<1>11. g[s] = h[x] + g[s \ {x}] /\ k[s] = h[x] + k[s \ {x}]
  BY <1>1, <1>2, <1>8 DEF Adding
<1> QED
  BY <1>6, <1>10, <1>11

LEMMA SumExt ==
    ASSUME NEW S, NEW h, NEW k, \A x \in S : h[x] = k[x], NEW v, Adds(v, h, S)
    PROVE  Adds(v, k, S)
<1>1. PICK g : Adding(g, h, S) /\ v = g[S]
  BY DEF Adds
<1>2. Adding(g, k, S)
  BY <1>1 DEF Adding
<1> QED
  BY <1>1, <1>2 DEF Adds

LEMMA SumNothing == ASSUME NEW h PROVE Adds(0, h, {})
<1> DEFINE g == [s \in SUBSET {} |-> 0]
<1>1. Adding(g, h, {}) /\ g[{}] = 0
  BY DEF Adding
<1> HIDE DEF g
<1> QED
  BY <1>1 DEF Adds

LEMMA SumPlus ==
    ASSUME NEW S, IsFiniteSet(S), NEW h, NEW x, x \notin S, \A y \in S \cup {x} : h[y] \in Int,
           NEW v, Adds(v, h, S)
    PROVE  Adds(v + h[x], h, S \cup {x}) /\ v \in Int
<1> DEFINE T == S \cup {x}
<1>1. IsFiniteSet(T)
  BY FS_AddElement
<1>2. PICK g : Adding(g, h, T)
  BY <1>1, SumExists
<1>3. S \in SUBSET T /\ T \ {x} = S /\ x \in T
  OBVIOUS
<1> HIDE DEF T
<1>4. g[T] = h[x] + g[S] /\ g[S] \in Int
  BY <1>2, <1>3 DEF Adding
<1>5. Adding(g, h, S)
  BY <1>2, <1>3 DEF Adding
<1>6. v = g[S]
  BY <1>5, SumsAreOne DEF Adds
<1>7. v + h[x] = g[T]
  BY <1>3, <1>4, <1>6 DEF T
<1> QED
  BY <1>2, <1>4, <1>6, <1>7 DEF Adds, T
-----------------------------------------------------------------------------
(* Marks *)

QuotesOf(m, quoted) == {s \in quoted : s.market = m}
PricedOf(m, quoted) == {s \in quoted : s.market = m /\ s.price # None}

\* Among some quotes there is one that no other was captured after.
LEMMA LatestExists ==
    ASSUME NEW Q, Q \subseteq Snapshot, Q # {}
    PROVE  \E s \in Q : \A t \in Q : s.captured >= t.captured
<1> DEFINE times == {s.captured : s \in Q}
<1>1. \A s \in Q : s.captured \in 1..MaxSnapshots
  BY DEF Snapshot
<1>2. times \subseteq 0..MaxSnapshots /\ times # {} /\ MaxSnapshots \in Nat
  BY <1>1, BoundFacts
<1>3. PICK i \in times : \A j \in times : i >= j
  BY <1>2, Greatest
<1> QED
  BY <1>3

LEMMA LatestPriceIs ==
    ASSUME NEW m, NEW quoted, quoted \subseteq Snapshot
    PROVE  /\ PricedOf(m, quoted) = {} => LatestPrice(m, quoted) = None
           /\ PricedOf(m, quoted) # {} =>
                \E s \in PricedOf(m, quoted) :
                    /\ \A t \in PricedOf(m, quoted) : s.captured >= t.captured
                    /\ LatestPrice(m, quoted) = s.price /\ s.price \in 0..100
<1> DEFINE Q == PricedOf(m, quoted)
<1>1. Q = {s \in quoted : s.market = m /\ s.price # None}
  BY DEF PricedOf
<1>2. LatestPrice(m, quoted) = IF Q = {} THEN None
                               ELSE (CHOOSE s \in Q : \A t \in Q : s.captured >= t.captured).price
  BY <1>1 DEF LatestPrice
<1>3. Q \subseteq Snapshot /\ \A s \in Q : s.price \in 0..100
  BY <1>1 DEF Snapshot
<1> HIDE DEF Q
<1>4. Q # {} => \E s \in Q : /\ \A t \in Q : s.captured >= t.captured
                            /\ s = CHOOSE x \in Q : \A t \in Q : x.captured >= t.captured
  BY <1>3, LatestExists
<1> QED
  BY <1>2, <1>3, <1>4 DEF Q

\* While the latest quote of a market has a price, both queries find that one.
LEMMA QueriesAgree ==
    ASSUME DeskInv, NEW m, \A s \in LatestQuotes(m) : s.price # None
    PROVE  LET prices == {s.price : s \in LatestQuotes(m)} \ {None}
           IN /\ prices = {} => LatestPrice(m, snapshots) = None
              /\ prices # {} => prices = {LatestPrice(m, snapshots)} /\ LatestPrice(m, snapshots) # None
<1> DEFINE Q == QuotesOf(m, snapshots)
<1>1. /\ snapshots \subseteq Snapshot /\ Q \subseteq Snapshot
      /\ \A s, t \in Q : s.captured = t.captured => s = t
      /\ \A s \in Q : s.captured \in 1..MaxSnapshots
  BY DEF DeskInv, BookTypes, OneQuote, QuotesOf, Snapshot
<1>2. LatestQuotes(m) = {s \in Q : \A t \in Q : s.captured >= t.captured}
  BY DEF LatestQuotes, QuotesOf
<1>3. PricedOf(m, snapshots) = {s \in Q : s.price # None}
  BY DEF PricedOf, QuotesOf
<1> HIDE DEF Q
<1>4. CASE Q = {}
  BY <1>1, <1>2, <1>3, <1>4, LatestPriceIs
<1>5. CASE Q # {}
  <2>1. PICK s \in Q : \A t \in Q : s.captured >= t.captured
    BY <1>1, <1>5, LatestExists
  <2>2. LatestQuotes(m) = {s} /\ s.price # None
    BY <1>1, <1>2, <2>1, BoundFacts
  <2>3. s \in PricedOf(m, snapshots)
    BY <1>3, <2>2
  <2>4. PICK t \in PricedOf(m, snapshots) :
            /\ \A u \in PricedOf(m, snapshots) : t.captured >= u.captured
            /\ LatestPrice(m, snapshots) = t.price
    BY <1>1, <2>3, LatestPriceIs
  <2>5. t \in Q /\ t.captured = s.captured
    BY <1>1, <1>3, <2>1, <2>3, <2>4, BoundFacts
  <2>6. t = s
    BY <1>1, <2>5
  <2> QED
    BY <2>2, <2>4, <2>6
<1> QED
  BY <1>4, <1>5

\* What a row of the projection is.
LEMMA PositionIs ==
    ASSUME DeskInv, NEW p \in DOMAIN positions
    PROVE  LET e == events[p]  r == positions[p]
           IN /\ e \in Event /\ (e.side = "yes" => e.delta >= 0) /\ (e.side = "no" => e.delta <= 0)
              /\ r.market = e.market /\ r.side = e.side /\ r.quantity = e.delta
              /\ r.status = "open" <=> e.delta # 0
              /\ r.status = "open" => r.avg = e.price
              /\ r.unrealized # None => LatestPrice(e.market, snapshots) # None
<1>1. PICK quoted \in SUBSET snapshots : positions = Rebuilt(events, quoted)
  BY DEF DeskInv, Projected
<1>2. p \in DOMAIN events /\ positions[p] = Accumulate(events[p], quoted)
  BY <1>1 DEF Rebuilt
<1>3. events[p] \in Event /\ snapshots \subseteq Snapshot
      /\ (events[p].side = "yes" => events[p].delta >= 0) /\ (events[p].side = "no" => events[p].delta <= 0)
  BY <1>2 DEF DeskInv, BookTypes
<1>4. LatestPrice(events[p].market, quoted) # None => LatestPrice(events[p].market, snapshots) # None
  <2> DEFINE m == events[p].market
  <2>1. PricedOf(m, quoted) \subseteq PricedOf(m, snapshots)
    BY DEF PricedOf
  <2>2. LatestPrice(m, quoted) # None => PricedOf(m, quoted) # {}
    BY <1>3, LatestPriceIs
  <2>3. PricedOf(m, snapshots) # {} => LatestPrice(m, snapshots) # None
    BY <1>3, LatestPriceIs, BoundFacts
  <2> QED
    BY <2>1, <2>2, <2>3
<1> QED
  BY <1>2, <1>3, <1>4 DEF Accumulate

LEMMA SurfacesAgree == DeskInv => PnlSurfacesAgree
<1> SUFFICES ASSUME DeskInv PROVE PnlSurfacesAgree
  OBVIOUS
<1>1. ASSUME NEW p \in DOMAIN positions, \A s \in LatestQuotes(positions[p].market) : s.price # None
      PROVE  PnlMark(p) = ExposureMark(p)
  <2> DEFINE r == positions[p]
             mark == LatestPrice(r.market, snapshots)
             prices == {s.price : s \in LatestQuotes(r.market)} \ {None}
  <2>1. /\ prices = {} => mark = None
        /\ prices # {} => prices = {mark} /\ mark # None
    BY <1>1, QueriesAgree
  <2>2. PnlMark(p) = IF r.status = "open" /\ mark # None
                     THEN UnrealizedPnl(r.side, mark, r.avg, r.quantity) ELSE r.unrealized
    BY DEF PnlMark
  <2>3. ExposureMark(p) = IF r.status = "open" /\ prices # {}
                          THEN UnrealizedPnl(r.side, CHOOSE q \in prices : TRUE, r.avg, r.quantity)
                          ELSE r.unrealized
    BY DEF ExposureMark
  <2> HIDE DEF mark, prices, r
  <2>4. prices # {} => (CHOOSE q \in prices : TRUE) = mark
    BY <2>1
  <2> QED
    BY <2>1, <2>2, <2>3, <2>4
<1>2. ASSUME NEW p \in DOMAIN positions, NEW q \in DOMAIN positions,
             positions[p].market = positions[q].market,
             positions[p].side = "yes", positions[q].side = "no",
             positions[p].status = "open", positions[p].quantity = -positions[q].quantity,
             PnlMark(p) # None
      PROVE  PnlMark(p) + PnlMark(q)
               = positions[p].quantity * (100 - positions[p].avg - positions[q].avg)
  <2> DEFINE a == positions[p]
             b == positions[q]
             m == a.market
             mark == LatestPrice(m, snapshots)
             qty == a.quantity
  <2>1. /\ events[p] \in Event /\ (events[p].side = "yes" => events[p].delta >= 0)
        /\ a.market = events[p].market /\ a.side = events[p].side /\ a.quantity = events[p].delta
        /\ (a.status = "open" <=> events[p].delta # 0)
        /\ (a.status = "open" => a.avg = events[p].price)
        /\ (a.unrealized # None => LatestPrice(events[p].market, snapshots) # None)
    BY PositionIs
  <2>2. /\ events[q] \in Event /\ b.quantity = events[q].delta
        /\ (b.status = "open" <=> events[q].delta # 0)
        /\ (b.status = "open" => b.avg = events[q].price)
    BY PositionIs
  <2>3. /\ qty \in Int /\ qty > 0 /\ a.avg \in 0..100 /\ b.status = "open" /\ b.avg \in 0..100
        /\ b.quantity = -qty /\ b.quantity \in Int
    BY <1>2, <2>1, <2>2 DEF Event
  <2>4. mark # None
    BY <1>2, <2>1 DEF PnlMark
  <2>5. mark \in 0..100
    BY <2>4, LatestPriceIs DEF DeskInv, BookTypes
  <2>6. PnlMark(p) = (mark - a.avg) * qty
    BY <1>2, <2>4 DEF PnlMark, UnrealizedPnl
  <2>7. PnlMark(q) = (100 - mark - b.avg) * qty
    <3>1. PnlMark(q) = (100 - mark - b.avg) * (IF b.quantity < 0 THEN -b.quantity ELSE b.quantity)
      BY <1>2, <2>3, <2>4 DEF PnlMark, UnrealizedPnl
    <3>2. (IF b.quantity < 0 THEN -b.quantity ELSE b.quantity) = qty
      BY <2>3
    <3> QED
      BY <3>1, <3>2
  <2>8. \A u, v, w, x \in Int : (u - v) * x + (100 - u - w) * x = x * (100 - v - w)
    OBVIOUS
  <2>9. mark \in Int /\ a.avg \in Int /\ b.avg \in Int
    BY <2>3, <2>5
  <2> HIDE DEF mark, qty, a, b
  <2>10. (mark - a.avg) * qty + (100 - mark - b.avg) * qty = qty * (100 - a.avg - b.avg)
    BY <2>3, <2>8, <2>9
  <2> QED
    BY <2>6, <2>7, <2>10 DEF a, b, qty
<1> QED
  BY <1>1, <1>2 DEF PnlSurfacesAgree

\* Whatever was entered and marked in whatever order, the profit-and-loss and the
\* exposure reports agree on a position whose latest quote has a price, and a hedge is
\* worth what it cost (remark_open_positions, _unrealized_pnl).
THEOREM SurfacesAgreeAlways == Spec => []PnlSurfacesAgree
BY DeskInit, DeskStep, SurfacesAgree, PTL DEF Spec
-----------------------------------------------------------------------------
(* Exposure: what is held nets what was bought on either side *)

Deltas == [p \in DOMAIN events |-> events[p].delta]
Quantities == [d \in DOMAIN decisions |-> decisions[d].kind.quantity]
OpenedIn(m) == {p \in DOMAIN events : events[p].market = m /\ events[p].delta # 0}
EnteredIn(m, sides) == {d \in DOMAIN decisions :
    LET k == decisions[d].kind IN k.type = "paper_enter" /\ k.market = m /\ k.side \in sides}
LongSides == {"yes", "long", "pairs_long_short"}
ShortSides == {"no", "short"}
Nets(m) == \E held, long, short \in Int :
    /\ Adds(held, Deltas, OpenedIn(m)) /\ Adds(long, Quantities, EnteredIn(m, LongSides))
    /\ Adds(short, Quantities, EnteredIn(m, ShortSides)) /\ held = long - short

LEMMA NetsInit == Init => \A m \in Markets : Nets(m)
<1> SUFFICES ASSUME Init, NEW m \in Markets PROVE Nets(m)
  OBVIOUS
<1>1. OpenedIn(m) = {} /\ EnteredIn(m, LongSides) = {} /\ EnteredIn(m, ShortSides) = {}
  BY DEF Init, OpenedIn, EnteredIn
<1> QED
  BY <1>1, SumNothing DEF Nets

LEMMA SeqSubsets ==
    ASSUME DeskInv
    PROVE  /\ \A T \in SUBSET DOMAIN events : IsFiniteSet(T)
           /\ \A T \in SUBSET DOMAIN decisions : IsFiniteSet(T)
<1>1. DOMAIN events = 1..Len(events) /\ Len(events) \in Nat /\ DOMAIN decisions = 1..Len(decisions) /\ Len(decisions) \in Nat
  BY DEF DeskInv, DecisionTypesOK, BookTypes
<1>2. IsFiniteSet(1..Len(events)) /\ IsFiniteSet(1..Len(decisions))
  BY <1>1, FS_Interval
<1> QED
  BY <1>1, <1>2, FS_Subset

\* What is entered has a quantity.
LEMMA EnteredIs ==
    ASSUME DeskInv, NEW d \in DOMAIN decisions, decisions[d].kind.type = "paper_enter"
    PROVE  decisions[d].kind.quantity \in Nat
<1>1. decisions[d] \in Recorded
  BY DEF DeskInv, DecisionTypesOK
<1>2. decisions[d].kind \in DecisionKinds /\ Allowed(decisions[d].kind)
  BY <1>1 DEF Recorded
<1> QED
  BY <1>2, KindFacts DEF Allowed, Priced

\* One entry more: the three sums of its market grow by its quantity or not at all.
LEMMA NetsEnter ==
    ASSUME DeskInv, NEW k \in DecisionKinds, DecisionAdd(k), NEW m \in Markets, Nets(m)
    PROVE  Nets(m)'
<1>1. DeskInv'
  BY DecisionAddKeeps
<1>2. PICK held \in Int, long \in Int, short \in Int :
        /\ Adds(held, Deltas, OpenedIn(m)) /\ Adds(long, Quantities, EnteredIn(m, LongSides))
        /\ Adds(short, Quantities, EnteredIn(m, ShortSides)) /\ held = long - short
  BY DEF Nets
<1> DEFINE D == Len(decisions) + 1
           N == Len(events) + 1
<1>3. /\ decisions' = Append(decisions, [kind |-> k, created |-> day]) /\ Allowed(k)
      /\ decisions \in Seq(Recorded) /\ events \in Seq(Event)
  BY DEF DecisionAdd, RecordDecision, DeskInv, DecisionTypesOK, BookTypes
<1>4. /\ D \notin DOMAIN decisions /\ DOMAIN decisions' = DOMAIN decisions \cup {D} /\ decisions'[D].kind = k
      /\ \A d \in DOMAIN decisions : decisions'[d] = decisions[d]
  BY <1>3
<1>5. \A d \in DOMAIN decisions : Quantities'[d] = Quantities[d]
  BY <1>4 DEF Quantities
<1>6. Quantities'[D] = k.quantity
  BY <1>4 DEF Quantities
<1>7. \A sides : EnteredIn(m, sides)' = EnteredIn(m, sides)
                    \cup (IF k.type = "paper_enter" /\ k.market = m /\ k.side \in sides THEN {D} ELSE {})
  BY <1>4 DEF EnteredIn
<1>8. \A sides : EnteredIn(m, sides) \subseteq DOMAIN decisions
  BY DEF EnteredIn
<1> HIDE DEF D, N
<1>9. /\ Adds(long, Quantities', EnteredIn(m, LongSides)) /\ Adds(short, Quantities', EnteredIn(m, ShortSides))
  BY <1>2, <1>5, <1>8, SumExt
<1>10. CASE k.type # "paper_enter"
  <2>1. events' = events
    BY <1>10 DEF DecisionAdd
  <2>2. OpenedIn(m)' = OpenedIn(m) /\ Deltas' = Deltas
    BY <2>1 DEF OpenedIn, Deltas
  <2>3. \A sides : EnteredIn(m, sides)' = EnteredIn(m, sides)
    BY <1>7, <1>10
  <2>4. /\ Adds(held, Deltas', OpenedIn(m)') /\ Adds(long, Quantities', EnteredIn(m, LongSides)')
        /\ Adds(short, Quantities', EnteredIn(m, ShortSides)')
    BY <1>2, <1>9, <2>2, <2>3
  <2> QED
    BY <1>2, <2>4 DEF Nets
<1>11. CASE k.type = "paper_enter"
  <2> DEFINE opened == [market |-> k.market, side |-> k.side, price |-> k.price,
                        delta |-> SignedDelta(k), decision |-> Len(decisions) + 1]
  <2>1. events' = Append(events, opened) /\ k.side \in PositionSides /\ k.quantity \in Nat
    BY <1>3, <1>11, KindFacts DEF DecisionAdd, OpenPosition, Allowed, Priced
  <2>2. /\ N \notin DOMAIN events /\ DOMAIN events' = DOMAIN events \cup {N} /\ events'[N] = opened
        /\ \A p \in DOMAIN events : events'[p] = events[p]
    BY <1>3, <2>1 DEF N
  <2>3. opened.market = k.market /\ opened.delta = SignedDelta(k)
    OBVIOUS
  <2> HIDE DEF opened
  <2>4. (\A p \in DOMAIN events : Deltas'[p] = Deltas[p]) /\ Deltas'[N] = SignedDelta(k)
    BY <2>2, <2>3 DEF Deltas
  <2>5. OpenedIn(m)' = OpenedIn(m) \cup (IF k.market = m /\ SignedDelta(k) # 0 THEN {N} ELSE {})
    BY <2>2, <2>3 DEF OpenedIn
  <2>6. OpenedIn(m) \subseteq DOMAIN events
    BY DEF OpenedIn
  <2>7. Adds(held, Deltas', OpenedIn(m))
    BY <1>2, <2>4, <2>6, SumExt
  <2>8. \A p \in DOMAIN events : Deltas'[p] \in Int
    <3>1. \A p \in DOMAIN events : events[p] \in Event
      BY <1>3
    <3>2. \A p \in DOMAIN events : events[p].delta \in Int
      BY <3>1 DEF Event
    <3> QED
      BY <2>4, <3>2 DEF Deltas
  <2>9. SignedDelta(k) = (IF k.side \in ShortSides THEN -k.quantity ELSE k.quantity) /\ SignedDelta(k) \in Int
    BY <2>1 DEF SignedDelta, ShortSides
  <2>10. /\ k.side \in LongSides <=> k.side \notin ShortSides
    BY <2>1 DEF LongSides, ShortSides, PositionSides
  <2> DEFINE held2 == IF k.market = m THEN held + SignedDelta(k) ELSE held
             long2 == IF k.market = m /\ k.side \in LongSides THEN long + k.quantity ELSE long
             short2 == IF k.market = m /\ k.side \in ShortSides THEN short + k.quantity ELSE short
  <2>11. Adds(held2, Deltas', OpenedIn(m)')
    <3>1. CASE k.market = m /\ SignedDelta(k) # 0
      <4>1. IsFiniteSet(OpenedIn(m)) /\ N \notin OpenedIn(m) /\ \A y \in OpenedIn(m) \cup {N} : Deltas'[y] \in Int
        BY <2>2, <2>4, <2>6, <2>8, <2>9, SeqSubsets
      <4>2. Adds(held + Deltas'[N], Deltas', OpenedIn(m) \cup {N})
        BY <2>7, <4>1, SumPlus
      <4> QED
        BY <2>4, <2>5, <3>1, <4>2
    <3>2. CASE ~(k.market = m /\ SignedDelta(k) # 0)
      <4>1. held2 = held
        BY <2>9, <3>2
      <4> QED
        BY <2>5, <2>7, <3>2, <4>1
    <3> QED
      BY <3>1, <3>2
  <2>12. \A sides : IsFiniteSet(EnteredIn(m, sides)) /\ D \notin EnteredIn(m, sides)
    BY <1>4, <1>8, SeqSubsets
  <2>13. \A sides : \A y \in EnteredIn(m, sides) : Quantities'[y] \in Int
    <3> TAKE sides
    <3> TAKE y \in EnteredIn(m, sides)
    <3>1. y \in DOMAIN decisions /\ decisions[y].kind.type = "paper_enter"
      BY DEF EnteredIn
    <3>2. decisions[y].kind.quantity \in Nat /\ Quantities[y] = decisions[y].kind.quantity
      BY <3>1, EnteredIs DEF Quantities
    <3> QED
      BY <1>5, <3>1, <3>2
  <2>14. ASSUME NEW v \in Int, NEW sides, Adds(v, Quantities', EnteredIn(m, sides))
         PROVE  Adds(IF k.market = m /\ k.side \in sides THEN v + k.quantity ELSE v, Quantities', EnteredIn(m, sides)')
    <3>1. CASE k.market = m /\ k.side \in sides
      <4>1. \A y \in EnteredIn(m, sides) \cup {D} : Quantities'[y] \in Int
        BY <1>6, <2>1, <2>13
      <4>2. Adds(v + Quantities'[D], Quantities', EnteredIn(m, sides) \cup {D})
        BY <2>12, <2>14, <4>1, SumPlus
      <4> QED
        BY <1>6, <1>7, <1>11, <3>1, <4>2
    <3>2. CASE ~(k.market = m /\ k.side \in sides)
      <4>1. EnteredIn(m, sides)' = EnteredIn(m, sides) \cup {}
        BY <1>7, <3>2
      <4> QED
        BY <2>14, <3>2, <4>1
    <3> QED
      BY <3>1, <3>2
  <2>15. Adds(long2, Quantities', EnteredIn(m, LongSides)') /\ Adds(short2, Quantities', EnteredIn(m, ShortSides)')
    BY <1>9, <2>14
  <2>16. held2 = long2 - short2 /\ held2 \in Int /\ long2 \in Int /\ short2 \in Int
    BY <1>2, <2>1, <2>9, <2>10
  <2> HIDE DEF held2, long2, short2
  <2> QED
    BY <2>11, <2>15, <2>16 DEF Nets, LongSides, ShortSides
<1> QED
  BY <1>10, <1>11

LEMMA NetsStep ==
    ASSUME DeskInv, [Next]_vars, NEW m \in Markets, Nets(m)
    PROVE  Nets(m)'
<1>1. CASE UNCHANGED <<decisions, events>>
  <2>1. /\ Deltas' = Deltas /\ OpenedIn(m)' = OpenedIn(m) /\ Quantities' = Quantities
        /\ EnteredIn(m, LongSides)' = EnteredIn(m, LongSides) /\ EnteredIn(m, ShortSides)' = EnteredIn(m, ShortSides)
    BY <1>1 DEF Deltas, OpenedIn, Quantities, EnteredIn, LongSides, ShortSides
  <2> QED
    BY <2>1 DEF Nets
<1>2. CASE \E k \in DecisionKinds : DecisionAdd(k)
  BY <1>2, NetsEnter
<1> QED
  BY <1>1, <1>2 DEF Next, vars, book, SnapshotAdd, RebuildProjections, OutcomeAdd, Note, Tick

\* The two folds of the property.
Held(T) == MapThenSumSet(LAMBDA p : positions[p].quantity, T)
Bought(T) == MapThenSumSet(LAMBDA d : decisions[d].kind.quantity, T)

LEMMA HeldIs ==
    ASSUME NEW T, IsFiniteSet(T), \A p \in T : positions[p].quantity \in Int
    PROVE  Adds(Held(T), [p \in T |-> positions[p].quantity], T)
<1> DEFINE h == [p \in T |-> positions[p].quantity]
           Fold(it) == it = [s \in SUBSET T |-> IF s = {} THEN 0 ELSE
                               positions[CHOOSE x \in s : TRUE].quantity + it[s \ {CHOOSE x \in s : TRUE}]]
           f == CHOOSE it : Fold(it)
<1>1. Held(T) = f[T]
  BY DEF Held, MapThenSumSet, MapThenFoldSet
<1>2. \A x \in T : h[x] = positions[x].quantity
  OBVIOUS
<1> HIDE DEF h
<1>3. \A it : \A s \in SUBSET T : Turn(it, h, s) = IF s = {} THEN 0 ELSE
                               positions[CHOOSE x \in s : TRUE].quantity + it[s \ {CHOOSE x \in s : TRUE}]
  <2> TAKE it
  <2> TAKE s \in SUBSET T
  <2>1. s # {} => Pick(s) \in T
    BY PickIs
  <2> QED
    BY <1>2, <2>1 DEF Turn, Pick
<1>4. \A it : Fold(it) <=> IsFold(it, h, T)
  BY <1>3 DEF IsFold
<1>5. \E it : Fold(it)
  <2> HIDE DEF Fold
  <2> QED
    BY <1>4, FoldExists
<1>6. Fold(f)
  BY <1>5
<1> HIDE DEF f, Fold
<1>7. IsFold(f, h, T)
  BY <1>4, <1>6
<1>8. Adding(f, h, T)
  BY <1>2, <1>7, FoldAdds
<1> QED
  BY <1>1, <1>8 DEF Adds, h

LEMMA BoughtIs ==
    ASSUME NEW T, IsFiniteSet(T), \A d \in T : decisions[d].kind.quantity \in Int
    PROVE  Adds(Bought(T), [d \in T |-> decisions[d].kind.quantity], T)
<1> DEFINE h == [d \in T |-> decisions[d].kind.quantity]
           Fold(it) == it = [s \in SUBSET T |-> IF s = {} THEN 0 ELSE
                               decisions[CHOOSE x \in s : TRUE].kind.quantity + it[s \ {CHOOSE x \in s : TRUE}]]
           f == CHOOSE it : Fold(it)
<1>1. Bought(T) = f[T]
  BY DEF Bought, MapThenSumSet, MapThenFoldSet
<1>2. \A x \in T : h[x] = decisions[x].kind.quantity
  OBVIOUS
<1> HIDE DEF h
<1>3. \A it : \A s \in SUBSET T : Turn(it, h, s) = IF s = {} THEN 0 ELSE
                               decisions[CHOOSE x \in s : TRUE].kind.quantity + it[s \ {CHOOSE x \in s : TRUE}]
  <2> TAKE it
  <2> TAKE s \in SUBSET T
  <2>1. s # {} => Pick(s) \in T
    BY PickIs
  <2> QED
    BY <1>2, <2>1 DEF Turn, Pick
<1>4. \A it : Fold(it) <=> IsFold(it, h, T)
  BY <1>3 DEF IsFold
<1>5. \E it : Fold(it)
  <2> HIDE DEF Fold
  <2> QED
    BY <1>4, FoldExists
<1>6. Fold(f)
  BY <1>5
<1> HIDE DEF f, Fold
<1>7. IsFold(f, h, T)
  BY <1>4, <1>6
<1>8. Adding(f, h, T)
  BY <1>2, <1>7, FoldAdds
<1> QED
  BY <1>1, <1>8 DEF Adds, h

\* However often the positions are dropped and rebuilt, what is open in a market
\* adds up to the entries on its long side less those on its short side.
THEOREM ExposureAlwaysFollows == Spec => []ExposureFollowsEntries
<1>1. DeskInv /\ (\A m \in Markets : Nets(m)) => ExposureFollowsEntries
  <2> SUFFICES ASSUME DeskInv, NEW m \in Markets, Nets(m)
               PROVE  Held({p \in DOMAIN positions : positions[p].market = m /\ positions[p].status = "open"})
                        = Bought(EnteredIn(m, LongSides)) - Bought(EnteredIn(m, ShortSides))
    BY DEF ExposureFollowsEntries, Held, Bought, EnteredIn, LongSides, ShortSides
  <2> DEFINE Open == {p \in DOMAIN positions : positions[p].market = m /\ positions[p].status = "open"}
  <2>1. DOMAIN positions = DOMAIN events
    BY DEF DeskInv, Projected, Rebuilt
  <2>2. Open = OpenedIn(m) /\ \A p \in Open : positions[p].quantity = events[p].delta /\ events[p].delta \in Int
    BY <2>1, PositionIs DEF OpenedIn, Event
  <2>3. PICK held \in Int, long \in Int, short \in Int :
        /\ Adds(held, Deltas, OpenedIn(m)) /\ Adds(long, Quantities, EnteredIn(m, LongSides))
        /\ Adds(short, Quantities, EnteredIn(m, ShortSides)) /\ held = long - short
    BY DEF Nets
  <2>4. Open \subseteq DOMAIN events /\ IsFiniteSet(Open)
    BY <2>1, SeqSubsets
  <2> HIDE DEF Open
  <2>5. Held(Open) = held
    <3> DEFINE h == [p \in Open |-> positions[p].quantity]
    <3>1. \A p \in Open : h[p] = Deltas[p]
      BY <2>2, <2>4 DEF Deltas
    <3>2. Adds(Held(Open), h, Open)
      BY <2>2, <2>4, HeldIs
    <3> HIDE DEF h
    <3>3. Adds(Held(Open), Deltas, Open)
      BY <3>1, <3>2, SumExt
    <3> QED
      BY <2>2, <2>3, <2>4, <3>3, SumsAreOne
  <2>6. ASSUME NEW sides, NEW v, Adds(v, Quantities, EnteredIn(m, sides)) PROVE Bought(EnteredIn(m, sides)) = v
    <3> DEFINE T == EnteredIn(m, sides)
               h == [d \in T |-> decisions[d].kind.quantity]
    <3>1. T \subseteq DOMAIN decisions /\ \A d \in T : decisions[d].kind.type = "paper_enter"
      BY DEF EnteredIn
    <3>2. IsFiniteSet(T) /\ \A d \in T : decisions[d].kind.quantity \in Int
      BY <3>1, SeqSubsets, EnteredIs
    <3> HIDE DEF T
    <3>3. \A d \in T : h[d] = Quantities[d]
      BY <3>1 DEF Quantities
    <3>4. Adds(Bought(T), h, T)
      BY <3>2, BoughtIs
    <3> HIDE DEF h
    <3>5. Adds(Bought(T), Quantities, T)
      BY <3>3, <3>4, SumExt
    <3> QED
      BY <2>6, <3>2, <3>5, SumsAreOne DEF T
  <2>7. Bought(EnteredIn(m, LongSides)) = long /\ Bought(EnteredIn(m, ShortSides)) = short
    BY <2>3, <2>6
  <2> QED
    BY <2>3, <2>5, <2>7 DEF Open
<1>2. DeskInv /\ (\A m \in Markets : Nets(m)) /\ [Next]_vars => (DeskInv /\ \A m \in Markets : Nets(m))'
  BY DeskStep, NetsStep
<1> QED
  BY DeskInit, NetsInit, <1>1, <1>2, PTL DEF Spec

-----------------------------------------------------------------------------
(* Obligations *)

\* The lifecycle of a case is the first state that applies.
LEMMA FirstOf ==
    ASSUME NEW S, S \subseteq 1..11, 11 \in S
    PROVE  Min(S) \in S /\ \A j \in S : Min(S) <= j
<1>1. S \subseteq Nat /\ S # {}
  OBVIOUS
<1> QED
  BY <1>1, MinIsLeast

Applying(d) == {i \in 1..11 : Applies(LifecycleOrder[i], d)}
SettledPlaces == {1, 2, 3, 5, 6, 7, 10}

LEMMA LifecycleIs ==
    /\ DOMAIN LifecycleOrder = 1..11
    /\ \A i \in 1..11 : LifecycleOrder[i] \in Settled <=> i \in SettledPlaces
BY DEF LifecycleOrder, Settled, SettledPlaces

\* What has applied to a decision and settles it applies from then on; whether its
\* adherence is due never changes; and a closed kind is never pending or stale.
LEMMA SettledApplies ==
    ASSUME DeskInv, DeskInv', [Next]_vars, NEW d \in Cases
    PROVE  /\ d \in DOMAIN decisions'
           /\ \A i \in SettledPlaces : Applies(LifecycleOrder[i], d) => Applies(LifecycleOrder[i], d)'
           /\ Applies(LifecycleOrder[4], d)' => Applies(LifecycleOrder[4], d)
           /\ Applies(LifecycleOrder[10], d) =>
                ~Applies(LifecycleOrder[8], d)' /\ ~Applies(LifecycleOrder[9], d)'
           /\ Applies(LifecycleOrder[11], d) /\ Applies(LifecycleOrder[11], d)'
<1>1. decisions \in Seq(Recorded) /\ d \in 1..Len(decisions) /\ Len(decisions) \in Nat
  BY DEF DeskInv, DecisionTypesOK, Cases
<1>2. /\ superseded \subseteq superseded' /\ reflected \subseteq reflected' /\ adhered \subseteq adhered'
      /\ resolved \subseteq resolved'
      /\ decisions' = decisions \/ \E k \in DecisionKinds : decisions' = Append(decisions, [kind |-> k, created |-> day])
  BY DEF Next, vars, DecisionAdd, RecordDecision, SnapshotAdd, RebuildProjections, OutcomeAdd, Note, Link,
         Reflect, RecordAdherence, Tick, book, about
<1>3. /\ Len(decisions') \in Nat /\ Len(decisions) <= Len(decisions')
      /\ \A e \in 1..Len(decisions) : decisions'[e] = decisions[e]
      /\ DOMAIN decisions' = 1..Len(decisions')
  <2>1. CASE decisions' = decisions
    BY <1>1, <2>1
  <2>2. CASE \E k \in DecisionKinds : decisions' = Append(decisions, [kind |-> k, created |-> day])
    BY <1>1, <2>2
  <2> QED
    BY <1>2, <2>1, <2>2
<1>4. decisions'[d] = decisions[d] /\ d \in DOMAIN decisions'
  BY <1>1, <1>3
<1>5. LaterResolved(d) => LaterResolved(d)'
  <2> SUFFICES ASSUME LaterResolved(d) PROVE LaterResolved(d)'
    OBVIOUS
  <2>1. PICK e \in d + 1 .. Len(decisions) : /\ decisions[e].kind.type = "resolved"
                                            /\ decisions[e].kind.market = decisions[d].kind.market
    BY DEF LaterResolved
  <2>2. e \in 1..Len(decisions) /\ e \in d + 1 .. Len(decisions')
    BY <1>1, <1>3, <2>1
  <2>3. decisions'[e] = decisions[e]
    BY <1>3, <2>2
  <2> QED
    BY <1>4, <2>1, <2>2, <2>3 DEF LaterResolved
<1>6. Allowed(decisions[d].kind)
  <2>1. decisions[d] \in Recorded
    BY <1>1
  <2> QED
    BY <2>1 DEF Recorded
<1>7. \A i \in SettledPlaces : Applies(LifecycleOrder[i], d) => Applies(LifecycleOrder[i], d)'
  <2> TAKE i \in SettledPlaces
  <2>1. CASE i = 1
    BY <1>2, <2>1 DEF Applies, LifecycleOrder
  <2>2. CASE i = 2
    BY <1>2, <2>2 DEF Applies, LifecycleOrder
  <2>3. CASE i = 3
    BY <1>2, <1>4, <2>3 DEF Applies, LifecycleOrder
  <2>4. CASE i = 5
    BY <1>2, <1>4, <2>4 DEF Applies, LifecycleOrder
  <2>5. CASE i = 6
    BY <1>2, <1>4, <2>5 DEF Applies, LifecycleOrder
  <2>6. CASE i = 7
    BY <1>5, <2>6 DEF Applies, LifecycleOrder
  <2>7. CASE i = 10
    BY <1>4, <2>7 DEF Applies, LifecycleOrder
  <2> QED
    BY <2>1, <2>2, <2>3, <2>4, <2>5, <2>6, <2>7 DEF SettledPlaces
<1>8. Applies(LifecycleOrder[4], d)' => Applies(LifecycleOrder[4], d)
  BY <1>4 DEF Applies, LifecycleOrder
<1>9. Applies(LifecycleOrder[10], d) =>
        ~Applies(LifecycleOrder[8], d)' /\ ~Applies(LifecycleOrder[9], d)'
  BY <1>4, <1>6 DEF Applies, LifecycleOrder, Allowed
<1>10. Applies(LifecycleOrder[11], d) /\ Applies(LifecycleOrder[11], d)'
  BY DEF Applies, LifecycleOrder
<1> QED
  BY <1>4, <1>7, <1>8, <1>9, <1>10

LEMMA StaysSettled ==
    ASSUME DeskInv, DeskInv', [Next]_vars, NEW d \in Cases, Lifecycle(d) \in Settled
    PROVE  Lifecycle(d)' \in Settled
<1> DEFINE now == {i \in 1..11 : Applies(LifecycleOrder[i], d)}
           then == {i \in 1..11 : Applies(LifecycleOrder[i], d)'}
<1>1. Lifecycle(d) = LifecycleOrder[Min(now)] /\ Lifecycle(d)' = LifecycleOrder[Min(then)]
  BY LifecycleIs DEF Lifecycle
<1>2. /\ \A i \in SettledPlaces : i \in now => i \in then
      /\ 4 \in then => 4 \in now
      /\ 10 \in now => 8 \notin then /\ 9 \notin then
      /\ 11 \in now /\ 11 \in then
  BY SettledApplies DEF SettledPlaces
<1>3. now \subseteq 1..11 /\ then \subseteq 1..11
  OBVIOUS
<1> HIDE DEF now, then
<1>4. Min(now) \in now /\ \A j \in now : Min(now) <= j
  BY <1>2, <1>3, FirstOf
<1>5. Min(then) \in then /\ \A j \in then : Min(then) <= j
  BY <1>2, <1>3, FirstOf
<1>6. Min(now) \in SettledPlaces
  BY <1>1, <1>3, <1>4, LifecycleIs
<1>7. Min(then) <= Min(now) /\ Min(then) \in 1..11 /\ Min(now) \in 1..11
  BY <1>2, <1>3, <1>4, <1>5, <1>6
<1>8. Min(then) \in SettledPlaces
  <2>1. CASE Min(then) = 4
    BY <1>2, <1>4, <1>5, <1>6, <1>7, <2>1 DEF SettledPlaces
  <2>2. CASE Min(then) \in {8, 9}
    BY <1>2, <1>4, <1>5, <1>6, <1>7, <2>2 DEF SettledPlaces
  <2>3. CASE Min(then) = 11
    BY <1>6, <1>7, <2>3 DEF SettledPlaces
  <2>4. Min(then) \notin {4, 8, 9, 11} => Min(then) \in SettledPlaces
    BY <1>7 DEF SettledPlaces
  <2> QED
    BY <2>1, <2>2, <2>3, <2>4
<1> QED
  BY <1>1, <1>7, <1>8, LifecycleIs

\* No step makes a settled obligation an open one, for any decisions, notes and
\* outcomes, and however far the clock goes (_derive_decision_case).
THEOREM NeverReopensAlways == Spec => NeverReopens
<1>1. DeskInv /\ DeskInv' /\ [Next]_vars
        => [\A d \in Cases : Lifecycle(d) \in Settled => Lifecycle(d)' \in Settled]_vars
  BY StaysSettled
<1> QED
  BY DeskInit, DeskStep, <1>1, PTL DEF Spec, NeverReopens
-----------------------------------------------------------------------------
(* Keys, and rows in the order of their keys *)

LEMMA BelowIsStrict ==
    ASSUME NEW n \in Nat, NEW a \in [1..n -> Int], NEW b \in [1..n -> Int], NEW c \in [1..n -> Int]
    PROVE  /\ ~Below(a, a)
           /\ Below(a, b) /\ Below(b, c) => Below(a, c)
           /\ a = b \/ Below(a, b) \/ Below(b, a)
<1>1. ~Below(a, a)
  BY DEF Below
<1>2. ASSUME Below(a, b), Below(b, c) PROVE Below(a, c)
  <2>1. PICK i \in 1..n : a[i] < b[i] /\ \A j \in 1..i - 1 : a[j] = b[j]
    BY <1>2 DEF Below
  <2>2. PICK k \in 1..n : b[k] < c[k] /\ \A j \in 1..k - 1 : b[j] = c[j]
    BY <1>2 DEF Below
  <2>3. CASE i <= k
    <3>1. b[i] <= c[i]
      BY <2>2, <2>3
    <3>2. a[i] < c[i]
      BY <2>1, <3>1
    <3>3. \A j \in 1..i - 1 : a[j] = c[j]
      BY <2>1, <2>2, <2>3
    <3> QED
      BY <3>2, <3>3 DEF Below
  <2>4. CASE k < i
    <3>1. a[k] = b[k] /\ \A j \in 1..k - 1 : a[j] = c[j]
      BY <2>1, <2>2, <2>4
    <3>2. a[k] < c[k]
      BY <2>2, <3>1
    <3> QED
      BY <3>1, <3>2 DEF Below
  <2> QED
    BY <2>3, <2>4
<1>3. ASSUME a # b PROVE Below(a, b) \/ Below(b, a)
  <2> DEFINE D == {i \in 1..n : a[i] # b[i]}
  <2>1. D # {} /\ D \subseteq Nat
    <3>1. (\A i \in 1..n : a[i] = b[i]) => a = b
      OBVIOUS
    <3>2. \E i \in 1..n : a[i] # b[i]
      BY <1>3, <3>1
    <3>3. PICK i \in 1..n : a[i] # b[i]
      BY <3>2
    <3>4. i \in D
      BY <3>3
    <3>5. 1..n \subseteq Nat
      OBVIOUS
    <3> QED
      BY <3>4, <3>5
  <2>2. PICK i \in D : \A j \in D : i <= j
    BY <2>1, LeastNatural
  <2>3. i \in 1..n /\ a[i] # b[i] /\ \A j \in 1..i - 1 : a[j] = b[j]
    BY <2>2
  <2>4. a[i] < b[i] \/ b[i] < a[i]
    BY <2>3
  <2> QED
    BY <2>3, <2>4 DEF Below
<1> QED
  BY <1>1, <1>2, <1>3

Orderly(rows) ==
    /\ IsFiniteSet(rows)
    /\ \A r \in rows : r.key \in [1..4 -> Int] /\ r.order \in [1..3 -> Int]
    /\ \A r, s \in rows : r.key = s.key /\ r.order = s.order => r = s

LEMMA BeforeIsStrict ==
    ASSUME NEW rows, Orderly(rows), NEW r \in rows, NEW s \in rows, NEW t \in rows
    PROVE  /\ ~Before(r, r)
           /\ Before(r, s) /\ Before(s, t) => Before(r, t)
           /\ r = s \/ Before(r, s) \/ Before(s, r)
<1>1. /\ \A x \in rows : x.key \in [1..4 -> Int] /\ x.order \in [1..3 -> Int]
      /\ r.key = s.key /\ r.order = s.order => r = s
  BY DEF Orderly
<1>2. /\ ~Below(r.key, r.key) /\ (Below(r.key, s.key) /\ Below(s.key, t.key) => Below(r.key, t.key))
      /\ r.key = s.key \/ Below(r.key, s.key) \/ Below(s.key, r.key)
  <2>1. 4 \in Nat /\ r.key \in [1..4 -> Int] /\ s.key \in [1..4 -> Int] /\ t.key \in [1..4 -> Int]
    BY <1>1
  <2> QED
    BY <2>1, BelowIsStrict
<1>3. /\ ~Below(r.order, r.order) /\ (Below(r.order, s.order) /\ Below(s.order, t.order) => Below(r.order, t.order))
      /\ r.order = s.order \/ Below(r.order, s.order) \/ Below(s.order, r.order)
  <2>1. 3 \in Nat /\ r.order \in [1..3 -> Int] /\ s.order \in [1..3 -> Int] /\ t.order \in [1..3 -> Int]
    BY <1>1
  <2> QED
    BY <2>1, BelowIsStrict
<1> QED
  BY <1>1, <1>2, <1>3 DEF Before

\* A row's place counts the rows before it.
LEMMA PlaceCounts ==
    ASSUME NEW rows, Orderly(rows), NEW r \in rows
    PROVE  /\ Place(r, rows) \in Nat /\ Place(r, rows) < Cardinality(rows)
           /\ \A s \in rows : Before(r, s) => Place(r, rows) < Place(s, rows)
<1> DEFINE Prior(x) == {s \in rows : Before(s, x)}
<1>1. IsFiniteSet(rows) /\ Cardinality(rows) \in Nat
  BY FS_CardinalityType DEF Orderly
<1>2. ASSUME NEW S, S \subseteq rows, r \in S, Prior(r) \subseteq S, r \notin Prior(r)
      PROVE  Cardinality(Prior(r)) \in Nat /\ Cardinality(Prior(r)) < Cardinality(S)
  <2>1. IsFiniteSet(S) /\ IsFiniteSet(Prior(r))
    BY <1>1, <1>2, FS_Subset
  <2>2. Prior(r) \subseteq S /\ Prior(r) # S
    BY <1>2
  <2> HIDE DEF Prior
  <2>3. Cardinality(Prior(r)) <= Cardinality(S) /\ (Cardinality(Prior(r)) = Cardinality(S) => Prior(r) = S)
    BY <2>1, <2>2, FS_Subset
  <2>4. Cardinality(Prior(r)) \in Nat /\ Cardinality(S) \in Nat
    BY <2>1, FS_CardinalityType
  <2> QED
    BY <2>2, <2>3, <2>4
<1>3. r \notin Prior(r)
  BY BeforeIsStrict
<1>4. Place(r, rows) = Cardinality(Prior(r)) /\ \A s \in rows : Place(s, rows) = Cardinality(Prior(s))
  BY DEF Place
<1>5. ASSUME NEW s \in rows, Before(r, s)
      PROVE  Place(r, rows) < Place(s, rows)
  <2>1. Prior(s) \subseteq rows /\ r \in Prior(s) /\ Prior(r) \subseteq Prior(s)
    BY <1>5, BeforeIsStrict
  <2> QED
    BY <1>2, <1>3, <1>4, <2>1
<1>6. Place(r, rows) \in Nat /\ Place(r, rows) < Cardinality(rows)
  BY <1>2, <1>3, <1>4
<1> QED
  BY <1>5, <1>6

PageOf(rest) == {r \in rest : Place(r, rest) < PageSize}

\* A page has a last row; the rows that follow the page come after it; there is none
\* when as many rows are left as fit.
LEMMA PageIs ==
    ASSUME NEW rest, Orderly(rest)
    PROVE  /\ rest # {} => PageOf(rest) # {}
           /\ PageOf(rest) # {} => \E r \in PageOf(rest) : \A s \in PageOf(rest) : ~Before(r, s)
           /\ \A r \in PageOf(rest), s \in rest \ PageOf(rest) : Before(r, s)
           /\ Cardinality(rest) <= PageSize => PageOf(rest) = rest
<1>1. PageSize \in Nat /\ PageSize > 0
  BY WorkQueueAssumption
<1>2. /\ \A r \in rest : Place(r, rest) \in Nat /\ Place(r, rest) < Cardinality(rest)
      /\ \A r, s \in rest : Before(r, s) => Place(r, rest) < Place(s, rest)
  BY PlaceCounts
<1>3. Cardinality(rest) \in Nat
  BY FS_CardinalityType DEF Orderly
<1>4. ASSUME rest # {} PROVE PageOf(rest) # {}
  <2> DEFINE places == {Place(r, rest) : r \in rest}
  <2>1. places \subseteq Nat /\ places # {}
    BY <1>2, <1>4
  <2>2. PICK i \in places : \A j \in places : i <= j
    BY <2>1, LeastNatural
  <2>3. PICK r \in rest : i = Place(r, rest)
    BY <2>2
  <2>4. \A s \in rest : Place(r, rest) <= Place(s, rest)
    BY <2>2, <2>3
  <2>5. \A s \in rest : ~Before(s, r)
    BY <1>2, <2>4
  <2>6. {s \in rest : Before(s, r)} = {}
    BY <2>5
  <2>7. Place(r, rest) = 0
    BY <2>6, FS_EmptySet DEF Place
  <2> QED
    BY <1>1, <2>3, <2>7 DEF PageOf
<1>5. ASSUME PageOf(rest) # {}
      PROVE  \E r \in PageOf(rest) : \A s \in PageOf(rest) : ~Before(r, s)
  <2> DEFINE places == {Place(r, rest) : r \in PageOf(rest)}
  <2>1. \A r \in PageOf(rest) : r \in rest /\ Place(r, rest) \in 0..PageSize
    BY <1>1, <1>2 DEF PageOf
  <2>2. places \subseteq 0..PageSize /\ places # {}
    BY <1>5, <2>1
  <2>3. PICK i \in places : \A j \in places : i >= j
    BY <1>1, <2>2, Greatest
  <2>4. PICK r \in PageOf(rest) : i = Place(r, rest)
    BY <2>3
  <2>5. \A s \in PageOf(rest) : Place(r, rest) >= Place(s, rest)
    BY <2>3, <2>4
  <2>6. ASSUME NEW s \in PageOf(rest) PROVE ~Before(r, s)
    BY <1>2, <2>1, <2>5
  <2> QED
    BY <2>6
<1>6. ASSUME NEW r \in PageOf(rest), NEW s \in rest \ PageOf(rest)
      PROVE  Before(r, s)
  <2>1. r \in rest /\ s \in rest /\ Place(r, rest) < PageSize /\ ~(Place(s, rest) < PageSize)
    BY DEF PageOf
  <2>2. r # s /\ ~Before(s, r)
    BY <1>1, <1>2, <2>1
  <2> QED
    BY <2>1, <2>2, BeforeIsStrict
<1>7. ASSUME Cardinality(rest) <= PageSize PROVE PageOf(rest) = rest
  <2>1. \A r \in rest : Place(r, rest) < PageSize
    BY <1>1, <1>2, <1>3, <1>7
  <2> QED
    BY <2>1 DEF PageOf
<1> QED
  BY <1>4, <1>5, <1>6, <1>7
-----------------------------------------------------------------------------
(* What the queue is made of *)

ForecastRow == [market : Markets, due : Nat \cup {None}, created : Nat]
SourceTypes == forecasts \in Seq(ForecastRow) /\ linked \subseteq Nat \X Nat

LEMMA CaseFacts ==
    ASSUME DeskInv, SourceTypes
    PROVE  /\ IsFiniteSet(LifecycleCases)
           /\ \A c \in LifecycleCases :
                /\ c.due \in Nat \cup {None} /\ c.order \in [1..3 -> Int]
                /\ c.id[1] # "forecast" => c.id[2] \in Nat
                /\ c.id[1] = "forecast" => c.id[2] \in Nat
           /\ \A b, c \in LifecycleCases : b.order = c.order => b = c
<1> DEFINE OfDecision(d) == [id |-> <<"decision", d>>, state |-> Lifecycle(d), due |-> decisions[d].kind.reviewBy,
                             order |-> <<decisions[d].created, 0, d>>]
           OfForecast(f) == [id |-> <<"forecast", f>>, state |-> ForecastLifecycle(f), due |-> forecasts[f].due,
                             order |-> <<forecasts[f].created, 1, f>>]
           D == {OfDecision(d) : d \in Cases}
           F == {OfForecast(f) : f \in DOMAIN forecasts}
<1>1. LifecycleCases = D \cup F
  BY DEF LifecycleCases
<1>2. decisions \in Seq(Recorded) /\ Len(decisions) \in Nat /\ Cases \subseteq 1..Len(decisions)
  BY DEF DeskInv, DecisionTypesOK, Cases
<1>3. forecasts \in Seq(ForecastRow) /\ Len(forecasts) \in Nat /\ DOMAIN forecasts = 1..Len(forecasts)
  BY DEF SourceTypes
<1>4. \A d \in Cases : /\ d \in Nat /\ decisions[d].created \in Nat
                       /\ decisions[d].kind.reviewBy \in Nat \cup {None}
  <2> TAKE d \in Cases
  <2>1. d \in 1..Len(decisions) /\ decisions[d] \in Recorded
    BY <1>2
  <2>2. decisions[d].kind \in DecisionKinds
    BY <2>1 DEF Recorded
  <2>3. decisions[d].kind \in DecisionKind
    BY <2>2, KindFacts
  <2> QED
    BY <2>1, <2>3 DEF Recorded, DecisionKind
<1>5. \A f \in DOMAIN forecasts : f \in Nat /\ forecasts[f].created \in Nat /\ forecasts[f].due \in Nat \cup {None}
  <2> TAKE f \in DOMAIN forecasts
  <2>1. forecasts[f] \in ForecastRow
    BY <1>3
  <2> QED
    BY <1>3, <2>1 DEF ForecastRow
<1>6. IsFiniteSet(D) /\ IsFiniteSet(F)
  <2>1. IsFiniteSet(1..Len(decisions)) /\ IsFiniteSet(1..Len(forecasts))
    BY <1>2, <1>3, FS_Interval
  <2>2. IsFiniteSet(Cases)
    BY <1>2, <2>1, FS_Subset
  <2> DEFINE df == [d \in Cases |-> OfDecision(d)]
             ff == [f \in DOMAIN forecasts |-> OfForecast(f)]
  <2>3. D = {df[d] : d \in Cases} /\ df = [d \in Cases |-> df[d]]
    OBVIOUS
  <2>4. F = {ff[f] : f \in DOMAIN forecasts} /\ ff = [f \in DOMAIN forecasts |-> ff[f]]
    OBVIOUS
  <2> HIDE DEF df, ff, D, F
  <2>5. IsFiniteSet(D)
    BY <2>2, <2>3, ImageIsFinite
  <2>6. IsFiniteSet(F)
    BY <1>3, <2>1, <2>4, ImageIsFinite
  <2> QED
    BY <2>5, <2>6
<1>7. IsFiniteSet(LifecycleCases)
  BY <1>1, <1>6, FS_Union
<1>8. ASSUME NEW c \in LifecycleCases
      PROVE  \/ \E d \in Cases : c = OfDecision(d)
             \/ \E f \in DOMAIN forecasts : c = OfForecast(f)
  BY <1>1
<1>9. ASSUME NEW c \in LifecycleCases
      PROVE  /\ c.due \in Nat \cup {None} /\ c.order \in [1..3 -> Int] /\ c.id[2] \in Nat
  <2>1. CASE \E d \in Cases : c = OfDecision(d)
    <3>1. PICK d \in Cases : c = OfDecision(d)
      BY <2>1
    <3>2. c.due = decisions[d].kind.reviewBy /\ c.order = <<decisions[d].created, 0, d>> /\ c.id = <<"decision", d>>
      BY <3>1
    <3> QED
      BY <1>4, <3>2
  <2>2. CASE \E f \in DOMAIN forecasts : c = OfForecast(f)
    <3>1. PICK f \in DOMAIN forecasts : c = OfForecast(f)
      BY <2>2
    <3>2. c.due = forecasts[f].due /\ c.order = <<forecasts[f].created, 1, f>> /\ c.id = <<"forecast", f>>
      BY <3>1
    <3> QED
      BY <1>5, <3>2
  <2> QED
    BY <1>8, <2>1, <2>2
<1>10. ASSUME NEW b \in LifecycleCases, NEW c \in LifecycleCases, b.order = c.order
       PROVE  b = c
  <2>1. \A d \in Cases : OfDecision(d).order = <<decisions[d].created, 0, d>>
    OBVIOUS
  <2>2. \A f \in DOMAIN forecasts : OfForecast(f).order = <<forecasts[f].created, 1, f>>
    OBVIOUS
  <2> HIDE DEF OfDecision, OfForecast
  <2> QED
    BY <1>8, <1>10, <2>1, <2>2
<1> QED
  BY <1>7, <1>9, <1>10

LEMMA QueueIsOrderly ==
    ASSUME DeskInv, SourceTypes
    PROVE  Orderly(WorkItems)
<1> DEFINE Key(c) == <<Obliging[c.state], IF c.due = None THEN -1 ELSE c.due, ItemKind(c), Primary(c)>>
           Owed == {x \in LifecycleCases : x.state \in DOMAIN Obliging}
           Item(c) == [id |-> c.id, state |-> c.state, order |-> c.order, key |-> Key(c)]
<1>1. WorkItems = {Item(c) : c \in Owed}
  BY DEF WorkItems
<1>2. /\ IsFiniteSet(LifecycleCases)
      /\ \A c \in LifecycleCases : c.due \in Nat \cup {None} /\ c.order \in [1..3 -> Int] /\ c.id[2] \in Nat
      /\ \A b, c \in LifecycleCases : b.order = c.order => b = c
  BY CaseFacts
<1>3. ASSUME NEW c \in Owed PROVE Key(c) \in [1..4 -> Int]
  <2>1. c.state \in {"pending_review", "reflection_due", "stale", "adherence_due"}
    BY DEF Obliging
  <2>2. Obliging[c.state] \in Int
    BY <2>1 DEF Obliging
  <2>3. ItemKind(c) \in Int
    BY <2>1 DEF ItemKind
  <2>4. Primary(c) \in Int
    <3>1. c.id[2] \in Nat
      BY <1>2
    <3> DEFINE refs == {c.id[2]} \cup {e[1] : e \in {x \in linked : x[2] = c.id[2]}}
    <3>2. refs \subseteq Nat /\ refs # {}
      BY <3>1 DEF SourceTypes
    <3>3. Min(refs) \in Nat
      BY <3>2, MinIsLeast
    <3> QED
      BY <3>1, <3>3 DEF Primary
  <2>5. (IF c.due = None THEN -1 ELSE c.due) \in Int
    BY <1>2
  <2> QED
    BY <2>2, <2>3, <2>4, <2>5
<1> HIDE DEF Key
<1>4. \A c \in Owed : Item(c).key \in [1..4 -> Int] /\ Item(c).order \in [1..3 -> Int] /\ Item(c).order = c.order
  BY <1>2, <1>3
<1> HIDE DEF Item
<1>5. IsFiniteSet(WorkItems)
  <2>1. IsFiniteSet(Owed)
    BY <1>2, FS_Subset
  <2> HIDE DEF Owed
  <2> DEFINE items == [c \in Owed |-> Item(c)]
  <2>2. WorkItems = {items[c] : c \in Owed} /\ items = [c \in Owed |-> items[c]]
    BY <1>1
  <2> HIDE DEF items
  <2> QED
    BY <2>1, <2>2, ImageIsFinite
<1>6. ASSUME NEW r \in WorkItems, NEW s \in WorkItems, r.order = s.order
      PROVE  r = s
  <2>1. PICK b \in Owed, c \in Owed : r = Item(b) /\ s = Item(c)
    BY <1>1
  <2>2. b.order = c.order
    BY <1>4, <1>6, <2>1
  <2> QED
    BY <1>2, <2>1, <2>2
<1>7. \A r \in WorkItems : r.key \in [1..4 -> Int] /\ r.order \in [1..3 -> Int]
  BY <1>1, <1>4
<1> QED
  BY <1>5, <1>6, <1>7 DEF Orderly
-----------------------------------------------------------------------------
(* The invariant of the two readers *)

Pair(r) == <<r.id, r.key>>

\* A row that stayed was shown, or is still to come.
WalkIsOn ==
    walk # None =>
        /\ walk = [after |-> walk.after, shown |-> walk.shown, done |-> walk.done,
                   seen |-> walk.seen, stayed |-> walk.stayed]
        /\ walk.stayed \subseteq Staying(WorkItems)
        /\ \A r \in WorkItems : Pair(r) \in walk.stayed =>
             Pair(r) \in walk.seen \/ (~walk.done /\ (walk.after = << >> \/ Below(walk.after, r.key)))

Paired(queue, ideas) ==
    {<<o.id, o.state>> : o \in queue}
      = {<<c.id, c.state>> : c \in {x \in ideas : x.state \in DOMAIN Obliging}}

CutsShow(p) ==
    \A s \in DOMAIN p.sections :
        p.sections[s].shown < Cardinality(IF s = "obligations" THEN p.obligations ELSE p.ideas)
          => p.partial /\ p.sections[s].reason # "none"

PacketIsPinned ==
    packet # None =>
        /\ packet = [pinned |-> packet.pinned, step |-> packet.step, obligations |-> packet.obligations,
                     ideas |-> packet.ideas, sections |-> packet.sections, partial |-> packet.partial]
        /\ packet.step \in {"work", "lifecycle", "budget", "done"}
        /\ packet.step \in {"work", "lifecycle"} =>
             /\ Paired(packet.pinned.queue, Ideas(packet.pinned.cases))
             /\ IsFiniteSet(packet.pinned.queue) /\ IsFiniteSet(packet.pinned.cases)
        /\ packet.step = "lifecycle" => packet.obligations = packet.pinned.queue
        /\ packet.step \in {"budget", "done"} =>
             /\ Paired(packet.obligations, packet.ideas)
             /\ IsFiniteSet(packet.obligations) /\ IsFiniteSet(packet.ideas)
        /\ packet.step = "done" => CutsShow(packet)

QueueInv == DeskInv /\ SourceTypes /\ WalkIsOn /\ PacketIsPinned

LEMMA ItemsAreTheSame == UNCHANGED <<vars, sources>> => WorkItems' = WorkItems /\ LifecycleCases' = LifecycleCases
<1> SUFFICES ASSUME UNCHANGED <<vars, sources>>
             PROVE  WorkItems' = WorkItems /\ LifecycleCases' = LifecycleCases
  OBVIOUS
<1>1. UNCHANGED <<day, decisions, resolved, superseded, reflected, adhered, forecasts, scored, retired, linked>>
  BY DEF vars, sources
<1>2. \A d : LaterResolved(d)' = LaterResolved(d)
  BY <1>1 DEF LaterResolved
<1>3. \A s, d : Applies(s, d)' = Applies(s, d)
  BY <1>1, <1>2 DEF Applies
<1>4. \A d : Lifecycle(d)' = Lifecycle(d)
  BY <1>3 DEF Lifecycle
<1>5. \A f : ForecastLifecycle(f)' = ForecastLifecycle(f)
  BY <1>1 DEF ForecastLifecycle, DemonstrablyLive
<1>6. Cases' = Cases
  BY <1>1 DEF Cases
<1>7. LifecycleCases' = LifecycleCases
  BY <1>1, <1>4, <1>5, <1>6 DEF LifecycleCases
<1>8. \A c : Primary(c)' = Primary(c)
  BY <1>1 DEF Primary
<1>9. WorkItems' = WorkItems
  BY <1>7, <1>8 DEF WorkItems
<1> QED
  BY <1>7, <1>9

LEMMA StayingIs ==
    ASSUME NEW rows, NEW r \in rows, Pair(r) \in Staying(rows)
    PROVE  \A y \in rows : y.key = r.key => y = r
BY DEF Staying, Pair

LEMMA NextPageKeeps ==
    ASSUME DeskInv, SourceTypes, WalkIsOn, NextPage
    PROVE  WalkIsOn'
<1> DEFINE rest == Rest(WorkItems, walk)
           page == PageOf(rest)
           last == CHOOSE r \in page : \A s \in page : ~Before(r, s)
<1>1. /\ walk # None /\ ~walk.done
      /\ walk' = [walk EXCEPT !.seen = @ \cup {<<r.id, r.key>> : r \in page},
                             !.shown = @ + Cardinality(page),
                             !.after = IF page = {} THEN @ ELSE last.key,
                             !.done = Cardinality(rest) <= PageSize]
      /\ WorkItems' = WorkItems
  BY ItemsAreTheSame DEF NextPage, PageOf
<1>2. walk = [after |-> walk.after, shown |-> walk.shown, done |-> walk.done,
              seen |-> walk.seen, stayed |-> walk.stayed]
  BY <1>1 DEF WalkIsOn
<1>3. /\ walk' = [after |-> walk'.after, shown |-> walk'.shown, done |-> walk'.done,
                  seen |-> walk'.seen, stayed |-> walk'.stayed]
      /\ walk'.stayed = walk.stayed
      /\ walk'.seen = walk.seen \cup {<<r.id, r.key>> : r \in page}
      /\ page # {} => walk'.after = last.key
      /\ walk'.done = (Cardinality(rest) <= PageSize)
  BY <1>1, <1>2
<1>4. walk.stayed \subseteq Staying(WorkItems)
  BY <1>1 DEF WalkIsOn
<1>5. Orderly(rest)
  <2>1. Orderly(WorkItems) /\ rest \subseteq WorkItems
    BY QueueIsOrderly DEF Rest
  <2> HIDE DEF rest
  <2>2. IsFiniteSet(rest)
    BY <2>1, FS_Subset DEF Orderly
  <2> QED
    BY <2>1, <2>2 DEF Orderly
<1>6. rest = {r \in WorkItems : walk.after = << >> \/ Below(walk.after, r.key)}
  BY DEF Rest
<1> HIDE DEF rest
<1>7. /\ rest # {} => page # {}
      /\ page # {} => last \in page
      /\ \A r \in page, s \in rest \ page : Before(r, s)
      /\ Cardinality(rest) <= PageSize => page = rest
      /\ page \subseteq rest
  <2>1. /\ rest # {} => page # {}
        /\ page # {} => \E r \in page : \A s \in page : ~Before(r, s)
        /\ \A r \in page, s \in rest \ page : Before(r, s)
        /\ Cardinality(rest) <= PageSize => page = rest
    BY <1>5, PageIs
  <2>2. page \subseteq rest
    BY DEF PageOf
  <2> HIDE DEF page
  <2> QED
    BY <2>1, <2>2
<1> HIDE DEF page, last
<1>8. ASSUME NEW r \in WorkItems, Pair(r) \in walk.stayed
      PROVE  Pair(r) \in walk'.seen \/ (~walk'.done /\ (walk'.after = << >> \/ Below(walk'.after, r.key)))
  <2>1. CASE Pair(r) \in walk.seen
    BY <1>3, <2>1
  <2>2. CASE r \in page
    BY <1>3, <2>2 DEF Pair
  <2>3. CASE Pair(r) \notin walk.seen /\ r \notin page
    <3>1. walk.after = << >> \/ Below(walk.after, r.key)
      BY <1>1, <1>8, <2>3 DEF WalkIsOn
    <3>2. r \in rest
      BY <1>6, <3>1
    <3>3. page # {} /\ last \in page /\ Before(last, r)
      BY <1>7, <2>3, <3>2
    <3>4. ~(Cardinality(rest) <= PageSize)
      BY <1>7, <2>3, <3>2
    <3>5. last \in WorkItems /\ last # r
      BY <1>6, <1>7, <2>3, <3>3
    <3>6. last.key # r.key
      BY <1>4, <1>8, <3>5, StayingIs
    <3>7. Below(last.key, r.key)
      BY <3>3, <3>6 DEF Before
    <3> QED
      BY <1>3, <3>3, <3>4, <3>7
  <2> QED
    BY <2>1, <2>2, <2>3
<1> QED
  BY <1>1, <1>3, <1>4, <1>8 DEF WalkIsOn

LEMMA WatchKeeps ==
    ASSUME WalkIsOn, Watch
    PROVE  WalkIsOn'
<1> SUFFICES ASSUME walk # None PROVE WalkIsOn'
  BY DEF Watch, WalkIsOn
<1>1. walk = [after |-> walk.after, shown |-> walk.shown, done |-> walk.done,
              seen |-> walk.seen, stayed |-> walk.stayed]
  BY DEF WalkIsOn
<1>2. walk' = [walk EXCEPT !.stayed = @ \cap Staying(WorkItems')]
  BY DEF Watch, Staying
<1>3. /\ walk' = [after |-> walk'.after, shown |-> walk'.shown, done |-> walk'.done,
                  seen |-> walk'.seen, stayed |-> walk'.stayed]
      /\ walk'.stayed = walk.stayed \cap Staying(WorkItems')
      /\ walk'.seen = walk.seen /\ walk'.after = walk.after /\ walk'.done = walk.done
  BY <1>1, <1>2
<1>4. ASSUME NEW r \in WorkItems', Pair(r) \in walk'.stayed
      PROVE  Pair(r) \in walk.seen \/ (~walk.done /\ (walk.after = << >> \/ Below(walk.after, r.key)))
  <2>1. Pair(r) \in walk.stayed /\ Pair(r) \in Staying(WorkItems)
    BY <1>3, <1>4 DEF WalkIsOn
  <2>2. PICK x \in WorkItems : Pair(r) = <<x.id, x.key>>
    BY <2>1 DEF Staying
  <2>3. Pair(x) = Pair(r) /\ x.key = r.key
    BY <2>2 DEF Pair
  <2> QED
    BY <2>1, <2>3 DEF WalkIsOn
<1> QED
  BY <1>3, <1>4 DEF WalkIsOn, Pair, Staying
-----------------------------------------------------------------------------
(* The steps *)

LEMMA QueueInitKeeps == QueueInit => QueueInv
<1> SUFFICES ASSUME QueueInit PROVE QueueInv
  OBVIOUS
<1>1. DeskInv
  BY DeskInit DEF QueueInit
<1> QED
  BY <1>1 DEF QueueInit, QueueInv, SourceTypes, WalkIsOn, PacketIsPinned

LEMMA BeginWalkKeeps ==
    ASSUME BeginWalk
    PROVE  WalkIsOn'
<1>1. /\ walk' = [after |-> << >>, shown |-> 0, done |-> FALSE, seen |-> {}, stayed |-> Staying(WorkItems)]
      /\ WorkItems' = WorkItems
  BY ItemsAreTheSame DEF BeginWalk
<1>2. Staying(WorkItems)' = Staying(WorkItems)
  BY <1>1 DEF Staying
<1>3. /\ walk' = [after |-> walk'.after, shown |-> walk'.shown, done |-> walk'.done,
                  seen |-> walk'.seen, stayed |-> walk'.stayed]
      /\ walk'.stayed = Staying(WorkItems) /\ walk'.after = << >> /\ ~walk'.done
  BY <1>1
<1> QED
  BY <1>2, <1>3 DEF WalkIsOn

\* The walk does not move while a packet is made.
LEMMA StandingWalk ==
    ASSUME WalkIsOn, UNCHANGED <<vars, sources, walk>>
    PROVE  WalkIsOn'
<1>1. WorkItems' = WorkItems /\ walk' = walk
  BY ItemsAreTheSame
<1>2. Staying(WorkItems)' = Staying(WorkItems)
  BY <1>1 DEF Staying
<1> QED
  BY <1>1, <1>2 DEF WalkIsOn, Pair

\* In one state, the obligations are about the ideas that oblige.
LEMMA OneStateIsPaired == Paired(WorkItems, Ideas(LifecycleCases))
<1> DEFINE Owed == {x \in LifecycleCases : x.state \in DOMAIN Obliging}
           Key(c) == <<Obliging[c.state], IF c.due = None THEN -1 ELSE c.due, ItemKind(c), Primary(c)>>
           Item(c) == [id |-> c.id, state |-> c.state, order |-> c.order, key |-> Key(c)]
<1>1. WorkItems = {Item(c) : c \in Owed}
  BY DEF WorkItems
<1>2. {x \in Ideas(LifecycleCases) : x.state \in DOMAIN Obliging} = Owed
  BY DEF Ideas, Obliging
<1>3. \A c \in Owed : Item(c).id = c.id /\ Item(c).state = c.state
  OBVIOUS
<1> HIDE DEF Item, Owed
<1>4. {<<o.id, o.state>> : o \in WorkItems} = {<<c.id, c.state>> : c \in Owed}
  BY <1>1, <1>3
<1> QED
  BY <1>2, <1>4 DEF Paired

LEMMA BeginPacketKeeps ==
    ASSUME DeskInv, SourceTypes, BeginPacket
    PROVE  PacketIsPinned'
<1>1. packet' = [pinned |-> [queue |-> WorkItems, cases |-> LifecycleCases],
                 step |-> "work", obligations |-> {}, ideas |-> {},
                 sections |-> << >>, partial |-> FALSE]
  BY DEF BeginPacket
<1>2. IsFiniteSet(WorkItems) /\ IsFiniteSet(LifecycleCases)
  BY QueueIsOrderly, CaseFacts DEF Orderly
<1>3. Paired(WorkItems, Ideas(LifecycleCases))
  BY OneStateIsPaired
<1> DEFINE p == packet'
<1>4. /\ p = [pinned |-> p.pinned, step |-> p.step, obligations |-> p.obligations,
              ideas |-> p.ideas, sections |-> p.sections, partial |-> p.partial]
      /\ p.step = "work" /\ p.pinned.queue = WorkItems /\ p.pinned.cases = LifecycleCases
  BY <1>1
<1> QED
  BY <1>2, <1>3, <1>4 DEF PacketIsPinned

LEMMA PacketWorkKeeps ==
    ASSUME PacketIsPinned, PacketWork
    PROVE  PacketIsPinned'
<1> DEFINE p == packet'
<1>1. /\ packet # None /\ packet.step = "work"
      /\ p = [packet EXCEPT !.step = "lifecycle", !.obligations = packet.pinned.queue]
      /\ packet = [pinned |-> packet.pinned, step |-> packet.step, obligations |-> packet.obligations,
                   ideas |-> packet.ideas, sections |-> packet.sections, partial |-> packet.partial]
      /\ Paired(packet.pinned.queue, Ideas(packet.pinned.cases))
      /\ IsFiniteSet(packet.pinned.queue) /\ IsFiniteSet(packet.pinned.cases)
  BY DEF PacketWork, PacketIsPinned
<1>2. /\ p = [pinned |-> p.pinned, step |-> p.step, obligations |-> p.obligations,
              ideas |-> p.ideas, sections |-> p.sections, partial |-> p.partial]
      /\ p.step = "lifecycle" /\ p.pinned = packet.pinned /\ p.obligations = packet.pinned.queue
  BY <1>1
<1> QED
  BY <1>1, <1>2 DEF PacketIsPinned

LEMMA PacketLifecycleKeeps ==
    ASSUME PacketIsPinned, PacketLifecycle
    PROVE  PacketIsPinned'
<1> DEFINE p == packet'
<1>1. /\ packet # None /\ packet.step = "lifecycle"
      /\ p = [packet EXCEPT !.step = "budget", !.ideas = Ideas(packet.pinned.cases)]
      /\ packet = [pinned |-> packet.pinned, step |-> packet.step, obligations |-> packet.obligations,
                   ideas |-> packet.ideas, sections |-> packet.sections, partial |-> packet.partial]
      /\ Paired(packet.pinned.queue, Ideas(packet.pinned.cases))
      /\ IsFiniteSet(packet.pinned.queue) /\ IsFiniteSet(packet.pinned.cases)
      /\ packet.obligations = packet.pinned.queue
  BY DEF PacketLifecycle, PacketIsPinned
<1>2. /\ p = [pinned |-> p.pinned, step |-> p.step, obligations |-> p.obligations,
              ideas |-> p.ideas, sections |-> p.sections, partial |-> p.partial]
      /\ p.step = "budget" /\ p.ideas = Ideas(packet.pinned.cases) /\ p.obligations = packet.pinned.queue
  BY <1>1
<1>3. IsFiniteSet(Ideas(packet.pinned.cases))
  BY <1>1, FS_Subset DEF Ideas
<1> QED
  BY <1>1, <1>2, <1>3 DEF PacketIsPinned

\* A section that shows less than there is says so, and so does the packet.
LEMMA SectionTells ==
    ASSUME NEW rows, IsFiniteSet(rows), NEW s, NEW b \in Budget,
           Enforced(ApplyBudget(rows, s, b), s, b).shown < Cardinality(rows)
    PROVE  /\ Enforced(ApplyBudget(rows, s, b), s, b).reason # "none"
           /\ b.pruned > 0 \/ ApplyBudget(rows, s, b).reason # "none"
<1> DEFINE cut == ApplyBudget(rows, s, b)
<1>1. Cardinality(rows) \in Nat
  BY FS_CardinalityType
<1>2. b.items \in Nat /\ b.pruned \in 0..2
  BY DEF Budget
<1>3. cut.shown < Cardinality(rows) => cut.reason # "none"
  BY <1>1, <1>2 DEF ApplyBudget
<1> HIDE DEF cut
<1>4. \/ /\ s \in {PruneOrder[i] : i \in 1..b.pruned}
         /\ Enforced(cut, s, b).reason = "max_total_chars"
      \/ Enforced(cut, s, b) = cut
  BY DEF Enforced
<1>5. s \in {PruneOrder[i] : i \in 1..b.pruned} => b.pruned > 0
  BY <1>2
<1> QED
  BY <1>3, <1>4, <1>5 DEF cut

LEMMA PacketBudgetKeeps ==
    ASSUME PacketIsPinned, NEW b \in Budgets, PacketBudget(b)
    PROVE  PacketIsPinned'
<1> DEFINE p == packet'
           rows == [obligations |-> packet.obligations, active_ideas |-> packet.ideas]
           cut == [s \in Sections |-> ApplyBudget(rows[s], s, b)]
<1>1. /\ packet # None /\ packet.step = "budget"
      /\ p = [packet EXCEPT !.step = "done", !.pinned = << >>,
                 !.sections = [s \in Sections |-> Enforced(cut[s], s, b)],
                 !.partial = b.pruned > 0 \/ \E s \in Sections : cut[s].reason # "none"]
      /\ packet = [pinned |-> packet.pinned, step |-> packet.step, obligations |-> packet.obligations,
                   ideas |-> packet.ideas, sections |-> packet.sections, partial |-> packet.partial]
      /\ Paired(packet.obligations, packet.ideas)
      /\ IsFiniteSet(packet.obligations) /\ IsFiniteSet(packet.ideas)
  BY DEF PacketBudget, PacketIsPinned
<1>2. /\ p = [pinned |-> p.pinned, step |-> p.step, obligations |-> p.obligations,
              ideas |-> p.ideas, sections |-> p.sections, partial |-> p.partial]
      /\ p.step = "done" /\ p.ideas = packet.ideas /\ p.obligations = packet.obligations
      /\ p.sections = [s \in Sections |-> Enforced(cut[s], s, b)]
      /\ p.partial = (b.pruned > 0 \/ \E s \in Sections : cut[s].reason # "none")
  BY <1>1
<1>3. b \in Budget
  BY WorkQueueAssumption
<1>4. ASSUME NEW s \in DOMAIN p.sections,
             p.sections[s].shown < Cardinality(IF s = "obligations" THEN p.obligations ELSE p.ideas)
      PROVE  p.partial /\ p.sections[s].reason # "none"
  <2>1. s \in Sections
    BY <1>2
  <2>2. rows[s] = IF s = "obligations" THEN packet.obligations ELSE packet.ideas
    BY <2>1 DEF Sections
  <2>3. IsFiniteSet(rows[s])
    BY <1>1, <2>2
  <2>4. p.sections[s] = Enforced(ApplyBudget(rows[s], s, b), s, b) /\ cut[s] = ApplyBudget(rows[s], s, b)
    BY <1>2, <2>1
  <2>5. Enforced(ApplyBudget(rows[s], s, b), s, b).shown < Cardinality(rows[s])
    BY <1>2, <1>4, <2>2, <2>4
  <2>6. /\ Enforced(ApplyBudget(rows[s], s, b), s, b).reason # "none"
        /\ b.pruned > 0 \/ ApplyBudget(rows[s], s, b).reason # "none"
    BY <1>3, <2>3, <2>5, SectionTells
  <2> QED
    BY <1>2, <2>1, <2>4, <2>6
<1>5. CutsShow(p)
  BY <1>4 DEF CutsShow
<1> QED
  BY <1>1, <1>2, <1>5 DEF PacketIsPinned, CutsShow

LEMMA InsertForecastKeeps ==
    ASSUME DeskInv, SourceTypes, NEW k \in ForecastKinds, InsertForecast(k)
    PROVE  SourceTypes' /\ UNCHANGED vars
<1>1. k \in ForecastKind
  BY WorkQueueAssumption
<1>2. [market |-> k.market, due |-> k.due, created |-> day] \in ForecastRow
  BY <1>1 DEF ForecastRow, ForecastKind, DeskInv, DecisionTypesOK
<1>3. forecasts' \in Seq(ForecastRow)
  BY <1>2 DEF InsertForecast, SourceTypes
<1> QED
  BY <1>3 DEF InsertForecast, SourceTypes

LEMMA MovesKeep ==
    ASSUME DeskInv, SourceTypes, Moves
    PROVE  DeskInv' /\ SourceTypes'
<1>1. CASE /\ (\E k \in DecisionKinds : DecisionAdd(k)) \/ (\E d \in DOMAIN decisions : Note(d)) \/ Tick
           /\ UNCHANGED sources
  <2>1. Next
    BY <1>1 DEF Next
  <2>2. SourceTypes'
    BY <1>1 DEF sources, SourceTypes
  <2> QED
    BY <2>1, <2>2, DeskStep
<1>2. CASE \E k \in ForecastKinds : ForecastAdd(k) \/ \E f \in DOMAIN forecasts : ForecastSupersede(f, k)
  <2>1. PICK k \in ForecastKinds : InsertForecast(k)
    BY <1>2 DEF ForecastAdd, ForecastSupersede
  <2> QED
    BY <2>1, InsertForecastKeeps, DeskStep
<1>3. CASE \E m \in Markets, final \in BOOLEAN : ResolutionAdd(m, final)
  <2>1. Next
    BY <1>3 DEF ResolutionAdd, Next
  <2>2. SourceTypes'
    BY <1>3 DEF ResolutionAdd, SourceTypes
  <2> QED
    BY <2>1, <2>2, DeskStep
<1>4. CASE \E a, b \in DOMAIN decisions : a # b /\ LinkDecisions(a, b)
  <2>1. PICK a \in DOMAIN decisions, b \in DOMAIN decisions : LinkDecisions(a, b)
    BY <1>4
  <2>2. a \in Nat /\ b \in Nat
    BY DEF DeskInv, DecisionTypesOK
  <2>3. SourceTypes'
    BY <2>1, <2>2 DEF LinkDecisions, SourceTypes
  <2>4. DeskInv'
    BY <2>1 DEF LinkDecisions, book, DeskInv, DecisionTypesOK, BookTypes, OneQuote, Projected, Rebuilt
  <2> QED
    BY <2>3, <2>4
<1> QED
  BY <1>1, <1>2, <1>3, <1>4 DEF Moves

LEMMA QueueStep == QueueInv /\ [QueueNext]_queueVars => QueueInv'
<1> SUFFICES ASSUME QueueInv, [QueueNext]_queueVars PROVE QueueInv'
  OBVIOUS
<1> USE DEF QueueInv
<1>1. ASSUME UNCHANGED <<vars, sources>>
      PROVE  DeskInv' /\ SourceTypes'
  BY <1>1, DeskStep DEF sources, SourceTypes
<1>2. ASSUME UNCHANGED packet
      PROVE  PacketIsPinned'
  BY <1>2 DEF PacketIsPinned
<1>3. CASE Moves /\ Watch /\ UNCHANGED <<packet, calls>>
  BY <1>2, <1>3, MovesKeep, WatchKeeps
<1>4. CASE BeginWalk
  BY <1>1, <1>2, <1>4, BeginWalkKeeps DEF BeginWalk
<1>5. CASE NextPage
  BY <1>1, <1>2, <1>5, NextPageKeeps DEF NextPage
<1>6. CASE BeginPacket
  BY <1>1, <1>6, BeginPacketKeeps, StandingWalk DEF BeginPacket
<1>7. CASE PacketWork
  BY <1>1, <1>7, PacketWorkKeeps, StandingWalk DEF PacketWork
<1>8. CASE PacketLifecycle
  BY <1>1, <1>8, PacketLifecycleKeeps, StandingWalk DEF PacketLifecycle
<1>9. CASE \E b \in Budgets : PacketBudget(b)
  BY <1>1, <1>9, PacketBudgetKeeps, StandingWalk DEF PacketBudget
<1>10. CASE UNCHANGED queueVars
  BY <1>1, <1>2, <1>10, StandingWalk DEF queueVars, readers
<1> QED
  BY <1>3, <1>4, <1>5, <1>6, <1>7, <1>8, <1>9, <1>10 DEF QueueNext

LEMMA QueueIsInvariant == QueueSpec => []QueueInv
BY QueueInitKeeps, QueueStep, PTL DEF QueueSpec

\* A walk through the pages of report.work_queue misses no row that stayed, for
\* every page size, whatever was written between the pages.
THEOREM WalkMissesNothing == QueueSpec => []WalkShowsWhatStays
<1>1. QueueInv => WalkShowsWhatStays
  <2> SUFFICES ASSUME QueueInv, walk # None, walk.done, NEW p \in walk.stayed
               PROVE  p \in walk.seen
    BY DEF WalkShowsWhatStays
  <2>1. p \in Staying(WorkItems)
    BY DEF QueueInv, WalkIsOn
  <2>2. PICK r \in WorkItems : p = Pair(r)
    BY <2>1 DEF Staying, Pair
  <2> QED
    BY <2>2 DEF QueueInv, WalkIsOn
<1> QED
  BY <1>1, QueueIsInvariant, PTL

\* A packet of report.bootstrap is of one moment and tells what it leaves out, for
\* every budget, whatever was committed while it was made.
THEOREM PacketsAreOfOneMoment == QueueSpec => []PacketIsOneMoment
<1>1. QueueInv => PacketIsOneMoment
  BY DEF QueueInv, PacketIsPinned, PacketIsOneMoment, Paired, CutsShow
<1> QED
  BY <1>1, QueueIsInvariant, PTL
=============================================================================
