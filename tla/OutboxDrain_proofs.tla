------------------------- MODULE OutboxDrain_proofs --------------------------
(***************************************************************************)
(* Proofs about export.drain, for any number of events, drains and         *)
(* unreadable payloads, and about the two tools that import, for any calls,  *)
(* files, processes and other writers.                                     *)
(***************************************************************************)
EXTENDS OutboxDrain, Imports, FiniteSetTheorems, WellFoundedInduction, TLAPS

-----------------------------------------------------------------------------
(* Lemmas about the operators. *)

\* Induction over the naturals, with a set where the theorems of
\* NaturalsInduction have an operator.
LEMMA LeastNatural ==
    ASSUME NEW T, T \subseteq Nat, T # {}
    PROVE  \E n \in T : \A m \in T : n <= m
<1> DEFINE R == {p \in Nat \X Nat : p[1] < p[2]}
<1>1. R = OpToRel(<, Nat)
  BY DEF OpToRel
<1>2. IsWellFoundedOn(R, Nat)
  BY <1>1, NatLessThanWellFounded
<1>3. \E n \in T : \A m \in T : <<m, n>> \notin R
  BY <1>2, WFMin
<1>4. \A n \in T, m \in T : <<m, n>> \notin R => n <= m
  OBVIOUS
<1> QED
  BY <1>3, <1>4

LEMMA EventsAreFinite ==
    ASSUME NEW S, S \subseteq Events
    PROVE  S \subseteq Nat /\ IsFiniteSet(S) /\ Cardinality(S) \in Nat
<1>1. NumEvents \in Nat
  BY OutboxAssumption
<1>2. IsFiniteSet(Events)
  BY <1>1, FS_Interval DEF Events
<1>3. IsFiniteSet(S)
  BY <1>2, FS_Subset
<1> QED
  BY <1>1, <1>3, FS_CardinalityType DEF Events

LEMMA LastEvent ==
    ASSUME NEW S, S \subseteq Events, S # {}
    PROVE  \E x \in S : \A y \in S : y <= x
<1> DEFINE T == {NumEvents - y : y \in S}
<1>1. NumEvents \in Nat /\ \A y \in S : y \in Nat /\ NumEvents - y \in Nat
  BY OutboxAssumption DEF Events
<1>2. PICK n \in T : \A m \in T : n <= m
  <2>1. T \subseteq Nat /\ T # {}
    BY <1>1
  <2> HIDE DEF T
  <2> QED
    BY <2>1, LeastNatural
<1>3. PICK x \in S : n = NumEvents - x
  BY <1>2
<1>4. \A y \in S : NumEvents - x <= NumEvents - y
  BY <1>2, <1>3
<1> QED
  BY <1>1, <1>4

\* s lists S in the order of the log.
Lists(s, S) ==
    /\ s \in [1..Cardinality(S) -> S]
    /\ \A i, j \in 1..Cardinality(S) : i < j => s[i] < s[j]

\* Every set of events can be listed in order.
LEMMA ListExists ==
    ASSUME NEW S, S \subseteq Events
    PROVE  \E s : Lists(s, S)
<1> DEFINE Failing == {n \in Nat : \E T \in SUBSET Events : Cardinality(T) = n /\ ~\E s : Lists(s, T)}
<1>1. Failing = {}
  <2> SUFFICES ASSUME Failing # {} PROVE FALSE
    OBVIOUS
  <2>1. PICK n \in Failing : \A k \in Failing : n <= k
    <3>1. Failing \subseteq Nat
      OBVIOUS
    <3> HIDE DEF Failing
    <3> QED
      BY <3>1, LeastNatural
  <2>2. PICK T \in SUBSET Events : Cardinality(T) = n /\ ~\E s : Lists(s, T)
    BY <2>1
  <2>3. n \in Nat /\ T \subseteq Nat /\ IsFiniteSet(T)
    BY <2>2, EventsAreFinite
  <2>4. T # {}
    <3> SUFFICES ASSUME T = {} PROVE FALSE
      OBVIOUS
    <3>1. Cardinality(T) = 0
      BY FS_EmptySet
    <3>2. Lists([i \in 1..0 |-> 0], T)
      BY <3>1 DEF Lists
    <3> QED
      BY <2>2, <3>2
  <2>5. PICK x \in T : \A y \in T : y <= x
    BY <2>2, <2>4, LastEvent
  <2> DEFINE U == T \ {x}
  <2>6. Cardinality(U) = n - 1 /\ n - 1 \in Nat
    <3>1. Cardinality(U) = n - 1
      BY <2>2, <2>3, FS_RemoveElement
    <3>2. Cardinality(U) \in Nat
      BY <2>2, EventsAreFinite
    <3> QED
      BY <3>1, <3>2
  <2>7. n - 1 \notin Failing
    <3>1. ~(n <= n - 1)
      BY <2>3
    <3> HIDE DEF Failing
    <3> QED
      BY <2>1, <3>1
  <2>8. PICK t : Lists(t, U)
    BY <2>2, <2>6, <2>7
  <2>9. \A y \in U : y \in T /\ y \in Nat /\ x \in Nat /\ y < x
    BY <2>3, <2>5
  <2> HIDE DEF U
  <2> DEFINE s == [i \in 1..n |-> IF i = n THEN x ELSE t[i]]
  <2>10. \A i \in 1..n : i # n => i \in 1..(n - 1) /\ t[i] \in U
    <3>1. t \in [1..(n - 1) -> U]
      BY <2>6, <2>8 DEF Lists
    <3>2. \A i \in 1..n : i # n => i \in 1..(n - 1)
      BY <2>3
    <3> QED
      BY <3>1, <3>2
  <2>11. s \in [1..n -> T]
    BY <2>5, <2>9, <2>10
  <2>12. \A i, j \in 1..n : i < j => s[i] < s[j]
    <3> SUFFICES ASSUME NEW i \in 1..n, NEW j \in 1..n, i < j PROVE s[i] < s[j]
      OBVIOUS
    <3>1. i # n /\ i \in 1..(n - 1) /\ s[i] = t[i] /\ t[i] \in U
      BY <2>3, <2>10
    <3>2. CASE j = n
      BY <2>9, <3>1, <3>2
    <3>3. CASE j # n
      BY <2>6, <2>8, <2>10, <3>1, <3>3 DEF Lists
    <3> QED
      BY <3>2, <3>3
  <2> HIDE DEF s
  <2> QED
    BY <2>2, <2>11, <2>12 DEF Lists
<1>2. Cardinality(S) \in Nat
  BY EventsAreFinite
<1> QED
  BY <1>1, <1>2

\* What the drain reads is every event of the set, once and in the order of the log.
LEMMA AscendingFacts ==
    ASSUME NEW S, S \subseteq Events
    PROVE  /\ Ascending(S) \in Seq(S)
           /\ \A i, j \in DOMAIN Ascending(S) : i < j => Ascending(S)[i] < Ascending(S)[j]
           /\ \A e \in S : \E i \in DOMAIN Ascending(S) : Ascending(S)[i] = e
<1> DEFINE s == Ascending(S)
           n == Cardinality(S)
<1>1. Lists(s, S)
  BY ListExists DEF Lists, Ascending
<1>2. n \in Nat /\ IsFiniteSet(S) /\ S \subseteq Nat
  BY EventsAreFinite
<1>3. s \in [1..n -> S] /\ \A i, j \in 1..n : i < j => s[i] < s[j]
  BY <1>1 DEF Lists
<1> HIDE DEF s, n
<1>4. s \in Injection(1..n, S)
  <2>1. \A i, j \in 1..n : s[i] = s[j] => i = j
    <3> SUFFICES ASSUME NEW i \in 1..n, NEW j \in 1..n, s[i] = s[j], i # j PROVE FALSE
      OBVIOUS
    <3>1. i < j \/ j < i
      BY <1>2
    <3>2. s[i] \in Nat /\ s[j] \in Nat
      BY <1>2, <1>3
    <3> QED
      BY <1>3, <3>1, <3>2
  <2> QED
    BY <1>3, <2>1 DEF Injection, IsInjective
<1>5. Cardinality(1..n) = n
  BY <1>2, FS_Interval
<1>6. s \in Surjection(1..n, S)
  BY <1>2, <1>4, <1>5, FS_Injection DEF n
<1> QED
  BY <1>2, <1>3, <1>6 DEF s, Surjection
-----------------------------------------------------------------------------
(* Where a drain is, and what it holds there. *)

RowStates == {"none", "pending", "failed", "exported"}
DrainSteps == {"idle", "list", "load", "open", "write", "rename", "mark", "fail"}
Links == Inodes \cup {None}

OutboxTypes ==
    /\ row \in [Events -> RowStates] /\ attempts \in [Events -> Nat]
    /\ tmp \in [Events -> Links] /\ final \in [Events -> Links]
    /\ content \in [Inodes -> {"empty", "full"}]
    /\ stale \subseteq Events
    /\ pc \in [Drains -> DrainSteps]
    /\ todo \in [Drains -> Seq(Events)]
    /\ fd \in [Drains -> Links]
    /\ faults \in Nat /\ crashes \in Nat

\* A drain has a row in hand from the open of its file to its settling, and the
\* file open only while it writes.
InHand ==
    \A p \in Drains :
        /\ pc[p] \in {"open", "write", "rename", "mark", "fail"} => todo[p] # << >>
        /\ pc[p] = "write" <=> fd[p] # None

\* The first half of WholeWhenQuiet, with what the rename leaves for the UPDATE.
ExportedHaveFiles ==
    /\ \A e \in Events : row[e] = "exported" => final[e] # None
    /\ \A p \in Drains : pc[p] = "mark" => final[Current(p)] # None

DrainInv == OutboxTypes /\ InHand /\ ExportedHaveFiles

LEMMA InitDrainInv == Init => DrainInv
BY DEF Init, DrainInv, OutboxTypes, InHand, ExportedHaveFiles, RowStates, DrainSteps, Links

LEMMA CurrentIsEvent ==
    ASSUME DrainInv, NEW p \in Drains, todo[p] # << >>
    PROVE  /\ Current(p) \in Events /\ Tail(todo[p]) \in Seq(Events)
           /\ Current(p) = todo[p][1] /\ 1 \in DOMAIN todo[p]
BY DEF DrainInv, OutboxTypes, Current

\* The links of S to inodes are no more than S.
LEMMA LinksAreFew ==
    ASSUME NEW S, NEW T, NEW links, IsFiniteSet(S),
           \A x \in S : links[x] \in T, \A y \in T : \E x \in S : y = links[x]
    PROVE  IsFiniteSet(T) /\ Cardinality(T) <= Cardinality(S) /\ Cardinality(T) \in Nat
<1> DEFINE f == [x \in S |-> links[x]]
<1>1. f \in Surjection(S, T)
  BY DEF Surjection
<1> HIDE DEF f
<1>2. IsFiniteSet(T) /\ Cardinality(T) <= Cardinality(S)
  BY <1>1, FS_Surjection
<1> QED
  BY <1>2, FS_CardinalityType

\* There is always an inode for a tmp file that does not exist yet: the names of the
\* other events and the descriptors of the other drains cannot link them all.
LEMMA NewInodeExists ==
    ASSUME DrainInv, NEW p \in Drains, fd[p] = None, NEW e \in Events, tmp[e] = None
    PROVE  NewInode \in Inodes \ Linked
<1> DEFINE A == {tmp[d] : d \in Events \ {e}}
           B == {final[d] : d \in Events}
           C == {fd[q] : q \in Drains \ {p}}
           nd == Cardinality(Drains)
<1>1. /\ NumEvents \in Nat /\ IsFiniteSet(Events) /\ Cardinality(Events) = NumEvents
      /\ IsFiniteSet(Drains) /\ nd \in Nat
  <2>1. NumEvents \in Nat /\ IsFiniteSet(Drains)
    BY OutboxAssumption
  <2>2. IsFiniteSet(1..NumEvents) /\ Cardinality(1..NumEvents) = NumEvents
    BY <2>1, FS_Interval
  <2> QED
    BY <2>1, <2>2, FS_CardinalityType DEF Events
<1>2. /\ IsFiniteSet(Events \ {e}) /\ Cardinality(Events \ {e}) = NumEvents - 1
      /\ IsFiniteSet(Drains \ {p}) /\ Cardinality(Drains \ {p}) = nd - 1
  BY <1>1, FS_RemoveElement
<1>3. /\ IsFiniteSet(A) /\ Cardinality(A) <= NumEvents - 1 /\ Cardinality(A) \in Nat
      /\ IsFiniteSet(B) /\ Cardinality(B) <= NumEvents /\ Cardinality(B) \in Nat
      /\ IsFiniteSet(C) /\ Cardinality(C) <= nd - 1 /\ Cardinality(C) \in Nat
  <2>1. /\ \A d \in Events \ {e} : tmp[d] \in A
        /\ \A y \in A : \E d \in Events \ {e} : y = tmp[d]
    OBVIOUS
  <2>2. (\A d \in Events : final[d] \in B) /\ (\A y \in B : \E d \in Events : y = final[d])
    OBVIOUS
  <2>3. /\ \A q \in Drains \ {p} : fd[q] \in C
        /\ \A y \in C : \E q \in Drains \ {p} : y = fd[q]
    OBVIOUS
  <2> HIDE DEF A, B, C, nd
  <2>4. IsFiniteSet(A) /\ Cardinality(A) <= NumEvents - 1 /\ Cardinality(A) \in Nat
    BY <1>2, <2>1, LinksAreFew
  <2>5. IsFiniteSet(B) /\ Cardinality(B) <= NumEvents /\ Cardinality(B) \in Nat
    BY <1>1, <2>2, LinksAreFew
  <2>6. IsFiniteSet(C) /\ Cardinality(C) <= nd - 1 /\ Cardinality(C) \in Nat
    BY <1>2, <2>3, LinksAreFew
  <2> QED
    BY <2>4, <2>5, <2>6
<1>4. Linked = A \cup B \cup C \cup {None}
  BY DEF Linked
<1> HIDE DEF A, B, C, nd
<1>5. IsFiniteSet(Linked) /\ Cardinality(Linked) < 2 * NumEvents + nd
  <2>1. /\ IsFiniteSet(A \cup B)
        /\ Cardinality(A \cup B) \in Nat /\ Cardinality(A \cup B) <= 2 * NumEvents - 1
    <3>1. /\ IsFiniteSet(A \cup B)
          /\ Cardinality(A \cup B) = Cardinality(A) + Cardinality(B) - Cardinality(A \cap B)
      BY <1>3, FS_Union
    <3>2. Cardinality(A \cap B) \in Nat /\ Cardinality(A \cup B) \in Nat
      <4>1. IsFiniteSet(A \cap B)
        BY <1>3, FS_Subset
      <4> QED
        BY <3>1, <4>1, FS_CardinalityType
    <3> QED
      BY <1>1, <1>3, <3>1, <3>2
  <2>2. /\ IsFiniteSet(A \cup B \cup C)
        /\ Cardinality(A \cup B \cup C) \in Nat
        /\ Cardinality(A \cup B \cup C) <= 2 * NumEvents + nd - 2
    <3> DEFINE AB == A \cup B
    <3> HIDE DEF AB
    <3>0. /\ IsFiniteSet(AB)
          /\ Cardinality(AB) \in Nat /\ Cardinality(AB) <= 2 * NumEvents - 1
      BY <2>1 DEF AB
    <3>1. /\ IsFiniteSet(AB \cup C)
          /\ Cardinality(AB \cup C) = Cardinality(AB) + Cardinality(C) - Cardinality(AB \cap C)
      BY <1>3, <3>0, FS_Union
    <3>2. Cardinality(AB \cap C) \in Nat /\ Cardinality(AB \cup C) \in Nat
      <4>1. IsFiniteSet(AB \cap C)
        BY <1>3, FS_Subset
      <4> QED
        BY <3>1, <4>1, FS_CardinalityType
    <3>3. /\ IsFiniteSet(AB \cup C) /\ Cardinality(AB \cup C) \in Nat
          /\ Cardinality(AB \cup C) <= 2 * NumEvents + nd - 2
      BY <1>1, <1>3, <3>0, <3>1, <3>2
    <3> QED
      BY <3>3 DEF AB
  <2> DEFINE ABC == A \cup B \cup C
  <2> HIDE DEF ABC
  <2>3. /\ IsFiniteSet(ABC) /\ Cardinality(ABC) \in Nat
        /\ Cardinality(ABC) <= 2 * NumEvents + nd - 2
    BY <2>2 DEF ABC
  <2>4. /\ IsFiniteSet(ABC \cup {None})
        /\ Cardinality(ABC \cup {None}) \in {Cardinality(ABC), Cardinality(ABC) + 1}
    BY <2>3, FS_AddElement
  <2>5. Linked = ABC \cup {None}
    BY <1>4 DEF ABC
  <2> QED
    BY <1>1, <2>3, <2>4, <2>5
<1>6. IsFiniteSet(Inodes) /\ Cardinality(Inodes) = 2 * NumEvents + nd
  <2> DEFINE n == 2 * NumEvents + nd
  <2>1. n \in Nat /\ Inodes = 1..n
    BY <1>1 DEF Inodes, nd
  <2> HIDE DEF n
  <2>2. IsFiniteSet(1..n) /\ Cardinality(1..n) = n
    BY <2>1, FS_Interval
  <2> QED
    BY <2>1, <2>2 DEF n
<1>7. ~(Inodes \subseteq Linked)
  <2>1. IsFiniteSet(Linked) => Cardinality(Linked) \in Nat
    BY FS_CardinalityType
  <2> QED
    BY <1>1, <1>5, <1>6, <2>1, FS_Subset
<1> QED
  BY <1>7 DEF NewInode
LEMMA DrainableFacts ==
    ASSUME OutboxTypes
    PROVE  /\ Drainable \in Seq(Events)
           /\ \A i \in DOMAIN Drainable : row[Drainable[i]] \in {"pending", "failed"}
           /\ \A i, j \in DOMAIN Drainable : i < j => Drainable[i] < Drainable[j]
           /\ \A e \in Events : row[e] = "pending" => \E i \in DOMAIN Drainable : Drainable[i] = e
<1> DEFINE S == {e \in Events : row[e] \in {"pending", "failed"}}
<1>1. S \subseteq Events /\ \A e \in Events : e \in S <=> row[e] \in {"pending", "failed"}
  OBVIOUS
<1>2. Drainable = Ascending(S)
  BY DEF Drainable
<1> HIDE DEF S
<1>3. /\ Drainable \in Seq(S)
      /\ \A i, j \in DOMAIN Drainable : i < j => Drainable[i] < Drainable[j]
      /\ \A e \in S : \E i \in DOMAIN Drainable : Drainable[i] = e
  BY <1>1, <1>2, AscendingFacts
<1>4. Drainable \in Seq(Events) /\ \A i \in DOMAIN Drainable : Drainable[i] \in S
  BY <1>1, <1>3
<1> QED
  BY <1>1, <1>3, <1>4

\* What settling a row leaves.
LEMMA SettleFacts ==
    ASSUME DrainInv, NEW p \in Drains, todo[p] # << >>, NEW state \in {"failed", "exported"},
           Settle(p, state)
    PROVE  /\ row' = [row EXCEPT ![Current(p)] = state] /\ row' \in [Events -> RowStates]
           /\ attempts' \in [Events -> Nat]
           /\ todo' = [todo EXCEPT ![p] = Tail(todo[p])] /\ todo' \in [Drains -> Seq(Events)]
           /\ pc' = [pc EXCEPT ![p] = "load"] /\ pc' \in [Drains -> DrainSteps]
BY CurrentIsEvent, OutboxAssumption
   DEF Settle, Goto, DrainInv, OutboxTypes, RowStates, DrainSteps

LEMMA OpenFacts ==
    ASSUME DrainInv, NEW p \in Drains, Open(p)
    PROVE  \E i \in Inodes :
             /\ Current(p) \in Events
             /\ i # None
             /\ tmp[Current(p)] # None => i = tmp[Current(p)]
             /\ tmp[Current(p)] = None => i \notin Linked
             /\ tmp' = [tmp EXCEPT ![Current(p)] = i]
             /\ content' = [content EXCEPT ![i] = "empty"]
             /\ fd' = [fd EXCEPT ![p] = i]
             /\ pc' = [pc EXCEPT ![p] = "write"]
             /\ stale' \subseteq stale
             /\ UNCHANGED <<row, attempts, final, todo, faults, crashes>>
<1>1. pc[p] = "open" /\ todo[p] # << >> /\ fd[p] = None
  BY DEF Open, DrainInv, InHand
<1>2. Current(p) \in Events
  BY <1>1, CurrentIsEvent
<1>3. tmp[Current(p)] = None => NewInode \in Inodes \ Linked
  BY <1>1, <1>2, NewInodeExists
<1>4. None \in Linked
  BY <1>1 DEF Linked
<1>5. tmp[Current(p)] # None => tmp[Current(p)] \in Inodes
  BY <1>2 DEF DrainInv, OutboxTypes, Links
<1> DEFINE i == IF tmp[Current(p)] # None THEN tmp[Current(p)] ELSE NewInode
<1>6. /\ i \in Inodes /\ i # None
      /\ tmp[Current(p)] # None => i = tmp[Current(p)]
      /\ tmp[Current(p)] = None => i \notin Linked
  BY <1>3, <1>4, <1>5
<1>7. /\ tmp' = [tmp EXCEPT ![Current(p)] = i]
      /\ content' = [content EXCEPT ![i] = "empty"]
      /\ fd' = [fd EXCEPT ![p] = i]
      /\ pc' = [pc EXCEPT ![p] = "write"]
      /\ stale' \subseteq stale
      /\ UNCHANGED <<row, attempts, final, todo, faults, crashes>>
  BY DEF Open, Goto, table
<1> HIDE DEF i
<1> QED
  BY <1>2, <1>6, <1>7

LEMMA SettleStep ==
    ASSUME DrainInv, NEW p \in Drains, todo[p] # << >>, NEW state \in {"failed", "exported"},
           Settle(p, state), pc[p] # "write", state = "exported" => pc[p] = "mark",
           UNCHANGED <<tmp, final, content, stale, fd, faults, crashes>>
    PROVE  DrainInv'
<1> USE DEF DrainInv, OutboxTypes, InHand, ExportedHaveFiles
<1>1. Current(p) \in Events
  BY CurrentIsEvent
<1>2. /\ row' = [row EXCEPT ![Current(p)] = state] /\ row' \in [Events -> RowStates]
      /\ attempts' \in [Events -> Nat]
      /\ todo' = [todo EXCEPT ![p] = Tail(todo[p])] /\ todo' \in [Drains -> Seq(Events)]
      /\ pc' = [pc EXCEPT ![p] = "load"] /\ pc' \in [Drains -> DrainSteps]
  BY SettleFacts
<1>3. state = "exported" => final[Current(p)] # None
  OBVIOUS
<1>4. \A f \in Events : row'[f] = "exported" => final'[f] # None
  BY <1>1, <1>2, <1>3
<1>5. \A q \in Drains : pc'[q] = "mark" => final'[Current(q)'] # None
  BY <1>2 DEF Current
<1>6. OutboxTypes' /\ InHand'
  BY <1>1, <1>2
<1> QED
  BY <1>4, <1>5, <1>6

LEMMA NextDrainInv == DrainInv /\ [Next]_vars => DrainInv'
<1> SUFFICES ASSUME DrainInv, [Next]_vars PROVE DrainInv'
  OBVIOUS
<1> USE DEF DrainInv, OutboxTypes, InHand, ExportedHaveFiles
<1>1. ASSUME NEW e \in Events, Enqueue(e)
      PROVE  DrainInv'
  BY <1>1 DEF Enqueue, disk, RowStates, Current
<1>2. ASSUME NEW p \in Drains, NEW cleanup \in BOOLEAN, Start(p, cleanup)
      PROVE  DrainInv'
  BY <1>2 DEF Start, table, Goto, DrainSteps, Links, Current
<1>3. ASSUME NEW p \in Drains, List(p)
      PROVE  DrainInv'
  <2>1. Drainable \in Seq(Events)
    BY DrainableFacts
  <2>2. todo' = [todo EXCEPT ![p] = Drainable] /\ pc' = [pc EXCEPT ![p] = "load"]
        /\ pc[p] = "list" /\ UNCHANGED <<row, attempts, tmp, final, content, stale, fd, faults, crashes>>
    BY <1>3 DEF List, Goto, table, disk
  <2> HIDE DEF Drainable
  <2> QED
    BY <2>1, <2>2 DEF DrainSteps, Current
<1>4. ASSUME NEW p \in Drains, Load(p)
      PROVE  DrainInv'
  <2>0. pc[p] = "load" /\ UNCHANGED <<tmp, final, content, stale, fd, faults, crashes>>
    BY <1>4 DEF Load, disk
  <2>1. CASE todo[p] # << >> /\ Settle(p, "failed")
    BY <2>0, <2>1, SettleStep
  <2>2. CASE Goto(p, "idle") /\ UNCHANGED <<table, todo>>
    BY <2>0, <2>2 DEF Goto, table, DrainSteps, Current
  <2>3. CASE todo[p] # << >> /\ Goto(p, "open") /\ UNCHANGED <<table, todo>>
    BY <2>0, <2>3 DEF Goto, table, DrainSteps, Current
  <2> QED
    BY <1>4, <2>1, <2>2, <2>3 DEF Load
<1>5. ASSUME NEW p \in Drains, Open(p)
      PROVE  DrainInv'
  <2>1. PICK i \in Inodes :
             /\ Current(p) \in Events /\ i # None
             /\ tmp' = [tmp EXCEPT ![Current(p)] = i]
             /\ content' = [content EXCEPT ![i] = "empty"]
             /\ fd' = [fd EXCEPT ![p] = i]
             /\ pc' = [pc EXCEPT ![p] = "write"]
             /\ stale' \subseteq stale
             /\ UNCHANGED <<row, attempts, final, todo, faults, crashes>>
    BY <1>5, OpenFacts
  <2>2. pc[p] = "open"
    BY <1>5 DEF Open
  <2> QED
    BY <2>1, <2>2 DEF DrainSteps, Links, Current
<1>6. ASSUME NEW p \in Drains, Write(p)
      PROVE  DrainInv'
  BY <1>6 DEF Write, Closed, Goto, table, DrainSteps, Links, Current
<1>7. ASSUME NEW p \in Drains, Rename(p)
      PROVE  DrainInv'
  <2>1. pc[p] = "rename" /\ todo[p] # << >> /\ Current(p) \in Events
    BY <1>7, CurrentIsEvent DEF Rename
  <2>2. /\ \/ pc' = [pc EXCEPT ![p] = "fail"] /\ UNCHANGED <<tmp, final>>
           \/ /\ tmp[Current(p)] # None /\ final' = [final EXCEPT ![Current(p)] = tmp[Current(p)]]
              /\ tmp' = [tmp EXCEPT ![Current(p)] = None] /\ pc' = [pc EXCEPT ![p] = "mark"]
        /\ stale' \subseteq stale
        /\ UNCHANGED <<row, attempts, content, todo, fd, faults, crashes>>
    BY <1>7 DEF Rename, Goto, table
  <2>3. OutboxTypes' /\ InHand'
    BY <2>1, <2>2 DEF DrainSteps, Links
  <2>4. \A q \in Drains : Current(q)' = Current(q)
    BY <2>2 DEF Current
  <2>5. \A f \in Events : final[f] # None => final'[f] # None
    BY <2>1, <2>2
  <2>6. \A q \in Drains : pc[q] = "mark" => Current(q) \in Events
    BY CurrentIsEvent
  <2>7. ExportedHaveFiles'
    <3>1. \A f \in Events : row'[f] = "exported" => final'[f] # None
      BY <2>2, <2>5
    <3>2. ASSUME NEW q \in Drains, pc'[q] = "mark"
          PROVE  final'[Current(q)'] # None
      <4>1. CASE q = p
        BY <2>1, <2>2, <2>4, <3>2, <4>1
      <4>2. CASE q # p
        BY <2>2, <2>4, <2>5, <2>6, <3>2, <4>2
      <4> QED
        BY <4>1, <4>2
    <3> QED
      BY <3>1, <3>2
  <2> QED
    BY <2>3, <2>7
<1>8. ASSUME NEW p \in Drains, Mark(p) \/ Fail(p)
      PROVE  DrainInv'
  <2>1. todo[p] # << >> /\ UNCHANGED <<tmp, final, content, stale, fd, faults, crashes>>
    BY <1>8 DEF Mark, Fail, disk
  <2> QED
    BY <1>8, <2>1, SettleStep DEF Mark, Fail
<1>9. ASSUME NEW p \in Drains, IOError(p) \/ Crash(p)
      PROVE  DrainInv'
  <2>1. CASE IOError(p)
    BY <2>1 DEF IOError, Closed, Goto, table, disk, DrainSteps, Links, Current
  <2>2. CASE Crash(p)
    BY <2>2 DEF Crash, Closed, Goto, table, disk, DrainSteps, Links, Current
  <2> QED
    BY <1>9, <2>1, <2>2
<1>10. CASE Age
  BY <1>10 DEF Age, table, Current
<1>11. CASE UNCHANGED vars
  BY <1>11 DEF vars, Current
<1> QED
  BY <1>1, <1>2, <1>3, <1>4, <1>5, <1>6, <1>7, <1>8, <1>9, <1>10, <1>11 DEF Next, Step

\* Types, and what a drain holds at each step; no row is 'exported' without a file of
\* its name, whatever dies, fails or runs beside.
THEOREM DrainInvariance == Spec => []DrainInv
BY InitDrainInv, NextDrainInv, PTL DEF Spec
-----------------------------------------------------------------------------
(* Two drains that ran to their end. *)

\* Without faults and crashes an emptied inode that a name links is still open in a
\* drain that will write it, also when two drains share the tmp file.
Written(i) == content[i] = "full" \/ \E p \in Drains : pc[p] = "write" /\ fd[p] = i

EmptiedAreOpen ==
    \A e \in Events :
        /\ tmp[e] # None => Written(tmp[e])
        /\ final[e] # None => Written(final[e])

LEMMA NextEmptied ==
    ASSUME MaxFaults = 0, MaxCrashes = 0, DrainInv, EmptiedAreOpen, [Next]_vars
    PROVE  EmptiedAreOpen'
<1>0. \A e \in Events : tmp[e] \in Links /\ final[e] \in Links
  BY DEF DrainInv, OutboxTypes
<1>1. ASSUME \A i \in Inodes : Written(i) => Written(i)',
             \A e \in Events : tmp'[e] \in {tmp[e], None},
             \A e \in Events : final'[e] \in {final[e], tmp[e]}
      PROVE  EmptiedAreOpen'
  BY <1>0, <1>1 DEF EmptiedAreOpen, Links
<1>2. ASSUME UNCHANGED <<content, fd>>, \A q \in Drains : pc[q] = "write" => pc'[q] = "write"
      PROVE  \A i \in Inodes : Written(i) => Written(i)'
  BY <1>2 DEF Written
<1>3. \A p \in Drains : ~IOError(p) /\ ~Crash(p)
  BY DEF IOError, Crash, DrainInv, OutboxTypes
<1>4. ASSUME NEW e \in Events, Enqueue(e)
      PROVE  EmptiedAreOpen'
  BY <1>1, <1>2, <1>4 DEF Enqueue, disk
<1> DEFINE Elsewhere(p, step) == pc[p] # "write" /\ pc' = [pc EXCEPT ![p] = step]
<1>5. ASSUME NEW p \in Drains, NEW step, Elsewhere(p, step)
      PROVE  \A q \in Drains : pc[q] = "write" => pc'[q] = "write"
  BY <1>5 DEF DrainInv, OutboxTypes
<1>6. ASSUME NEW p \in Drains, NEW cleanup \in BOOLEAN, Start(p, cleanup)
      PROVE  EmptiedAreOpen'
  <2>1. Elsewhere(p, "list") /\ UNCHANGED <<content, fd, final>>
        /\ \A e \in Events : tmp'[e] \in {tmp[e], None}
    BY <1>6 DEF Start, Goto
  <2> QED
    BY <1>1, <1>2, <1>5, <2>1
<1>7. ASSUME NEW p \in Drains, List(p) \/ Load(p) \/ Mark(p) \/ Fail(p)
      PROVE  EmptiedAreOpen'
  <2>1. UNCHANGED <<content, fd, tmp, final>> /\ \E step : Elsewhere(p, step)
    BY <1>7 DEF List, Load, Mark, Fail, Settle, Goto, disk
  <2> QED
    BY <1>1, <1>2, <1>5, <2>1
<1>8. ASSUME NEW p \in Drains, Open(p)
      PROVE  EmptiedAreOpen'
  <2>1. PICK i \in Inodes :
             /\ Current(p) \in Events
             /\ tmp' = [tmp EXCEPT ![Current(p)] = i]
             /\ content' = [content EXCEPT ![i] = "empty"]
             /\ fd' = [fd EXCEPT ![p] = i]
             /\ pc' = [pc EXCEPT ![p] = "write"]
             /\ UNCHANGED final
    BY <1>8, OpenFacts
  <2>2. pc[p] # "write"
    BY <1>8 DEF Open
  <2>3. Written(i)'
    BY <2>1 DEF Written, DrainInv, OutboxTypes
  <2>4. \A j \in Inodes : Written(j) => Written(j)'
    <3>1. ASSUME NEW j \in Inodes, Written(j), j # i
          PROVE  Written(j)'
      <4>1. CASE content[j] = "full"
        BY <2>1, <3>1, <4>1 DEF Written, DrainInv, OutboxTypes
      <4>2. ASSUME NEW q \in Drains, pc[q] = "write", fd[q] = j
            PROVE  Written(j)'
        BY <2>1, <2>2, <4>2 DEF Written, DrainInv, OutboxTypes
      <4> QED
        BY <3>1, <4>1, <4>2 DEF Written
    <3> QED
      BY <2>3, <3>1
  <2> QED
    BY <1>0, <2>1, <2>3, <2>4 DEF EmptiedAreOpen, Links, DrainInv, OutboxTypes
<1>9. ASSUME NEW p \in Drains, Write(p)
      PROVE  EmptiedAreOpen'
  <2>1. /\ content' = [content EXCEPT ![fd[p]] = "full"]
        /\ fd' = [fd EXCEPT ![p] = None] /\ pc' = [pc EXCEPT ![p] = "rename"]
        /\ UNCHANGED <<tmp, final>>
    BY <1>9 DEF Write, Closed, Goto
  <2>2. ASSUME NEW j \in Inodes, Written(j)
        PROVE  Written(j)'
    <3>1. CASE content[j] = "full" \/ fd[p] = j
      BY <2>1, <3>1 DEF Written, DrainInv, OutboxTypes
    <3>2. ASSUME NEW q \in Drains, pc[q] = "write", fd[q] = j, q # p
          PROVE  Written(j)'
      BY <2>1, <3>2 DEF Written, DrainInv, OutboxTypes
    <3> QED
      BY <2>2, <3>1, <3>2 DEF Written
  <2> QED
    BY <1>1, <2>1, <2>2
<1>10. ASSUME NEW p \in Drains, Rename(p)
      PROVE  EmptiedAreOpen'
  <2>1. pc[p] = "rename" /\ todo[p] # << >>
    BY <1>10 DEF Rename, DrainInv, InHand
  <2>2. Current(p) \in Events
    BY <2>1, CurrentIsEvent
  <2>3. UNCHANGED <<content, fd>> /\ \E step : Elsewhere(p, step)
    BY <1>10 DEF Rename, Goto
  <2>4. \A e \in Events : tmp'[e] \in {tmp[e], None} /\ final'[e] \in {final[e], tmp[e]}
    BY <1>10, <2>2 DEF Rename, DrainInv, OutboxTypes
  <2> QED
    BY <1>1, <1>2, <1>5, <2>3, <2>4
<1>11. CASE Age \/ UNCHANGED vars
  BY <1>1, <1>2, <1>11 DEF Age, vars
<1> QED
  BY <1>3, <1>4, <1>6, <1>7, <1>8, <1>9, <1>10, <1>11 DEF Next, Step

\* Any number of drains may run beside each other: an exported row has its file, and
\* when all have ended, with no I/O error and no crash on the way, a reader finds only
\* whole files.
THEOREM QuietDrainsLeaveWholeFiles ==
    MaxFaults = 0 /\ MaxCrashes = 0 => (Spec => []WholeWhenQuiet)
<1> SUFFICES ASSUME MaxFaults = 0, MaxCrashes = 0 PROVE Spec => []WholeWhenQuiet
  OBVIOUS
<1>1. Init => EmptiedAreOpen
  BY DEF Init, EmptiedAreOpen
<1>2. DrainInv /\ EmptiedAreOpen /\ [Next]_vars => EmptiedAreOpen'
  BY NextEmptied
<1>3. DrainInv /\ EmptiedAreOpen => WholeWhenQuiet
  BY DEF DrainInv, ExportedHaveFiles, EmptiedAreOpen, Written, WholeWhenQuiet,
     ReadersSeeWholeFiles, Whole
<1> QED
  BY <1>1, <1>2, <1>3, DrainInvariance, PTL DEF Spec
-----------------------------------------------------------------------------
(* One drain at a time, whatever dies or fails. *)

\* The names of tmp files link inodes of their own, and a final name one that is full:
\* a drain that is alone renames what it has just written.
FilesApart ==
    /\ \A e \in Events : final[e] # None => content[final[e]] = "full"
    /\ \A e, d \in Events : tmp[e] # None => tmp[e] # final[d] /\ (e # d => tmp[e] # tmp[d])
    /\ \A p \in Drains :
         /\ pc[p] = "write" => fd[p] = tmp[Current(p)]
         /\ pc[p] = "rename" =>
              tmp[Current(p)] # None /\ content[tmp[Current(p)]] = "full"

\* The rows that are read are walked in the order of the log, and no pending row before
\* the one in hand is left out.
WalkInOrder ==
    /\ \A e, d \in Events : row[e] # "none" /\ d < e => row[d] # "none"
    /\ \A p \in Drains :
         /\ \A i \in DOMAIN todo[p] : row[todo[p][i]] \in {"pending", "failed"}
         /\ \A i, j \in DOMAIN todo[p] : i < j => todo[p][i] < todo[p][j]
         /\ pc[p] \notin {"idle", "list"} =>
              \A e \in Events : row[e] = "pending" =>
                  \/ \E i \in DOMAIN todo[p] : todo[p][i] = e
                  \/ \A i \in DOMAIN todo[p] : todo[p][i] < e

AloneInv == DrainInv /\ FilesApart /\ WalkInOrder

LEMMA InitAlone == Init => AloneInv
<1> SUFFICES ASSUME Init PROVE AloneInv
  OBVIOUS
<1>1. DrainInv
  BY InitDrainInv
<1>2. FilesApart /\ WalkInOrder
  BY DEF Init, FilesApart, WalkInOrder
<1> QED
  BY <1>1, <1>2 DEF AloneInv

\* Each step keeps the files apart.
LEMMA NextApart ==
    ASSUME NEW d, Drains = {d}, DrainInv, FilesApart, [Next]_vars
    PROVE  FilesApart'
<1> USE DEF DrainInv, OutboxTypes, Links, FilesApart
<1>1. ASSUME UNCHANGED <<content, final>>,
             \A e \in Events : tmp'[e] \in {tmp[e], None},
             pc'[d] = "write" => pc[d] = "write" /\ UNCHANGED <<tmp, fd, todo>>,
             pc'[d] = "rename" => pc[d] = "rename" /\ UNCHANGED <<tmp, todo>>
      PROVE  FilesApart'
  BY <1>1 DEF Current
<1>2. ASSUME NEW p \in Drains, NEW step \in {"list", "load", "idle", "open", "fail"},
             pc' = [pc EXCEPT ![p] = step]
      PROVE  pc'[d] \notin {"write", "rename"}
  BY <1>2
<1>3. ASSUME NEW e \in Events, Enqueue(e)
      PROVE  FilesApart'
  BY <1>1, <1>3 DEF Enqueue, disk
<1>4. ASSUME NEW p \in Drains, NEW cleanup \in BOOLEAN, Start(p, cleanup)
      PROVE  FilesApart'
  BY <1>1, <1>2, <1>4 DEF Start, Goto
<1>5. ASSUME NEW p \in Drains, List(p) \/ Load(p) \/ Mark(p) \/ Fail(p) \/ IOError(p) \/ Crash(p)
      PROVE  FilesApart'
  <2>1. /\ UNCHANGED <<content, final, tmp>>
        /\ \E step \in {"list", "load", "idle", "open", "fail"} : pc' = [pc EXCEPT ![p] = step]
    BY <1>5 DEF List, Load, Mark, Fail, IOError, Crash, Settle, Goto, disk
  <2>2. pc'[d] \notin {"write", "rename"}
    BY <1>2, <2>1
  <2> QED
    BY <1>1, <2>1, <2>2
<1>6. ASSUME NEW p \in Drains, Open(p)
      PROVE  FilesApart'
  <2>1. PICK i \in Inodes :
             /\ Current(p) \in Events /\ i # None
             /\ tmp[Current(p)] # None => i = tmp[Current(p)]
             /\ tmp[Current(p)] = None => i \notin Linked
             /\ tmp' = [tmp EXCEPT ![Current(p)] = i]
             /\ content' = [content EXCEPT ![i] = "empty"]
             /\ fd' = [fd EXCEPT ![p] = i]
             /\ pc' = [pc EXCEPT ![p] = "write"]
             /\ UNCHANGED <<final, todo>>
    BY <1>6, OpenFacts
  <2>2. \A f \in Events : i # final[f] /\ (f # Current(p) => i # tmp[f])
    BY <2>1 DEF Linked
  <2>3. p = d /\ Current(p)' = Current(p)
    BY <2>1 DEF Current
  <2>4. \A f \in Events : final'[f] # None => content'[final'[f]] = "full"
    BY <2>1, <2>2
  <2>5. \A e, f \in Events : tmp'[e] # None => tmp'[e] # final'[f] /\ (e # f => tmp'[e] # tmp'[f])
    BY <2>1, <2>2
  <2>6. fd'[p] = tmp'[Current(p)'] /\ pc'[p] = "write"
    BY <2>1, <2>3
  <2> QED
    BY <2>3, <2>4, <2>5, <2>6
<1>7. ASSUME NEW p \in Drains, Write(p)
      PROVE  FilesApart'
  <2>1. /\ pc[p] = "write" /\ content' = [content EXCEPT ![fd[p]] = "full"]
        /\ pc' = [pc EXCEPT ![p] = "rename"] /\ UNCHANGED <<tmp, final, todo>>
    BY <1>7 DEF Write, Goto
  <2>2. p = d /\ Current(p)' = Current(p) /\ fd[p] = tmp[Current(p)]
        /\ fd[p] # None /\ fd[p] \in Inodes
    BY <2>1 DEF Current, InHand
  <2>3. \A e \in Events : final'[e] # None => content'[final'[e]] = "full"
    BY <2>1, <2>2
  <2>4. tmp'[Current(p)'] # None /\ content'[tmp'[Current(p)']] = "full" /\ pc'[p] = "rename"
    BY <2>1, <2>2
  <2> QED
    BY <2>1, <2>2, <2>3, <2>4
<1>8. ASSUME NEW p \in Drains, Rename(p)
      PROVE  FilesApart'
  <2>1. pc[p] = "rename" /\ todo[p] # << >>
    BY <1>8 DEF Rename, InHand
  <2>2. Current(p) \in Events
    BY <2>1, CurrentIsEvent
  <2>3. tmp[Current(p)] # None /\ content[tmp[Current(p)]] = "full"
    BY <2>1
  <2>4. /\ final' = [final EXCEPT ![Current(p)] = tmp[Current(p)]]
        /\ tmp' = [tmp EXCEPT ![Current(p)] = None]
        /\ pc' = [pc EXCEPT ![p] = "mark"] /\ UNCHANGED content
    BY <1>8, <2>3 DEF Rename, Goto
  <2>5. p = d /\ pc'[d] = "mark"
    BY <2>4
  <2>6. \A e \in Events : final'[e] # None => content'[final'[e]] = "full"
    BY <2>2, <2>3, <2>4
  <2>7. \A e, f \in Events : tmp'[e] # None => tmp'[e] # final'[f] /\ (e # f => tmp'[e] # tmp'[f])
    BY <2>2, <2>3, <2>4
  <2> QED
    BY <2>5, <2>6, <2>7
<1>9. CASE Age \/ UNCHANGED vars
  BY <1>1, <1>9 DEF Age, vars
<1> QED
  BY <1>3, <1>4, <1>5, <1>6, <1>7, <1>8, <1>9 DEF Next, Step
\* Settling the row in hand keeps the order of the walk.
LEMMA SettleInOrder ==
    ASSUME NEW d, Drains = {d}, DrainInv, WalkInOrder,
           pc[d] \notin {"idle", "list"}, todo[d] # << >>,
           NEW state \in {"failed", "exported"}, Settle(d, state)
    PROVE  WalkInOrder'
<1> DEFINE t == todo[d]
<1>1. /\ t \in Seq(Events) /\ t # << >> /\ Current(d) = t[1] /\ Current(d) \in Events
      /\ \A i \in DOMAIN t : t[i] \in Events
      /\ DOMAIN Tail(t) = 1..(Len(t) - 1) /\ DOMAIN t = 1..Len(t) /\ Len(t) \in Nat
      /\ \A i \in DOMAIN Tail(t) : Tail(t)[i] = t[i + 1] /\ i + 1 \in DOMAIN t /\ i \in Nat
  BY CurrentIsEvent DEF DrainInv, OutboxTypes
<1>2. /\ row' = [row EXCEPT ![Current(d)] = state] /\ todo' = [todo EXCEPT ![d] = Tail(t)]
      /\ pc' = [pc EXCEPT ![d] = "load"] /\ row \in [Events -> RowStates]
      /\ todo'[d] = Tail(t)
  BY SettleFacts DEF DrainInv, OutboxTypes
<1>3. /\ \A i \in DOMAIN t : row[t[i]] \in {"pending", "failed"}
      /\ \A i, j \in DOMAIN t : i < j => t[i] < t[j]
      /\ \A e \in Events : row[e] = "pending" =>
           (\E i \in DOMAIN t : t[i] = e) \/ (\A i \in DOMAIN t : t[i] < e)
      /\ \A e, f \in Events : row[e] # "none" /\ f < e => row[f] # "none"
  BY DEF WalkInOrder
<1>4. \A f \in Events : f \in Nat
  BY OutboxAssumption DEF Events
<1> HIDE DEF t
<1>5. \A i \in DOMAIN Tail(t) : t[1] < t[i + 1] /\ t[1] \in Nat /\ t[i + 1] \in Nat
  <2> SUFFICES ASSUME NEW i \in DOMAIN Tail(t)
               PROVE  t[1] < t[i + 1] /\ t[1] \in Nat /\ t[i + 1] \in Nat
    OBVIOUS
  <2>1. i + 1 \in DOMAIN t /\ 1 \in DOMAIN t /\ 1 < i + 1
    BY <1>1
  <2>2. t[1] \in Events /\ t[i + 1] \in Events
    BY <1>1, <2>1
  <2> QED
    BY <1>3, <1>4, <2>1, <2>2
<1>6. \A e, f \in Events : row'[e] # "none" /\ f < e => row'[f] # "none"
  BY <1>1, <1>2, <1>3
<1>7. \A i \in DOMAIN Tail(t) : row'[Tail(t)[i]] \in {"pending", "failed"}
  BY <1>1, <1>2, <1>3, <1>5
<1>8. \A i, j \in DOMAIN Tail(t) : i < j => Tail(t)[i] < Tail(t)[j]
  BY <1>1, <1>3
<1>9. ASSUME NEW e \in Events, row'[e] = "pending"
      PROVE  (\E i \in DOMAIN Tail(t) : Tail(t)[i] = e) \/ (\A i \in DOMAIN Tail(t) : Tail(t)[i] < e)
  <2>1. e # t[1] /\ row[e] = "pending"
    BY <1>1, <1>2, <1>9
  <2>2. CASE \A i \in DOMAIN t : t[i] < e
    BY <1>1, <2>2
  <2>3. ASSUME NEW i \in DOMAIN t, t[i] = e
        PROVE  \E j \in DOMAIN Tail(t) : Tail(t)[j] = e
    <3>1. i # 1 /\ i - 1 \in DOMAIN Tail(t) /\ (i - 1) + 1 = i
      BY <1>1, <2>1, <2>3
    <3> QED
      BY <1>1, <2>3, <3>1
  <2> QED
    BY <1>3, <2>1, <2>2, <2>3
<1> QED
  BY <1>2, <1>6, <1>7, <1>8, <1>9 DEF WalkInOrder

LEMMA NextInOrder ==
    ASSUME NEW d, Drains = {d}, DrainInv, WalkInOrder, [Next]_vars
    PROVE  WalkInOrder'
<1>0. \A f \in Events : f \in Nat
  BY OutboxAssumption DEF Events
<1>1. ASSUME UNCHANGED <<row, todo>>, pc'[d] \notin {"idle", "list"} => pc[d] \notin {"idle", "list"}
      PROVE  WalkInOrder'
  BY <1>1 DEF WalkInOrder
<1>2. ASSUME NEW e \in Events, Enqueue(e)
      PROVE  WalkInOrder'
  <2>1. /\ row[e] = "none" /\ \A f \in 1..(e - 1) : row[f] # "none"
        /\ row' = [row EXCEPT ![e] = "pending"] /\ UNCHANGED <<pc, todo>>
        /\ row \in [Events -> RowStates]
    BY <1>2 DEF Enqueue, DrainInv, OutboxTypes
  <2>2. \A f, g \in Events : row[f] # "none" /\ g < f => row[g] # "none"
    BY DEF WalkInOrder
  <2>3. \A f, g \in Events : row'[f] # "none" /\ g < f => row'[g] # "none"
    <3>1. \A g \in Events : g < e => g \in 1..(e - 1)
      BY OutboxAssumption DEF Events
    <3> QED
      BY <2>1, <2>2, <3>1
  <2>4. \A i \in DOMAIN todo[d] : /\ todo[d][i] \in Events
                                 /\ row[todo[d][i]] \in {"pending", "failed"}
                                 /\ row'[todo[d][i]] \in {"pending", "failed"}
    BY <2>1 DEF WalkInOrder, DrainInv, OutboxTypes
  <2>5. \A i \in DOMAIN todo[d] : todo[d][i] < e
    <3> SUFFICES ASSUME NEW i \in DOMAIN todo[d] PROVE todo[d][i] < e
      OBVIOUS
    <3>1. todo[d][i] # e /\ ~(e < todo[d][i])
      BY <2>1, <2>2, <2>4
    <3> QED
      BY <1>0, <2>4, <3>1
  <2>6. ASSUME pc[d] \notin {"idle", "list"}, NEW f \in Events, row'[f] = "pending"
        PROVE  (\E i \in DOMAIN todo[d] : todo[d][i] = f) \/ (\A i \in DOMAIN todo[d] : todo[d][i] < f)
    BY <2>1, <2>5, <2>6 DEF WalkInOrder
  <2>7. \A i, j \in DOMAIN todo[d] : i < j => todo[d][i] < todo[d][j]
    BY DEF WalkInOrder
  <2> QED
    BY <2>1, <2>3, <2>4, <2>6, <2>7 DEF WalkInOrder
<1>3. ASSUME NEW p \in Drains, List(p)
      PROVE  WalkInOrder'
  <2>1. /\ Drainable \in Seq(Events)
        /\ \A i \in DOMAIN Drainable : row[Drainable[i]] \in {"pending", "failed"}
        /\ \A i, j \in DOMAIN Drainable : i < j => Drainable[i] < Drainable[j]
        /\ \A e \in Events : row[e] = "pending" => \E i \in DOMAIN Drainable : Drainable[i] = e
    BY DrainableFacts DEF DrainInv
  <2>2. todo' = [todo EXCEPT ![p] = Drainable] /\ UNCHANGED row
    BY <1>3 DEF List, table
  <2> HIDE DEF Drainable
  <2>3. p = d /\ todo'[d] = Drainable
    BY <2>2 DEF DrainInv, OutboxTypes
  <2> QED
    BY <2>1, <2>2, <2>3 DEF WalkInOrder
<1>4. ASSUME NEW p \in Drains, Load(p)
      PROVE  WalkInOrder'
  <2>1. pc[d] = "load" /\ p = d
    BY <1>4 DEF Load
  <2>2. CASE todo[d] # << >> /\ Settle(d, "failed")
    BY <2>1, <2>2, SettleInOrder
  <2>3. CASE UNCHANGED <<table, todo>>
    BY <1>1, <2>1, <2>3 DEF table
  <2> QED
    BY <1>4, <2>1, <2>2, <2>3 DEF Load
<1>5. ASSUME NEW p \in Drains, Mark(p) \/ Fail(p)
      PROVE  WalkInOrder'
  <2>1. p = d /\ pc[d] \in {"mark", "fail"} /\ todo[d] # << >>
    BY <1>5 DEF Mark, Fail, DrainInv, InHand
  <2> QED
    BY <1>5, <2>1, SettleInOrder DEF Mark, Fail
<1>6. ASSUME NEW p \in Drains, NEW cleanup \in BOOLEAN, Start(p, cleanup)
      PROVE  WalkInOrder'
  <2>1. UNCHANGED <<row, todo>> /\ pc'[d] = "list"
    BY <1>6 DEF Start, table, Goto, DrainInv, OutboxTypes
  <2> QED
    BY <1>1, <2>1
<1>7. ASSUME NEW p \in Drains, Open(p) \/ Write(p) \/ Rename(p) \/ IOError(p)
      PROVE  WalkInOrder'
  <2>1. UNCHANGED <<row, todo>> /\ pc[d] \in {"open", "write", "rename"}
    BY <1>7 DEF Open, Write, Rename, IOError, table
  <2> QED
    BY <1>1, <2>1
<1>8. ASSUME NEW p \in Drains, Crash(p)
      PROVE  WalkInOrder'
  <2>1. UNCHANGED row /\ pc'[d] = "idle" /\ todo'[d] = << >>
    BY <1>8 DEF Crash, table, Goto, DrainInv, OutboxTypes
  <2> QED
    BY <2>1 DEF WalkInOrder
<1>9. CASE Age \/ UNCHANGED vars
  BY <1>1, <1>9 DEF Age, table, vars
<1> QED
  BY <1>2, <1>3, <1>4, <1>5, <1>6, <1>7, <1>8, <1>9 DEF Next, Step

\* What the abstract export sees of a step that is not one of its own.
SeenUnchanged ==
    UNCHANGED <<{e \in Events : Whole(e)}, {e \in Events : row[e] = "exported"},
                {e \in Events : row[e] = "failed"}>>

\* The rename publishes the event in hand: the elder events are settled.
LEMMA RenamePublishes ==
    ASSUME NEW d, Drains = {d}, AloneInv, Rename(d)
    PROVE  Abstract!Publish(Current(d)) /\ Current(d) \in Events
<1> DEFINE c == Current(d)
<1>1. pc[d] = "rename" /\ todo[d] # << >> /\ c \in Events
      /\ c = todo[d][1] /\ 1 \in DOMAIN todo[d]
  BY CurrentIsEvent DEF Rename, AloneInv, DrainInv, InHand
<1>2. tmp[c] # None /\ content[tmp[c]] = "full"
  BY <1>1 DEF AloneInv, FilesApart
<1>3. final' = [final EXCEPT ![c] = tmp[c]] /\ UNCHANGED <<row, content>>
  BY <1>2 DEF Rename, table
<1>4. \A e \in Events : Whole(e) <=> final[e] # None
  BY DEF AloneInv, FilesApart, Whole
<1>5. \A e \in Events : Whole(e)' <=> (Whole(e) \/ e = c)
  BY <1>1, <1>2, <1>3, <1>4 DEF Whole, AloneInv, DrainInv, OutboxTypes
<1>6. ASSUME NEW e \in Events, e < c
      PROVE  Whole(e) \/ row[e] = "failed"
  <2>1. row[e] \in RowStates /\ row[e] # "none"
    BY <1>1, <1>6 DEF AloneInv, WalkInOrder, DrainInv, OutboxTypes
  <2>2. row[e] # "pending"
    <3>1. \A f \in Events : f \in Nat
      BY OutboxAssumption DEF Events
    <3>2. \A i \in DOMAIN todo[d] : i # 1 => c < todo[d][i]
      <4>1. todo[d] \in Seq(Events)
        BY DEF AloneInv, DrainInv, OutboxTypes
      <4>2. \A i \in DOMAIN todo[d] : i # 1 => 1 < i
        BY <4>1
      <4> QED
        BY <1>1, <4>2 DEF AloneInv, WalkInOrder
    <3>3. \A i \in DOMAIN todo[d] : todo[d][i] \in Events
      BY DEF AloneInv, DrainInv, OutboxTypes
    <3>4. \A i \in DOMAIN todo[d] : todo[d][i] # e
      <4> SUFFICES ASSUME NEW i \in DOMAIN todo[d], todo[d][i] = e PROVE FALSE
        OBVIOUS
      <4>1. c \in Nat /\ e \in Nat /\ e < c
        BY <1>1, <1>6, <3>1
      <4>2. i # 1
        BY <1>1, <4>1
      <4> QED
        BY <3>2, <4>1, <4>2
    <3>5. ~\A i \in DOMAIN todo[d] : todo[d][i] < e
      <4>1. c \in Nat /\ e \in Nat /\ e < c
        BY <1>1, <1>6, <3>1
      <4> QED
        BY <1>1, <4>1
    <3> QED
      BY <1>1, <3>4, <3>5 DEF AloneInv, WalkInOrder
  <2>3. row[e] = "exported" => Whole(e)
    BY <1>4 DEF AloneInv, DrainInv, ExportedHaveFiles
  <2> QED
    BY <2>1, <2>2, <2>3 DEF RowStates
<1> HIDE DEF c
<1>7. Abstract!Publish(c)
  <2>1. \A e \in Events : e < c => e \in {f \in Events : Whole(f)} \cup {f \in Events : row[f] = "failed"}
    BY <1>6
  <2>2. {f \in Events : Whole(f)}' = {f \in Events : Whole(f)} \cup {c}
    BY <1>1, <1>5
  <2> QED
    BY <1>3, <2>1, <2>2 DEF Abstract!Publish
<1> QED
  BY <1>1, <1>7 DEF c

\* Settling is the abstract export's, of an event whose file is there; giving up is of
\* one that is not exported yet.
LEMMA SettleSettles ==
    ASSUME NEW d, Drains = {d}, AloneInv, todo[d] # << >>, UNCHANGED <<final, content>>,
           NEW state \in {"failed", "exported"}, state = "exported" => pc[d] = "mark",
           Settle(d, state)
    PROVE  \E e \in Events : Abstract!Settle(e) \/ Abstract!GiveUp(e)
<1> DEFINE c == Current(d)
<1>1. c \in Events /\ c = todo[d][1] /\ 1 \in DOMAIN todo[d]
  BY CurrentIsEvent DEF AloneInv
<1>2. row' = [row EXCEPT ![c] = state] /\ row \in [Events -> RowStates]
  BY SettleFacts DEF AloneInv, DrainInv, OutboxTypes
<1>3. row[c] \in {"pending", "failed"}
  BY <1>1 DEF AloneInv, WalkInOrder
<1>4. \A e \in Events : Whole(e)' <=> Whole(e)
  BY DEF Whole
<1>5. pc[d] = "mark" => Whole(c)
  BY <1>1 DEF AloneInv, DrainInv, ExportedHaveFiles, FilesApart, Whole
<1> HIDE DEF c
<1>6. CASE state = "exported"
  BY <1>1, <1>2, <1>3, <1>4, <1>5, <1>6 DEF Abstract!Settle
<1>7. CASE state = "failed"
  BY <1>1, <1>2, <1>3, <1>4, <1>7 DEF Abstract!GiveUp
<1> QED
  BY <1>1, <1>6, <1>7

LEMMA StepExports ==
    ASSUME NEW d, Drains = {d}, AloneInv, [Next]_vars
    PROVE  Abstract!Next \/ SeenUnchanged
<1>1. \A e \in Events : Whole(e) <=> final[e] # None
  BY DEF AloneInv, FilesApart, Whole
<1>2. ASSUME UNCHANGED <<row, final, content>>
      PROVE  SeenUnchanged
  BY <1>2 DEF SeenUnchanged, Whole
<1>3. ASSUME NEW e \in Events, Enqueue(e)
      PROVE  SeenUnchanged
  <2>1. /\ row[e] = "none" /\ row' = [row EXCEPT ![e] = "pending"]
        /\ UNCHANGED <<final, content>> /\ row \in [Events -> RowStates]
    BY <1>3 DEF Enqueue, disk, AloneInv, DrainInv, OutboxTypes
  <2>2. \A f \in Events : /\ Whole(f)' <=> Whole(f)
                          /\ row'[f] = "exported" <=> row[f] = "exported"
                          /\ row'[f] = "failed" <=> row[f] = "failed"
    BY <2>1 DEF Whole
  <2> QED
    BY <2>2 DEF SeenUnchanged
<1>4. ASSUME NEW p \in Drains, NEW cleanup \in BOOLEAN, Start(p, cleanup)
      PROVE  SeenUnchanged
  BY <1>2, <1>4 DEF Start, table
<1>5. ASSUME NEW p \in Drains, List(p) \/ IOError(p) \/ Crash(p)
      PROVE  SeenUnchanged
  BY <1>2, <1>5 DEF List, IOError, Crash, table, disk
<1>6. ASSUME NEW p \in Drains, Load(p)
      PROVE  Abstract!Next \/ SeenUnchanged
  <2>1. p = d /\ UNCHANGED <<final, content>>
    BY <1>6 DEF Load, disk
  <2>2. CASE todo[d] # << >> /\ Settle(d, "failed")
    BY <2>1, <2>2, SettleSettles DEF Abstract!Next
  <2>3. CASE UNCHANGED <<table, todo>>
    BY <1>2, <2>1, <2>3 DEF table
  <2> QED
    BY <1>6, <2>1, <2>2, <2>3 DEF Load
<1>7. ASSUME NEW p \in Drains, Open(p)
      PROVE  SeenUnchanged
  <2>1. PICK i \in Inodes :
             /\ Current(p) \in Events
             /\ tmp[Current(p)] # None => i = tmp[Current(p)]
             /\ tmp[Current(p)] = None => i \notin Linked
             /\ content' = [content EXCEPT ![i] = "empty"]
             /\ UNCHANGED <<row, final>>
    BY <1>7, OpenFacts DEF AloneInv
  <2>2. \A f \in Events : i # final[f]
    BY <2>1 DEF Linked, AloneInv, FilesApart
  <2>3. \A f \in Events : Whole(f)' <=> Whole(f)
    BY <2>1, <2>2 DEF Whole, AloneInv, DrainInv, OutboxTypes
  <2> QED
    BY <2>1, <2>3 DEF SeenUnchanged
<1>8. ASSUME NEW p \in Drains, Write(p)
      PROVE  SeenUnchanged
  <2>1. content' = [content EXCEPT ![fd[p]] = "full"] /\ UNCHANGED <<row, final>>
    BY <1>8 DEF Write, table
  <2>2. \A f \in Events : final[f] # None => content'[final[f]] = "full"
    BY <1>1, <2>1 DEF Whole, AloneInv, FilesApart, DrainInv, OutboxTypes, Links
  <2>3. \A f \in Events : Whole(f)' <=> Whole(f)
    BY <1>1, <2>1, <2>2 DEF Whole
  <2> QED
    BY <2>1, <2>3 DEF SeenUnchanged
<1>9. ASSUME NEW p \in Drains, Rename(p)
      PROVE  Abstract!Next
  BY <1>9, RenamePublishes DEF Abstract!Next
<1>10. ASSUME NEW p \in Drains, Mark(p) \/ Fail(p)
      PROVE  Abstract!Next
  <2>1. p = d /\ todo[d] # << >> /\ UNCHANGED <<final, content>>
    BY <1>10 DEF Mark, Fail, disk, AloneInv, DrainInv, InHand
  <2> QED
    BY <1>10, <2>1, SettleSettles DEF Mark, Fail, Abstract!Next
<1>11. CASE Age \/ UNCHANGED vars
  BY <1>2, <1>11 DEF Age, table, vars
<1> QED
  BY <1>3, <1>4, <1>5, <1>6, <1>7, <1>8, <1>9, <1>10, <1>11 DEF Next, Step

\* A drain that is alone exports as the abstract specification says, whatever dies or
\* fails and however often it is run: each file appears whole or not at all and stays,
\* after every elder event has its file or was given up, and a row is settled as
\* exported only when its file is there.
THEOREM ExportIsAtomic == \A d : Drains = {d} => (Spec => AtomicPerEvent)
<1> SUFFICES ASSUME NEW d, Drains = {d} PROVE Spec => AtomicPerEvent
  OBVIOUS
<1>1. Init => Abstract!Init
  BY DEF Init, Abstract!Init, Whole
<1>2. AloneInv /\ [Next]_vars => AloneInv'
  BY NextDrainInv, NextApart, NextInOrder DEF AloneInv
<1>3. AloneInv /\ [Next]_vars =>
        [Abstract!Next]_<<{e \in Events : Whole(e)}, {e \in Events : row[e] = "exported"},
                          {e \in Events : row[e] = "failed"}>>
  BY StepExports DEF SeenUnchanged
<1> QED
  BY <1>1, <1>2, <1>3, InitAlone, PTL DEF Spec, AtomicPerEvent, Abstract!Spec

-----------------------------------------------------------------------------
(* Imports: sequences, and what a fold over one computes *)

\* Values of any kind in a row.
IsSeq(s) == \E S : s \in Seq(S)

LEMMA EmptyIsSeq == IsSeq(<< >>)
<1>1. << >> \in Seq({})
  OBVIOUS
<1> QED
  BY <1>1 DEF IsSeq

LEMMA AppendIs ==
    ASSUME NEW s, IsSeq(s), NEW e
    PROVE  /\ Len(s) \in Nat /\ DOMAIN s = 1..Len(s)
           /\ IsSeq(Append(s, e)) /\ Len(Append(s, e)) = Len(s) + 1
           /\ DOMAIN Append(s, e) = 1..(Len(s) + 1)
           /\ Append(s, e)[Len(s) + 1] = e
           /\ \A i \in 1..Len(s) : Append(s, e)[i] = s[i]
<1>1. PICK S : s \in Seq(S)
  BY DEF IsSeq
<1>2. s \in Seq(S \cup {e})
  BY <1>1
<1>3. Append(s, e) \in Seq(S \cup {e})
  BY <1>2
<1> QED
  BY <1>2, <1>3 DEF IsSeq

LEMMA IsSeqFacts ==
    /\ \A S : \A s \in Seq(S) : IsSeq(s)
    /\ \A s : IsSeq(s) => Len(s) \in Nat /\ DOMAIN s = 1..Len(s)
<1>1. \A s : IsSeq(s) => Len(s) \in Nat /\ DOMAIN s = 1..Len(s)
  BY DEF IsSeq
<1>2. \A S : \A s \in Seq(S) : IsSeq(s)
  BY DEF IsSeq
<1> QED
  BY <1>1, <1>2

LEMMA MaxIs ==
    ASSUME NEW n \in Nat, NEW s, s \subseteq 1..n, s # {}
    PROVE  Max(s) \in s /\ \A j \in s : Max(s) >= j
<1> DEFINE below == {k \in Nat : n - k \in s}
<1>1. below \subseteq Nat /\ below # {}
  <2>1. PICK i \in s : i \in 1..n
    OBVIOUS
  <2>2. n - (n - i) = i /\ n - i \in Nat
    BY <2>1
  <2> QED
    BY <2>1, <2>2
<1>2. PICK k \in below : \A j \in below : k <= j
  BY <1>1, LeastNatural
<1>3. n - k \in s /\ k \in Nat
  BY <1>2
<1>4. \A j \in s : n - k >= j
  <2> TAKE j \in s
  <2>1. j \in 1..n /\ n - (n - j) = j /\ n - j \in Nat
    OBVIOUS
  <2>2. k <= n - j
    BY <1>2, <2>1
  <2> QED
    BY <1>3, <2>1, <2>2
<1> QED
  BY <1>3, <1>4 DEF Max

LEMMA TopIs ==
    ASSUME NEW m \in Nat, NEW s, s \subseteq 1..(m + 1), m + 1 \in s
    PROVE  Max(s) = m + 1 /\ s \ {m + 1} \subseteq 1..m
<1>1. Max(s) \in s /\ Max(s) >= m + 1
  <2>1. m + 1 \in Nat /\ s # {}
    OBVIOUS
  <2> QED
    BY <2>1, MaxIs
<1>2. Max(s) \in 1..(m + 1)
  BY <1>1
<1> QED
  BY <1>1, <1>2

LEMMA LowIs ==
    ASSUME NEW m \in Nat, NEW s, s \subseteq 1..(m + 1), m + 1 \notin s, s # {}
    PROVE  s \subseteq 1..m /\ Max(s) \in 1..m /\ s \ {Max(s)} \subseteq 1..m
<1>1. s \subseteq 1..m
  OBVIOUS
<1> QED
  BY <1>1, MaxIs

LEMMA ChangeIs ==
    ASSUME NEW s, IsSeq(s), NEW k \in DOMAIN s, NEW e
    PROVE  LET t == [s EXCEPT ![k] = e] IN
           /\ IsSeq(t) /\ Len(t) = Len(s) /\ DOMAIN t = DOMAIN s /\ t[k] = e
           /\ \A i \in DOMAIN s : i # k => t[i] = s[i]
<1>1. PICK S : s \in Seq(S)
  BY DEF IsSeq
<1>2. s \in Seq(S \cup {e})
  BY <1>1
<1> DEFINE T == S \cup {e}
<1> HIDE DEF T
<1>3. e \in T /\ s \in Seq(T)
  BY <1>2 DEF T
<1>4. [s EXCEPT ![k] = e] \in Seq(T) /\ Len([s EXCEPT ![k] = e]) = Len(s)
  BY <1>3
<1> QED
  BY <1>3, <1>4 DEF IsSeq

-----------------------------------------------------------------------------
(* The rows of a journal, and lines written to it *)

\* The ids that the server makes up number the rows; no other id begins like one.
LedgerIs(rows) ==
    /\ IsSeq(rows) /\ Sound(rows)
    /\ \A i \in DOMAIN rows :
         rows[i].id = <<"row", i>> \/ (rows[i].id # Nothing /\ rows[i].id[1] # "row")
Grows(a, b) == \A i \in DOMAIN a : i \in DOMAIN b /\ b[i] = a[i]
RowOf(rows, by, line) ==
    \E i \in DOMAIN rows :
        /\ rows[i].body = line.body /\ rows[i].ref = line.ref /\ rows[i].key = line.key
        /\ line.key = Nothing => rows[i].by = by
By(rows, n) == {i \in DOMAIN rows : rows[i].by = n}
LinesAre(lines) ==
    /\ \E n \in Nat : DOMAIN lines = 1..n
    /\ \A i \in DOMAIN lines : Stated(lines[i].id)

LEMMA GrowsFacts ==
    /\ \A a : Grows(a, a)
    /\ \A a, b, c : Grows(a, b) /\ Grows(b, c) => Grows(a, c)
    /\ \A a, b, by, line : Grows(a, b) /\ RowOf(a, by, line) => RowOf(b, by, line)
<1>1. \A a : Grows(a, a)
  BY DEF Grows
<1>2. \A a, b, c : Grows(a, b) /\ Grows(b, c) => Grows(a, c)
  BY DEF Grows
<1>3. \A a, b, by, line : Grows(a, b) /\ RowOf(a, by, line) => RowOf(b, by, line)
  BY DEF Grows, RowOf
<1> QED
  BY <1>1, <1>2, <1>3

\* A new row, whose id is the server's or one that no row has.
LEMMA InsertedIs ==
    ASSUME NEW rows, LedgerIs(rows), NEW line, Stated(line.id), NEW by,
           WithKey(rows, line.key) = {}, line.id \notin Ids(rows), line.ref \in Ids(rows) \cup {Nothing}
    PROVE  LET all == Inserted(rows, line, by) IN
           /\ LedgerIs(all) /\ Grows(rows, all) /\ RowOf(all, by, line)
           /\ \A i \in DOMAIN all \ DOMAIN rows : all[i].by = by /\ all[i].body = line.body
<1> DEFINE k == Len(rows) + 1
           added == [id |-> IF line.id = Nothing THEN <<"row", k>> ELSE line.id,
                   key |-> line.key, ref |-> line.ref, body |-> line.body, by |-> by]
           all == Inserted(rows, line, by)
<1>1. all = Append(rows, added)
  BY DEF Inserted
<1>2. /\ Len(rows) \in Nat /\ DOMAIN rows = 1..Len(rows) /\ IsSeq(all)
      /\ DOMAIN all = 1..k /\ all[k] = added /\ \A i \in 1..Len(rows) : all[i] = rows[i]
  BY <1>1, AppendIs DEF LedgerIs
<1>3. /\ added.key = line.key /\ added.ref = line.ref /\ added.body = line.body /\ added.by = by
      /\ added.id = IF line.id = Nothing THEN <<"row", k>> ELSE line.id
  OBVIOUS
<1> HIDE DEF all, added, k
<1>4. k \in Nat /\ k = Len(rows) + 1 /\ DOMAIN all = DOMAIN rows \cup {k} /\ k \notin DOMAIN rows
  BY <1>2 DEF k
<1>5. added.id = <<"row", k>> \/ (added.id # Nothing /\ added.id[1] # "row")
  BY <1>3 DEF Stated
<1>6. \A i \in DOMAIN rows : rows[i].id # added.id
  <2> SUFFICES ASSUME NEW i \in DOMAIN rows, rows[i].id = added.id PROVE FALSE
    OBVIOUS
  <2>1. rows[i].id = <<"row", i>> \/ (rows[i].id # Nothing /\ rows[i].id[1] # "row")
    BY DEF LedgerIs
  <2>2. i # k
    BY <1>4
  <2>3. CASE line.id = Nothing
    <3>1. <<"row", k>>[1] = "row" /\ <<"row", i>> # <<"row", k>>
      BY <2>2
    <3> QED
      BY <1>3, <2>1, <2>3, <3>1
  <2>4. CASE line.id # Nothing
    BY <1>3, <2>4 DEF Ids
  <2> QED
    BY <2>3, <2>4
<1>7. \A i \in DOMAIN rows : rows[i].key = added.key => added.key = Nothing
  BY <1>3 DEF WithKey
<1>8. added.ref = Nothing \/ \E j \in DOMAIN rows : rows[j].id = added.ref
  BY <1>3 DEF Ids
<1>9. Sound(all)
  <2>1. Sound(rows)
    BY DEF LedgerIs
  <2>2. ASSUME NEW i \in DOMAIN all, NEW j \in DOMAIN all, i # j
        PROVE  all[i].id # all[j].id /\ (all[i].key = all[j].key => all[i].key = Nothing)
    <3>1. CASE i \in DOMAIN rows /\ j \in DOMAIN rows
      BY <1>2, <2>1, <2>2, <3>1 DEF Sound
    <3>2. CASE i = k
      BY <1>2, <1>4, <1>6, <1>7, <2>2, <3>2
    <3>3. CASE j = k
      BY <1>2, <1>4, <1>6, <1>7, <2>2, <3>3
    <3> QED
      BY <1>4, <3>1, <3>2, <3>3
  <2>3. ASSUME NEW i \in DOMAIN all
        PROVE  all[i].ref = Nothing \/ \E j \in 1..(i - 1) : all[j].id = all[i].ref
    <3>1. CASE i = k
      <4>1. \A j \in DOMAIN rows : j \in 1..(i - 1) /\ all[j] = rows[j]
        BY <1>2, <1>4, <3>1
      <4> QED
        BY <1>2, <1>8, <3>1, <4>1
    <3>2. CASE i \in DOMAIN rows
      <4>1. i \in Nat /\ \A j \in 1..(i - 1) : j \in 1..Len(rows)
        BY <1>2, <3>2
      <4>2. rows[i].ref = Nothing \/ \E j \in 1..(i - 1) : rows[j].id = rows[i].ref
        BY <2>1, <3>2 DEF Sound
      <4> QED
        BY <1>2, <3>2, <4>1, <4>2
    <3> QED
      BY <1>4, <3>1, <3>2
  <2> QED
    BY <2>2, <2>3 DEF Sound
<1>10. LedgerIs(all)
  <2>1. \A i \in DOMAIN all : all[i].id = <<"row", i>> \/ (all[i].id # Nothing /\ all[i].id[1] # "row")
    BY <1>2, <1>4, <1>5 DEF LedgerIs
  <2> QED
    BY <1>2, <1>9, <2>1 DEF LedgerIs
<1>11. Grows(rows, all)
  BY <1>2, <1>4 DEF Grows
<1>12. RowOf(all, by, line)
  BY <1>2, <1>3, <1>4 DEF RowOf
<1> QED
  BY <1>2, <1>3, <1>4, <1>10, <1>11, <1>12 DEF all

LEMMA AfterLineIs ==
    ASSUME NEW rows, LedgerIs(rows), NEW line, Stated(line.id), NEW by
    PROVE  LET all == AfterLine(rows, line, by) IN
           /\ LedgerIs(all) /\ Grows(rows, all) /\ LineRefused(rows, line) \in BOOLEAN
           /\ ~LineRefused(rows, line) => RowOf(all, by, line)
           /\ \A i \in DOMAIN all \ DOMAIN rows : all[i].by = by /\ all[i].body = line.body
<1>1. CASE WithKey(rows, line.key) # {}
  <2>1. AfterLine(rows, line, by) = rows
    BY <1>1 DEF AfterLine
  <2>2. LineRefused(rows, line) = \A i \in WithKey(rows, line.key) : <<rows[i].ref, rows[i].body>> # <<line.ref, line.body>>
    BY <1>1 DEF LineRefused
  <2>3. ~LineRefused(rows, line) => RowOf(rows, by, line)
    BY <2>2 DEF RowOf, WithKey
  <2> QED
    BY <2>1, <2>2, <2>3, GrowsFacts
<1>2. CASE WithKey(rows, line.key) = {}
  <2>1. LineRefused(rows, line) = (line.id \in Ids(rows) \/ line.ref \notin Ids(rows) \cup {Nothing})
    BY <1>2 DEF LineRefused
  <2>2. CASE LineRefused(rows, line)
    BY <2>1, <2>2, GrowsFacts DEF AfterLine
  <2>3. CASE ~LineRefused(rows, line)
    <3>1. line.id \notin Ids(rows) /\ line.ref \in Ids(rows) \cup {Nothing}
      BY <2>1, <2>3
    <3>2. AfterLine(rows, line, by) = Inserted(rows, line, by)
      BY <1>2, <2>3 DEF AfterLine
    <3>3. LineRefused(rows, line) \in BOOLEAN
      BY <2>1
    <3> QED
      BY <1>2, <3>1, <3>2, <3>3, InsertedIs
  <2> QED
    BY <2>1, <2>2, <2>3
<1> QED
  BY <1>1, <1>2

\* A replay of lines, one after the other.
PlayOne(done, l, by) ==
    IF l.role # "writer" THEN done
    ELSE [rows |-> AfterLine(done.rows, l, by), refused |-> done.refused \/ LineRefused(done.rows, l)]
IsPlay(it, rows, lines, by, m) ==
    it = [s \in SUBSET (1..m) |-> IF s = {} THEN [rows |-> rows, refused |-> FALSE]
                                  ELSE PlayOne(it[s \ {Max(s)}], lines[Max(s)], by)]

LEMMA PlayExists ==
    ASSUME NEW rows, NEW lines, NEW by, NEW N \in Nat
    PROVE  \E it : IsPlay(it, rows, lines, by, N)
<1> DEFINE Bad == {m \in Nat : ~ \E it : IsPlay(it, rows, lines, by, m)}
           start == [rows |-> rows, refused |-> FALSE]
<1>1. SUFFICES ASSUME Bad # {} PROVE FALSE
  OBVIOUS
<1>2. PICK b \in Bad : \A m \in Bad : b <= m
  BY <1>1, LeastNatural
<1>3. b # 0
  <2> DEFINE it == [s \in SUBSET (1..0) |-> start]
  <2>1. \A s \in SUBSET (1..0) : s = {}
    OBVIOUS
  <2>2. IsPlay(it, rows, lines, by, 0)
    BY <2>1 DEF IsPlay
  <2> HIDE DEF it
  <2> QED
    BY <2>2
<1> DEFINE m == b - 1
<1>4. m \in Nat /\ b = m + 1 /\ m \notin Bad
  BY <1>2, <1>3
<1>5. PICK g : IsPlay(g, rows, lines, by, m)
  BY <1>4
<1> HIDE DEF m
<1> DEFINE h == [s \in SUBSET (1..(m + 1)) |->
                   IF m + 1 \in s THEN PlayOne(g[s \ {m + 1}], lines[m + 1], by) ELSE g[s]]
<1>6. ASSUME NEW s \in SUBSET (1..(m + 1))
      PROVE  h[s] = IF s = {} THEN start ELSE PlayOne(h[s \ {Max(s)}], lines[Max(s)], by)
  <2>1. \A t \in SUBSET (1..m) :
          /\ h[t] = g[t]
          /\ g[t] = IF t = {} THEN start ELSE PlayOne(g[t \ {Max(t)}], lines[Max(t)], by)
    <3> TAKE t \in SUBSET (1..m)
    <3>1. t \in SUBSET (1..(m + 1)) /\ m + 1 \notin t
      BY <1>4
    <3>2. g[t] = IF t = {} THEN start ELSE PlayOne(g[t \ {Max(t)}], lines[Max(t)], by)
      BY <1>5 DEF IsPlay
    <3> QED
      BY <3>1, <3>2
  <2> HIDE DEF start
  <2>2. CASE m + 1 \in s
    <3>1. h[s] = PlayOne(g[s \ {m + 1}], lines[m + 1], by)
      BY <2>2
    <3> HIDE DEF h
    <3>2. Max(s) = m + 1 /\ s \ {m + 1} \in SUBSET (1..m)
      BY <1>4, <2>2, TopIs
    <3> QED
      BY <2>1, <2>2, <3>1, <3>2
  <2>3. CASE m + 1 \notin s /\ s # {}
    <3> HIDE DEF h
    <3>1. s \in SUBSET (1..m) /\ s \ {Max(s)} \in SUBSET (1..m)
      BY <1>4, <2>3, LowIs
    <3> QED
      BY <2>1, <2>3, <3>1
  <2>4. CASE s = {}
    <3>1. s \in SUBSET (1..m)
      BY <2>4
    <3> HIDE DEF h
    <3> QED
      BY <2>1, <2>4, <3>1
  <2> QED
    BY <2>2, <2>3, <2>4
<1>7. h = [s \in SUBSET (1..(m + 1)) |-> h[s]]
  OBVIOUS
<1> HIDE DEF h
<1>8. IsPlay(h, rows, lines, by, m + 1)
  BY <1>6, <1>7 DEF IsPlay
<1> QED
  BY <1>4, <1>8

LEMMA PlayIs ==
    ASSUME NEW rows, NEW lines, NEW by, NEW N \in Nat, DOMAIN lines = 1..N
    PROVE  \E g : /\ g[0] = [rows |-> rows, refused |-> FALSE] /\ g[N] = Replayed(rows, lines, by)
                  /\ \A i \in 1..N : g[i] = PlayOne(g[i - 1], lines[i], by)
<1> DEFINE it == CHOOSE it : IsPlay(it, rows, lines, by, N)
<1>2. Replayed(rows, lines, by) = it[1..N]
  BY DEF Replayed, FoldLeft, MapThenFoldSet, IsPlay, PlayOne
<1>3. IsPlay(it, rows, lines, by, N)
  BY PlayExists
<1> HIDE DEF it
<1> DEFINE g == [i \in 0..N |-> it[1..i]]
<1>4. g[0] = [rows |-> rows, refused |-> FALSE] /\ g[N] = Replayed(rows, lines, by)
  <2>1. 1..0 = {} /\ {} \in SUBSET (1..N)
    OBVIOUS
  <2>2. it[{}] = [rows |-> rows, refused |-> FALSE]
    BY <1>3, <2>1 DEF IsPlay
  <2> QED
    BY <1>2, <2>1, <2>2
<1>5. ASSUME NEW i \in 1..N PROVE g[i] = PlayOne(g[i - 1], lines[i], by)
  <2> DEFINE m == i - 1
  <2>1. m \in Nat /\ i = m + 1 /\ 1..i \in SUBSET (1..N) /\ i \in 1..i /\ g[i] = it[1..i] /\ g[i - 1] = it[1..m]
    OBVIOUS
  <2> HIDE DEF m, g
  <2>2. Max(1..i) = i /\ (1..i) \ {i} = 1..m
    BY <2>1, TopIs
  <2>3. it[1..i] = PlayOne(it[(1..i) \ {Max(1..i)}], lines[Max(1..i)], by)
    BY <1>3, <2>1 DEF IsPlay
  <2> QED
    BY <2>1, <2>2, <2>3
<1> HIDE DEF g
<1> QED
  BY <1>4, <1>5

\* What the first i lines leave behind.
Played(rows, done, lines, by, i) ==
    /\ LedgerIs(done.rows) /\ Grows(rows, done.rows) /\ done.refused \in BOOLEAN
    /\ \A k \in DOMAIN done.rows \ DOMAIN rows :
         /\ done.rows[k].by = by
         /\ \E j \in Replayable(lines) : j <= i /\ lines[j].body = done.rows[k].body
    /\ ~done.refused => \A j \in Replayable(lines) : j <= i => RowOf(done.rows, by, lines[j])

LEMMA PlayOneIs ==
    ASSUME NEW rows, NEW lines, LinesAre(lines), NEW by, NEW done, NEW i \in Nat,
           i + 1 \in DOMAIN lines, Played(rows, done, lines, by, i)
    PROVE  Played(rows, PlayOne(done, lines[i + 1], by), lines, by, i + 1)
<1> DEFINE l == lines[i + 1]
           next == PlayOne(done, l, by)
           old == done.rows
           new == AfterLine(old, l, by)
<1>1. \A j \in Replayable(lines) : j \in Nat /\ (j <= i + 1 <=> j <= i \/ j = i + 1)
  <2>1. \A j \in DOMAIN lines : j \in Nat
    BY DEF LinesAre
  <2>2. \A j \in Nat : j <= i + 1 <=> j <= i \/ j = i + 1
    OBVIOUS
  <2> QED
    BY <2>1, <2>2 DEF Replayable
<1>2. CASE l.role # "writer"
  <2>1. next = done
    BY <1>2 DEF PlayOne
  <2>2. i + 1 \notin Replayable(lines)
    BY <1>2 DEF Replayable
  <2> QED
    BY <1>1, <2>1, <2>2 DEF Played
<1>3. CASE l.role = "writer"
  <2>1. next = [rows |-> new, refused |-> done.refused \/ LineRefused(old, l)]
    BY <1>3 DEF PlayOne
  <2>2. i + 1 \in Replayable(lines)
    BY <1>3 DEF Replayable
  <2>3. LedgerIs(old) /\ Stated(l.id)
    BY DEF Played, LinesAre
  <2>4. /\ LedgerIs(new) /\ Grows(old, new) /\ LineRefused(old, l) \in BOOLEAN
        /\ ~LineRefused(old, l) => RowOf(new, by, l)
        /\ \A k \in DOMAIN new \ DOMAIN old : new[k].by = by /\ new[k].body = l.body
    BY <2>3, AfterLineIs
  <2>5. next.rows = new /\ next.refused = (done.refused \/ LineRefused(old, l))
    BY <2>1
  <2> HIDE DEF next, new
  <2>6. Grows(rows, new) /\ LedgerIs(new) /\ next.refused \in BOOLEAN
    BY <2>4, <2>5, GrowsFacts DEF Played
  <2>7. ASSUME NEW k \in DOMAIN new \ DOMAIN rows
        PROVE  new[k].by = by /\ \E j \in Replayable(lines) : j <= i + 1 /\ lines[j].body = new[k].body
    <3>1. CASE k \in DOMAIN old
      <4>1. new[k] = old[k] /\ k \in DOMAIN old \ DOMAIN rows
        BY <2>4, <3>1 DEF Grows
      <4> QED
        BY <1>1, <4>1 DEF Played
    <3>2. CASE k \notin DOMAIN old
      BY <1>1, <2>2, <2>4, <3>2
    <3> QED
      BY <3>1, <3>2
  <2>8. ASSUME ~next.refused, NEW j \in Replayable(lines), j <= i + 1
        PROVE  RowOf(new, by, lines[j])
    <3>1. CASE j = i + 1
      BY <2>4, <2>5, <2>8, <3>1
    <3>2. CASE j <= i
      <4>1. RowOf(old, by, lines[j])
        BY <2>5, <2>8, <3>2 DEF Played
      <4> QED
        BY <2>4, <4>1, GrowsFacts
    <3> QED
      BY <1>1, <2>8, <3>1, <3>2
  <2> QED
    BY <2>5, <2>6, <2>7, <2>8 DEF Played, next
<1> QED
  BY <1>2, <1>3

\* A replay adds rows of its own only, each of a line; and if none of the lines was
\* refused, each of them has its row.
LEMMA ReplayedIs ==
    ASSUME NEW rows, LedgerIs(rows), NEW lines, LinesAre(lines), NEW by
    PROVE  LET done == Replayed(rows, lines, by) IN
           /\ LedgerIs(done.rows) /\ Grows(rows, done.rows) /\ done.refused \in BOOLEAN
           /\ \A k \in DOMAIN done.rows \ DOMAIN rows :
                /\ done.rows[k].by = by
                /\ \E j \in Replayable(lines) : lines[j].body = done.rows[k].body
           /\ ~done.refused => \A j \in Replayable(lines) : RowOf(done.rows, by, lines[j])
<1>1. PICK N \in Nat : DOMAIN lines = 1..N
  BY DEF LinesAre
<1>2. PICK g : /\ g[0] = [rows |-> rows, refused |-> FALSE] /\ g[N] = Replayed(rows, lines, by)
               /\ \A i \in 1..N : g[i] = PlayOne(g[i - 1], lines[i], by)
  BY <1>1, PlayIs
<1> DEFINE Bad == {i \in 0..N : ~Played(rows, g[i], lines, by, i)}
<1>3. Bad = {}
  <2>1. SUFFICES ASSUME Bad # {} PROVE FALSE
    OBVIOUS
  <2>2. PICK b \in Bad : \A i \in Bad : b <= i
    <3>1. Bad \subseteq Nat
      OBVIOUS
    <3> HIDE DEF Bad
    <3> QED
      BY <2>1, <3>1, LeastNatural
  <2>3. b # 0
    <3>1. g[0].rows = rows /\ g[0].refused = FALSE
      BY <1>2
    <3>2. \A j \in Replayable(lines) : ~(j <= 0)
      BY <1>1 DEF Replayable
    <3>3. Played(rows, g[0], lines, by, 0)
      BY <3>1, <3>2, GrowsFacts DEF Played
    <3> QED
      BY <3>3
  <2> DEFINE i == b - 1
  <2>4. i \in Nat /\ i \in 0..N /\ i + 1 = b /\ b \in 1..N /\ i \notin Bad
    BY <2>2, <2>3
  <2>5. g[b] = PlayOne(g[i], lines[b], by)
    BY <1>2, <2>4
  <2>6. Played(rows, g[i], lines, by, i)
    BY <2>4
  <2> HIDE DEF i
  <2>7. Played(rows, g[b], lines, by, b)
    BY <1>1, <2>4, <2>5, <2>6, PlayOneIs
  <2> QED
    BY <2>7
<1>4. Played(rows, Replayed(rows, lines, by), lines, by, N)
  BY <1>2, <1>3
<1>5. \A j \in Replayable(lines) : j <= N
  BY <1>1 DEF Replayable
<1> QED
  BY <1>4, <1>5 DEF Played

-----------------------------------------------------------------------------
(* The inductive invariant of imports *)

AllIn(rows, n, lines) == \A j \in Replayable(lines) : RowOf(rows, n, lines[j])
FirstIn(rows, n, lines) ==
    \A w \in By(rows, n) : \E j \in Replayable(lines) :
        /\ lines[j].body = rows[w].body
        /\ \A i \in Replayable(lines) : i < j => RowOf(rows, n, lines[i])
FromCsv(im) == "csv" \in DOMAIN im.call /\ Alone(im.call) => im.lines = FillLines(im.call)

\* An import that began, and what it owes to the rows.
ImportIs(rows, n, im) ==
    /\ im = [call |-> im.call, lines |-> im.lines, end |-> im.end]
    /\ im.call \in Commits \cup Fills /\ LinesAre(im.lines)
    /\ im.end = "running" => ~im.call.dry
    /\ im.end = "ok" /\ ~im.call.dry => AllIn(rows, n, im.lines) /\ FromCsv(im)
    /\ im.call.dry \/ (im.end # "ok" /\ im.call.mode = "single") => By(rows, n) = {}
    /\ im.call.halt => FirstIn(rows, n, im.lines)

\* A process is idle or runs an import that did not end, and has come to a place in it.
JobIs(rows, all, files, job) ==
    \/ job = IdleImport
    \/ /\ job.n \in DOMAIN all /\ all[job.n].end = "running"
       /\ LET im == all[job.n] IN
          \/ /\ job.stage = "mapped" /\ im.call \in Fills /\ Artifact(im.call) \in files
             /\ By(rows, job.n) = {}
          \/ FromCsv(im) /\ im.call.mode = "single" /\ job.stage = "examined"
          \/ /\ FromCsv(im) /\ im.call.mode = "single" /\ job.stage = "staged"
             /\ job.rows = Replayed(job.base, im.lines, job.n).rows
             /\ ~Replayed(job.base, im.lines, job.n).refused
          \/ /\ FromCsv(im) /\ im.call.mode = "per_row"
             /\ job \in [stage : {"rows"}, n : Nat, at : Nat, refused : BOOLEAN]
             /\ ~job.refused =>
                  \A i \in Replayable(im.lines) : i < job.at => RowOf(rows, job.n, im.lines[i])

FilesAre(files) ==
    \A a \in DOMAIN files :
        /\ LinesAre(files[a])
        /\ \A f \in Fills : Alone(f) /\ Artifact(f) = a => files[a] = FillLines(f)

ImportInv ==
    /\ LedgerIs(ledger) /\ IsSeq(imports) /\ FilesAre(artifacts)
    /\ \A i \in DOMAIN ledger : ledger[i].by \in 0..Len(imports)
    /\ \A n \in DOMAIN imports : ImportIs(ledger, n, imports[n])
    /\ DOMAIN importing = Importers
    /\ \A p \in Importers : JobIs(ledger, imports, DOMAIN artifacts, importing[p])
    /\ \A p, q \in Importers :
         p # q /\ importing[p] # IdleImport /\ importing[q] # IdleImport => importing[p].n # importing[q].n

LEMMA CallsAre ==
    /\ \A c \in Commits : "csv" \notin DOMAIN c /\ LinesAre(JsonlFiles[c.file])
    /\ \A f \in Fills : "csv" \in DOMAIN f /\ LinesAre(FillLines(f)) /\ ~f.dry
    /\ \A c \in Commits \cup Fills : c.mode \in {"single", "per_row"} /\ c.halt \in BOOLEAN /\ c.dry \in BOOLEAN
<1>1. ASSUME NEW c \in Commits PROVE "csv" \notin DOMAIN c /\ LinesAre(JsonlFiles[c.file])
  <2>1. "csv" \notin DOMAIN c /\ c.file \in DOMAIN JsonlFiles
    BY ImportsAssumption
  <2> DEFINE lines == JsonlFiles[c.file]
  <2>2. lines \in {JsonlFiles[f] : f \in DOMAIN JsonlFiles}
    BY <2>1
  <2>3. \A i \in DOMAIN lines : Stated(lines[i].id)
    BY <2>1, ImportsAssumption
  <2> HIDE DEF lines
  <2>4. Len(lines) \in Nat /\ DOMAIN lines = 1..Len(lines)
    BY <2>2, ImportsAssumption
  <2> QED
    BY <2>1, <2>3, <2>4 DEF LinesAre, lines
<1>2. ASSUME NEW f \in Fills PROVE "csv" \in DOMAIN f /\ LinesAre(FillLines(f)) /\ ~f.dry
  <2>1. "csv" \in DOMAIN f /\ f.csv \in DOMAIN CsvFiles /\ ~f.dry
    BY ImportsAssumption
  <2> DEFINE rows == CsvFiles[f.csv]
  <2>2. rows \in {CsvFiles[g] : g \in DOMAIN CsvFiles}
    BY <2>1
  <2>3. DOMAIN FillLines(f) = DOMAIN rows
    BY DEF FillLines
  <2>4. \A i \in DOMAIN rows : FillLines(f)[i].id = Nothing
    BY DEF FillLines, FillLine
  <2> HIDE DEF rows
  <2>5. Len(rows) \in Nat /\ DOMAIN rows = 1..Len(rows)
    BY <2>2, ImportsAssumption
  <2> QED
    BY <2>1, <2>3, <2>4, <2>5 DEF LinesAre, Stated
<1>3. \A c \in Commits \cup Fills : c.mode \in {"single", "per_row"} /\ c.halt \in BOOLEAN /\ c.dry \in BOOLEAN
  BY ImportsAssumption
<1> QED
  BY <1>1, <1>2, <1>3

LEMMA NoLines == LinesAre(<< >>) /\ Replayable(<< >>) = {} /\ DOMAIN << >> = {}
<1>1. DOMAIN << >> = {}
  OBVIOUS
<1>2. {} = 1..0 /\ 0 \in Nat
  OBVIOUS
<1> QED
  BY <1>1, <1>2 DEF LinesAre, Replayable

\* What others write is nothing to an import.
LEMMA ImportKept ==
    ASSUME NEW a, NEW b, Grows(a, b), NEW n, \A i \in DOMAIN b \ DOMAIN a : b[i].by # n,
           NEW im, ImportIs(a, n, im)
    PROVE  ImportIs(b, n, im)
<1>1. By(b, n) = By(a, n)
  BY DEF By, Grows
<1>2. \A line : RowOf(a, n, line) => RowOf(b, n, line)
  BY GrowsFacts
<1>3. AllIn(a, n, im.lines) => AllIn(b, n, im.lines)
  BY <1>2 DEF AllIn
<1>4. FirstIn(a, n, im.lines) => FirstIn(b, n, im.lines)
  <2>1. \A w \in By(a, n) : b[w] = a[w]
    BY DEF By, Grows
  <2> QED
    BY <1>1, <1>2, <2>1 DEF FirstIn
<1> QED
  BY <1>1, <1>3, <1>4 DEF ImportIs

LEMMA JobKept ==
    ASSUME NEW a, NEW b, Grows(a, b), NEW job, NEW all, NEW others2, NEW files, NEW files2,
           JobIs(a, all, files, job), files \subseteq files2,
           job # IdleImport => /\ job.n \in DOMAIN others2 /\ others2[job.n] = all[job.n]
                               /\ \A i \in DOMAIN b \ DOMAIN a : b[i].by # job.n
    PROVE  JobIs(b, others2, files2, job)
<1>1. CASE job = IdleImport
  BY <1>1 DEF JobIs
<1>2. CASE job # IdleImport
  <2> DEFINE im == all[job.n]
  <2>1. job.n \in DOMAIN others2 /\ others2[job.n] = im /\ im.end = "running"
    BY <1>2 DEF JobIs
  <2>2. By(b, job.n) = By(a, job.n)
    BY <1>2 DEF By, Grows
  <2>3. \A line : RowOf(a, job.n, line) => RowOf(b, job.n, line)
    BY GrowsFacts
  <2> HIDE DEF im
  <2>4. \/ /\ job.stage = "mapped" /\ im.call \in Fills /\ Artifact(im.call) \in files
           /\ By(a, job.n) = {}
        \/ FromCsv(im) /\ im.call.mode = "single" /\ job.stage = "examined"
        \/ /\ FromCsv(im) /\ im.call.mode = "single" /\ job.stage = "staged"
           /\ job.rows = Replayed(job.base, im.lines, job.n).rows
           /\ ~Replayed(job.base, im.lines, job.n).refused
        \/ /\ FromCsv(im) /\ im.call.mode = "per_row"
           /\ job \in [stage : {"rows"}, n : Nat, at : Nat, refused : BOOLEAN]
           /\ ~job.refused =>
                \A i \in Replayable(im.lines) : i < job.at => RowOf(a, job.n, im.lines[i])
    BY <1>2 DEF JobIs, im
  <2>5. \/ /\ job.stage = "mapped" /\ im.call \in Fills /\ Artifact(im.call) \in files2
           /\ By(b, job.n) = {}
        \/ FromCsv(im) /\ im.call.mode = "single" /\ job.stage = "examined"
        \/ /\ FromCsv(im) /\ im.call.mode = "single" /\ job.stage = "staged"
           /\ job.rows = Replayed(job.base, im.lines, job.n).rows
           /\ ~Replayed(job.base, im.lines, job.n).refused
        \/ /\ FromCsv(im) /\ im.call.mode = "per_row"
           /\ job \in [stage : {"rows"}, n : Nat, at : Nat, refused : BOOLEAN]
           /\ ~job.refused =>
                \A i \in Replayable(im.lines) : i < job.at => RowOf(b, job.n, im.lines[i])
    BY <2>2, <2>3, <2>4
  <2> QED
    BY <2>1, <2>5 DEF JobIs
<1> QED
  BY <1>1, <1>2

LEMMA ImportStart == ImportsInit => ImportInv
<1> SUFFICES ASSUME ImportsInit PROVE ImportInv
  OBVIOUS
<1>1. /\ ledger = FirstRows /\ artifacts = << >> /\ imports = << >>
      /\ importing = [p \in Importers |-> IdleImport]
  BY DEF ImportsInit
<1> DEFINE R == [id : Names, key : Names, ref : Names, body : Names, by : {0}]
<1>2. FirstRows \in Seq(R) /\ Sound(FirstRows) /\ \A i \in DOMAIN FirstRows : FirstRows[i].id # Nothing /\ Stated(FirstRows[i].id)
  BY ImportsAssumption
<1>3. \A r \in R : r.by = 0
  OBVIOUS
<1> HIDE DEF R
<1>4. \A i \in DOMAIN FirstRows : FirstRows[i] \in R
  BY <1>2
<1>5. LedgerIs(ledger)
  BY <1>1, <1>2, IsSeqFacts DEF LedgerIs, Stated
<1>6. Len(<< >>) = 0 /\ 0 \in 0..0
  OBVIOUS
<1>7. \A i \in DOMAIN ledger : ledger[i].by \in 0..Len(imports)
  BY <1>1, <1>3, <1>4, <1>6
<1>8. \A p \in Importers : importing[p] = IdleImport
  BY <1>1
<1>9. FilesAre(artifacts) /\ \A n \in DOMAIN imports : ImportIs(ledger, n, imports[n])
  BY <1>1, NoLines DEF FilesAre
<1> QED
  BY <1>1, <1>5, <1>7, <1>8, <1>9, EmptyIsSeq DEF ImportInv, JobIs

\* One import goes on or begins, and the others keep what they have.
LEMMA OneGoesOn ==
    ASSUME ImportInv, NEW p \in Importers, NEW n, NEW job,
           LedgerIs(ledger'), Grows(ledger, ledger'),
           \A i \in DOMAIN ledger' \ DOMAIN ledger : ledger'[i].by = n,
           IsSeq(imports'), n \in DOMAIN imports', DOMAIN imports \subseteq DOMAIN imports',
           DOMAIN imports' \subseteq DOMAIN imports \cup {n},
           \A m \in DOMAIN imports : m # n => imports'[m] = imports[m],
           ImportIs(ledger', n, imports'[n]),
           importing' = [importing EXCEPT ![p] = job] \/ (UNCHANGED importing /\ importing[p] = job),
           job # IdleImport => job.n = n,
           JobIs(ledger', imports', DOMAIN artifacts', job),
           (importing[p] # IdleImport /\ importing[p].n = n) \/ n \notin DOMAIN imports,
           FilesAre(artifacts'), DOMAIN artifacts \subseteq DOMAIN artifacts'
    PROVE  ImportInv'
<1>1. /\ Len(imports) \in Nat /\ DOMAIN imports = 1..Len(imports)
      /\ Len(imports') \in Nat /\ DOMAIN imports' = 1..Len(imports') /\ Len(imports) <= Len(imports')
  <2>1. /\ Len(imports) \in Nat /\ DOMAIN imports = 1..Len(imports)
        /\ Len(imports') \in Nat /\ DOMAIN imports' = 1..Len(imports')
    BY IsSeqFacts DEF ImportInv
  <2>2. Len(imports) = 0 \/ Len(imports) \in DOMAIN imports'
    BY <2>1
  <2> QED
    BY <2>1, <2>2
<1>2. \A i \in DOMAIN ledger' : ledger'[i].by \in 0..Len(imports')
  <2> TAKE i \in DOMAIN ledger'
  <2>1. CASE i \in DOMAIN ledger
    <3>1. ledger'[i].by \in 0..Len(imports)
      BY <2>1 DEF Grows, ImportInv
    <3> QED
      BY <1>1, <3>1
  <2>2. CASE i \notin DOMAIN ledger
    <3>1. ledger'[i].by \in 1..Len(imports')
      BY <1>1, <2>2
    <3> QED
      BY <3>1
  <2> QED
    BY <2>1, <2>2
<1>3. \A m \in DOMAIN imports' : ImportIs(ledger', m, imports'[m])
  <2> TAKE m \in DOMAIN imports'
  <2>1. CASE m = n
    BY <2>1
  <2>2. CASE m # n
    <3>1. m \in DOMAIN imports /\ imports'[m] = imports[m] /\ ImportIs(ledger, m, imports[m])
      BY <2>2 DEF ImportInv
    <3>2. \A i \in DOMAIN ledger' \ DOMAIN ledger : ledger'[i].by # m
      BY <2>2
    <3> QED
      BY <3>1, <3>2, ImportKept
  <2> QED
    BY <2>1, <2>2
<1>4. /\ DOMAIN importing' = Importers /\ importing'[p] = job
      /\ \A q \in Importers : q # p => importing'[q] = importing[q]
  BY DEF ImportInv
<1>5. ASSUME NEW q \in Importers, q # p, importing[q] # IdleImport
      PROVE  importing[q].n \in DOMAIN imports /\ importing[q].n # n
  <2>1. importing[q].n \in DOMAIN imports
    BY <1>5 DEF ImportInv, JobIs
  <2>2. importing[p] # IdleImport => importing[p].n # importing[q].n
    BY <1>5 DEF ImportInv
  <2> QED
    BY <2>1, <2>2
<1>6. \A q \in Importers : JobIs(ledger', imports', DOMAIN artifacts', importing'[q])
  <2> TAKE q \in Importers
  <2>1. CASE q = p
    BY <1>4, <2>1
  <2>2. CASE q # p
    <3>1. importing'[q] = importing[q] /\ JobIs(ledger, imports, DOMAIN artifacts, importing[q])
      BY <1>4, <2>2 DEF ImportInv
    <3>2. importing[q] # IdleImport =>
            /\ importing[q].n \in DOMAIN imports' /\ imports'[importing[q].n] = imports[importing[q].n]
            /\ \A i \in DOMAIN ledger' \ DOMAIN ledger : ledger'[i].by # importing[q].n
      BY <1>5, <2>2
    <3> QED
      BY <3>1, <3>2, JobKept
  <2> QED
    BY <2>1, <2>2
<1>7. \A a, b \in Importers :
        a # b /\ importing'[a] # IdleImport /\ importing'[b] # IdleImport => importing'[a].n # importing'[b].n
  <2> SUFFICES ASSUME NEW a \in Importers, NEW b \in Importers, a # b,
                      importing'[a] # IdleImport, importing'[b] # IdleImport
               PROVE  importing'[a].n # importing'[b].n
    OBVIOUS
  <2>1. CASE a = p
    BY <1>4, <1>5, <2>1
  <2>2. CASE b = p
    BY <1>4, <1>5, <2>2
  <2>3. CASE a # p /\ b # p
    BY <1>4, <2>3 DEF ImportInv
  <2> QED
    BY <2>1, <2>2, <2>3
<1> QED
  BY <1>2, <1>3, <1>4, <1>6, <1>7 DEF ImportInv

LEMMA OneEnds ==
    ASSUME ImportInv, NEW p \in Importers, importing[p] # IdleImport, NEW end,
           Ends(p, importing[p].n, end), UNCHANGED artifacts,
           LedgerIs(ledger'), Grows(ledger, ledger'),
           \A i \in DOMAIN ledger' \ DOMAIN ledger : ledger'[i].by = importing[p].n,
           LET im == imports[importing[p].n] IN
           ImportIs(ledger', importing[p].n, [call |-> im.call, lines |-> im.lines, end |-> end])
    PROVE  ImportInv'
<1> DEFINE n == importing[p].n
           im == imports[n]
           new == [call |-> im.call, lines |-> im.lines, end |-> end]
<1>1. n \in DOMAIN imports /\ ImportIs(ledger, n, im) /\ IsSeq(imports) /\ FilesAre(artifacts)
  BY DEF ImportInv, JobIs
<1>2. im = [call |-> im.call, lines |-> im.lines, end |-> im.end]
  BY <1>1 DEF ImportIs
<1>3. imports' = [imports EXCEPT ![n] = new]
  <2>1. [im EXCEPT !.end = end] = new
    BY <1>2
  <2>2. imports' = [imports EXCEPT ![n] = [im EXCEPT !.end = end]]
    BY DEF Ends
  <2> QED
    BY <2>1, <2>2
<1> HIDE DEF new, im, n
<1>4. /\ IsSeq(imports') /\ DOMAIN imports' = DOMAIN imports /\ imports'[n] = new
      /\ \A i \in DOMAIN imports : i # n => imports'[i] = imports[i]
  BY <1>1, <1>3, ChangeIs
<1>5. importing' = [importing EXCEPT ![p] = IdleImport]
  BY DEF Ends
<1>6. ImportIs(ledger', n, imports'[n]) /\ importing[p].n = n /\ \A i \in DOMAIN ledger' \ DOMAIN ledger : ledger'[i].by = n
  BY <1>4 DEF new, im, n
<1>7. JobIs(ledger', imports', DOMAIN artifacts', IdleImport)
  BY DEF JobIs
<1> QED
  BY <1>1, <1>4, <1>5, <1>6, <1>7, OneGoesOn

LEMMA SameLedger == UNCHANGED ledger => Grows(ledger, ledger') /\ DOMAIN ledger' \ DOMAIN ledger = {}
  BY GrowsFacts

\* An import that ends without an answer of ok has written what it had written.
LEMMA EndsBadly ==
    ASSUME ImportInv, NEW p \in Importers, importing[p] # IdleImport, NEW end, end \in {"refused", "died"},
           Ends(p, importing[p].n, end), UNCHANGED <<ledger, artifacts>>
    PROVE  ImportInv'
<1> DEFINE n == importing[p].n
           im == imports[n]
           new == [call |-> im.call, lines |-> im.lines, end |-> end]
<1>1. n \in DOMAIN imports /\ ImportIs(ledger, n, im) /\ im.end = "running" /\ LedgerIs(ledger)
  BY DEF ImportInv, JobIs
<1>2. new.call = im.call /\ new.lines = im.lines /\ new.end = end
  OBVIOUS
<1>3. new = [call |-> new.call, lines |-> new.lines, end |-> new.end]
  OBVIOUS
<1> HIDE DEF new, im
<1>4. ImportIs(ledger, n, new)
  BY <1>1, <1>2, <1>3 DEF ImportIs
<1> QED
  BY <1>1, <1>4, SameLedger, OneEnds DEF new, im

LEMMA MapStep ==
    ASSUME ImportInv, NEW p \in Importers, NEW fill \in Fills, MapCsv(p, fill)
    PROVE  ImportInv'
<1> DEFINE new == [call |-> fill, lines |-> << >>, end |-> "running"]
           n == Len(imports) + 1
           job == [stage |-> "mapped", n |-> n]
           a == Artifact(fill)
<1>1. /\ IsSeq(imports) /\ LedgerIs(ledger) /\ FilesAre(artifacts) /\ Len(imports) \in Nat
      /\ DOMAIN imports = 1..Len(imports)
  BY IsSeqFacts DEF ImportInv
<1>2. /\ imports' = Append(imports, new) /\ importing' = [importing EXCEPT ![p] = job] /\ ledger' = ledger
      /\ artifacts' = [x \in DOMAIN artifacts \cup {a} |-> IF x = a THEN FillLines(fill) ELSE artifacts[x]]
  BY DEF MapCsv
<1>3. /\ new.call = fill /\ new.lines = << >> /\ new.end = "running"
      /\ new = [call |-> new.call, lines |-> new.lines, end |-> new.end]
      /\ job.stage = "mapped" /\ job.n = n
  OBVIOUS
<1>n. n \in Nat /\ n = Len(imports) + 1 /\ n \notin DOMAIN imports
  BY <1>1
<1> HIDE DEF new, job, n, a
<1>4. /\ IsSeq(imports') /\ DOMAIN imports' = DOMAIN imports \cup {n} /\ imports'[n] = new
      /\ \A m \in DOMAIN imports : imports'[m] = imports[m]
  BY <1>1, <1>2, <1>n, AppendIs
<1>5. By(ledger, n) = {}
  <2>1. \A i \in DOMAIN ledger : ledger[i].by \in 0..Len(imports)
    BY DEF ImportInv
  <2> QED
    BY <1>1, <1>n, <2>1 DEF By
<1>6. ImportIs(ledger, n, new)
  BY <1>3, <1>5, CallsAre, NoLines DEF ImportIs, FirstIn
<1>7. FilesAre(artifacts')
  <2> SUFFICES ASSUME NEW x \in DOMAIN artifacts'
               PROVE  /\ LinesAre(artifacts'[x])
                      /\ \A f \in Fills : Alone(f) /\ Artifact(f) = x => artifacts'[x] = FillLines(f)
    BY DEF FilesAre
  <2>1. CASE x = a
    <3>1. artifacts'[x] = FillLines(fill)
      BY <1>2, <2>1
    <3>2. \A f \in Fills : Alone(f) /\ Artifact(f) = x => f = fill
      BY <2>1 DEF Alone, a
    <3> QED
      BY <3>1, <3>2, CallsAre
  <2>2. CASE x # a
    BY <1>1, <1>2, <2>2 DEF FilesAre
  <2> QED
    BY <2>1, <2>2
<1>8. JobIs(ledger, imports', DOMAIN artifacts', job)
  <2>1. a \in DOMAIN artifacts'
    BY <1>2
  <2> QED
    BY <1>3, <1>4, <1>5, <2>1 DEF JobIs, a
<1>9. DOMAIN artifacts \subseteq DOMAIN artifacts'
  BY <1>2
<1> QED
  BY <1>1, <1>2, <1>3, <1>n, <1>4, <1>6, <1>7, <1>8, <1>9, SameLedger, OneGoesOn

\* The stage of a job says what it is about.
LEMMA JobsAre ==
    ASSUME ImportInv, NEW p \in Importers, importing[p].stage # "none"
    PROVE  LET job == importing[p]
               im == imports[job.n] IN
           /\ job # IdleImport /\ job.n \in DOMAIN imports /\ im.end = "running"
           /\ ImportIs(ledger, job.n, im) /\ im = [call |-> im.call, lines |-> im.lines, end |-> im.end]
           /\ im.call.dry = FALSE /\ im.call.halt \in BOOLEAN /\ LinesAre(im.lines)
           /\ job.stage = "mapped" =>
                im.call \in Fills /\ Artifact(im.call) \in DOMAIN artifacts /\ By(ledger, job.n) = {}
           /\ job.stage # "mapped" => FromCsv(im)
           /\ job.stage \in {"examined", "staged"} => im.call.mode = "single" /\ By(ledger, job.n) = {}
           /\ job.stage = "staged" => /\ job.rows = Replayed(job.base, im.lines, job.n).rows
                                      /\ ~Replayed(job.base, im.lines, job.n).refused
           /\ job.stage = "rows" =>
                /\ im.call.mode = "per_row" /\ job \in [stage : {"rows"}, n : Nat, at : Nat, refused : BOOLEAN]
                /\ ~job.refused =>
                     \A i \in Replayable(im.lines) : i < job.at => RowOf(ledger, job.n, im.lines[i])
<1> DEFINE job == importing[p]
           im == imports[job.n]
<1>1. job # IdleImport
  BY DEF IdleImport
<1>2. JobIs(ledger, imports, DOMAIN artifacts, job)
  BY DEF ImportInv
<1>3. job.n \in DOMAIN imports /\ im.end = "running"
  BY <1>1, <1>2 DEF JobIs
<1>4. ImportIs(ledger, job.n, im)
  BY <1>3 DEF ImportInv
<1>5. /\ im = [call |-> im.call, lines |-> im.lines, end |-> im.end] /\ LinesAre(im.lines)
      /\ ~im.call.dry /\ im.call \in Commits \cup Fills
      /\ im.call.mode = "single" => By(ledger, job.n) = {}
  BY <1>3, <1>4 DEF ImportIs
<1>6. im.call.halt \in BOOLEAN /\ im.call.dry \in BOOLEAN
  BY <1>5, CallsAre
<1>7. job \in [stage : {"rows"}, n : Nat, at : Nat, refused : BOOLEAN] => job.stage = "rows"
  OBVIOUS
<1>8. \/ /\ job.stage = "mapped" /\ im.call \in Fills /\ Artifact(im.call) \in DOMAIN artifacts
         /\ By(ledger, job.n) = {}
      \/ FromCsv(im) /\ im.call.mode = "single" /\ job.stage = "examined"
      \/ /\ FromCsv(im) /\ im.call.mode = "single" /\ job.stage = "staged"
         /\ job.rows = Replayed(job.base, im.lines, job.n).rows
         /\ ~Replayed(job.base, im.lines, job.n).refused
      \/ /\ FromCsv(im) /\ im.call.mode = "per_row"
         /\ job \in [stage : {"rows"}, n : Nat, at : Nat, refused : BOOLEAN]
         /\ ~job.refused =>
              \A i \in Replayable(im.lines) : i < job.at => RowOf(ledger, job.n, im.lines[i])
  BY <1>1, <1>2 DEF JobIs
<1> HIDE DEF job, im
<1> QED
  BY <1>1, <1>3, <1>4, <1>5, <1>6, <1>7, <1>8 DEF job, im

LEMMA ExaminedStep ==
    ASSUME ImportInv, NEW p \in Importers, NEW n, NEW call \in Commits \cup Fills, NEW lines, LinesAre(lines),
           "csv" \in DOMAIN call /\ Alone(call) => lines = FillLines(call),
           \/ n = Len(imports) + 1
           \/ importing[p] # IdleImport /\ importing[p].n = n /\ n \in DOMAIN imports,
           By(ledger, n) = {}, Examined(p, n, call, lines)
    PROVE  ImportInv'
<1> DEFINE refused == \/ RefusedAtOnce(lines)
                      \/ call.mode = "single" /\ Replayed(ledger, lines, n).refused
           end == CASE refused -> "refused" [] ~refused /\ call.dry -> "ok" [] OTHER -> "running"
           new == [call |-> call, lines |-> lines, end |-> end]
           job == IF end # "running" THEN IdleImport
                  ELSE [stage |-> IF call.mode = "single" THEN "examined" ELSE "rows",
                        n |-> n, at |-> 1, refused |-> FALSE]
<1>1. /\ IsSeq(imports) /\ LedgerIs(ledger) /\ FilesAre(artifacts) /\ Len(imports) \in Nat
      /\ DOMAIN imports = 1..Len(imports)
  BY IsSeqFacts DEF ImportInv
<1>2. /\ imports' = IF n > Len(imports) THEN Append(imports, new) ELSE [imports EXCEPT ![n] = new]
      /\ importing' = [importing EXCEPT ![p] = job] /\ ledger' = ledger /\ artifacts' = artifacts
  BY DEF Examined
<1>3. call.dry \in BOOLEAN /\ call.mode \in {"single", "per_row"}
  BY CallsAre
<1>4. (end = "running" => ~call.dry) /\ (end = "ok" => call.dry)
  <2> HIDE DEF refused
  <2>1. CASE refused
    BY <2>1
  <2>2. CASE ~refused
    BY <1>3, <2>2
  <2> QED
    BY <2>1, <2>2
<1> HIDE DEF end
<1>5. /\ new.call = call /\ new.lines = lines /\ new.end = end
      /\ new = [call |-> new.call, lines |-> new.lines, end |-> new.end]
  OBVIOUS
<1>6. end # "running" => job = IdleImport
  OBVIOUS
<1>7. end = "running" => job = [stage |-> IF call.mode = "single" THEN "examined" ELSE "rows",
                                n |-> n, at |-> 1, refused |-> FALSE]
  OBVIOUS
<1> HIDE DEF new, job
<1>n. (n = Len(imports) + 1 /\ n > Len(imports) /\ n \notin DOMAIN imports) \/ (n \in DOMAIN imports /\ ~(n > Len(imports)))
  <2> DEFINE k == Len(imports)
  <2>1. k \in Nat /\ DOMAIN imports = 1..k /\ (n = k + 1 \/ n \in DOMAIN imports)
    BY <1>1
  <2> HIDE DEF k
  <2>2. (n = k + 1 /\ n > k /\ n \notin DOMAIN imports) \/ (n \in DOMAIN imports /\ ~(n > k))
    BY <2>1
  <2> QED
    BY <2>2 DEF k
<1>8. /\ IsSeq(imports') /\ DOMAIN imports' = DOMAIN imports \cup {n} /\ imports'[n] = new
      /\ \A m \in DOMAIN imports : m # n => imports'[m] = imports[m]
  <2>1. CASE n > Len(imports)
    <3>1. imports' = Append(imports, new)
      BY <1>2, <2>1
    <3>2. n = Len(imports) + 1 /\ n \notin DOMAIN imports
      BY <1>n, <2>1
    <3>3. DOMAIN imports' = 1..n /\ 1..n = DOMAIN imports \cup {n}
      <4>1. DOMAIN imports' = 1..n
        BY <1>1, <3>1, <3>2, AppendIs
      <4> DEFINE k == Len(imports)
      <4>2. k \in Nat /\ DOMAIN imports = 1..k /\ n = k + 1
        BY <1>1, <3>2
      <4> HIDE DEF k
      <4> QED
        BY <4>1, <4>2
    <3>4. /\ IsSeq(imports') /\ imports'[n] = new /\ \A m \in 1..Len(imports) : imports'[m] = imports[m]
      BY <1>1, <3>1, <3>2, AppendIs
    <3> QED
      BY <1>1, <3>3, <3>4
  <2>2. CASE ~(n > Len(imports))
    <3>1. imports' = [imports EXCEPT ![n] = new] /\ n \in DOMAIN imports
      BY <1>n, <1>2, <2>2
    <3>2. /\ IsSeq(imports') /\ DOMAIN imports' = DOMAIN imports /\ imports'[n] = new
          /\ \A m \in DOMAIN imports : m # n => imports'[m] = imports[m]
      BY <1>1, <3>1, ChangeIs
    <3> QED
      BY <3>1, <3>2
  <2> QED
    BY <2>1, <2>2
<1>9. ImportIs(ledger, n, new)
  BY <1>4, <1>5 DEF ImportIs, FirstIn
<1>10. JobIs(ledger, imports', DOMAIN artifacts', job)
  <2>1. CASE end # "running"
    BY <1>6, <2>1 DEF JobIs
  <2>2. CASE end = "running"
    <3>1. imports'[n].end = "running" /\ FromCsv(imports'[n]) /\ imports'[n].call = call /\ imports'[n].lines = lines
      BY <1>5, <1>8, <2>2 DEF FromCsv
    <3>d. n \in DOMAIN imports'
      BY <1>8
    <3>2. CASE call.mode = "single"
      <4>1. job = [stage |-> "examined", n |-> n, at |-> 1, refused |-> FALSE]
        BY <1>7, <2>2, <3>2
      <4>2. job.stage = "examined" /\ job.n = n
        BY <4>1
      <4> QED
        BY <3>d, <3>1, <3>2, <4>2 DEF JobIs
    <3>3. CASE call.mode = "per_row"
      <4>1. job = [stage |-> "rows", n |-> n, at |-> 1, refused |-> FALSE]
        BY <1>7, <2>2, <3>3
      <4>2. n \in Nat /\ \A i \in Replayable(lines) : ~(i < 1)
        <5>1. n \in Nat
          BY <1>1
        <5>2. \A i \in Replayable(lines) : i \in Nat /\ i >= 1
          BY DEF LinesAre, Replayable
        <5> QED
          BY <5>1, <5>2
      <4>3. /\ job.n = n /\ job.at = 1 /\ job.stage = "rows"
            /\ job \in [stage : {"rows"}, n : Nat, at : Nat, refused : BOOLEAN]
        BY <4>1, <4>2
      <4> QED
        BY <3>d, <3>1, <3>3, <4>2, <4>3 DEF JobIs
    <3> QED
      BY <1>3, <3>2, <3>3
  <2> QED
    BY <2>1, <2>2
<1>11. job # IdleImport => job.n = n
  BY <1>6, <1>7
<1>12. (importing[p] # IdleImport /\ importing[p].n = n) \/ n \notin DOMAIN imports
  BY <1>n
<1>13. /\ n \in DOMAIN imports' /\ DOMAIN imports \subseteq DOMAIN imports' /\ DOMAIN imports' \subseteq DOMAIN imports \cup {n}
       /\ ImportIs(ledger', n, imports'[n]) /\ LedgerIs(ledger') /\ FilesAre(artifacts')
       /\ DOMAIN artifacts \subseteq DOMAIN artifacts' /\ JobIs(ledger', imports', DOMAIN artifacts', job)
  BY <1>1, <1>2, <1>8, <1>9, <1>10
<1>15. /\ IsSeq(imports') /\ \A m \in DOMAIN imports : m # n => imports'[m] = imports[m]
       /\ importing' = [importing EXCEPT ![p] = job]
  BY <1>2, <1>8
<1>14. Grows(ledger, ledger') /\ \A i \in DOMAIN ledger' \ DOMAIN ledger : ledger'[i].by = n
  BY <1>2, SameLedger
<1> QED
  BY <1>11, <1>12, <1>13, <1>14, <1>15, OneGoesOn

LEMMA FreshImport ==
    ImportInv => /\ By(ledger, Len(imports) + 1) = {} /\ Len(imports) + 1 \notin DOMAIN imports
                 /\ Len(imports) \in Nat /\ DOMAIN imports = 1..Len(imports)
<1> SUFFICES ASSUME ImportInv
             PROVE  /\ By(ledger, Len(imports) + 1) = {} /\ Len(imports) + 1 \notin DOMAIN imports
                    /\ Len(imports) \in Nat /\ DOMAIN imports = 1..Len(imports)
  OBVIOUS
<1>1. Len(imports) \in Nat /\ DOMAIN imports = 1..Len(imports)
  BY IsSeqFacts DEF ImportInv
<1>2. \A i \in DOMAIN ledger : ledger[i].by \in 0..Len(imports)
  BY DEF ImportInv
<1> QED
  BY <1>1, <1>2 DEF By

LEMMA ReadStep ==
    ASSUME ImportInv, NEW p \in Importers, (\E call \in Commits : ReadLines(p, call)) \/ ReadArtifact(p)
    PROVE  ImportInv'
<1>1. ASSUME NEW call \in Commits, ReadLines(p, call) PROVE ImportInv'
  <2>1. Examined(p, Len(imports) + 1, call, JsonlFiles[call.file])
    BY <1>1 DEF ReadLines
  <2> QED
    BY <2>1, CallsAre, FreshImport, ExaminedStep
<1>2. CASE ReadArtifact(p)
  <2> DEFINE n == importing[p].n
             fill == imports[n].call
             lines == artifacts[Artifact(fill)]
  <2>1. importing[p].stage = "mapped" /\ Examined(p, n, fill, lines)
    BY <1>2 DEF ReadArtifact
  <2>2. /\ importing[p] # IdleImport /\ n \in DOMAIN imports
        /\ fill \in Fills /\ Artifact(fill) \in DOMAIN artifacts /\ By(ledger, n) = {}
    BY <2>1, JobsAre
  <2>3. LinesAre(lines) /\ (Alone(fill) => lines = FillLines(fill))
    BY <2>2 DEF ImportInv, FilesAre
  <2> HIDE DEF n, fill, lines
  <2>4. importing[p].n = n
    BY DEF n
  <2> QED
    BY <2>1, <2>2, <2>3, <2>4, ExaminedStep
<1> QED
  BY <1>1, <1>2

LEMMA RefuseCsvStep ==
    ASSUME ImportInv, NEW p \in Importers, NEW fill \in Fills, RefuseCsv(p, fill)
    PROVE  ImportInv'
<1> DEFINE new == [call |-> fill, lines |-> << >>, end |-> "refused"]
           n == Len(imports) + 1
<1>1. /\ IsSeq(imports) /\ LedgerIs(ledger) /\ FilesAre(artifacts)
  BY DEF ImportInv
<1>2. /\ imports' = Append(imports, new) /\ importing[p] = IdleImport
      /\ ledger' = ledger /\ artifacts' = artifacts /\ importing' = importing
  BY DEF RefuseCsv
<1>3. /\ new.call = fill /\ new.lines = << >> /\ new.end = "refused"
      /\ new = [call |-> new.call, lines |-> new.lines, end |-> new.end]
  OBVIOUS
<1>4. By(ledger, n) = {} /\ n \notin DOMAIN imports /\ n = Len(imports) + 1 /\ Len(imports) \in Nat
  BY FreshImport
<1>d. DOMAIN imports = 1..Len(imports)
  BY FreshImport
<1> HIDE DEF new, n
<1>5. /\ IsSeq(imports') /\ DOMAIN imports' = DOMAIN imports \cup {n} /\ imports'[n] = new
      /\ \A m \in DOMAIN imports : imports'[m] = imports[m]
  BY <1>1, <1>2, <1>4, <1>d, AppendIs
<1>6. ImportIs(ledger, n, new)
  BY <1>3, <1>4, CallsAre, NoLines DEF ImportIs, FirstIn
<1>7. JobIs(ledger, imports', DOMAIN artifacts', IdleImport)
  BY DEF JobIs
<1> QED
  BY <1>1, <1>2, <1>4, <1>5, <1>6, <1>7, SameLedger, OneGoesOn

LEMMA StageStep ==
    ASSUME ImportInv, NEW p \in Importers, StageLines(p)
    PROVE  ImportInv'
<1> DEFINE n == importing[p].n
           im == imports[n]
           staged == Replayed(ledger, im.lines, n)
           job == [stage |-> "staged", n |-> n, base |-> ledger, rows |-> staged.rows]
<1>1. importing[p].stage = "examined" /\ ledger' = ledger /\ artifacts' = artifacts
  BY DEF StageLines
<1>2. /\ importing[p] # IdleImport /\ n \in DOMAIN imports /\ im.end = "running" /\ ImportIs(ledger, n, im)
      /\ FromCsv(im) /\ im.call.mode = "single"
  BY <1>1, JobsAre
<1>3. CASE Ends(p, n, "refused")
  BY <1>1, <1>2, <1>3, EndsBadly
<1>4. CASE ~staged.refused /\ importing' = [importing EXCEPT ![p] = job] /\ UNCHANGED imports
  <2>1. /\ job.stage = "staged" /\ job.n = n /\ job.base = ledger /\ job.rows = staged.rows
    OBVIOUS
  <2>2. job.rows = Replayed(job.base, im.lines, n).rows /\ ~Replayed(job.base, im.lines, n).refused
    BY <1>4, <2>1
  <2> HIDE DEF job, staged
  <2>3. JobIs(ledger', imports', DOMAIN artifacts', job)
    BY <1>1, <1>2, <1>4, <2>1, <2>2 DEF JobIs
  <2>4. IsSeq(imports) /\ LedgerIs(ledger) /\ FilesAre(artifacts)
    BY DEF ImportInv
  <2>5. /\ importing[p].n = n /\ importing' = [importing EXCEPT ![p] = job] /\ imports' = imports
        /\ ImportIs(ledger', n, imports'[n])
    BY <1>1, <1>2, <1>4
  <2> HIDE DEF n, im
  <2> QED
    BY <1>1, <1>2, <2>1, <2>3, <2>4, <2>5, SameLedger, OneGoesOn
<1> QED
  BY <1>3, <1>4 DEF StageLines

LEMMA ReplaceStep ==
    ASSUME ImportInv, NEW p \in Importers, ReplaceJournal(p)
    PROVE  ImportInv'
<1> DEFINE job == importing[p]
           n == job.n
           im == imports[n]
           lines == im.lines
           new == [call |-> im.call, lines |-> lines, end |-> "ok"]
           done == Replayed(ledger, lines, n)
<1>1. /\ job.stage = "staged" /\ ledger = job.base /\ ledger' = job.rows
      /\ Ends(p, n, "ok") /\ artifacts' = artifacts
  BY DEF ReplaceJournal
<1>2. /\ job # IdleImport /\ ImportIs(ledger, n, im) /\ FromCsv(im) /\ LinesAre(lines)
      /\ im.call.mode = "single" /\ By(ledger, n) = {} /\ ~im.call.dry
      /\ job.rows = Replayed(job.base, lines, n).rows /\ ~Replayed(job.base, lines, n).refused
  BY <1>1, JobsAre
<1>3. LedgerIs(ledger) /\ ledger' = done.rows /\ ~done.refused
  BY <1>1, <1>2 DEF ImportInv
<1>4. /\ LedgerIs(ledger') /\ Grows(ledger, ledger')
      /\ \A k \in DOMAIN ledger' \ DOMAIN ledger :
           /\ ledger'[k].by = n
           /\ \E j \in Replayable(lines) : lines[j].body = ledger'[k].body
      /\ \A j \in Replayable(lines) : RowOf(ledger', n, lines[j])
  <2> HIDE DEF done, lines, n
  <2>1. /\ LedgerIs(done.rows) /\ Grows(ledger, done.rows)
        /\ \A k \in DOMAIN done.rows \ DOMAIN ledger :
             /\ done.rows[k].by = n
             /\ \E j \in Replayable(lines) : lines[j].body = done.rows[k].body
        /\ ~done.refused => \A j \in Replayable(lines) : RowOf(done.rows, n, lines[j])
    <3>1. LedgerIs(ledger) /\ LinesAre(lines)
      BY <1>2, <1>3
    <3> QED
      BY <3>1, ReplayedIs DEF done
  <2> QED
    BY <1>3, <2>1
<1>5. /\ new.call = im.call /\ new.lines = lines /\ new.end = "ok"
      /\ new = [call |-> new.call, lines |-> new.lines, end |-> new.end]
  OBVIOUS
<1> HIDE DEF new, done
<1>6. FirstIn(ledger', n, lines)
  <2> SUFFICES ASSUME NEW w \in By(ledger', n)
               PROVE  \E j \in Replayable(lines) : /\ lines[j].body = ledger'[w].body
                                                  /\ \A i \in Replayable(lines) : i < j => RowOf(ledger', n, lines[i])
    BY DEF FirstIn
  <2>1. w \in DOMAIN ledger' \ DOMAIN ledger
    BY <1>2, <1>4 DEF By, Grows
  <2> QED
    BY <1>4, <2>1
<1>7. AllIn(ledger', n, lines) /\ FromCsv(new)
  BY <1>2, <1>4, <1>5 DEF AllIn, FromCsv
<1>8. ImportIs(ledger', n, new)
  <2>1. im.call \in Commits \cup Fills
    BY <1>2 DEF ImportIs
  <2> QED
    BY <1>2, <1>5, <1>6, <1>7, <2>1 DEF ImportIs
<1> QED
  BY <1>1, <1>2, <1>4, <1>8, OneEnds DEF new

LEMMA LineStep ==
    ASSUME ImportInv, NEW p \in Importers, CommitLine(p)
    PROVE  ImportInv'
<1> DEFINE job == importing[p]
           n == job.n
           im == imports[n]
           lines == im.lines
<1>1. /\ job.stage = "rows" /\ ~(job.refused /\ im.call.halt)
      /\ artifacts' = artifacts /\ imports' = imports
  BY DEF CommitLine
<1>2. PICK i \in NextLines(job) :
        /\ ledger' = AfterLine(ledger, lines[i], n)
        /\ importing' = [importing EXCEPT ![p] = [job EXCEPT !.at = i + 1,
                             !.refused = job.refused \/ LineRefused(ledger, lines[i])]]
  BY DEF CommitLine
<1> DEFINE next == [job EXCEPT !.at = i + 1, !.refused = job.refused \/ LineRefused(ledger, lines[i])]
<1>3. /\ job # IdleImport /\ n \in DOMAIN imports /\ im.end = "running" /\ ImportIs(ledger, n, im)
      /\ ~im.call.dry /\ im.call.halt \in BOOLEAN /\ LinesAre(lines) /\ FromCsv(im) /\ im.call.mode = "per_row"
      /\ job \in [stage : {"rows"}, n : Nat, at : Nat, refused : BOOLEAN]
      /\ ~job.refused => \A j \in Replayable(lines) : j < job.at => RowOf(ledger, n, lines[j])
  BY <1>1, JobsAre
<1>4. /\ i \in Replayable(lines) /\ job.at <= i
      /\ \A j \in Replayable(lines) : job.at <= j => i <= j
  BY DEF NextLines, Left
<1>5. Replayable(lines) \subseteq Nat /\ Stated(lines[i].id)
  BY <1>3, <1>4 DEF Replayable, LinesAre
<1>6. LedgerIs(ledger)
  BY DEF ImportInv
<1>7. /\ LedgerIs(ledger') /\ Grows(ledger, ledger') /\ LineRefused(ledger, lines[i]) \in BOOLEAN
      /\ ~LineRefused(ledger, lines[i]) => RowOf(ledger', n, lines[i])
      /\ \A k \in DOMAIN ledger' \ DOMAIN ledger : ledger'[k].by = n /\ ledger'[k].body = lines[i].body
  <2> HIDE DEF lines, n
  <2>1. /\ LedgerIs(AfterLine(ledger, lines[i], n)) /\ Grows(ledger, AfterLine(ledger, lines[i], n))
        /\ LineRefused(ledger, lines[i]) \in BOOLEAN
        /\ ~LineRefused(ledger, lines[i]) => RowOf(AfterLine(ledger, lines[i], n), n, lines[i])
        /\ \A k \in DOMAIN AfterLine(ledger, lines[i], n) \ DOMAIN ledger :
             /\ AfterLine(ledger, lines[i], n)[k].by = n
             /\ AfterLine(ledger, lines[i], n)[k].body = lines[i].body
    BY <1>5, <1>6, AfterLineIs
  <2> QED
    BY <1>2, <2>1
<1>8. /\ next \in [stage : {"rows"}, n : Nat, at : Nat, refused : BOOLEAN]
      /\ next.n = n /\ next.at = i + 1
      /\ next.refused = (job.refused \/ LineRefused(ledger, lines[i]))
  <2>1. i \in Nat /\ job.refused \in BOOLEAN /\ (job.refused \/ LineRefused(ledger, lines[i])) \in BOOLEAN
    BY <1>3, <1>4, <1>5, <1>7
  <2> DEFINE r == job.refused \/ LineRefused(ledger, lines[i])
  <2>2. r \in BOOLEAN /\ next = [job EXCEPT !.at = i + 1, !.refused = r]
    BY <2>1
  <2> HIDE DEF r, next
  <2>3. \A k \in Nat, e \in BOOLEAN : \A d \in [stage : {"rows"}, n : Nat, at : Nat, refused : BOOLEAN] :
          LET it == [d EXCEPT !.at = k, !.refused = e] IN
          /\ it \in [stage : {"rows"}, n : Nat, at : Nat, refused : BOOLEAN]
          /\ it.n = d.n /\ it.at = k /\ it.refused = e
    OBVIOUS
  <2>4. job \in [stage : {"rows"}, n : Nat, at : Nat, refused : BOOLEAN] /\ i + 1 \in Nat
    BY <1>3, <2>1
  <2>5. /\ next \in [stage : {"rows"}, n : Nat, at : Nat, refused : BOOLEAN]
        /\ next.n = job.n /\ next.at = i + 1 /\ next.refused = r
    <3> HIDE DEF job, lines
    <3> QED
      BY <2>2, <2>3, <2>4
  <2> QED
    BY <2>5 DEF r
<1>9. importing' = [importing EXCEPT ![p] = next]
  BY <1>2
<1> HIDE DEF next
<1>10. ASSUME ~job.refused, NEW j \in Replayable(lines), j < i PROVE RowOf(ledger', n, lines[j])
  <2>1. ~(job.at <= j)
    BY <1>4, <1>5, <1>10
  <2>2. j < job.at
    BY <1>3, <1>5, <2>1
  <2> QED
    BY <1>3, <1>7, <1>10, <2>2, GrowsFacts
<1>11. ASSUME ~next.refused, NEW j \in Replayable(lines), j < next.at PROVE RowOf(ledger', n, lines[j])
  <2>1. ~job.refused /\ ~LineRefused(ledger, lines[i]) /\ (j < i \/ j = i)
    BY <1>4, <1>5, <1>8, <1>11
  <2> QED
    BY <1>7, <1>10, <2>1
<1>12. ASSUME im.call.halt PROVE FirstIn(ledger', n, lines)
  <2> SUFFICES ASSUME NEW w \in By(ledger', n)
               PROVE  \E j \in Replayable(lines) : /\ lines[j].body = ledger'[w].body
                                                  /\ \A k \in Replayable(lines) : k < j => RowOf(ledger', n, lines[k])
    BY DEF FirstIn
  <2>1. CASE w \in DOMAIN ledger
    <3>1. w \in By(ledger, n) /\ ledger'[w] = ledger[w]
      BY <1>7, <2>1 DEF By, Grows
    <3>2. PICK j \in Replayable(lines) : /\ lines[j].body = ledger[w].body
                                         /\ \A k \in Replayable(lines) : k < j => RowOf(ledger, n, lines[k])
      BY <1>3, <1>12, <3>1 DEF ImportIs, FirstIn
    <3> QED
      BY <1>7, <3>1, <3>2, GrowsFacts
  <2>2. CASE w \notin DOMAIN ledger
    <3>1. ledger'[w].body = lines[i].body
      BY <1>7, <2>2 DEF By
    <3> QED
      BY <1>1, <1>4, <1>10, <1>12, <3>1
  <2> QED
    BY <2>1, <2>2
<1>13. ImportIs(ledger', n, im)
  BY <1>3, <1>12 DEF ImportIs
<1>14. JobIs(ledger', imports', DOMAIN artifacts', next)
  BY <1>1, <1>3, <1>8, <1>11 DEF JobIs
<1>15. IsSeq(imports) /\ FilesAre(artifacts) /\ importing[p].n = n
  BY DEF ImportInv
<1>16. /\ IsSeq(imports') /\ n \in DOMAIN imports' /\ ImportIs(ledger', n, imports'[n]) /\ FilesAre(artifacts')
       /\ importing[p] # IdleImport
  BY <1>1, <1>3, <1>13, <1>15
<1> HIDE DEF n, im, lines
<1> QED
  BY <1>1, <1>7, <1>8, <1>9, <1>14, <1>15, <1>16, OneGoesOn

LEMMA AnswerStep ==
    ASSUME ImportInv, NEW p \in Importers, AnswerRows(p)
    PROVE  ImportInv'
<1> DEFINE job == importing[p]
           n == job.n
           im == imports[n]
           lines == im.lines
           end == IF job.refused THEN "refused" ELSE "ok"
           new == [call |-> im.call, lines |-> lines, end |-> end]
<1>1. /\ job.stage = "rows" /\ (Left(job) = {} \/ (job.refused /\ im.call.halt))
      /\ Ends(p, n, end) /\ artifacts' = artifacts /\ ledger' = ledger
  BY DEF AnswerRows
<1>3. /\ job # IdleImport /\ n \in DOMAIN imports /\ im.end = "running" /\ ImportIs(ledger, n, im)
      /\ LinesAre(lines) /\ FromCsv(im) /\ im.call.mode = "per_row" /\ ~im.call.dry
      /\ job \in [stage : {"rows"}, n : Nat, at : Nat, refused : BOOLEAN]
      /\ ~job.refused => \A j \in Replayable(lines) : j < job.at => RowOf(ledger, n, lines[j])
  BY <1>1, JobsAre
<1>4. CASE job.refused
  <2>1. end = "refused"
    BY <1>4
  <2> QED
    BY <1>1, <1>3, <2>1, EndsBadly
<1>5. CASE ~job.refused
  <2>1. end = "ok" /\ Left(job) = {}
    BY <1>1, <1>5
  <2>2. \A j \in Replayable(lines) : j < job.at
    <3>1. Replayable(lines) \subseteq Nat /\ job.at \in Nat
      BY <1>3 DEF Replayable, LinesAre
    <3>2. \A j \in Replayable(lines) : ~(job.at <= j)
      BY <2>1 DEF Left
    <3> HIDE DEF job, lines
    <3> QED
      BY <3>1, <3>2
  <2>3. AllIn(ledger, n, lines)
    BY <1>3, <1>5, <2>2 DEF AllIn
  <2> HIDE DEF end
  <2>4. /\ new.call = im.call /\ new.lines = lines /\ new.end = "ok"
        /\ new = [call |-> new.call, lines |-> new.lines, end |-> new.end]
    BY <2>1
  <2> HIDE DEF new
  <2>5. FromCsv(new)
    BY <1>3, <2>4 DEF FromCsv
  <2>6. ImportIs(ledger', n, new)
    BY <1>1, <1>3, <2>3, <2>4, <2>5 DEF ImportIs
  <2>7. LedgerIs(ledger')
    BY <1>1 DEF ImportInv
  <2> QED
    BY <1>1, <1>3, <2>6, <2>7, SameLedger, OneEnds DEF new
<1> QED
  BY <1>3, <1>4, <1>5

LEMMA OtherStep ==
    ASSUME ImportInv, NEW line \in OtherLines, OtherCall(line)
    PROVE  ImportInv'
<1>1. ledger' = AfterLine(ledger, line, 0) /\ UNCHANGED <<artifacts, importing, imports>>
  BY DEF OtherCall
<1>2. Stated(line.id) /\ LedgerIs(ledger)
  BY ImportsAssumption DEF ImportInv
<1>3. /\ LedgerIs(ledger') /\ Grows(ledger, ledger')
      /\ \A i \in DOMAIN ledger' \ DOMAIN ledger : ledger'[i].by = 0
  BY <1>1, <1>2, AfterLineIs
<1>4. Len(imports) \in Nat /\ DOMAIN imports = 1..Len(imports)
  BY IsSeqFacts DEF ImportInv
<1>5. \A i \in DOMAIN ledger' : ledger'[i].by \in 0..Len(imports)
  <2> TAKE i \in DOMAIN ledger'
  <2>1. CASE i \in DOMAIN ledger
    BY <1>3, <2>1 DEF Grows, ImportInv
  <2>2. CASE i \notin DOMAIN ledger
    BY <1>3, <1>4, <2>2
  <2> QED
    BY <2>1, <2>2
<1>6. \A n \in DOMAIN imports : \A i \in DOMAIN ledger' \ DOMAIN ledger : ledger'[i].by # n
  BY <1>3, <1>4
<1>7. \A n \in DOMAIN imports : ImportIs(ledger', n, imports[n])
  BY <1>3, <1>6, ImportKept DEF ImportInv
<1>8. \A p \in Importers : JobIs(ledger', imports, DOMAIN artifacts, importing[p])
  <2> TAKE p \in Importers
  <2>1. JobIs(ledger, imports, DOMAIN artifacts, importing[p])
    BY DEF ImportInv
  <2>2. importing[p] # IdleImport => importing[p].n \in DOMAIN imports
    BY <2>1 DEF JobIs
  <2> QED
    BY <1>3, <1>6, <2>1, <2>2, JobKept
<1> QED
  BY <1>1, <1>3, <1>5, <1>7, <1>8 DEF ImportInv

LEMMA ImportStep == ImportInv /\ [ImportsNext]_importVars => ImportInv'
<1> SUFFICES ASSUME ImportInv, [ImportsNext]_importVars PROVE ImportInv'
  OBVIOUS
<1>1. ASSUME NEW p \in Importers, NEW c \in Commits, ReadLines(p, c) PROVE ImportInv'
  BY <1>1, ReadStep
<1>2. ASSUME NEW p \in Importers, NEW f \in Fills, MapCsv(p, f) PROVE ImportInv'
  BY <1>2, MapStep
<1>3. ASSUME NEW p \in Importers, NEW f \in Fills, RefuseCsv(p, f) PROVE ImportInv'
  BY <1>3, RefuseCsvStep
<1>4. ASSUME NEW p \in Importers, ReadArtifact(p) PROVE ImportInv'
  BY <1>4, ReadStep
<1>5. ASSUME NEW p \in Importers, StageLines(p) PROVE ImportInv'
  BY <1>5, StageStep
<1>6. ASSUME NEW p \in Importers, ReplaceJournal(p) PROVE ImportInv'
  BY <1>6, ReplaceStep
<1>7. ASSUME NEW p \in Importers, RefuseStaleJournal(p) PROVE ImportInv'
  <2>1. importing[p].stage = "staged" /\ Ends(p, importing[p].n, "refused") /\ UNCHANGED <<ledger, artifacts>>
    BY <1>7 DEF RefuseStaleJournal
  <2>2. importing[p] # IdleImport
    BY <2>1, JobsAre
  <2> QED
    BY <2>1, <2>2, EndsBadly
<1>8. ASSUME NEW p \in Importers, CommitLine(p) PROVE ImportInv'
  BY <1>8, LineStep
<1>9. ASSUME NEW p \in Importers, AnswerRows(p) PROVE ImportInv'
  BY <1>9, AnswerStep
<1>10. ASSUME NEW p \in Importers, DieImporting(p) PROVE ImportInv'
  BY <1>10, EndsBadly DEF DieImporting
<1>11. ASSUME NEW l \in OtherLines, OtherCall(l) PROVE ImportInv'
  BY <1>11, OtherStep
<1>12. CASE UNCHANGED importVars
  BY <1>12 DEF importVars, ImportInv
<1> QED
  BY <1>1, <1>2, <1>3, <1>4, <1>5, <1>6, <1>7, <1>8, <1>9, <1>10, <1>11, <1>12 DEF ImportsNext

\* An import is worth its answer, for any calls, files, writers and processes.
THEOREM ImportsAreWhole == ImportsSpec => []ImportIsWhole
<1>1. ImportInv => ImportIsWhole
  <2> SUFFICES ASSUME ImportInv PROVE ImportIsWhole
    OBVIOUS
  <2>1. \A n \in DOMAIN imports : ImportIs(ledger, n, imports[n])
    BY DEF ImportInv
  <2>2. Sound(ledger)
    BY DEF ImportInv, LedgerIs
  <2>3. \A n, line : HasRow(n, line) = RowOf(ledger, n, line)
    BY DEF HasRow, RowOf
  <2>4. \A n : WrittenBy(n) = By(ledger, n)
    BY DEF WrittenBy, By
  <2>5. ASSUME NEW n \in DOMAIN imports, imports[n].end = "ok", ~imports[n].call.dry
        PROVE  /\ \A line \in Lines(n) : HasRow(n, line)
               /\ "csv" \in DOMAIN imports[n].call /\ Alone(imports[n].call) => imports[n].lines = FillLines(imports[n].call)
    BY <2>1, <2>3, <2>5 DEF ImportIs, AllIn, FromCsv, Lines
  <2>6. ASSUME NEW n \in DOMAIN imports,
               imports[n].call.dry \/ (imports[n].end # "ok" /\ imports[n].call.mode = "single")
        PROVE  WrittenBy(n) = {}
    BY <2>1, <2>4, <2>6 DEF ImportIs
  <2>7. ASSUME NEW n \in DOMAIN imports, imports[n].call.halt, NEW w \in WrittenBy(n)
        PROVE  \E j \in Replayable(imports[n].lines) :
                 /\ imports[n].lines[j].body = ledger[w].body
                 /\ \A i \in Replayable(imports[n].lines) : i < j => HasRow(n, imports[n].lines[i])
    BY <2>1, <2>3, <2>4, <2>7 DEF ImportIs, FirstIn
  <2> QED
    BY <2>2, <2>5, <2>6, <2>7 DEF ImportIsWhole
<1> QED
  BY <1>1, ImportStart, ImportStep, PTL DEF ImportsSpec
=============================================================================
