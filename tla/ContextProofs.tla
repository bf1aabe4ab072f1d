--------------------------- MODULE ContextProofs ---------------------------
(***************************************************************************)
(* Every operation of Context keeps a context well formed.  The operations *)
(* come down to a few moves - put down a checkpoint and change the items,  *)
(* change the items in place, go back, go on, fold - and there is a lemma  *)
(* for each of them.                                                       *)
(***************************************************************************)
EXTENDS Projection, FiniteSetTheorems, TLAPS

\* A set of numbers with a bound has a largest one: of the sets of those above a member,
\* one has no smaller among them, and it is empty.
LEMMA MaxOfBounded ==
  ASSUME NEW S \in SUBSET Nat, NEW n \in Nat, \A x \in S : x <= n, S # {}
  PROVE  Max(S) \in S /\ \A x \in S : x <= Max(S)
<1> DEFINE above(x) == {y \in S : y > x}
           family == {above(x) : x \in S}
<1>1. \A x \in S : above(x) \in FiniteSubsetsOf(Nat)
  <2> SUFFICES ASSUME NEW x \in S PROVE above(x) \in FiniteSubsetsOf(Nat)
    OBVIOUS
  <2>1. above(x) \in SUBSET Nat /\ \A s \in above(x) : s <= n
    OBVIOUS
  <2>2. IsFiniteSet(above(x))
    BY <2>1, FS_BoundedSetOfNaturals
  <2>. QED
    BY <2>1, <2>2 DEF FiniteSubsetsOf
<1>2. family \subseteq FiniteSubsetsOf(Nat) /\ family # {}
  BY <1>1
<1>3. PICK low \in family : \A other \in family : <<other, low>> \notin StrictSubsetOrdering(Nat)
  <2>1. IsWellFoundedOn(StrictSubsetOrdering(Nat), FiniteSubsetsOf(Nat))
    BY FS_StrictSubsetOrderingWellFounded
  <2>. HIDE DEF family
  <2>. QED
    BY <1>2, <2>1, WFMin
<1>4. PICK m \in S : low = above(m)
  BY <1>3
<1>5. ASSUME NEW x \in S, x > m PROVE FALSE
  <2>0. x \in Nat /\ m \in Nat /\ x > m
    BY <1>5
  <2>1. x \in above(m) /\ x \notin above(x)
    BY <2>0
  <2>2. above(x) \subseteq above(m)
    <3>1. ASSUME NEW y \in S, y > x PROVE y > m
      <4>1. y \in Nat
        OBVIOUS
      <4>. QED
        BY <2>0, <3>1, <4>1
    <3>. QED
      BY <3>1
  <2>3. above(x) \in SUBSET Nat /\ above(m) \in SUBSET Nat /\ above(x) \in family
    OBVIOUS
  <2>4. <<above(x), above(m)>> \in StrictSubsetOrdering(Nat)
    <3>. HIDE DEF above
    <3>. QED
      BY <2>1, <2>2, <2>3 DEF StrictSubsetOrdering
  <2>. QED
    BY <1>3, <1>4, <2>3, <2>4
<1>6. \E x \in S : \A y \in S : x >= y
  BY <1>5
<1>. QED
  BY <1>6 DEF Max

\* The members of a finite set in order: each of them once, those before it in earlier places.
LEMMA InOrderLists ==
  ASSUME NEW S, IsFiniteSet(S), NEW before,
         \A x \in S : <<x, x>> \notin before,
         \A x, y \in S : x # y => <<x, y>> \in before \/ <<y, x>> \in before,
         \A x, y, z \in S : <<x, y>> \in before /\ <<y, z>> \in before => <<x, z>> \in before
  PROVE  LET order == InOrder(S, before)
             n == Cardinality(S)
         IN  /\ n \in Nat /\ order \in [1..n -> S] /\ DOMAIN order = 1..n
             /\ \A x \in S : \E k \in 1..n : order[k] = x
             /\ \A j, k \in 1..n : j < k => <<order[j], order[k]>> \in before
<1> DEFINE n == Cardinality(S)
           below(x) == {y \in S : <<y, x>> \in before}
           rank == [x \in S |-> Cardinality(below(x))]
           order == InOrder(S, before)
<1>1. n \in Nat
  BY FS_CardinalityType
<1>2. ASSUME NEW x \in S
      PROVE  IsFiniteSet(below(x)) /\ Cardinality(below(x)) \in 0..(n - 1)
  <2>1. IsFiniteSet(S \ {x}) /\ Cardinality(S \ {x}) = n - 1
    BY FS_RemoveElement
  <2>2. below(x) \in SUBSET (S \ {x})
    OBVIOUS
  <2> HIDE DEF below
  <2>3. IsFiniteSet(below(x)) /\ Cardinality(below(x)) <= n - 1
    BY <2>1, <2>2, FS_Subset
  <2>4. Cardinality(below(x)) \in Nat
    BY <2>3, FS_CardinalityType
  <2>. QED
    BY <1>1, <2>3, <2>4
<1>3. ASSUME NEW x \in S, NEW y \in S, <<x, y>> \in before PROVE rank[x] < rank[y]
  <2>1. below(x) \in SUBSET below(y) /\ x \in below(y) /\ x \notin below(x)
    BY <1>3
  <2>2. IsFiniteSet(below(x)) /\ IsFiniteSet(below(y))
    BY <1>2
  <2>3. Cardinality(below(x)) \in Nat /\ Cardinality(below(y)) \in Nat
    BY <1>1, <1>2
  <2> HIDE DEF below
  <2>4. Cardinality(below(x)) <= Cardinality(below(y)) /\ Cardinality(below(y)) # Cardinality(below(x))
    BY <2>1, <2>2, FS_Subset
  <2>. QED
    BY <2>3, <2>4
<1>4. rank \in [S -> 0..(n - 1)]
  BY <1>2
<1>5. \A x, y \in S : rank[x] = rank[y] => x = y
  <2>1. \A x \in S : rank[x] \in Nat
    BY <1>1, <1>4
  <2> HIDE DEF rank
  <2> SUFFICES ASSUME NEW x \in S, NEW y \in S, rank[x] = rank[y], x # y PROVE FALSE
    OBVIOUS
  <2>2. rank[x] < rank[y] \/ rank[y] < rank[x]
    BY <1>3
  <2>. QED
    BY <2>1, <2>2
<1>6. \A k \in 0..(n - 1) : \E x \in S : rank[x] = k
  <2>1. rank \in Injection(S, 0..(n - 1))
    BY <1>4, <1>5 DEF Injection, IsInjective
  <2>2. IsFiniteSet(0..(n - 1)) /\ Cardinality(0..(n - 1)) = n
    <3> HIDE DEF n
    <3>1. 0 \in Int /\ n - 1 \in Int
      BY <1>1
    <3>2. IsFiniteSet(0..(n - 1))
          /\ Cardinality(0..(n - 1)) = IF 0 > n - 1 THEN 0 ELSE (n - 1) - 0 + 1
      BY <3>1, FS_Interval
    <3>. QED
      BY <1>1, <3>2
  <2> HIDE DEF rank
  <2>3. rank \in Surjection(S, 0..(n - 1))
    BY <2>1, <2>2, FS_Injection
  <2>. QED
    BY <2>3 DEF Surjection
<1>7. order = [k \in 1..n |-> CHOOSE x \in S : Cardinality(below(x)) = k - 1]
  BY DEF InOrder
<1>r. \A x \in S : rank[x] = Cardinality(below(x))
  OBVIOUS
<1> HIDE DEF order, rank, n, below
<1>8. ASSUME NEW k \in 1..n PROVE order[k] \in S /\ rank[order[k]] = k - 1
  <2>1. k - 1 \in 0..(n - 1)
    BY <1>1
  <2>2. PICK x \in S : rank[x] = k - 1
    BY <1>6, <2>1
  <2>3. order[k] = CHOOSE y \in S : Cardinality(below(y)) = k - 1
    BY <1>7
  <2>4. Cardinality(below(x)) = k - 1
    BY <2>2, <1>r
  <2>5. order[k] \in S /\ Cardinality(below(order[k])) = k - 1
    BY <2>3, <2>4
  <2>. QED
    BY <2>5, <1>r
<1>9. order \in [1..n -> S] /\ DOMAIN order = 1..n
  BY <1>7, <1>8
<1>10. ASSUME NEW x \in S PROVE \E k \in 1..n : order[k] = x
  <2>1. rank[x] \in 0..(n - 1)
    BY <1>4
  <2>2. rank[x] + 1 \in 1..n /\ (rank[x] + 1) - 1 = rank[x]
    BY <1>1, <2>1
  <2>3. order[rank[x] + 1] \in S /\ rank[order[rank[x] + 1]] = rank[x]
    BY <1>8, <2>2
  <2>4. order[rank[x] + 1] = x
    BY <1>5, <2>3
  <2>. QED
    BY <2>2, <2>4
<1>11. ASSUME NEW j \in 1..n, NEW k \in 1..n, j < k PROVE <<order[j], order[k]>> \in before
  <2>1. /\ order[j] \in S /\ order[k] \in S /\ rank[order[j]] = j - 1 /\ rank[order[k]] = k - 1
    BY <1>8
  <2>2. order[j] # order[k]
    BY <1>1, <1>11, <2>1
  <2>3. ~(<<order[k], order[j]>> \in before)
    <3>1. <<order[k], order[j]>> \in before => rank[order[k]] < rank[order[j]]
      BY <1>3, <2>1
    <3>. QED
      BY <1>1, <1>11, <2>1, <3>1
  <2>. QED
    BY <2>1, <2>2, <2>3
<1>. QED
  BY <1>1, <1>9, <1>10, <1>11 DEF order, n

\* Two lists of the same items, whatever else was changed on them.
SameIds(v, w) == DOMAIN v = DOMAIN w /\ \A k \in DOMAIN v : v[k].id = w[k].id

\* Items that are the same, by identifier, list the same and stay in order.
LEMMA SameIdsSame ==
  ASSUME NEW v, NEW w, SameIds(v, w), NEW next
  PROVE  Ids(v) = Ids(w) /\ (VersionOK(w, next) => VersionOK(v, next))
BY DEF SameIds, Ids, VersionOK, Sorted

\* A list made from another, place by place, of members of a set is one of its
\* sequences.
LEMMA MadeFrom ==
  ASSUME NEW S, NEW T, NEW s \in Seq(S), NEW t, t = [k \in DOMAIN s |-> t[k]],
         \A k \in DOMAIN s : t[k] \in T
  PROVE  t \in Seq(T) /\ Len(t) = Len(s)
<1>1. DOMAIN s = 1..Len(s) /\ Len(s) \in Nat
  OBVIOUS
<1>2. t = [k \in 1..Len(s) |-> t[k]]
  BY <1>1
<1>3. t \in [1..Len(s) -> T]
  BY <1>1, <1>2
<1> QED BY <1>1, <1>3

\* Items are well formed as versions however often the counter ran over them.
LEMMA RecountedSame ==
  ASSUME NEW c, c \in ContextType, NEW counter \in Counters
  PROVE  /\ Recounted(c, counter).items \in Seq(Item)
         /\ SameIds(Recounted(c, counter).items, c.items)
         /\ Recounted(c, counter) = [c EXCEPT !.items = Recounted(c, counter).items]
<1> DEFINE items == [k \in DOMAIN c.items |-> [c.items[k] EXCEPT !.priced = counter]]
<1>1. c.items \in Seq(Item)
  BY DEF ContextType
<1>2. \A k \in DOMAIN c.items : items[k] \in Item /\ items[k].id = c.items[k].id
  <2> TAKE k \in DOMAIN c.items
  <2>1. c.items[k] \in Item
    BY <1>1
  <2> QED BY <2>1 DEF Item
<1>3. items \in Seq(Item) /\ SameIds(items, c.items)
  <2>1. items = [k \in DOMAIN c.items |-> items[k]]
    OBVIOUS
  <2>2. \A k \in DOMAIN c.items : items[k] \in Item
    BY <1>2
  <2>3. items \in Seq(Item)
    <3> HIDE DEF items
    <3> QED BY <1>1, <2>1, <2>2, MadeFrom
  <2> QED BY <1>2, <2>3 DEF SameIds
<1>4. Recounted(c, counter) = [c EXCEPT !.items = items]
  BY DEF Recounted
<1>5. [c EXCEPT !.items = items].items = items
  BY DEF ContextType
<1> QED BY <1>3, <1>4, <1>5

\* Changing the items in place, the history left as it is.
LEMMA ChangedInPlace ==
  ASSUME NEW c, WellFormed(c), NEW items \in Seq(Item), SameIds(items, c.items)
  PROVE  WellFormed([c EXCEPT !.items = items])
<1> DEFINE d == [c EXCEPT !.items = items]
<1>1. d \in ContextType /\ d.items = items /\ d.undo = c.undo /\ d.redo = c.redo
        /\ d.next = c.next
  BY DEF WellFormed, ContextType
<1>2. Ids(items) = Ids(c.items) /\ VersionOK(items, c.next)
  BY SameIdsSame DEF WellFormed, VersionsOf
<1>3. \A v \in VersionsOf(d) : VersionOK(v, d.next)
  BY <1>1, <1>2 DEF WellFormed, VersionsOf
<1>4. Growing(d.undo, d.items, d.redo)
  BY <1>1, <1>2 DEF WellFormed, Growing
<1> QED BY <1>1, <1>3, <1>4 DEF WellFormed

\* Dropping what a redo could put back.
LEMMA RedoDropped ==
  ASSUME NEW c, WellFormed(c)
  PROVE  WellFormed([c EXCEPT !.redo = <<>>])
<1> DEFINE d == [c EXCEPT !.redo = <<>>]
<1>0. c \in ContextType /\ UndoDepth \in Nat /\ <<>> \in Seq(Seq(Item))
  BY DepthAssumption DEF WellFormed
<1>1. d \in ContextType /\ d.items = c.items /\ d.undo = c.undo /\ d.redo = <<>>
        /\ d.next = c.next
  <2>1. d \in ContextType
    BY <1>0 DEF ContextType
  <2> QED BY <1>0, <2>1 DEF ContextType
<1>2. \A v \in VersionsOf(d) : VersionOK(v, d.next)
  BY <1>1 DEF WellFormed, VersionsOf, ToSet
<1>3. Growing(d.undo, d.items, d.redo)
  BY <1>1 DEF WellFormed, Growing
<1>4. Len(d.undo) + Len(d.redo) <= UndoDepth
  BY <1>0, <1>1 DEF WellFormed, ContextType
<1> QED BY <1>1, <1>2, <1>3, <1>4 DEF WellFormed

\* All but the last of a sequence, and the last.
LEMMA FrontAndLast ==
  ASSUME NEW S, NEW s \in Seq(S), s # <<>>
  PROVE  /\ Front(s) \in Seq(S) /\ Len(Front(s)) = Len(s) - 1
         /\ DOMAIN Front(s) = 1..(Len(s) - 1)
         /\ \A k \in 1..(Len(s) - 1) : Front(s)[k] = s[k]
         /\ Last(s) = s[Len(s)] /\ Last(s) \in S
         /\ ToSet(Front(s)) \cup {Last(s)} \subseteq ToSet(s)
<1> DEFINE front == SubSeq(s, 1, Len(s) - 1)
<1>1. Len(s) \in Nat /\ Len(s) > 0 /\ DOMAIN s = 1..Len(s)
  OBVIOUS
<1>2. front \in Seq(S) /\ Len(front) = Len(s) - 1
  BY <1>1
<1>3. \A k \in 1..(Len(s) - 1) : front[k] = s[k]
  BY <1>1
<1>4. DOMAIN front = 1..(Len(s) - 1)
  <2> HIDE DEF front
  <2> QED BY <1>1, <1>2
<1>5. Front(s) = front
  BY DEF Front
<1> HIDE DEF front
<1>6. ToSet(front) \subseteq ToSet(s)
  BY <1>1, <1>3, <1>4 DEF ToSet
<1>7. Last(s) = s[Len(s)] /\ Last(s) \in S /\ Last(s) \in ToSet(s)
  BY <1>1 DEF Last, ToSet
<1> QED BY <1>2, <1>3, <1>4, <1>5, <1>6, <1>7

\* A sequence with one more element at its end.
LEMMA OneMore ==
  ASSUME NEW S, NEW s \in Seq(S), NEW v \in S
  PROVE  /\ Append(s, v) \in Seq(S) /\ Len(Append(s, v)) = Len(s) + 1
         /\ DOMAIN Append(s, v) = 1..(Len(s) + 1)
         /\ \A k \in 1..Len(s) : Append(s, v)[k] = s[k]
         /\ Append(s, v)[Len(s) + 1] = v
         /\ ToSet(Append(s, v)) = ToSet(s) \cup {v}
<1>1. /\ Append(s, v) \in Seq(S) /\ Len(Append(s, v)) = Len(s) + 1
      /\ DOMAIN Append(s, v) = 1..(Len(s) + 1) /\ DOMAIN s = 1..Len(s) /\ Len(s) \in Nat
      /\ \A k \in 1..Len(s) : Append(s, v)[k] = s[k]
      /\ Append(s, v)[Len(s) + 1] = v
  OBVIOUS
<1> QED BY <1>1 DEF ToSet

\* All but the first of a sequence.
LEMMA AllButFirst ==
  ASSUME NEW S, NEW s \in Seq(S), s # <<>>
  PROVE  /\ Tail(s) \in Seq(S) /\ Len(Tail(s)) = Len(s) - 1
         /\ DOMAIN Tail(s) = 1..(Len(s) - 1)
         /\ \A k \in 1..(Len(s) - 1) : Tail(s)[k] = s[k + 1]
OBVIOUS

\* The undo stack w that a checkpoint makes of u: the version there was, v, on top
\* of the ones before it, of which the oldest may have gone.
OnTop(u, v, w) ==
  LET shift == Len(u) + 1 - Len(w)
  IN  /\ shift \in {0, 1}
      /\ \A k \in DOMAIN w :
           IF k = Len(w) THEN w[k] = v
           ELSE k + shift \in DOMAIN u /\ w[k] = u[k + shift]

\* What a checkpoint does to the undo stack.
LEMMA PutDown ==
  ASSUME NEW u \in Seq(Seq(Item)), NEW v \in Seq(Item), NEW r, NEW depth \in Nat,
         Len(u) <= depth, Growing(u, v, r),
         NEW w, w = IF depth = 0 THEN u
                    ELSE Append(IF Len(u) = depth THEN Tail(u) ELSE u, v)
  PROVE  /\ w \in Seq(Seq(Item)) /\ Len(w) <= depth
         /\ OnTop(u, v, w)
         /\ ToSet(w) \subseteq ToSet(u) \cup {v}
         /\ Growing(w, v, <<>>)
<1> DEFINE n == Len(u)
           shift == n + 1 - Len(w)
<1>0. n \in Nat /\ n <= depth /\ DOMAIN u = 1..n
  OBVIOUS
<1>1. /\ w \in Seq(Seq(Item)) /\ Len(w) <= depth /\ shift \in {0, 1}
      /\ DOMAIN w = 1..Len(w) /\ Len(w) \in Nat
      /\ \A k \in DOMAIN w : IF k = Len(w) THEN w[k] = v
                             ELSE k + shift \in DOMAIN u /\ w[k] = u[k + shift]
  <2>1. CASE depth = 0
    <3>1. w = u /\ n = 0 /\ DOMAIN w = {}
      BY <1>0, <2>1
    <3> QED BY <1>0, <2>1, <3>1
  <2>2. CASE depth # 0 /\ n = depth
    <3>1. u # <<>> BY <1>0, <2>2
    <3>2. /\ Tail(u) \in Seq(Seq(Item)) /\ Len(Tail(u)) = n - 1
          /\ \A k \in 1..(n - 1) : Tail(u)[k] = u[k + 1]
      BY <3>1, AllButFirst
    <3>3. w = Append(Tail(u), v)
      BY <2>2
    <3> DEFINE t == Tail(u)
               m == Len(t)
    <3>4. /\ w \in Seq(Seq(Item)) /\ Len(w) = m + 1 /\ w[m + 1] = v
          /\ DOMAIN w = 1..(m + 1) /\ \A k \in 1..m : w[k] = t[k]
      <4>1. t \in Seq(Seq(Item))
        BY <3>2, ZenonT(60)
      <4> HIDE DEF t
      <4> QED BY <3>3, <4>1, OneMore, SMTT(30) DEF t
    <3>5. m = n - 1 /\ \A k \in 1..(n - 1) : t[k] = u[k + 1]
      BY <3>2
    <3> HIDE DEF n, m, t
    <3>7. Len(w) = n /\ w[n] = v /\ DOMAIN w = 1..n /\ \A k \in 1..(n - 1) : w[k] = u[k + 1]
      BY <1>0, <3>4, <3>5
    <3>8. shift = 1
      BY <1>0, <3>7
    <3> HIDE DEF shift
    <3> QED BY <1>0, <3>4, <3>7, <3>8
  <2>3. CASE depth # 0 /\ n # depth
    <3>1. w = Append(u, v)
      BY <2>3
    <3>2. /\ w \in Seq(Seq(Item)) /\ Len(w) = n + 1 /\ w[n + 1] = v
          /\ DOMAIN w = 1..(n + 1) /\ \A k \in 1..n : w[k] = u[k]
      BY <3>1, OneMore
    <3> HIDE DEF n
    <3>3. shift = 0
      BY <1>0, <3>2
    <3> HIDE DEF shift
    <3> QED BY <1>0, <2>3, <3>2, <3>3
  <2> QED BY <2>1, <2>2, <2>3
<1>2. OnTop(u, v, w)
  BY <1>1 DEF OnTop
<1> HIDE DEF n, shift
<1>3. \A k \in DOMAIN w : w[k] \in ToSet(u) \cup {v} /\ Ids(w[k]) \subseteq Ids(v)
  <2>1. \A k \in DOMAIN u : u[k] \in ToSet(u) /\ Ids(u[k]) \subseteq Ids(v)
    BY DEF Growing, ToSet
  <2> QED BY <1>1, <2>1
<1>4. \A i, j \in DOMAIN w : i <= j => Ids(w[i]) \subseteq Ids(w[j])
  <2>1. \A i, j \in DOMAIN u : i <= j => Ids(u[i]) \subseteq Ids(u[j])
    BY DEF Growing
  <2> SUFFICES ASSUME NEW i \in DOMAIN w, NEW j \in DOMAIN w, i <= j
               PROVE  Ids(w[i]) \subseteq Ids(w[j])
    OBVIOUS
  <2>2. CASE j = Len(w)
    BY <1>1, <1>3, <2>2
  <2>3. CASE j # Len(w)
    <3>1. i \in Nat /\ j \in Nat /\ i + shift <= j + shift /\ i # Len(w)
      <4> DEFINE l == Len(w)
      <4>1. i \in 1..l /\ j \in 1..l /\ l \in Nat /\ j # l /\ shift \in {0, 1}
        BY <1>1, <2>3
      <4> HIDE DEF l
      <4>2. i \in Nat /\ j \in Nat /\ i + shift <= j + shift /\ i # l
        BY <4>1
      <4> QED BY <4>2 DEF l
    <3>2. i + shift \in DOMAIN u /\ w[i] = u[i + shift]
      BY <1>1, <3>1
    <3>3. j + shift \in DOMAIN u /\ w[j] = u[j + shift]
      BY <1>1, <2>3
    <3> QED BY <2>1, <3>1, <3>2, <3>3
  <2> QED BY <2>2, <2>3
<1>5. Growing(w, v, <<>>)
  <2>1. DOMAIN <<>> = {}
    OBVIOUS
  <2> QED BY <1>3, <1>4, <2>1 DEF Growing
<1> QED BY <1>1, <1>2, <1>3, <1>5 DEF ToSet

\* Going back, in a history of versions: the last one of the past comes back, the
\* present one becomes the next of the future, and nothing is cut off.
LEMMA OneBack ==
  ASSUME NEW u \in Seq(Seq(Item)), NEW v \in Seq(Item), NEW r \in Seq(Seq(Item)),
         NEW depth \in Nat, Len(u) + Len(r) <= depth, u # <<>>
  PROVE  LET longer == Append(r, v)
         IN  /\ (IF Len(longer) > depth THEN Tail(longer) ELSE longer) = longer
             /\ Front(u) \in Seq(Seq(Item)) /\ Last(u) \in Seq(Item)
             /\ longer \in Seq(Seq(Item))
             /\ Len(Front(u)) + Len(longer) <= depth
             /\ ToSet(Front(u)) \cup {Last(u)} \cup ToSet(longer)
                  \subseteq ToSet(u) \cup {v} \cup ToSet(r)
             /\ Growing(u, v, r) =>
                  Growing(Front(u), Last(u), longer) /\ Ids(Last(u)) \subseteq Ids(v)
<1> DEFINE n == Len(u)
           m == Len(r)
           front == Front(u)
           longer == Append(r, v)
<1>1. n \in Nat /\ m \in Nat /\ n > 0 /\ n + m <= depth
        /\ DOMAIN u = 1..n /\ DOMAIN r = 1..m
  OBVIOUS
<1>2. /\ front \in Seq(Seq(Item)) /\ Len(front) = n - 1 /\ DOMAIN front = 1..(n - 1)
      /\ \A k \in 1..(n - 1) : front[k] = u[k]
      /\ ToSet(front) \cup {Last(u)} \subseteq ToSet(u)
  BY FrontAndLast
<1>3. Last(u) = u[n] /\ u[n] \in Seq(Item)
  BY FrontAndLast
<1>4. /\ longer \in Seq(Seq(Item)) /\ Len(longer) = m + 1 /\ DOMAIN longer = 1..(m + 1)
      /\ \A k \in 1..m : longer[k] = r[k]
      /\ longer[m + 1] = v
      /\ ToSet(longer) = ToSet(r) \cup {v}
  BY OneMore
<1> HIDE DEF n, m, front, longer
<1>5. ~(Len(longer) > depth) /\ Len(front) + Len(longer) <= depth
  BY <1>1, <1>2, <1>4
<1>6. ToSet(front) \cup {Last(u)} \cup ToSet(longer) \subseteq ToSet(u) \cup {v} \cup ToSet(r)
  BY <1>2, <1>4
<1>7. ASSUME Growing(u, v, r)
      PROVE  Growing(front, Last(u), longer) /\ Ids(Last(u)) \subseteq Ids(v)
  <2>1. /\ \A i, j \in 1..n : i <= j => Ids(u[i]) \subseteq Ids(u[j])
        /\ \A i \in 1..n : Ids(u[i]) \subseteq Ids(v)
        /\ \A i \in 1..m : Ids(v) \subseteq Ids(r[i])
        /\ \A i, j \in 1..m : i <= j => Ids(r[j]) \subseteq Ids(r[i])
    BY <1>1, <1>7 DEF Growing
  <2>2. Ids(Last(u)) \subseteq Ids(v)
    BY <1>1, <1>3, <2>1
  <2>3. \A i, j \in 1..(n - 1) : i <= j => Ids(front[i]) \subseteq Ids(front[j])
    BY <1>1, <1>2, <2>1
  <2>4. \A i \in 1..(n - 1) : Ids(front[i]) \subseteq Ids(Last(u))
    BY <1>1, <1>2, <1>3, <2>1
  <2>5. \A i \in 1..(m + 1) : Ids(v) \subseteq Ids(longer[i])
    BY <1>1, <1>4, <2>1
  <2>6. \A i, j \in 1..(m + 1) : i <= j => Ids(longer[j]) \subseteq Ids(longer[i])
    <3> SUFFICES ASSUME NEW i \in 1..(m + 1), NEW j \in 1..(m + 1), i <= j
                 PROVE  Ids(longer[j]) \subseteq Ids(longer[i])
      OBVIOUS
    <3>1. CASE j = m + 1
      BY <1>4, <2>5, <3>1
    <3>2. CASE j # m + 1
      <4>1. i \in 1..m /\ j \in 1..m
        BY <1>1, <3>2
      <4> QED BY <1>4, <2>1, <4>1
    <3> QED BY <3>1, <3>2
  <2> QED BY <1>2, <1>4, <2>2, <2>3, <2>4, <2>5, <2>6 DEF Growing
<1> QED BY <1>2, <1>3, <1>4, <1>5, <1>6, <1>7 DEF front, longer

\* Going on: the same the other way.
LEMMA OneOn ==
  ASSUME NEW u \in Seq(Seq(Item)), NEW v \in Seq(Item), NEW r \in Seq(Seq(Item)),
         NEW depth \in Nat, Len(u) + Len(r) <= depth, r # <<>>
  PROVE  LET longer == Append(u, v)
         IN  /\ depth # 0 /\ Len(u) # depth
             /\ Front(r) \in Seq(Seq(Item)) /\ Last(r) \in Seq(Item)
             /\ longer \in Seq(Seq(Item))
             /\ Len(longer) + Len(Front(r)) <= depth
             /\ ToSet(longer) \cup {Last(r)} \cup ToSet(Front(r))
                  \subseteq ToSet(u) \cup {v} \cup ToSet(r)
             /\ Growing(u, v, r) =>
                  Growing(longer, Last(r), Front(r)) /\ Ids(v) \subseteq Ids(Last(r))
<1> DEFINE n == Len(u)
           m == Len(r)
           front == Front(r)
           longer == Append(u, v)
<1>1. n \in Nat /\ m \in Nat /\ m > 0 /\ n + m <= depth
        /\ DOMAIN u = 1..n /\ DOMAIN r = 1..m
  OBVIOUS
<1>2. /\ front \in Seq(Seq(Item)) /\ Len(front) = m - 1 /\ DOMAIN front = 1..(m - 1)
      /\ \A k \in 1..(m - 1) : front[k] = r[k]
      /\ ToSet(front) \cup {Last(r)} \subseteq ToSet(r)
  BY FrontAndLast
<1>3. Last(r) = r[m] /\ r[m] \in Seq(Item)
  BY FrontAndLast
<1>4. /\ longer \in Seq(Seq(Item)) /\ Len(longer) = n + 1 /\ DOMAIN longer = 1..(n + 1)
      /\ \A k \in 1..n : longer[k] = u[k]
      /\ longer[n + 1] = v
      /\ ToSet(longer) = ToSet(u) \cup {v}
  BY OneMore
<1> HIDE DEF n, m, front, longer
<1>5. depth # 0 /\ n # depth
  BY <1>1
<1>6. Len(longer) + Len(front) <= depth
  BY <1>1, <1>2, <1>4
<1>7. ToSet(longer) \cup {Last(r)} \cup ToSet(front) \subseteq ToSet(u) \cup {v} \cup ToSet(r)
  BY <1>2, <1>4
<1>8. ASSUME Growing(u, v, r)
      PROVE  Growing(longer, Last(r), front) /\ Ids(v) \subseteq Ids(Last(r))
  <2>1. /\ \A i, j \in 1..n : i <= j => Ids(u[i]) \subseteq Ids(u[j])
        /\ \A i \in 1..n : Ids(u[i]) \subseteq Ids(v)
        /\ \A i \in 1..m : Ids(v) \subseteq Ids(r[i])
        /\ \A i, j \in 1..m : i <= j => Ids(r[j]) \subseteq Ids(r[i])
    BY <1>1, <1>8 DEF Growing
  <2>2. Ids(v) \subseteq Ids(Last(r))
    BY <1>1, <1>3, <2>1
  <2>3. \A i \in 1..(n + 1) : Ids(longer[i]) \subseteq Ids(v)
    BY <1>1, <1>4, <2>1
  <2>4. \A i, j \in 1..(n + 1) : i <= j => Ids(longer[i]) \subseteq Ids(longer[j])
    <3> SUFFICES ASSUME NEW i \in 1..(n + 1), NEW j \in 1..(n + 1), i <= j
                 PROVE  Ids(longer[i]) \subseteq Ids(longer[j])
      OBVIOUS
    <3>1. CASE j = n + 1
      BY <1>4, <2>3, <3>1
    <3>2. CASE j # n + 1
      <4>1. i \in 1..n /\ j \in 1..n
        BY <1>1, <3>2
      <4> QED BY <1>4, <2>1, <4>1
    <3> QED BY <3>1, <3>2
  <2>5. \A i \in 1..(m - 1) : Ids(Last(r)) \subseteq Ids(front[i])
    BY <1>1, <1>2, <1>3, <2>1
  <2>6. \A i, j \in 1..(m - 1) : i <= j => Ids(front[j]) \subseteq Ids(front[i])
    BY <1>1, <1>2, <2>1
  <2> QED BY <1>2, <1>4, <2>2, <2>3, <2>4, <2>5, <2>6 DEF Growing
<1> QED BY <1>2, <1>3, <1>4, <1>5, <1>6, <1>7, <1>8 DEF front, longer, n

\* The parts of a well formed context, for the leaves that need them one by one.
LEMMA Parts ==
  ASSUME NEW c, WellFormed(c)
  PROVE  /\ c \in ContextType /\ UndoDepth \in Nat
         /\ c.undo \in Seq(Seq(Item)) /\ c.redo \in Seq(Seq(Item)) /\ c.items \in Seq(Item)
         /\ c.next \in Nat \ {0} /\ c.taken \in Nat
         /\ Len(c.undo) + Len(c.redo) <= UndoDepth
         /\ Growing(c.undo, c.items, c.redo)
         /\ \A v \in VersionsOf(c) : VersionOK(v, c.next)
BY DepthAssumption DEF WellFormed, ContextType

\* Undo keeps a context well formed: no version is lost, and none is new.
LEMMA UndoneMoves ==
  ASSUME NEW c, WellFormed(c), c.undo # <<>>
  PROVE  LET d == Undone(c)
         IN  /\ WellFormed(d)
             /\ d.next = c.next /\ d.taken = c.taken
             /\ Ids(d.items) \subseteq Ids(c.items)
             /\ VersionsOf(d) \subseteq VersionsOf(c)
<1> DEFINE d == Undone(c)
           longer == Append(c.redo, c.items)
<1>0. c \in ContextType /\ UndoDepth \in Nat
        /\ c.undo \in Seq(Seq(Item)) /\ c.redo \in Seq(Seq(Item)) /\ c.items \in Seq(Item)
        /\ Len(c.undo) + Len(c.redo) <= UndoDepth /\ Growing(c.undo, c.items, c.redo)
        /\ \A v \in VersionsOf(c) : VersionOK(v, c.next)
  BY Parts
<1>1. /\ (IF Len(longer) > UndoDepth THEN Tail(longer) ELSE longer) = longer
      /\ Front(c.undo) \in Seq(Seq(Item)) /\ Last(c.undo) \in Seq(Item)
      /\ longer \in Seq(Seq(Item))
      /\ Len(Front(c.undo)) + Len(longer) <= UndoDepth
      /\ ToSet(Front(c.undo)) \cup {Last(c.undo)} \cup ToSet(longer)
           \subseteq ToSet(c.undo) \cup {c.items} \cup ToSet(c.redo)
      /\ Growing(Front(c.undo), Last(c.undo), longer)
      /\ Ids(Last(c.undo)) \subseteq Ids(c.items)
  BY <1>0, OneBack
<1>2. d = [c EXCEPT !.items = Last(c.undo), !.undo = Front(c.undo), !.redo = longer]
  BY <1>0, <1>1 DEF Undone, ContextType
<1> HIDE DEF d, longer
<1>3. d \in ContextType
  BY <1>0, <1>1, <1>2 DEF ContextType
<1>4. d.items = Last(c.undo) /\ d.undo = Front(c.undo) /\ d.redo = longer
        /\ d.next = c.next /\ d.taken = c.taken
  BY <1>0, <1>2 DEF ContextType
<1>5. VersionsOf(d) \subseteq VersionsOf(c)
  BY <1>1, <1>4 DEF VersionsOf
<1> QED BY <1>0, <1>1, <1>3, <1>4, <1>5 DEF WellFormed, d

\* Redo keeps a context well formed.
LEMMA RedoneMoves ==
  ASSUME NEW c, WellFormed(c), c.redo # <<>>
  PROVE  LET d == Redone(c)
         IN  /\ WellFormed(d)
             /\ d.next = c.next /\ d.taken = c.taken
             /\ Ids(c.items) \subseteq Ids(d.items)
             /\ VersionsOf(d) \subseteq VersionsOf(c)
<1> DEFINE d == Redone(c)
           longer == Append(c.undo, c.items)
<1>0. c \in ContextType /\ UndoDepth \in Nat
        /\ c.undo \in Seq(Seq(Item)) /\ c.redo \in Seq(Seq(Item)) /\ c.items \in Seq(Item)
        /\ Len(c.undo) + Len(c.redo) <= UndoDepth /\ Growing(c.undo, c.items, c.redo)
        /\ \A v \in VersionsOf(c) : VersionOK(v, c.next)
  BY Parts
<1>1. /\ UndoDepth # 0 /\ Len(c.undo) # UndoDepth
      /\ Front(c.redo) \in Seq(Seq(Item)) /\ Last(c.redo) \in Seq(Item)
      /\ longer \in Seq(Seq(Item))
      /\ Len(longer) + Len(Front(c.redo)) <= UndoDepth
      /\ ToSet(longer) \cup {Last(c.redo)} \cup ToSet(Front(c.redo))
           \subseteq ToSet(c.undo) \cup {c.items} \cup ToSet(c.redo)
      /\ Growing(longer, Last(c.redo), Front(c.redo))
      /\ Ids(c.items) \subseteq Ids(Last(c.redo))
  BY <1>0, OneOn
<1>2. d = [c EXCEPT !.items = Last(c.redo), !.redo = Front(c.redo), !.undo = longer]
  BY <1>0, <1>1 DEF Redone, ContextType
<1> HIDE DEF d, longer
<1>3. d \in ContextType
  BY <1>0, <1>1, <1>2 DEF ContextType
<1>4. d.items = Last(c.redo) /\ d.redo = Front(c.redo) /\ d.undo = longer
        /\ d.next = c.next /\ d.taken = c.taken
  BY <1>0, <1>2 DEF ContextType
<1>5. VersionsOf(d) \subseteq VersionsOf(c)
  BY <1>1, <1>4 DEF VersionsOf
<1> QED BY <1>0, <1>1, <1>3, <1>4, <1>5 DEF WellFormed, d

\* Cutting a history off leaves its older part.
LEMMA CutOff ==
  ASSUME NEW u \in Seq(Seq(Item)), NEW v \in Seq(Item), NEW r \in Seq(Seq(Item)),
         NEW since \in Nat, NEW depth \in Nat, Len(u) + Len(r) <= depth
  PROVE  LET left == IF Len(u) > since THEN Len(u) - since ELSE 0
             d == SubSeq(u, 1, left)
         IN  /\ d \in Seq(Seq(Item)) /\ Len(d) + Len(r) <= depth
             /\ \A k \in DOMAIN d : k \in DOMAIN u /\ d[k] = u[k] /\ k <= Len(u) - since
             /\ ToSet(d) \subseteq ToSet(u)
             /\ Growing(u, v, r) => Growing(d, v, r)
<1> DEFINE n == Len(u)
           m == Len(r)
           left == IF n > since THEN n - since ELSE 0
           d == SubSeq(u, 1, left)
<1>1. n \in Nat /\ m \in Nat /\ n + m <= depth /\ DOMAIN u = 1..n
  OBVIOUS
<1>2. left \in 0..n /\ (left > 0 => left = n - since)
  <2> HIDE DEF n
  <2> QED BY <1>1
<1>3. d \in Seq(Seq(Item)) /\ Len(d) = left /\ DOMAIN d = 1..left
        /\ \A k \in 1..left : d[k] = u[k]
  <2> HIDE DEF left
  <2> QED BY <1>1, <1>2
<1> HIDE DEF n, m, left, d
<1>4. \A k \in 1..left : k \in 1..n /\ k <= n - since
  BY <1>1, <1>2
<1>5. Len(d) + m <= depth
  BY <1>1, <1>2, <1>3
<1>6. ToSet(d) \subseteq ToSet(u)
  BY <1>1, <1>3, <1>4 DEF ToSet
<1>7. Growing(u, v, r) => Growing(d, v, r)
  BY <1>1, <1>3, <1>4 DEF Growing
<1> QED BY <1>1, <1>3, <1>4, <1>5, <1>6, <1>7 DEF d, left, n, m

\* Folding: what is left of the history is its older part.
LEMMA FoldedKeepsOlder ==
  ASSUME NEW c, WellFormed(c), NEW taken \in Nat, taken <= c.taken
  PROVE  LET d == FoldSince(c, taken)
         IN  /\ WellFormed(d)
             /\ d.items = c.items /\ d.redo = c.redo /\ d.next = c.next /\ d.taken = taken
             /\ \A k \in DOMAIN d.undo :
                  /\ k \in DOMAIN c.undo /\ d.undo[k] = c.undo[k]
                  /\ k <= Len(c.undo) - (c.taken - taken)
<1> DEFINE d == FoldSince(c, taken)
           since == c.taken - taken
           left == IF Len(c.undo) > since THEN Len(c.undo) - since ELSE 0
           undo == SubSeq(c.undo, 1, left)
<1>0. c \in ContextType /\ UndoDepth \in Nat
        /\ c.undo \in Seq(Seq(Item)) /\ c.redo \in Seq(Seq(Item)) /\ c.items \in Seq(Item)
        /\ Len(c.undo) + Len(c.redo) <= UndoDepth /\ Growing(c.undo, c.items, c.redo)
        /\ \A v \in VersionsOf(c) : VersionOK(v, c.next)
  BY Parts
<1>1. since \in Nat /\ (IF c.taken > taken THEN c.taken - taken ELSE 0) = since
  <2>1. c.taken \in Nat
    BY Parts
  <2> QED BY <2>1
<1>2. d = [c EXCEPT !.undo = undo, !.taken = taken]
  BY <1>0, <1>1 DEF FoldSince, ContextType
<1>3. /\ undo \in Seq(Seq(Item)) /\ Len(undo) + Len(c.redo) <= UndoDepth
      /\ \A k \in DOMAIN undo : k \in DOMAIN c.undo /\ undo[k] = c.undo[k]
                                  /\ k <= Len(c.undo) - since
      /\ ToSet(undo) \subseteq ToSet(c.undo)
      /\ Growing(undo, c.items, c.redo)
  <2>1. since \in Nat
    BY <1>1
  <2> HIDE DEF since
  <2> QED BY <1>0, <2>1, CutOff
<1> HIDE DEF d, undo, left
<1>4. d \in ContextType
  BY <1>0, <1>2, <1>3 DEF ContextType
<1>5. d.undo = undo /\ d.items = c.items /\ d.redo = c.redo
        /\ d.next = c.next /\ d.taken = taken
  BY <1>0, <1>2 DEF ContextType
<1>6. VersionsOf(d) \subseteq VersionsOf(c)
  BY <1>3, <1>5 DEF VersionsOf
<1>7. WellFormed(d)
  BY <1>0, <1>3, <1>4, <1>5, <1>6 DEF WellFormed
<1> QED BY <1>3, <1>5, <1>7 DEF d

\* Adding items with nothing to redo, and no checkpoint.
LEMMA GrownInPlace ==
  ASSUME NEW c, WellFormed(c), c.redo = <<>>, NEW items \in Seq(Item), NEW next \in Nat,
         c.next <= next, VersionOK(items, next), Ids(c.items) \subseteq Ids(items)
  PROVE  WellFormed([c EXCEPT !.items = items, !.next = next])
<1> DEFINE d == [c EXCEPT !.items = items, !.next = next]
<1>0. c \in ContextType /\ c.undo \in Seq(Seq(Item)) /\ c.next \in Nat \ {0}
        /\ next \in Nat \ {0}
  <2>1. c \in ContextType
    BY DEF WellFormed
  <2>2. c.undo \in Seq(Seq(Item)) /\ c.next \in Nat \ {0}
    BY <2>1 DEF ContextType
  <2> QED BY <2>1, <2>2
<1>1. d.items = items /\ d.next = next /\ d.undo = c.undo /\ d.redo = <<>>
  BY <1>0 DEF ContextType
<1>2. d \in ContextType
  BY <1>0 DEF ContextType
<1> HIDE DEF d
<1>3. \A v \in VersionsOf(d) : VersionOK(v, next)
  <2>1. \A v \in VersionsOf(c) : VersionOK(v, next)
    BY <1>0 DEF WellFormed, VersionOK
  <2>2. \A k \in DOMAIN c.undo : c.undo[k] \in VersionsOf(c)
    BY DEF VersionsOf, ToSet
  <2> QED BY <1>1, <2>1, <2>2 DEF VersionsOf, ToSet
<1>4. Growing(d.undo, d.items, d.redo)
  <2>1. Growing(c.undo, c.items, c.redo)
    BY Parts
  <2>2. \A i \in DOMAIN c.undo : Ids(c.undo[i]) \subseteq Ids(items)
    BY <2>1 DEF Growing
  <2>3. DOMAIN d.redo = {}
    BY <1>1
  <2>4. d.undo = c.undo /\ d.items = items
    BY <1>1
  <2> QED BY <2>1, <2>2, <2>3, <2>4 DEF Growing
<1>5. Len(d.undo) + Len(d.redo) <= UndoDepth
  BY <1>1 DEF WellFormed
<1> QED BY <1>1, <1>2, <1>3, <1>4, <1>5 DEF WellFormed, d

\* Items put behind a version, with the identifiers that come next.
LEMMA PutBehind ==
  ASSUME NEW v \in Seq(Item), NEW first \in Nat \ {0}, VersionOK(v, first),
         NEW new \in Seq(Item), \A k \in DOMAIN new : new[k].id = first + k - 1
  PROVE  /\ v \o new \in Seq(Item)
         /\ first + Len(new) \in Nat \ {0} /\ first <= first + Len(new)
         /\ VersionOK(v \o new, first + Len(new))
         /\ Ids(v \o new) = Ids(v) \cup (first .. (first + Len(new) - 1))
         /\ Ids(v) \subseteq 1..(first - 1)
<1> DEFINE all == v \o new
           n == Len(v)
           m == Len(new)
           id(k) == all[k].id
<1>1. /\ all \in Seq(Item) /\ Len(all) = n + m /\ n \in Nat /\ m \in Nat
      /\ DOMAIN v = 1..n /\ DOMAIN new = 1..m
      /\ \A k \in 1..n : all[k] = v[k]
      /\ \A k \in 1..m : all[n + k] = new[k]
  OBVIOUS
<1>2. DOMAIN all = 1..(n + m)
  <2> HIDE DEF all
  <2> QED BY <1>1
<1>3. \A k \in 1..n : id(k) = v[k].id /\ id(k) \in 1..(first - 1)
  BY <1>1 DEF VersionOK
<1>4. \A i, j \in 1..n : i < j => id(i) < id(j)
  <2>1. \A i, j \in 1..n : i < j => v[i].id < v[j].id
    BY <1>1 DEF VersionOK, Sorted
  <2> QED BY <1>3, <2>1
<1>5. \A k \in 1..m : id(n + k) = first + k - 1
  BY <1>1
<1>7. Ids(all) = {id(k) : k \in 1..(n + m)} /\ Ids(v) = {id(k) : k \in 1..n}
  BY <1>1, <1>2, <1>3 DEF Ids
<1> HIDE DEF all, n, m, id
<1>8. \A k \in 1..(n + m) : k \in 1..n \/ (k - n \in 1..m /\ n + (k - n) = k)
  BY <1>1
<1>9. \A k \in 1..(n + m) : k \notin 1..n => id(k) = first + k - n - 1
  <2> SUFFICES ASSUME NEW k \in 1..(n + m), k \notin 1..n
               PROVE  id(k) = first + k - n - 1
    OBVIOUS
  <2>1. k - n \in 1..m /\ n + (k - n) = k
    BY <1>8
  <2>2. id(n + (k - n)) = first + (k - n) - 1
    BY <1>5, <2>1
  <2> QED BY <1>1, <2>1, <2>2
<1>10. \A k \in 1..(n + m) : id(k) \in 1..(first + m - 1)
  BY <1>1, <1>3, <1>9
<1>11. \A i, j \in 1..(n + m) : i < j => id(i) < id(j)
  BY <1>1, <1>3, <1>4, <1>9
<1>12. Ids(all) = Ids(v) \cup (first .. (first + m - 1))
  <2>1. ASSUME NEW x \in first .. (first + m - 1)
        PROVE  x \in {id(k) : k \in 1..(n + m)}
    <3>1. x - first + 1 \in 1..m /\ n + (x - first + 1) \in 1..(n + m)
      BY <1>1
    <3>2. id(n + (x - first + 1)) = first + (x - first + 1) - 1
      BY <1>5, <3>1
    <3>3. id(n + (x - first + 1)) = x
      BY <1>1, <3>2
    <3> QED BY <3>1, <3>3
  <2>2. ASSUME NEW k \in 1..(n + m)
        PROVE  id(k) \in {id(i) : i \in 1..n} \cup (first .. (first + m - 1))
    <3>1. CASE k \in 1..n
      BY <3>1
    <3>2. CASE k \notin 1..n
      BY <1>1, <1>9, <3>2
    <3> QED BY <3>1, <3>2
  <2>3. {id(k) : k \in 1..n} \subseteq {id(k) : k \in 1..(n + m)}
    BY <1>1
  <2> QED BY <1>7, <2>1, <2>2, <2>3
<1>13. Ids(v) \subseteq 1..(first - 1)
  BY <1>3, <1>7
<1>14. first + m \in Nat \ {0} /\ first <= first + m
  BY <1>1
<1>15. VersionOK(all, first + m)
  <2>1. \A i, j \in DOMAIN all : i < j => all[i].id < all[j].id
    BY <1>2, <1>11 DEF id
  <2>2. \A k \in DOMAIN all : all[k].id \in 1..(first + m - 1)
    BY <1>2, <1>10 DEF id
  <2>3. Sorted(all)
    BY <2>1, Zenon DEF Sorted
  <2> QED BY <1>1, <1>14, <2>2, <2>3 DEF VersionOK
<1> QED BY <1>1, <1>12, <1>13, <1>14, <1>15 DEF all, m

---------------------------------------------------------------------------
(* The operations of the code, one by one.                                 *)

\* One item of a list replaced by another of the same identifier.
LEMMA PlacedIn ==
  ASSUME NEW v \in Seq(Item), NEW j \in DOMAIN v, NEW x \in Item, x.id = v[j].id
  PROVE  [v EXCEPT ![j] = x] \in Seq(Item) /\ SameIds([v EXCEPT ![j] = x], v)
<1> DEFINE w == [v EXCEPT ![j] = x]
<1>1. w = [k \in DOMAIN v |-> w[k]]
  OBVIOUS
<1>2. \A k \in DOMAIN v : w[k] \in Item /\ w[k].id = v[k].id
  OBVIOUS
<1>3. w \in Seq(Item)
  <2> HIDE DEF w
  <2> QED BY <1>1, <1>2, MadeFrom
<1> QED BY <1>2, <1>3 DEF SameIds

\* What index_of finds is there.
LEMMA IndexFinds ==
  ASSUME NEW v, NEW id \in Ids(v)
  PROVE  IndexOf(v, id) \in DOMAIN v /\ v[IndexOf(v, id)].id = id
<1>1. \E k \in DOMAIN v : v[k].id = id
  BY DEF Ids
<1> QED BY <1>1 DEF IndexOf

\* A change of one item, in place.
LEMMA OneChanged ==
  ASSUME NEW c, c \in ContextType, NEW j \in DOMAIN c.items,
         NEW x \in Item, x.id = c.items[j].id
  PROVE  LET items == [c.items EXCEPT ![j] = x]
         IN  /\ [c EXCEPT !.items[j] = x] = [c EXCEPT !.items = items]
             /\ items \in Seq(Item) /\ SameIds(items, c.items)
<1>1. c.items \in Seq(Item)
  BY DEF ContextType
<1>2. [c EXCEPT !.items[j] = x] = [c EXCEPT !.items = [c.items EXCEPT ![j] = x]]
  BY DEF ContextType
<1> QED BY <1>1, <1>2, PlacedIn

\* SetState changes at most one item, in place.
LEMMA SetStateInPlace ==
  ASSUME NEW c, c \in ContextType, NEW id, NEW state \in States,
         NEW note \in Notes \cup Nat \cup {NoNote}
  PROVE  \E items \in Seq(Item) :
           SameIds(items, c.items) /\ SetState(c, id, state, note) = [c EXCEPT !.items = items]
<1>1. c.items \in Seq(Item)
  BY DEF ContextType
<1>2. CASE WouldChange(c, id, state, note)
  <2> DEFINE j == IndexOf(c.items, id)
             x == [c.items[j] EXCEPT !.state = state, !.note = note]
  <2>1. j \in DOMAIN c.items
    BY <1>2, IndexFinds DEF WouldChange
  <2>2. x \in Item /\ x.id = c.items[j].id
    <3>1. c.items[j] \in Item
      BY <1>1, <2>1
    <3> HIDE DEF j
    <3> QED BY <3>1 DEF Item
  <2>3. SetState(c, id, state, note) = [c EXCEPT !.items[j] = x]
    BY <1>2 DEF SetState
  <2> HIDE DEF j, x
  <2> QED BY <2>1, <2>2, <2>3, OneChanged
<1>3. CASE ~WouldChange(c, id, state, note)
  <2>1. SetState(c, id, state, note) = [c EXCEPT !.items = c.items]
    BY <1>3 DEF SetState, ContextType
  <2>2. SameIds(c.items, c.items)
    BY DEF SameIds
  <2> QED BY <1>1, <2>1, <2>2
<1> QED BY <1>2, <1>3

\* Replace changes one item, in place.
LEMMA ReplaceInPlace ==
  ASSUME NEW c, c \in ContextType, NEW id \in Ids(c.items), NEW text \in Texts,
         NEW counter \in Counters
  PROVE  \E items \in Seq(Item) :
           SameIds(items, c.items) /\ Replace(c, id, text, counter) = [c EXCEPT !.items = items]
<1> DEFINE j == IndexOf(c.items, id)
           x == [c.items[j] EXCEPT !.text = text, !.priced = counter]
<1>1. c.items \in Seq(Item)
  BY DEF ContextType
<1>2. j \in DOMAIN c.items
  BY IndexFinds
<1>3. x \in Item /\ x.id = c.items[j].id
  <2>1. c.items[j] \in Item
    BY <1>1, <1>2
  <2> HIDE DEF j
  <2> QED BY <2>1 DEF Item
<1>4. Replace(c, id, text, counter) = [c EXCEPT !.items[j] = x]
  BY DEF Replace
<1> HIDE DEF j, x
<1> QED BY <1>2, <1>3, <1>4, OneChanged

\* Annotate, where it changes anything, changes one item in place and drops the
\* redo stack.
LEMMA AnnotateInPlace ==
  ASSUME NEW c, WellFormed(c), NEW id \in Ids(c.items), NEW meta \in Metas,
         NEW d, d = Annotate(c, id, meta), d # c
  PROVE  /\ WellFormed(d) /\ Ids(d.items) = Ids(c.items) /\ d.undo = c.undo
         /\ d.redo = <<>> /\ d.next = c.next /\ d.taken = c.taken
<1> DEFINE j == IndexOf(c.items, id)
           x == [c.items[j] EXCEPT !.meta = meta]
           items == [c.items EXCEPT ![j] = x]
           e == [c EXCEPT !.items = items]
<1>1. c \in ContextType /\ c.items \in Seq(Item)
  BY Parts
<1>2. j \in DOMAIN c.items
  BY IndexFinds
<1>3. x \in Item /\ x.id = c.items[j].id
  <2>1. c.items[j] \in Item
    BY <1>1, <1>2
  <2> HIDE DEF j
  <2> QED BY <2>1 DEF Item
<1>4. d = [[c EXCEPT !.items[j] = x] EXCEPT !.redo = <<>>]
  BY <1>1 DEF Annotate, ContextType
<1>5. [c EXCEPT !.items[j] = x] = e /\ items \in Seq(Item) /\ SameIds(items, c.items)
  <2> HIDE DEF j, x
  <2> QED BY <1>1, <1>2, <1>3, OneChanged
<1> HIDE DEF j, x, items
<1>6. WellFormed(e) /\ e.items = items /\ e.undo = c.undo /\ e.next = c.next
        /\ e.taken = c.taken
  BY <1>1, <1>5, ChangedInPlace DEF ContextType
<1>7. d = [e EXCEPT !.redo = <<>>] /\ e \in ContextType
  BY <1>4, <1>5, <1>6 DEF WellFormed
<1> HIDE DEF e
<1>8. WellFormed(d)
  BY <1>6, <1>7, RedoDropped
<1>9. d.items = items /\ d.undo = c.undo /\ d.redo = <<>> /\ d.next = c.next
        /\ d.taken = c.taken
  BY <1>6, <1>7 DEF ContextType
<1> QED BY <1>5, <1>8, <1>9, SameIdsSame

\* A run of changes is made in place.
LEMMA SetAllInPlace ==
  ASSUME NEW c, c \in ContextType, NEW changes, NEW targets,
         \A i \in targets : /\ changes[i].state \in States
                            /\ changes[i].note \in Notes \cup Nat \cup {NoNote}
  PROVE  \E items \in Seq(Item) :
           SameIds(items, c.items) /\ SetAll(c, changes, targets) = [c EXCEPT !.items = items]
<1> DEFINE last(id) == {i \in targets : /\ changes[i].id = id
                                        /\ \A j \in targets : changes[j].id = id => j <= i}
           pick(id) == CHOOSE i \in last(id) : TRUE
           moved(item) == [item EXCEPT !.state = changes[pick(item.id)].state,
                                       !.note = changes[pick(item.id)].note]
           items == [k \in DOMAIN c.items |->
                       IF last(c.items[k].id) = {} THEN c.items[k] ELSE moved(c.items[k])]
<1>1. c.items \in Seq(Item)
  BY SMTT(30) DEF ContextType
<1>2. \A k \in DOMAIN c.items : items[k] \in Item /\ items[k].id = c.items[k].id
  <2> SUFFICES ASSUME NEW k \in DOMAIN c.items
               PROVE  items[k] \in Item /\ items[k].id = c.items[k].id
    OBVIOUS
  <2>1. c.items[k] \in Item
    BY <1>1, SMTT(30)
  <2>2. CASE last(c.items[k].id) = {}
    BY <2>1, <2>2
  <2>3. CASE last(c.items[k].id) # {}
    <3>1. pick(c.items[k].id) \in targets
      BY <2>3
    <3>2. items[k] = moved(c.items[k])
      BY <2>3
    <3> HIDE DEF last, pick, items
    <3> QED BY <2>1, <3>1, <3>2, ZenonT(60) DEF Item
  <2> QED BY <2>2, <2>3, ZenonT(60)
<1>3. items = [k \in DOMAIN c.items |-> items[k]]
  OBVIOUS
<1>4. SetAll(c, changes, targets) = [c EXCEPT !.items = items]
  BY DEF SetAll
<1> HIDE DEF items
<1>5. items \in Seq(Item) /\ SameIds(items, c.items)
  BY <1>1, <1>2, <1>3, MadeFrom DEF SameIds
<1> QED BY <1>4, <1>5

---------------------------------------------------------------------------
(* What a change made after a checkpoint comes to.                         *)

\* d is c after an operation: a checkpoint of c, and then its items with whatever
\* was changed on them and some new ones behind them.
Edited(c, d) ==
  /\ WellFormed(d)
  /\ d.redo = <<>> /\ d.taken = c.taken + 1
  /\ c.next <= d.next /\ Ids(d.items) = Ids(c.items) \cup (c.next .. (d.next - 1))
  /\ OnTop(c.undo, c.items, d.undo)

\* Items grown behind: nothing to redo, and no checkpoint.
LEMMA Grown ==
  ASSUME NEW c, WellFormed(c), c.redo = <<>>, NEW new \in Seq(Item), NEW counter \in Counters
  PROVE  LET d == AddAll(c, new, counter)
         IN  /\ WellFormed(d)
             /\ d.undo = c.undo /\ d.redo = <<>> /\ d.taken = c.taken
             /\ d.next = c.next + Len(new) /\ c.next <= d.next
             /\ Ids(d.items) = Ids(c.items) \cup (c.next .. (d.next - 1))
<1> DEFINE d == AddAll(c, new, counter)
           fresh == [k \in DOMAIN new |->
                       [new[k] EXCEPT !.id = c.next + k - 1, !.priced = counter]]
<1>1. c \in ContextType /\ c.items \in Seq(Item) /\ c.next \in Nat \ {0}
        /\ VersionOK(c.items, c.next)
  BY Parts DEF VersionsOf
<1>2. \A k \in DOMAIN new : fresh[k] \in Item /\ fresh[k].id = c.next + k - 1
  <2> SUFFICES ASSUME NEW k \in DOMAIN new
               PROVE  fresh[k] \in Item /\ fresh[k].id = c.next + k - 1
    OBVIOUS
  <2>1. new[k] \in Item /\ k \in Nat \ {0}
    OBVIOUS
  <2>2. c.next + k - 1 \in Nat
    BY <1>1, <2>1
  <2>3. fresh[k] = [new[k] EXCEPT !.id = c.next + k - 1, !.priced = counter]
    OBVIOUS
  <2> HIDE DEF fresh
  <2> QED BY <2>1, <2>2, <2>3 DEF Item
<1>3. fresh = [k \in DOMAIN new |-> fresh[k]] /\ DOMAIN fresh = DOMAIN new
  OBVIOUS
<1>4. d = [c EXCEPT !.items = c.items \o fresh, !.next = c.next + Len(new)]
  BY <1>1 DEF AddAll, ContextType
<1> HIDE DEF fresh, d
<1>5. fresh \in Seq(Item) /\ Len(fresh) = Len(new)
  BY <1>2, <1>3, MadeFrom
<1>6. \A k \in DOMAIN fresh : fresh[k].id = c.next + k - 1
  BY <1>2, <1>3
<1> DEFINE first == c.next
           after == first + Len(new)
           v == c.items
           w == c.items \o fresh
<1>7. /\ w \in Seq(Item) /\ after \in Nat \ {0} /\ first <= after
      /\ VersionOK(w, after) /\ Ids(w) = Ids(v) \cup (first .. (after - 1))
  <2>1. v \in Seq(Item) /\ first \in Nat \ {0} /\ VersionOK(v, first)
          /\ \A k \in DOMAIN fresh : fresh[k].id = first + k - 1
    BY <1>1, <1>6
  <2> HIDE DEF first
  <2>2. v \o fresh \in Seq(Item)
          /\ first + Len(fresh) \in Nat \ {0} /\ first <= first + Len(fresh)
          /\ VersionOK(v \o fresh, first + Len(fresh))
          /\ Ids(v \o fresh) = Ids(v) \cup (first .. (first + Len(fresh) - 1))
    <3> HIDE DEF v
    <3> QED BY <1>5, <2>1, PutBehind, ZenonT(60)
  <2>3. first + Len(fresh) = after /\ v \o fresh = w
    BY <1>5
  <2> HIDE DEF after, v, w
  <2> QED BY <1>5, <2>1, <2>2, <2>3
<1>8. d = [c EXCEPT !.items = w, !.next = after]
  BY <1>4
<1>9. d.items = w /\ d.next = after /\ d.undo = c.undo
        /\ d.redo = <<>> /\ d.taken = c.taken
  BY <1>1, <1>8 DEF ContextType
<1>10. c.next = first /\ c.items = v /\ after = c.next + Len(new)
  OBVIOUS
<1> HIDE DEF first, after, v, w
<1>11. WellFormed(d)
  BY <1>7, <1>8, <1>10, GrownInPlace
<1>12. c.next <= d.next /\ Ids(d.items) = Ids(c.items) \cup (c.next .. (d.next - 1))
  BY <1>7, <1>9, <1>10
<1> QED BY <1>9, <1>10, <1>11, <1>12 DEF d

\* A checkpoint on its own.
LEMMA CheckpointEdits ==
  ASSUME NEW c, WellFormed(c)
  PROVE  Edited(c, Checkpoint(c)) /\ Checkpoint(c).items = c.items
           /\ Checkpoint(c).next = c.next
<1> DEFINE d == Checkpoint(c)
           undo == IF UndoDepth = 0 THEN c.undo
                   ELSE Append(IF Len(c.undo) = UndoDepth THEN Tail(c.undo) ELSE c.undo, c.items)
<1>1. /\ c \in ContextType /\ UndoDepth \in Nat
      /\ c.undo \in Seq(Seq(Item)) /\ c.items \in Seq(Item)
      /\ c.next \in Nat \ {0} /\ c.taken \in Nat
      /\ Growing(c.undo, c.items, c.redo)
      /\ \A v \in VersionsOf(c) : VersionOK(v, c.next)
  BY Parts
<1>2. Len(c.undo) <= UndoDepth
  <2> DEFINE n == Len(c.undo)
             m == Len(c.redo)
  <2>1. n \in Nat /\ m \in Nat
    BY Parts
  <2>0. n + m <= UndoDepth
    BY DEF WellFormed
  <2> HIDE DEF n, m
  <2>2. n <= UndoDepth
    BY <1>1, <2>0, <2>1
  <2> QED BY <2>2 DEF n
<1>3. d = [c EXCEPT !.redo = <<>>, !.taken = c.taken + 1, !.undo = undo]
  BY <1>1 DEF Checkpoint, ContextType
<1>4. /\ undo \in Seq(Seq(Item)) /\ Len(undo) <= UndoDepth
      /\ OnTop(c.undo, c.items, undo)
      /\ ToSet(undo) \subseteq ToSet(c.undo) \cup {c.items}
      /\ Growing(undo, c.items, <<>>)
  <2> DEFINE u == c.undo
             v == c.items
             r == c.redo
  <2>1. u \in Seq(Seq(Item)) /\ v \in Seq(Item) /\ Len(u) <= UndoDepth /\ Growing(u, v, r)
          /\ undo = IF UndoDepth = 0 THEN u
                     ELSE Append(IF Len(u) = UndoDepth THEN Tail(u) ELSE u, v)
    BY <1>1, <1>2
  <2> HIDE DEF u, v, r, undo
  <2>2. /\ undo \in Seq(Seq(Item)) /\ Len(undo) <= UndoDepth
        /\ OnTop(u, v, undo)
        /\ ToSet(undo) \subseteq ToSet(u) \cup {v}
        /\ Growing(undo, v, <<>>)
    BY <2>1, DepthAssumption, PutDown
  <2> QED BY <2>2 DEF u, v
<1>5. c.next .. (c.next - 1) = {} /\ c.next <= c.next
      /\ <<>> \in Seq(Seq(Item)) /\ c.taken + 1 \in Nat /\ Len(<<>>) = 0
  BY <1>1
<1> HIDE DEF d, undo
<1>6. d \in ContextType
  BY <1>1, <1>3, <1>4, <1>5 DEF ContextType
<1>7. d.items = c.items /\ d.undo = undo /\ d.redo = <<>> /\ d.next = c.next
        /\ d.taken = c.taken + 1
  BY <1>1, <1>3 DEF ContextType
<1>8. \A v \in VersionsOf(d) : VersionOK(v, d.next)
  <2>1. ToSet(<<>>) = {}
    BY DEF ToSet
  <2>2. VersionsOf(d) \subseteq VersionsOf(c)
    BY <1>4, <1>7, <2>1 DEF VersionsOf
  <2> QED BY <1>1, <1>7, <2>2
<1>9. Len(d.undo) + Len(d.redo) <= UndoDepth
  <2> DEFINE n == Len(undo)
  <2>1. n \in Nat /\ n <= UndoDepth
    BY <1>4
  <2>2. Len(d.undo) = n /\ Len(d.redo) = 0
    BY <1>5, <1>7
  <2> HIDE DEF n
  <2> QED BY <1>1, <2>1, <2>2
<1>10. WellFormed(d)
  BY <1>4, <1>6, <1>7, <1>8, <1>9 DEF WellFormed
<1>11. Ids(d.items) = Ids(c.items) \cup (c.next .. (d.next - 1)) /\ c.next <= d.next
  BY <1>5, <1>7
<1> QED BY <1>4, <1>7, <1>10, <1>11 DEF Edited, d

\* And then a change in place.
LEMMA EditedInPlace ==
  ASSUME NEW c, NEW d, Edited(c, d), NEW items \in Seq(Item), SameIds(items, d.items)
  PROVE  Edited(c, [d EXCEPT !.items = items])
           /\ [d EXCEPT !.items = items].items = items
           /\ [d EXCEPT !.items = items].next = d.next
<1> DEFINE e == [d EXCEPT !.items = items]
<1>1. WellFormed(e) /\ d \in ContextType
  BY ChangedInPlace DEF Edited, WellFormed
<1>2. e.items = items /\ e.undo = d.undo /\ e.redo = d.redo /\ e.next = d.next
        /\ e.taken = d.taken
  BY <1>1 DEF ContextType
<1>3. Ids(items) = Ids(d.items)
  BY SameIdsSame
<1> HIDE DEF e
<1>4. Edited(c, e)
  BY <1>1, <1>2, <1>3 DEF Edited
<1> QED BY <1>2, <1>4 DEF e

\* And then new items.
LEMMA EditedGrown ==
  ASSUME NEW c, WellFormed(c), NEW d, Edited(c, d), NEW new \in Seq(Item), NEW counter \in Counters
  PROVE  Edited(c, AddAll(d, new, counter)) /\ AddAll(d, new, counter).next = d.next + Len(new)
<1> DEFINE e == AddAll(d, new, counter)
<1>1. /\ WellFormed(e) /\ e.undo = d.undo /\ e.redo = <<>> /\ e.taken = d.taken
      /\ e.next = d.next + Len(new) /\ d.next <= e.next
      /\ Ids(e.items) = Ids(d.items) \cup (d.next .. (e.next - 1))
  BY Grown DEF Edited
<1>2. c.next \in Nat \ {0} /\ d.next \in Nat \ {0} /\ e.next \in Nat \ {0}
  BY <1>1, Parts DEF Edited
<1> HIDE DEF e
<1>3. c.next <= d.next /\ Ids(d.items) = Ids(c.items) \cup (c.next .. (d.next - 1))
  BY DEF Edited
<1>4. (c.next .. (d.next - 1)) \cup (d.next .. (e.next - 1)) = c.next .. (e.next - 1)
  BY <1>1, <1>2, <1>3
<1>5. c.next <= e.next /\ Ids(e.items) = Ids(c.items) \cup (c.next .. (e.next - 1))
  BY <1>1, <1>2, <1>3, <1>4
<1>6. Edited(c, e)
  BY <1>1, <1>5 DEF Edited
<1> QED BY <1>1, <1>6 DEF e

\* One item added is a list of one item added, below the largest identifier.
LEMMA AddIsAddAll ==
  ASSUME NEW c, c \in ContextType, NEW item \in Item, NEW counter \in Counters,
         c.next + 1 <= TopId
  PROVE  /\ <<item>> \in Seq(Item) /\ Len(<<item>>) = 1
         /\ Add(c, item, counter) = AddAll(c, <<item>>, counter)
<1> DEFINE x == [item EXCEPT !.id = c.next, !.priced = counter]
           fresh == [k \in DOMAIN <<item>> |->
                       [<<item>>[k] EXCEPT !.id = c.next + k - 1, !.priced = counter]]
<1>1. c.items \in Seq(Item) /\ c.next \in Nat /\ TopId \in Nat
  BY TopAssumption DEF ContextType
<1>2. <<item>> \in Seq(Item) /\ Len(<<item>>) = 1 /\ DOMAIN <<item>> = {1} /\ <<item>>[1] = item
  OBVIOUS
<1>3. c.next + 1 - 1 = c.next /\ SatInc(c.next) = c.next + 1
  BY <1>1 DEF SatInc
<1>4. fresh = [k \in {1} |-> x]
  BY <1>2, <1>3
<1>5. <<x>> = [k \in {1} |-> x]
  OBVIOUS
<1>6. x \in Item
  BY <1>1 DEF Item
<1> HIDE DEF x
<1>7. Append(c.items, x) = c.items \o <<x>>
  BY <1>1, <1>6
<1>8. Add(c, item, counter) = [c EXCEPT !.items = Append(c.items, x), !.next = c.next + 1]
  BY <1>3 DEF Add, ContextType, x
<1>9. AddAll(c, <<item>>, counter) = [c EXCEPT !.items = c.items \o fresh, !.next = c.next + 1]
  BY <1>2 DEF AddAll, ContextType
<1> HIDE DEF fresh
<1> QED BY <1>2, <1>4, <1>5, <1>7, <1>8, <1>9
---------------------------------------------------------------------------
(* The projection. *)


\* What holds at 0 and is handed on from each number to the next holds up to n.
LEMMA InductionTo ==
  ASSUME NEW n \in Nat, NEW S, 0 \in S, \A k \in 1..n : k - 1 \in S => k \in S
  PROVE  \A k \in 0..n : k \in S
<1> DEFINE reached == {m \in 0..n : \A k \in 0..m : k \in S}
           top == Max(reached)
<1>1. reached \in SUBSET Nat /\ 0 \in reached /\ \A m \in reached : m <= n
  OBVIOUS
<1>2. top \in reached /\ \A m \in reached : m <= top
  <2> HIDE DEF reached
  <2>. QED
    BY <1>1, MaxOfBounded
<1>3. top = n
  <2> SUFFICES ASSUME top # n PROVE FALSE
    OBVIOUS
  <2> HIDE DEF top
  <2>1. top \in 0..n /\ top + 1 \in 1..n /\ (top + 1) - 1 = top
    BY <1>2
  <2>2. top \in S
    BY <1>2
  <2>3. top + 1 \in S
    BY <2>1, <2>2
  <2>4. top + 1 \in reached
    BY <1>2, <2>1, <2>3
  <2>. QED
    BY <1>2, <2>1, <2>4
<1>. QED
  <2> HIDE DEF top
  <2>. QED
    BY <1>2, <1>3

\* What a fold over the places of a list makes of every set of them.
Folded(f, start, step, n) ==
  /\ f[{}] = start
  /\ \A s \in SUBSET (1..n) : s # {} => f[s] = step[Max(s)][f[s \ {Max(s)}]]

\* A fold over the places of a list is well defined on every set of them.
LEMMA FoldDefined ==
  ASSUME NEW T, NEW start \in T, NEW n \in Nat, NEW step \in [1..n -> [T -> T]]
  PROVE  \E f \in [SUBSET (1..n) -> T] : Folded(f, start, step, n)
<1> DEFINE Folds(f, m) == Folded(f, start, step, m)
           Over(m) == [SUBSET (1..m) -> T]
           S == {m \in 0..n : \E f \in Over(m) : Folds(f, m)}
<1>1. 0 \in S
  <2> DEFINE f == [s \in SUBSET (1..0) |-> start]
  <2>1. f \in [SUBSET (1..0) -> T] /\ SUBSET (1..0) = {{}}
    OBVIOUS
  <2>2. Folds(f, 0)
    BY <2>1 DEF Folded
  <2>3. f \in Over(0)
    BY <2>1
  <2> HIDE DEF f, Folds, Over
  <2>. QED
    BY <2>2, <2>3
<1>2. ASSUME NEW m \in 1..n, m - 1 \in S PROVE m \in S
  <2>1. PICK f \in [SUBSET (1..(m - 1)) -> T] : Folds(f, m - 1)
    BY <1>2
  <2> DEFINE g == [s \in SUBSET (1..m) |-> IF m \in s THEN step[m][f[s \ {m}]] ELSE f[s]]
  <2>2. \A s \in SUBSET (1..m) : s \ {m} \in SUBSET (1..(m - 1)) /\ (m \notin s => s \in SUBSET (1..(m - 1)))
    OBVIOUS
  <2>3. g \in [SUBSET (1..m) -> T]
    <3> SUFFICES ASSUME NEW s \in SUBSET (1..m) PROVE (IF m \in s THEN step[m][f[s \ {m}]] ELSE f[s]) \in T
      OBVIOUS
    <3>1. f[s \ {m}] \in T /\ (m \notin s => f[s] \in T)
      BY <2>2
    <3>. QED
      BY <3>1
  <2>4. ASSUME NEW s \in SUBSET (1..m), s # {} PROVE g[s] = step[Max(s)][g[s \ {Max(s)}]]
    <3>1. Max(s) \in s /\ \A x \in s : x <= Max(s)
      <4>1. s \in SUBSET Nat /\ m \in Nat /\ \A x \in s : x <= m
        OBVIOUS
      <4>. QED
        BY <2>4, <4>1, MaxOfBounded
    <3> DEFINE x == Max(s)
    <3> HIDE DEF x
    <3>2. x \in s /\ \A y \in s : y <= x
      BY <3>1 DEF x
    <3>3. s \ {x} \in SUBSET (1..m)
      OBVIOUS
    <3>4. CASE m \in s
      <4>1. x = m
        BY <3>2, <3>4
      <4>2. g[s \ {x}] = f[s \ {m}]
        BY <3>3, <4>1
      <4>3. g[s] = step[m][f[s \ {m}]]
        BY <3>4
      <4>. QED
        BY <4>1, <4>2, <4>3 DEF x
    <3>5. CASE m \notin s
      <4>1. s \in SUBSET (1..(m - 1)) /\ s \ {x} \in SUBSET (1..(m - 1))
        BY <2>2, <3>5
      <4>2. g[s] = f[s] /\ g[s \ {x}] = f[s \ {x}]
        BY <3>3, <3>5
      <4>3. f[s] = step[x][f[s \ {x}]]
        BY <2>1, <2>4, <4>1 DEF x, Folded
      <4>. QED
        BY <4>2, <4>3 DEF x
    <3>. QED
      BY <3>4, <3>5
  <2>5. g[{}] = start
    BY <2>1 DEF Folded
  <2>6. Folds(g, m)
    BY <2>4, <2>5 DEF Folded
  <2> HIDE DEF g, Folds
  <2>. QED
    BY <2>3, <2>6
<1>3. n \in S
  <2> HIDE DEF S
  <2>1. \A m \in 1..n : m - 1 \in S => m \in S
    BY <1>2
  <2>2. \A m \in 0..n : m \in S
    BY <1>1, <2>1, InductionTo
  <2>. QED
    BY <2>2
<1>. QED
  BY <1>3

\* The first k places, by the last of them.
LEMMA LastOfFirst ==
  ASSUME NEW k \in Nat \ {0}
  PROVE  Max(1..k) = k /\ (1..k) \ {k} = 1..(k - 1) /\ 1..k # {}
<1>1. k \in 1..k /\ \A x \in 1..k : x <= k
  OBVIOUS
<1>2. 1..k \in SUBSET Nat /\ 1..k # {}
  OBVIOUS
<1>3. Max(1..k) \in 1..k /\ \A x \in 1..k : x <= Max(1..k)
  BY <1>1, <1>2, MaxOfBounded
<1>4. Max(1..k) = k
  BY <1>1, <1>3
<1>5. (1..k) \ {k} = 1..(k - 1)
  OBVIOUS
<1>. QED
  BY <1>2, <1>4, <1>5

\* The last of some places of a list is one of its places.
LEMMA MaxOfPlaces ==
  ASSUME NEW n \in Nat, NEW s \in SUBSET (1..n), s # {}
  PROVE  Max(s) \in 1..n
<1>1. s \in SUBSET Nat /\ \A x \in s : x <= n
  OBVIOUS
<1>2. Max(s) \in s
  BY <1>1, MaxOfBounded
<1>. QED
  BY <1>2

\* A set of numbers has a least one.
LEMMA MinOfNaturals ==
  ASSUME NEW S \in SUBSET Nat, S # {}
  PROVE  Min(S) \in S /\ \A x \in S : Min(S) <= x
<1> PICK n \in S : TRUE
  OBVIOUS
<1> DEFINE below == {k \in 0..n : \A j \in 0..k : j \notin S}
<1>1. CASE 0 \in S
  <2>1. \A x \in S : 0 <= x
    OBVIOUS
  <2>. QED
    BY <1>1, <2>1 DEF Min
<1>2. CASE 0 \notin S
  <2>1. below \in SUBSET Nat /\ 0 \in below /\ \A k \in below : k <= n
    BY <1>2
  <2> DEFINE top == Max(below)
  <2>2. top \in below /\ \A k \in below : k <= top
    <3>. HIDE DEF below
    <3>. QED
      BY <2>1, MaxOfBounded
  <2>. HIDE DEF top
  <2>3. top \in Nat /\ (\A j \in 0..top : j \notin S) /\ top < n
    BY <2>2
  <2>4. top + 1 \in S
    <3> SUFFICES ASSUME top + 1 \notin S PROVE FALSE
      OBVIOUS
    <3>1. top + 1 \in below
      BY <2>3
    <3>. QED
      BY <2>2, <2>3, <3>1
  <2>5. \A x \in S : top + 1 <= x
    BY <2>3
  <2>. QED
    BY <2>4, <2>5 DEF Min
<1>. QED
  BY <1>1, <1>2

\* What a recursion over sets of places says of the first k of them.
Stepwise(iter, start, step, n, T) ==
  /\ iter[{}] = start
  /\ \A k \in 1..n : iter[1..(k - 1)] \in T => iter[1..k] = step[k][iter[1..(k - 1)]]

\* The results of a fold, place after place, of which the last is the recursion's.
Runs(F, iter, start, step, n) ==
  /\ F[0] = start
  /\ \A k \in 1..n : F[k] = step[k][F[k - 1]]
  /\ F[n] = iter[1..n]

\* What a fold makes of the first k places, from none of them on.
LEMMA FoldReached ==
  ASSUME NEW T, NEW start \in T, NEW n \in Nat, NEW step \in [1..n -> [T -> T]],
         NEW iter, Stepwise(iter, start, step, n, T)
  PROVE  \E F \in [0..n -> T] : Runs(F, iter, start, step, n)
<1> DEFINE F == [k \in 0..n |-> iter[1..k]]
           S == {k \in 0..n : F[k] \in T}
<1>. USE DEF Stepwise
<1>1. 1..0 = {} /\ 0 \in 0..n /\ n \in 0..n
  OBVIOUS
<1>2. F[0] = start /\ F[n] = iter[1..n]
  BY <1>1
<1>3. ASSUME NEW k \in 1..n PROVE k \in 0..n /\ k - 1 \in 0..n /\ F[k] = iter[1..k] /\ F[k - 1] = iter[1..(k - 1)]
  <2>1. k \in 0..n /\ k - 1 \in 0..n
    OBVIOUS
  <2>. QED
    BY <2>1
<1>. HIDE DEF F
<1>4. 0 \in S
  BY <1>1, <1>2
<1>5. ASSUME NEW k \in 1..n, k - 1 \in S PROVE k \in S /\ F[k] = step[k][F[k - 1]]
  <2>1. F[k - 1] \in T /\ k \in 0..n
    BY <1>3, <1>5
  <2>2. F[k] = step[k][F[k - 1]]
    BY <1>3, <2>1
  <2>3. step[k][F[k - 1]] \in T
    BY <2>1
  <2>. QED
    BY <2>1, <2>2, <2>3
<1>6. \A k \in 0..n : k \in S
  <2>. HIDE DEF S
  <2>. QED
    BY <1>4, <1>5, InductionTo
<1>7. F \in [0..n -> T]
  <2>1. \A k \in 0..n : F[k] \in T
    BY <1>6
  <2>2. F = [k \in 0..n |-> F[k]]
    BY DEF F
  <2>. QED
    BY <2>1, <2>2
<1>8. \A k \in 1..n : F[k] = step[k][F[k - 1]]
  BY <1>3, <1>5, <1>6
<1>. QED
  BY <1>2, <1>7, <1>8 DEF Runs

MessageType ==
  [id : Nat, says : {"words", "marker", "nothing"}, calls : Seq(Calls), answers : Calls \cup {NoCall}]
ClaimType == [kept : Seq(Calls), left : [Calls -> Nat]]
BuildType ==
  [answers : [Calls -> Nat], calls : [Calls -> Nat], built : Seq(MessageType), skipped : SUBSET Nat]
PlaceType(n) == [order : Seq(1..n), adjacent : Nat, moved : SUBSET Nat]

\* One call of a turn, in ClaimCalls.
ClaimOne(acc, c) ==
  IF ~RepairOrphans THEN [acc EXCEPT !.kept = Append(@, c)]
  ELSE IF acc.left[c] = 0 THEN acc
  ELSE [kept |-> Append(acc.kept, c), left |-> [acc.left EXCEPT ![c] = @ - 1]]

\* The places among the first m items at which a call is made.
AskingTo(items, call, m) == {p \in Asking(items, call) : p[1] <= m}

\* The places of one item at which it makes a call.
AskingAt(items, call, m) ==
  IF m \in Projected(items)
  THEN {m} \X {j \in DOMAIN CallsOf(items[m]) : CallsOf(items[m])[j] = call}
  ELSE {}

\* The calls an item makes are calls.
LEMMA CallsTyped ==
  ASSUME NEW item \in Item
  PROVE  CallsOf(item) \in Seq(Calls)
  BY DEF CallsOf, Item

\* One item more adds the places at which that item makes the call, and no other.
LEMMA AskingGrows ==
  ASSUME NEW items \in Seq(Item), NEW call, NEW m \in 1..Len(items)
  PROVE  /\ AskingTo(items, call, m) = AskingTo(items, call, m - 1) \cup AskingAt(items, call, m)
         /\ AskingTo(items, call, m - 1) \cap AskingAt(items, call, m) = {}
         /\ IsFiniteSet(AskingAt(items, call, m))
<1> DEFINE at(k) == {k} \X {j \in DOMAIN CallsOf(items[k]) : CallsOf(items[k])[j] = call}
<1>1. \A p : p \in Asking(items, call) <=> \E k \in Projected(items) : p \in at(k)
  BY DEF Asking
<1>2. \A k : \A p \in at(k) : p[1] = k
  OBVIOUS
<1>3. Projected(items) \subseteq Nat /\ m \in Nat
  BY DEF Projected
<1>4. AskingAt(items, call, m) = IF m \in Projected(items) THEN at(m) ELSE {}
  BY DEF AskingAt
<1>5. IsFiniteSet(at(m))
  <2>1. IsFiniteSet({m})
    BY FS_Singleton
  <2>2. CallsOf(items[m]) \in Seq(Calls)
    BY CallsTyped
  <2>3. IsFiniteSet(DOMAIN CallsOf(items[m]))
    BY <2>2, FS_Interval
  <2>4. IsFiniteSet({j \in DOMAIN CallsOf(items[m]) : CallsOf(items[m])[j] = call})
    BY <2>3, FS_Subset
  <2>. QED
    BY <2>1, <2>4, FS_Product
<1> HIDE DEF at
<1>6. \A p \in Asking(items, call) : p[1] \in Nat
  BY <1>1, <1>2, <1>3
<1>7. \A p : p \in AskingTo(items, call, m) <=> p \in AskingTo(items, call, m - 1) \/ p \in AskingAt(items, call, m)
  <2> SUFFICES ASSUME NEW p
               PROVE  p \in AskingTo(items, call, m) <=> p \in AskingTo(items, call, m - 1) \/ p \in AskingAt(items, call, m)
    OBVIOUS
  <2>1. CASE p \in Asking(items, call)
    <3>1. p[1] \in Nat
      BY <1>6, <2>1
    <3>2. p[1] = m => p \in AskingAt(items, call, m)
      BY <1>1, <1>2, <1>4, <2>1
    <3>3. p \in AskingAt(items, call, m) => p[1] = m
      BY <1>2, <1>4
    <3>. QED
      BY <1>3, <2>1, <3>1, <3>2, <3>3 DEF AskingTo
  <2>2. CASE p \notin Asking(items, call)
    <3>1. p \notin AskingAt(items, call, m)
      BY <1>1, <1>4, <2>2
    <3>. QED
      BY <2>2, <3>1 DEF AskingTo
  <2>. QED
    BY <2>1, <2>2
<1>8. \A p \in AskingAt(items, call, m) : p[1] = m
  BY <1>2, <1>4
<1>9. AskingTo(items, call, m - 1) \cap AskingAt(items, call, m) = {}
  BY <1>3, <1>8 DEF AskingTo
<1>10. IsFiniteSet(AskingAt(items, call, m))
  BY <1>4, <1>5, FS_EmptySet
<1>. QED
  BY <1>7, <1>9, <1>10

\* No item makes no calls; all of them make the calls Asking counts.
LEMMA AskingBetween ==
  ASSUME NEW items \in Seq(Item), NEW call
  PROVE  /\ AskingTo(items, call, 0) = {}
         /\ AskingTo(items, call, Len(items)) = Asking(items, call)
<1>1. \A p \in Asking(items, call) : p[1] \in 1..Len(items)
  BY DEF Asking, Projected
<1>. QED
  BY <1>1 DEF AskingTo

\* The places at which a call is made can be counted.
LEMMA AskingFinite ==
  ASSUME NEW items \in Seq(Item), NEW call
  PROVE  \A m \in 0..Len(items) : IsFiniteSet(AskingTo(items, call, m))
<1> DEFINE n == Len(items)
           S == {m \in 0..n : IsFiniteSet(AskingTo(items, call, m))}
<1>1. n \in Nat
  OBVIOUS
<1>2. 0 \in S
  BY AskingBetween, FS_EmptySet
<1>3. \A m \in 1..n : m - 1 \in S => m \in S
  <2> SUFFICES ASSUME NEW m \in 1..n, m - 1 \in S PROVE m \in S
    OBVIOUS
  <2>1. /\ AskingTo(items, call, m) = AskingTo(items, call, m - 1) \cup AskingAt(items, call, m)
        /\ IsFiniteSet(AskingAt(items, call, m))
    BY AskingGrows
  <2>2. IsFiniteSet(AskingTo(items, call, m - 1))
    OBVIOUS
  <2>3. IsFiniteSet(AskingTo(items, call, m - 1) \cup AskingAt(items, call, m))
    BY <2>1, <2>2, FS_Union
  <2>4. IsFiniteSet(AskingTo(items, call, m)) /\ m \in 0..n
    BY <2>1, <2>3
  <2>. QED
    BY <2>4
<1>4. \A m \in 0..n : m \in S
  <2>. HIDE DEF S, n
  <2>. QED
    BY <1>1, <1>2, <1>3, InductionTo
<1>. QED
  BY <1>4

\* So can the results that answer it.
LEMMA AnsweringFinite ==
  ASSUME NEW items \in Seq(Item), NEW call
  PROVE  /\ Answering(items, call) \subseteq 1..Len(items)
         /\ \A S \in SUBSET Answering(items, call) : IsFiniteSet(S) /\ Cardinality(S) \in Nat
<1>1. Answering(items, call) \subseteq 1..Len(items)
  BY DEF Answering, Projected
<1>2. IsFiniteSet(1..Len(items))
  BY FS_Interval
<1>3. \A S \in SUBSET Answering(items, call) : IsFiniteSet(S)
  BY <1>1, <1>2, FS_Subset
<1>. QED
  BY <1>1, <1>3, FS_CardinalityType

\* The counts the pairings keep are numbers.
LEMMA PairingsTyped ==
  ASSUME NEW items \in Seq(Item)
  PROVE  Pairings(items).answers \in [Calls -> Nat] /\ Pairings(items).calls \in [Calls -> Nat]
<1>1. \A c \in Calls : Cardinality(Answering(items, c)) \in Nat
  BY AnsweringFinite
<1>2. \A c \in Calls : Cardinality(Asking(items, c)) \in Nat
  <2> SUFFICES ASSUME NEW c \in Calls PROVE Cardinality(Asking(items, c)) \in Nat
    OBVIOUS
  <2>1. Len(items) \in 0..Len(items)
    OBVIOUS
  <2>2. IsFiniteSet(Asking(items, c))
    BY <2>1, AskingFinite, AskingBetween
  <2>. QED
    BY <2>2, FS_CardinalityType
<1>. QED
  BY <1>1, <1>2 DEF Pairings

\* ClaimCalls, call by call.
LEMMA ClaimUnrolled ==
  ASSUME NEW calls \in Seq(Calls), NEW left \in [Calls -> Nat]
  PROVE  \E F \in [0..Len(calls) -> ClaimType] :
           /\ F[0] = [kept |-> <<>>, left |-> left]
           /\ \A k \in 1..Len(calls) : F[k] = ClaimOne(F[k - 1], calls[k])
           /\ ClaimCalls(calls, left) = F[Len(calls)]
<1> DEFINE n == Len(calls)
           start == [kept |-> <<>>, left |-> left]
           step == [k \in 1..n |-> [acc \in ClaimType |-> ClaimOne(acc, calls[k])]]
<1>1. n \in Nat /\ start \in ClaimType
  BY DEF ClaimType
<1>2. ASSUME NEW k \in 1..n, NEW acc \in ClaimType PROVE ClaimOne(acc, calls[k]) \in ClaimType
  <2>1. acc.kept \in Seq(Calls) /\ acc.left \in [Calls -> Nat] /\ calls[k] \in Calls
    BY DEF ClaimType
  <2>2. Append(acc.kept, calls[k]) \in Seq(Calls)
    BY <2>1
  <2>3. [acc EXCEPT !.kept = Append(@, calls[k])] \in ClaimType
    BY <2>1, <2>2 DEF ClaimType
  <2>4. ASSUME acc.left[calls[k]] # 0 PROVE [acc.left EXCEPT ![calls[k]] = @ - 1] \in [Calls -> Nat]
    BY <2>1, <2>4
  <2>. QED
    BY <2>1, <2>2, <2>3, <2>4 DEF ClaimType, ClaimOne
<1>3. step \in [1..n -> [ClaimType -> ClaimType]]
  BY <1>2
<1>4. PICK f \in [SUBSET (1..n) -> ClaimType] : Folded(f, start, step, n)
  <2> HIDE DEF start, step, n
  <2>. QED
    BY <1>1, <1>3, FoldDefined
<1> DEFINE over(g) == g = [s \in SUBSET (1..n) |-> IF s = {} THEN start
                             ELSE ClaimOne(g[s \ {Max(s)}], calls[Max(s)])]
           iter == CHOOSE g : over(g)
<1>5. ClaimCalls(calls, left) = iter[1..n]
  <2>. DOMAIN calls = 1..n
    OBVIOUS
  <2>. QED
    BY DEF ClaimCalls, FoldLeft, MapThenFoldSet, ClaimOne
<1>6. over(f)
  <2> SUFFICES ASSUME NEW s \in SUBSET (1..n)
               PROVE  f[s] = IF s = {} THEN start ELSE ClaimOne(f[s \ {Max(s)}], calls[Max(s)])
    OBVIOUS
  <2>1. CASE s = {}
    BY <1>4, <2>1 DEF Folded
  <2>2. CASE s # {}
    <3>1. Max(s) \in 1..n
      BY <1>1, <2>2, MaxOfPlaces
    <3>2. f[s \ {Max(s)}] \in ClaimType
      OBVIOUS
    <3>3. f[s] = step[Max(s)][f[s \ {Max(s)}]]
      BY <1>4, <2>2 DEF Folded
    <3>. QED
      BY <2>2, <3>1, <3>2, <3>3
  <2>. QED
    BY <2>1, <2>2
<1>7. over(iter)
  BY <1>6
<1>8. iter[{}] = start
  BY <1>7
<1>9. ASSUME NEW k \in 1..n, iter[1..(k - 1)] \in ClaimType
      PROVE  iter[1..k] = step[k][iter[1..(k - 1)]]
  <2>1. Max(1..k) = k /\ (1..k) \ {k} = 1..(k - 1) /\ 1..k # {}
    <3>1. k \in Nat \ {0}
      BY <1>1
    <3>. QED
      BY <3>1, LastOfFirst
  <2>2. 1..k \in SUBSET (1..n)
    BY <1>1
  <2>3. iter[1..k] = ClaimOne(iter[(1..k) \ {Max(1..k)}], calls[Max(1..k)])
    BY <1>7, <2>1, <2>2
  <2>. HIDE DEF iter
  <2>. QED
    BY <1>9, <2>1, <2>3
<1>10. PICK F \in [0..n -> ClaimType] : Runs(F, iter, start, step, n)
  <2> HIDE DEF start, step, n, iter
  <2>1. Stepwise(iter, start, step, n, ClaimType)
    BY <1>8, <1>9 DEF Stepwise
  <2>. QED
    BY <1>1, <1>3, <2>1, FoldReached
<1>11. ASSUME NEW k \in 1..n PROVE F[k] = ClaimOne(F[k - 1], calls[k])
  <2>1. k - 1 \in 0..n
    BY <1>1
  <2>2. F[k - 1] \in ClaimType
    BY <2>1
  <2>. QED
    BY <1>10, <2>2 DEF Runs
<1>. HIDE DEF iter, step
<1>. QED
  BY <1>5, <1>10, <1>11 DEF Runs

\* Claiming calls leaves a claim: what was claimed, and how many answers are left.
LEMMA ClaimTyped ==
  ASSUME NEW calls \in Seq(Calls), NEW left \in [Calls -> Nat]
  PROVE  ClaimCalls(calls, left) \in ClaimType
<1>1. PICK F \in [0..Len(calls) -> ClaimType] :
        /\ F[0] = [kept |-> <<>>, left |-> left]
        /\ \A k \in 1..Len(calls) : F[k] = ClaimOne(F[k - 1], calls[k])
        /\ ClaimCalls(calls, left) = F[Len(calls)]
  BY ClaimUnrolled
<1>2. Len(calls) \in 0..Len(calls)
  OBVIOUS
<1>. QED
  BY <1>1, <1>2

\* What an item is in a request.
LEMMA MessageTyped ==
  ASSUME NEW item \in Item, NEW calls \in Seq(Calls)
  PROVE  Message(item, calls) \in MessageType
  BY DEF Item, Message, MessageType, Says

\* One item more leaves a request under way.
LEMMA BuildItemTyped ==
  ASSUME NEW acc \in BuildType, NEW item \in Item
  PROVE  BuildItem(acc, item) \in BuildType
<1> DEFINE turn == ClaimCalls(item.calls, acc.answers)
<1>1. /\ acc.answers \in [Calls -> Nat] /\ acc.calls \in [Calls -> Nat]
      /\ acc.built \in Seq(MessageType) /\ acc.skipped \in SUBSET Nat
  BY DEF BuildType
<1>2. /\ item.id \in Nat /\ item.calls \in Seq(Calls) /\ item.kind \in Kinds
      /\ item.kind = "result" => item.answers \in Calls
  BY DEF Item
<1>3. turn.kept \in Seq(Calls) /\ turn.left \in [Calls -> Nat]
  BY <1>1, <1>2, ClaimTyped DEF ClaimType
<1>. HIDE DEF turn
<1>4. /\ Append(acc.built, Message(item, <<>>)) \in Seq(MessageType)
      /\ Append(acc.built, Message(item, turn.kept)) \in Seq(MessageType)
  <2>1. Message(item, <<>>) \in MessageType /\ Message(item, turn.kept) \in MessageType
    <3>1. <<>> \in Seq(Calls)
      OBVIOUS
    <3>. QED
      BY <1>3, <3>1, MessageTyped
  <2>. QED
    BY <1>1, <2>1
<1>5. acc.skipped \cup {item.id} \in SUBSET Nat
  BY <1>1, <1>2
<1>6. [acc EXCEPT !.skipped = @ \cup {item.id}] \in BuildType
  BY <1>1, <1>5 DEF BuildType
<1>7. CASE ~IsProjected(item.state)
  BY <1>6, <1>7 DEF BuildItem
<1>8. CASE IsProjected(item.state) /\ item.kind = "plain"
  <2>1. [acc EXCEPT !.built = Append(@, Message(item, <<>>))] \in BuildType
    BY <1>1, <1>4 DEF BuildType
  <2>. QED
    BY <1>8, <2>1 DEF BuildItem
<1>9. CASE IsProjected(item.state) /\ item.kind = "assistant"
  <2>1. [[acc EXCEPT !.skipped = @ \cup {item.id}] EXCEPT !.answers = turn.left] \in BuildType
    BY <1>1, <1>3, <1>5 DEF BuildType
  <2>2. [acc EXCEPT !.built = Append(@, Message(item, turn.kept)), !.answers = turn.left] \in BuildType
    BY <1>1, <1>3, <1>4 DEF BuildType
  <2>. QED
    BY <1>9, <2>1, <2>2 DEF BuildItem, turn
<1>10. CASE IsProjected(item.state) /\ item.kind = "result"
  <2>1. item.answers \in Calls
    BY <1>2, <1>10
  <2>2. ~(RepairOrphans /\ acc.calls[item.answers] = 0)
         => [acc.calls EXCEPT ![item.answers] = IF RepairOrphans THEN @ - 1 ELSE @] \in [Calls -> Nat]
    BY <1>1, <2>1
  <2>3. ~(RepairOrphans /\ acc.calls[item.answers] = 0)
         => [acc EXCEPT !.built = Append(@, Message(item, <<>>)),
                        !.calls[item.answers] = IF RepairOrphans THEN @ - 1 ELSE @] \in BuildType
    BY <1>1, <1>4, <2>2 DEF BuildType
  <2>. QED
    BY <1>6, <1>10, <2>3 DEF BuildItem
<1>. QED
  BY <1>2, <1>7, <1>8, <1>9, <1>10 DEF Kinds

\* Build, item by item.
LEMMA BuildUnrolled ==
  ASSUME NEW items \in Seq(Item)
  PROVE  \E F \in [0..Len(items) -> BuildType] :
           /\ F[0] = [answers |-> Pairings(items).answers, calls |-> Pairings(items).calls,
                    built |-> <<>>, skipped |-> {}]
           /\ \A k \in 1..Len(items) : F[k] = BuildItem(F[k - 1], items[k])
           /\ Build(items) = F[Len(items)]
<1> DEFINE n == Len(items)
           start == [answers |-> Pairings(items).answers, calls |-> Pairings(items).calls,
                    built |-> <<>>, skipped |-> {}]
           step == [k \in 1..n |-> [acc \in BuildType |-> BuildItem(acc, items[k])]]
<1>1. n \in Nat /\ start \in BuildType
  <2>1. Pairings(items).answers \in [Calls -> Nat] /\ Pairings(items).calls \in [Calls -> Nat]
    BY PairingsTyped
  <2>. QED
    BY <2>1 DEF BuildType
<1>2. ASSUME NEW k \in 1..n, NEW acc \in BuildType PROVE BuildItem(acc, items[k]) \in BuildType
  <2>1. items[k] \in Item
    OBVIOUS
  <2>. QED
    BY <2>1, BuildItemTyped
<1>3. step \in [1..n -> [BuildType -> BuildType]]
  BY <1>2
<1>4. PICK f \in [SUBSET (1..n) -> BuildType] : Folded(f, start, step, n)
  <2> HIDE DEF start, step, n
  <2>. QED
    BY <1>1, <1>3, FoldDefined
<1> DEFINE over(g) == g = [s \in SUBSET (1..n) |-> IF s = {} THEN start
                             ELSE BuildItem(g[s \ {Max(s)}], items[Max(s)])]
           iter == CHOOSE g : over(g)
<1>5. Build(items) = iter[1..n]
  <2>. DOMAIN items = 1..n
    OBVIOUS
  <2>. QED
    BY DEF Build, FoldLeft, MapThenFoldSet
<1>6. over(f)
  <2> SUFFICES ASSUME NEW s \in SUBSET (1..n)
               PROVE  f[s] = IF s = {} THEN start ELSE BuildItem(f[s \ {Max(s)}], items[Max(s)])
    OBVIOUS
  <2>1. CASE s = {}
    BY <1>4, <2>1 DEF Folded
  <2>2. CASE s # {}
    <3>1. Max(s) \in 1..n
      BY <1>1, <2>2, MaxOfPlaces
    <3>2. f[s \ {Max(s)}] \in BuildType
      OBVIOUS
    <3>3. f[s] = step[Max(s)][f[s \ {Max(s)}]]
      BY <1>4, <2>2 DEF Folded
    <3>. QED
      BY <2>2, <3>1, <3>2, <3>3
  <2>. QED
    BY <2>1, <2>2
<1>7. over(iter)
  BY <1>6
<1>8. iter[{}] = start
  BY <1>7
<1>9. ASSUME NEW k \in 1..n, iter[1..(k - 1)] \in BuildType
      PROVE  iter[1..k] = step[k][iter[1..(k - 1)]]
  <2>1. Max(1..k) = k /\ (1..k) \ {k} = 1..(k - 1) /\ 1..k # {}
    <3>1. k \in Nat \ {0}
      BY <1>1
    <3>. QED
      BY <3>1, LastOfFirst
  <2>2. 1..k \in SUBSET (1..n)
    BY <1>1
  <2>3. iter[1..k] = BuildItem(iter[(1..k) \ {Max(1..k)}], items[Max(1..k)])
    BY <1>7, <2>1, <2>2
  <2>. HIDE DEF iter
  <2>. QED
    BY <1>9, <2>1, <2>3
<1>10. PICK F \in [0..n -> BuildType] : Runs(F, iter, start, step, n)
  <2> HIDE DEF start, step, n, iter
  <2>1. Stepwise(iter, start, step, n, BuildType)
    BY <1>8, <1>9 DEF Stepwise
  <2>. QED
    BY <1>1, <1>3, <2>1, FoldReached
<1>11. ASSUME NEW k \in 1..n PROVE F[k] = BuildItem(F[k - 1], items[k])
  <2>1. k - 1 \in 0..n
    BY <1>1
  <2>2. F[k - 1] \in BuildType
    BY <2>1
  <2>. QED
    BY <1>10, <2>2 DEF Runs
<1>. HIDE DEF iter, step
<1>. QED
  BY <1>5, <1>10, <1>11 DEF Runs

\* The next answer to a call is an open result for it, or none when none is open.
LEMMA AnswerFound ==
  ASSUME NEW built \in Seq(MessageType), NEW placed, NEW call
  PROVE  LET open == {k \in DOMAIN built : built[k].answers = call /\ k \notin placed}
             answer == NextAnswer(built, placed, call)
         IN  IF open = {} THEN answer = 0
             ELSE answer \in open /\ answer \in 1..Len(built) /\ answer # 0
<1> DEFINE open == {k \in DOMAIN built : built[k].answers = call /\ k \notin placed}
<1>1. open \in SUBSET Nat /\ open \in SUBSET (1..Len(built))
  OBVIOUS
<1>2. open # {} => Min(open) \in open
  <2>. HIDE DEF open
  <2>. QED
    BY <1>1, MinOfNaturals
<1>3. NextAnswer(built, placed, call) = IF open = {} THEN 0 ELSE Min(open)
  BY DEF NextAnswer
<1>. HIDE DEF open
<1>4. CASE open = {}
  BY <1>3, <1>4 DEF open
<1>5. CASE open # {}
  <2>1. NextAnswer(built, placed, call) \in open
    BY <1>2, <1>3, <1>5
  <2>2. NextAnswer(built, placed, call) \in 1..Len(built)
    BY <1>1, <2>1
  <2>3. NextAnswer(built, placed, call) # 0
    BY <2>2
  <2>. QED
    BY <1>5, <2>1, <2>2, <2>3 DEF open
<1>. QED
  BY <1>4, <1>5

\* Placing an answer leaves an arrangement of the messages.
LEMMA PlaceAnswerTyped ==
  ASSUME NEW built \in Seq(MessageType), NEW acc \in PlaceType(Len(built)), NEW call
  PROVE  PlaceAnswer(built, acc, call) \in PlaceType(Len(built))
<1> DEFINE answer == NextAnswer(built, ToSet(acc.order), call)
<1>1. acc.order \in Seq(1..Len(built)) /\ acc.adjacent \in Nat /\ acc.moved \in SUBSET Nat
  BY DEF PlaceType
<1>2. answer = 0 \/ answer \in 1..Len(built)
  BY AnswerFound
<1>. HIDE DEF answer
<1>3. CASE answer = 0
  BY <1>3 DEF PlaceAnswer, answer
<1>4. CASE answer # 0
  <2>1. answer \in DOMAIN built /\ built[answer] \in MessageType
    BY <1>2, <1>4
  <2>2. built[answer].id \in Nat
    BY <2>1 DEF MessageType
  <2>3. Append(acc.order, answer) \in Seq(1..Len(built))
    BY <1>1, <1>2, <1>4
  <2>4. (acc.moved \cup (IF answer = acc.adjacent THEN {} ELSE {built[answer].id})) \in SUBSET Nat
    BY <1>1, <2>2
  <2>5. PlaceAnswer(built, acc, call)
          = [order |-> Append(acc.order, answer), adjacent |-> acc.adjacent + 1,
             moved |-> acc.moved \cup (IF answer = acc.adjacent THEN {} ELSE {built[answer].id})]
    BY <1>4 DEF PlaceAnswer, answer
  <2>. QED
    BY <1>1, <2>3, <2>4, <2>5 DEF PlaceType
<1>. QED
  BY <1>3, <1>4

\* What a turn that is placed takes with it, call by call.
LEMMA AnswersUnrolled ==
  ASSUME NEW built \in Seq(MessageType), NEW at \in DOMAIN built,
         NEW start \in PlaceType(Len(built))
  PROVE  \E F \in [0..Len(built[at].calls) -> PlaceType(Len(built))] :
           /\ F[0] = start
           /\ \A k \in 1..Len(built[at].calls) : F[k] = PlaceAnswer(built, F[k - 1], built[at].calls[k])
           /\ FoldLeft(LAMBDA a, call : PlaceAnswer(built, a, call), start, built[at].calls) = F[Len(built[at].calls)]
<1> DEFINE n == Len(built[at].calls)
           step == [k \in 1..n |-> [acc \in PlaceType(Len(built)) |-> PlaceAnswer(built, acc, built[at].calls[k])]]
<1>1. n \in Nat /\ start \in PlaceType(Len(built))
  <2>1. built[at] \in MessageType
    OBVIOUS
  <2>2. built[at].calls \in Seq(Calls)
    BY <2>1 DEF MessageType
  <2>. QED
    BY <2>1
<1>2. ASSUME NEW k \in 1..n, NEW acc \in PlaceType(Len(built)) PROVE PlaceAnswer(built, acc, built[at].calls[k]) \in PlaceType(Len(built))
  BY PlaceAnswerTyped
<1>3. step \in [1..n -> [PlaceType(Len(built)) -> PlaceType(Len(built))]]
  BY <1>2
<1>4. PICK f \in [SUBSET (1..n) -> PlaceType(Len(built))] : Folded(f, start, step, n)
  <2> HIDE DEF step, n
  <2>. QED
    BY <1>1, <1>3, FoldDefined
<1> DEFINE over(g) == g = [s \in SUBSET (1..n) |-> IF s = {} THEN start
                             ELSE PlaceAnswer(built, g[s \ {Max(s)}], built[at].calls[Max(s)])]
           iter == CHOOSE g : over(g)
<1>5. FoldLeft(LAMBDA a, call : PlaceAnswer(built, a, call), start, built[at].calls) = iter[1..n]
  <2>1. built[at] \in MessageType
    OBVIOUS
  <2>2. built[at].calls \in Seq(Calls)
    BY <2>1 DEF MessageType
  <2>3. DOMAIN built[at].calls = 1..n
    BY <2>2
  <2>. QED
    BY <2>3 DEF FoldLeft, MapThenFoldSet
<1>6. over(f)
  <2> SUFFICES ASSUME NEW s \in SUBSET (1..n)
               PROVE  f[s] = IF s = {} THEN start ELSE PlaceAnswer(built, f[s \ {Max(s)}], built[at].calls[Max(s)])
    OBVIOUS
  <2>1. CASE s = {}
    BY <1>4, <2>1 DEF Folded
  <2>2. CASE s # {}
    <3>1. Max(s) \in 1..n
      BY <1>1, <2>2, MaxOfPlaces
    <3>2. f[s \ {Max(s)}] \in PlaceType(Len(built))
      OBVIOUS
    <3>3. f[s] = step[Max(s)][f[s \ {Max(s)}]]
      BY <1>4, <2>2 DEF Folded
    <3>. QED
      BY <2>2, <3>1, <3>2, <3>3
  <2>. QED
    BY <2>1, <2>2
<1>7. over(iter)
  BY <1>6
<1>8. iter[{}] = start
  BY <1>7
<1>9. ASSUME NEW k \in 1..n, iter[1..(k - 1)] \in PlaceType(Len(built))
      PROVE  iter[1..k] = step[k][iter[1..(k - 1)]]
  <2>1. Max(1..k) = k /\ (1..k) \ {k} = 1..(k - 1) /\ 1..k # {}
    <3>1. k \in Nat \ {0}
      BY <1>1
    <3>. QED
      BY <3>1, LastOfFirst
  <2>2. 1..k \in SUBSET (1..n)
    BY <1>1
  <2>3. iter[1..k] = PlaceAnswer(built, iter[(1..k) \ {Max(1..k)}], built[at].calls[Max(1..k)])
    BY <1>7, <2>1, <2>2
  <2>. HIDE DEF iter
  <2>. QED
    BY <1>9, <2>1, <2>3
<1>10. PICK F \in [0..n -> PlaceType(Len(built))] : Runs(F, iter, start, step, n)
  <2> HIDE DEF step, n, iter
  <2>1. Stepwise(iter, start, step, n, PlaceType(Len(built)))
    BY <1>8, <1>9 DEF Stepwise
  <2>. QED
    BY <1>1, <1>3, <2>1, FoldReached
<1>11. ASSUME NEW k \in 1..n PROVE F[k] = PlaceAnswer(built, F[k - 1], built[at].calls[k])
  <2>1. k - 1 \in 0..n
    BY <1>1
  <2>2. F[k - 1] \in PlaceType(Len(built))
    BY <2>1
  <2>. QED
    BY <1>10, <2>2 DEF Runs
<1>. HIDE DEF iter, step
<1>. QED
  BY <1>5, <1>10, <1>11 DEF Runs

\* So does placing a message with the answers it calls for.
LEMMA PlaceMessageTyped ==
  ASSUME NEW built \in Seq(MessageType), NEW acc \in PlaceType(Len(built)), NEW at \in DOMAIN built
  PROVE  PlaceMessage(built, acc, at) \in PlaceType(Len(built))
<1> DEFINE start == [order |-> Append(acc.order, at), adjacent |-> at + 1, moved |-> acc.moved]
<1>1. start \in PlaceType(Len(built))
  <2>1. acc.order \in Seq(1..Len(built)) /\ acc.moved \in SUBSET Nat /\ at \in 1..Len(built)
    BY DEF PlaceType
  <2>2. Append(acc.order, at) \in Seq(1..Len(built)) /\ at + 1 \in Nat
    BY <2>1
  <2>. QED
    BY <2>1, <2>2 DEF PlaceType
<1>2. FoldLeft(LAMBDA a, call : PlaceAnswer(built, a, call), start, built[at].calls) \in PlaceType(Len(built))
  <2>. HIDE DEF start
  <2>1. PICK G \in [0..Len(built[at].calls) -> PlaceType(Len(built))] :
          FoldLeft(LAMBDA a, call : PlaceAnswer(built, a, call), start, built[at].calls)
            = G[Len(built[at].calls)]
    BY <1>1, AnswersUnrolled, ZenonT(60)
  <2>2. Len(built[at].calls) \in 0..Len(built[at].calls)
    <3>1. built[at] \in MessageType
      OBVIOUS
    <3>2. built[at].calls \in Seq(Calls)
      BY <3>1 DEF MessageType
    <3>. QED
      BY <3>2
  <2>. QED
    BY <2>1, <2>2
<1>. QED
  BY <1>2 DEF PlaceMessage

\* in_wire_order, message by message.
LEMMA WireUnrolled ==
  ASSUME NEW built \in Seq(MessageType)
  PROVE  \E F \in [0..Len(built) -> PlaceType(Len(built))] :
           /\ F[0] = [order |-> <<>>, adjacent |-> 0, moved |-> {}]
           /\ \A k \in 1..Len(built) : F[k] = PlaceMessage(built, F[k - 1], k)
           /\ FoldLeft(LAMBDA acc, at : PlaceMessage(built, acc, at),
                       [order |-> <<>>, adjacent |-> 0, moved |-> {}], [k \in DOMAIN built |-> k]) = F[Len(built)]
<1> DEFINE n == Len(built)
           places == [k \in DOMAIN built |-> k]
           start == [order |-> <<>>, adjacent |-> 0, moved |-> {}]
           step == [k \in 1..n |-> [acc \in PlaceType(Len(built)) |-> PlaceMessage(built, acc, places[k])]]
<1>1. n \in Nat /\ start \in PlaceType(Len(built))
  BY DEF PlaceType
<1>2. ASSUME NEW k \in 1..n, NEW acc \in PlaceType(Len(built)) PROVE PlaceMessage(built, acc, places[k]) \in PlaceType(Len(built))
  <2>1. places[k] \in DOMAIN built
    OBVIOUS
  <2>. QED
    BY <2>1, PlaceMessageTyped
<1>3. step \in [1..n -> [PlaceType(Len(built)) -> PlaceType(Len(built))]]
  BY <1>2
<1>4. PICK f \in [SUBSET (1..n) -> PlaceType(Len(built))] : Folded(f, start, step, n)
  <2> HIDE DEF start, step, n, places
  <2>. QED
    BY <1>1, <1>3, FoldDefined
<1> DEFINE over(g) == g = [s \in SUBSET (1..n) |-> IF s = {} THEN start
                             ELSE PlaceMessage(built, g[s \ {Max(s)}], places[Max(s)])]
           iter == CHOOSE g : over(g)
<1>5. FoldLeft(LAMBDA acc, at : PlaceMessage(built, acc, at),
                       [order |-> <<>>, adjacent |-> 0, moved |-> {}], [k \in DOMAIN built |-> k]) = iter[1..n]
  <2>. DOMAIN built = 1..n
    OBVIOUS
  <2>. QED
    BY DEF FoldLeft, MapThenFoldSet
<1>6. over(f)
  <2> SUFFICES ASSUME NEW s \in SUBSET (1..n)
               PROVE  f[s] = IF s = {} THEN start ELSE PlaceMessage(built, f[s \ {Max(s)}], places[Max(s)])
    OBVIOUS
  <2>1. CASE s = {}
    BY <1>4, <2>1 DEF Folded
  <2>2. CASE s # {}
    <3>1. Max(s) \in 1..n
      BY <1>1, <2>2, MaxOfPlaces
    <3>2. f[s \ {Max(s)}] \in PlaceType(Len(built))
      OBVIOUS
    <3>3. f[s] = step[Max(s)][f[s \ {Max(s)}]]
      BY <1>4, <2>2 DEF Folded
    <3>. QED
      BY <2>2, <3>1, <3>2, <3>3
  <2>. QED
    BY <2>1, <2>2
<1>7. over(iter)
  BY <1>6
<1>8. iter[{}] = start
  BY <1>7
<1>9. ASSUME NEW k \in 1..n, iter[1..(k - 1)] \in PlaceType(Len(built))
      PROVE  iter[1..k] = step[k][iter[1..(k - 1)]]
  <2>1. Max(1..k) = k /\ (1..k) \ {k} = 1..(k - 1) /\ 1..k # {}
    <3>1. k \in Nat \ {0}
      BY <1>1
    <3>. QED
      BY <3>1, LastOfFirst
  <2>2. 1..k \in SUBSET (1..n)
    BY <1>1
  <2>3. iter[1..k] = PlaceMessage(built, iter[(1..k) \ {Max(1..k)}], places[Max(1..k)])
    BY <1>7, <2>1, <2>2
  <2>. HIDE DEF iter
  <2>. QED
    BY <1>9, <2>1, <2>3
<1>10. PICK F \in [0..n -> PlaceType(Len(built))] : Runs(F, iter, start, step, n)
  <2> HIDE DEF start, step, n, places, iter
  <2>1. Stepwise(iter, start, step, n, PlaceType(Len(built)))
    BY <1>8, <1>9 DEF Stepwise
  <2>. QED
    BY <1>1, <1>3, <2>1, FoldReached
<1>11. ASSUME NEW k \in 1..n PROVE F[k] = PlaceMessage(built, F[k - 1], k)
  <2>1. k - 1 \in 0..n
    BY <1>1
  <2>2. F[k - 1] \in PlaceType(Len(built))
    BY <2>1
  <2>3. places[k] = k
    OBVIOUS
  <2>. QED
    BY <1>10, <2>2, <2>3 DEF Runs
<1>. HIDE DEF iter, step, places
<1>. QED
  BY <1>5, <1>10, <1>11 DEF Runs

\* What is written of an item that is sent, and whether it is.
WrittenFor(acc, item) ==
  Message(item, IF item.kind = "assistant" THEN ClaimCalls(item.calls, acc.answers).kept ELSE <<>>)

IsSent(acc, item) ==
  /\ IsProjected(item.state)
  /\ item.kind = "assistant" =>
       Says(item) # "nothing" \/ ClaimCalls(item.calls, acc.answers).kept # <<>>
  /\ item.kind = "result" => ~(RepairOrphans /\ acc.calls[item.answers] = 0)

\* What is written for an item is a message.
LEMMA WrittenTyped ==
  ASSUME NEW acc \in BuildType, NEW item \in Item
  PROVE  WrittenFor(acc, item) \in MessageType
<1>1. item.calls \in Seq(Calls) /\ acc.answers \in [Calls -> Nat]
  BY DEF Item, BuildType
<1>2. ClaimCalls(item.calls, acc.answers).kept \in Seq(Calls)
  BY <1>1, ClaimTyped DEF ClaimType
<1>. DEFINE calls == IF item.kind = "assistant" THEN ClaimCalls(item.calls, acc.answers).kept ELSE <<>>
<1>3. calls \in Seq(Calls)
  BY <1>2
<1>4. WrittenFor(acc, item) = Message(item, calls)
  BY DEF WrittenFor
<1>. HIDE DEF calls
<1>. QED
  BY <1>3, <1>4, MessageTyped

\* One item of build: it is written behind the others, or skipped.
LEMMA BuildStep ==
  ASSUME NEW acc \in BuildType, NEW item \in Item
  PROVE  LET after == BuildItem(acc, item)
         IN  /\ IsSent(acc, item) => /\ after.built = Append(acc.built, WrittenFor(acc, item))
                                     /\ after.skipped = acc.skipped
             /\ ~IsSent(acc, item) => /\ after.built = acc.built
                                      /\ after.skipped = acc.skipped \cup {item.id}
<1>1. item.kind \in Kinds
  BY DEF Item
<1>2. /\ acc = [answers |-> acc.answers, calls |-> acc.calls, built |-> acc.built, skipped |-> acc.skipped]
  BY DEF BuildType
<1>. DEFINE turn == ClaimCalls(item.calls, acc.answers)
<1>. HIDE DEF turn
<1>3. CASE ~IsProjected(item.state)
  BY <1>2, <1>3 DEF BuildItem, IsSent
<1>4. CASE IsProjected(item.state) /\ item.kind = "plain"
  BY <1>2, <1>4 DEF BuildItem, IsSent, WrittenFor
<1>5. CASE IsProjected(item.state) /\ item.kind = "assistant"
  BY <1>2, <1>5 DEF BuildItem, IsSent, WrittenFor, turn
<1>6. CASE IsProjected(item.state) /\ item.kind = "result"
  BY <1>2, <1>6 DEF BuildItem, IsSent, WrittenFor
<1>. QED
  BY <1>1, <1>3, <1>4, <1>5, <1>6 DEF Kinds

\* The counts an item leaves.
LEMMA BuildCounts ==
  ASSUME NEW acc \in BuildType, NEW item \in Item
  PROVE  LET after == BuildItem(acc, item)
         IN  /\ after.answers = IF IsProjected(item.state) /\ item.kind = "assistant"
                                THEN ClaimCalls(item.calls, acc.answers).left ELSE acc.answers
             /\ after.calls = IF /\ IsProjected(item.state) /\ item.kind = "result"
                                 /\ RepairOrphans /\ acc.calls[item.answers] # 0
                              THEN [acc.calls EXCEPT ![item.answers] = @ - 1] ELSE acc.calls
<1>1. item.kind \in Kinds
  BY DEF Item
<1>2. /\ acc = [answers |-> acc.answers, calls |-> acc.calls, built |-> acc.built, skipped |-> acc.skipped]
      /\ acc.calls \in [Calls -> Nat]
  BY DEF BuildType
<1>. DEFINE turn == ClaimCalls(item.calls, acc.answers)
<1>. HIDE DEF turn
<1>3. CASE ~IsProjected(item.state)
  BY <1>2, <1>3 DEF BuildItem
<1>4. CASE IsProjected(item.state) /\ item.kind = "plain"
  BY <1>2, <1>4 DEF BuildItem
<1>5. CASE IsProjected(item.state) /\ item.kind = "assistant"
  BY <1>2, <1>5 DEF BuildItem, turn
<1>6. CASE IsProjected(item.state) /\ item.kind = "result"
  <2>1. CASE RepairOrphans /\ acc.calls[item.answers] = 0
    BY <1>2, <1>6, <2>1 DEF BuildItem
  <2>2. CASE ~RepairOrphans
    <3>1. [acc.calls EXCEPT ![item.answers] = IF RepairOrphans THEN @ - 1 ELSE @] = acc.calls
      BY <1>2, <2>2
    <3>. QED
      BY <1>2, <1>6, <2>2, <3>1 DEF BuildItem
  <2>3. CASE RepairOrphans /\ acc.calls[item.answers] # 0
    BY <1>2, <1>6, <2>3 DEF BuildItem
  <2>. QED
    BY <2>1, <2>2, <2>3
<1>. QED
  BY <1>1, <1>3, <1>4, <1>5, <1>6 DEF Kinds

\* What the items before each have left to it.
Building(items, F) ==
  /\ F \in [0..Len(items) -> BuildType]
  /\ F[0] = [answers |-> Pairings(items).answers, calls |-> Pairings(items).calls,
             built |-> <<>>, skipped |-> {}]
  /\ \A k \in 1..Len(items) : F[k] = BuildItem(F[k - 1], items[k])
  /\ Build(items) = F[Len(items)]

\* Building a request goes through its items one by one.
LEMMA BuildingIs ==
  ASSUME NEW items \in Seq(Item)
  PROVE  \E F : Building(items, F)
  BY BuildUnrolled DEF Building

\* The items sent, among the first m, and where each is written.
SentTo(items, F, m) == {k \in 1..m : IsSent(F[k - 1], items[k])}
PlaceOf(F, k) == Len(F[k - 1].built) + 1

\* Each item sent has a place of its own, and each place an item sent.
Placed(items, F, m) ==
  /\ \A k \in SentTo(items, F, m) :
       PlaceOf(F, k) \in DOMAIN F[m].built /\ F[m].built[PlaceOf(F, k)] = WrittenFor(F[k - 1], items[k])
  /\ \A p \in DOMAIN F[m].built : \E k \in SentTo(items, F, m) : p = PlaceOf(F, k)
  /\ \A k \in 0..m : Len(F[k].built) <= Len(F[m].built)
  /\ F[m].skipped = {items[k].id : k \in (1..m) \ SentTo(items, F, m)}

\* At every step, the messages are those of the items sent so far.
LEMMA BuiltPlaces ==
  ASSUME NEW items \in Seq(Item), NEW F, Building(items, F)
  PROVE  \A m \in 0..Len(items) : Placed(items, F, m)
<1>. DEFINE n == Len(items)
            S == {m \in 0..n : Placed(items, F, m)}
<1>1. n \in Nat /\ F \in [0..n -> BuildType]
  BY DEF Building
<1>2. 0 \in S
  <2>1. F[0].built = <<>> /\ F[0].skipped = {} /\ 0 \in 0..n
    BY DEF Building
  <2>2. SentTo(items, F, 0) = {} /\ DOMAIN F[0].built = {} /\ 0..0 = {0}
    BY <2>1 DEF SentTo
  <2>3. \A k \in 0..0 : Len(F[k].built) <= Len(F[0].built)
    BY <2>1
  <2>4. Placed(items, F, 0)
    BY <2>1, <2>2, <2>3 DEF Placed
  <2>. QED
    BY <2>1, <2>4
<1>3. ASSUME NEW m \in 1..n, m - 1 \in S PROVE m \in S
  <2>. DEFINE acc == F[m - 1]
              item == items[m]
              sent == IsSent(acc, item)
              before == SentTo(items, F, m - 1)
              after == SentTo(items, F, m)
  <2>1. Placed(items, F, m - 1) /\ m - 1 \in 0..n /\ m \in 0..n
    BY <1>3
  <2>2. acc \in BuildType /\ item \in Item /\ F[m] = BuildItem(acc, item)
    BY <1>1, <2>1 DEF Building
  <2>3. acc.built \in Seq(MessageType) /\ Len(acc.built) \in Nat
    BY <2>2 DEF BuildType
  <2>4. after = IF sent THEN before \cup {m} ELSE before
    BY DEF SentTo
  <2>5. \A k \in before : k \in 1..(m - 1)
    BY DEF SentTo
  <2>6. (1..m) \ after = IF sent THEN (1..(m - 1)) \ before ELSE ((1..(m - 1)) \ before) \cup {m}
    BY <2>4, <2>5
  <2>7. \A k \in 0..m : k = m \/ k \in 0..(m - 1)
    OBVIOUS
  <2>. HIDE DEF before, after
  <2>8. CASE sent
    <3>1. F[m].built = Append(acc.built, WrittenFor(acc, item)) /\ F[m].skipped = acc.skipped
      BY <2>2, <2>8, BuildStep
    <3>2. /\ Len(F[m].built) = Len(acc.built) + 1
          /\ \A p \in DOMAIN acc.built : p \in DOMAIN F[m].built /\ F[m].built[p] = acc.built[p]
          /\ DOMAIN F[m].built = DOMAIN acc.built \cup {Len(acc.built) + 1}
          /\ F[m].built[Len(acc.built) + 1] = WrittenFor(acc, item)
      <4>. DEFINE old == acc.built
                  new == WrittenFor(acc, item)
      <4>1. old \in Seq(MessageType) /\ new \in MessageType /\ F[m].built = Append(old, new)
        BY <2>2, <2>3, <3>1, WrittenTyped
      <4>. HIDE DEF old, new
      <4>2. /\ Len(Append(old, new)) = Len(old) + 1
            /\ \A p \in DOMAIN old : p \in DOMAIN Append(old, new) /\ Append(old, new)[p] = old[p]
            /\ DOMAIN Append(old, new) = DOMAIN old \cup {Len(old) + 1}
            /\ Append(old, new)[Len(old) + 1] = new
        BY <4>1
      <4>. QED
        BY <4>1, <4>2 DEF old, new
    <3>3. PlaceOf(F, m) = Len(acc.built) + 1
      BY DEF PlaceOf
    <3>4. ASSUME NEW k \in after
          PROVE  PlaceOf(F, k) \in DOMAIN F[m].built /\ F[m].built[PlaceOf(F, k)] = WrittenFor(F[k - 1], items[k])
      <4>1. CASE k = m
        BY <3>2, <3>3, <4>1
      <4>2. CASE k \in before
        <5>1. PlaceOf(F, k) \in DOMAIN acc.built /\ acc.built[PlaceOf(F, k)] = WrittenFor(F[k - 1], items[k])
          BY <2>1, <4>2 DEF Placed, before
        <5>. QED
          BY <3>2, <5>1
      <4>. QED
        BY <2>4, <2>8, <4>1, <4>2
    <3>5. ASSUME NEW p \in DOMAIN F[m].built
          PROVE  \E k \in after : p = PlaceOf(F, k)
      <4>1. CASE p \in DOMAIN acc.built
        BY <2>1, <2>4, <4>1 DEF Placed, before
      <4>2. CASE p = Len(acc.built) + 1
        BY <2>4, <2>8, <3>3, <4>2
      <4>. QED
        BY <3>2, <4>1, <4>2
    <3>6. ASSUME NEW k \in 0..m PROVE Len(F[k].built) <= Len(F[m].built)
      <4>1. CASE k = m
        <5>1. Len(F[m].built) \in Nat
          BY <2>3, <3>2
        <5>. QED
          BY <4>1, <5>1
      <4>2. CASE k \in 0..(m - 1)
        <5>1. k \in 0..n /\ F[k] \in BuildType
          BY <1>1, <4>2
        <5>2. Len(F[k].built) \in Nat
          BY <5>1 DEF BuildType
        <5>3. Len(F[k].built) <= Len(acc.built)
          BY <2>1, <4>2 DEF Placed
        <5>. QED
          BY <2>3, <3>2, <5>2, <5>3
      <4>. QED
        BY <2>7, <4>1, <4>2
    <3>7. F[m].skipped = {items[k].id : k \in (1..m) \ after}
      BY <2>1, <2>6, <2>8, <3>1 DEF Placed, before
    <3>. QED
      BY <2>1, <3>4, <3>5, <3>6, <3>7 DEF Placed, after
  <2>9. CASE ~sent
    <3>1. F[m].built = acc.built /\ F[m].skipped = acc.skipped \cup {item.id}
      BY <2>2, <2>9, BuildStep
    <3>2. after = before
      BY <2>4, <2>9
    <3>3. \A k \in 0..m : Len(F[k].built) <= Len(F[m].built)
      BY <2>1, <2>3, <2>7, <3>1 DEF Placed
    <3>4. F[m].skipped = {items[k].id : k \in (1..m) \ after}
      BY <2>1, <2>6, <2>9, <3>1 DEF Placed, before
    <3>5. /\ \A k \in after : /\ PlaceOf(F, k) \in DOMAIN F[m].built
                              /\ F[m].built[PlaceOf(F, k)] = WrittenFor(F[k - 1], items[k])
          /\ \A p \in DOMAIN F[m].built : \E k \in after : p = PlaceOf(F, k)
      BY <2>1, <3>1, <3>2 DEF Placed, before
    <3>. QED
      BY <2>1, <3>3, <3>4, <3>5 DEF Placed, after
  <2>. QED
    BY <2>8, <2>9
<1>. QED
  <2>1. \A m \in 0..n : m \in S
    <3>. HIDE DEF S, n
    <3>. QED
      BY <1>1, <1>2, <1>3, InductionTo
  <2>. QED
    BY <2>1

\* Numbers from the least on: each of them once.
LEMMA AscendingLists ==
  ASSUME NEW S \in SUBSET Nat, IsFiniteSet(S)
  PROVE  /\ Ascending(S) \in Seq(S) /\ ToSet(Ascending(S)) = S
         /\ \A j, k \in DOMAIN Ascending(S) : j < k => Ascending(S)[j] < Ascending(S)[k]
<1>. DEFINE before == {pair \in S \X S : pair[1] < pair[2]}
            order == InOrder(S, before)
            n == Cardinality(S)
<1>1. \A x, y : <<x, y>> \in before <=> x \in S /\ y \in S /\ x < y
  OBVIOUS
<1>. HIDE DEF before
<1>2. \A x \in S : <<x, x>> \notin before
  BY <1>1
<1>3. \A x, y \in S : x # y => <<x, y>> \in before \/ <<y, x>> \in before
  BY <1>1
<1>4. \A x, y, z \in S : <<x, y>> \in before /\ <<y, z>> \in before => <<x, z>> \in before
  BY <1>1
<1>5. /\ n \in Nat /\ order \in [1..n -> S] /\ DOMAIN order = 1..n
      /\ \A x \in S : \E k \in 1..n : order[k] = x
      /\ \A j, k \in 1..n : j < k => <<order[j], order[k]>> \in before
  BY <1>2, <1>3, <1>4, InOrderLists
<1>6. Ascending(S) = order
  BY DEF Ascending, before
<1>. HIDE DEF order, n
<1>7. order \in Seq(S)
  BY <1>5
<1>8. ToSet(order) = S
  BY <1>5 DEF ToSet
<1>. QED
  BY <1>1, <1>5, <1>6, <1>7, <1>8

\* A list of members of a part lists members of the whole, and only of the part.
LEMMA ListedWithin ==
  ASSUME NEW T, NEW S \in SUBSET T, NEW s \in Seq(S)
  PROVE  s \in Seq(T) /\ ToSet(s) \subseteq S
<1>1. \A k \in DOMAIN s : s[k] \in S
  OBVIOUS
<1>2. ToSet(s) \subseteq S
  BY <1>1 DEF ToSet
<1>. QED
  BY <1>2

\* in_wire_order loses no message and makes none.
LEMMA WireOrders ==
  ASSUME NEW built \in Seq(MessageType)
  PROVE  /\ WireOrder(built).order \in Seq(1..Len(built))
         /\ ToSet(WireOrder(built).order) = 1..Len(built)
<1>. DEFINE placed == FoldLeft(LAMBDA acc, at : PlaceMessage(built, acc, at),
                               [order |-> <<>>, adjacent |-> 0, moved |-> {}], [k \in DOMAIN built |-> k])
            rest == Ascending(DOMAIN built \ ToSet(placed.order))
            n == Len(built)
<1>1. n \in Nat /\ DOMAIN built = 1..n
  OBVIOUS
<1>2. placed \in PlaceType(n)
  <2>1. PICK G \in [0..n -> PlaceType(n)] : placed = G[n]
    BY WireUnrolled
  <2>2. n \in 0..n
    BY <1>1
  <2>. QED
    BY <2>1, <2>2
<1>3. WireOrder(built).order = placed.order \o rest
  BY DEF WireOrder
<1>. HIDE DEF placed, n
<1>4. placed.order \in Seq(1..n)
  BY <1>2 DEF PlaceType
<1>. DEFINE open == DOMAIN built \ ToSet(placed.order)
<1>5. rest \in Seq(open) /\ ToSet(rest) = open
  <2>1. open \in SUBSET (1..n) /\ open \in SUBSET Nat
    BY <1>1
  <2>2. IsFiniteSet(open)
    BY <2>1, <1>1, FS_Interval, FS_Subset
  <2>3. rest = Ascending(open)
    OBVIOUS
  <2>. HIDE DEF open, rest
  <2>. QED
    BY <2>1, <2>2, <2>3, AscendingLists
<1>6. rest \in Seq(1..n)
  <2>1. open \subseteq 1..n
    BY <1>1
  <2>. HIDE DEF open, rest
  <2>. QED
    BY <1>5, <2>1, ListedWithin
<1>7. ToSet(placed.order) \subseteq 1..n
  BY <1>4, ListedWithin
<1>8. open = (1..n) \ ToSet(placed.order)
  BY <1>1
<1>. HIDE DEF rest, open
<1>9. ToSet(placed.order \o rest) = ToSet(placed.order) \cup ToSet(rest)
  <2>. DEFINE a == placed.order
              b == rest
  <2>1. a \in Seq(1..n) /\ b \in Seq(1..n)
    BY <1>4, <1>6
  <2>. HIDE DEF a, b
  <2>2. Len(a) \in Nat /\ Len(b) \in Nat /\ DOMAIN a = 1..Len(a) /\ DOMAIN b = 1..Len(b)
        /\ DOMAIN (a \o b) = 1..(Len(a) + Len(b))
    BY <2>1
  <2>3. \A k \in DOMAIN a : k \in DOMAIN (a \o b) /\ (a \o b)[k] = a[k]
    BY <2>1, <2>2
  <2>4. \A k \in DOMAIN b : Len(a) + k \in DOMAIN (a \o b) /\ (a \o b)[Len(a) + k] = b[k]
    BY <2>1, <2>2
  <2>5. \A k \in DOMAIN (a \o b) : k \in DOMAIN a \/ (k - Len(a) \in DOMAIN b /\ Len(a) + (k - Len(a)) = k)
    BY <2>2
  <2>6. ToSet(a) \cup ToSet(b) \subseteq ToSet(a \o b)
    BY <2>3, <2>4 DEF ToSet
  <2>7. ToSet(a \o b) \subseteq ToSet(a) \cup ToSet(b)
    <3> SUFFICES ASSUME NEW k \in DOMAIN (a \o b) PROVE (a \o b)[k] \in ToSet(a) \cup ToSet(b)
      BY DEF ToSet
    <3>1. CASE k \in DOMAIN a
      BY <2>3, <3>1 DEF ToSet
    <3>2. CASE k - Len(a) \in DOMAIN b /\ Len(a) + (k - Len(a)) = k
      <4>1. (a \o b)[k] = b[k - Len(a)]
        BY <2>4, <3>2
      <4>. QED
        BY <3>2, <4>1 DEF ToSet
    <3>. QED
      BY <2>5, <3>1, <3>2
  <2>8. ToSet(a \o b) = ToSet(a) \cup ToSet(b)
    BY <2>6, <2>7
  <2>. QED
    BY <2>8 DEF a, b
<1>10. placed.order \o rest \in Seq(1..n)
  BY <1>4, <1>6
<1>. QED
  BY <1>3, <1>5, <1>7, <1>8, <1>9, <1>10 DEF n

\* The items a request carries are those that are sent.
LEMMA CarryingIs ==
  ASSUME NEW items \in Seq(Item), NEW F, Building(items, F)
  PROVE  Carrying(items) = {items[k].id : k \in SentTo(items, F, Len(items))}
<1>. DEFINE n == Len(items)
            built == Build(items).built
            order == WireOrder(built).order
            sent == [k \in DOMAIN order |-> built[order[k]]]
            through == SentTo(items, F, n)
<1>1. n \in Nat /\ n \in 0..n /\ F[n] \in BuildType /\ Build(items) = F[n]
  BY DEF Building
<1>2. built \in Seq(MessageType)
  BY <1>1 DEF BuildType
<1>3. Placed(items, F, n)
  BY <1>1, BuiltPlaces
<1>4. Carrying(items) = {sent[k].id : k \in DOMAIN sent}
  BY DEF Carrying, Project
<1>5. \A k : WrittenFor(F[k - 1], items[k]).id = items[k].id
  BY DEF WrittenFor, Message
<1>6. \A k \in through : PlaceOf(F, k) \in DOMAIN built /\ built[PlaceOf(F, k)].id = items[k].id
  <2>. HIDE DEF built
  <2>1. built = F[n].built
    BY <1>1 DEF built
  <2>. QED
    BY <1>3, <1>5, <2>1 DEF Placed
<1>7. \A p \in DOMAIN built : \E k \in through : p = PlaceOf(F, k)
  BY <1>1, <1>3 DEF Placed
<1>. HIDE DEF built, through
<1>8. order \in Seq(1..Len(built)) /\ ToSet(order) = 1..Len(built) /\ DOMAIN built = 1..Len(built)
  BY <1>2, WireOrders
<1>. HIDE DEF order
<1>9. \A p \in DOMAIN built : \E k \in DOMAIN order : order[k] = p
  BY <1>8 DEF ToSet
<1>10. \A k \in DOMAIN order : order[k] \in DOMAIN built
  BY <1>8
<1>11. {sent[k].id : k \in DOMAIN sent} = {built[p].id : p \in DOMAIN built}
  BY <1>9, <1>10
<1>12. {built[p].id : p \in DOMAIN built} = {items[k].id : k \in through}
  BY <1>6, <1>7
<1>. QED
  BY <1>4, <1>11, <1>12 DEF through

\* A request is a list of messages.
LEMMA MessagesTyped ==
  ASSUME NEW items \in Seq(Item)
  PROVE  Project(items).messages \in Seq(MessageType)
<1>. DEFINE built == Build(items).built
            order == WireOrder(built).order
<1>1. PICK F : Building(items, F)
  BY BuildingIs
<1>2. Len(items) \in 0..Len(items)
  OBVIOUS
<1>3. built \in Seq(MessageType)
  BY <1>1, <1>2 DEF Building, BuildType
<1>4. Project(items).messages = [k \in DOMAIN order |-> built[order[k]]]
  BY DEF Project
<1>. HIDE DEF built
<1>5. order \in Seq(1..Len(built)) /\ DOMAIN built = 1..Len(built)
  BY <1>3, WireOrders
<1>. HIDE DEF order
<1>6. \A k \in DOMAIN order : built[order[k]] \in MessageType
  BY <1>3, <1>5
<1>. QED
  BY <1>4, <1>5, <1>6

\* What a request carries is projected, and every plain item that is projected is carried.
LEMMA CarriedProjected ==
  ASSUME NEW items \in Seq(Item), NEW id \in Carrying(items)
  PROVE  \E k \in DOMAIN items : items[k].id = id /\ IsProjected(items[k].state)
<1>1. PICK F : Building(items, F)
  BY BuildingIs
<1>. QED
  BY <1>1, CarryingIs DEF SentTo, IsSent

\* A plain item in the request is carried.
LEMMA PlainCarried ==
  ASSUME NEW items \in Seq(Item), NEW k \in DOMAIN items,
         items[k].kind = "plain", IsProjected(items[k].state)
  PROVE  items[k].id \in Carrying(items)
<1>1. PICK F : Building(items, F)
  BY BuildingIs
<1>. QED
  BY <1>1, CarryingIs DEF SentTo, IsSent

\* Items the projector cannot tell apart.
Alike(items, other) ==
  /\ Len(items) = Len(other)
  /\ \A k \in DOMAIN items :
       /\ items[k].id = other[k].id /\ items[k].kind = other[k].kind
       /\ items[k].calls = other[k].calls /\ items[k].answers = other[k].answers
       /\ items[k].state = other[k].state /\ items[k].text = other[k].text

\* Lists alike to the projector pair alike.
LEMMA AlikePairings ==
  ASSUME NEW items \in Seq(Item), NEW other \in Seq(Item), Alike(items, other)
  PROVE  Pairings(items) = Pairings(other)
<1>1. DOMAIN items = DOMAIN other
  BY DEF Alike
<1>2. Projected(items) = Projected(other)
  BY <1>1 DEF Projected, Alike
<1>3. \A k \in Projected(items) : CallsOf(items[k]) = CallsOf(other[k])
  BY DEF Projected, CallsOf, Alike
<1>4. ASSUME NEW c PROVE Answering(items, c) = Answering(other, c)
  BY <1>2 DEF Answering, Alike, Projected
<1>5. ASSUME NEW c PROVE Asking(items, c) = Asking(other, c)
  <2>. DEFINE at(list, k) == {k} \X {j \in DOMAIN CallsOf(list[k]) : CallsOf(list[k])[j] = c}
  <2>1. \A k \in Projected(items) : at(items, k) = at(other, k)
    BY <1>3
  <2>2. Asking(items, c) = UNION {at(items, k) : k \in Projected(items)}
        /\ Asking(other, c) = UNION {at(other, k) : k \in Projected(other)}
    BY DEF Asking
  <2>. HIDE DEF at
  <2>. QED
    BY <1>2, <2>1, <2>2
<1>. QED
  BY <1>4, <1>5 DEF Pairings

\* Lists alike to the projector are sent alike.
LEMMA AlikeBuild ==
  ASSUME NEW items \in Seq(Item), NEW other \in Seq(Item), Alike(items, other)
  PROVE  Project(items) = Project(other)
<1>. DEFINE n == Len(items)
<1>1. PICK F : Building(items, F)
  BY BuildingIs
<1>2. PICK G : Building(other, G)
  BY BuildingIs
<1>3. n \in Nat /\ Len(other) = n
  BY DEF Alike
<1>. DEFINE S == {k \in 0..n : F[k] = G[k]}
<1>4. 0 \in S
  <2>1. F[0] = G[0]
    BY <1>1, <1>2, AlikePairings DEF Building
  <2>2. 0 \in 0..n
    BY <1>3
  <2>. QED
    BY <2>1, <2>2
<1>5. ASSUME NEW k \in 1..n, k - 1 \in S PROVE k \in S
  <2>1. F[k] = BuildItem(F[k - 1], items[k]) /\ G[k] = BuildItem(G[k - 1], other[k])
    BY <1>1, <1>2, <1>3 DEF Building
  <2>2. F[k - 1] = G[k - 1]
    BY <1>5
  <2>3. /\ items[k].id = other[k].id /\ items[k].kind = other[k].kind
        /\ items[k].calls = other[k].calls /\ items[k].answers = other[k].answers
        /\ items[k].state = other[k].state /\ items[k].text = other[k].text
    BY DEF Alike
  <2>4. ASSUME NEW acc PROVE BuildItem(acc, items[k]) = BuildItem(acc, other[k])
    BY <2>3 DEF BuildItem, Message, Says
  <2>. QED
    BY <2>1, <2>2, <2>4
<1>6. \A k \in 0..n : k \in S
  <2>. HIDE DEF S, n
  <2>. QED
    BY <1>3, <1>4, <1>5, InductionTo
<1>7. Build(items) = Build(other)
  BY <1>1, <1>2, <1>3, <1>6 DEF Building
<1>. QED
  BY <1>7 DEF Project

\* The calls of a turn that are kept: with repair, those with a result left to claim.
LEMMA ClaimKept ==
  ASSUME NEW calls \in Seq(Calls), NEW left \in [Calls -> Nat]
  PROVE  /\ ~RepairOrphans => ClaimCalls(calls, left) = [kept |-> calls, left |-> left]
         /\ RepairOrphans => (ClaimCalls(calls, left).kept = <<>> <=> \A j \in DOMAIN calls : left[calls[j]] = 0)
         /\ \A c \in Calls : c \notin ToSet(calls) => ClaimCalls(calls, left).left[c] = left[c]
<1>. DEFINE n == Len(calls)
<1>1. PICK F \in [0..n -> ClaimType] :
        /\ F[0] = [kept |-> <<>>, left |-> left]
        /\ \A k \in 1..n : F[k] = ClaimOne(F[k - 1], calls[k])
        /\ ClaimCalls(calls, left) = F[n]
  BY ClaimUnrolled
<1>2. n \in Nat /\ DOMAIN calls = 1..n /\ \A k \in 1..n : calls[k] \in Calls
  OBVIOUS
<1>. DEFINE Same(k) == F[k] = [kept |-> SubSeq(calls, 1, k), left |-> left]
            Kept(k) == /\ F[k].kept = <<>> <=> \A j \in 1..k : left[calls[j]] = 0
                       /\ F[k].kept = <<>> => F[k].left = left
            Rest(k) == \A c \in Calls : c \notin ToSet(calls) => F[k].left[c] = left[c]
            S == {k \in 0..n : /\ ~RepairOrphans => Same(k)
                               /\ RepairOrphans => Kept(k)
                               /\ Rest(k)}
<1>3. 0 \in S
  <2>1. SubSeq(calls, 1, 0) = <<>>
    BY <1>2
  <2>2. Same(0) /\ Kept(0) /\ Rest(0)
    BY <1>1, <2>1
  <2>. QED
    BY <1>2, <2>2
<1>4. ASSUME NEW k \in 1..n, k - 1 \in S PROVE k \in S
  <2>. DEFINE acc == F[k - 1]
              c == calls[k]
  <2>1. k \in 0..n /\ k - 1 \in 0..n
    BY <1>2
  <2>2. acc \in ClaimType /\ F[k] = ClaimOne(acc, c) /\ c \in Calls /\ c \in ToSet(calls)
    BY <1>1, <1>2, <2>1 DEF ToSet
  <2>3. acc.kept \in Seq(Calls) /\ acc.left \in [Calls -> Nat] /\ acc = [kept |-> acc.kept, left |-> acc.left]
    BY <2>2 DEF ClaimType
  <2>4. (~RepairOrphans => Same(k - 1)) /\ (RepairOrphans => Kept(k - 1)) /\ Rest(k - 1)
    BY <1>4
  <2>. HIDE DEF acc, c
  <2>5. Append(acc.kept, c) # <<>>
    <3>. DEFINE kept == acc.kept
    <3>1. kept \in Seq(Calls)
      BY <2>3
    <3>. HIDE DEF kept
    <3>2. Len(Append(kept, c)) = Len(kept) + 1 /\ Len(kept) \in Nat
      BY <2>2, <3>1
    <3>3. Append(kept, c) # <<>>
      <4> SUFFICES ASSUME Append(kept, c) = <<>> PROVE FALSE
        OBVIOUS
      <4>1. Len(Append(kept, c)) = 0
        OBVIOUS
      <4>. QED
        BY <3>2, <4>1
    <3>. QED
      BY <3>3 DEF kept
  <2>6. ASSUME ~RepairOrphans PROVE Same(k)
    <3>1. acc = [kept |-> SubSeq(calls, 1, k - 1), left |-> left]
      BY <2>4, <2>6 DEF acc
    <3>2. SubSeq(calls, 1, k) = Append(SubSeq(calls, 1, k - 1), c)
      BY <1>2, <2>1 DEF c
    <3>3. F[k] = [kept |-> Append(acc.kept, c), left |-> acc.left]
      BY <2>2, <2>3, <2>6 DEF ClaimOne
    <3>. QED
      BY <3>1, <3>2, <3>3
  <2>7. ASSUME RepairOrphans PROVE Kept(k)
    <3>0. /\ acc.kept = <<>> <=> \A j \in 1..(k - 1) : left[calls[j]] = 0
          /\ acc.kept = <<>> => acc.left = left
      BY <2>4, <2>7 DEF acc
    <3>1. CASE acc.left[c] = 0
      <4>1. F[k] = acc
        BY <2>2, <2>7, <3>1 DEF ClaimOne
      <4>2. acc.kept = <<>> => left[c] = 0
        BY <3>0, <3>1
      <4>. QED
        BY <2>1, <3>0, <4>1, <4>2 DEF c
    <3>2. CASE acc.left[c] # 0
      <4>1. F[k].kept = Append(acc.kept, c)
        BY <2>2, <2>7, <3>2 DEF ClaimOne
      <4>2. F[k].kept # <<>>
        BY <2>5, <4>1
      <4>3. CASE acc.kept = <<>>
        <5>1. left[calls[k]] # 0
          BY <3>0, <3>2, <4>3 DEF c
        <5>. QED
          BY <4>2, <5>1
      <4>4. CASE acc.kept # <<>>
        BY <3>0, <4>2, <4>4
      <4>. QED
        BY <4>3, <4>4
    <3>. QED
      BY <3>1, <3>2
  <2>8. Rest(k)
    <3> SUFFICES ASSUME NEW d \in Calls, d \notin ToSet(calls) PROVE F[k].left[d] = left[d]
      OBVIOUS
    <3>1. d # c /\ acc.left[d] = left[d]
      BY <2>2, <2>4 DEF acc
    <3>2. F[k].left[d] = acc.left[d]
      BY <2>2, <2>3, <3>1 DEF ClaimOne
    <3>. QED
      BY <3>1, <3>2
  <2>. QED
    BY <2>1, <2>6, <2>7, <2>8
<1>5. n \in S
  <2>1. \A k \in 0..n : k \in S
    <3>. HIDE DEF S, n
    <3>. QED
      BY <1>2, <1>3, <1>4, InductionTo
  <2>2. n \in 0..n
    BY <1>2
  <2>. HIDE DEF S
  <2>. QED
    BY <2>1, <2>2
<1>6. SubSeq(calls, 1, n) = calls
  BY <1>2
<1>. QED
  BY <1>1, <1>2, <1>5, <1>6

\* More to claim at the start leaves no less at the end, call by call.
LEMMA ClaimMonotone ==
  ASSUME NEW calls \in Seq(Calls), NEW few \in [Calls -> Nat], NEW many \in [Calls -> Nat],
         NEW c \in Calls, few[c] <= many[c]
  PROVE  ClaimCalls(calls, few).left[c] <= ClaimCalls(calls, many).left[c]
<1>. DEFINE n == Len(calls)
<1>1. PICK F \in [0..n -> ClaimType] :
        /\ F[0] = [kept |-> <<>>, left |-> few]
        /\ \A k \in 1..n : F[k] = ClaimOne(F[k - 1], calls[k])
        /\ ClaimCalls(calls, few) = F[n]
  BY ClaimUnrolled
<1>2. PICK G \in [0..n -> ClaimType] :
        /\ G[0] = [kept |-> <<>>, left |-> many]
        /\ \A k \in 1..n : G[k] = ClaimOne(G[k - 1], calls[k])
        /\ ClaimCalls(calls, many) = G[n]
  BY ClaimUnrolled
<1>3. n \in Nat
  OBVIOUS
<1>. DEFINE S == {k \in 0..n : F[k].left[c] <= G[k].left[c]}
<1>4. 0 \in S
  BY <1>1, <1>2, <1>3
<1>5. ASSUME NEW acc \in ClaimType, NEW d \in Calls
      PROVE  ClaimOne(acc, d).left[c] = IF RepairOrphans /\ d = c /\ acc.left[c] # 0
                                        THEN acc.left[c] - 1 ELSE acc.left[c]
  <2>1. acc.left \in [Calls -> Nat] /\ acc = [kept |-> acc.kept, left |-> acc.left]
    BY DEF ClaimType
  <2>. QED
    BY <2>1 DEF ClaimOne
<1>6. ASSUME NEW k \in 1..n, k - 1 \in S PROVE k \in S
  <2>1. k \in 0..n /\ k - 1 \in 0..n /\ calls[k] \in Calls
    BY <1>3
  <2>2. F[k - 1] \in ClaimType /\ G[k - 1] \in ClaimType
    BY <2>1
  <2>3. F[k - 1].left[c] \in Nat /\ G[k - 1].left[c] \in Nat
    BY <2>2 DEF ClaimType
  <2>4. F[k - 1].left[c] <= G[k - 1].left[c]
    BY <1>6
  <2>5. F[k] = ClaimOne(F[k - 1], calls[k]) /\ G[k] = ClaimOne(G[k - 1], calls[k])
    BY <1>1, <1>2
  <2>6. /\ F[k].left[c] = IF RepairOrphans /\ calls[k] = c /\ F[k - 1].left[c] # 0
                          THEN F[k - 1].left[c] - 1 ELSE F[k - 1].left[c]
        /\ G[k].left[c] = IF RepairOrphans /\ calls[k] = c /\ G[k - 1].left[c] # 0
                          THEN G[k - 1].left[c] - 1 ELSE G[k - 1].left[c]
    BY <1>5, <2>1, <2>2, <2>5
  <2>7. F[k].left[c] <= G[k].left[c]
    <3>. DEFINE less == F[k - 1].left[c]
                more == G[k - 1].left[c]
    <3>1. less \in Nat /\ more \in Nat /\ less <= more
      BY <2>3, <2>4
    <3>2. F[k].left[c] = (IF RepairOrphans /\ calls[k] = c /\ less # 0 THEN less - 1 ELSE less)
      BY <2>6
    <3>3. G[k].left[c] = (IF RepairOrphans /\ calls[k] = c /\ more # 0 THEN more - 1 ELSE more)
      BY <2>6
    <3>. HIDE DEF less, more
    <3>. QED
      BY <3>1, <3>2, <3>3
  <2>. QED
    BY <2>1, <2>7
<1>7. n \in S
  <2>1. \A k \in 0..n : k \in S
    <3>. HIDE DEF S, n
    <3>. QED
      BY <1>3, <1>4, <1>6, InductionTo
  <2>. QED
    BY <1>3, <2>1
<1>. QED
  BY <1>1, <1>2, <1>7

\* Two lists of which the second goes on where the first ends, and whose items ask for a
\* call and answer it in the same places, as far as the first goes.
AsMany(items, other, c) ==
  /\ Len(items) <= Len(other)
  /\ \A k \in DOMAIN items :
       /\ items[k].kind = other[k].kind /\ items[k].calls = other[k].calls
       /\ items[k].answers = other[k].answers
       /\ c \in NamedCalls(items[k]) => (IsProjected(items[k].state) <=> IsProjected(other[k].state))

\* A call is named by an assistant item that makes it and by a result that answers it.
LEMMA NamedWhere ==
  ASSUME NEW item \in Item, NEW c \in Calls
  PROVE  /\ c \in NamedCalls(item) <=> \/ item.kind = "assistant" /\ c \in ToSet(item.calls)
                                       \/ item.kind = "result" /\ item.answers = c
  BY DEF NamedCalls, CallsOf, ToSet

\* The second counts no fewer places at which a call is made, and no fewer results.
LEMMA AsManyCounted ==
  ASSUME NEW items \in Seq(Item), NEW other \in Seq(Item), NEW c \in Calls, AsMany(items, other, c)
  PROVE  /\ Pairings(items).answers[c] <= Pairings(other).answers[c]
         /\ Pairings(items).calls[c] <= Pairings(other).calls[c]
<1>1. DOMAIN items \subseteq DOMAIN other
  <2>1. Len(items) \in Nat /\ Len(other) \in Nat /\ Len(items) <= Len(other)
    BY DEF AsMany
  <2>. QED
    BY <2>1
<1>2. \A k \in DOMAIN items : CallsOf(items[k]) = CallsOf(other[k])
  BY DEF AsMany, CallsOf
<1>3. Answering(items, c) \subseteq Answering(other, c)
  <2> SUFFICES ASSUME NEW k \in Answering(items, c) PROVE k \in Answering(other, c)
    OBVIOUS
  <2>1. k \in DOMAIN items /\ k \in DOMAIN other /\ IsProjected(items[k].state)
        /\ items[k].kind = "result" /\ items[k].answers = c
    BY <1>1 DEF Answering, Projected
  <2>2. c \in NamedCalls(items[k])
    BY <2>1 DEF NamedCalls
  <2>. QED
    BY <2>1, <2>2 DEF Answering, Projected, AsMany
<1>. DEFINE at(list, k) == {k} \X {j \in DOMAIN CallsOf(list[k]) : CallsOf(list[k])[j] = c}
<1>4. Asking(items, c) = UNION {at(items, k) : k \in Projected(items)}
      /\ Asking(other, c) = UNION {at(other, k) : k \in Projected(other)}
  BY DEF Asking
<1>5. Asking(items, c) \subseteq Asking(other, c)
  <2> SUFFICES ASSUME NEW p \in Asking(items, c) PROVE p \in Asking(other, c)
    OBVIOUS
  <2>1. PICK k \in Projected(items) : p \in at(items, k)
    BY <1>4
  <2>2. k \in DOMAIN items /\ k \in DOMAIN other /\ IsProjected(items[k].state)
    BY <1>1 DEF Projected
  <2>3. at(items, k) = at(other, k)
    BY <1>2, <2>2
  <2>4. c \in ToSet(CallsOf(items[k]))
    BY <2>1 DEF ToSet
  <2>5. c \in NamedCalls(items[k])
    BY <2>4 DEF NamedCalls
  <2>6. k \in Projected(other)
    BY <2>2, <2>5 DEF AsMany, Projected
  <2>. HIDE DEF at
  <2>. QED
    BY <1>4, <2>1, <2>3, <2>6
<1>6. Cardinality(Answering(items, c)) <= Cardinality(Answering(other, c))
  <2>1. IsFiniteSet(Answering(other, c))
    BY AnsweringFinite
  <2>. QED
    BY <1>3, <2>1, FS_Subset
<1>7. Cardinality(Asking(items, c)) <= Cardinality(Asking(other, c))
  <2>1. Len(other) \in 0..Len(other)
    OBVIOUS
  <2>2. IsFiniteSet(Asking(other, c))
    BY <2>1, AskingFinite, AskingBetween
  <2>. QED
    BY <1>5, <2>2, FS_Subset
<1>. QED
  BY <1>6, <1>7 DEF Pairings

\* So it leaves no less of it to claim to each item they share.
LEMMA AsManyLeft ==
  ASSUME NEW items \in Seq(Item), NEW other \in Seq(Item), NEW c \in Calls, AsMany(items, other, c),
         NEW F, Building(items, F), NEW G, Building(other, G)
  PROVE  \A k \in 0..Len(items) : F[k].answers[c] <= G[k].answers[c] /\ F[k].calls[c] <= G[k].calls[c]
<1>. DEFINE n == Len(items)
            S == {k \in 0..n : F[k].answers[c] <= G[k].answers[c] /\ F[k].calls[c] <= G[k].calls[c]}
<1>1. /\ n \in Nat /\ Len(other) \in Nat /\ n <= Len(other)
      /\ F \in [0..n -> BuildType] /\ G \in [0..Len(other) -> BuildType]
  BY DEF Building, AsMany
<1>2. 0 \in S
  <2>1. 0 \in 0..n
    BY <1>1
  <2>2. /\ F[0].answers = Pairings(items).answers /\ F[0].calls = Pairings(items).calls
        /\ G[0].answers = Pairings(other).answers /\ G[0].calls = Pairings(other).calls
    BY DEF Building
  <2>. QED
    BY <2>1, <2>2, AsManyCounted
<1>3. ASSUME NEW k \in 1..n, k - 1 \in S PROVE k \in S
  <2>. DEFINE f == F[k - 1]
              g == G[k - 1]
              item == items[k]
              same == other[k]
  <2>1. /\ k \in 0..n /\ k - 1 \in 0..n /\ k - 1 \in 0..Len(other) /\ k \in 1..Len(other)
        /\ k \in DOMAIN items
    BY <1>1
  <2>2. f \in BuildType /\ g \in BuildType /\ item \in Item /\ same \in Item
    BY <1>1, <2>1
  <2>3. F[k] = BuildItem(f, item) /\ G[k] = BuildItem(g, same)
    BY <2>1 DEF Building
  <2>4. /\ item.kind = same.kind /\ item.calls = same.calls /\ item.answers = same.answers
        /\ c \in NamedCalls(item) => (IsProjected(item.state) <=> IsProjected(same.state))
    BY <2>1 DEF AsMany
  <2>5. f.answers[c] <= g.answers[c] /\ f.calls[c] <= g.calls[c]
    BY <1>3
  <2>6. /\ f.answers \in [Calls -> Nat] /\ f.calls \in [Calls -> Nat] /\ item.calls \in Seq(Calls)
        /\ g.answers \in [Calls -> Nat] /\ g.calls \in [Calls -> Nat]
        /\ item.kind = "result" => item.answers \in Calls
    BY <2>2 DEF BuildType, Item
  <2>. DEFINE claims(it) == IsProjected(it.state) /\ it.kind = "assistant"
              takes(acc, it) == /\ IsProjected(it.state) /\ it.kind = "result"
                                /\ RepairOrphans /\ acc.calls[it.answers] # 0
  <2>7. /\ F[k].answers = IF claims(item) THEN ClaimCalls(item.calls, f.answers).left ELSE f.answers
        /\ G[k].answers = IF claims(same) THEN ClaimCalls(same.calls, g.answers).left ELSE g.answers
        /\ F[k].calls = IF takes(f, item) THEN [f.calls EXCEPT ![item.answers] = @ - 1] ELSE f.calls
        /\ G[k].calls = IF takes(g, same) THEN [g.calls EXCEPT ![same.answers] = @ - 1] ELSE g.calls
    <3>1. ASSUME NEW acc \in BuildType, NEW it \in Item
          PROVE  /\ BuildItem(acc, it).answers = IF claims(it) THEN ClaimCalls(it.calls, acc.answers).left ELSE acc.answers
                 /\ BuildItem(acc, it).calls = IF takes(acc, it) THEN [acc.calls EXCEPT ![it.answers] = @ - 1] ELSE acc.calls
      BY BuildCounts
    <3>2. /\ BuildItem(f, item).answers = IF claims(item) THEN ClaimCalls(item.calls, f.answers).left ELSE f.answers
          /\ BuildItem(f, item).calls = IF takes(f, item) THEN [f.calls EXCEPT ![item.answers] = @ - 1] ELSE f.calls
      BY <2>2, <3>1
    <3>3. /\ BuildItem(g, same).answers = IF claims(same) THEN ClaimCalls(same.calls, g.answers).left ELSE g.answers
          /\ BuildItem(g, same).calls = IF takes(g, same) THEN [g.calls EXCEPT ![same.answers] = @ - 1] ELSE g.calls
      BY <2>2, <3>1
    <3>. HIDE DEF claims, takes, f, g, item, same
    <3>. QED
      BY <2>3, <3>2, <3>3
  <2>. HIDE DEF f, g, item, same
  <2>8. F[k].answers[c] <= G[k].answers[c]
    <3>1. CASE c \in ToSet(item.calls) /\ item.kind = "assistant"
      <4>1. claims(item) <=> claims(same)
        BY <2>2, <2>4, <3>1, NamedWhere
      <4>2. ClaimCalls(item.calls, f.answers).left[c] <= ClaimCalls(item.calls, g.answers).left[c]
        BY <2>5, <2>6, ClaimMonotone
      <4>. HIDE DEF claims
      <4>. QED
        BY <2>4, <2>5, <2>7, <4>1, <4>2
    <3>2. CASE c \notin ToSet(item.calls)
      <4>1. ClaimCalls(item.calls, f.answers).left[c] = f.answers[c]
            /\ ClaimCalls(item.calls, g.answers).left[c] = g.answers[c]
        BY <2>6, <3>2, ClaimKept
      <4>. HIDE DEF claims
      <4>2. F[k].answers[c] = f.answers[c] /\ G[k].answers[c] = g.answers[c]
        BY <2>4, <2>7, <4>1
      <4>. QED
        BY <2>5, <4>2
    <3>3. CASE item.kind # "assistant"
      BY <2>4, <2>5, <2>7, <3>3
    <3>. QED
      BY <3>1, <3>2, <3>3
  <2>9. F[k].calls[c] <= G[k].calls[c]
    <3>1. CASE item.kind = "result" /\ item.answers = c
      <4>1. IsProjected(item.state) <=> IsProjected(same.state)
        BY <2>2, <2>4, <3>1, NamedWhere
      <4>. DEFINE few == f.calls[c]
                  many == g.calls[c]
                  counts == IsProjected(item.state) /\ RepairOrphans
      <4>2. few \in Nat /\ many \in Nat /\ few <= many
        BY <2>5, <2>6
      <4>3. F[k].calls[c] = IF counts /\ few # 0 THEN few - 1 ELSE few
        BY <2>6, <2>7, <3>1
      <4>4. G[k].calls[c] = IF counts /\ many # 0 THEN many - 1 ELSE many
        BY <2>4, <2>6, <2>7, <3>1, <4>1
      <4>. HIDE DEF few, many, counts
      <4>. QED
        BY <4>2, <4>3, <4>4
    <3>2. CASE item.kind # "result" \/ item.answers # c
      <4>1. F[k].calls[c] = f.calls[c] /\ G[k].calls[c] = g.calls[c]
        BY <2>4, <2>6, <2>7, <3>2
      <4>. QED
        BY <2>5, <4>1
    <3>. QED
      BY <3>1, <3>2
  <2>. QED
    BY <2>1, <2>8, <2>9
<1>. QED
  <2>1. \A k \in 0..n : k \in S
    <3>. HIDE DEF S, n
    <3>. QED
      BY <1>1, <1>2, <1>3, InductionTo
  <2>. QED
    BY <2>1

\* An item that is sent, and stands unchanged in a list that has no fewer of any call it
\* names, is sent from that too.
LEMMA SentStays ==
  ASSUME NEW items \in Seq(Item), NEW other \in Seq(Item),
         NEW k \in DOMAIN items, k \in DOMAIN other, other[k] = items[k],
         items[k].id \in Carrying(items),
         \A j \in DOMAIN items : items[j].id = items[k].id => j = k,
         \A c \in NamedCalls(items[k]) : AsMany(items, other, c)
  PROVE  items[k].id \in Carrying(other)
<1>. DEFINE n == Len(items)
            item == items[k]
<1>1. PICK F : Building(items, F)
  BY BuildingIs
<1>2. PICK G : Building(other, G)
  BY BuildingIs
<1>3. k \in SentTo(items, F, n)
  BY <1>1, CarryingIs DEF SentTo
<1>4. IsSent(F[k - 1], item)
  BY <1>3 DEF SentTo
<1>5. k \in 1..n /\ k - 1 \in 0..n /\ k \in 1..Len(other) /\ k - 1 \in 0..Len(other) /\ item \in Item
  OBVIOUS
<1>6. F[k - 1] \in BuildType /\ G[k - 1] \in BuildType
  BY <1>1, <1>2, <1>5 DEF Building
<1>7. \A c \in NamedCalls(item) \cap Calls :
        F[k - 1].answers[c] <= G[k - 1].answers[c] /\ F[k - 1].calls[c] <= G[k - 1].calls[c]
  BY <1>1, <1>2, <1>5, AsManyLeft
<1>. DEFINE f == F[k - 1]
            g == G[k - 1]
<1>. HIDE DEF f, g, item
<1>8. /\ f.answers \in [Calls -> Nat] /\ f.calls \in [Calls -> Nat] /\ item.calls \in Seq(Calls)
      /\ g.answers \in [Calls -> Nat] /\ g.calls \in [Calls -> Nat]
      /\ item.kind = "result" => item.answers \in Calls
  BY <1>5, <1>6 DEF BuildType, Item, f, g
<1>9. \A c \in NamedCalls(item) \cap Calls : f.answers[c] <= g.answers[c] /\ f.calls[c] <= g.calls[c]
  BY <1>7 DEF f, g
<1>10. IsSent(g, item)
  <2>1. IsSent(f, item)
    BY <1>4 DEF f
  <2>2. ASSUME item.kind = "result", RepairOrphans PROVE g.calls[item.answers] # 0
    <3>1. item.answers \in NamedCalls(item) \cap Calls
      BY <1>5, <1>8, <2>2, NamedWhere
    <3>2. f.calls[item.answers] # 0 /\ f.calls[item.answers] <= g.calls[item.answers]
      BY <1>9, <2>1, <2>2, <3>1 DEF IsSent
    <3>3. f.calls[item.answers] \in Nat /\ g.calls[item.answers] \in Nat
      BY <1>8, <3>1
    <3>. QED
      BY <3>2, <3>3
  <2>3. ASSUME item.kind = "assistant", ClaimCalls(item.calls, f.answers).kept # <<>>
        PROVE  ClaimCalls(item.calls, g.answers).kept # <<>>
    <3>1. CASE ~RepairOrphans
      BY <1>8, <2>3, <3>1, ClaimKept, SMTT(30)
    <3>2. CASE RepairOrphans
      <4>0. /\ ClaimCalls(item.calls, f.answers).kept = <<>> <=> \A j \in DOMAIN item.calls : f.answers[item.calls[j]] = 0
            /\ ClaimCalls(item.calls, g.answers).kept = <<>> <=> \A j \in DOMAIN item.calls : g.answers[item.calls[j]] = 0
        BY <1>8, <3>2, ClaimKept
      <4>1. PICK j \in DOMAIN item.calls : f.answers[item.calls[j]] # 0
        BY <2>3, <4>0
      <4>. DEFINE c == item.calls[j]
      <4>2. c \in Calls /\ c \in ToSet(item.calls)
        BY <1>8 DEF ToSet
      <4>3. c \in NamedCalls(item) \cap Calls
        BY <1>5, <2>3, <4>2, NamedWhere
      <4>4. f.answers[c] \in Nat /\ g.answers[c] \in Nat /\ f.answers[c] <= g.answers[c]
        BY <1>8, <1>9, <4>2, <4>3
      <4>5. g.answers[c] # 0
        BY <4>1, <4>4
      <4>. QED
        BY <4>0, <4>5
    <3>. QED
      BY <3>1, <3>2
  <2>. QED
    BY <2>1, <2>2, <2>3 DEF IsSent
<1>11. k \in SentTo(other, G, Len(other))
  BY <1>5, <1>10 DEF SentTo, g, item
<1>. QED
  BY <1>2, <1>11, CarryingIs
=============================================================================
