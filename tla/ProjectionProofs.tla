-------------------------- MODULE ProjectionProofs --------------------------
(***************************************************************************)
(* What the projector promises of every list of items: MCProjection's      *)
(* invariants, of lists of any length, over any calls, of items in any     *)
(* state.  The folds of the projector are unrolled in ContextProofs.       *)
(*                                                                         *)
(* The pairing holds because of how many there are: `Build` leaves as many *)
(* results of a call as places that make it (Whole), so a turn that        *)
(* `WireOrder` places always finds an answer to each of its calls that no  *)
(* turn before it has taken (Arranged).                                    *)
(***************************************************************************)
EXTENDS MCProjection, ContextProofs

---------------------------------------------------------------------------
(* Counting. *)

\* A list one longer has one more of what was put at its end.
LEMMA CountLonger ==
  ASSUME NEW T, NEW s \in Seq(T), NEW x \in T, NEW c
  PROVE  /\ CountIn(s, c) \in Nat /\ CountIn(<<>>, c) = 0
         /\ CountIn(Append(s, x), c) = IF x = c THEN CountIn(s, c) + 1 ELSE CountIn(s, c)
<1>. DEFINE n == Len(s)
            places == {k \in DOMAIN s : s[k] = c}
            more == {k \in DOMAIN Append(s, x) : Append(s, x)[k] = c}
<1>1. n \in Nat /\ DOMAIN s = 1..n /\ DOMAIN Append(s, x) = 1..(n + 1)
  OBVIOUS
<1>2. IsFiniteSet(places) /\ Cardinality(places) \in Nat
  <2>1. IsFiniteSet(1..n) /\ places \in SUBSET (1..n)
    BY <1>1, FS_Interval
  <2>. HIDE DEF places, n
  <2>. QED
    BY <2>1, FS_Subset, FS_CardinalityType
<1>3. more = IF x = c THEN places \cup {n + 1} ELSE places
  BY <1>1
<1>4. n + 1 \notin places
  BY <1>1
<1>5. CountIn(s, c) = Cardinality(places) /\ CountIn(Append(s, x), c) = Cardinality(more)
  BY DEF CountIn
<1>6. CountIn(<<>>, c) = 0
  <2>1. {k \in DOMAIN <<>> : <<>>[k] = c} = {}
    OBVIOUS
  <2>. QED
    BY <2>1, FS_EmptySet DEF CountIn
<1>. HIDE DEF places, more, n
<1>7. Cardinality(more) = IF x = c THEN Cardinality(places) + 1 ELSE Cardinality(places)
  <2>1. Cardinality(places \cup {n + 1}) = Cardinality(places) + 1
    BY <1>2, <1>4, FS_AddElement
  <2>. QED
    BY <1>3, <2>1
<1>. QED
  BY <1>2, <1>5, <1>6, <1>7

\* Nothing is made by no calls.
LEMMA CountNone ==
  ASSUME NEW c
  PROVE  CountIn(<<>>, c) = 0
<1>1. {k \in DOMAIN <<>> : <<>>[k] = c} = {}
  OBVIOUS
<1>. QED
  BY <1>1, FS_EmptySet DEF CountIn

\* The first k of a list are the first k - 1 and the k-th.
LEMMA FirstOnes ==
  ASSUME NEW T, NEW s \in Seq(T)
  PROVE  /\ SubSeq(s, 1, 0) = <<>> /\ SubSeq(s, 1, Len(s)) = s
         /\ \A k \in 0..Len(s) : /\ SubSeq(s, 1, k) \in Seq(T) /\ Len(SubSeq(s, 1, k)) = k
                                 /\ \A j \in 1..k : SubSeq(s, 1, k)[j] = s[j]
         /\ \A k \in 1..Len(s) : SubSeq(s, 1, k) = Append(SubSeq(s, 1, k - 1), s[k])
<1>1. Len(s) \in Nat
  OBVIOUS
<1>2. ASSUME NEW k \in 0..Len(s)
      PROVE  /\ SubSeq(s, 1, k) \in Seq(T) /\ Len(SubSeq(s, 1, k)) = k
             /\ DOMAIN SubSeq(s, 1, k) = 1..k /\ \A j \in 1..k : SubSeq(s, 1, k)[j] = s[j]
  OBVIOUS
<1>3. ASSUME NEW k \in 1..Len(s) PROVE SubSeq(s, 1, k) = Append(SubSeq(s, 1, k - 1), s[k])
  <2>. DEFINE few == SubSeq(s, 1, k - 1)
              more == SubSeq(s, 1, k)
  <2>1. k \in 0..Len(s) /\ k - 1 \in 0..Len(s) /\ s[k] \in T
    BY <1>1
  <2>2. few \in Seq(T) /\ Len(few) = k - 1 /\ \A j \in 1..(k - 1) : few[j] = s[j]
    BY <1>2, <2>1
  <2>3. more \in Seq(T) /\ Len(more) = k /\ \A j \in 1..k : more[j] = s[j]
    BY <1>2, <2>1
  <2>. HIDE DEF few, more
  <2>4. Append(few, s[k]) \in Seq(T) /\ Len(Append(few, s[k])) = k
    BY <1>1, <2>1, <2>2
  <2>5. ASSUME NEW j \in 1..k PROVE Append(few, s[k])[j] = more[j]
    BY <1>1, <2>1, <2>2, <2>3
  <2>6. more = Append(few, s[k])
    BY <2>3, <2>4, <2>5
  <2>. QED
    BY <2>6 DEF few, more
<1>4. SubSeq(s, 1, 0) = <<>>
  BY <1>1, <1>2
<1>5. SubSeq(s, 1, Len(s)) = s
  BY <1>1, <1>2
<1>. QED
  BY <1>2, <1>3, <1>4, <1>5

\* The first k of a list have one more of c than the first k - 1 if the k-th is c.
LEMMA CountFirstOne ==
  ASSUME NEW T, NEW s \in Seq(T), NEW c, NEW k \in 1..Len(s)
  PROVE  CountIn(SubSeq(s, 1, k), c) = IF s[k] = c THEN CountIn(SubSeq(s, 1, k - 1), c) + 1
                                       ELSE CountIn(SubSeq(s, 1, k - 1), c)
<1>. DEFINE few == SubSeq(s, 1, k - 1)
<1>1. k - 1 \in 0..Len(s) /\ s[k] \in T
  OBVIOUS
<1>2. SubSeq(s, 1, k) = Append(few, s[k]) /\ few \in Seq(T)
  BY <1>1, FirstOnes
<1>. HIDE DEF few
<1>3. CountIn(Append(few, s[k]), c) = IF s[k] = c THEN CountIn(few, c) + 1 ELSE CountIn(few, c)
  BY <1>1, <1>2, CountLonger
<1>. QED
  BY <1>2, <1>3 DEF few

\* The first k of a list never have more of c than the whole.
LEMMA CountFirst ==
  ASSUME NEW T, NEW s \in Seq(T), NEW c
  PROVE  /\ CountIn(SubSeq(s, 1, 0), c) = 0 /\ CountIn(SubSeq(s, 1, Len(s)), c) = CountIn(s, c)
         /\ \A k \in 0..Len(s) : CountIn(SubSeq(s, 1, k), c) \in Nat
         /\ \A k \in 0..Len(s) : CountIn(SubSeq(s, 1, k), c) <= CountIn(s, c)
<1>1. Len(s) \in Nat /\ DOMAIN s = 1..Len(s)
  OBVIOUS
<1>2. ASSUME NEW k \in 0..Len(s)
      PROVE  CountIn(SubSeq(s, 1, k), c) \in Nat /\ CountIn(SubSeq(s, 1, k), c) <= CountIn(s, c)
  <2>. DEFINE few == SubSeq(s, 1, k)
              part == {j \in DOMAIN few : few[j] = c}
              all == {j \in DOMAIN s : s[j] = c}
  <2>1. few \in Seq(T) /\ Len(few) = k /\ \A j \in 1..k : few[j] = s[j]
    BY FirstOnes
  <2>. HIDE DEF few
  <2>2. part \subseteq all
    BY <1>1, <2>1
  <2>3. IsFiniteSet(all)
    <3>1. IsFiniteSet(1..Len(s)) /\ all \in SUBSET (1..Len(s))
      BY <1>1, FS_Interval
    <3>. HIDE DEF all
    <3>. QED
      BY <3>1, FS_Subset
  <2>4. Cardinality(part) \in Nat /\ Cardinality(part) <= Cardinality(all)
    <3>. HIDE DEF part, all
    <3>. QED
      BY <2>2, <2>3, FS_Subset, FS_CardinalityType
  <2>. QED
    BY <2>4 DEF CountIn, few
<1>3. CountIn(SubSeq(s, 1, 0), c) = 0
  <2>1. SubSeq(s, 1, 0) = <<>>
    BY FirstOnes
  <2>2. {k \in DOMAIN <<>> : <<>>[k] = c} = {}
    OBVIOUS
  <2>. QED
    BY <2>1, <2>2, FS_EmptySet DEF CountIn
<1>4. CountIn(SubSeq(s, 1, Len(s)), c) = CountIn(s, c)
  BY FirstOnes
<1>. QED
  BY <1>2, <1>3, <1>4

\* The places of one message, and of the first k, at which a call is made; and the
\* messages that answer it.
SlotsAt(built, c, p) == {p} \X {j \in DOMAIN built[p].calls : built[p].calls[j] = c}
Slots(built, c, k) == UNION {SlotsAt(built, c, p) : p \in 1..k}
Slotted(built, c, k) == Cardinality(Slots(built, c, k))
Results(built, c) == {p \in DOMAIN built : built[p].answers = c}

\* A message makes a call at as many places as it names it.
LEMMA SlotsCounted ==
  ASSUME NEW built \in Seq(MessageType), NEW c, NEW p \in DOMAIN built
  PROVE  /\ IsFiniteSet(SlotsAt(built, c, p)) /\ CountIn(built[p].calls, c) \in Nat
         /\ Cardinality(SlotsAt(built, c, p)) = CountIn(built[p].calls, c)
<1>. DEFINE calls == built[p].calls
            places == {j \in DOMAIN calls : calls[j] = c}
<1>1. calls \in Seq(Calls)
  <2>1. built[p] \in MessageType
    OBVIOUS
  <2>. QED
    BY <2>1 DEF MessageType
<1>2. IsFiniteSet(1..Len(calls)) /\ places \in SUBSET (1..Len(calls))
  <2>. HIDE DEF calls
  <2>. QED
    BY <1>1, FS_Interval
<1>. HIDE DEF places
<1>3. IsFiniteSet(places) /\ Cardinality(places) \in Nat
  BY <1>2, FS_Subset, FS_CardinalityType
<1>4. /\ IsFiniteSet({p} \X places)
      /\ Cardinality({p} \X places) = Cardinality({p}) * Cardinality(places)
  <2>1. IsFiniteSet({p})
    BY FS_Singleton
  <2>. QED
    BY <1>3, <2>1, FS_Product
<1>5. Cardinality({p}) = 1
  BY FS_Singleton
<1>6. Cardinality({p} \X places) = Cardinality(places)
  <2>1. 1 * Cardinality(places) = Cardinality(places)
    BY <1>3
  <2>. QED
    BY <1>4, <1>5, <2>1
<1>7. SlotsAt(built, c, p) = {p} \X places /\ CountIn(built[p].calls, c) = Cardinality(places)
  BY DEF SlotsAt, CountIn, places
<1>. QED
  BY <1>3, <1>4, <1>6, <1>7

\* The first k messages make a call as often as the first k - 1 and the k-th.
LEMMA SlotsGrow ==
  ASSUME NEW built \in Seq(MessageType), NEW c
  PROVE  /\ Slotted(built, c, 0) = 0
         /\ \A k \in 0..Len(built) : IsFiniteSet(Slots(built, c, k)) /\ Slotted(built, c, k) \in Nat
         /\ \A k \in 1..Len(built) :
              Slotted(built, c, k) = Slotted(built, c, k - 1) + CountIn(built[k].calls, c)
         /\ \A k \in 0..Len(built) : Slotted(built, c, k) <= Slotted(built, c, Len(built))
<1>. DEFINE n == Len(built)
            Upto(k) == Slots(built, c, k)
            At(k) == SlotsAt(built, c, k)
            S == {k \in 0..n : IsFiniteSet(Upto(k))}
<1>1. n \in Nat /\ DOMAIN built = 1..n
  OBVIOUS
<1>2. Upto(0) = {}
  BY DEF Slots
<1>3. ASSUME NEW k \in 1..n
      PROVE  /\ Upto(k) = Upto(k - 1) \cup At(k) /\ Upto(k - 1) \cap At(k) = {}
             /\ IsFiniteSet(At(k)) /\ Cardinality(At(k)) = CountIn(built[k].calls, c)
             /\ CountIn(built[k].calls, c) \in Nat
  <2>1. 1..k = (1..(k - 1)) \cup {k} /\ k \notin 1..(k - 1)
    OBVIOUS
  <2>2. Upto(k) = Upto(k - 1) \cup At(k)
    BY <2>1 DEF Slots
  <2>3. \A p : \A s \in SlotsAt(built, c, p) : s[1] = p
    BY DEF SlotsAt
  <2>4. Upto(k - 1) \cap At(k) = {}
    BY <2>1, <2>3 DEF Slots
  <2>. QED
    BY <1>1, <2>2, <2>4, SlotsCounted
<1>4. 0 \in S
  <2>1. 0 \in 0..n
    BY <1>1
  <2>2. IsFiniteSet({})
    BY FS_EmptySet
  <2>. HIDE DEF Upto
  <2>. QED
    BY <1>2, <2>1, <2>2
<1>5. ASSUME NEW k \in 1..n, k - 1 \in S PROVE k \in S
  <2>1. IsFiniteSet(Upto(k - 1)) /\ k \in 0..n
    BY <1>5
  <2>. HIDE DEF Upto, At
  <2>2. IsFiniteSet(Upto(k - 1) \cup At(k))
    BY <1>3, <2>1, FS_Union
  <2>. QED
    BY <1>3, <2>1, <2>2
<1>6. \A k \in 0..n : k \in S
  <2>. HIDE DEF S, n
  <2>. QED
    BY <1>1, <1>4, <1>5, InductionTo
<1>7. ASSUME NEW k \in 0..n
      PROVE  IsFiniteSet(Slots(built, c, k)) /\ Slotted(built, c, k) \in Nat
  BY <1>6, FS_CardinalityType DEF Slotted
<1>8. ASSUME NEW k \in 1..n
      PROVE  Slotted(built, c, k) = Slotted(built, c, k - 1) + CountIn(built[k].calls, c)
  <2>1. k - 1 \in 0..n
    OBVIOUS
  <2>2. IsFiniteSet(Upto(k - 1)) /\ IsFiniteSet(At(k)) /\ Slotted(built, c, k - 1) \in Nat
    BY <1>3, <1>7, <2>1
  <2>. HIDE DEF Upto, At
  <2>3. Cardinality(Upto(k - 1) \cup At(k))
          = Cardinality(Upto(k - 1)) + Cardinality(At(k)) - Cardinality({})
    BY <1>3, <2>2, FS_Union
  <2>4. Cardinality({}) = 0
    BY FS_EmptySet
  <2>5. Slotted(built, c, k) = Cardinality(Upto(k)) /\ Slotted(built, c, k - 1) = Cardinality(Upto(k - 1))
    BY DEF Slotted, Upto
  <2>. DEFINE old == Slotted(built, c, k - 1)
              new == CountIn(built[k].calls, c)
  <2>6. Slotted(built, c, k) = old + new - 0 /\ old \in Nat /\ new \in Nat
    BY <1>3, <2>2, <2>3, <2>4, <2>5
  <2>. HIDE DEF old, new
  <2>7. Slotted(built, c, k) = old + new
    BY <2>6
  <2>. QED
    BY <2>7 DEF old, new
<1>9. ASSUME NEW k \in 0..n PROVE Slotted(built, c, k) <= Slotted(built, c, n)
  <2>1. 1..k \subseteq 1..n /\ n \in 0..n
    BY <1>1
  <2>2. Upto(k) \subseteq Upto(n)
    BY <2>1 DEF Slots
  <2>3. IsFiniteSet(Upto(n))
    BY <1>7, <2>1
  <2>. HIDE DEF Upto
  <2>4. Cardinality(Upto(k)) <= Cardinality(Upto(n))
    BY <2>2, <2>3, FS_Subset
  <2>. QED
    BY <2>4 DEF Slotted, Upto
<1>10. Slotted(built, c, 0) = 0
  BY <1>2, FS_EmptySet DEF Slotted
<1>. QED
  BY <1>7, <1>8, <1>9, <1>10

\* A message more makes the calls it makes and answers the call it answers.
LEMMA OneMessageMore ==
  ASSUME NEW built \in Seq(MessageType), NEW new \in MessageType, NEW c
  PROVE  LET more == Append(built, new)
         IN  /\ Slotted(more, c, Len(more)) = Slotted(built, c, Len(built)) + CountIn(new.calls, c)
             /\ Cardinality(Results(more, c)) = IF new.answers = c THEN Cardinality(Results(built, c)) + 1
                                                ELSE Cardinality(Results(built, c))
             /\ Cardinality(Results(built, c)) \in Nat /\ CountIn(new.calls, c) \in Nat
             /\ Slotted(built, c, Len(built)) \in Nat
<1>. DEFINE more == Append(built, new)
            n == Len(built)
<1>1. /\ more \in Seq(MessageType) /\ n \in Nat /\ Len(more) = n + 1 /\ more[n + 1] = new
      /\ \A k \in 1..n : more[k] = built[k]
      /\ DOMAIN built = 1..n /\ DOMAIN more = (1..n) \cup {n + 1} /\ n + 1 \notin 1..n
  OBVIOUS
<1>. HIDE DEF more
<1>2. \A k \in 1..n : SlotsAt(more, c, k) = SlotsAt(built, c, k)
  BY <1>1 DEF SlotsAt
<1>3. Slots(more, c, n) = Slots(built, c, n)
  BY <1>2 DEF Slots
<1>4. n + 1 \in 1..Len(more) /\ (n + 1) - 1 = n /\ n \in 0..Len(built)
  BY <1>1
<1>5. Slotted(more, c, n + 1) = Slotted(more, c, n) + CountIn(more[n + 1].calls, c)
  <2>1. Slotted(more, c, n + 1) = Slotted(more, c, (n + 1) - 1) + CountIn(more[n + 1].calls, c)
    BY <1>1, <1>4, SlotsGrow
  <2>. QED
    BY <1>4, <2>1
<1>6. Slotted(more, c, Len(more)) = Slotted(built, c, n) + CountIn(new.calls, c)
  BY <1>1, <1>3, <1>5 DEF Slotted
<1>7. Slotted(built, c, n) \in Nat /\ CountIn(new.calls, c) \in Nat
  <2>1. Slotted(built, c, n) \in Nat
    BY <1>4, SlotsGrow
  <2>2. new.calls \in Seq(Calls)
    BY DEF MessageType
  <2>3. {k \in DOMAIN new.calls : new.calls[k] = c} \in SUBSET (1..Len(new.calls))
        /\ IsFiniteSet(1..Len(new.calls))
    BY <2>2, FS_Interval
  <2>4. Cardinality({k \in DOMAIN new.calls : new.calls[k] = c}) \in Nat
    BY <2>3, FS_Subset, FS_CardinalityType
  <2>. QED
    BY <2>1, <2>4 DEF CountIn
<1>8. IsFiniteSet(Results(built, c)) /\ Cardinality(Results(built, c)) \in Nat
  <2>1. Results(built, c) \in SUBSET (1..n) /\ IsFiniteSet(1..n)
    BY <1>1, FS_Interval DEF Results
  <2>. QED
    BY <2>1, FS_Subset, FS_CardinalityType
<1>9. Results(more, c) = IF new.answers = c THEN Results(built, c) \cup {n + 1} ELSE Results(built, c)
  BY <1>1 DEF Results
<1>10. n + 1 \notin Results(built, c)
  BY <1>1 DEF Results
<1>11. Cardinality(Results(built, c) \cup {n + 1}) = Cardinality(Results(built, c)) + 1
  BY <1>8, <1>10, FS_AddElement
<1>12. Cardinality(Results(more, c)) = IF new.answers = c THEN Cardinality(Results(built, c)) + 1
                                       ELSE Cardinality(Results(built, c))
  BY <1>9, <1>11
<1>. QED
  BY <1>6, <1>7, <1>8, <1>12 DEF more

---------------------------------------------------------------------------
(* What build leaves of every call.                                        *)

\* What is left of so many when others take theirs first.
Beyond(many, taken) == IF taken <= many THEN many - taken ELSE 0

\* With repair, a turn keeps as many of a call as it makes or as there are left,
\* whichever is less, and leaves the others.
LEMMA ClaimCounts ==
  ASSUME RepairOrphans, NEW calls \in Seq(Calls), NEW left \in [Calls -> Nat], NEW c \in Calls
  PROVE  LET turn == ClaimCalls(calls, left)
         IN  /\ CountIn(turn.kept, c) + turn.left[c] = left[c]
             /\ turn.left[c] = Beyond(left[c], CountIn(calls, c))
             /\ CountIn(turn.kept, c) \in Nat /\ turn.left[c] \in Nat /\ CountIn(calls, c) \in Nat
<1>. DEFINE n == Len(calls)
            made(k) == CountIn(SubSeq(calls, 1, k), c)
<1>1. PICK F \in [0..n -> ClaimType] :
        /\ F[0] = [kept |-> <<>>, left |-> left]
        /\ \A k \in 1..n : F[k] = ClaimOne(F[k - 1], calls[k])
        /\ ClaimCalls(calls, left) = F[n]
  BY ClaimUnrolled
<1>2. n \in Nat /\ left[c] \in Nat
  OBVIOUS
<1>. DEFINE Holds(k) == /\ CountIn(F[k].kept, c) + F[k].left[c] = left[c]
                        /\ F[k].left[c] = Beyond(left[c], made(k))
            S == {k \in 0..n : Holds(k)}
<1>3. ASSUME NEW k \in 0..n
      PROVE  F[k].kept \in Seq(Calls) /\ F[k].left \in [Calls -> Nat] /\ F[k].left[c] \in Nat
             /\ CountIn(F[k].kept, c) \in Nat /\ made(k) \in Nat
  <2>1. F[k] \in ClaimType
    OBVIOUS
  <2>2. F[k].kept \in Seq(Calls) /\ F[k].left \in [Calls -> Nat]
    BY <2>1 DEF ClaimType
  <2>3. CountIn(F[k].kept, c) \in Nat
    BY <2>2, CountLonger
  <2>4. made(k) \in Nat
    BY CountFirst
  <2>. HIDE DEF made
  <2>. QED
    BY <2>2, <2>3, <2>4
<1>4. 0 \in S
  <2>1. F[0].kept = <<>> /\ F[0].left = left
    BY <1>1
  <2>2. CountIn(<<>>, c) = 0 /\ made(0) = 0 /\ <<>> \in Seq(Calls)
    <3>1. CountIn(<<>>, c) = 0
      BY CountLonger
    <3>2. made(0) = 0
      BY CountFirst
    <3>. QED
      BY <3>1, <3>2
  <2>. HIDE DEF made
  <2>3. Holds(0)
    BY <1>2, <2>1, <2>2 DEF Beyond
  <2>. QED
    BY <1>2, <2>3
<1>5. ASSUME NEW k \in 1..n, k - 1 \in S PROVE k \in S
  <2>. DEFINE f == F[k - 1]
              d == calls[k]
              kept == f.kept
              rest == f.left
  <2>1. k - 1 \in 0..n /\ k \in 0..n /\ d \in Calls /\ Holds(k - 1)
    BY <1>5
  <2>2. kept \in Seq(Calls) /\ rest \in [Calls -> Nat] /\ rest[c] \in Nat /\ rest[d] \in Nat
        /\ CountIn(kept, c) \in Nat /\ made(k - 1) \in Nat /\ made(k) \in Nat
    BY <1>3, <2>1
  <2>3. made(k) = IF d = c THEN made(k - 1) + 1 ELSE made(k - 1)
    BY CountFirstOne
  <2>4. CountIn(kept, c) + rest[c] = left[c] /\ rest[c] = Beyond(left[c], made(k - 1))
    BY <2>1
  <2>5. F[k] = IF rest[d] = 0 THEN f
               ELSE [kept |-> Append(kept, d), left |-> [rest EXCEPT ![d] = @ - 1]]
    BY <1>1 DEF ClaimOne
  <2>6. CountIn(Append(kept, d), c) = IF d = c THEN CountIn(kept, c) + 1 ELSE CountIn(kept, c)
    <3>. HIDE DEF kept, d
    <3>. QED
      BY <2>1, <2>2, CountLonger
  <2>7. [rest EXCEPT ![d] = @ - 1][c] = IF d = c THEN rest[c] - 1 ELSE rest[c]
    BY <2>1, <2>2
  <2>8. CASE rest[d] = 0
    <3>1. F[k].kept = kept /\ F[k].left = rest
      BY <2>5, <2>8
    <3>2. rest[c] = Beyond(left[c], made(k))
      <4>. DEFINE L == left[c]
                  R == rest[c]
                  old == made(k - 1)
                  new == made(k)
      <4>1. R = Beyond(L, old) /\ L \in Nat /\ R \in Nat /\ old \in Nat /\ new \in Nat
            /\ (new = old \/ (new = old + 1 /\ R = 0))
        BY <1>2, <2>2, <2>3, <2>4, <2>8
      <4>. HIDE DEF L, R, old, new
      <4>2. R = Beyond(L, new)
        BY <4>1 DEF Beyond
      <4>. QED
        BY <4>2 DEF L, R, new
    <3>. HIDE DEF made, kept, rest, d
    <3>3. Holds(k)
      BY <2>4, <3>1, <3>2
    <3>. QED
      BY <2>1, <3>3
  <2>9. CASE rest[d] # 0
    <3>1. F[k].kept = Append(kept, d) /\ F[k].left = [rest EXCEPT ![d] = @ - 1]
      BY <2>5, <2>9
    <3>. DEFINE more == CountIn(Append(kept, d), c)
                less == [rest EXCEPT ![d] = @ - 1][c]
    <3>2. CountIn(F[k].kept, c) = more /\ F[k].left[c] = less
      BY <3>1
    <3>3. /\ more = IF d = c THEN CountIn(kept, c) + 1 ELSE CountIn(kept, c)
          /\ less = IF d = c THEN rest[c] - 1 ELSE rest[c]
      BY <2>6, <2>7
    <3>4. more + less = left[c] /\ less = Beyond(left[c], made(k))
      <4>. DEFINE L == left[c]
                  R == rest[c]
                  K == CountIn(kept, c)
                  old == made(k - 1)
                  new == made(k)
      <4>1. /\ R = Beyond(L, old) /\ K + R = L /\ L \in Nat /\ R \in Nat /\ K \in Nat
            /\ old \in Nat /\ new \in Nat
            /\ \/ new = old /\ more = K /\ less = R
               \/ new = old + 1 /\ more = K + 1 /\ less = R - 1 /\ R # 0
        BY <1>2, <2>2, <2>3, <2>4, <2>9, <3>3
      <4>. HIDE DEF L, R, K, old, new, more, less
      <4>2. more + less = L /\ less = Beyond(L, new)
        <5>1. CASE new = old /\ more = K /\ less = R
          BY <4>1, <5>1
        <5>2. CASE new = old + 1 /\ more = K + 1 /\ less = R - 1 /\ R # 0
          <6>1. old <= L /\ R = L - old
            BY <4>1, <5>2 DEF Beyond
          <6>2. new <= L /\ less = L - new /\ more + less = L
            BY <4>1, <5>2, <6>1
          <6>. QED
            BY <6>2 DEF Beyond
        <5>. QED
          BY <4>1, <5>1, <5>2
      <4>. QED
        BY <4>2 DEF L, new
    <3>. HIDE DEF made, kept, rest, d, more, less
    <3>5. Holds(k)
      BY <3>2, <3>4
    <3>. QED
      BY <2>1, <3>5
  <2>. QED
    BY <2>8, <2>9
<1>6. \A k \in 0..n : k \in S
  <2>. HIDE DEF S, n
  <2>. QED
    BY <1>2, <1>4, <1>5, InductionTo
<1>7. Holds(n) /\ n \in 0..n
  BY <1>2, <1>6
<1>8. made(n) = CountIn(calls, c)
  BY CountFirst
<1>. HIDE DEF made
<1>. QED
  BY <1>1, <1>3, <1>7, <1>8


\* Taking twice is taking both at once; taking nothing leaves all.
LEMMA BeyondTwice ==
  ASSUME NEW A \in Nat, NEW x \in Nat, NEW y \in Nat
  PROVE  /\ Beyond(A, 0) = A /\ Beyond(A, x) \in Nat
         /\ Beyond(Beyond(A, x), y) = Beyond(A, x + y)
  BY DEF Beyond

\* How often an item takes part in a call, as a turn that makes it and as its result.
MakesOf(item, c) ==
  IF IsProjected(item.state) /\ item.kind = "assistant" THEN CountIn(item.calls, c) ELSE 0
ComesFor(item, c) ==
  IF IsProjected(item.state) /\ item.kind = "result" /\ item.answers = c THEN 1 ELSE 0

\* What one item of build takes of the counts, it writes.
LEMMA BuildEffect ==
  ASSUME RepairOrphans, NEW acc \in BuildType, NEW item \in Item, NEW c \in Calls
  PROVE  LET after == BuildItem(acc, item)
             old == acc.built
             new == after.built
         IN  /\ after.answers[c] = Beyond(acc.answers[c], MakesOf(item, c))
             /\ after.calls[c] = Beyond(acc.calls[c], ComesFor(item, c))
             /\ Slotted(new, c, Len(new)) + after.answers[c] = Slotted(old, c, Len(old)) + acc.answers[c]
             /\ Cardinality(Results(new, c)) + after.calls[c] = Cardinality(Results(old, c)) + acc.calls[c]
             /\ MakesOf(item, c) \in Nat /\ ComesFor(item, c) \in Nat
<1>. DEFINE after == BuildItem(acc, item)
            old == acc.built
            written == WrittenFor(acc, item)
            turn == ClaimCalls(item.calls, acc.answers)
            slots(b) == Slotted(b, c, Len(b))
            results(b) == Cardinality(Results(b, c))
<1>1. /\ acc.answers \in [Calls -> Nat] /\ acc.calls \in [Calls -> Nat] /\ old \in Seq(MessageType)
      /\ acc.answers[c] \in Nat /\ acc.calls[c] \in Nat
  BY DEF BuildType
<1>2. /\ item.calls \in Seq(Calls) /\ item.kind \in Kinds
      /\ item.kind = "result" => item.answers \in Calls
  BY DEF Item
<1>3. written \in MessageType
  BY WrittenTyped
<1>4. /\ written.calls = IF item.kind = "assistant" THEN turn.kept ELSE <<>>
      /\ written.answers = IF item.kind = "result" THEN item.answers ELSE NoCall
  BY DEF WrittenFor, Message
<1>5. /\ slots(Append(old, written)) = slots(old) + CountIn(written.calls, c)
      /\ results(Append(old, written)) = IF written.answers = c THEN results(old) + 1 ELSE results(old)
      /\ results(old) \in Nat /\ CountIn(written.calls, c) \in Nat /\ slots(old) \in Nat
  <2>. HIDE DEF written, old
  <2>. QED
    BY <1>1, <1>3, OneMessageMore
<1>6. /\ IsSent(acc, item) => after.built = Append(old, written)
      /\ ~IsSent(acc, item) => after.built = old
  BY BuildStep
<1>7. /\ after.answers = IF IsProjected(item.state) /\ item.kind = "assistant" THEN turn.left ELSE acc.answers
      /\ after.calls = IF /\ IsProjected(item.state) /\ item.kind = "result"
                          /\ RepairOrphans /\ acc.calls[item.answers] # 0
                       THEN [acc.calls EXCEPT ![item.answers] = @ - 1] ELSE acc.calls
  BY BuildCounts
<1>8. /\ CountIn(turn.kept, c) + turn.left[c] = acc.answers[c]
      /\ turn.left[c] = Beyond(acc.answers[c], CountIn(item.calls, c))
      /\ CountIn(turn.kept, c) \in Nat /\ turn.left[c] \in Nat /\ CountIn(item.calls, c) \in Nat
  BY <1>1, <1>2, ClaimCounts
<1>9. CountIn(<<>>, c) = 0
  BY CountNone
<1>10. MakesOf(item, c) \in Nat /\ ComesFor(item, c) \in Nat
  BY <1>8 DEF MakesOf, ComesFor
<1>11. Beyond(acc.answers[c], 0) = acc.answers[c] /\ Beyond(acc.calls[c], 0) = acc.calls[c]
  BY <1>1, BeyondTwice
<1>12. NoCall \notin Calls
  BY ProjectionAssumption
<1>. DEFINE Goal == /\ after.answers[c] = Beyond(acc.answers[c], MakesOf(item, c))
                    /\ after.calls[c] = Beyond(acc.calls[c], ComesFor(item, c))
                    /\ slots(after.built) + after.answers[c] = slots(old) + acc.answers[c]
                    /\ results(after.built) + after.calls[c] = results(old) + acc.calls[c]
<1>. HIDE DEF after, old, written, turn, slots, results
<1>13. CASE ~IsProjected(item.state)
  <2>1. after.built = old /\ MakesOf(item, c) = 0 /\ ComesFor(item, c) = 0
    BY <1>6, <1>13 DEF IsSent, MakesOf, ComesFor
  <2>2. Goal
    BY <1>7, <1>11, <1>13, <2>1
  <2>. QED
    BY <1>10, <2>2 DEF after, old, slots, results
<1>14. CASE IsProjected(item.state) /\ item.kind = "plain"
  <2>1. after.built = Append(old, written) /\ MakesOf(item, c) = 0 /\ ComesFor(item, c) = 0
    BY <1>6, <1>14 DEF IsSent, MakesOf, ComesFor
  <2>2. written.calls = <<>> /\ written.answers # c
    BY <1>4, <1>12, <1>14
  <2>3. slots(after.built) = slots(old) /\ results(after.built) = results(old)
    BY <1>5, <1>9, <2>1, <2>2
  <2>4. Goal
    BY <1>7, <1>11, <1>14, <2>1, <2>3
  <2>. QED
    BY <1>10, <2>4 DEF after, old, slots, results
<1>15. CASE IsProjected(item.state) /\ item.kind = "assistant"
  <2>1. /\ MakesOf(item, c) = CountIn(item.calls, c) /\ ComesFor(item, c) = 0
        /\ after.answers = turn.left /\ after.calls = acc.calls
    BY <1>7, <1>15 DEF MakesOf, ComesFor
  <2>2. written.calls = turn.kept /\ written.answers # c
    BY <1>4, <1>12, <1>15
  <2>3. slots(after.built) = slots(old) + CountIn(turn.kept, c) /\ results(after.built) = results(old)
    <3>1. CASE IsSent(acc, item)
      BY <1>5, <1>6, <2>2, <3>1
    <3>2. CASE ~IsSent(acc, item)
      <4>1. turn.kept = <<>> /\ after.built = old
        BY <1>6, <1>15, <3>2 DEF IsSent, turn
      <4>. QED
        BY <1>5, <1>9, <4>1
    <3>. QED
      BY <3>1, <3>2
  <2>4. slots(after.built) + after.answers[c] = slots(old) + acc.answers[c]
    <3>. DEFINE S == slots(old)
                K == CountIn(turn.kept, c)
                L == turn.left[c]
    <3>1. S \in Nat /\ K \in Nat /\ L \in Nat /\ K + L = acc.answers[c] /\ slots(after.built) = S + K
          /\ after.answers[c] = L
      BY <1>5, <1>8, <2>1, <2>3
    <3>. HIDE DEF S, K, L
    <3>2. slots(after.built) + after.answers[c] = S + acc.answers[c]
      BY <3>1
    <3>. QED
      BY <3>2 DEF S
  <2>5. Goal
    BY <1>8, <1>11, <2>1, <2>3, <2>4
  <2>. QED
    BY <1>10, <2>5 DEF after, old, slots, results
<1>16. CASE IsProjected(item.state) /\ item.kind = "result"
  <2>. DEFINE d == item.answers
  <2>1. d \in Calls /\ acc.calls[d] \in Nat
    BY <1>1, <1>2, <1>16
  <2>2. MakesOf(item, c) = 0 /\ ComesFor(item, c) = (IF d = c THEN 1 ELSE 0) /\ after.answers = acc.answers
    BY <1>7, <1>16 DEF MakesOf, ComesFor
  <2>3. written.calls = <<>> /\ written.answers = d
    BY <1>4, <1>16
  <2>4. IsSent(acc, item) <=> acc.calls[d] # 0
    BY <1>16 DEF IsSent
  <2>. HIDE DEF d
  <2>5. CASE acc.calls[d] = 0
    <3>1. after.built = old /\ after.calls = acc.calls
      BY <1>6, <1>7, <2>4, <2>5 DEF d
    <3>2. Beyond(acc.calls[c], ComesFor(item, c)) = acc.calls[c]
      BY <1>1, <1>11, <2>2, <2>5 DEF Beyond
    <3>3. Goal
      BY <1>11, <2>2, <3>1, <3>2
    <3>. QED
      BY <1>10, <3>3 DEF after, old, slots, results
  <2>6. CASE acc.calls[d] # 0
    <3>1. after.built = Append(old, written) /\ after.calls = [acc.calls EXCEPT ![d] = @ - 1]
      BY <1>6, <1>7, <1>16, <2>4, <2>6 DEF d
    <3>2. after.calls[c] = IF d = c THEN acc.calls[c] - 1 ELSE acc.calls[c]
      BY <1>1, <2>1, <3>1
    <3>3. Beyond(acc.calls[c], ComesFor(item, c)) = after.calls[c]
      BY <1>1, <1>11, <2>2, <2>6, <3>2 DEF Beyond
    <3>4. slots(after.built) = slots(old)
      BY <1>5, <1>9, <2>3, <3>1
    <3>5. results(after.built) = IF d = c THEN results(old) + 1 ELSE results(old)
      BY <1>5, <2>3, <3>1
    <3>6. results(after.built) + after.calls[c] = results(old) + acc.calls[c]
      <4>. DEFINE R == results(old)
                  C == acc.calls[c]
      <4>1. R \in Nat /\ C \in Nat
        BY <1>1, <1>5
      <4>2. \/ results(after.built) = R + 1 /\ after.calls[c] = C - 1
            \/ results(after.built) = R /\ after.calls[c] = C
        BY <3>2, <3>5
      <4>. HIDE DEF R, C
      <4>3. results(after.built) + after.calls[c] = R + C
        BY <4>1, <4>2
      <4>. QED
        BY <4>3 DEF R, C
    <3>7. Goal
      BY <1>11, <2>2, <3>3, <3>4, <3>6
    <3>. QED
      BY <1>10, <3>7 DEF after, old, slots, results
  <2>. QED
    BY <2>5, <2>6
<1>. QED
  BY <1>2, <1>13, <1>14, <1>15, <1>16 DEF Kinds

\* The results among the first m items.
AnsweringTo(list, c, m) == {k \in Answering(list, c) : k <= m}

\* An item more asks for a call as often as it makes it, and answers it if it is its result.
LEMMA CountedSoFar ==
  ASSUME NEW list \in Seq(Item), NEW c \in Calls, NEW m \in 1..Len(list)
  PROVE  /\ Cardinality(AskingTo(list, c, m)) = Cardinality(AskingTo(list, c, m - 1)) + MakesOf(list[m], c)
         /\ Cardinality(AnsweringTo(list, c, m)) = Cardinality(AnsweringTo(list, c, m - 1)) + ComesFor(list[m], c)
         /\ Cardinality(AskingTo(list, c, m - 1)) \in Nat /\ Cardinality(AnsweringTo(list, c, m - 1)) \in Nat
<1>. DEFINE before == AskingTo(list, c, m - 1)
            at == AskingAt(list, c, m)
            came == AnsweringTo(list, c, m - 1)
            item == list[m]
            calls == CallsOf(item)
            places == {j \in DOMAIN calls : calls[j] = c}
<1>1. m \in Nat /\ m - 1 \in 0..Len(list) /\ m \in DOMAIN list /\ item \in Item /\ calls \in Seq(Calls)
  BY CallsTyped
<1>2. IsFiniteSet(before) /\ Cardinality(before) \in Nat
  <2>1. IsFiniteSet(before)
    BY <1>1, AskingFinite
  <2>. HIDE DEF before
  <2>. QED
    BY <2>1, FS_CardinalityType
<1>3. AskingTo(list, c, m) = before \cup at /\ before \cap at = {} /\ IsFiniteSet(at)
  BY AskingGrows
<1>4. Cardinality(at) = MakesOf(item, c) /\ MakesOf(item, c) \in Nat
  <2>1. IsFiniteSet(places) /\ Cardinality(places) \in Nat
    <3>. HIDE DEF calls
    <3>1. Len(calls) \in Nat /\ places \in SUBSET (1..Len(calls))
      BY <1>1
    <3>2. IsFiniteSet(1..Len(calls))
      BY <3>1, FS_Interval
    <3>. HIDE DEF places
    <3>. QED
      BY <3>1, <3>2, FS_Subset, FS_CardinalityType
  <2>2. Cardinality({m} \X places) = Cardinality(places)
    <3>. HIDE DEF places
    <3>1. IsFiniteSet({m}) /\ Cardinality({m}) = 1
      BY FS_Singleton
    <3>2. Cardinality({m} \X places) = Cardinality({m}) * Cardinality(places)
      BY <2>1, <3>1, FS_Product
    <3>3. 1 * Cardinality(places) = Cardinality(places)
      BY <2>1
    <3>. QED
      BY <3>1, <3>2, <3>3
  <2>3. CountIn(calls, c) = Cardinality(places)
    BY DEF CountIn
  <2>4. CASE ~IsProjected(item.state)
    <3>1. at = {} /\ MakesOf(item, c) = 0
      BY <2>4 DEF AskingAt, Projected, MakesOf
    <3>. QED
      BY <3>1, FS_EmptySet
  <2>5. CASE IsProjected(item.state)
    <3>1. at = {m} \X places
      BY <1>1, <2>5 DEF AskingAt, Projected
    <3>2. MakesOf(item, c) = CountIn(calls, c)
      BY <2>5, CountNone DEF MakesOf, CallsOf
    <3>. QED
      BY <2>1, <2>2, <2>3, <3>1, <3>2
  <2>. QED
    BY <2>4, <2>5
<1>5. Cardinality(AskingTo(list, c, m)) = Cardinality(before) + MakesOf(item, c)
  <2>. HIDE DEF before, at, item
  <2>1. Cardinality(before \cup at) = Cardinality(before) + Cardinality(at) - Cardinality({})
    BY <1>2, <1>3, FS_Union
  <2>2. Cardinality({}) = 0
    BY FS_EmptySet
  <2>. DEFINE old == Cardinality(before)
              new == MakesOf(item, c)
  <2>3. Cardinality(AskingTo(list, c, m)) = old + new - 0 /\ old \in Nat /\ new \in Nat
    BY <1>2, <1>3, <1>4, <2>1, <2>2
  <2>. HIDE DEF old, new
  <2>4. Cardinality(AskingTo(list, c, m)) = old + new
    BY <2>3
  <2>. QED
    BY <2>4 DEF old, new
<1>6. IsFiniteSet(came) /\ Cardinality(came) \in Nat /\ m \notin came
  <2>1. came \in SUBSET Answering(list, c) /\ m \notin came
    BY <1>1 DEF AnsweringTo
  <2>2. IsFiniteSet(came) /\ Cardinality(came) \in Nat
    BY <2>1, AnsweringFinite
  <2>. QED
    BY <2>1, <2>2
<1>7. Answering(list, c) \subseteq Nat
  BY AnsweringFinite
<1>8. AnsweringTo(list, c, m) = IF ComesFor(item, c) = 1 THEN came \cup {m} ELSE came
  <2>1. m \in Answering(list, c) <=> ComesFor(item, c) = 1
    BY <1>1 DEF Answering, Projected, ComesFor
  <2>2. \A k \in Answering(list, c) : k <= m <=> k <= m - 1 \/ k = m
    BY <1>1, <1>7
  <2>. QED
    BY <2>1, <2>2 DEF AnsweringTo
<1>9. Cardinality(AnsweringTo(list, c, m)) = Cardinality(came) + ComesFor(item, c)
  <2>. HIDE DEF came, item
  <2>1. Cardinality(came \cup {m}) = Cardinality(came) + 1
    BY <1>6, FS_AddElement
  <2>2. ComesFor(item, c) = 1 \/ ComesFor(item, c) = 0
    BY DEF ComesFor
  <2>3. CASE ComesFor(item, c) = 1
    BY <1>8, <2>1, <2>3
  <2>4. CASE ComesFor(item, c) = 0
    BY <1>6, <1>8, <2>4
  <2>. QED
    BY <2>2, <2>3, <2>4
<1>. QED
  BY <1>2, <1>5, <1>6, <1>9

\* What build has done of every call after m items: how many of its results and of the
\* places that make it have gone out is what is missing from the counts, and the counts
\* are short of as many as there were.
Counted(list, F, c, m) ==
  LET built == F[m].built
      results == Cardinality(Answering(list, c))
      places == Cardinality(Asking(list, c))
  IN  /\ Slotted(built, c, Len(built)) + F[m].answers[c] = results
      /\ Cardinality(Results(built, c)) + F[m].calls[c] = places
      /\ F[m].answers[c] = Beyond(results, Cardinality(AskingTo(list, c, m)))
      /\ F[m].calls[c] = Beyond(places, Cardinality(AnsweringTo(list, c, m)))

LEMMA BuildingCounts ==
  ASSUME RepairOrphans, NEW list \in Seq(Item), NEW F, Building(list, F), NEW c \in Calls
  PROVE  \A m \in 0..Len(list) : Counted(list, F, c, m)
<1>. DEFINE n == Len(list)
            results == Cardinality(Answering(list, c))
            places == Cardinality(Asking(list, c))
            S == {m \in 0..n : Counted(list, F, c, m)}
<1>1. n \in Nat /\ F \in [0..n -> BuildType]
  BY DEF Building
<1>2. results \in Nat /\ places \in Nat
  <2>1. Pairings(list).answers \in [Calls -> Nat] /\ Pairings(list).calls \in [Calls -> Nat]
    BY PairingsTyped
  <2>. QED
    BY <2>1 DEF Pairings
<1>3. 0 \in S
  <2>1. F[0].built = <<>> /\ F[0].answers[c] = results /\ F[0].calls[c] = places
    BY DEF Building, Pairings
  <2>2. <<>> \in Seq(MessageType) /\ Len(<<>>) = 0 /\ Results(<<>>, c) = {}
    BY DEF Results
  <2>3. Slotted(<<>>, c, 0) = 0
    BY <2>2, SlotsGrow
  <2>4. AskingTo(list, c, 0) = {} /\ AnsweringTo(list, c, 0) = {}
    <3>1. AskingTo(list, c, 0) = {}
      BY AskingBetween
    <3>2. \A k \in Answering(list, c) : k \in 1..n
      BY AnsweringFinite
    <3>3. AnsweringTo(list, c, 0) = {}
      BY <3>2 DEF AnsweringTo
    <3>. QED
      BY <3>1, <3>3
  <2>5. Beyond(results, 0) = results /\ Beyond(places, 0) = places
    BY <1>2, BeyondTwice
  <2>6. Cardinality({}) = 0
    BY FS_EmptySet
  <2>. HIDE DEF results, places
  <2>7. Slotted(F[0].built, c, Len(F[0].built)) + F[0].answers[c] = results
        /\ Cardinality(Results(F[0].built, c)) + F[0].calls[c] = places
    <3>1. Slotted(F[0].built, c, Len(F[0].built)) = 0
      BY <2>1, <2>2, <2>3
    <3>2. Cardinality(Results(F[0].built, c)) = 0
      BY <2>1, <2>2, <2>6
    <3>3. 0 + F[0].answers[c] = results /\ 0 + F[0].calls[c] = places
      BY <1>2, <2>1
    <3>. QED
      BY <3>1, <3>2, <3>3
  <2>8. F[0].answers[c] = Beyond(results, Cardinality(AskingTo(list, c, 0)))
        /\ F[0].calls[c] = Beyond(places, Cardinality(AnsweringTo(list, c, 0)))
    BY <2>1, <2>4, <2>5, <2>6
  <2>9. Counted(list, F, c, 0)
    BY <2>7, <2>8 DEF Counted, results, places
  <2>. QED
    BY <1>1, <2>9
<1>4. ASSUME NEW m \in 1..n, m - 1 \in S PROVE m \in S
  <2>. DEFINE acc == F[m - 1]
              item == list[m]
              after == BuildItem(acc, item)
              old == acc.built
              new == after.built
  <2>1. m - 1 \in 0..n /\ m \in 0..n /\ Counted(list, F, c, m - 1) /\ item \in Item /\ acc \in BuildType
    BY <1>1, <1>4
  <2>2. F[m] = after
    BY DEF Building
  <2>3. /\ after.answers[c] = Beyond(acc.answers[c], MakesOf(item, c))
        /\ after.calls[c] = Beyond(acc.calls[c], ComesFor(item, c))
        /\ Slotted(new, c, Len(new)) + after.answers[c] = Slotted(old, c, Len(old)) + acc.answers[c]
        /\ Cardinality(Results(new, c)) + after.calls[c] = Cardinality(Results(old, c)) + acc.calls[c]
        /\ MakesOf(item, c) \in Nat /\ ComesFor(item, c) \in Nat
    <3>. HIDE DEF acc, item
    <3>. QED
      BY <2>1, BuildEffect
  <2>4. /\ Cardinality(AskingTo(list, c, m)) = Cardinality(AskingTo(list, c, m - 1)) + MakesOf(item, c)
        /\ Cardinality(AnsweringTo(list, c, m)) = Cardinality(AnsweringTo(list, c, m - 1)) + ComesFor(item, c)
        /\ Cardinality(AskingTo(list, c, m - 1)) \in Nat /\ Cardinality(AnsweringTo(list, c, m - 1)) \in Nat
    BY CountedSoFar
  <2>5. /\ Slotted(old, c, Len(old)) + acc.answers[c] = results
        /\ Cardinality(Results(old, c)) + acc.calls[c] = places
        /\ acc.answers[c] = Beyond(results, Cardinality(AskingTo(list, c, m - 1)))
        /\ acc.calls[c] = Beyond(places, Cardinality(AnsweringTo(list, c, m - 1)))
    BY <2>1 DEF Counted
  <2>. HIDE DEF results, places, acc, after, item
  <2>6. after.answers[c] = Beyond(results, Cardinality(AskingTo(list, c, m)))
    BY <1>2, <2>3, <2>4, <2>5, BeyondTwice
  <2>7. after.calls[c] = Beyond(places, Cardinality(AnsweringTo(list, c, m)))
    BY <1>2, <2>3, <2>4, <2>5, BeyondTwice
  <2>8. Counted(list, F, c, m)
    BY <2>2, <2>3, <2>5, <2>6, <2>7 DEF Counted, results, places
  <2>. QED
    BY <2>1, <2>8
<1>. QED
  <2>1. \A m \in 0..n : m \in S
    <3>. HIDE DEF S, n
    <3>. QED
      BY <1>1, <1>3, <1>4, InductionTo
  <2>. QED
    BY <2>1

\* Messages of which every result has a place that makes its call, and no place is
\* without a result.
Whole(built) ==
  /\ built \in Seq(MessageType)
  /\ \A p \in DOMAIN built : built[p].answers # NoCall => built[p].calls = <<>>
  /\ \A c \in Calls : Slotted(built, c, Len(built)) = Cardinality(Results(built, c))

\* Two counts short of each other by what the other lacks are as good as one.
LEMMA BothShort ==
  ASSUME NEW r \in Nat, NEW p \in Nat, NEW s \in Nat, NEW a \in Nat,
         s + Beyond(r, p) = r, a + Beyond(p, r) = p
  PROVE  s = a
<1>1. CASE r <= p
  <2>1. Beyond(p, r) = p - r /\ s = r
    <3>1. CASE r = p
      BY <3>1 DEF Beyond
    <3>2. CASE r < p
      BY <3>2 DEF Beyond
    <3>. QED
      BY <1>1, <3>1, <3>2
  <2>. QED
    BY <2>1
<1>2. CASE p < r
  <2>1. Beyond(r, p) = r - p /\ Beyond(p, r) = 0
    BY <1>2 DEF Beyond
  <2>. QED
    BY <2>1
<1>. QED
  BY <1>1, <1>2

\* With repair, build leaves no half of a pair.
LEMMA BuiltWhole ==
  ASSUME RepairOrphans, NEW list \in Seq(Item)
  PROVE  Whole(Build(list).built)
<1>. DEFINE n == Len(list)
            built == Build(list).built
<1>1. PICK F : Building(list, F)
  BY BuildingIs
<1>2. n \in Nat /\ n \in 0..n /\ F[n] \in BuildType /\ built = F[n].built
  BY <1>1 DEF Building
<1>3. built \in Seq(MessageType)
  BY <1>2 DEF BuildType
<1>4. ASSUME NEW p \in DOMAIN built, built[p].answers # NoCall PROVE built[p].calls = <<>>
  <2>1. Placed(list, F, n)
    BY <1>1, <1>2, BuiltPlaces
  <2>2. p \in DOMAIN F[n].built
    BY <1>2
  <2>3. PICK k \in SentTo(list, F, n) : p = PlaceOf(F, k)
    BY <2>1, <2>2 DEF Placed
  <2>4. F[n].built[p] = WrittenFor(F[k - 1], list[k])
    BY <2>1, <2>3 DEF Placed
  <2>5. built[p] = WrittenFor(F[k - 1], list[k])
    BY <1>2, <2>4
  <2>. HIDE DEF built
  <2>6. list[k].kind = "result"
    BY <1>4, <2>5 DEF WrittenFor, Message
  <2>. QED
    BY <2>5, <2>6 DEF WrittenFor, Message
<1>5. ASSUME NEW c \in Calls PROVE Slotted(built, c, Len(built)) = Cardinality(Results(built, c))
  <2>. DEFINE r == Cardinality(Answering(list, c))
              p == Cardinality(Asking(list, c))
              s == Slotted(built, c, Len(built))
              a == Cardinality(Results(built, c))
  <2>1. Counted(list, F, c, n)
    BY <1>1, <1>2, BuildingCounts
  <2>2. AskingTo(list, c, n) = Asking(list, c)
    BY AskingBetween
  <2>3. AnsweringTo(list, c, n) = Answering(list, c)
    <3>1. Answering(list, c) \subseteq 1..n
      BY AnsweringFinite
    <3>. QED
      BY <3>1 DEF AnsweringTo
  <2>4. s + Beyond(r, p) = r /\ a + Beyond(p, r) = p
    <3>. HIDE DEF built
    <3>. QED
      BY <1>2, <2>1, <2>2, <2>3 DEF Counted
  <2>5. r \in Nat /\ p \in Nat
    <3>1. Pairings(list).answers \in [Calls -> Nat] /\ Pairings(list).calls \in [Calls -> Nat]
      BY PairingsTyped
    <3>. QED
      BY <3>1 DEF Pairings
  <2>6. s \in Nat /\ a \in Nat
    <3>. HIDE DEF built
    <3>1. Len(built) \in 0..Len(built)
      BY <1>3
    <3>2. s \in Nat
      BY <1>3, <3>1, SlotsGrow
    <3>3. Results(built, c) \in SUBSET (1..Len(built)) /\ IsFiniteSet(1..Len(built))
      BY <1>3, FS_Interval DEF Results
    <3>4. a \in Nat
      BY <3>3, FS_Subset, FS_CardinalityType
    <3>. QED
      BY <3>2, <3>4
  <2>. HIDE DEF r, p, s, a
  <2>7. s = a
    BY <2>4, <2>5, <2>6, BothShort
  <2>. QED
    BY <2>7 DEF s, a
<1>. HIDE DEF built
<1>6. Whole(built)
  BY <1>3, <1>4, <1>5 DEF Whole
<1>. QED
  BY <1>6 DEF built

---------------------------------------------------------------------------
(* The order of the request.                                               *)

\* Among whole messages, exactly the results are asked for.
LEMMA AskedFor ==
  ASSUME NEW built, Whole(built), NEW p \in DOMAIN built
  PROVE  built[p].answers \in Asked(built) <=> built[p].answers # NoCall
<1>. DEFINE c == built[p].answers
            n == Len(built)
<1>1. /\ built \in Seq(MessageType) /\ n \in Nat /\ DOMAIN built = 1..n
      /\ \A q \in DOMAIN built : built[q] \in MessageType
  BY DEF Whole
<1>2. ASSUME NEW q \in DOMAIN built
      PROVE  built[q].calls \in Seq(Calls) /\ built[q].answers \in Calls \cup {NoCall}
             /\ ToSet(built[q].calls) \subseteq Calls
  <2>1. built[q].calls \in Seq(Calls) /\ built[q].answers \in Calls \cup {NoCall}
    BY <1>1 DEF MessageType
  <2>. QED
    BY <2>1 DEF ToSet
<1>3. Asked(built) \subseteq Calls
  BY <1>2 DEF Asked
<1>4. NoCall \notin Asked(built)
  BY <1>3, ProjectionAssumption
<1>5. ASSUME c # NoCall PROVE c \in Asked(built)
  <2>1. c \in Calls /\ p \in Results(built, c)
    BY <1>2, <1>5 DEF Results
  <2>. HIDE DEF c
  <2>2. Results(built, c) \in SUBSET (1..n) /\ IsFiniteSet(1..n)
    BY <1>1, FS_Interval DEF Results
  <2>3. Cardinality(Results(built, c)) # 0
    BY <2>1, <2>2, FS_Subset, FS_EmptySet
  <2>4. Slotted(built, c, n) # 0
    BY <2>1, <2>3 DEF Whole
  <2>5. Slots(built, c, n) # {}
    BY <2>4, FS_EmptySet DEF Slotted
  <2>6. PICK q \in 1..n : SlotsAt(built, c, q) # {}
    BY <2>5 DEF Slots
  <2>7. PICK j \in DOMAIN built[q].calls : built[q].calls[j] = c
    BY <2>6 DEF SlotsAt
  <2>8. c \in ToSet(built[q].calls)
    BY <2>7 DEF ToSet
  <2>. QED
    BY <1>1, <2>8 DEF Asked
<1>. QED
  BY <1>4, <1>5

\* Nothing is placed twice.
PlacedOnce(order) == \A i, j \in DOMAIN order : i # j => order[i] # order[j]

\* A list one longer, of what it did not have.
LEMMA OnePlaced ==
  ASSUME NEW n \in Nat, NEW order \in Seq(1..n), NEW r \in 1..n, r \notin ToSet(order)
  PROVE  LET more == Append(order, r)
         IN  /\ more \in Seq(1..n) /\ Len(more) = Len(order) + 1 /\ more[Len(order) + 1] = r
             /\ \A j \in 1..Len(order) : more[j] = order[j]
             /\ ToSet(more) = ToSet(order) \cup {r} /\ ToSet(order) \subseteq 1..n
             /\ PlacedOnce(order) => PlacedOnce(more)
<1>. DEFINE more == Append(order, r)
            l == Len(order)
<1>1. /\ l \in Nat /\ DOMAIN order = 1..l /\ more \in Seq(1..n) /\ Len(more) = l + 1
      /\ DOMAIN more = (1..l) \cup {l + 1} /\ more[l + 1] = r /\ l + 1 \notin 1..l
      /\ \A j \in 1..l : more[j] = order[j]
  OBVIOUS
<1>. HIDE DEF more
<1>2. ToSet(more) = ToSet(order) \cup {r}
  BY <1>1 DEF ToSet
<1>3. ToSet(order) \subseteq 1..n
  BY <1>1 DEF ToSet
<1>4. \A j \in 1..l : more[j] # r
  BY <1>1 DEF ToSet
<1>5. ASSUME PlacedOnce(order) PROVE PlacedOnce(more)
  <2> SUFFICES ASSUME NEW i \in DOMAIN more, NEW j \in DOMAIN more, i # j PROVE more[i] # more[j]
    BY DEF PlacedOnce
  <2>. QED
    BY <1>1, <1>4, <1>5 DEF PlacedOnce
<1>. QED
  BY <1>1, <1>2, <1>3, <1>5 DEF more

\* While not all the results of a call are placed, the next place that makes it gets one.
LEMMA AnswerPlaced ==
  ASSUME NEW built, Whole(built), NEW acc \in PlaceType(Len(built)), NEW c \in Calls,
         Cardinality(Results(built, c) \cap ToSet(acc.order)) # Cardinality(Results(built, c))
  PROVE  \E r \in DOMAIN built :
           /\ built[r].answers = c /\ r \notin ToSet(acc.order)
           /\ PlaceAnswer(built, acc, c)
                = [order |-> Append(acc.order, r), adjacent |-> acc.adjacent + 1,
                   moved |-> acc.moved \cup (IF r = acc.adjacent THEN {} ELSE {built[r].id})]
<1>. DEFINE placed == ToSet(acc.order)
            open == {k \in DOMAIN built : built[k].answers = c /\ k \notin placed}
            answer == NextAnswer(built, placed, c)
<1>1. built \in Seq(MessageType)
  BY DEF Whole
<1>2. open # {}
  <2>1. Results(built, c) \cap placed # Results(built, c)
    OBVIOUS
  <2>. QED
    BY <2>1 DEF Results
<1>3. IF open = {} THEN answer = 0
      ELSE answer \in open /\ answer \in 1..Len(built) /\ answer # 0
  BY <1>1, AnswerFound
<1>4. answer \in open /\ answer # 0
  <2>. HIDE DEF open, answer
  <2>. QED
    BY <1>2, <1>3
<1>5. PlaceAnswer(built, acc, c)
        = [order |-> Append(acc.order, answer), adjacent |-> acc.adjacent + 1,
           moved |-> acc.moved \cup (IF answer = acc.adjacent THEN {} ELSE {built[answer].id})]
  <2>. HIDE DEF open
  <2>. QED
    BY <1>4 DEF PlaceAnswer
<1>. HIDE DEF answer
<1>. QED
  BY <1>4, <1>5

\* A turn being placed behind what already is, with the answers to the first i of its
\* calls right behind it; reported as moved is what did not stand there.
Placing(built, old, at, acc, i) ==
  LET first == Len(old.order) + 1
      calls == built[at].calls
  IN  /\ acc \in PlaceType(Len(built))
      /\ Len(acc.order) = first + i /\ PlacedOnce(acc.order)
      /\ \A j \in 1..Len(old.order) : acc.order[j] = old.order[j]
      /\ acc.order[first] = at
      /\ \A j \in 1..i : built[acc.order[first + j]].answers = calls[j]
      /\ \A c \in Calls : Cardinality(Results(built, c) \cap ToSet(acc.order))
                            = Slotted(built, c, at - 1) + CountIn(SubSeq(calls, 1, i), c)
      /\ acc.adjacent = at + 1 + i
      /\ acc.moved = {} <=> old.moved = {} /\ \A j \in 1..i : acc.order[first + j] = at + j

\* The next call of a turn finds an answer, which goes behind the others.
LEMMA NextPlaced ==
  ASSUME NEW built, Whole(built), NEW old \in PlaceType(Len(built)), NEW at \in DOMAIN built,
         NEW i \in 1..Len(built[at].calls), NEW acc, Placing(built, old, at, acc, i - 1)
  PROVE  Placing(built, old, at, PlaceAnswer(built, acc, built[at].calls[i]), i)
<1>. DEFINE n == Len(built)
            first == Len(old.order) + 1
            calls == built[at].calls
            c == calls[i]
            order == acc.order
            after == PlaceAnswer(built, acc, c)
            made(d, k) == CountIn(SubSeq(calls, 1, k), d)
<1>1. built \in Seq(MessageType) /\ n \in Nat /\ DOMAIN built = 1..n /\ at \in 1..n
  BY DEF Whole
<1>2. calls \in Seq(Calls) /\ c \in Calls /\ i \in Nat \ {0} /\ i - 1 \in 0..Len(calls)
  <2>1. built[at] \in MessageType
    BY <1>1
  <2>2. calls \in Seq(Calls)
    BY <2>1 DEF MessageType
  <2>. HIDE DEF calls
  <2>. QED
    BY <2>2 DEF calls
<1>3. /\ order \in Seq(1..n) /\ acc.adjacent \in Nat /\ acc.moved \in SUBSET Nat
      /\ acc \in PlaceType(n)
  BY DEF Placing, PlaceType
<1>4. Len(old.order) \in Nat
  BY DEF PlaceType
<1>5. /\ Len(order) = first + (i - 1) /\ PlacedOnce(order)
      /\ \A j \in 1..Len(old.order) : order[j] = old.order[j]
      /\ order[first] = at
      /\ \A j \in 1..(i - 1) : built[order[first + j]].answers = calls[j]
      /\ acc.adjacent = at + 1 + (i - 1)
      /\ acc.moved = {} <=> old.moved = {} /\ \A j \in 1..(i - 1) : order[first + j] = at + j
  BY DEF Placing
<1>6. \A d \in Calls : Cardinality(Results(built, d) \cap ToSet(order)) = Slotted(built, d, at - 1) + made(d, i - 1)
  BY DEF Placing
<1>7. Cardinality(Results(built, c) \cap ToSet(order)) # Cardinality(Results(built, c))
  <2>. DEFINE before == Slotted(built, c, at - 1)
              upto == Slotted(built, c, at)
              all == Slotted(built, c, n)
              want == CountIn(calls, c)
              some == made(c, i - 1)
  <2>1. upto = before + want /\ upto <= all /\ before \in Nat /\ all = Cardinality(Results(built, c))
        /\ upto \in Nat /\ all \in Nat
    <3>1. at - 1 \in 0..n /\ at \in 0..n /\ n \in 0..n
      BY <1>1
    <3>2. /\ \A k \in 0..n : Slotted(built, c, k) \in Nat
          /\ \A k \in 0..n : Slotted(built, c, k) <= Slotted(built, c, n)
      BY <1>1, SlotsGrow
    <3>3. \A k \in 1..n : Slotted(built, c, k) = Slotted(built, c, k - 1) + CountIn(built[k].calls, c)
      BY <1>1, SlotsGrow
    <3>4. all = Cardinality(Results(built, c))
      BY <1>2 DEF Whole
    <3>. QED
      BY <1>1, <3>1, <3>2, <3>3, <3>4
  <2>2. some + 1 <= want /\ some \in Nat /\ want \in Nat
    <3>. HIDE DEF calls, c
    <3>1. made(c, i) = IF calls[i] = c THEN made(c, i - 1) + 1 ELSE made(c, i - 1)
      <4>1. i \in 1..Len(calls)
        BY DEF calls
      <4>. QED
        BY <1>2, <4>1, CountFirstOne
    <3>2. calls[i] = c
      BY DEF c
    <3>3. /\ made(c, i) <= want /\ made(c, i - 1) \in Nat /\ made(c, i) \in Nat
      <4>1. i \in 0..Len(calls)
        BY DEF calls
      <4>. QED
        BY <1>2, <4>1, CountFirst
    <3>4. want \in Nat
      BY <1>2, CountLonger
    <3>. HIDE DEF made
    <3>. QED
      BY <3>1, <3>2, <3>3, <3>4
  <2>3. Cardinality(Results(built, c) \cap ToSet(order)) = before + some
    BY <1>2, <1>6
  <2>4. before + some # all
    <3>. HIDE DEF before, upto, all, want, some
    <3>. QED
      BY <2>1, <2>2
  <2>. QED
    BY <2>1, <2>3, <2>4
<1>8. PICK r \in DOMAIN built :
        /\ built[r].answers = c /\ r \notin ToSet(order)
        /\ after = [order |-> Append(order, r), adjacent |-> acc.adjacent + 1,
                    moved |-> acc.moved \cup (IF r = acc.adjacent THEN {} ELSE {built[r].id})]
  <2>. HIDE DEF c
  <2>1. \E r \in DOMAIN built :
          /\ built[r].answers = c /\ r \notin ToSet(acc.order)
          /\ PlaceAnswer(built, acc, c)
               = [order |-> Append(acc.order, r), adjacent |-> acc.adjacent + 1,
                  moved |-> acc.moved \cup (IF r = acc.adjacent THEN {} ELSE {built[r].id})]
    BY <1>2, <1>3, <1>7, AnswerPlaced
  <2>. QED
    BY <2>1
<1>. DEFINE more == Append(order, r)
<1>9. /\ after.order = more /\ after.adjacent = acc.adjacent + 1
      /\ after.moved = acc.moved \cup (IF r = acc.adjacent THEN {} ELSE {built[r].id})
  BY <1>8
<1>10. r \in 1..n
  BY <1>1
<1>11. /\ more \in Seq(1..n) /\ Len(more) = Len(order) + 1 /\ more[Len(order) + 1] = r
       /\ \A j \in 1..Len(order) : more[j] = order[j]
       /\ ToSet(more) = ToSet(order) \cup {r} /\ ToSet(order) \subseteq 1..n
       /\ PlacedOnce(order) => PlacedOnce(more)
  <2>1. r \notin ToSet(order)
    BY <1>8
  <2>. HIDE DEF order, n
  <2>. QED
    BY <1>1, <1>3, <1>10, <2>1, OnePlaced
<1>12. after \in PlaceType(n)
  <2>. HIDE DEF after
  <2>. QED
    BY <1>1, <1>3, PlaceAnswerTyped DEF after
<1>. HIDE DEF after, more, order
<1>13. /\ Len(more) = first + i /\ PlacedOnce(more)
       /\ \A j \in 1..Len(old.order) : more[j] = old.order[j]
       /\ more[first] = at /\ more[first + i] = r
       /\ \A j \in 1..(i - 1) : more[first + j] = order[first + j]
  <2>1. first \in Nat \ {0} /\ Len(order) = first + (i - 1) /\ Len(old.order) = first - 1
    BY <1>4, <1>5, SMTT(30)
  <2>. HIDE DEF first
  <2>2. Len(order) + 1 = first + i /\ first \in 1..Len(order)
    BY <1>2, <2>1
  <2>3. ASSUME NEW j \in 1..Len(old.order) PROVE more[j] = old.order[j]
    <3>1. j \in 1..Len(order)
      BY <1>2, <2>1
    <3>. QED
      BY <1>5, <1>11, <3>1
  <2>4. ASSUME NEW j \in 1..(i - 1) PROVE more[first + j] = order[first + j]
    <3>1. first + j \in 1..Len(order)
      BY <1>2, <2>1
    <3>. QED
      BY <1>11, <3>1
  <2>5. Len(more) = first + i /\ more[first + i] = r
    BY <1>11, <2>2
  <2>6. more[first] = at
    BY <1>5, <1>11, <2>2 DEF first
  <2>. QED
    BY <1>5, <1>11, <2>3, <2>4, <2>5, <2>6
<1>14. ASSUME NEW j \in 1..i PROVE built[more[first + j]].answers = calls[j]
  <2>1. CASE j = i
    BY <1>8, <1>13, <2>1
  <2>2. CASE j \in 1..(i - 1)
    BY <1>5, <1>13, <2>2
  <2>. QED
    BY <1>2, <2>1, <2>2
<1>15. ASSUME NEW d \in Calls
       PROVE  Cardinality(Results(built, d) \cap ToSet(more)) = Slotted(built, d, at - 1) + made(d, i)
  <2>. DEFINE had == Results(built, d) \cap ToSet(order)
              has == Results(built, d) \cap ToSet(more)
  <2>1. has = (IF d = c THEN had \cup {r} ELSE had) /\ r \notin had
    BY <1>8, <1>11 DEF Results
  <2>2. had \in SUBSET (1..n) /\ IsFiniteSet(1..n)
    BY <1>1, FS_Interval DEF Results
  <2>3. IsFiniteSet(had)
    BY <2>2, FS_Subset
  <2>. HIDE DEF had
  <2>4. Cardinality(had \cup {r}) = Cardinality(had) + 1
    BY <2>1, <2>3, FS_AddElement
  <2>5. made(d, i) = (IF c = d THEN made(d, i - 1) + 1 ELSE made(d, i - 1)) /\ made(d, i - 1) \in Nat
    <3>. HIDE DEF calls
    <3>1. i \in 1..Len(calls)
      BY DEF calls
    <3>2. made(d, i) = IF calls[i] = d THEN made(d, i - 1) + 1 ELSE made(d, i - 1)
      BY <1>2, <3>1, CountFirstOne
    <3>3. made(d, i - 1) \in Nat
      BY <1>2, CountFirst
    <3>. QED
      BY <3>2, <3>3
  <2>. DEFINE S == Slotted(built, d, at - 1)
              M == made(d, i - 1)
              N == made(d, i)
              H == Cardinality(had)
  <2>6. H = S + M /\ M \in Nat /\ S \in Nat
    <3>1. at - 1 \in 0..n
      BY <1>1
    <3>2. S \in Nat
      BY <1>1, <3>1, SlotsGrow
    <3>3. H = S + M
      BY <1>6 DEF had, order
    <3>. QED
      BY <2>5, <3>2, <3>3
  <2>7. \/ d = c /\ Cardinality(has) = H + 1 /\ N = M + 1
        \/ d # c /\ Cardinality(has) = H /\ N = M
    BY <2>1, <2>4, <2>5
  <2>. HIDE DEF S, M, N, H, has
  <2>8. Cardinality(has) = S + N
    BY <2>6, <2>7
  <2>. QED
    BY <2>8 DEF has, S, N
<1>16. after.adjacent = at + 1 + i
  BY <1>1, <1>2, <1>5, <1>9
<1>17. after.moved = {} <=> old.moved = {} /\ \A j \in 1..i : more[first + j] = at + j
  <2>1. acc.adjacent = at + i
    BY <1>1, <1>2, <1>5
  <2>2. after.moved = {} <=> acc.moved = {} /\ r = at + i
    BY <1>9, <2>1
  <2>3. (\A j \in 1..i : more[first + j] = at + j)
          <=> r = at + i /\ \A j \in 1..(i - 1) : order[first + j] = at + j
    <3>1. \A j \in 1..i : j = i \/ j \in 1..(i - 1)
      BY <1>2
    <3>2. i \in 1..i /\ \A j \in 1..(i - 1) : j \in 1..i
      BY <1>2
    <3>. QED
      BY <1>13, <3>1, <3>2
  <2>. QED
    BY <1>5, <2>2, <2>3 DEF order
<1>. QED
  BY <1>9, <1>12, <1>13, <1>14, <1>15, <1>16, <1>17 DEF Placing, after

\* A message that answers nothing goes out with the answers to its calls behind it.
LEMMA TurnPlaced ==
  ASSUME NEW built, Whole(built), NEW old \in PlaceType(Len(built)), NEW at \in DOMAIN built,
         built[at].answers = NoCall, at \notin ToSet(old.order), PlacedOnce(old.order),
         \A c \in Calls : Cardinality(Results(built, c) \cap ToSet(old.order)) = Slotted(built, c, at - 1)
  PROVE  Placing(built, old, at, PlaceMessage(built, old, at), Len(built[at].calls))
<1>. DEFINE n == Len(built)
            calls == built[at].calls
            first == Len(old.order) + 1
            start == [order |-> Append(old.order, at), adjacent |-> at + 1, moved |-> old.moved]
            end == PlaceMessage(built, old, at)
<1>1. built \in Seq(MessageType) /\ n \in Nat /\ DOMAIN built = 1..n /\ at \in 1..n
  BY DEF Whole
<1>2. calls \in Seq(Calls) /\ Len(calls) \in Nat
  <2>1. built[at] \in MessageType
    BY <1>1
  <2>2. calls \in Seq(Calls)
    BY <2>1 DEF MessageType
  <2>. HIDE DEF calls
  <2>. QED
    BY <2>2
<1>3. old.order \in Seq(1..n) /\ old.adjacent \in Nat /\ old.moved \in SUBSET Nat /\ Len(old.order) \in Nat
  BY DEF PlaceType
<1>. DEFINE before == old.order
            more == Append(before, at)
<1>4. /\ more \in Seq(1..n) /\ Len(more) = Len(before) + 1 /\ more[Len(before) + 1] = at
      /\ \A j \in 1..Len(before) : more[j] = before[j]
      /\ ToSet(more) = ToSet(before) \cup {at} /\ PlacedOnce(more)
  <2>. HIDE DEF before, n
  <2>1. /\ more \in Seq(1..n) /\ Len(more) = Len(before) + 1 /\ more[Len(before) + 1] = at
        /\ \A j \in 1..Len(before) : more[j] = before[j]
        /\ ToSet(more) = ToSet(before) \cup {at}
        /\ PlacedOnce(before) => PlacedOnce(more)
    <3>1. before \in Seq(1..n) /\ at \notin ToSet(before)
      BY <1>3 DEF before
    <3>. QED
      BY <1>1, <3>1, OnePlaced
  <2>2. PlacedOnce(before)
    BY DEF before
  <2>. QED
    BY <2>1, <2>2
<1>5. start \in PlaceType(n) /\ start.order = more /\ start.adjacent = at + 1 /\ start.moved = old.moved
  BY <1>1, <1>3, <1>4 DEF PlaceType
<1>6. Placing(built, old, at, start, 0)
  <2>1. ASSUME NEW c \in Calls
        PROVE  Cardinality(Results(built, c) \cap ToSet(more)) = Slotted(built, c, at - 1) + CountIn(SubSeq(calls, 1, 0), c)
    <3>1. at \notin Results(built, c)
      BY ProjectionAssumption DEF Results
    <3>2. Results(built, c) \cap ToSet(more) = Results(built, c) \cap ToSet(before)
      BY <1>4, <3>1
    <3>3. CountIn(SubSeq(calls, 1, 0), c) = 0
      <4>. HIDE DEF calls
      <4>. QED
        BY <1>2, CountFirst
    <3>4. Slotted(built, c, at - 1) \in Nat
      <4>1. at - 1 \in 0..n
        BY <1>1
      <4>. QED
        BY <1>1, <4>1, SlotsGrow
    <3>5. Cardinality(Results(built, c) \cap ToSet(more)) = Slotted(built, c, at - 1)
      BY <3>2
    <3>6. Slotted(built, c, at - 1) + 0 = Slotted(built, c, at - 1)
      BY <3>4
    <3>. QED
      BY <3>3, <3>5, <3>6
  <2>2. 1..0 = {} /\ at + 1 + 0 = at + 1 /\ first + 0 = first
    BY <1>1, <1>3
  <2>3. Len(more) = first + 0 /\ more[first] = at /\ \A j \in 1..Len(old.order) : more[j] = old.order[j]
    BY <1>4, <2>2
  <2>. HIDE DEF more, start
  <2>. QED
    BY <1>4, <1>5, <2>1, <2>2, <2>3 DEF Placing
<1>7. PICK H \in [0..Len(calls) -> PlaceType(n)] :
        /\ H[0] = start
        /\ \A i \in 1..Len(calls) : H[i] = PlaceAnswer(built, H[i - 1], calls[i])
        /\ FoldLeft(LAMBDA a, call : PlaceAnswer(built, a, call), start, calls) = H[Len(calls)]
  <2>. HIDE DEF start
  <2>. QED
    BY <1>1, <1>5, AnswersUnrolled
<1>8. end = H[Len(calls)]
  <2>1. built[at].answers \notin Asked(built)
    BY AskedFor
  <2>2. end = FoldLeft(LAMBDA a, call : PlaceAnswer(built, a, call), start, calls)
    BY <2>1 DEF PlaceMessage
  <2>. QED
    BY <1>7, <2>2
<1>. DEFINE S == {i \in 0..Len(calls) : Placing(built, old, at, H[i], i)}
<1>9. 0 \in S
  <2>1. 0 \in 0..Len(calls)
    BY <1>2
  <2>. QED
    BY <1>6, <1>7, <2>1
<1>10. ASSUME NEW i \in 1..Len(calls), i - 1 \in S PROVE i \in S
  <2>1. Placing(built, old, at, H[i - 1], i - 1)
    BY <1>10
  <2>2. Placing(built, old, at, PlaceAnswer(built, H[i - 1], calls[i]), i)
    BY <1>1, <2>1, NextPlaced
  <2>3. H[i] = PlaceAnswer(built, H[i - 1], calls[i])
    BY <1>7
  <2>4. i \in 0..Len(calls)
    BY <1>2
  <2>. QED
    BY <2>2, <2>3, <2>4
<1>11. \A i \in 0..Len(calls) : i \in S
  <2>. DEFINE l == Len(calls)
  <2>1. l \in Nat /\ 0 \in S /\ \A i \in 1..l : i - 1 \in S => i \in S
    BY <1>2, <1>9, <1>10
  <2>2. \A i \in 0..l : i \in S
    <3>. HIDE DEF S, l
    <3>. QED
      BY <2>1, InductionTo
  <2>. QED
    BY <2>2
<1>12. Len(calls) \in 0..Len(calls)
  BY <1>2
<1>13. Placing(built, old, at, H[Len(calls)], Len(calls))
  BY <1>11, <1>12
<1>. HIDE DEF end
<1>14. Placing(built, old, at, end, Len(calls))
  BY <1>8, <1>13
<1>. QED
  BY <1>14 DEF end

\* Every message at a place of the request that makes calls is followed by their answers,
\* and every answer follows one.
Blocks(built, order) ==
  /\ \A q \in DOMAIN order : \A i \in 1..Len(built[order[q]].calls) :
       q + i \in DOMAIN order /\ built[order[q + i]].answers = built[order[q]].calls[i]
  /\ \A q \in DOMAIN order : built[order[q]].answers # NoCall =>
       \E h \in 1..(q - 1) : q - h <= Len(built[order[h]].calls)

\* How the messages stand when those up to the k-th have been placed.
Arranged(built, acc, k) ==
  LET order == acc.order
      placed == ToSet(order)
  IN  /\ acc \in PlaceType(Len(built)) /\ PlacedOnce(order)
      /\ \A p \in DOMAIN built : built[p].answers = NoCall => (p \in placed <=> p <= k)
      /\ \A c \in Calls : Cardinality(Results(built, c) \cap placed) = Slotted(built, c, k)
      /\ Blocks(built, order)
      /\ acc.moved # {} => \E q \in DOMAIN order : order[q] # q
      /\ acc.moved = {} => /\ \A i, j \in DOMAIN order : i < j => order[i] < order[j]
                           /\ \A x \in placed : \A y \in (k + 1)..x : y \in placed

\* A result is placed by the turn it answers, and its own turn to be placed changes nothing.
LEMMA ResultWaits ==
  ASSUME NEW built, Whole(built), NEW at \in DOMAIN built, NEW old, Arranged(built, old, at - 1),
         built[at].answers # NoCall
  PROVE  Arranged(built, PlaceMessage(built, old, at), at)
<1>. DEFINE n == Len(built)
            order == old.order
            placed == ToSet(order)
<1>1. built \in Seq(MessageType) /\ n \in Nat /\ DOMAIN built = 1..n /\ at \in 1..n
  BY DEF Whole
<1>2. PlaceMessage(built, old, at) = old
  <2>1. built[at].answers \in Asked(built)
    BY AskedFor
  <2>. QED
    BY <2>1 DEF PlaceMessage
<1>3. ASSUME NEW p \in DOMAIN built, built[p].answers = NoCall PROVE p \in placed <=> p <= at
  <2>1. p # at /\ p \in 1..n
    BY <1>1, <1>3
  <2>2. p \in placed <=> p <= at - 1
    BY <1>3 DEF Arranged
  <2>. QED
    BY <1>1, <2>1, <2>2
<1>4. ASSUME NEW c \in Calls PROVE Cardinality(Results(built, c) \cap placed) = Slotted(built, c, at)
  <2>1. built[at].calls = <<>>
    BY DEF Whole
  <2>2. CountIn(built[at].calls, c) = 0
    BY <2>1, CountNone
  <2>3. Slotted(built, c, at) = Slotted(built, c, at - 1) + CountIn(built[at].calls, c)
    BY <1>1, SlotsGrow
  <2>4. Slotted(built, c, at - 1) \in Nat
    <3>1. at - 1 \in 0..n
      BY <1>1
    <3>. QED
      BY <1>1, <3>1, SlotsGrow
  <2>5. Slotted(built, c, at) = Slotted(built, c, at - 1)
    BY <2>2, <2>3, <2>4
  <2>. QED
    BY <2>5 DEF Arranged
<1>5. ASSUME old.moved = {}, NEW x \in placed, NEW y \in (at + 1)..x PROVE y \in placed
  <2>1. x \in 1..n
    <3>1. order \in Seq(1..n)
      BY DEF Arranged, PlaceType
    <3>. QED
      BY <3>1 DEF ToSet
  <2>2. y \in ((at - 1) + 1)..x
    BY <1>1, <2>1
  <2>. QED
    BY <1>5, <2>2 DEF Arranged
<1>6. /\ old \in PlaceType(n) /\ PlacedOnce(order) /\ Blocks(built, order)
      /\ old.moved # {} => \E q \in DOMAIN order : order[q] # q
      /\ old.moved = {} => \A i, j \in DOMAIN order : i < j => order[i] < order[j]
  BY DEF Arranged
<1>7. Arranged(built, old, at)
  BY <1>3, <1>4, <1>5, <1>6 DEF Arranged
<1>. QED
  BY <1>2, <1>7

\* What stands in a list of such things is one.
LEMMA MembersOf ==
  ASSUME NEW T, NEW s \in Seq(T)
  PROVE  \A q \in DOMAIN s : s[q] \in T
  OBVIOUS

\* What a turn that has been placed has added: itself and its answers, behind the others.
Adds(built, old, at, acc) ==
  LET calls == built[at].calls
      l == Len(old.order)
      order == acc.order
  IN  /\ l \in Nat /\ Len(calls) \in Nat
      /\ \A q \in DOMAIN old.order : old.order[q] \in 1..Len(built)
      /\ \A q \in DOMAIN order : order[q] \in 1..Len(built)
      /\ DOMAIN old.order = 1..l /\ DOMAIN order = 1..(l + 1 + Len(calls))
      /\ \A q \in 1..l : order[q] = old.order[q]
      /\ order[l + 1] = at
      /\ \A j \in 1..Len(calls) : built[order[l + 1 + j]].answers = calls[j] /\ calls[j] \in Calls
      /\ \A q \in DOMAIN order : q \in 1..l \/ q = l + 1 \/ \E j \in 1..Len(calls) : q = l + 1 + j
      /\ \A x : x \in ToSet(order) <=> \/ x \in ToSet(old.order) \/ x = at
                                       \/ \E j \in 1..Len(calls) : x = order[l + 1 + j]

LEMMA TurnAdds ==
  ASSUME NEW built, Whole(built), NEW old \in PlaceType(Len(built)), NEW at \in DOMAIN built,
         NEW acc, Placing(built, old, at, acc, Len(built[at].calls))
  PROVE  Adds(built, old, at, acc)
<1>. DEFINE n == Len(built)
            calls == built[at].calls
            l == Len(old.order)
            m == Len(calls)
            order == acc.order
<1>1. calls \in Seq(Calls) /\ m \in Nat /\ \A j \in 1..m : calls[j] \in Calls
  <2>1. built[at] \in MessageType
    BY DEF Whole
  <2>2. calls \in Seq(Calls)
    BY <2>1 DEF MessageType
  <2>. HIDE DEF calls
  <2>. QED
    BY <2>2
<1>2. old.order \in Seq(1..n) /\ l \in Nat /\ DOMAIN old.order = 1..l
  BY DEF PlaceType
<1>3. /\ order \in Seq(1..n) /\ Len(order) = l + 1 + m
      /\ \A q \in 1..l : order[q] = old.order[q]
      /\ order[l + 1] = at
      /\ \A j \in 1..m : built[order[l + 1 + j]].answers = calls[j]
  BY DEF Placing, PlaceType
<1>4. DOMAIN order = 1..(l + 1 + m)
  <2>. HIDE DEF order, l, m
  <2>. QED
    BY <1>1, <1>2, <1>3
<1>5. ASSUME NEW q \in DOMAIN order PROVE q \in 1..l \/ q = l + 1 \/ \E j \in 1..m : q = l + 1 + j
  <2>. HIDE DEF order, l, m
  <2>1. q \in 1..(l + 1 + m)
    BY <1>4
  <2>2. CASE q > l + 1
    <3>1. q - (l + 1) \in 1..m /\ q = l + 1 + (q - (l + 1))
      BY <1>1, <1>2, <2>1, <2>2
    <3>. QED
      BY <3>1
  <2>. QED
    BY <1>1, <1>2, <2>1, <2>2
<1>6. ASSUME NEW x
      PROVE  x \in ToSet(order) <=> \/ x \in ToSet(old.order) \/ x = at
                                    \/ \E j \in 1..m : x = order[l + 1 + j]
  <2>. HIDE DEF order, l, m
  <2>1. (1..l) \subseteq DOMAIN order /\ l + 1 \in DOMAIN order /\ \A j \in 1..m : l + 1 + j \in DOMAIN order
    BY <1>1, <1>2, <1>4
  <2>2. x \in ToSet(order) <=> \E q \in DOMAIN order : x = order[q]
    BY DEF ToSet
  <2>3. x \in ToSet(old.order) <=> \E q \in 1..l : x = old.order[q]
    BY <1>2 DEF ToSet
  <2>4. ASSUME x \in ToSet(order) PROVE x \in ToSet(old.order) \/ x = at \/ \E j \in 1..m : x = order[l + 1 + j]
    <3>1. PICK q \in DOMAIN order : x = order[q]
      BY <2>2, <2>4
    <3>. QED
      BY <1>3, <1>5, <2>3, <3>1
  <2>5. ASSUME x \in ToSet(old.order) \/ x = at \/ \E j \in 1..m : x = order[l + 1 + j]
        PROVE  x \in ToSet(order)
    BY <1>3, <2>1, <2>2, <2>3, <2>5
  <2>. QED
    BY <2>4, <2>5
<1>. HIDE DEF order, l, m, calls
<1>7. /\ \A j \in 1..m : built[order[l + 1 + j]].answers = calls[j] /\ calls[j] \in Calls
      /\ \A q \in DOMAIN order : q \in 1..l \/ q = l + 1 \/ \E j \in 1..m : q = l + 1 + j
      /\ \A x : x \in ToSet(order) <=> \/ x \in ToSet(old.order) \/ x = at
                                       \/ \E j \in 1..m : x = order[l + 1 + j]
  BY <1>1, <1>3, <1>5, <1>6
<1>8. /\ \A q \in DOMAIN old.order : old.order[q] \in 1..n
      /\ \A q \in DOMAIN order : order[q] \in 1..n
  <2>. DEFINE before == old.order
  <2>1. before \in Seq(1..n) /\ order \in Seq(1..n)
    BY <1>2, <1>3
  <2>. HIDE DEF before
  <2>2. \A q \in DOMAIN before : before[q] \in 1..n
    BY <2>1, MembersOf
  <2>3. \A q \in DOMAIN order : order[q] \in 1..n
    BY <2>1, MembersOf
  <2>. QED
    BY <2>2, <2>3 DEF before
<1>. QED
  BY <1>1, <1>2, <1>3, <1>4, <1>7, <1>8 DEF Adds, order, l, m, calls

\* A turn is placed behind the others, and keeps the messages arranged.
LEMMA TurnArranged ==
  ASSUME NEW built, Whole(built), NEW at \in DOMAIN built, NEW old, Arranged(built, old, at - 1),
         built[at].answers = NoCall
  PROVE  Arranged(built, PlaceMessage(built, old, at), at)
<1>. DEFINE n == Len(built)
            calls == built[at].calls
            m == Len(calls)
            l == Len(old.order)
            acc == PlaceMessage(built, old, at)
            order == acc.order
            before == ToSet(old.order)
            placed == ToSet(order)
<1>1. built \in Seq(MessageType) /\ n \in Nat /\ DOMAIN built = 1..n /\ at \in 1..n
  BY DEF Whole
<1>2. /\ old \in PlaceType(n) /\ PlacedOnce(old.order)
      /\ \A p \in DOMAIN built : built[p].answers = NoCall => (p \in before <=> p <= at - 1)
      /\ \A c \in Calls : Cardinality(Results(built, c) \cap before) = Slotted(built, c, at - 1)
      /\ Blocks(built, old.order)
      /\ old.moved # {} => \E q \in DOMAIN old.order : old.order[q] # q
      /\ old.moved = {} => /\ \A i, j \in DOMAIN old.order : i < j => old.order[i] < old.order[j]
                           /\ \A x \in before : \A y \in ((at - 1) + 1)..x : y \in before
  BY DEF Arranged
<1>3. at \notin before
  BY <1>1, <1>2
<1>4. Placing(built, old, at, acc, m)
  <2>. HIDE DEF acc
  <2>. QED
    BY <1>2, <1>3, TurnPlaced DEF acc
<1>. HIDE DEF acc
<1>5. /\ l \in Nat /\ m \in Nat
      /\ \A q \in DOMAIN old.order : old.order[q] \in 1..n
      /\ \A q \in DOMAIN order : order[q] \in 1..n
      /\ DOMAIN old.order = 1..l /\ DOMAIN order = 1..(l + 1 + m)
      /\ \A q \in 1..l : order[q] = old.order[q]
      /\ order[l + 1] = at
      /\ \A j \in 1..m : built[order[l + 1 + j]].answers = calls[j] /\ calls[j] \in Calls
      /\ \A q \in DOMAIN order : q \in 1..l \/ q = l + 1 \/ \E j \in 1..m : q = l + 1 + j
      /\ \A x : x \in placed <=> \/ x \in before \/ x = at
                                 \/ \E j \in 1..m : x = order[l + 1 + j]
  <2>1. Adds(built, old, at, acc)
    BY <1>2, <1>4, TurnAdds
  <2>. QED
    BY <2>1 DEF Adds
<1>6. \A j \in 1..m : built[order[l + 1 + j]].answers = calls[j] /\ calls[j] \in Calls
  BY <1>5
<1>7. \A q \in DOMAIN order : q \in 1..l \/ q = l + 1 \/ \E j \in 1..m : q = l + 1 + j
  BY <1>5
<1>8. \A x : x \in placed <=> \/ x \in before \/ x = at
                              \/ \E j \in 1..m : x = order[l + 1 + j]
  BY <1>5
<1>9. /\ acc \in PlaceType(n) /\ PlacedOnce(order)
      /\ \A c \in Calls : Cardinality(Results(built, c) \cap placed)
                            = Slotted(built, c, at - 1) + CountIn(SubSeq(calls, 1, m), c)
      /\ acc.moved = {} <=> old.moved = {} /\ \A j \in 1..m : order[l + 1 + j] = at + j
  BY <1>4 DEF Placing
<1>10. calls \in Seq(Calls)
  <2>1. built[at] \in MessageType
    BY <1>1
  <2>. QED
    BY <2>1 DEF MessageType
<1>11. NoCall \notin Calls
  BY ProjectionAssumption
<1>. HIDE DEF n, calls, m, l, order, before, placed
<1>12. (1..l) \subseteq DOMAIN order /\ l + 1 \in DOMAIN order /\ \A j \in 1..m : l + 1 + j \in DOMAIN order
  BY <1>5
<1>13. ASSUME NEW p \in DOMAIN built, built[p].answers = NoCall PROVE p \in placed <=> p <= at
  <2>1. p \in before <=> p <= at - 1
    BY <1>2, <1>13
  <2>2. \A j \in 1..m : p # order[l + 1 + j]
    BY <1>6, <1>11, <1>13
  <2>3. p \in placed <=> p \in before \/ p = at
    BY <1>8, <2>2
  <2>. QED
    BY <1>1, <2>1, <2>3
<1>14. ASSUME NEW c \in Calls PROVE Cardinality(Results(built, c) \cap placed) = Slotted(built, c, at)
  <2>1. CountIn(SubSeq(calls, 1, m), c) = CountIn(calls, c)
    BY <1>10, CountFirst DEF m
  <2>2. Slotted(built, c, at) = Slotted(built, c, at - 1) + CountIn(built[at].calls, c)
    BY <1>1, SlotsGrow DEF n
  <2>. QED
    BY <1>9, <2>1, <2>2 DEF calls
<1>15. ASSUME NEW q \in DOMAIN order, NEW i \in 1..Len(built[order[q]].calls)
       PROVE  q + i \in DOMAIN order /\ built[order[q + i]].answers = built[order[q]].calls[i]
  <2>1. CASE q \in 1..l
    <3>1. order[q] = old.order[q]
      BY <1>5, <2>1
    <3>2. q \in DOMAIN old.order /\ i \in 1..Len(built[old.order[q]].calls)
      BY <1>5, <2>1, <3>1
    <3>3. q + i \in DOMAIN old.order /\ built[old.order[q + i]].answers = built[old.order[q]].calls[i]
      BY <1>2, <3>2 DEF Blocks
    <3>. QED
      BY <1>5, <1>12, <3>1, <3>3
  <2>2. CASE q = l + 1
    <3>1. order[q] = at /\ i \in 1..m
      BY <1>5, <2>2 DEF m, calls
    <3>. QED
      BY <1>6, <1>12, <2>2, <3>1 DEF calls
  <2>3. ASSUME NEW j \in 1..m, q = l + 1 + j PROVE FALSE
    <3>1. built[order[q]].answers # NoCall
      BY <1>6, <1>11, <2>3
    <3>2. order[q] \in DOMAIN built
      BY <1>1, <1>5 DEF n
    <3>3. built[order[q]].calls = <<>>
      BY <3>1, <3>2 DEF Whole
    <3>4. i \in 1..0
      BY <3>3
    <3>. QED
      BY <3>4
  <2>. QED
    BY <1>7, <2>1, <2>2, <2>3
<1>16. ASSUME NEW q \in DOMAIN order, built[order[q]].answers # NoCall
       PROVE  \E h \in 1..(q - 1) : q - h <= Len(built[order[h]].calls)
  <2>1. CASE q \in 1..l
    <3>1. order[q] = old.order[q] /\ q \in DOMAIN old.order
      BY <1>5, <2>1
    <3>2. PICK h \in 1..(q - 1) : q - h <= Len(built[old.order[h]].calls)
      BY <1>2, <1>16, <3>1 DEF Blocks
    <3>3. h \in 1..l
      BY <1>5, <2>1
    <3>4. order[h] = old.order[h]
      BY <1>5, <3>3
    <3>. QED
      BY <3>2, <3>4
  <2>2. CASE q = l + 1
    BY <1>5, <1>16, <2>2
  <2>3. ASSUME NEW j \in 1..m, q = l + 1 + j
        PROVE  \E h \in 1..(q - 1) : q - h <= Len(built[order[h]].calls)
    <3>1. l + 1 \in 1..(q - 1) /\ q - (l + 1) = j /\ j <= m
      BY <1>5, <2>3
    <3>2. m = Len(built[order[l + 1]].calls)
      BY <1>5 DEF m, calls
    <3>3. q - (l + 1) <= Len(built[order[l + 1]].calls)
      BY <3>1, <3>2
    <3>. QED
      BY <3>1, <3>3
  <2>. QED
    BY <1>7, <2>1, <2>2, <2>3
<1>17. Blocks(built, order)
  BY <1>15, <1>16 DEF Blocks
<1>18. ASSUME acc.moved # {} PROVE \E q \in DOMAIN order : order[q] # q
  <2>1. CASE old.moved # {}
    <3>1. PICK q \in DOMAIN old.order : old.order[q] # q
      BY <1>2, <2>1
    <3>2. q \in 1..l
      BY <1>5, <3>1
    <3>3. q \in DOMAIN order /\ order[q] # q
      BY <1>5, <1>12, <3>1, <3>2
    <3>. QED
      BY <3>3
  <2>2. CASE old.moved = {}
    <3>1. PICK j \in 1..m : order[l + 1 + j] # at + j
      BY <1>9, <1>18, <2>2
    <3>2. CASE at = l + 1
      <4>1. l + 1 + j \in DOMAIN order /\ order[l + 1 + j] # l + 1 + j
        BY <1>12, <3>1, <3>2
      <4>. QED
        BY <4>1
    <3>3. CASE at # l + 1
      <4>1. l + 1 \in DOMAIN order /\ order[l + 1] # l + 1
        BY <1>5, <1>12, <3>3
      <4>. QED
        BY <4>1
    <3>. QED
      BY <3>2, <3>3
  <2>. QED
    BY <2>1, <2>2
<1>19. ASSUME acc.moved = {}
       PROVE  /\ \A i, j \in DOMAIN order : i < j => order[i] < order[j]
              /\ \A x \in placed : \A y \in (at + 1)..x : y \in placed
  <2>1. old.moved = {} /\ \A j \in 1..m : order[l + 1 + j] = at + j
    BY <1>9, <1>19
  <2>2. before \subseteq 1..n /\ at \in Nat
    BY <1>1, <1>5 DEF before, ToSet, n
  <2>3. \A x \in before : x < at
    <3> SUFFICES ASSUME NEW x \in before, x >= at PROVE FALSE
      BY <2>2
    <3>1. at \in ((at - 1) + 1)..x
      BY <2>2
    <3>. QED
      BY <1>2, <1>3, <2>1, <3>1
  <2>4. \A q \in 1..l : order[q] < at /\ order[q] \in Nat
    <3> SUFFICES ASSUME NEW q \in 1..l PROVE order[q] < at /\ order[q] \in Nat
      OBVIOUS
    <3>1. old.order[q] \in before
      BY <1>5 DEF before, ToSet
    <3>. QED
      BY <1>5, <2>2, <2>3, <3>1, SMTT(30)
  <2>5. ASSUME NEW i \in DOMAIN order, NEW j \in DOMAIN order, i < j PROVE order[i] < order[j]
    <3>1. CASE j \in 1..l
      <4>1. i \in 1..l
        BY <1>5, <2>5, <3>1
      <4>2. old.order[i] < old.order[j]
        BY <1>2, <1>5, <2>1, <2>5, <3>1, <4>1
      <4>. QED
        BY <1>5, <3>1, <4>1, <4>2
    <3>2. CASE j = l + 1
      <4>1. i \in 1..l
        BY <1>5, <2>5, <3>2
      <4>. QED
        BY <1>5, <2>4, <3>2, <4>1
    <3>3. ASSUME NEW b \in 1..m, j = l + 1 + b PROVE order[i] < order[j]
      <4>1. order[j] = at + b
        BY <2>1, <3>3
      <4>2. CASE i \in 1..l
        BY <2>2, <2>4, <4>1, <4>2
      <4>3. CASE i = l + 1
        BY <1>5, <2>2, <4>1, <4>3
      <4>4. ASSUME NEW a \in 1..m, i = l + 1 + a PROVE order[i] < order[j]
        <5>1. order[i] = at + a
          BY <2>1, <4>4
        <5>2. a < b
          BY <1>5, <2>5, <3>3, <4>4
        <5>. QED
          BY <2>2, <4>1, <5>1, <5>2
      <4>. QED
        BY <1>7, <4>2, <4>3, <4>4
    <3>. QED
      BY <1>7, <3>1, <3>2, <3>3
  <2>6. ASSUME NEW x \in placed, NEW y \in (at + 1)..x PROVE y \in placed
    <3>1. CASE x \in before
      BY <2>2, <2>3, <3>1
    <3>2. CASE x = at
      BY <2>2, <3>2
    <3>3. ASSUME NEW j \in 1..m, x = order[l + 1 + j] PROVE y \in placed
      <4>1. x = at + j
        BY <2>1, <3>3
      <4>2. y - at \in 1..m /\ at + (y - at) = y
        BY <1>5, <2>2, <4>1
      <4>3. order[l + 1 + (y - at)] = y
        BY <2>1, <4>2
      <4>. QED
        BY <1>8, <4>2, <4>3
    <3>. QED
      BY <1>8, <3>1, <3>2, <3>3
  <2>. QED
    BY <2>5, <2>6
<1>. QED
  BY <1>9, <1>13, <1>14, <1>17, <1>18, <1>19 DEF Arranged, acc, order, placed, n

\* in_wire_order keeps the messages arranged all the way, and at the end none is left over.
LEMMA WireArranged ==
  ASSUME NEW built, Whole(built)
  PROVE  \E acc : /\ Arranged(built, acc, Len(built)) /\ ToSet(acc.order) = DOMAIN built
                  /\ WireOrder(built) = [order |-> acc.order, moved |-> acc.moved]
<1>. DEFINE n == Len(built)
            none == [order |-> <<>>, adjacent |-> 0, moved |-> {}]
<1>1. built \in Seq(MessageType) /\ n \in Nat /\ DOMAIN built = 1..n
  BY DEF Whole
<1>2. PICK G \in [0..n -> PlaceType(n)] :
        /\ G[0] = none
        /\ \A k \in 1..n : G[k] = PlaceMessage(built, G[k - 1], k)
        /\ FoldLeft(LAMBDA acc, at : PlaceMessage(built, acc, at), none, [k \in DOMAIN built |-> k]) = G[n]
  BY <1>1, WireUnrolled
<1>. DEFINE S == {k \in 0..n : Arranged(built, G[k], k)}
<1>3. 0 \in S
  <2>1. none.order = <<>> /\ none.moved = {} /\ none \in PlaceType(n) /\ ToSet(<<>>) = {}
    BY DEF PlaceType, ToSet
  <2>2. ASSUME NEW c \in Calls PROVE Cardinality(Results(built, c) \cap {}) = Slotted(built, c, 0)
    <3>1. Results(built, c) \cap {} = {}
      OBVIOUS
    <3>2. Slotted(built, c, 0) = 0
      BY <1>1, SlotsGrow
    <3>. QED
      BY <3>1, <3>2, FS_EmptySet
  <2>3. DOMAIN <<>> = {} /\ \A p \in DOMAIN built : ~(p <= 0)
    BY <1>1
  <2>4. PlacedOnce(<<>>) /\ Blocks(built, <<>>)
    BY <2>3 DEF PlacedOnce, Blocks
  <2>. HIDE DEF none
  <2>5. Arranged(built, none, 0)
    BY <2>1, <2>2, <2>3, <2>4 DEF Arranged
  <2>6. 0 \in 0..n
    BY <1>1
  <2>. QED
    BY <1>2, <2>5, <2>6
<1>4. ASSUME NEW k \in 1..n, k - 1 \in S PROVE k \in S
  <2>1. k \in DOMAIN built /\ k \in 0..n /\ Arranged(built, G[k - 1], k - 1) /\ G[k] = PlaceMessage(built, G[k - 1], k)
    <3>1. Arranged(built, G[k - 1], k - 1)
      BY <1>4
    <3>2. k \in DOMAIN built /\ k \in 0..n
      BY <1>1
    <3>3. G[k] = PlaceMessage(built, G[k - 1], k)
      BY <1>2
    <3>. QED
      BY <3>1, <3>2, <3>3
  <2>. DEFINE old == G[k - 1]
  <2>. HIDE DEF old
  <2>2. Arranged(built, old, k - 1)
    BY <2>1 DEF old
  <2>3. Arranged(built, PlaceMessage(built, old, k), k)
    <3>1. CASE built[k].answers = NoCall
      BY <2>1, <2>2, <3>1, TurnArranged
    <3>2. CASE built[k].answers # NoCall
      BY <2>1, <2>2, <3>2, ResultWaits
    <3>. QED
      BY <3>1, <3>2
  <2>4. Arranged(built, G[k], k)
    BY <2>1, <2>3 DEF old
  <2>. QED
    BY <2>1, <2>4
<1>5. \A k \in 0..n : k \in S
  <2>. HIDE DEF S, n
  <2>. QED
    BY <1>1, <1>3, <1>4, InductionTo
<1>. DEFINE acc == G[n]
            placed == ToSet(acc.order)
<1>6. Arranged(built, acc, n)
  <2>1. n \in 0..n
    BY <1>1
  <2>. QED
    BY <1>5, <2>1
<1>7. WireOrder(built) = [order |-> acc.order \o Ascending(DOMAIN built \ placed), moved |-> acc.moved]
  BY <1>2 DEF WireOrder
<1>. HIDE DEF acc
<1>8. acc \in PlaceType(n)
  BY <1>6 DEF Arranged
<1>9. acc.order \in Seq(1..n) /\ placed \subseteq DOMAIN built
  <2>1. acc.order \in Seq(1..n)
    BY <1>8 DEF PlaceType
  <2>. QED
    BY <1>1, <2>1 DEF ToSet
<1>10. ASSUME NEW p \in DOMAIN built PROVE p \in placed
  <2>1. CASE built[p].answers = NoCall
    <3>1. p <= n
      BY <1>1
    <3>. QED
      BY <1>6, <2>1, <3>1 DEF Arranged
  <2>2. CASE built[p].answers # NoCall
    <3>. DEFINE c == built[p].answers
    <3>1. c \in Calls
      <4>1. built[p] \in MessageType
        BY <1>1
      <4>. QED
        BY <2>2, <4>1 DEF MessageType
    <3>2. p \in Results(built, c)
      BY DEF Results
    <3>. HIDE DEF c
    <3>3. Cardinality(Results(built, c) \cap placed) = Cardinality(Results(built, c))
      BY <1>6, <3>1 DEF Arranged, Whole
    <3>4. Results(built, c) \in SUBSET (1..n) /\ IsFiniteSet(1..n)
      BY <1>1, FS_Interval DEF Results
    <3>5. IsFiniteSet(Results(built, c))
      BY <3>4, FS_Subset
    <3>6. (Results(built, c) \cap placed) \in SUBSET Results(built, c)
      OBVIOUS
    <3>7. Results(built, c) = Results(built, c) \cap placed
      BY <3>3, <3>5, <3>6, FS_Subset
    <3>. QED
      BY <3>2, <3>7
  <2>. QED
    BY <2>1, <2>2
<1>11. placed = DOMAIN built
  BY <1>9, <1>10
<1>12. Ascending(DOMAIN built \ placed) = <<>>
  <2>1. DOMAIN built \ placed = {}
    BY <1>11
  <2>2. Ascending({}) \in Seq({})
    BY FS_EmptySet, AscendingLists
  <2>. DEFINE s == Ascending({})
  <2>. HIDE DEF s
  <2>3. s \in Seq({})
    BY <2>2 DEF s
  <2>4. s = <<>>
    BY <2>3
  <2>. QED
    BY <2>1, <2>4 DEF s
<1>13. acc.order \o <<>> = acc.order
  <2>. DEFINE s == acc.order
  <2>1. s \in Seq(1..n)
    BY <1>9
  <2>. HIDE DEF s
  <2>2. s \o <<>> = s
    BY <2>1
  <2>. QED
    BY <2>2 DEF s
<1>14. WireOrder(built) = [order |-> acc.order, moved |-> acc.moved]
  BY <1>7, <1>12, <1>13
<1>. QED
  BY <1>6, <1>11, <1>14

\* A list of all the numbers up to n, each larger than the one before, is those in order.
LEMMA AscendingWhole ==
  ASSUME NEW n \in Nat, NEW order \in Seq(1..n), ToSet(order) = 1..n,
         \A i, j \in DOMAIN order : i < j => order[i] < order[j]
  PROVE  \A q \in DOMAIN order : order[q] = q
<1>. DEFINE l == Len(order)
            S == {k \in 0..l : \A j \in 1..k : order[j] = j}
<1>1. l \in Nat /\ DOMAIN order = 1..l /\ \A q \in 1..l : order[q] \in 1..n
  BY MembersOf
<1>2. \A v \in 1..n : \E q \in 1..l : order[q] = v
  BY <1>1 DEF ToSet
<1>. HIDE DEF l
<1>3. 0 \in S
  BY <1>1
<1>4. ASSUME NEW q \in 1..l, q - 1 \in S PROVE q \in S
  <2>1. \A j \in 1..(q - 1) : order[j] = j
    BY <1>4
  <2>2. order[q] >= q
    <3>1. CASE q = 1
      BY <1>1, <3>1
    <3>2. CASE q # 1
      <4>1. q - 1 \in 1..(q - 1) /\ q - 1 \in 1..l /\ q - 1 < q
        BY <1>1, <3>2
      <4>2. order[q - 1] = q - 1 /\ order[q - 1] < order[q]
        BY <1>1, <2>1, <4>1
      <4>. QED
        BY <1>1, <4>2
    <3>. QED
      BY <3>1, <3>2
  <2>3. ASSUME order[q] > q PROVE FALSE
    <3>1. q \in 1..n
      BY <1>1, <2>3
    <3>2. PICK j \in 1..l : order[j] = q
      BY <1>2, <3>1
    <3>3. CASE j < q
      BY <1>1, <2>1, <3>2, <3>3
    <3>4. CASE j = q
      BY <2>3, <3>1, <3>2, <3>4
    <3>5. CASE q < j
      <4>1. order[q] < order[j]
        BY <1>1, <3>5
      <4>. QED
        BY <1>1, <2>3, <3>2, <4>1
    <3>. QED
      BY <1>1, <3>3, <3>4, <3>5
  <2>4. order[q] = q
    BY <1>1, <2>2, <2>3
  <2>5. \A j \in 1..q : j = q \/ j \in 1..(q - 1)
    BY <1>1
  <2>6. q \in 0..l
    BY <1>1
  <2>. QED
    BY <2>1, <2>4, <2>5, <2>6
<1>5. \A k \in 0..l : k \in S
  <2>. HIDE DEF S
  <2>. QED
    BY <1>1, <1>3, <1>4, InductionTo
<1>6. l \in 0..l
  BY <1>1
<1>. QED
  BY <1>1, <1>5, <1>6

\* Build writes its messages in the order of the items.
LEMMA BuiltInOrder ==
  ASSUME NEW list \in Seq(Item), Sorted(list)
  PROVE  LET built == Build(list).built
         IN  \A p, q \in DOMAIN built : p < q => built[p].id < built[q].id
<1>. DEFINE n == Len(list)
            built == Build(list).built
<1>1. PICK F : Building(list, F)
  BY BuildingIs
<1>2. n \in Nat /\ n \in 0..n /\ F \in [0..n -> BuildType] /\ built = F[n].built
  BY <1>1 DEF Building
<1>3. \A m \in 0..n : Placed(list, F, m)
  BY <1>1, BuiltPlaces
<1>4. \A m \in 0..n : Len(F[m].built) \in Nat /\ F[m].built \in Seq(MessageType)
  <2> SUFFICES ASSUME NEW m \in 0..n PROVE Len(F[m].built) \in Nat /\ F[m].built \in Seq(MessageType)
    OBVIOUS
  <2>1. F[m].built \in Seq(MessageType)
    BY <1>2 DEF BuildType
  <2>. QED
    BY <2>1
<1>5. ASSUME NEW k \in SentTo(list, F, n), NEW h \in SentTo(list, F, n), k < h
      PROVE  PlaceOf(F, k) < PlaceOf(F, h)
  <2>1. k \in 1..n /\ h \in 1..n /\ k \in 0..n /\ h - 1 \in 0..n /\ k \in 0..(h - 1) /\ k - 1 \in 0..n
    BY <1>2, <1>5 DEF SentTo
  <2>2. k \in SentTo(list, F, k)
    BY <2>1 DEF SentTo
  <2>3. PlaceOf(F, k) \in DOMAIN F[k].built
    BY <1>3, <2>1, <2>2 DEF Placed
  <2>4. Len(F[k].built) <= Len(F[h - 1].built)
    BY <1>3, <2>1 DEF Placed
  <2>5. PlaceOf(F, k) <= Len(F[k].built) /\ PlaceOf(F, k) \in Nat
    BY <1>4, <2>1, <2>3
  <2>6. PlaceOf(F, h) = Len(F[h - 1].built) + 1 /\ Len(F[h - 1].built) \in Nat /\ Len(F[k].built) \in Nat
    BY <1>4, <2>1 DEF PlaceOf
  <2>. QED
    BY <2>4, <2>5, <2>6
<1>6. ASSUME NEW p \in DOMAIN built, NEW q \in DOMAIN built, p < q
      PROVE  built[p].id < built[q].id
  <2>1. PICK k \in SentTo(list, F, n) : p = PlaceOf(F, k)
    BY <1>2, <1>3 DEF Placed
  <2>2. PICK h \in SentTo(list, F, n) : q = PlaceOf(F, h)
    BY <1>2, <1>3 DEF Placed
  <2>3. k \in 1..n /\ h \in 1..n
    BY DEF SentTo
  <2>4. F[n].built[p] = WrittenFor(F[k - 1], list[k]) /\ F[n].built[q] = WrittenFor(F[h - 1], list[h])
    BY <1>2, <1>3, <2>1, <2>2 DEF Placed
  <2>5. p \in Nat /\ q \in Nat
    <3>. HIDE DEF built
    <3>1. built \in Seq(MessageType)
      BY <1>2, <1>4
    <3>. QED
      BY <3>1
  <2>6. ~(h < k) /\ h # k
    <3>1. ASSUME h < k PROVE FALSE
      <4>1. q < p
        BY <1>5, <2>1, <2>2, <3>1
      <4>. QED
        BY <1>6, <2>5, <4>1
    <3>2. h # k
      BY <1>6, <2>1, <2>2, <2>5
    <3>. QED
      BY <3>1, <3>2
  <2>7. k < h
    BY <2>3, <2>6
  <2>8. list[k].id < list[h].id
    BY <2>3, <2>7 DEF Sorted
  <2>9. built[p].id = list[k].id /\ built[q].id = list[h].id
    BY <1>2, <2>4 DEF WrittenFor, Message
  <2>. QED
    BY <2>8, <2>9
<1>. QED
  BY <1>6

---------------------------------------------------------------------------
(* What holds of every list.                                               *)

\* A list of items as a context keeps them, and what it projects to.
Listed == items \in Seq(Item) /\ Sorted(items) /\ projection = Project(items)

\* What is sent is what build wrote, arranged by in_wire_order.
SentAs(built, acc) ==
  /\ built = Build(items).built /\ Whole(built)
  /\ Arranged(built, acc, Len(built)) /\ ToSet(acc.order) = DOMAIN built
  /\ DOMAIN Sent = DOMAIN acc.order
  /\ \A k \in DOMAIN Sent : Sent[k] = built[acc.order[k]] /\ acc.order[k] \in DOMAIN built
  /\ projection.reordered = acc.moved

LEMMA SentIs ==
  ASSUME RepairOrphans, Listed
  PROVE  \E built, acc : SentAs(built, acc)
<1>. DEFINE built == Build(items).built
<1>1. items \in Seq(Item) /\ projection = Project(items)
  BY DEF Listed
<1>2. Whole(built)
  <2>. HIDE DEF built
  <2>. QED
    BY <1>1, BuiltWhole DEF built
<1>3. PICK acc : /\ Arranged(built, acc, Len(built)) /\ ToSet(acc.order) = DOMAIN built
                 /\ WireOrder(built) = [order |-> acc.order, moved |-> acc.moved]
  <2>. HIDE DEF built
  <2>. QED
    BY <1>2, WireArranged
<1>4. /\ Sent = [k \in DOMAIN acc.order |-> built[acc.order[k]]]
      /\ projection.reordered = acc.moved
  BY <1>1, <1>3 DEF Sent, Project
<1>5. ASSUME NEW k \in DOMAIN acc.order PROVE acc.order[k] \in DOMAIN built
  BY <1>3 DEF ToSet
<1>. HIDE DEF built
<1>6. DOMAIN Sent = DOMAIN acc.order
  BY <1>4
<1>7. \A k \in DOMAIN Sent : Sent[k] = built[acc.order[k]]
  BY <1>4
<1>8. SentAs(built, acc)
  BY <1>2, <1>3, <1>4, <1>5, <1>6, <1>7 DEF SentAs, built
<1>. QED
  BY <1>8

\* With repair, every call that any list of items sends is followed at once by its own
\* results, in the order of the calls, and no result goes out anywhere else: `build` leaves
\* as many results of a call as places that make it, so `in_wire_order` finds one for each.
THEOREM ListPairsWhole ==
  ASSUME RepairOrphans, Listed
  PROVE  PairsWhole
<1>1. PICK built, acc : SentAs(built, acc)
  BY SentIs
<1>. DEFINE order == acc.order
<1>2. /\ Blocks(built, order) /\ DOMAIN Sent = DOMAIN order
      /\ \A k \in DOMAIN Sent : Sent[k] = built[order[k]]
  BY <1>1 DEF SentAs, Arranged
<1>3. DOMAIN order = 1..Len(order) /\ Len(order) \in Nat
  <2>1. order \in Seq(1..Len(built))
    BY <1>1 DEF SentAs, Arranged, PlaceType
  <2>. HIDE DEF order
  <2>. QED
    BY <2>1
<1>. HIDE DEF order
<1>4. ASSUME NEW p \in DOMAIN Sent, NEW k \in 1..Len(Sent[p].calls)
      PROVE  p + k \in DOMAIN Sent /\ Sent[p + k].answers = Sent[p].calls[k]
  <2>1. p \in DOMAIN order /\ Sent[p] = built[order[p]] /\ k \in 1..Len(built[order[p]].calls)
    BY <1>2, <1>4
  <2>2. p + k \in DOMAIN order /\ built[order[p + k]].answers = built[order[p]].calls[k]
    BY <1>2, <2>1 DEF Blocks
  <2>. QED
    BY <1>2, <2>1, <2>2
<1>5. ASSUME NEW r \in DOMAIN Sent, Sent[r].answers # NoCall
      PROVE  \E p \in 1..(r - 1) : r - p <= Len(Sent[p].calls)
  <2>1. r \in DOMAIN order /\ built[order[r]].answers # NoCall
    BY <1>2, <1>5
  <2>2. PICK p \in 1..(r - 1) : r - p <= Len(built[order[p]].calls)
    BY <1>2, <2>1 DEF Blocks
  <2>3. p \in DOMAIN Sent
    BY <1>2, <1>3, <2>1
  <2>. QED
    BY <1>2, <2>2, <2>3
<1>. QED
  BY <1>4, <1>5 DEF PairsWhole

\* With repair, the list of moved items is empty exactly when the request has the order
\* of the context: what stands where `in_wire_order` expects it is not reported, and if
\* everything does, nothing was moved.
THEOREM ListMovesReported ==
  ASSUME RepairOrphans, Listed
  PROVE  MovesReported
<1>1. PICK built, acc : SentAs(built, acc)
  BY SentIs
<1>. DEFINE order == acc.order
            ids == [k \in DOMAIN Sent |-> Sent[k].id]
            n == Len(built)
<1>2. /\ DOMAIN Sent = DOMAIN order
      /\ \A k \in DOMAIN Sent : Sent[k] = built[order[k]] /\ order[k] \in DOMAIN built
      /\ projection.reordered = acc.moved
  BY <1>1 DEF SentAs
<1>3. built \in Seq(MessageType) /\ n \in Nat /\ DOMAIN built = 1..n
  <2>1. built \in Seq(MessageType)
    BY <1>1 DEF SentAs, Whole
  <2>. QED
    BY <2>1
<1>4. /\ order \in Seq(1..n) /\ ToSet(order) = 1..n
      /\ acc.moved # {} => \E q \in DOMAIN order : order[q] # q
      /\ acc.moved = {} => \A i, j \in DOMAIN order : i < j => order[i] < order[j]
  BY <1>1, <1>3 DEF SentAs, Arranged, PlaceType
<1>5. \A p, q \in DOMAIN built : p < q => built[p].id < built[q].id
  BY <1>1, BuiltInOrder DEF SentAs, Listed
<1>6. \A p \in DOMAIN built : built[p].id \in Nat
  <2> SUFFICES ASSUME NEW p \in DOMAIN built PROVE built[p].id \in Nat
    OBVIOUS
  <2>1. built[p] \in MessageType
    BY <1>3
  <2>. QED
    BY <2>1 DEF MessageType
<1>. HIDE DEF order
<1>7. ASSUME NEW i \in DOMAIN order, NEW j \in DOMAIN order
      PROVE  ids[i] < ids[j] <=> order[i] < order[j]
  <2>1. ids[i] = built[order[i]].id /\ ids[j] = built[order[j]].id
        /\ order[i] \in DOMAIN built /\ order[j] \in DOMAIN built
    BY <1>2
  <2>2. order[i] \in Nat /\ order[j] \in Nat
    BY <1>3, <2>1
  <2>. DEFINE p == order[i]
              q == order[j]
              x == built[p].id
              y == built[q].id
  <2>3. p \in Nat /\ q \in Nat /\ x \in Nat /\ y \in Nat /\ (p < q => x < y) /\ (q < p => y < x) /\ (p = q => x = y)
    BY <1>5, <1>6, <2>1, <2>2
  <2>4. ids[i] = x /\ ids[j] = y
    BY <2>1
  <2>. HIDE DEF p, q, x, y, ids
  <2>5. x < y <=> p < q
    BY <2>3
  <2>. QED
    BY <2>4, <2>5 DEF p, q
<1>. DEFINE ordered == \A i, j \in DOMAIN order : i < j => order[i] < order[j]
<1>8. (\A i, j \in DOMAIN ids : i < j => ids[i] < ids[j]) <=> ordered
  <2>1. DOMAIN ids = DOMAIN order
    BY <1>2
  <2>. HIDE DEF ids
  <2>. QED
    BY <1>7, <2>1
<1>9. ASSUME ordered PROVE \A q \in DOMAIN order : order[q] = q
  BY <1>3, <1>4, <1>9, AscendingWhole
<1>10. acc.moved = {} <=> ordered
  BY <1>4, <1>9
<1>. HIDE DEF ordered
<1>. QED
  BY <1>2, <1>8, <1>10 DEF MovesReported

\* What of an item goes out: its message and no other, if it is sent; and what is not
\* sent is skipped.
LEMMA SentOfItem ==
  ASSUME RepairOrphans, Listed, NEW F, Building(items, F)
  PROVE  /\ Included = {items[k].id : k \in SentTo(items, F, Len(items))}
         /\ Skipped = {items[k].id : k \in (1..Len(items)) \ SentTo(items, F, Len(items))}
         /\ \A p, q \in DOMAIN Sent : Sent[p].id = Sent[q].id => p = q
         /\ \A p \in DOMAIN Sent : \E k \in SentTo(items, F, Len(items)) :
              Sent[p] = WrittenFor(F[k - 1], items[k]) /\ Sent[p].id = items[k].id
<1>. DEFINE n == Len(items)
            through == SentTo(items, F, n)
<1>1. PICK built, acc : SentAs(built, acc)
  BY SentIs
<1>2. items \in Seq(Item) /\ Sorted(items) /\ projection = Project(items)
  BY DEF Listed
<1>3. Included = {items[k].id : k \in through}
  <2>1. Carrying(items) = {items[k].id : k \in through}
    BY <1>2, CarryingIs
  <2>2. Included = Carrying(items)
    BY <1>2 DEF Included, Carrying, Sent
  <2>. QED
    BY <2>1, <2>2
<1>4. n \in 0..n /\ Build(items) = F[n] /\ Placed(items, F, n)
  <2>1. n \in 0..n /\ Build(items) = F[n]
    BY <1>2 DEF Building
  <2>. QED
    BY <1>2, <2>1, BuiltPlaces
<1>5. Skipped = {items[k].id : k \in (1..n) \ through}
  <2>1. Skipped = F[n].skipped
    BY <1>2, <1>4 DEF Skipped, Project
  <2>. QED
    BY <1>4, <2>1 DEF Placed
<1>. DEFINE order == acc.order
<1>6. /\ DOMAIN Sent = DOMAIN order /\ built = F[n].built
      /\ \A k \in DOMAIN Sent : Sent[k] = built[order[k]] /\ order[k] \in DOMAIN built
      /\ PlacedOnce(order)
  BY <1>1, <1>4 DEF SentAs, Arranged
<1>7. built \in Seq(MessageType)
  BY <1>1 DEF SentAs, Whole
<1>8. \A p, q \in DOMAIN built : p < q => built[p].id < built[q].id
  BY <1>1, <1>2, BuiltInOrder DEF SentAs
<1>. HIDE DEF order
<1>9. ASSUME NEW p \in DOMAIN built, NEW q \in DOMAIN built, built[p].id = built[q].id
      PROVE  p = q
  <2>1. built[p].id \in Nat /\ built[q].id \in Nat
    <3>1. built[p] \in MessageType /\ built[q] \in MessageType
      BY <1>7
    <3>. QED
      BY <3>1 DEF MessageType
  <2>2. p \in Nat /\ q \in Nat
    BY <1>7
  <2>. DEFINE x == built[p].id
              y == built[q].id
  <2>3. x \in Nat /\ y \in Nat /\ x = y /\ (p < q => x < y) /\ (q < p => y < x)
    BY <1>8, <1>9, <2>1
  <2>. HIDE DEF x, y
  <2>. QED
    BY <2>2, <2>3
<1>10. ASSUME NEW p \in DOMAIN Sent, NEW q \in DOMAIN Sent, Sent[p].id = Sent[q].id
       PROVE  p = q
  <2>1. order[p] = order[q]
    BY <1>6, <1>9, <1>10
  <2>. QED
    BY <1>6, <2>1 DEF PlacedOnce
<1>11. ASSUME NEW p \in DOMAIN Sent
       PROVE  \E k \in through : Sent[p] = WrittenFor(F[k - 1], items[k]) /\ Sent[p].id = items[k].id
  <2>1. order[p] \in DOMAIN F[n].built /\ Sent[p] = F[n].built[order[p]]
    BY <1>6
  <2>2. PICK k \in through : order[p] = PlaceOf(F, k)
    BY <1>4, <2>1 DEF Placed
  <2>3. F[n].built[order[p]] = WrittenFor(F[k - 1], items[k])
    BY <1>4, <2>2 DEF Placed
  <2>4. WrittenFor(F[k - 1], items[k]).id = items[k].id
    BY DEF WrittenFor, Message
  <2>. QED
    BY <2>1, <2>3, <2>4
<1>. HIDE DEF n, through
<1>. QED
  BY <1>3, <1>5, <1>10, <1>11 DEF n, through

\* Identifiers of a sorted list are distinct.
LEMMA SortedApart ==
  ASSUME NEW list \in Seq(Item), Sorted(list), NEW j \in DOMAIN list, NEW k \in DOMAIN list,
         list[j].id = list[k].id
  PROVE  j = k
<1>1. j \in Nat /\ k \in Nat /\ list[j] \in Item /\ list[k] \in Item
  OBVIOUS
<1>2. list[j].id \in Nat /\ list[k].id \in Nat
  BY <1>1 DEF Item
<1>. DEFINE x == list[j].id
            y == list[k].id
<1>3. x \in Nat /\ y \in Nat /\ x = y /\ (j < k => x < y) /\ (k < j => y < x)
  BY <1>2 DEF Sorted
<1>. HIDE DEF x, y
<1>. QED
  BY <1>1, <1>3

\* A sent item goes out as what was written for it, and an item not sent not at all.
LEMMA SentAsWritten ==
  ASSUME RepairOrphans, Listed, NEW F, Building(items, F), NEW k \in DOMAIN items
  PROVE  LET sentAs == {p \in DOMAIN Sent : Sent[p].id = items[k].id}
         IN  /\ sentAs # {} <=> IsSent(F[k - 1], items[k])
             /\ \A p \in sentAs : Sent[p] = WrittenFor(F[k - 1], items[k])
<1>. DEFINE n == Len(items)
            through == SentTo(items, F, n)
            sentAs == {p \in DOMAIN Sent : Sent[p].id = items[k].id}
<1>1. items \in Seq(Item) /\ Sorted(items) /\ DOMAIN items = 1..n
  BY DEF Listed
<1>2. k \in through <=> IsSent(F[k - 1], items[k])
  BY <1>1 DEF SentTo
<1>3. Included = {items[j].id : j \in through}
  BY SentOfItem
<1>4. ASSUME NEW p \in DOMAIN Sent
      PROVE  \E j \in through : Sent[p] = WrittenFor(F[j - 1], items[j]) /\ Sent[p].id = items[j].id
  BY SentOfItem
<1>5. through \subseteq DOMAIN items
  BY <1>1 DEF SentTo
<1>. HIDE DEF through
<1>6. ASSUME NEW p \in sentAs PROVE k \in through /\ Sent[p] = WrittenFor(F[k - 1], items[k])
  <2>1. PICK j \in through : Sent[p] = WrittenFor(F[j - 1], items[j]) /\ Sent[p].id = items[j].id
    BY <1>4
  <2>2. items[j].id = items[k].id /\ j \in DOMAIN items
    BY <1>5, <2>1
  <2>3. j = k
    BY <1>1, <2>2, SortedApart
  <2>. QED
    BY <2>1, <2>3
<1>7. ASSUME k \in through PROVE sentAs # {}
  <2>1. items[k].id \in Included
    BY <1>3, <1>7
  <2>. QED
    BY <2>1 DEF Included
<1>. QED
  BY <1>2, <1>6, <1>7

\* Who names no call at all keeps none.
LEMMA KeepsNone ==
  ASSUME NEW kept \in Seq(Calls)
  PROVE  kept = <<>> <=> \A c \in Calls : CountIn(kept, c) = 0
<1>1. ASSUME kept # <<>> PROVE \E c \in Calls : CountIn(kept, c) # 0
  <2>. DEFINE c == kept[1]
              places == {j \in DOMAIN kept : kept[j] = c}
  <2>1. 1 \in DOMAIN kept /\ c \in Calls /\ Len(kept) \in Nat /\ places \in SUBSET (1..Len(kept))
    BY <1>1
  <2>2. 1 \in places
    BY <2>1
  <2>3. IsFiniteSet(1..Len(kept))
    BY <2>1, FS_Interval
  <2>. HIDE DEF places
  <2>4. Cardinality(places) # 0
    BY <2>1, <2>2, <2>3, FS_Subset, FS_EmptySet
  <2>5. CountIn(kept, c) # 0
    BY <2>4 DEF CountIn, places
  <2>. QED
    BY <2>1, <2>5
<1>2. \A c : CountIn(<<>>, c) = 0
  BY CountNone
<1>. QED
  BY <1>1, <1>2

\* A result is sent when the call it answers is made at least as often as its rank among
\* the results of the call.
LEMMA ResultByRank ==
  ASSUME RepairOrphans, NEW list \in Seq(Item), NEW F, Building(list, F), NEW k \in DOMAIN list,
         IsProjected(list[k].state), list[k].kind = "result"
  PROVE  LET c == list[k].answers
         IN  /\ c \in Calls
             /\ IsSent(F[k - 1], list[k])
                  <=> Cardinality({j \in Answering(list, c) : j <= k}) <= Cardinality(Asking(list, c))
<1>. DEFINE n == Len(list)
            c == list[k].answers
            made == Cardinality(Asking(list, c))
            before == Cardinality(AnsweringTo(list, c, k - 1))
            rank == Cardinality(AnsweringTo(list, c, k))
            left == F[k - 1].calls[c]
<1>1. k \in 1..n /\ k - 1 \in 0..n /\ list[k] \in Item
  OBVIOUS
<1>2. c \in Calls
  BY <1>1 DEF Item
<1>3. Counted(list, F, c, k - 1)
  BY <1>1, <1>2, BuildingCounts
<1>4. left = Beyond(made, before)
  BY <1>3 DEF Counted
<1>5. rank = before + 1 /\ before \in Nat
  <2>. HIDE DEF c
  <2>1. rank = before + ComesFor(list[k], c) /\ before \in Nat
    BY <1>1, <1>2, CountedSoFar
  <2>2. ComesFor(list[k], c) = 1
    BY DEF ComesFor, c
  <2>. QED
    BY <2>1, <2>2
<1>6. made \in Nat
  <2>1. Pairings(list).calls \in [Calls -> Nat]
    BY PairingsTyped
  <2>. QED
    BY <1>2, <2>1 DEF Pairings
<1>7. IsSent(F[k - 1], list[k]) <=> left # 0
  BY DEF IsSent
<1>8. rank = Cardinality({j \in Answering(list, c) : j <= k})
  BY DEF AnsweringTo
<1>. HIDE DEF made, before, rank, left
<1>9. left # 0 <=> rank <= made
  BY <1>4, <1>5, <1>6 DEF Beyond
<1>. QED
  BY <1>2, <1>7, <1>8, <1>9 DEF made

\* A turn keeps as many of a call as it makes, or as there are results that the turns
\* before it have not claimed.
LEMMA TurnByRank ==
  ASSUME RepairOrphans, NEW list \in Seq(Item), NEW F, Building(list, F), NEW k \in DOMAIN list,
         NEW c \in Calls, list[k].kind = "assistant"
  PROVE  LET want == CountIn(CallsOf(list[k]), c)
             left == Cardinality(Answering(list, c)) - Cardinality({p \in Asking(list, c) : p[1] < k})
         IN  CountIn(ClaimCalls(list[k].calls, F[k - 1].answers).kept, c)
               = IF left <= 0 THEN 0 ELSE IF left < want THEN left ELSE want
<1>. DEFINE n == Len(list)
            calls == list[k].calls
            results == Cardinality(Answering(list, c))
            before == Cardinality(AskingTo(list, c, k - 1))
            there == F[k - 1].answers
            turn == ClaimCalls(calls, there)
            want == CountIn(calls, c)
<1>1. k \in 1..n /\ k - 1 \in 0..n /\ list[k] \in Item /\ n \in Nat
  OBVIOUS
<1>2. calls \in Seq(Calls) /\ CallsOf(list[k]) = calls
  BY <1>1 DEF Item, CallsOf
<1>3. there \in [Calls -> Nat]
  BY <1>1 DEF Building, BuildType
<1>4. there[c] = Beyond(results, before)
  <2>1. Counted(list, F, c, k - 1)
    BY <1>1, BuildingCounts
  <2>. QED
    BY <2>1 DEF Counted
<1>5. /\ CountIn(turn.kept, c) + turn.left[c] = there[c]
      /\ turn.left[c] = Beyond(there[c], want)
      /\ CountIn(turn.kept, c) \in Nat /\ turn.left[c] \in Nat /\ want \in Nat
  <2>. HIDE DEF calls, there
  <2>. QED
    BY <1>2, <1>3, ClaimCounts
<1>6. results \in Nat /\ before \in Nat
  <2>1. before \in Nat
    BY <1>1, CountedSoFar
  <2>2. Pairings(list).answers \in [Calls -> Nat]
    BY PairingsTyped
  <2>. QED
    BY <2>1, <2>2 DEF Pairings
<1>7. {p \in Asking(list, c) : p[1] < k} = AskingTo(list, c, k - 1)
  <2>1. \A p \in Asking(list, c) : p[1] \in Nat
    BY DEF Asking, Projected
  <2>. QED
    BY <1>1, <2>1 DEF AskingTo
<1>. DEFINE K == CountIn(turn.kept, c)
            L == turn.left[c]
            A == there[c]
            left == results - before
<1>. HIDE DEF results, before, there, turn, want, K, L, A, calls
<1>8. K = IF left <= 0 THEN 0 ELSE IF left < want THEN left ELSE want
  <2>1. K + L = A /\ L = Beyond(A, want) /\ A = Beyond(results, before) /\ K \in Nat /\ L \in Nat /\ want \in Nat
    BY <1>4, <1>5 DEF K, L, A
  <2>2. CASE results <= before
    <3>1. A = 0
      BY <1>6, <2>1, <2>2 DEF Beyond
    <3>. QED
      BY <1>6, <2>1, <2>2, <3>1
  <2>3. CASE before < results
    <3>1. A = left /\ left \in Nat /\ left > 0
      BY <1>6, <2>1, <2>3 DEF Beyond
    <3>2. CASE left < want
      <4>1. L = 0
        BY <2>1, <3>1, <3>2 DEF Beyond
      <4>. QED
        BY <2>1, <3>1, <3>2, <4>1
    <3>3. CASE want <= left
      <4>1. L = A - want
        BY <2>1, <3>1, <3>3 DEF Beyond
      <4>. QED
        BY <2>1, <3>1, <3>3, <4>1
    <3>. QED
      BY <2>1, <3>1, <3>2, <3>3
  <2>. QED
    BY <1>6, <2>2, <2>3
<1>. QED
  BY <1>2, <1>7, <1>8 DEF K, results, before, there, turn, want, calls

\* What of what pair goes out is by rank.
LEMMA ByRank ==
  ASSUME RepairOrphans, Listed
  PROVE  RanksDecide
<1>. DEFINE rank(k) == Cardinality({j \in Answering(items, items[k].answers) : j <= k})
            made(c) == Cardinality(Asking(items, c))
            before(k, c) == Cardinality({p \in Asking(items, c) : p[1] < k})
            kept(k, c) == LET want == CountIn(CallsOf(items[k]), c)
                              left == Cardinality(Answering(items, c)) - before(k, c)
                          IN  IF left <= 0 THEN 0 ELSE IF left < want THEN left ELSE want
            sentAs(k) == {p \in DOMAIN Sent : Sent[p].id = items[k].id}
<1>1. items \in Seq(Item)
  BY DEF Listed
<1>2. PICK F : Building(items, F)
  BY <1>1, BuildingIs
<1>3. ASSUME NEW k \in Projected(items)
      PROVE  /\ k \in DOMAIN items /\ IsProjected(items[k].state) /\ items[k] \in Item
             /\ sentAs(k) # {} <=> IsSent(F[k - 1], items[k])
             /\ \A p \in sentAs(k) : Sent[p] = WrittenFor(F[k - 1], items[k])
  <2>1. k \in DOMAIN items /\ IsProjected(items[k].state) /\ items[k] \in Item
    BY <1>1 DEF Projected
  <2>. QED
    BY <1>2, <2>1, SentAsWritten
<1>4. ASSUME NEW k \in Projected(items), items[k].kind = "plain" PROVE sentAs(k) # {}
  <2>. HIDE DEF sentAs
  <2>. QED
    BY <1>3, <1>4 DEF IsSent
<1>5. ASSUME NEW k \in Projected(items), items[k].kind = "result"
      PROVE  sentAs(k) # {} <=> rank(k) <= made(items[k].answers)
  <2>. HIDE DEF sentAs
  <2>1. k \in DOMAIN items /\ IsProjected(items[k].state)
    BY <1>3
  <2>2. IsSent(F[k - 1], items[k]) <=> rank(k) <= made(items[k].answers)
    BY <1>1, <1>2, <1>5, <2>1, ResultByRank
  <2>. QED
    BY <1>3, <2>2
<1>6. ASSUME NEW k \in Projected(items), items[k].kind = "assistant"
      PROVE  /\ sentAs(k) = {} <=> /\ Says(items[k]) = "nothing"
                                   /\ \A c \in Calls : kept(k, c) = 0
             /\ \A p \in sentAs(k), c \in Calls : CountIn(Sent[p].calls, c) = kept(k, c)
  <2>. DEFINE turn == ClaimCalls(items[k].calls, F[k - 1].answers)
  <2>1. k \in DOMAIN items /\ IsProjected(items[k].state) /\ items[k] \in Item
    BY <1>3
  <2>2. turn.kept \in Seq(Calls)
    <3>1. items[k].calls \in Seq(Calls)
      BY <2>1 DEF Item
    <3>2. F[k - 1] \in BuildType
      <4>1. k - 1 \in 0..Len(items)
        BY <1>1, <2>1
      <4>. QED
        BY <1>2, <4>1 DEF Building
    <3>3. F[k - 1].answers \in [Calls -> Nat]
      BY <3>2 DEF BuildType
    <3>. QED
      BY <3>1, <3>3, ClaimTyped DEF ClaimType
  <2>3. ASSUME NEW c \in Calls PROVE CountIn(turn.kept, c) = kept(k, c)
    BY <1>1, <1>2, <1>6, <2>1, TurnByRank
  <2>4. turn.kept = <<>> <=> \A c \in Calls : CountIn(turn.kept, c) = 0
    <3>. HIDE DEF turn
    <3>. QED
      BY <2>2, KeepsNone
  <2>5. IsSent(F[k - 1], items[k]) <=> Says(items[k]) # "nothing" \/ turn.kept # <<>>
    BY <1>6, <2>1 DEF IsSent
  <2>6. ASSUME NEW p \in sentAs(k) PROVE Sent[p].calls = turn.kept
    <3>1. Sent[p] = WrittenFor(F[k - 1], items[k])
      BY <1>3
    <3>. HIDE DEF turn
    <3>. QED
      BY <1>6, <3>1 DEF WrittenFor, Message, turn
  <2>7. sentAs(k) # {} <=> IsSent(F[k - 1], items[k])
    BY <1>3
  <2>. HIDE DEF sentAs, turn, kept
  <2>. QED
    BY <2>3, <2>4, <2>5, <2>6, <2>7
<1>7. \A k \in Projected(items) : items[k].kind \in Kinds
  BY <1>3 DEF Item
<1>. HIDE DEF rank, made, kept, sentAs
<1>8. \A k \in Projected(items) :
        CASE items[k].kind = "plain" -> sentAs(k) # {}
          [] items[k].kind = "result" -> sentAs(k) # {} <=> rank(k) <= made(items[k].answers)
          [] items[k].kind = "assistant" ->
               /\ sentAs(k) = {} <=> /\ Says(items[k]) = "nothing"
                                     /\ \A c \in Calls : kept(k, c) = 0
               /\ \A p \in sentAs(k), c \in Calls : CountIn(Sent[p].calls, c) = kept(k, c)
  BY <1>4, <1>5, <1>6, <1>7 DEF Kinds
<1>. QED
  BY <1>8 DEF RanksDecide, rank, made, kept, sentAs

\* Nothing of any list is lost without a word: every item is sent, once, or listed as
\* skipped, and never both; and of what pair which half goes out is by rank.
THEOREM ListNothingLost ==
  ASSUME RepairOrphans, Listed
  PROVE  NothingLost
<1>. DEFINE n == Len(items)
<1>1. items \in Seq(Item) /\ Sorted(items) /\ DOMAIN items = 1..n
  BY DEF Listed
<1>2. PICK F : Building(items, F)
  BY <1>1, BuildingIs
<1>. DEFINE through == SentTo(items, F, n)
<1>3. /\ Included = {items[k].id : k \in through}
      /\ Skipped = {items[k].id : k \in (1..n) \ through}
      /\ \A p, q \in DOMAIN Sent : Sent[p].id = Sent[q].id => p = q
  BY <1>2, SentOfItem
<1>4. through \subseteq 1..n
  BY DEF SentTo
<1>. HIDE DEF through
<1>5. Included \cup Skipped = Ids(items)
  BY <1>1, <1>3, <1>4 DEF Ids
<1>6. ASSUME NEW k \in DOMAIN Sent PROVE Sent[k].id \notin Skipped
  <2> SUFFICES ASSUME Sent[k].id \in Skipped PROVE FALSE
    OBVIOUS
  <2>1. PICK i \in through : items[i].id = Sent[k].id
    BY <1>3 DEF Included
  <2>2. PICK j \in (1..n) \ through : items[j].id = Sent[k].id
    BY <1>3
  <2>3. i = j
    BY <1>1, <1>4, <2>1, <2>2, SortedApart
  <2>. QED
    BY <2>1, <2>2, <2>3
<1>. QED
  BY <1>3, <1>5, <1>6, ByRank DEF NothingLost

\* A list with one item in another state.
LEMMA StateChanged ==
  ASSUME NEW list \in Seq(Item), NEW k \in DOMAIN list, NEW state \in States
  PROVE  LET other == [list EXCEPT ![k].state = state]
         IN  /\ other \in Seq(Item) /\ Len(other) = Len(list) /\ DOMAIN other = DOMAIN list
             /\ \A j \in DOMAIN list : j # k => other[j] = list[j]
             /\ other[k] = [list[k] EXCEPT !.state = state]
             /\ \A j \in DOMAIN list : /\ other[j].kind = list[j].kind /\ other[j].calls = list[j].calls
                                       /\ other[j].answers = list[j].answers /\ other[j].id = list[j].id
                                       /\ NamedCalls(other[j]) = NamedCalls(list[j])
<1>. DEFINE other == [list EXCEPT ![k].state = state]
            new == [list[k] EXCEPT !.state = state]
<1>1. list[k] \in Item
  OBVIOUS
<1>2. /\ new \in Item /\ new.kind = list[k].kind /\ new.calls = list[k].calls
      /\ new.answers = list[k].answers /\ new.id = list[k].id /\ new.state = state
  BY <1>1 DEF Item
<1>. HIDE DEF new
<1>3. other = [list EXCEPT ![k] = new]
  BY DEF new
<1>. HIDE DEF other
<1>4. /\ other \in Seq(Item) /\ Len(other) = Len(list) /\ DOMAIN other = DOMAIN list
      /\ \A j \in DOMAIN list : j # k => other[j] = list[j]
      /\ other[k] = new
  BY <1>2, <1>3
<1>5. ASSUME NEW j \in DOMAIN list
      PROVE  /\ other[j].kind = list[j].kind /\ other[j].calls = list[j].calls
             /\ other[j].answers = list[j].answers /\ other[j].id = list[j].id
  <2>1. CASE j = k
    BY <1>2, <1>4, <2>1
  <2>2. CASE j # k
    BY <1>4, <2>2
  <2>. QED
    BY <2>1, <2>2
<1>6. ASSUME NEW j \in DOMAIN list PROVE NamedCalls(other[j]) = NamedCalls(list[j])
  BY <1>5 DEF NamedCalls, CallsOf
<1>. QED
  BY <1>4, <1>5, <1>6 DEF other, new

\* An item that is elided keeps its place.
LEMMA ElidedStays ==
  ASSUME NEW list \in Seq(Item), Sorted(list), NEW k \in DOMAIN list, list[k].state = "Active"
  PROVE  Carrying(list) \subseteq Carrying([list EXCEPT ![k].state = "Elided"])
<1>. DEFINE n == Len(list)
            other == [list EXCEPT ![k].state = "Elided"]
<1>1. "Elided" \in States
  BY DEF States
<1>2. /\ other \in Seq(Item) /\ Len(other) = n /\ DOMAIN other = DOMAIN list
      /\ \A j \in DOMAIN list : j # k => other[j] = list[j]
      /\ other[k] = [list[k] EXCEPT !.state = "Elided"]
      /\ \A j \in DOMAIN list : /\ other[j].kind = list[j].kind /\ other[j].calls = list[j].calls
                                /\ other[j].answers = list[j].answers /\ other[j].id = list[j].id
  BY <1>1, StateChanged
<1>. HIDE DEF other
<1>3. DOMAIN list = 1..n /\ n \in Nat /\ list[k] \in Item /\ k \in 1..n
  OBVIOUS
<1>4. other[k].state = "Elided"
  BY <1>2, <1>3 DEF Item
<1>5. ASSUME NEW c PROVE AsMany(list, other, c)
  <2>1. \A j \in DOMAIN list : IsProjected(list[j].state) <=> IsProjected(other[j].state)
    BY <1>2, <1>4 DEF IsProjected
  <2>. QED
    BY <1>2, <1>3, <2>1 DEF AsMany
<1>6. \A i, j \in DOMAIN list : list[i].id = list[j].id => i = j
  BY SortedApart
<1>7. PICK F : Building(list, F)
  BY BuildingIs
<1>8. PICK G : Building(other, G)
  BY <1>2, BuildingIs
<1>9. ASSUME k \in SentTo(list, F, n) PROVE k \in SentTo(other, G, n)
  <2>1. IsSent(F[k - 1], list[k])
    BY <1>9 DEF SentTo
  <2>2. ASSUME other[k].kind = "result", RepairOrphans PROVE G[k - 1].calls[other[k].answers] # 0
    <3>. DEFINE c == list[k].answers
    <3>1. c \in Calls /\ list[k].kind = "result" /\ other[k].answers = c
      BY <1>2, <1>3, <2>2 DEF Item
    <3>. HIDE DEF c
    <3>2. k - 1 \in 0..n
      BY <1>3
    <3>3. F[k - 1].calls[c] <= G[k - 1].calls[c]
      BY <1>2, <1>5, <1>7, <1>8, <3>1, <3>2, AsManyLeft
    <3>4. F[k - 1].calls[c] # 0
      BY <2>1, <2>2, <3>1 DEF IsSent, c
    <3>5. F[k - 1].calls[c] \in Nat /\ G[k - 1].calls[c] \in Nat
      <4>1. F[k - 1] \in BuildType /\ G[k - 1] \in BuildType
        BY <1>2, <1>7, <1>8, <3>2 DEF Building
      <4>. QED
        BY <3>1, <4>1 DEF BuildType
    <3>. QED
      BY <3>1, <3>3, <3>4, <3>5
  <2>3. IsProjected(other[k].state) /\ Says(other[k]) # "nothing"
    BY <1>4 DEF IsProjected, Says
  <2>4. IsSent(G[k - 1], other[k])
    BY <2>2, <2>3 DEF IsSent
  <2>. QED
    BY <1>3, <2>4 DEF SentTo
<1>10. ASSUME NEW id \in Carrying(list) PROVE id \in Carrying(other)
  <2>1. PICK j \in SentTo(list, F, n) : id = list[j].id
    BY <1>7, <1>10, CarryingIs
  <2>2. j \in DOMAIN list
    BY <1>3 DEF SentTo
  <2>3. CASE j = k
    <3>1. k \in SentTo(other, G, n)
      BY <1>9, <2>1, <2>3
    <3>2. Carrying(other) = {other[i].id : i \in SentTo(other, G, n)}
      BY <1>2, <1>8, CarryingIs
    <3>. QED
      BY <1>2, <2>1, <2>2, <2>3, <3>1, <3>2
  <2>4. CASE j # k
    <3>1. other[j] = list[j] /\ j \in DOMAIN other /\ list[j].id \in Carrying(list)
      BY <1>2, <1>10, <2>1, <2>2, <2>4
    <3>2. list[j].id \in Carrying(other)
      BY <1>2, <1>5, <1>6, <2>2, <3>1, SentStays
    <3>. QED
      BY <2>1, <3>2
  <2>. QED
    BY <2>3, <2>4
<1>. QED
  BY <1>10 DEF other

\* An item that names no call of the one excluded is sent as before, or not as before.
LEMMA ExcludedAlone ==
  ASSUME NEW list \in Seq(Item), Sorted(list), NEW k \in DOMAIN list,
         NEW j \in DOMAIN list \ {k}, NamedCalls(list[j]) \cap NamedCalls(list[k]) = {}
  PROVE  list[j].id \in Carrying(list) <=> list[j].id \in Carrying([list EXCEPT ![k].state = "Excluded"])
<1>. DEFINE other == [list EXCEPT ![k].state = "Excluded"]
<1>1. "Excluded" \in States
  BY DEF States
<1>2. /\ other \in Seq(Item) /\ Len(other) = Len(list) /\ DOMAIN other = DOMAIN list
      /\ \A i \in DOMAIN list : i # k => other[i] = list[i]
      /\ \A i \in DOMAIN list : /\ other[i].kind = list[i].kind /\ other[i].calls = list[i].calls
                                /\ other[i].answers = list[i].answers /\ other[i].id = list[i].id
                                /\ NamedCalls(other[i]) = NamedCalls(list[i])
  BY <1>1, StateChanged
<1>. HIDE DEF other
<1>3. Len(list) \in Nat
  OBVIOUS
<1>4. ASSUME NEW c \in NamedCalls(list[j]) PROVE AsMany(list, other, c) /\ AsMany(other, list, c)
  <2>1. c \notin NamedCalls(list[k]) /\ c \notin NamedCalls(other[k])
    BY <1>2, <1>4
  <2>2. \A i \in DOMAIN list : c \in NamedCalls(list[i]) =>
          (IsProjected(list[i].state) <=> IsProjected(other[i].state))
    BY <1>2, <2>1
  <2>3. \A i \in DOMAIN other : c \in NamedCalls(other[i]) =>
          (IsProjected(other[i].state) <=> IsProjected(list[i].state))
    BY <1>2, <2>1
  <2>. QED
    BY <1>2, <1>3, <2>2, <2>3 DEF AsMany
<1>5. \A i \in DOMAIN list : list[i].id = list[j].id => i = j
  BY SortedApart
<1>6. other[j] = list[j]
  BY <1>2
<1>7. \A i \in DOMAIN other : other[i].id = other[j].id => i = j
  BY <1>2, <1>5
<1>8. ASSUME list[j].id \in Carrying(list) PROVE list[j].id \in Carrying(other)
  BY <1>2, <1>4, <1>5, <1>6, <1>8, SentStays
<1>9. ASSUME list[j].id \in Carrying(other) PROVE list[j].id \in Carrying(list)
  <2>1. other[j].id \in Carrying(other) /\ j \in DOMAIN other /\ list[j] = other[j]
    BY <1>2, <1>6, <1>9
  <2>2. \A c \in NamedCalls(other[j]) : AsMany(other, list, c)
    BY <1>2, <1>4
  <2>3. other[j].id \in Carrying(list)
    BY <1>2, <1>7, <2>1, <2>2, SentStays
  <2>. QED
    BY <1>2, <2>3
<1>. QED
  BY <1>8, <1>9 DEF other

\* A repair of any list reaches exactly as far as the pair: eliding an item costs none its
\* place, itself included, and excluding one takes out only items that name a call it names.
THEOREM ListRepairsReachNoFurther ==
  ASSUME Listed
  PROVE  RepairsReachNoFurther
<1>1. items \in Seq(Item) /\ Sorted(items) /\ projection = Project(items)
  BY DEF Listed
<1>2. Included = Carrying(items)
  BY <1>1 DEF Included, Carrying, Sent
<1>3. ASSUME NEW k \in DOMAIN items, items[k].state = "Active"
      PROVE  Included \subseteq Carrying([items EXCEPT ![k].state = "Elided"])
  BY <1>1, <1>2, <1>3, ElidedStays
<1>4. ASSUME NEW k \in DOMAIN items, NEW j \in DOMAIN items \ {k},
             NamedCalls(items[j]) \cap NamedCalls(items[k]) = {}
      PROVE  items[j].id \in Included
               <=> items[j].id \in Carrying([items EXCEPT ![k].state = "Excluded"])
  BY <1>1, <1>2, <1>4, ExcludedAlone
<1>. QED
  BY <1>3, <1>4 DEF RepairsReachNoFurther

---------------------------------------------------------------------------
(* The lists that grow. *)

\* What growing a list keeps: the items are numbered in the order they came, and the
\* projection is that of the list as it is.
GrownInv == /\ items \in Seq(Item)
            /\ \A k \in DOMAIN items : items[k].id = k
            /\ projection = Project(items)

\* Every shape, given a number, is an item.
LEMMA ShapeIsItem ==
  ASSUME NEW shape \in Shapes, NEW n \in Nat
  PROVE  [shape EXCEPT !.id = n] \in Item /\ [shape EXCEPT !.id = n].id = n
<1>1. Words \in Texts /\ EmptyText \in Texts
  BY ShapesAssumption, ProjectionAssumption DEF Words
<1>2. SomeMeta \in Metas /\ SomeCounter \in Counters
  BY ShapesAssumption
<1>3. ASSUME NEW kind \in Kinds, NEW calls \in Seq(Calls), NEW answers \in Calls \cup {NoCall},
             NEW state \in States, NEW text \in Texts, kind = "result" => answers \in Calls,
             shape = Shape(kind, calls, answers, state, text)
      PROVE  [shape EXCEPT !.id = n] \in Item /\ [shape EXCEPT !.id = n].id = n
  <2>1. [shape EXCEPT !.id = n] =
          [id |-> n, kind |-> kind, calls |-> calls, answers |-> answers, state |-> state,
           note |-> NoNote, text |-> text, meta |-> SomeMeta, priced |-> SomeCounter]
    BY <1>3 DEF Shape
  <2>. QED
    BY <1>2, <1>3, <2>1 DEF Item
<1>4. CASE shape \in {Shape("plain", <<>>, NoCall, state, Words) : state \in {"Active", "Elided"}}
  <2>1. PICK state \in {"Active", "Elided"} : shape = Shape("plain", <<>>, NoCall, state, Words)
    BY <1>4
  <2>2. <<>> \in Seq(Calls) /\ "plain" \in Kinds /\ state \in States
    BY DEF Kinds, States
  <2>. QED
    BY <1>1, <1>3, <2>1, <2>2
<1>5. CASE shape \in {Shape("assistant", calls, NoCall, state, text) :
                        calls \in {<<>>} \cup {<<c>> : c \in Calls} \cup (Calls \X Calls),
                        state \in {"Active", "Elided"}, text \in {Words, EmptyText}}
  <2>1. PICK calls \in {<<>>} \cup {<<c>> : c \in Calls} \cup (Calls \X Calls),
             state \in {"Active", "Elided"}, text \in {Words, EmptyText} :
               shape = Shape("assistant", calls, NoCall, state, text)
    BY <1>5
  <2>2. calls \in Seq(Calls)
    <3>1. <<>> \in Seq(Calls) /\ \A c \in Calls : <<c>> \in Seq(Calls)
      OBVIOUS
    <3>2. \A c, d \in Calls : <<c, d>> \in Seq(Calls)
      OBVIOUS
    <3>3. ASSUME calls \in Calls \X Calls PROVE \E c, d \in Calls : calls = <<c, d>>
      BY <3>3
    <3>. QED
      BY <3>1, <3>2, <3>3
  <2>3. "assistant" \in Kinds /\ state \in States
    BY DEF Kinds, States
  <2>. QED
    BY <1>1, <1>3, <2>1, <2>2, <2>3
<1>6. CASE shape \in {Shape("result", <<>>, c, state, Words) :
                        c \in Calls, state \in {"Active", "Excluded", "Elided"}}
  <2>1. PICK c \in Calls, state \in {"Active", "Excluded", "Elided"} :
               shape = Shape("result", <<>>, c, state, Words)
    BY <1>6
  <2>2. <<>> \in Seq(Calls) /\ "result" \in Kinds /\ state \in States
    BY DEF Kinds, States
  <2>. QED
    BY <1>1, <1>3, <2>1, <2>2
<1>. QED
  BY <1>4, <1>5, <1>6 DEF Shapes

\* The empty list is grown, and a list stays grown when it grows.
LEMMA GrownStays ==
  /\ Init => GrownInv
  /\ GrownInv /\ [Grow]_vars => GrownInv'
<1>1. ASSUME Init PROVE GrownInv
  BY <1>1 DEF Init, GrownInv
<1>2. ASSUME GrownInv, Grow PROVE GrownInv'
  <2>1. PICK shape \in Shapes : items' = Append(items, [shape EXCEPT !.id = Len(items) + 1])
    BY <1>2 DEF Grow
  <2>. DEFINE item == [shape EXCEPT !.id = Len(items) + 1]
  <2>2. items \in Seq(Item) /\ Len(items) + 1 \in Nat
    BY <1>2 DEF GrownInv
  <2>3. item \in Item /\ item.id = Len(items) + 1
    BY <2>2, ShapeIsItem
  <2>4. items' = Append(items, item)
    BY <2>1
  <2>5. \A k \in DOMAIN items : items[k].id = k
    BY <1>2 DEF GrownInv
  <2>. HIDE DEF item
  <2>6. items' \in Seq(Item) /\ \A k \in DOMAIN items' : items'[k].id = k
    BY <2>2, <2>3, <2>4, <2>5
  <2>7. projection' = Project(items')
    BY <1>2 DEF Grow
  <2>. QED
    BY <2>6, <2>7 DEF GrownInv
<1>3. ASSUME GrownInv, UNCHANGED vars PROVE GrownInv'
  BY <1>3 DEF GrownInv, vars
<1>. QED
  BY <1>1, <1>2, <1>3

\* A grown list is one the theorems above speak of.
LEMMA GrownIsListed == GrownInv => Listed
  BY DEF GrownInv, Listed, Sorted

\* However long the list grows, with repair every call that goes out is followed at once by
\* its own results, one each, and no result goes out anywhere else.
THEOREM GrownPairsWhole ==
  ASSUME RepairOrphans
  PROVE  Spec => []PairsWhole
<1>1. GrownInv => PairsWhole
  BY GrownIsListed, ListPairsWhole
<1>. QED
  BY <1>1, GrownStays, PTL DEF Spec

\* However long the list grows, with repair every item is sent once or listed as skipped,
\* and which half of what pair is sent is decided by rank.
THEOREM GrownNothingLost ==
  ASSUME RepairOrphans
  PROVE  Spec => []NothingLost
<1>1. GrownInv => NothingLost
  BY GrownIsListed, ListNothingLost
<1>. QED
  BY <1>1, GrownStays, PTL DEF Spec

\* However long the list grows, with repair the list of moved items is empty exactly when
\* the request has the order of the context.
THEOREM GrownMovesReported ==
  ASSUME RepairOrphans
  PROVE  Spec => []MovesReported
<1>1. GrownInv => MovesReported
  BY GrownIsListed, ListMovesReported
<1>. QED
  BY <1>1, GrownStays, PTL DEF Spec

\* However long the list grows, eliding an item costs none its place, and excluding one
\* takes out only items that name a call it names.
THEOREM GrownRepairsReachNoFurther == Spec => []RepairsReachNoFurther
<1>1. GrownInv => RepairsReachNoFurther
  BY GrownIsListed, ListRepairsReachNoFurther
<1>. QED
  BY <1>1, GrownStays, PTL DEF Spec
=============================================================================
