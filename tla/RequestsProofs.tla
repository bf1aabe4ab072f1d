---------------------------- MODULE RequestsProofs ----------------------------
(***************************************************************************)
(* The invariants of KernelContext, for every history depth, every set of  *)
(* items, every number of counters, and runs of any length; and then the   *)
(* same while requests use the context.                                    *)
(*                                                                         *)
(* GroupsWhole, LogTellsItems and AnswerListed are not inductive: what     *)
(* makes them hold is the shape of the history (WellFormed: from the       *)
(* oldest version to the newest, the items listed only become more) and,   *)
(* while a turn records, where in that history its checkpoint lies         *)
(* (BatchSplitsHistory).  IInv is all of it together.  Every action is one *)
(* of a few moves of the context, which ContextProofs has a lemma for; the *)
(* lemmas here say that each of those moves keeps IInv.                    *)
(*                                                                         *)
(* A request changes the context only as KernelContext's operations do:    *)
(* what is proved of the context for every caller holds while requests are *)
(* built, the notice is placed and retired by the kernel itself, and       *)
(* kamchatka rewrites it.  The two operations no client of KernelContext   *)
(* has are the kernel's own push of the notice and its exclusion.          *)
(***************************************************************************)
EXTENDS Requests, ContextProofs

---------------------------------------------------------------------------
(* The context, whoever calls.                                             *)

\* Every identifier some version of a context lists.
Known(c) == UNION {Ids(v) : v \in VersionsOf(c)}

\* After a checkpoint and a change, the versions are the one there is and old ones.
LEMMA VersionsAfterEdit ==
  ASSUME NEW c, NEW d, Edited(c, d)
  PROVE  \A v \in VersionsOf(d) : v = d.items \/ v \in VersionsOf(c)
<1>1. \A k \in DOMAIN d.undo : d.undo[k] \in VersionsOf(c)
  BY DEF Edited, OnTop, VersionsOf, ToSet
<1>2. d.redo = <<>> /\ ToSet(<<>>) = {}
  BY DEF Edited, ToSet
<1> QED BY <1>1, <1>2 DEF VersionsOf, ToSet

\* The items of a version have identifiers handed out before.
LEMMA VersionsKnown ==
  ASSUME NEW c, WellFormed(c), NEW v \in VersionsOf(c)
  PROVE  Ids(v) \subseteq 1..(c.next - 1)
BY DEF WellFormed, VersionOK, Ids

\* A stack that a batch splits is still split by it one checkpoint later.
LEMMA SplitShifts ==
  ASSUME NEW u \in Seq(Seq(Item)), NEW v, NEW w \in Seq(Seq(Item)), OnTop(u, v, w),
         NEW since \in Nat, NEW ids, ids \subseteq Ids(v),
         \A k \in DOMAIN u : IF k <= Len(u) - since THEN ids \cap Ids(u[k]) = {}
                             ELSE ids \subseteq Ids(u[k])
  PROVE  \A k \in DOMAIN w : IF k <= Len(w) - (since + 1) THEN ids \cap Ids(w[k]) = {}
                             ELSE ids \subseteq Ids(w[k])
<1> DEFINE n == Len(u)
           m == Len(w)
           shift == n + 1 - m
<1>1. /\ n \in Nat /\ m \in Nat /\ DOMAIN w = 1..m /\ DOMAIN u = 1..n
      /\ shift \in {0, 1}
      /\ \A k \in 1..m : IF k = m THEN w[k] = v ELSE k + shift \in 1..n /\ w[k] = u[k + shift]
      /\ \A k \in 1..n : IF k <= n - since THEN ids \cap Ids(u[k]) = {}
                         ELSE ids \subseteq Ids(u[k])
  <2>1. n \in Nat /\ m \in Nat /\ DOMAIN w = 1..m /\ DOMAIN u = 1..n
    OBVIOUS
  <2>2. /\ shift \in {0, 1}
        /\ \A k \in DOMAIN w : IF k = m THEN w[k] = v
                               ELSE k + shift \in DOMAIN u /\ w[k] = u[k + shift]
    BY DEF OnTop
  <2>3. \A k \in DOMAIN u : IF k <= n - since THEN ids \cap Ids(u[k]) = {}
                            ELSE ids \subseteq Ids(u[k])
    OBVIOUS
  <2> HIDE DEF n, m, shift
  <2> QED BY <2>1, <2>2, <2>3
<1>2. n = m + shift - 1
  <2> HIDE DEF n, m
  <2> QED BY <1>1
<1> HIDE DEF n, m, shift
<1> SUFFICES ASSUME NEW k \in 1..m
             PROVE  IF k <= m - (since + 1) THEN ids \cap Ids(w[k]) = {}
                    ELSE ids \subseteq Ids(w[k])
  BY <1>1 DEF m
<1>3. CASE k = m
  BY <1>1, <1>3
<1>4. CASE k # m
  <2>1. k + shift \in 1..n /\ w[k] = u[k + shift]
    BY <1>1, <1>4
  <2>2. (k <= m - (since + 1)) <=> (k + shift <= n - since)
    BY <1>1, <1>2
  <2> QED BY <1>1, <2>1, <2>2
<1> QED BY <1>3, <1>4

\* What an edit of the context does to everything but an open batch.
LEMMA EditKeepsRest ==
  ASSUME IInv, NEW d, Edited(ctx, d), NEW gs,
         gs \subseteq groups \cup {ctx.next .. (d.next - 1)}
  PROVE  /\ \A g \in gs : g \subseteq 1..(d.next - 1)
         /\ \A g \in gs, v \in VersionsOf(d) : g \subseteq Ids(v) \/ g \cap Ids(v) = {}
         /\ told \cup (ctx.next .. (d.next - 1)) = Ids(d.items)
         /\ Listed \subseteq Ids(d.items)
         /\ Known(d) \subseteq Known(ctx) \cup (ctx.next .. (d.next - 1))
<1> DEFINE first == ctx.next
           after == d.next
           fresh == first .. (after - 1)
<1>1. /\ first \in Nat \ {0} /\ after \in Nat \ {0} /\ first <= after
      /\ Ids(d.items) = Listed \cup fresh
  <2>1. WellFormed(ctx) /\ WellFormed(d)
    BY DEF IInv, Edited
  <2>2. ctx.next \in Nat \ {0} /\ d.next \in Nat \ {0}
    BY <2>1, Parts
  <2> QED BY <2>2 DEF Edited, Listed
<1>2. \A v \in VersionsOf(ctx) : Ids(v) \subseteq 1..(first - 1)
  BY VersionsKnown DEF IInv
<1>3. ctx.items \in VersionsOf(ctx) /\ Listed = Ids(ctx.items)
  BY DEF VersionsOf, Listed
<1>4. \A v \in VersionsOf(d) : v = d.items \/ v \in VersionsOf(ctx)
  BY VersionsAfterEdit
<1>5. \A g \in groups : g \subseteq 1..(first - 1)
  BY DEF IInv, GroupsKnown
<1>6. \A g \in groups, v \in VersionsOf(ctx) : g \subseteq Ids(v) \/ g \cap Ids(v) = {}
  BY DEF IInv, GroupsWhole, Versions
<1>7. told = Listed
  BY DEF IInv, LogTellsItems
<1>8. gs \subseteq groups \cup {fresh}
  OBVIOUS
<1> HIDE DEF first, after
<1>9. 1..(first - 1) \subseteq 1..(after - 1) /\ fresh \subseteq 1..(after - 1)
        /\ fresh \cap 1..(first - 1) = {}
  BY <1>1
<1> HIDE DEF fresh
<1>10. \A g \in gs : g \subseteq 1..(after - 1)
  BY <1>5, <1>8, <1>9
<1>11. \A g \in gs, v \in VersionsOf(d) : g \subseteq Ids(v) \/ g \cap Ids(v) = {}
  <2> SUFFICES ASSUME NEW g \in gs, NEW v \in VersionsOf(d)
               PROVE  g \subseteq Ids(v) \/ g \cap Ids(v) = {}
    OBVIOUS
  <2>1. CASE g \in groups /\ v \in VersionsOf(ctx)
    BY <1>6, <2>1
  <2>2. CASE g \in groups /\ v = d.items
    <3>1. g \subseteq Listed \/ g \cap Listed = {}
      BY <1>3, <1>6, <2>2
    <3>2. g \cap fresh = {}
      BY <1>5, <1>9, <2>2
    <3> QED BY <1>1, <2>2, <3>1, <3>2
  <2>3. CASE g = fresh /\ v \in VersionsOf(ctx)
    BY <1>2, <1>9, <2>3
  <2>4. CASE g = fresh /\ v = d.items
    BY <1>1, <2>4
  <2> QED BY <1>4, <1>8, <2>1, <2>2, <2>3, <2>4
<1>12. Known(d) \subseteq Known(ctx) \cup fresh
  BY <1>1, <1>3, <1>4 DEF Known
<1> QED BY <1>1, <1>7, <1>10, <1>11, <1>12 DEF fresh, first, after

\* What an edit does to the batch being recorded, if there is one.
LEMMA EditKeepsBatch ==
  ASSUME IInv, NEW d, Edited(ctx, d), batch.open
  PROVE  /\ d.redo = <<>> /\ d.taken - batch.taken >= 0
         /\ \A k \in DOMAIN d.undo :
              IF k <= Len(d.undo) - (d.taken - batch.taken)
              THEN batch.ids \cap Ids(d.undo[k]) = {}
              ELSE batch.ids \subseteq Ids(d.undo[k])
<1> DEFINE u == ctx.undo
           w == d.undo
           v == ctx.items
           ids == batch.ids
           before == ctx.taken
           start == batch.taken
           since == before - start
<1>1. /\ u \in Seq(Seq(Item)) /\ w \in Seq(Seq(Item)) /\ before \in Nat /\ start \in Nat
      /\ d.redo = <<>> /\ d.taken = before + 1 /\ OnTop(u, v, w)
      /\ ids \subseteq Ids(v)
  <2>1. WellFormed(ctx) /\ WellFormed(d) /\ d.redo = <<>> /\ d.taken = ctx.taken + 1
          /\ OnTop(ctx.undo, ctx.items, d.undo)
    BY DEF IInv, Edited
  <2>2. ctx.undo \in Seq(Seq(Item)) /\ d.undo \in Seq(Seq(Item)) /\ ctx.taken \in Nat
    BY <2>1, Parts
  <2>3. batch.taken \in Nat /\ batch.ids \subseteq Ids(ctx.items)
    BY DEF IInv, TurnOK, BatchListed, Listed
  <2> QED BY <2>1, <2>2, <2>3
<1>2. /\ since >= 0
      /\ \A k \in DOMAIN u : IF k <= Len(u) - since THEN ids \cap Ids(u[k]) = {}
                             ELSE ids \subseteq Ids(u[k])
  BY DEF IInv, BatchSplitsHistory
<1> HIDE DEF u, v, w, ids, before, start
<1>3. since \in Nat /\ (before + 1) - start = since + 1
  BY <1>1, <1>2
<1> HIDE DEF since
<1>4. \A k \in DOMAIN w : IF k <= Len(w) - (since + 1) THEN ids \cap Ids(w[k]) = {}
                          ELSE ids \subseteq Ids(w[k])
  <2>1. u \in Seq(Seq(Item)) /\ w \in Seq(Seq(Item)) /\ OnTop(u, v, w) /\ ids \subseteq Ids(v)
    BY <1>1
  <2>2. since \in Nat
    BY <1>3
  <2>3. \A k \in DOMAIN u : IF k <= Len(u) - since THEN ids \cap Ids(u[k]) = {}
                            ELSE ids \subseteq Ids(u[k])
    BY <1>2
  <2> QED BY <2>1, <2>2, <2>3, SplitShifts
<1>5. d.taken - start = since + 1
  BY <1>1, <1>3
<1>6. since + 1 >= 0
  BY <1>3
<1> QED BY <1>1, <1>4, <1>5, <1>6 DEF w, ids, start

\* Nothing turns up in any version that was not known or is not new.
NewOnly == Known(ctx') \subseteq Known(ctx) \cup (ctx.next .. TopId)

\* An operation that is an edit keeps the invariant.
LEMMA EditKeeps ==
  ASSUME IInv, Edited(ctx, ctx'), ctx'.next <= TopId,
         told' = told \cup (ctx.next .. (ctx'.next - 1)),
         groups' \subseteq groups \cup {ctx.next .. (ctx'.next - 1)},
         UNCHANGED <<counter, turn>>
  PROVE  IInv' /\ NewOnly
<1> DEFINE d == ctx'
           gs == groups'
<1>0. machine' = machine /\ finished' = finished /\ batch' = batch /\ counter' = counter
  BY DEF turn
<1>1. Edited(ctx, d) /\ gs \subseteq groups \cup {ctx.next .. (d.next - 1)}
  OBVIOUS
<1> HIDE DEF d, gs
<1>2. /\ \A g \in gs : g \subseteq 1..(d.next - 1)
      /\ \A g \in gs, v \in VersionsOf(d) : g \subseteq Ids(v) \/ g \cap Ids(v) = {}
      /\ told \cup (ctx.next .. (d.next - 1)) = Ids(d.items)
      /\ Listed \subseteq Ids(d.items)
      /\ Known(d) \subseteq Known(ctx) \cup (ctx.next .. (d.next - 1))
  BY <1>1, EditKeepsRest
<1>3. batch.open =>
        /\ d.redo = <<>> /\ d.taken - batch.taken >= 0
        /\ \A k \in DOMAIN d.undo :
             IF k <= Len(d.undo) - (d.taken - batch.taken)
             THEN batch.ids \cap Ids(d.undo[k]) = {}
             ELSE batch.ids \subseteq Ids(d.undo[k])
  BY <1>1, EditKeepsBatch
<1>4. WellFormed(d)
  BY <1>1 DEF Edited
<1>5. (ctx.next .. (d.next - 1)) \subseteq ctx.next .. TopId
  <2> DEFINE first == ctx.next
             after == d.next
  <2>1. first \in Nat /\ after \in Nat /\ after <= TopId /\ TopId \in Nat
    <3>1. WellFormed(ctx)
      BY DEF IInv
    <3>2. ctx.next \in Nat /\ d.next \in Nat
      BY <1>4, <3>1, Parts
    <3> QED BY <3>2, TopAssumption DEF d
  <2> HIDE DEF first, after
  <2>2. (first .. (after - 1)) \subseteq first .. TopId
    BY <2>1
  <2> QED BY <2>2 DEF first, after
<1> USE DEF d, gs
<1>6. NewOnly
  BY <1>2, <1>5 DEF NewOnly
<1>7. GroupsKnown' /\ GroupsWhole'
  BY <1>2 DEF GroupsKnown, GroupsWhole, Versions
<1>8. LogTellsItems' /\ BatchListed' /\ AnswerListed'
  BY <1>0, <1>2 DEF IInv, LogTellsItems, BatchListed, AnswerListed, Listed
<1>9. TurnOK'
  BY <1>0 DEF IInv, TurnOK
<1>10. BatchSplitsHistory'
  BY <1>0, <1>3 DEF IInv, BatchSplitsHistory
<1> QED BY <1>4, <1>6, <1>7, <1>8, <1>9, <1>10 DEF IInv

\* A change in place keeps the invariant, and so does dropping the redo stack.
LEMMA InPlaceKeeps ==
  ASSUME IInv, WellFormed(ctx'), Ids(ctx'.items) = Listed,
         ctx'.undo = ctx.undo, ctx'.redo \in {ctx.redo, <<>>},
         ctx'.next = ctx.next, ctx'.taken = ctx.taken,
         counter' \in Counters, UNCHANGED <<turn, groups, told>>
  PROVE  IInv' /\ NewOnly
<1>0. machine' = machine /\ finished' = finished /\ batch' = batch
        /\ groups' = groups /\ told' = told
  BY DEF turn
<1>1. \A v \in Versions' : \E w \in Versions : Ids(v) = Ids(w)
  <2>1. ToSet(<<>>) = {}
    BY DEF ToSet
  <2> QED BY <2>1 DEF Versions, VersionsOf, Listed
<1>2. NewOnly
  BY <1>1 DEF NewOnly, Known, Versions
<1>3. GroupsKnown' /\ GroupsWhole'
  BY <1>0, <1>1 DEF IInv, GroupsKnown, GroupsWhole
<1>4. LogTellsItems' /\ BatchListed' /\ AnswerListed'
  BY <1>0 DEF IInv, LogTellsItems, BatchListed, AnswerListed, Listed
<1>5. TurnOK'
  BY <1>0 DEF IInv, TurnOK
<1>6. BatchSplitsHistory'
  BY <1>0 DEF IInv, BatchSplitsHistory
<1> QED BY <1>2, <1>3, <1>4, <1>5, <1>6 DEF IInv

\* Going back or on, with the machine at rest, keeps it too.
LEMMA WalkKeeps ==
  ASSUME IInv, machine = "resting", WellFormed(ctx'), ctx'.next = ctx.next,
         \A v \in VersionsOf(ctx') : \E w \in VersionsOf(ctx) : Ids(v) = Ids(w),
         told' = Ids(ctx'.items),
         finished' # 0 => finished' \in Ids(ctx'.items),
         UNCHANGED <<counter, machine, batch, groups>>
  PROVE  IInv' /\ NewOnly
<1>1. ~batch.open /\ batch = NoBatch
  BY DEF IInv, TurnOK, BatchSplitsHistory
<1>2. NewOnly
  BY DEF NewOnly, Known
<1>3. GroupsKnown' /\ GroupsWhole'
  BY DEF IInv, GroupsKnown, GroupsWhole, Versions
<1>4. LogTellsItems' /\ BatchListed' /\ AnswerListed'
  BY <1>1 DEF LogTellsItems, BatchListed, AnswerListed, Listed, NoBatch
<1>5. TurnOK'
  BY DEF IInv, TurnOK
<1>6. BatchSplitsHistory'
  BY <1>1 DEF BatchSplitsHistory
<1> QED BY <1>2, <1>3, <1>4, <1>5, <1>6 DEF IInv

---------------------------------------------------------------------------
(* The operations.                                                         *)

\* What IInv says of the context and the counter, for citing.
LEMMA Basics ==
  ASSUME IInv
  PROVE  /\ WellFormed(ctx) /\ counter \in Counters
         /\ ctx \in ContextType /\ ctx.items \in Seq(Item)
         /\ Edited(ctx, Checkpoint(ctx)) /\ Checkpoint(ctx) \in ContextType
         /\ Checkpoint(ctx).items = ctx.items /\ Checkpoint(ctx).next = ctx.next
<1>1. WellFormed(ctx) /\ counter \in Counters
  BY DEF IInv, TurnOK
<1>2. Edited(ctx, Checkpoint(ctx)) /\ Checkpoint(ctx).items = ctx.items
        /\ Checkpoint(ctx).next = ctx.next
  BY <1>1, CheckpointEdits
<1>3. ctx \in ContextType /\ Checkpoint(ctx) \in ContextType
  BY <1>1, <1>2 DEF Edited, WellFormed
<1> QED BY <1>1, <1>2, <1>3 DEF ContextType

\* Items added after a checkpoint.
LEMMA AddedItems ==
  ASSUME IInv, NEW new \in Seq(Item), NEW d, Edited(ctx, d), d.next = ctx.next
  PROVE  LET e == AddAll(d, new, counter)
         IN  Edited(ctx, e) /\ e.next = ctx.next + Len(new)
               /\ ctx.next .. (e.next - 1) = NewIds(Len(new))
<1>1. WellFormed(ctx) /\ counter \in Counters
  BY Basics
<1>2. Edited(ctx, AddAll(d, new, counter))
        /\ AddAll(d, new, counter).next = ctx.next + Len(new)
  BY <1>1, EditedGrown
<1> DEFINE first == ctx.next
           after == AddAll(d, new, counter).next
           n == Len(new)
<1>3. first \in Nat /\ n \in Nat /\ after = first + n
  <2>1. first \in Nat
    BY <1>1, Parts
  <2>2. n \in Nat
    OBVIOUS
  <2>3. after = first + n
    BY <1>2
  <2> QED BY <2>1, <2>2, <2>3
<1> HIDE DEF first, after, n
<1>4. first .. (after - 1) = first .. (first + n - 1)
  BY <1>3
<1> QED BY <1>2, <1>4 DEF NewIds, first, after, n

\* One item added after a checkpoint.
LEMMA AddedItem ==
  ASSUME IInv, NEW item \in Item, NEW d, Edited(ctx, d), d.next = ctx.next, Room(1)
  PROVE  LET e == Add(d, item, counter)
         IN  Edited(ctx, e) /\ e.next <= TopId
               /\ ctx.next .. (e.next - 1) = NewIds(1)
<1>1. d \in ContextType /\ counter \in Counters
  BY Basics DEF Edited, WellFormed
<1>2. d.next + 1 <= TopId
  BY DEF Room
<1>3. <<item>> \in Seq(Item) /\ Len(<<item>>) = 1
        /\ Add(d, item, counter) = AddAll(d, <<item>>, counter)
  BY <1>1, <1>2, AddIsAddAll
<1>4. /\ Edited(ctx, AddAll(d, <<item>>, counter))
      /\ AddAll(d, <<item>>, counter).next = ctx.next + Len(<<item>>)
      /\ ctx.next .. (AddAll(d, <<item>>, counter).next - 1) = NewIds(Len(<<item>>))
  BY <1>3, AddedItems
<1> QED BY <1>3, <1>4 DEF Room

\* The operations on the context, one by one.
LEMMA PushKeeps ==
  ASSUME IInv, NEW item \in Item, Push(item)
  PROVE  IInv' /\ NewOnly
<1>1. Room(1) /\ ctx' = Add(Checkpoint(ctx), item, counter)
  BY DEF Push
<1>2. Edited(ctx, ctx') /\ ctx'.next <= TopId /\ ctx.next .. (ctx'.next - 1) = NewIds(1)
  BY <1>1, Basics, AddedItem
<1>3. told' = told \cup NewIds(1) /\ UNCHANGED <<counter, turn, groups>>
  BY DEF Push, scale
<1> QED BY <1>2, <1>3, EditKeeps

LEMMA PushAllKeeps ==
  ASSUME IInv, NEW n \in 1..Together, NEW items \in [1..n -> Pushable], PushAll(items)
  PROVE  IInv' /\ NewOnly
<1>1. items \in Seq(Item)
  BY KernelContextAssumption
<1>2. ctx' = AddAll(Checkpoint(ctx), items, counter) /\ ctx.next + Len(items) <= TopId
  BY DEF PushAll, Room
<1>3. Edited(ctx, ctx') /\ ctx'.next = ctx.next + Len(items)
        /\ ctx.next .. (ctx'.next - 1) = NewIds(Len(items))
  BY <1>1, <1>2, Basics, AddedItems
<1>4. told' = told \cup NewIds(Len(items)) /\ groups' = groups \cup {NewIds(Len(items))}
        /\ UNCHANGED <<counter, turn>>
  BY DEF PushAll, scale
<1>5. ctx'.next <= TopId
  BY <1>2, <1>3
<1> QED BY <1>3, <1>4, <1>5, EditKeeps

LEMMA SupersedeKeeps ==
  ASSUME IInv, NEW old \in Listed, NEW item \in Pushable, Supersede(old, item)
  PROVE  IInv' /\ NewOnly
<1> DEFINE d == Add(Checkpoint(ctx), item, counter)
<1>1. item \in Item /\ Room(1) /\ ctx' = SetState(d, old, "Excluded", ctx.next)
  BY KernelContextAssumption DEF Supersede
<1>2. Edited(ctx, d) /\ d.next <= TopId /\ ctx.next .. (d.next - 1) = NewIds(1)
  BY <1>1, Basics, AddedItem
<1> HIDE DEF d
<1>3. d \in ContextType /\ ctx.next \in Nat /\ "Excluded" \in States
  BY <1>2, Basics DEF Edited, WellFormed, ContextType, States
<1>4. PICK items \in Seq(Item) : SameIds(items, d.items) /\ ctx' = [d EXCEPT !.items = items]
  <2> DEFINE note == ctx.next
             state == "Excluded"
  <2>1. note \in Notes \cup Nat \cup {NoNote} /\ state \in States
    BY <1>3
  <2> HIDE DEF note, state
  <2>2. \E items \in Seq(Item) : SameIds(items, d.items)
          /\ SetState(d, old, state, note) = [d EXCEPT !.items = items]
    BY <1>3, <2>1, SetStateInPlace
  <2> USE DEF note, state
  <2> QED BY <1>1, <2>2
<1>5. Edited(ctx, ctx') /\ ctx'.next = d.next
  BY <1>2, <1>4, EditedInPlace
<1>6. told' = told \cup NewIds(1) /\ UNCHANGED <<counter, turn, groups>>
  BY DEF Supersede, scale
<1> QED BY <1>2, <1>5, <1>6, EditKeeps

\* An edit that adds nothing: a change in place after a checkpoint.
LEMMA EditInPlaceKeeps ==
  ASSUME IInv, NEW items \in Seq(Item), SameIds(items, ctx.items),
         ctx' = [Checkpoint(ctx) EXCEPT !.items = items],
         UNCHANGED <<turn, scale, groups, told>>
  PROVE  IInv' /\ NewOnly
<1>1. Edited(ctx, ctx') /\ ctx'.next = ctx.next
  BY Basics, EditedInPlace
<1>2. ctx.next .. (ctx'.next - 1) = {}
  <2> DEFINE first == ctx.next
  <2>1. first \in Nat
    BY Basics DEF ContextType
  <2> HIDE DEF first
  <2>2. first .. (first - 1) = {}
    BY <2>1
  <2> QED BY <1>1, <2>2 DEF first
<1>3. UNCHANGED <<counter, turn, groups, told>>
  BY DEF scale
<1>4. ctx'.next <= TopId
  BY <1>1 DEF IInv, TurnOK
<1> QED BY <1>1, <1>2, <1>3, <1>4, EditKeeps

LEMMA SetStatesKeeps ==
  ASSUME IInv, NEW changes, SetStates(changes),
         \A i \in Targets(changes) : changes[i].state \in States
                                      /\ changes[i].note \in Notes \cup Nat \cup {NoNote}
  PROVE  IInv' /\ NewOnly
<1> DEFINE d == Checkpoint(ctx)
           targets == Targets(changes)
<1>1. ctx' = SetAll(d, changes, targets) /\ UNCHANGED <<turn, scale, groups, told>>
  BY DEF SetStates
<1>2. d \in ContextType /\ d.items = ctx.items
  BY Basics
<1> HIDE DEF d
<1>3. PICK items \in Seq(Item) : SameIds(items, d.items) /\ ctx' = [d EXCEPT !.items = items]
  BY <1>1, <1>2, SetAllInPlace
<1> QED BY <1>1, <1>2, <1>3, EditInPlaceKeeps DEF d

\* The changes clients make are of the right type.
LEMMA ChangesTyped ==
  ASSUME NEW changes \in Changes, NEW i \in Targets(changes)
  PROVE  changes[i].state \in States /\ changes[i].note \in Notes \cup Nat \cup {NoNote}
<1>1. PICK n \in 1..Named : changes \in [1..n -> Change]
  BY DEF Changes
<1>2. changes[i] \in Change
  BY <1>1 DEF Targets
<1> QED BY <1>2, KernelContextAssumption DEF Change

LEMMA ReplaceKeeps ==
  ASSUME IInv, NEW id \in Listed, NEW text \in Texts, ReplaceItem(id, text)
  PROVE  IInv' /\ NewOnly
<1> DEFINE d == Checkpoint(ctx)
<1>1. ctx' = Replace(d, id, text, counter) /\ UNCHANGED <<turn, scale, groups, told>>
  BY DEF ReplaceItem
<1>2. d \in ContextType /\ d.items = ctx.items /\ counter \in Counters /\ id \in Ids(d.items)
  BY Basics DEF Listed
<1> HIDE DEF d
<1>3. PICK items \in Seq(Item) : SameIds(items, d.items) /\ ctx' = [d EXCEPT !.items = items]
  BY <1>1, <1>2, ReplaceInPlace
<1> QED BY <1>1, <1>2, <1>3, EditInPlaceKeeps DEF d

\* The counter runs over the items.
LEMMA RecountKeeps ==
  ASSUME IInv, ctx' = Recounted(ctx, counter), counter' = counter,
         UNCHANGED <<turn, groups, told>>
  PROVE  IInv' /\ NewOnly
<1>1. /\ Recounted(ctx, counter).items \in Seq(Item)
      /\ SameIds(Recounted(ctx, counter).items, ctx.items)
      /\ Recounted(ctx, counter) = [ctx EXCEPT !.items = Recounted(ctx, counter).items]
  BY Basics, RecountedSame
<1>2. PICK items \in Seq(Item) : SameIds(items, ctx.items) /\ ctx' = [ctx EXCEPT !.items = items]
  BY <1>1
<1>3. WellFormed(ctx')
  BY <1>2, Basics, ChangedInPlace
<1>4. Ids(items) = Listed
  BY <1>2, SameIdsSame DEF Listed
<1>5. ctx'.items = items /\ ctx'.undo = ctx.undo /\ ctx'.redo = ctx.redo
        /\ ctx'.next = ctx.next /\ ctx'.taken = ctx.taken
  BY <1>2, Basics DEF ContextType
<1> QED BY <1>3, <1>4, <1>5, Basics, InPlaceKeeps

LEMMA AnnotateKeeps ==
  ASSUME IInv, NEW id \in Listed, NEW meta \in Metas, AnnotateItem(id, meta)
  PROVE  IInv' /\ NewOnly
<1>1. ctx' = Annotate(ctx, id, meta) /\ counter' = counter /\ UNCHANGED <<turn, groups, told>>
  BY DEF AnnotateItem, scale
<1>2. CASE ctx' = ctx
  BY <1>1, <1>2, Basics, InPlaceKeeps DEF Listed
<1>3. CASE ctx' # ctx
  <2>1. WellFormed(ctx) /\ id \in Ids(ctx.items)
    BY Basics DEF Listed
  <2>2. /\ WellFormed(ctx') /\ Ids(ctx'.items) = Ids(ctx.items) /\ ctx'.undo = ctx.undo
        /\ ctx'.redo = <<>> /\ ctx'.next = ctx.next /\ ctx'.taken = ctx.taken
    BY <1>1, <1>3, <2>1, AnnotateInPlace
  <2> QED BY <1>1, <2>2, Basics, InPlaceKeeps DEF Listed
<1> QED BY <1>2, <1>3

LEMMA CompactionKeeps ==
  ASSUME IInv, NEW plan \in Plans, ApplyCompaction(plan)
  PROVE  IInv' /\ NewOnly
<1> DEFINE items == Compacted(ctx.items, plan)
           carrying == Carrying(ctx.items)
           removing == Removing(ctx.items, plan, carrying)
           eliding == Eliding(ctx.items, plan, carrying)
           d == [Checkpoint(ctx) EXCEPT !.items = items]
           new == plan.summary
<1>1. new \in Seq(Item)
  <2>1. new = <<>> \/ \E item \in Pushable : new = <<item>>
    BY DEF Plans
  <2>2. \A item \in Item : <<item>> \in Seq(Item)
    OBVIOUS
  <2>3. <<>> \in Seq(Item)
    OBVIOUS
  <2> HIDE DEF new
  <2> QED BY <2>1, <2>2, <2>3, KernelContextAssumption
<1>2. items = [k \in DOMAIN ctx.items |->
                 IF ctx.items[k].id \in removing
                 THEN [ctx.items[k] EXCEPT !.state = "Excluded", !.note = Reason]
                 ELSE IF ctx.items[k].id \in eliding
                 THEN [ctx.items[k] EXCEPT !.state = "Elided", !.note = Reason]
                 ELSE ctx.items[k]]
  BY DEF Compacted
<1> HIDE DEF removing, eliding
<1>3. \A k \in DOMAIN ctx.items : items[k] \in Item /\ items[k].id = ctx.items[k].id
  <2> SUFFICES ASSUME NEW k \in DOMAIN ctx.items
               PROVE  items[k] \in Item /\ items[k].id = ctx.items[k].id
    OBVIOUS
  <2>1. ctx.items[k] \in Item /\ Reason \in Notes
    BY Basics, KernelContextAssumption
  <2>2. \/ items[k] = [ctx.items[k] EXCEPT !.state = "Excluded", !.note = Reason]
        \/ items[k] = [ctx.items[k] EXCEPT !.state = "Elided", !.note = Reason]
        \/ items[k] = ctx.items[k]
    <3> HIDE DEF items
    <3> QED BY <1>2, ZenonT(60)
  <2> HIDE DEF items
  <2> QED BY <2>1, <2>2 DEF Item, States
<1>4. items = [k \in DOMAIN ctx.items |-> items[k]]
  <2> HIDE DEF items
  <2> QED BY <1>2
<1> HIDE DEF items
<1>5. items \in Seq(Item) /\ SameIds(items, ctx.items)
  BY <1>3, <1>4, Basics, MadeFrom DEF SameIds
<1>6. Edited(ctx, d) /\ d.next = ctx.next
  BY <1>5, Basics, EditedInPlace
<1>7. /\ ctx' = AddAll(d, new, counter) /\ ctx.next + Len(new) <= TopId
      /\ told' = told \cup NewIds(Len(new)) /\ UNCHANGED <<counter, turn, groups>>
  BY DEF ApplyCompaction, Room, scale, items
<1> HIDE DEF d, new
<1>8. Edited(ctx, ctx') /\ ctx'.next = ctx.next + Len(new)
        /\ ctx.next .. (ctx'.next - 1) = NewIds(Len(new))
  BY <1>1, <1>6, <1>7, AddedItems
<1>9. ctx'.next <= TopId
  BY <1>7, <1>8
<1> QED BY <1>7, <1>8, <1>9, EditKeeps

LEMMA UndoKeeps ==
  ASSUME IInv, Undo
  PROVE  IInv' /\ NewOnly
<1> DEFINE d == Undone(ctx)
<1>1. WellFormed(ctx) /\ ctx.undo # <<>> /\ counter \in Counters /\ machine = "resting"
  BY Basics DEF Undo
<1>2. /\ WellFormed(d) /\ d.next = ctx.next
      /\ Ids(d.items) \subseteq Listed /\ VersionsOf(d) \subseteq VersionsOf(ctx)
  BY <1>1, UndoneMoves DEF Listed
<1>3. ctx' = Recounted(d, counter)
  BY DEF Undo
<1> HIDE DEF d
<1>4. d \in ContextType
  BY <1>2 DEF WellFormed
<1>5. PICK items \in Seq(Item) : SameIds(items, d.items) /\ ctx' = [d EXCEPT !.items = items]
  BY <1>1, <1>3, <1>4, RecountedSame
<1>6. WellFormed(ctx') /\ Ids(items) = Ids(d.items)
  BY <1>2, <1>5, ChangedInPlace, SameIdsSame
<1>7. ctx'.items = items /\ ctx'.undo = d.undo /\ ctx'.redo = d.redo /\ ctx'.next = d.next
  BY <1>4, <1>5 DEF ContextType
<1>8. \A v \in VersionsOf(ctx') : \E w \in VersionsOf(ctx) : Ids(v) = Ids(w)
  BY <1>2, <1>6, <1>7 DEF VersionsOf
<1>9. told = Listed /\ (finished # 0 => finished \in Listed)
  BY DEF IInv, LogTellsItems, AnswerListed
<1>10. told' = Ids(ctx'.items)
  BY <1>2, <1>6, <1>7, <1>9 DEF Undo
<1>11. finished' # 0 => finished' \in Ids(ctx'.items)
  BY <1>2, <1>6, <1>7, <1>9 DEF Undo
<1>12. UNCHANGED <<counter, machine, batch, groups>>
  BY DEF Undo, scale
<1> QED BY <1>1, <1>2, <1>6, <1>7, <1>8, <1>10, <1>11, <1>12, WalkKeeps

LEMMA RedoKeeps ==
  ASSUME IInv, Redo
  PROVE  IInv' /\ NewOnly
<1> DEFINE d == Redone(ctx)
<1>1. WellFormed(ctx) /\ ctx.redo # <<>> /\ counter \in Counters /\ machine = "resting"
  BY Basics DEF Redo
<1>2. /\ WellFormed(d) /\ d.next = ctx.next
      /\ Listed \subseteq Ids(d.items) /\ VersionsOf(d) \subseteq VersionsOf(ctx)
  BY <1>1, RedoneMoves DEF Listed
<1>3. ctx' = Recounted(d, counter)
  BY DEF Redo
<1> HIDE DEF d
<1>4. d \in ContextType
  BY <1>2 DEF WellFormed
<1>5. PICK items \in Seq(Item) : SameIds(items, d.items) /\ ctx' = [d EXCEPT !.items = items]
  BY <1>1, <1>3, <1>4, RecountedSame
<1>6. WellFormed(ctx') /\ Ids(items) = Ids(d.items)
  BY <1>2, <1>5, ChangedInPlace, SameIdsSame
<1>7. ctx'.items = items /\ ctx'.undo = d.undo /\ ctx'.redo = d.redo /\ ctx'.next = d.next
  BY <1>4, <1>5 DEF ContextType
<1>8. \A v \in VersionsOf(ctx') : \E w \in VersionsOf(ctx) : Ids(v) = Ids(w)
  BY <1>2, <1>6, <1>7 DEF VersionsOf
<1>9. told = Listed /\ (finished # 0 => finished \in Listed)
  BY DEF IInv, LogTellsItems, AnswerListed
<1>10. told' = Ids(ctx'.items)
  BY <1>2, <1>6, <1>7, <1>9 DEF Redo
<1>11. finished' # 0 => finished' \in Ids(ctx'.items)
  BY <1>2, <1>6, <1>7, <1>9 DEF Redo, turn
<1>12. UNCHANGED <<counter, machine, batch, groups>>
  BY DEF Redo, scale, turn
<1> QED BY <1>1, <1>2, <1>6, <1>7, <1>8, <1>10, <1>11, <1>12, WalkKeeps

---------------------------------------------------------------------------
(* The turn.                                                               *)

\* The first item of a batch is an edit, and the batch starts at its checkpoint.
LEMMA RecordFirstKeeps ==
  ASSUME IInv, NEW item \in Recordable, RecordFirst(item)
  PROVE  IInv' /\ NewOnly
<1> DEFINE d == ctx'
           fresh == NewIds(1)
<1>1. item \in Item /\ Room(1) /\ d = Add(Checkpoint(ctx), item, counter)
        /\ machine = "holding" /\ ~batch.open
  BY KernelContextAssumption DEF RecordFirst
<1>2. Edited(ctx, d) /\ d.next <= TopId /\ ctx.next .. (d.next - 1) = fresh
  BY <1>1, Basics, AddedItem
<1>3. /\ batch' = [open |-> TRUE, taken |-> d.taken, ids |-> fresh]
      /\ told' = told \cup fresh /\ machine' = machine /\ finished' = finished
      /\ groups' = groups /\ counter' = counter
  BY DEF RecordFirst, scale
<1> HIDE DEF d, fresh
<1>4. /\ \A g \in groups : g \subseteq 1..(d.next - 1)
      /\ \A g \in groups, v \in VersionsOf(d) : g \subseteq Ids(v) \/ g \cap Ids(v) = {}
      /\ told \cup fresh = Ids(d.items)
      /\ Listed \subseteq Ids(d.items)
      /\ Known(d) \subseteq Known(ctx) \cup fresh
  BY <1>2, EditKeepsRest
<1>5. WellFormed(d) /\ d.taken \in Nat /\ d.redo = <<>> /\ d.undo \in Seq(Seq(Item))
  <2>1. WellFormed(d) /\ d.redo = <<>>
    BY <1>2 DEF Edited
  <2> QED BY <2>1, Parts
<1>6. fresh \subseteq ctx.next .. TopId /\ fresh \subseteq Nat /\ fresh \cap 1..(ctx.next - 1) = {}
  <2> DEFINE first == ctx.next
  <2>1. first \in Nat \ {0} /\ fresh = first .. (first + 1 - 1) /\ first + 1 <= TopId
    <3>1. ctx.next \in Nat \ {0}
      BY Basics DEF ContextType
    <3> QED BY <1>1, <3>1 DEF Room, NewIds, fresh
  <2> HIDE DEF first
  <2>2. fresh \subseteq first .. TopId /\ fresh \subseteq Nat /\ fresh \cap 1..(first - 1) = {}
    BY <2>1, TopAssumption
  <2> QED BY <2>2 DEF first
<1>7. \A k \in DOMAIN d.undo : fresh \cap Ids(d.undo[k]) = {}
  <2>1. \A v \in VersionsOf(ctx) : Ids(v) \subseteq 1..(ctx.next - 1)
    BY Basics, VersionsKnown
  <2>2. \A k \in DOMAIN d.undo : d.undo[k] \in VersionsOf(ctx)
    BY <1>2 DEF Edited, OnTop, VersionsOf, ToSet
  <2> QED BY <1>6, <2>1, <2>2
<1>8. BatchSplitsHistory'
  <2> DEFINE taken == d.taken
             n == Len(d.undo)
  <2>1. taken \in Nat /\ n \in Nat /\ DOMAIN d.undo = 1..n
    BY <1>5
  <2> HIDE DEF taken, n
  <2>2. taken - taken >= 0 /\ \A k \in DOMAIN d.undo : k <= n - (taken - taken)
    BY <2>1
  <2>3. batch'.taken = taken /\ batch'.ids = fresh
    BY <1>3 DEF taken
  <2>4. d.taken = taken /\ Len(d.undo) = n
    BY DEF taken, n
  <2>5. ctx' = d
    BY DEF d
  <2> QED BY <1>1, <1>3, <1>5, <1>7, <2>2, <2>3, <2>4, <2>5 DEF BatchSplitsHistory
<1> USE DEF d
<1>9. NewOnly
  BY <1>4, <1>6 DEF NewOnly
<1>10. GroupsKnown' /\ GroupsWhole'
  BY <1>3, <1>4 DEF GroupsKnown, GroupsWhole, Versions
<1>11. LogTellsItems' /\ AnswerListed'
  BY <1>3, <1>4 DEF IInv, LogTellsItems, AnswerListed, Listed
<1>12. BatchListed'
  BY <1>3, <1>4 DEF BatchListed, Listed
<1>13. TurnOK'
  BY <1>2, <1>3, <1>5, <1>6 DEF IInv, TurnOK
<1> QED BY <1>5, <1>8, <1>9, <1>10, <1>11, <1>12, <1>13 DEF IInv

\* A later one folds whatever was checkpointed since into the batch: what is left
\* of the history is from before it.
LEMMA RecordNextKeeps ==
  ASSUME IInv, NEW item \in Recordable, RecordNext(item)
  PROVE  IInv' /\ NewOnly
<1> DEFINE c == ctx
           start == batch.taken
           f == FoldSince(c, start)
           d == ctx'
           fresh == NewIds(1)
<1>1. /\ item \in Item /\ Room(1) /\ d = Add(f, item, counter)
      /\ machine = "holding" /\ batch.open
  BY KernelContextAssumption DEF RecordNext
<1>2. /\ batch' = [batch EXCEPT !.ids = batch.ids \cup fresh]
      /\ told' = told \cup fresh /\ machine' = machine /\ finished' = finished
      /\ groups' = groups /\ counter' = counter
  BY DEF RecordNext, scale
<1>3. /\ start \in Nat /\ c.taken - start >= 0 /\ c.redo = <<>>
      /\ \A k \in DOMAIN c.undo : k <= Len(c.undo) - (c.taken - start)
                                    => batch.ids \cap Ids(c.undo[k]) = {}
  BY <1>1 DEF IInv, TurnOK, BatchSplitsHistory
<1>4. WellFormed(c) /\ c.taken \in Nat /\ c.next \in Nat \ {0} /\ counter \in Counters
        /\ Listed = Ids(c.items)
  <2>1. WellFormed(c) /\ counter \in Counters
    BY Basics
  <2> QED BY <2>1, Parts DEF Listed
<1>5. /\ WellFormed(f)
      /\ f.items = c.items /\ f.redo = c.redo /\ f.next = c.next /\ f.taken = start
      /\ \A k \in DOMAIN f.undo :
           /\ k \in DOMAIN c.undo /\ f.undo[k] = c.undo[k]
           /\ k <= Len(c.undo) - (c.taken - start)
  <2>1. start <= c.taken
    <3> DEFINE taken == c.taken
    <3>1. taken \in Nat /\ start \in Nat /\ taken - start >= 0
      BY <1>3, <1>4
    <3> HIDE DEF taken, start
    <3>2. start <= taken
      BY <3>1
    <3> QED BY <3>2 DEF taken
  <2> HIDE DEF c, start
  <2> QED BY <1>3, <1>4, <2>1, FoldedKeepsOlder
<1>6. \A k \in DOMAIN f.undo : batch.ids \cap Ids(f.undo[k]) = {} /\ f.undo[k] \in VersionsOf(c)
  <2>1. \A k \in DOMAIN f.undo : batch.ids \cap Ids(f.undo[k]) = {}
    BY <1>3, <1>5
  <2>2. \A k \in DOMAIN f.undo : f.undo[k] \in VersionsOf(c)
    BY <1>5 DEF VersionsOf, ToSet
  <2> QED BY <2>1, <2>2
<1> HIDE DEF f
<1>7. /\ WellFormed(d) /\ d.undo = f.undo /\ d.redo = <<>> /\ d.taken = start
      /\ Ids(d.items) = Listed \cup fresh /\ d.next <= TopId
      /\ fresh \subseteq 1..(d.next - 1) /\ 1..(c.next - 1) \subseteq 1..(d.next - 1)
      /\ fresh \subseteq c.next .. TopId /\ fresh \subseteq Nat
      /\ fresh \cap 1..(c.next - 1) = {}
  <2> DEFINE first == c.next
  <2>1. first \in Nat \ {0} /\ fresh = first .. (first + 1 - 1) /\ first + 1 <= TopId
          /\ f.next = first
    BY <1>1, <1>4, <1>5 DEF Room, NewIds
  <2>2. f \in ContextType
    BY <1>5 DEF WellFormed
  <2>3. <<item>> \in Seq(Item) /\ Len(<<item>>) = 1
          /\ Add(f, item, counter) = AddAll(f, <<item>>, counter)
    <3> HIDE DEF first
    <3>1. f.next + 1 <= TopId
      BY <2>1
    <3> QED BY <1>1, <1>4, <2>2, <3>1, AddIsAddAll
  <2> HIDE DEF d
  <2>4. /\ WellFormed(d) /\ d.undo = f.undo /\ d.redo = <<>> /\ d.taken = f.taken
        /\ d.next = f.next + Len(<<item>>)
        /\ Ids(d.items) = Ids(f.items) \cup (f.next .. (d.next - 1))
    <3>1. f.redo = <<>>
      BY <1>3, <1>5
    <3> DEFINE new == <<item>>
    <3>2. new \in Seq(Item) /\ d = AddAll(f, new, counter)
      BY <1>1, <2>3
    <3> HIDE DEF new
    <3>3. /\ WellFormed(AddAll(f, new, counter))
          /\ AddAll(f, new, counter).undo = f.undo /\ AddAll(f, new, counter).redo = <<>>
          /\ AddAll(f, new, counter).taken = f.taken
          /\ AddAll(f, new, counter).next = f.next + Len(new)
          /\ Ids(AddAll(f, new, counter).items)
               = Ids(f.items) \cup (f.next .. (AddAll(f, new, counter).next - 1))
      BY <1>4, <1>5, <3>1, <3>2, Grown
    <3> QED BY <3>2, <3>3 DEF new
  <2> HIDE DEF first, fresh
  <2>5. d.next = first + 1
    BY <2>1, <2>3, <2>4
  <2>6. /\ fresh \subseteq 1..(first + 1 - 1) /\ 1..(first - 1) \subseteq 1..(first + 1 - 1)
        /\ fresh \subseteq first .. TopId /\ fresh \subseteq Nat
        /\ fresh \cap 1..(first - 1) = {} /\ first .. (first + 1 - 1) = fresh
    BY <2>1, TopAssumption
  <2>7. Ids(d.items) = Listed \cup fresh
    BY <1>4, <1>5, <2>1, <2>4, <2>5, <2>6
  <2> QED BY <1>5, <2>1, <2>4, <2>5, <2>6, <2>7 DEF first
<1>8. \A v \in VersionsOf(ctx) : Ids(v) \subseteq 1..(ctx.next - 1)
  BY Basics, VersionsKnown
<1>9. \A k \in DOMAIN d.undo : (batch.ids \cup fresh) \cap Ids(d.undo[k]) = {}
  BY <1>6, <1>7, <1>8
<1>10. BatchSplitsHistory'
  <2> DEFINE n == Len(d.undo)
  <2>1. start \in Nat /\ n \in Nat /\ DOMAIN d.undo = 1..n
    <3>1. d.undo \in Seq(Seq(Item))
      BY <1>7, Parts
    <3> QED BY <1>3, <3>1
  <2>2. batch'.taken = start /\ batch'.ids = batch.ids \cup fresh /\ ctx' = d
    BY <1>2 DEF IInv, TurnOK
  <2> HIDE DEF start, n, d
  <2>3. start - start >= 0 /\ \A k \in DOMAIN d.undo : k <= n - (start - start)
    BY <2>1
  <2>4. Len(d.undo) = n
    BY DEF n
  <2> QED BY <1>1, <1>2, <1>7, <1>9, <2>2, <2>3, <2>4 DEF BatchSplitsHistory
<1>11. \A v \in VersionsOf(d) : v = d.items \/ v \in VersionsOf(ctx)
  <2>1. ToSet(<<>>) = {}
    BY DEF ToSet
  <2> QED BY <1>6, <1>7, <2>1 DEF VersionsOf, ToSet
<1>12. ctx.items \in VersionsOf(ctx)
  BY DEF VersionsOf
<1>13. NewOnly
  BY <1>7, <1>11, <1>12 DEF NewOnly, Known, Listed
<1>14. GroupsKnown'
  BY <1>2, <1>7 DEF IInv, GroupsKnown
<1>15. GroupsWhole'
  <2> SUFFICES ASSUME NEW g \in groups, NEW v \in VersionsOf(d)
               PROVE  g \subseteq Ids(v) \/ g \cap Ids(v) = {}
    BY <1>2 DEF GroupsWhole, Versions
  <2>1. \A w \in VersionsOf(ctx) : g \subseteq Ids(w) \/ g \cap Ids(w) = {}
    BY DEF IInv, GroupsWhole, Versions
  <2>2. CASE v \in VersionsOf(ctx)
    BY <2>1, <2>2
  <2>3. CASE v = d.items
    <3>1. g \subseteq Listed \/ g \cap Listed = {}
      BY <1>12, <2>1 DEF Listed
    <3>2. g \cap fresh = {}
      BY <1>7 DEF IInv, GroupsKnown
    <3> QED BY <1>7, <2>3, <3>1, <3>2
  <2> QED BY <1>11, <2>2, <2>3
<1>16. LogTellsItems' /\ AnswerListed'
  BY <1>2, <1>7 DEF IInv, LogTellsItems, AnswerListed, Listed
<1>17. BatchListed'
  BY <1>2, <1>7 DEF IInv, BatchListed, Listed, TurnOK
<1>18. TurnOK'
  BY <1>1, <1>2, <1>7 DEF IInv, TurnOK
<1> QED BY <1>7, <1>10, <1>13, <1>14, <1>15, <1>16, <1>17, <1>18 DEF IInv

\* A batch that ends is a group like any other: every version has it whole or not
\* at all.
LEMMA BatchIsWhole ==
  ASSUME IInv, batch.open
  PROVE  /\ batch.ids \subseteq 1..(ctx.next - 1)
         /\ \A v \in Versions : batch.ids \subseteq Ids(v) \/ batch.ids \cap Ids(v) = {}
<1>1. batch.ids \subseteq Ids(ctx.items) /\ ctx.items \in VersionsOf(ctx)
  BY DEF IInv, BatchListed, Listed, VersionsOf
<1>2. batch.ids \subseteq 1..(ctx.next - 1)
  BY <1>1, Basics, VersionsKnown
<1>3. /\ ctx.redo = <<>> /\ ToSet(<<>>) = {}
      /\ \A k \in DOMAIN ctx.undo : batch.ids \subseteq Ids(ctx.undo[k])
                                      \/ batch.ids \cap Ids(ctx.undo[k]) = {}
  BY DEF IInv, BatchSplitsHistory, ToSet
<1> QED BY <1>1, <1>2, <1>3 DEF Versions, VersionsOf, ToSet

\* The steps of the turn that leave the context alone.
LEMMA TurnKeeps ==
  ASSUME IInv, ctx' = ctx, counter' \in Counters, told' = told,
         \/ batch' = batch /\ groups' = groups /\ (batch.open => machine' = machine)
         \/ batch' = NoBatch /\ groups' = groups \cup {batch.ids} /\ batch.open
         \/ batch' = NoBatch /\ groups' = groups /\ ~batch.open,
         finished' # 0 => finished' \in Listed
  PROVE  IInv' /\ NewOnly
<1>1. WellFormed(ctx') /\ NewOnly
  BY Basics DEF NewOnly
<1>2. GroupsKnown' /\ GroupsWhole'
  BY BatchIsWhole DEF IInv, GroupsKnown, GroupsWhole, Versions
<1>3. LogTellsItems' /\ AnswerListed'
  BY DEF IInv, LogTellsItems, AnswerListed, Listed
<1>4. BatchListed'
  BY DEF IInv, BatchListed, Listed, NoBatch
<1>5. TurnOK'
  <2>1. NoBatch \in [open : BOOLEAN, taken : Nat, ids : SUBSET Nat]
    BY DEF NoBatch
  <2> QED BY <2>1 DEF IInv, TurnOK
<1>6. BatchSplitsHistory'
  BY DEF IInv, BatchSplitsHistory, NoBatch
<1> QED BY <1>1, <1>2, <1>3, <1>4, <1>5, <1>6 DEF IInv

---------------------------------------------------------------------------
(* The invariant, and what follows from it.                                *)

\* The first state.
LEMMA InitHolds == Init => IInv
<1> SUFFICES ASSUME Init PROVE IInv
  OBVIOUS
<1>1. /\ ctx.items = <<>> /\ ctx.undo = <<>> /\ ctx.redo = <<>> /\ ctx.next = 1
      /\ ctx.taken = 0 /\ ctx = NewContext
  BY DEF Init, NewContext
<1>2. /\ <<>> \in Seq(Item) /\ <<>> \in Seq(Seq(Item)) /\ Len(<<>>) = 0
      /\ DOMAIN <<>> = {} /\ UndoDepth \in Nat
  BY DepthAssumption
<1>3. Ids(<<>>) = {} /\ ToSet(<<>>) = {} /\ VersionOK(<<>>, 1)
  BY <1>2 DEF Ids, ToSet, VersionOK, Sorted
<1>4. VersionsOf(ctx) = {<<>>} /\ Listed = {}
  BY <1>1, <1>3 DEF VersionsOf, Listed
<1>5. WellFormed(ctx)
  <2>1. ctx \in ContextType
    BY <1>1, <1>2 DEF NewContext, ContextType
  <2>2. Growing(ctx.undo, ctx.items, ctx.redo)
    BY <1>1, <1>2 DEF Growing
  <2>3. Len(ctx.undo) + Len(ctx.redo) <= UndoDepth
    BY <1>1, <1>2
  <2> QED BY <1>1, <1>3, <1>4, <2>1, <2>2, <2>3 DEF WellFormed
<1>6. TurnOK
  BY <1>1, TopAssumption DEF Init, TurnOK, NoBatch
<1>7. GroupsKnown /\ GroupsWhole /\ BatchListed /\ BatchSplitsHistory
  BY DEF Init, GroupsKnown, GroupsWhole, BatchListed, BatchSplitsHistory, NoBatch
<1>8. LogTellsItems /\ AnswerListed
  BY <1>4 DEF Init, LogTellsItems, AnswerListed
<1> QED BY <1>5, <1>6, <1>7, <1>8 DEF IInv

\* Every step of KernelContext.
LEMMA NextKeeps ==
  ASSUME IInv, [Next]_vars
  PROVE  IInv' /\ NewOnly
<1>1. ASSUME NEW item \in Pushable, Push(item)
      PROVE  IInv' /\ NewOnly
  BY <1>1, PushKeeps, KernelContextAssumption
<1>2. ASSUME NEW n \in 1..Together, NEW items \in [1..n -> Pushable], PushAll(items)
      PROVE  IInv' /\ NewOnly
  BY <1>2, PushAllKeeps
<1>3. ASSUME NEW old \in Listed, NEW item \in Pushable, Supersede(old, item)
      PROVE  IInv' /\ NewOnly
  BY <1>3, SupersedeKeeps
<1>4. ASSUME NEW changes \in Changes, SetStates(changes)
      PROVE  IInv' /\ NewOnly
  BY <1>4, SetStatesKeeps, ChangesTyped
<1>5. ASSUME NEW id \in Listed, NEW text \in Texts, ReplaceItem(id, text)
      PROVE  IInv' /\ NewOnly
  BY <1>5, ReplaceKeeps
<1>6. ASSUME NEW id \in Listed, NEW meta \in Metas, AnnotateItem(id, meta)
      PROVE  IInv' /\ NewOnly
  BY <1>6, AnnotateKeeps
<1>7. ASSUME NEW plan \in Plans, ApplyCompaction(plan)
      PROVE  IInv' /\ NewOnly
  BY <1>7, CompactionKeeps
<1>8. CASE Undo
  BY <1>8, UndoKeeps
<1>9. CASE Redo
  BY <1>9, RedoKeeps
<1>10. CASE Recount
  BY <1>10, RecountKeeps DEF Recount, scale
<1>11. ASSUME NEW to \in Counters, SwapCounter(to)
       PROVE  IInv' /\ NewOnly
  BY <1>11, TurnKeeps DEF SwapCounter, turn, IInv, AnswerListed
<1>12. CASE RecountAfterSwap
  BY <1>12, RecountKeeps DEF RecountAfterSwap
<1>13. CASE Claim
  <2>1. ~batch.open
    BY <1>13 DEF Claim, IInv, BatchSplitsHistory
  <2> QED BY <1>13, <2>1, Basics, TurnKeeps DEF Claim, scale
<1>14. ASSUME NEW item \in Recordable, RecordFirst(item)
       PROVE  IInv' /\ NewOnly
  BY <1>14, RecordFirstKeeps
<1>15. ASSUME NEW item \in Recordable, RecordNext(item)
       PROVE  IInv' /\ NewOnly
  BY <1>15, RecordNextKeeps
<1>16. CASE CloseBatch
  BY <1>16, Basics, TurnKeeps DEF CloseBatch, scale, IInv, AnswerListed
<1>17. CASE Release
  BY <1>17, Basics, TurnKeeps DEF Release, scale, IInv, AnswerListed
<1>18. ASSUME NEW answer \in batch.ids, Finish(answer)
       PROVE  IInv' /\ NewOnly
  BY <1>18, Basics, TurnKeeps DEF Finish, scale, IInv, BatchListed
<1>19. CASE Abandon
  BY <1>19, Basics, TurnKeeps DEF Abandon, scale, IInv, AnswerListed
<1>20. CASE UNCHANGED vars
  BY <1>20, Basics, TurnKeeps DEF vars, IInv, AnswerListed
<1> QED BY <1>1, <1>2, <1>3, <1>4, <1>5, <1>6, <1>7, <1>8, <1>9, <1>10, <1>11, <1>12, <1>13,
           <1>14, <1>15, <1>16, <1>17, <1>18, <1>19, <1>20 DEF Next

\* Whatever clients, tools, the compactor and a turn do to the context, in whatever
\* order: the inductive invariant holds.
THEOREM InvariantHolds == Spec => []IInv
<1>1. IInv /\ [Next]_vars => IInv'
  BY NextKeeps
<1> QED BY <1>1, InitHolds, PTL DEF Spec

\* The undo and the redo history of Context together never outgrow the configured
\* depth.
THEOREM HistoryStaysBounded == Spec => []HistoryBounded
<1>1. IInv => HistoryBounded
  BY DEF IInv, WellFormed, HistoryBounded
<1> QED BY <1>1, InvariantHolds, PTL

\* Every version of the items is in strict order of identifiers, which is what
\* index_of's binary search needs.
THEOREM VersionsStaySorted == Spec => []AlwaysSorted
<1>1. IInv => AlwaysSorted
  BY DEF IInv, WellFormed, VersionOK, AlwaysSorted, Versions
<1> QED BY <1>1, InvariantHolds, PTL

\* Undo and redo take an operation of several items, or a turn, whole or not at
\* all, whatever was checkpointed while the turn was being recorded.
THEOREM UndoTakesGroupsWhole == Spec => []GroupsWhole
<1>1. IInv => GroupsWhole
  BY DEF IInv
<1> QED BY <1>1, InvariantHolds, PTL

\* The events alone tell which items are listed.
THEOREM EventsTellTheItems == Spec => []LogTellsItems
<1>1. IInv => LogTellsItems
  BY DEF IInv
<1> QED BY <1>1, InvariantHolds, PTL

\* The answer that State::Finished names is in the list, after an undo as well.
THEOREM AnswerStaysListed == Spec => []AnswerListed
<1>1. IInv => AnswerListed
  BY DEF IInv
<1> QED BY <1>1, InvariantHolds, PTL

\* While a turn is recorded, nothing takes away what it has recorded.
THEOREM BatchStaysListed == Spec => []BatchListed
<1>1. IInv => BatchListed
  BY DEF IInv
<1> QED BY <1>1, InvariantHolds, PTL

\* An identifier is never given to a second item, not even once its first one is
\* gone from the history.
THEOREM IdentifiersAreNeverReused == Spec => NeverReused
<1>1. IInv /\ [Next]_vars => NewOnly
  BY NextKeeps
<1>2. ASSUME NewOnly
      PROVE  LET known(c) == UNION {Ids(items) : items \in VersionsOf(c)}
             IN  known(ctx') \ known(ctx) \subseteq ctx.next .. TopId
  BY <1>2 DEF NewOnly, Known
<1>3. IInv /\ [Next]_vars =>
        [LET known(c) == UNION {Ids(items) : items \in VersionsOf(c)}
         IN  known(ctx') \ known(ctx) \subseteq ctx.next .. TopId]_vars
  BY <1>1, <1>2
<1> QED BY <1>3, InvariantHolds, PTL DEF Spec, NeverReused

---------------------------------------------------------------------------
(* Figures and redo, for any number of counter swaps.  FiguresInForce is   *)
(* inductive with the type of `swapping`: items are measured as they are   *)
(* added or rewritten, and whatever comes back from the history is counted *)
(* again in the hold that brings it back.  RedoOverwritesNothing is a      *)
(* property of single steps: new work leaves nothing to redo, and an undo  *)
(* and a redo change how much there is.                                    *)

\* Every figure in this list is this counter's.
Priced(items, by) == \A k \in DOMAIN items : items[k].priced = by

Figures == swapping \in Nat /\ FiguresInForce

---------------------------------------------------------------------------
(* What the moves of a context do to figures.                              *)

\* A list, with items behind it that were measured as they were added.
LEMMA GrownPriced ==
  ASSUME NEW items \in Seq(Item), NEW new \in Seq(Item), NEW by,
         Priced(items, by), Priced(new, by)
  PROVE  Priced(items \o new, by)
<1>1. \A k \in DOMAIN (items \o new) :
        \/ k \in DOMAIN items /\ (items \o new)[k] = items[k]
        \/ k - Len(items) \in DOMAIN new /\ (items \o new)[k] = new[k - Len(items)]
  OBVIOUS
<1> QED BY <1>1 DEF Priced

\* AddAll measures what it adds.
LEMMA AddAllPriced ==
  ASSUME NEW c \in ContextType, NEW new \in Seq(Item), NEW by \in Counters,
         Priced(c.items, by)
  PROVE  Priced(AddAll(c, new, by).items, by)
<1> DEFINE first == c.next
           added == [k \in DOMAIN new |-> [new[k] EXCEPT !.id = first + k - 1, !.priced = by]]
<1>1. c.items \in Seq(Item) /\ first \in Nat \ {0}
  BY DEF ContextType
<1>2. \A k \in DOMAIN new : added[k] \in Item /\ added[k].priced = by
  <2> SUFFICES ASSUME NEW k \in DOMAIN new
               PROVE  added[k] \in Item /\ added[k].priced = by
    OBVIOUS
  <2>1. new[k] \in Item
    OBVIOUS
  <2>2. k \in Nat /\ k >= 1
    OBVIOUS
  <2> HIDE DEF first
  <2>3. first + k - 1 \in Nat
    BY <1>1, <2>2
  <2> QED BY <2>1, <2>3 DEF Item
<1>3. added = [k \in DOMAIN new |-> added[k]]
  BY SMTT(30)
<1>4. AddAll(c, new, by).items = c.items \o added
  BY DEF AddAll, ContextType
<1> HIDE DEF added
<1>5. added \in Seq(Item) /\ DOMAIN added = DOMAIN new
  BY <1>2, <1>3, MadeFrom
<1>6. Priced(added, by)
  BY <1>2, <1>5 DEF Priced
<1> QED BY <1>1, <1>4, <1>5, <1>6, GrownPriced

\* Add measures what it adds.
LEMMA AddPriced ==
  ASSUME NEW c \in ContextType, NEW item \in Item, NEW by \in Counters,
         Priced(c.items, by)
  PROVE  Priced(Add(c, item, by).items, by)
<1> DEFINE x == [item EXCEPT !.id = c.next, !.priced = by]
<1>1. c.items \in Seq(Item) /\ c.next \in Nat
  BY DEF ContextType
<1>2. x \in Item /\ x.priced = by
  BY <1>1 DEF Item
<1>3. Add(c, item, by).items = Append(c.items, x)
  BY DEF Add, ContextType
<1> HIDE DEF x
<1>4. \A k \in DOMAIN Append(c.items, x) :
        \/ k \in DOMAIN c.items /\ Append(c.items, x)[k] = c.items[k]
        \/ Append(c.items, x)[k] = x
  BY <1>1, <1>2
<1> QED BY <1>2, <1>3, <1>4 DEF Priced

\* A change of what an item is in leaves its figures alone.
LEMMA SetStatePriced ==
  ASSUME NEW c \in ContextType, NEW id, NEW state, NEW note, NEW by,
         Priced(c.items, by)
  PROVE  Priced(SetState(c, id, state, note).items, by)
<1>1. CASE WouldChange(c, id, state, note)
  <2> DEFINE j == IndexOf(c.items, id)
             x == [c.items[j] EXCEPT !.state = state, !.note = note]
  <2>1. j \in DOMAIN c.items /\ c.items \in Seq(Item)
    BY <1>1, IndexFinds DEF WouldChange, ContextType
  <2>2. x.priced = by
    <3>1. c.items[j] \in Item /\ c.items[j].priced = by
      BY <2>1 DEF Priced
    <3> HIDE DEF j
    <3> QED BY <3>1 DEF Item
  <2>3. SetState(c, id, state, note).items = [c.items EXCEPT ![j] = x]
    BY <1>1 DEF SetState, ContextType
  <2> HIDE DEF j, x
  <2> QED BY <2>1, <2>2, <2>3 DEF Priced
<1>2. CASE ~WouldChange(c, id, state, note)
  BY <1>2 DEF SetState
<1> QED BY <1>1, <1>2

\* A run of such changes does so too.
LEMMA SetAllPriced ==
  ASSUME NEW c \in ContextType, NEW changes, NEW targets, NEW by, Priced(c.items, by)
  PROVE  Priced(SetAll(c, changes, targets).items, by)
<1> DEFINE items == SetAll(c, changes, targets).items
           last(id) == {i \in targets : /\ changes[i].id = id
                                        /\ \A j \in targets : changes[j].id = id => j <= i}
<1>1. DOMAIN items = DOMAIN c.items
  BY SMTT(30) DEF SetAll, ContextType
<1>2. ASSUME NEW k \in DOMAIN c.items
      PROVE  \/ items[k] = c.items[k]
             \/ \E s, n : items[k] = [c.items[k] EXCEPT !.state = s, !.note = n]
  BY DEF SetAll, ContextType
<1> HIDE DEF items
<1>3. ASSUME NEW k \in DOMAIN c.items
      PROVE  items[k].priced = by
  <2>1. c.items[k] \in Item /\ c.items[k].priced = by
    BY DEF ContextType, Priced
  <2> QED BY <1>2, <2>1 DEF Item
<1> QED BY <1>1, <1>3 DEF Priced, items

\* Replace measures what it writes.
LEMMA ReplacePriced ==
  ASSUME NEW c \in ContextType, NEW id \in Ids(c.items), NEW text, NEW by,
         Priced(c.items, by)
  PROVE  Priced(Replace(c, id, text, by).items, by)
<1> DEFINE j == IndexOf(c.items, id)
           x == [c.items[j] EXCEPT !.text = text, !.priced = by]
<1>1. j \in DOMAIN c.items /\ c.items \in Seq(Item)
  BY IndexFinds DEF ContextType
<1>2. x.priced = by
  <2>1. c.items[j] \in Item
    BY <1>1
  <2> HIDE DEF j
  <2> QED BY <2>1 DEF Item
<1>3. Replace(c, id, text, by).items = [c.items EXCEPT ![j] = x]
  BY DEF Replace, ContextType
<1> HIDE DEF j, x
<1> QED BY <1>1, <1>2, <1>3 DEF Priced

\* So does Annotate leave the figures alone.
LEMMA AnnotatePriced ==
  ASSUME NEW c \in ContextType, NEW id \in Ids(c.items), NEW meta, NEW by,
         Priced(c.items, by)
  PROVE  Priced(Annotate(c, id, meta).items, by)
<1> DEFINE j == IndexOf(c.items, id)
           x == [c.items[j] EXCEPT !.meta = meta]
<1>1. j \in DOMAIN c.items /\ c.items \in Seq(Item)
  BY IndexFinds DEF ContextType
<1>2. x.priced = by
  <2>1. c.items[j] \in Item /\ c.items[j].priced = by
    BY <1>1 DEF Priced
  <2> HIDE DEF j
  <2> QED BY <2>1 DEF Item
<1>3. Annotate(c, id, meta).items = [c.items EXCEPT ![j] = x] \/ Annotate(c, id, meta) = c
  BY DEF Annotate, ContextType
<1> HIDE DEF j, x
<1> QED BY <1>1, <1>2, <1>3 DEF Priced

\* And so does a compaction.
LEMMA CompactedPriced ==
  ASSUME NEW items \in Seq(Item), NEW plan, NEW by, Priced(items, by)
  PROVE  Priced(Compacted(items, plan), by)
<1> DEFINE d == Compacted(items, plan)
<1>1. DOMAIN d = DOMAIN items
  BY DEF Compacted
<1>2. ASSUME NEW k \in DOMAIN items
      PROVE  \/ d[k] = [items[k] EXCEPT !.state = "Excluded", !.note = Reason]
             \/ d[k] = [items[k] EXCEPT !.state = "Elided", !.note = Reason]
             \/ d[k] = items[k]
  BY SMTT(30) DEF Compacted
<1> HIDE DEF d
<1>3. ASSUME NEW k \in DOMAIN items
      PROVE  d[k].priced = by
  <2>1. items[k] \in Item /\ items[k].priced = by
    BY DEF Priced
  <2> QED BY <1>2, <2>1 DEF Item
<1> QED BY <1>1, <1>3 DEF Priced, d

\* Recounted leaves no other figure in the list.
LEMMA RecountedPriced ==
  ASSUME NEW c \in ContextType, NEW by
  PROVE  Priced(Recounted(c, by).items, by)
<1>1. Recounted(c, by).items = [k \in DOMAIN c.items |-> [c.items[k] EXCEPT !.priced = by]]
  BY DEF Recounted, ContextType
<1>2. ASSUME NEW k \in DOMAIN c.items
      PROVE  [c.items[k] EXCEPT !.priced = by].priced = by
  <2>1. c.items[k] \in Item
    BY DEF ContextType
  <2> QED BY <2>1 DEF Item
<1> QED BY <1>1, <1>2 DEF Priced

---------------------------------------------------------------------------
(* The figures in the list.                                                *)

\* A context with the installed counter's figures still has them after a change
\* that keeps them, whatever the history does.
LEMMA FiguresKept ==
  ASSUME Figures, UNCHANGED scale,
         Priced(ctx.items, counter) => Priced(ctx'.items, counter)
  PROVE  Figures'
BY DEF Figures, FiguresInForce, Priced, scale

\* An operation that starts with a checkpoint starts from the items there are.
LEMMA CheckpointPriced ==
  ASSUME IInv, Priced(ctx.items, counter)
  PROVE  Checkpoint(ctx) \in ContextType /\ counter \in Counters
           /\ Priced(Checkpoint(ctx).items, counter)
BY Basics

\* The figures after one item more.
LEMMA AddingKeepsFigures ==
  ASSUME IInv, Figures, NEW item \in Item, UNCHANGED scale,
         \/ ctx' = Add(Checkpoint(ctx), item, counter)
         \/ ctx' = Add(FoldSince(ctx, batch.taken), item, counter)
  PROVE  Figures'
<1> SUFFICES ASSUME Priced(ctx.items, counter)
             PROVE  Priced(ctx'.items, counter)
  BY FiguresKept
<1>1. CASE ctx' = Add(Checkpoint(ctx), item, counter)
  BY <1>1, CheckpointPriced, AddPriced
<1>2. CASE ctx' = Add(FoldSince(ctx, batch.taken), item, counter)
  <2> DEFINE d == FoldSince(ctx, batch.taken)
             x == [item EXCEPT !.id = d.next, !.priced = counter]
  <2>1. ctx \in ContextType /\ ctx.items \in Seq(Item) /\ counter \in Counters
    BY Basics
  <2>2. d.items = ctx.items /\ d.next = ctx.next
    BY <2>1 DEF FoldSince, ContextType
  <2>3. Add(d, item, counter).items = Add(ctx, item, counter).items
    <3>1. Add(d, item, counter).items = Append(d.items, [item EXCEPT !.id = d.next, !.priced = counter])
      BY <2>1 DEF FoldSince, Add, ContextType
    <3>2. Add(ctx, item, counter).items = Append(ctx.items, [item EXCEPT !.id = ctx.next, !.priced = counter])
      BY <2>1 DEF Add, ContextType
    <3> QED BY <3>1, <3>2, <2>2
  <2> QED BY <1>2, <2>1, <2>3, AddPriced
<1> QED BY <1>1, <1>2

\* After several at once.
LEMMA AddingManyKeepsFigures ==
  ASSUME IInv, Figures, NEW n \in 1..Together, NEW items \in [1..n -> Pushable],
         PushAll(items)
  PROVE  Figures'
<1>1. items \in Seq(Item)
  BY KernelContextAssumption
<1>2. ctx' = AddAll(Checkpoint(ctx), items, counter) /\ UNCHANGED scale
  BY DEF PushAll
<1> QED BY <1>1, <1>2, CheckpointPriced, AddAllPriced, FiguresKept

\* After an item and the states of those it replaces.
LEMMA SupersedeKeepsFigures ==
  ASSUME IInv, Figures, NEW old \in Listed, NEW item \in Pushable, Supersede(old, item)
  PROVE  Figures'
<1> DEFINE d == Add(Checkpoint(ctx), item, counter)
<1>1. item \in Item /\ Room(1) /\ ctx' = SetState(d, old, "Excluded", ctx.next)
        /\ UNCHANGED scale
  BY KernelContextAssumption DEF Supersede
<1>2. Edited(ctx, d)
  BY <1>1, Basics, AddedItem
<1>3. Priced(ctx.items, counter) => Priced(d.items, counter)
  BY <1>1, CheckpointPriced, AddPriced
<1> HIDE DEF d
<1>4. d \in ContextType
  BY <1>2 DEF Edited, WellFormed
<1> QED BY <1>1, <1>3, <1>4, SetStatePriced, FiguresKept

\* After items change where they are.
LEMMA ChangingKeepsFigures ==
  ASSUME IInv, Figures,
         \/ \E changes : SetStates(changes)
         \/ \E id \in Listed, text \in Texts : ReplaceItem(id, text)
         \/ \E id \in Listed, meta \in Metas : AnnotateItem(id, meta)
  PROVE  Figures'
<1> DEFINE d == Checkpoint(ctx)
<1>1. /\ d \in ContextType /\ d.items = ctx.items /\ ctx \in ContextType
      /\ Listed = Ids(d.items) /\ Listed = Ids(ctx.items) /\ counter \in Counters
  BY Basics DEF Listed
<1> HIDE DEF d
<1>2. ASSUME NEW changes, SetStates(changes)
      PROVE  Figures'
  <2>1. ctx' = SetAll(d, changes, Targets(changes)) /\ UNCHANGED scale
    BY <1>2 DEF SetStates, d
  <2> QED BY <1>1, <2>1, SetAllPriced, FiguresKept
<1>3. ASSUME NEW id \in Listed, NEW text \in Texts, ReplaceItem(id, text)
      PROVE  Figures'
  <2>1. ctx' = Replace(d, id, text, counter) /\ UNCHANGED scale
    BY <1>3 DEF ReplaceItem, d
  <2> QED BY <1>1, <2>1, ReplacePriced, FiguresKept
<1>4. ASSUME NEW id \in Listed, NEW meta \in Metas, AnnotateItem(id, meta)
      PROVE  Figures'
  <2>1. ctx' = Annotate(ctx, id, meta) /\ UNCHANGED scale
    BY <1>4 DEF AnnotateItem
  <2> QED BY <1>1, <2>1, AnnotatePriced, FiguresKept
<1> QED BY <1>2, <1>3, <1>4

\* After a plan is applied.
LEMMA CompactionKeepsFigures ==
  ASSUME IInv, Figures, NEW plan \in Plans, ApplyCompaction(plan)
  PROVE  Figures'
<1> DEFINE d == [Checkpoint(ctx) EXCEPT !.items = Compacted(ctx.items, plan)]
           new == plan.summary
<1>1. new \in Seq(Item)
  <2>1. new = <<>> \/ \E item \in Pushable : new = <<item>>
    BY DEF Plans
  <2>2. \A item \in Item : <<item>> \in Seq(Item)
    OBVIOUS
  <2>3. <<>> \in Seq(Item)
    OBVIOUS
  <2> HIDE DEF new
  <2> QED BY <2>1, <2>2, <2>3, KernelContextAssumption
<1>2. ctx' = AddAll(d, new, counter) /\ UNCHANGED scale
  BY DEF ApplyCompaction
<1>3. Checkpoint(ctx) \in ContextType /\ ctx.items \in Seq(Item) /\ counter \in Counters
  BY Basics
<1>4. Compacted(ctx.items, plan) \in Seq(Item)
  <2> DEFINE items == Compacted(ctx.items, plan)
  <2>1. items = [k \in DOMAIN ctx.items |-> items[k]]
    BY DEF Compacted
  <2>2. ASSUME NEW k \in DOMAIN ctx.items
        PROVE  \/ items[k] = [ctx.items[k] EXCEPT !.state = "Excluded", !.note = Reason]
               \/ items[k] = [ctx.items[k] EXCEPT !.state = "Elided", !.note = Reason]
               \/ items[k] = ctx.items[k]
    BY DEF Compacted
  <2> HIDE DEF items
  <2>3. ASSUME NEW k \in DOMAIN ctx.items
        PROVE  items[k] \in Item
    <3>1. ctx.items[k] \in Item /\ Reason \in Notes
      BY <1>3, KernelContextAssumption
    <3> QED BY <2>2, <3>1, ZenonT(60) DEF Item, States
  <2> QED BY <1>3, <2>1, <2>3, MadeFrom DEF items
<1>5. d \in ContextType /\ d.items = Compacted(ctx.items, plan)
  BY <1>3, <1>4 DEF ContextType
<1>6. Priced(ctx.items, counter) => Priced(d.items, counter)
  BY <1>3, <1>5, CompactedPriced
<1> HIDE DEF d, new
<1> QED BY <1>1, <1>2, <1>3, <1>5, <1>6, AddAllPriced, FiguresKept

\* Whatever comes back from the history is counted in the same hold.
LEMMA CountingKeepsFigures ==
  ASSUME IInv, Figures, NEW d \in ContextType, ctx' = Recounted(d, counter),
         counter' = counter, swapping' \in Nat
  PROVE  Figures'
BY RecountedPriced DEF Figures, FiguresInForce, Priced

\* After every step of KernelContext.
LEMMA FiguresNext ==
  ASSUME IInv, Figures, [Next]_vars
  PROVE  Figures'
<1>1. ASSUME NEW item \in Pushable, Push(item)
      PROVE  Figures'
  BY <1>1, KernelContextAssumption, AddingKeepsFigures DEF Push
<1>2. ASSUME NEW n \in 1..Together, NEW items \in [1..n -> Pushable], PushAll(items)
      PROVE  Figures'
  BY <1>2, AddingManyKeepsFigures
<1>3. ASSUME NEW old \in Listed, NEW item \in Pushable, Supersede(old, item)
      PROVE  Figures'
  BY <1>3, SupersedeKeepsFigures
<1>4. ASSUME \/ \E changes : SetStates(changes)
             \/ \E id \in Listed, text \in Texts : ReplaceItem(id, text)
             \/ \E id \in Listed, meta \in Metas : AnnotateItem(id, meta)
      PROVE  Figures'
  BY <1>4, ChangingKeepsFigures
<1>5. ASSUME NEW plan \in Plans, ApplyCompaction(plan)
      PROVE  Figures'
  BY <1>5, CompactionKeepsFigures
<1>6. CASE Undo
  <2>1. Undone(ctx) \in ContextType
    BY <1>6, Basics, UndoneMoves DEF Undo, WellFormed
  <2> QED BY <1>6, <2>1, CountingKeepsFigures DEF Undo, scale, Figures
<1>7. CASE Redo
  <2>1. Redone(ctx) \in ContextType
    BY <1>7, Basics, RedoneMoves DEF Redo, WellFormed
  <2> QED BY <1>7, <2>1, CountingKeepsFigures DEF Redo, scale, Figures
<1>8. CASE Recount
  BY <1>8, Basics, CountingKeepsFigures DEF Recount, scale, Figures
<1>9. ASSUME NEW to \in Counters, SwapCounter(to)
      PROVE  Figures'
  BY <1>9 DEF SwapCounter, Figures, FiguresInForce
<1>10. CASE RecountAfterSwap
  BY <1>10, Basics, CountingKeepsFigures DEF RecountAfterSwap, Figures
<1>11. ASSUME NEW item \in Recordable, RecordFirst(item) \/ RecordNext(item)
       PROVE  Figures'
  BY <1>11, KernelContextAssumption, AddingKeepsFigures DEF RecordFirst, RecordNext
<1>12. ASSUME ctx' = ctx, UNCHANGED scale
       PROVE  Figures'
  BY <1>12, FiguresKept
<1>13. CASE Claim \/ CloseBatch \/ Release \/ Abandon \/ UNCHANGED vars
              \/ \E answer \in batch.ids : Finish(answer)
  BY <1>12, <1>13 DEF Claim, CloseBatch, Release, Abandon, Finish, vars, scale
<1> QED BY <1>1, <1>2, <1>3, <1>4, <1>5, <1>6, <1>7, <1>8, <1>9, <1>10, <1>11, <1>13 DEF Next

\* Whoever swaps the counter (Kernel::set_counter), however often and whatever
\* is done to the items before it recounts them: once every swap has recounted,
\* no figure of another counter is left.
THEOREM FiguresFollowTheCounter == Spec => []FiguresInForce
<1>1. Init => Figures
  BY DEF Init, Figures, FiguresInForce, NewContext
<1>2. IInv /\ Figures /\ [Next]_vars => Figures'
  BY FiguresNext
<1>3. Figures => FiguresInForce
  BY DEF Figures
<1> QED BY <1>1, <1>2, <1>3, InvariantHolds, PTL DEF Spec

---------------------------------------------------------------------------
(* What can be redone.                                                     *)

\* An item but for the figure a counter gave it.
Worth(items) == [k \in DOMAIN items |-> [items[k] EXCEPT !.priced = {}]]

SameWorth == ctx'.redo # <<>> /\ ctx'.redo = ctx.redo => Worth(ctx'.items) = Worth(ctx.items)

\* Counting changes figures only.
LEMMA RecountedWorth ==
  ASSUME NEW c \in ContextType, NEW by
  PROVE  Worth(Recounted(c, by).items) = Worth(c.items) /\ Recounted(c, by).redo = c.redo
<1> DEFINE items == Recounted(c, by).items
<1>1. items = [k \in DOMAIN c.items |-> [c.items[k] EXCEPT !.priced = by]]
        /\ Recounted(c, by).redo = c.redo
  BY DEF Recounted, ContextType
<1>2. ASSUME NEW k \in DOMAIN c.items
      PROVE  [[c.items[k] EXCEPT !.priced = by] EXCEPT !.priced = {}]
               = [c.items[k] EXCEPT !.priced = {}]
  <2>1. c.items[k] \in Item
    BY DEF ContextType
  <2> QED BY <2>1 DEF Item
<1> HIDE DEF items
<1> QED BY <1>1, <1>2 DEF Worth, items

\* New work leaves nothing to redo, whatever it does after its checkpoint.
LEMMA NothingToRedo ==
  ASSUME IInv
  PROVE  /\ Checkpoint(ctx).redo = <<>>
         /\ batch.open => FoldSince(ctx, batch.taken).redo = <<>>
<1>1. ctx \in ContextType
  BY Basics
<1>2. Checkpoint(ctx).redo = <<>>
  BY <1>1 DEF Checkpoint, ContextType
<1>3. ASSUME batch.open
      PROVE  FoldSince(ctx, batch.taken).redo = <<>>
  BY <1>1, <1>3 DEF IInv, BatchSplitsHistory, FoldSince, ContextType
<1> QED BY <1>2, <1>3

\* The changes of a context's items leave its redo stack alone.
LEMMA RedoLeftAlone ==
  ASSUME NEW c \in ContextType
  PROVE  /\ \A item, by : Add(c, item, by).redo = c.redo
         /\ \A new, by : AddAll(c, new, by).redo = c.redo
         /\ \A id, state, note : SetState(c, id, state, note).redo = c.redo
         /\ \A changes, targets : SetAll(c, changes, targets).redo = c.redo
         /\ \A id, text, by : Replace(c, id, text, by).redo = c.redo
<1>1. \A item, by : Add(c, item, by).redo = c.redo
  BY DEF Add, ContextType
<1>2. \A new, by : AddAll(c, new, by).redo = c.redo
  BY DEF AddAll, ContextType
<1>3. \A id, state, note : SetState(c, id, state, note).redo = c.redo
  BY DEF SetState, ContextType
<1>4. \A changes, targets : SetAll(c, changes, targets).redo = c.redo
  BY DEF SetAll, ContextType
<1>5. \A id, text, by : Replace(c, id, text, by).redo = c.redo
  BY DEF Replace, ContextType
<1> QED BY <1>1, <1>2, <1>3, <1>4, <1>5

\* What adds an item.
LEMMA AddingEndsRedo ==
  ASSUME IInv,
         \/ \E item \in Pushable : Push(item)
         \/ \E items : PushAll(items)
         \/ \E old \in Listed, item \in Pushable : Supersede(old, item)
         \/ \E item \in Recordable : RecordFirst(item) \/ RecordNext(item)
  PROVE  ctx'.redo = <<>>
<1> DEFINE d == Checkpoint(ctx)
<1>1. d \in ContextType /\ ctx \in ContextType /\ d.redo = <<>>
  BY Basics, NothingToRedo
<1>2. ASSUME NEW item, Push(item) \/ RecordFirst(item)
      PROVE  ctx'.redo = <<>>
  <2>1. ctx' = Add(d, item, counter)
    BY <1>2 DEF Push, RecordFirst
  <2> HIDE DEF d
  <2> QED BY <1>1, <2>1, RedoLeftAlone
<1>3. ASSUME NEW items, PushAll(items)
      PROVE  ctx'.redo = <<>>
  <2>1. ctx' = AddAll(d, items, counter)
    BY <1>3 DEF PushAll
  <2> HIDE DEF d
  <2> QED BY <1>1, <2>1, RedoLeftAlone
<1>4. ASSUME NEW old \in Listed, NEW item \in Pushable, Supersede(old, item)
      PROVE  ctx'.redo = <<>>
  <2> DEFINE e == Add(d, item, counter)
  <2>1. Edited(ctx, e)
    BY <1>4, Basics, AddedItem, KernelContextAssumption DEF Supersede
  <2>2. ctx' = SetState(e, old, "Excluded", ctx.next)
    BY <1>4 DEF Supersede
  <2> HIDE DEF e
  <2> QED BY <2>1, <2>2, RedoLeftAlone DEF Edited, WellFormed
<1>5. ASSUME NEW item, RecordNext(item)
      PROVE  ctx'.redo = <<>>
  <2>1. ctx' = Add(FoldSince(ctx, batch.taken), item, counter) /\ batch.open
    BY <1>5 DEF RecordNext
  <2>2. FoldSince(ctx, batch.taken).redo = <<>>
    BY <2>1, NothingToRedo
  <2>3. Add(FoldSince(ctx, batch.taken), item, counter).redo = FoldSince(ctx, batch.taken).redo
    BY <1>1 DEF Add, FoldSince, ContextType
  <2> QED BY <2>1, <2>2, <2>3
<1> QED BY <1>2, <1>3, <1>4, <1>5

\* What changes items, metadata included.
LEMMA ChangingEndsRedo ==
  ASSUME IInv,
         \/ \E changes : SetStates(changes)
         \/ \E id \in Listed, text \in Texts : ReplaceItem(id, text)
         \/ \E id \in Listed, meta \in Metas : AnnotateItem(id, meta)
         \/ \E plan \in Plans : ApplyCompaction(plan)
  PROVE  ctx'.redo = <<>> \/ ctx' = ctx
<1> DEFINE d == Checkpoint(ctx)
<1>1. d \in ContextType /\ ctx \in ContextType /\ d.redo = <<>>
  BY Basics, NothingToRedo
<1>2. ASSUME NEW changes, SetStates(changes)
      PROVE  ctx'.redo = <<>>
  <2>1. ctx' = SetAll(d, changes, Targets(changes))
    BY <1>2 DEF SetStates
  <2> HIDE DEF d
  <2> QED BY <1>1, <2>1, RedoLeftAlone
<1>3. ASSUME NEW id, NEW text, ReplaceItem(id, text)
      PROVE  ctx'.redo = <<>>
  <2>1. ctx' = Replace(d, id, text, counter)
    BY <1>3 DEF ReplaceItem
  <2> HIDE DEF d
  <2> QED BY <1>1, <2>1, RedoLeftAlone
<1>4. ASSUME NEW id, NEW meta, AnnotateItem(id, meta)
      PROVE  ctx'.redo = <<>> \/ ctx' = ctx
  BY <1>1, <1>4 DEF AnnotateItem, Annotate, ContextType
<1>5. ASSUME NEW plan \in Plans, ApplyCompaction(plan)
      PROVE  ctx'.redo = <<>>
  <2> DEFINE e == [d EXCEPT !.items = Compacted(ctx.items, plan)]
  <2>1. ctx' = AddAll(e, plan.summary, counter)
    BY <1>5 DEF ApplyCompaction
  <2> HIDE DEF d
  <2>2. AddAll(e, plan.summary, counter).redo = d.redo
    BY <1>1 DEF AddAll, ContextType
  <2> QED BY <1>1, <2>1, <2>2
<1> QED BY <1>2, <1>3, <1>4, <1>5

\* An undo leaves more to redo and a redo less, so neither leaves it as it was.
LEMMA WalkingMovesRedo ==
  ASSUME IInv, Undo \/ Redo
  PROVE  ctx'.redo # ctx.redo
<1> DEFINE u == ctx.undo
           r == ctx.redo
           longer == Append(r, ctx.items)
<1>1. /\ ctx \in ContextType /\ UndoDepth \in Nat /\ ctx.items \in Seq(Item)
      /\ u \in Seq(Seq(Item)) /\ r \in Seq(Seq(Item)) /\ Len(u) + Len(r) <= UndoDepth
  BY Basics, Parts
<1>2. CASE Undo
  <2>1. Undone(ctx).redo = IF Len(longer) > UndoDepth THEN Tail(longer) ELSE longer
    BY <1>1 DEF Undone, ContextType
  <2>2. WellFormed(ctx) /\ u # <<>> /\ ctx' = Recounted(Undone(ctx), counter)
    BY <1>2, Basics DEF Undo
  <2>3. Undone(ctx) \in ContextType
    BY <2>2, UndoneMoves DEF WellFormed
  <2>4. ctx'.redo = Undone(ctx).redo
    BY <2>2, <2>3, RecountedWorth
  <2> HIDE DEF u, r
  <2>5. Len(longer) = Len(r) + 1 /\ Len(u) \in Nat /\ Len(u) > 0 /\ Len(r) \in Nat
    BY <1>1, <2>2
  <2>6. ~(Len(longer) > UndoDepth)
    BY <1>1, <2>5
  <2>7. longer # r
    <3> HIDE DEF longer
    <3> QED BY <2>5
  <2> HIDE DEF longer
  <2>8. ctx'.redo = longer
    BY <2>1, <2>4, <2>6
  <2> QED BY <2>7, <2>8 DEF r
<1>3. CASE Redo
  <2>1. Redone(ctx).redo = Front(r)
    BY <1>1 DEF Redone, ContextType
  <2>2. WellFormed(ctx) /\ r # <<>> /\ ctx' = Recounted(Redone(ctx), counter)
    BY <1>3, Basics DEF Redo
  <2>3. Redone(ctx) \in ContextType
    BY <2>2, RedoneMoves DEF WellFormed
  <2>4. ctx'.redo = Redone(ctx).redo
    BY <2>2, <2>3, RecountedWorth
  <2> HIDE DEF u, r
  <2>5. Len(Front(r)) = Len(r) - 1 /\ Len(r) \in Nat
    <3>1. r \in Seq(Seq(Item)) /\ r # <<>>
      BY <1>1, <2>2
    <3>2. Len(Front(r)) = Len(r) - 1
      BY <3>1, FrontAndLast
    <3> QED BY <3>1, <3>2
  <2>6. Front(r) # r
    BY <2>5
  <2> QED BY <2>1, <2>4, <2>6 DEF r
<1> QED BY <1>2, <1>3

\* No step changes what an item was worth.
LEMMA WorthNext ==
  ASSUME IInv, [Next]_vars
  PROVE  SameWorth
<1>1. ASSUME ctx'.redo = <<>> \/ ctx' = ctx
      PROVE  SameWorth
  BY <1>1 DEF SameWorth
<1>2. CASE \/ \E item \in Pushable : Push(item)
           \/ \E n \in 1..Together : \E items \in [1..n -> Pushable] : PushAll(items)
           \/ \E old \in Listed, item \in Pushable : Supersede(old, item)
           \/ \E item \in Recordable : RecordFirst(item) \/ RecordNext(item)
  BY <1>1, <1>2, AddingEndsRedo
<1>3. CASE \/ \E changes \in Changes : SetStates(changes)
           \/ \E id \in Listed, text \in Texts : ReplaceItem(id, text)
           \/ \E id \in Listed, meta \in Metas : AnnotateItem(id, meta)
           \/ \E plan \in Plans : ApplyCompaction(plan)
  BY <1>1, <1>3, ChangingEndsRedo
<1>4. CASE Undo \/ Redo
  BY <1>4, WalkingMovesRedo DEF SameWorth
<1>5. CASE Recount \/ RecountAfterSwap
  BY <1>5, Basics, RecountedWorth DEF Recount, RecountAfterSwap, SameWorth
<1>6. CASE \/ \E to \in Counters : SwapCounter(to)
           \/ Claim \/ CloseBatch \/ Release \/ Abandon \/ UNCHANGED vars
           \/ \E answer \in batch.ids : Finish(answer)
  BY <1>1, <1>6 DEF SwapCounter, Claim, CloseBatch, Release, Abandon, Finish, vars
<1> QED BY <1>2, <1>3, <1>4, <1>5, <1>6 DEF Next

\* As long as an undo can be taken back (Kernel::redo), the items are what that
\* undo left, whatever was counted meanwhile: a redo writes over nothing.
THEOREM RedoIsSafe == Spec => RedoOverwritesNothing
<1>1. ASSUME SameWorth
      PROVE  LET worth(items) == [k \in DOMAIN items |-> [items[k] EXCEPT !.priced = {}]]
             IN  ctx'.redo # <<>> /\ ctx'.redo = ctx.redo
                   => worth(ctx'.items) = worth(ctx.items)
  BY <1>1 DEF SameWorth, Worth
<1>2. IInv /\ [Next]_vars =>
        [LET worth(items) == [k \in DOMAIN items |-> [items[k] EXCEPT !.priced = {}]]
         IN  ctx'.redo # <<>> /\ ctx'.redo = ctx.redo
               => worth(ctx'.items) = worth(ctx.items)]_vars
  BY <1>1, WorthNext
<1> QED BY <1>2, InvariantHolds, PTL DEF Spec, RedoOverwritesNothing

---------------------------------------------------------------------------
(* Requests.                                                               *)

\* What is pushed, and what an item's words are replaced by, is an item and a text.
WordsOK == {notice, given, rewrite.to} \subseteq Wordings

RewriteType == [at : {"no", "replacing"}, to : Wordings, left : SUBSET Nat, done : Nat]

RInv == IInv /\ WordsOK /\ rewrite \in RewriteType

\* The first state of the requests.
LEMMA RequestsInitHolds == RequestsInit => RInv
<1>. SUFFICES ASSUME RequestsInit PROVE RInv
  OBVIOUS
<1>1. IInv
  BY InitHolds DEF RequestsInit
<1>2. WordsOK /\ rewrite \in RewriteType
  BY RequestsAssumption DEF RequestsInit, NoRewrite, WordsOK, RewriteType
<1>. QED
  BY <1>1, <1>2 DEF RInv

\* A step that leaves the context alone.
LEMMA Untouched ==
  ASSUME IInv, UNCHANGED vars
  PROVE  IInv' /\ NewOnly
  BY NextKeeps

\* The notice is an item, in any of its words.
LEMMA NoticeIsItem ==
  ASSUME NEW words \in Wordings
  PROVE  [NoticeItem EXCEPT !.text = words] \in Item
  BY RequestsAssumption DEF Item

\* The kernel pushes the notice as any client pushes an item.
LEMMA PlaceKeeps ==
  ASSUME RInv, Place
  PROVE  IInv' /\ NewOnly
<1>1. given \in Wordings
  BY DEF RInv, WordsOK
<1>. QED
  BY <1>1, NoticeIsItem, PushKeeps DEF Place, RInv

\* Excluding is a change of state, of whatever items.
LEMMA RetireKeeps ==
  ASSUME RInv, Retire
  PROVE  IInv' /\ NewOnly
<1>. DEFINE changes == Excluding(req.retiring)
<1>1. CASE UNCHANGED vars
  BY <1>1, Untouched DEF RInv
<1>2. CASE SetStates(changes)
  <2>1. ASSUME NEW i \in Targets(changes)
        PROVE  changes[i].state \in States /\ changes[i].note \in Notes \cup Nat \cup {NoNote}
    <3>1. i \in DOMAIN Ascending(req.retiring)
      BY <2>1 DEF Targets, Excluding
    <3>. QED
      BY <3>1 DEF Excluding, States
  <2>. HIDE DEF changes
  <2>. QED
    BY <1>2, <2>1, SetStatesKeeps DEF RInv
<1>. QED
  BY <1>1, <1>2 DEF Retire

\* It applies a plan it was brought as any client does.
LEMMA ApplyPlanKeeps ==
  ASSUME RInv, NEW plan \in Brought, ApplyPlan(plan)
  PROVE  IInv' /\ NewOnly
<1>1. plan \in Plans
  BY RequestsAssumption DEF Brought, Plans
<1>. QED
  BY <1>1, CompactionKeeps DEF ApplyPlan, RInv

\* Clients set states while a request is built.
LEMMA ClientMovesKeeps ==
  ASSUME RInv, NEW change \in Change, ClientMoves(change)
  PROVE  IInv' /\ NewOnly
<1>1. change.state \in States /\ change.note \in Notes \cup Nat \cup {NoNote}
  BY KernelContextAssumption DEF Change
<1>2. \A i \in Targets(<<change>>) : <<change>>[i] = change
  BY DEF Targets
<1>. QED
  BY <1>1, <1>2, SetStatesKeeps DEF ClientMoves, RInv

\* The application rewrites the notice.
LEMMA RewordOneKeeps ==
  ASSUME RInv, NEW id \in rewrite.left, RewordOne(id)
  PROVE  IInv' /\ NewOnly
<1>1. CASE id \in Listed /\ ReplaceItem(id, rewrite.to)
  <2>1. rewrite.to \in Texts
    BY RequestsAssumption DEF RInv, WordsOK
  <2>. QED
    BY <1>1, <2>1, ReplaceKeeps DEF RInv
<1>2. CASE UNCHANGED vars
  BY <1>2, Untouched DEF RInv
<1>. QED
  BY <1>1, <1>2 DEF RewordOne

\* Every step of a request or of a client keeps the context as it must be.
LEMMA RequestsKeepContext ==
  ASSUME RInv, [RequestsNext]_<<vars, requests>>
  PROVE  IInv' /\ NewOnly
<1>. USE DEF RInv
<1>1. CASE UNCHANGED vars
  BY <1>1, Untouched
<1>2. CASE Ask
  <2>1. Next
    BY <1>2 DEF Ask, Next
  <2>. QED
    BY <2>1, NextKeeps
<1>3. ASSUME NEW plan \in Brought, ApplyPlan(plan)
      PROVE  IInv' /\ NewOnly
  BY <1>3, ApplyPlanKeeps
<1>4. CASE Place
  BY <1>4, PlaceKeeps
<1>5. CASE Retire
  BY <1>5, RetireKeeps
<1>6. CASE Refuse \/ GiveUp \/ Conclude \/ Further
  <2>1. Next
    BY <1>6 DEF Refuse, GiveUp, Conclude, Further, Next
  <2>. QED
    BY <2>1, NextKeeps
<1>7. ASSUME NEW item \in Recordable, Record(item)
      PROVE  IInv' /\ NewOnly
  BY <1>7, RecordFirstKeeps DEF Record
<1>8. ASSUME NEW item \in Pushable, ClientPush(item)
      PROVE  IInv' /\ NewOnly
  BY <1>8, PushKeeps, KernelContextAssumption DEF ClientPush
<1>9. ASSUME NEW change \in Change, ClientMoves(change)
      PROVE  IInv' /\ NewOnly
  BY <1>9, ClientMovesKeeps
<1>10. CASE Walk
  BY <1>10, UndoKeeps, RedoKeeps DEF Walk
<1>11. ASSUME NEW id \in rewrite.left, RewordOne(id)
       PROVE  IInv' /\ NewOnly
  BY <1>11, RewordOneKeeps
<1>12. CASE \/ LeaveBe \/ Consult \/ NoPlan \/ BuildAgain \/ AsBefore \/ Mark \/ Look \/ Weigh
            \/ BuildLast \/ Send \/ Reworded \/ \E words \in Wordings : Reword(words)
  BY <1>12, <1>1
  DEF LeaveBe, Consult, NoPlan, BuildAgain, AsBefore, Mark, Look, Weigh, BuildLast, Send,
      Reworded, Reword
<1>. QED
  BY <1>1, <1>2, <1>3, <1>4, <1>5, <1>6, <1>7, <1>8, <1>9, <1>10, <1>11, <1>12
  DEF RequestsNext, Kernel, Client

\* The words of the notice are always some of its wordings.
LEMMA RequestsKeepWords ==
  ASSUME RInv, [RequestsNext]_<<vars, requests>>
  PROVE  WordsOK' /\ rewrite' \in RewriteType
<1>1. CASE UNCHANGED rest
  BY <1>1 DEF rest, RInv, WordsOK
<1>2. CASE Mark
  BY <1>2 DEF Mark, RInv, WordsOK
<1>3. CASE BuildLast
  BY <1>3, RequestsAssumption DEF BuildLast, RInv, WordsOK
<1>4. CASE Walk
  BY <1>4 DEF Walk, RInv, WordsOK
<1>5. ASSUME NEW words \in Wordings, Reword(words)
      PROVE  WordsOK' /\ rewrite' \in RewriteType
  <2>1. {ctx.items[k].id : k \in Copies(ctx.items, notice)} \subseteq Nat
    <3>1. ctx.items \in Seq(Item)
      BY Basics DEF RInv
    <3>2. ASSUME NEW k \in Copies(ctx.items, notice)
          PROVE  ctx.items[k].id \in Nat
      <4>1. ctx.items[k] \in Item
        BY <3>1 DEF Copies
      <4>. QED
        BY <4>1 DEF Item
    <3>. QED
      BY <3>2
  <2>2. rewrite' \in RewriteType /\ rewrite'.to = words
    BY <1>5, <2>1 DEF Reword, RInv, RewriteType
  <2>. QED
    BY <1>5, <2>2 DEF Reword, RInv, WordsOK
<1>6. ASSUME NEW id \in rewrite.left, RewordOne(id)
      PROVE  WordsOK' /\ rewrite' \in RewriteType
  <2>1. rewrite' \in RewriteType /\ rewrite'.to = rewrite.to
    BY <1>6 DEF RewordOne, RInv, RewriteType
  <2>. QED
    BY <1>6, <2>1 DEF RewordOne, RInv, WordsOK
<1>7. CASE Reworded
  <2>1. rewrite \in RewriteType
    BY DEF RInv
  <2>2. rewrite.done \in Nat
    BY <2>1 DEF RewriteType
  <2>. DEFINE more == rewrite.done + 1
  <2>3. more \in Nat
    BY <2>2
  <2>4. rewrite' = [rewrite EXCEPT !.at = "no", !.done = more]
    BY <1>7 DEF Reworded
  <2>. HIDE DEF more
  <2>5. rewrite' \in RewriteType /\ rewrite'.to = rewrite.to
    BY <2>1, <2>3, <2>4 DEF RewriteType
  <2>. QED
    BY <1>7, <2>5 DEF Reworded, RInv, WordsOK
<1>8. CASE UNCHANGED requests
  BY <1>8 DEF requests, RInv, WordsOK
<1>. QED
  BY <1>1, <1>2, <1>3, <1>4, <1>5, <1>6, <1>7, <1>8
  DEF RequestsNext, Kernel, Client, Ask, LeaveBe, Consult, ApplyPlan, NoPlan, BuildAgain, AsBefore,
      Look, Weigh, Place, Retire, Refuse, Send, GiveUp, Conclude, Further, Record, ClientPush,
      ClientMoves, requests, rest

\* Every step of a request, and of the context under it.
LEMMA RequestsKeep == RInv /\ [RequestsNext]_<<vars, requests>> => RInv'
  BY RequestsKeepContext, RequestsKeepWords DEF RInv

\* The invariant of the context holds through every request: undo takes batches whole, the
\* events tell the items, and the answer stays listed, with the notice coming and going.
THEOREM RequestsKeepTheInvariant == RequestsSpec => []IInv
<1>1. RInv => IInv
  BY DEF RInv
<1>. QED
  BY <1>1, RequestsInitHolds, RequestsKeep, PTL DEF RequestsSpec

\* An undo between a request and the next takes a batch whole, whatever the kernel put in or
\* took out for the request.
THEOREM GroupsStayWholeInRequests == RequestsSpec => []GroupsWhole
<1>1. IInv => GroupsWhole
  BY DEF IInv
<1>. QED
  BY <1>1, RequestsKeepTheInvariant, PTL

---------------------------------------------------------------------------
(* What an undo shows.                                                     *)

\* Items but for what nobody is shown: their metadata and their figures.
Seen(items) == [k \in DOMAIN items |-> [items[k] EXCEPT !.meta = {}, !.priced = {}]]

\* One version after the other, the last of a stack before what is on top of it,
\* is seen to be another.
Distinct(stack, top) ==
  \A k \in DOMAIN stack : Seen(stack[k]) # Seen(IF k = Len(stack) THEN top ELSE stack[k + 1])

Telling(c) == Distinct(c.undo, c.items) /\ Distinct(c.redo, c.items)

\* What is seen of a list of items tells how many there are, which they are and
\* in which state, with which note and which words.
LEMMA SeenTells ==
  ASSUME NEW v \in Seq(Item), NEW w \in Seq(Item), Seen(v) = Seen(w)
  PROVE  /\ DOMAIN v = DOMAIN w /\ Ids(v) = Ids(w)
         /\ \A k \in DOMAIN v : /\ v[k].id = w[k].id /\ v[k].state = w[k].state
                                /\ v[k].note = w[k].note /\ v[k].text = w[k].text
<1>1. DOMAIN v = DOMAIN w
  <2>1. DOMAIN Seen(v) = DOMAIN v /\ DOMAIN Seen(w) = DOMAIN w
    BY DEF Seen
  <2>. QED
    BY <2>1
<1>2. ASSUME NEW k \in DOMAIN v
      PROVE  /\ v[k].id = w[k].id /\ v[k].state = w[k].state
             /\ v[k].note = w[k].note /\ v[k].text = w[k].text
  <2>. DEFINE x == v[k]
              y == w[k]
  <2>1. x \in Item /\ y \in Item
    BY <1>1
  <2>2. Seen(v)[k] = [x EXCEPT !.meta = {}, !.priced = {}]
          /\ Seen(w)[k] = [y EXCEPT !.meta = {}, !.priced = {}]
    BY <1>1 DEF Seen
  <2>3. [x EXCEPT !.meta = {}, !.priced = {}] = [y EXCEPT !.meta = {}, !.priced = {}]
    BY <2>2
  <2>. HIDE DEF x, y
  <2>4. ASSUME NEW z \in Item
        PROVE  LET s == [z EXCEPT !.meta = {}, !.priced = {}]
               IN  s.id = z.id /\ s.state = z.state /\ s.note = z.note /\ s.text = z.text
    BY DEF Item
  <2>5. x.id = y.id /\ x.state = y.state /\ x.note = y.note /\ x.text = y.text
    BY <2>1, <2>3, <2>4
  <2>. QED
    BY <2>5 DEF x, y
<1>. QED
  BY <1>1, <1>2 DEF Ids

\* What is seen does not depend on the counter.
LEMMA RecountedSeen ==
  ASSUME NEW c \in ContextType, NEW by
  PROVE  /\ Seen(Recounted(c, by).items) = Seen(c.items)
         /\ Recounted(c, by).undo = c.undo /\ Recounted(c, by).redo = c.redo
<1>. DEFINE items == Recounted(c, by).items
<1>1. /\ items = [k \in DOMAIN c.items |-> [c.items[k] EXCEPT !.priced = by]]
      /\ Recounted(c, by).undo = c.undo /\ Recounted(c, by).redo = c.redo
  BY DEF Recounted, ContextType
<1>2. ASSUME NEW k \in DOMAIN c.items
      PROVE  [[c.items[k] EXCEPT !.priced = by] EXCEPT !.meta = {}, !.priced = {}]
               = [c.items[k] EXCEPT !.meta = {}, !.priced = {}]
  <2>1. c.items[k] \in Item
    BY DEF ContextType
  <2>. DEFINE x == c.items[k]
  <2>. HIDE DEF x
  <2>2. x \in Item
    BY <2>1 DEF x
  <2>3. [[x EXCEPT !.priced = by] EXCEPT !.meta = {}, !.priced = {}]
          = [x EXCEPT !.meta = {}, !.priced = {}]
    BY <2>2 DEF Item
  <2>. QED
    BY <2>3 DEF x
<1>. HIDE DEF items
<1>3. DOMAIN items = DOMAIN c.items
        /\ \A k \in DOMAIN c.items : items[k] = [c.items[k] EXCEPT !.priced = by]
  BY <1>1
<1>4. Seen(items) = Seen(c.items)
  BY <1>2, <1>3 DEF Seen
<1>. QED
  BY <1>1, <1>4 DEF items

\* What is on top may be another list that is seen to be the same.
LEMMA SameTop ==
  ASSUME NEW stack, NEW top, NEW other, Seen(top) = Seen(other), Distinct(stack, top)
  PROVE  Distinct(stack, other)
<1>. SUFFICES ASSUME NEW k \in DOMAIN stack
              PROVE  Seen(stack[k]) # Seen(IF k = Len(stack) THEN other ELSE stack[k + 1])
  BY DEF Distinct
<1>1. Seen(stack[k]) # Seen(IF k = Len(stack) THEN top ELSE stack[k + 1])
  BY DEF Distinct
<1>2. CASE k = Len(stack)
  BY <1>1, <1>2
<1>3. CASE k # Len(stack)
  BY <1>1, <1>3
<1>. QED
  BY <1>2, <1>3

\* A checkpoint puts the items down: what comes after is to differ from them.
LEMMA DistinctPutDown ==
  ASSUME NEW u \in Seq(Seq(Item)), NEW v, NEW w \in Seq(Seq(Item)), OnTop(u, v, w),
         Distinct(u, v), NEW top, Seen(v) # Seen(top)
  PROVE  Distinct(w, top)
<1>. DEFINE n == Len(u)
            m == Len(w)
            shift == n + 1 - m
<1>1. n \in Nat /\ m \in Nat /\ DOMAIN u = 1..n /\ DOMAIN w = 1..m
  OBVIOUS
<1>2. /\ shift \in {0, 1}
      /\ \A k \in DOMAIN w : IF k = m THEN w[k] = v
                             ELSE k + shift \in DOMAIN u /\ w[k] = u[k + shift]
  BY DEF OnTop
<1>. SUFFICES ASSUME NEW k \in DOMAIN w
              PROVE  Seen(w[k]) # Seen(IF k = m THEN top ELSE w[k + 1])
  BY DEF Distinct
<1>3. CASE k = m
  BY <1>2, <1>3
<1>4. CASE k # m
  <2>. HIDE DEF n, m, shift
  <2>1. k \in 1..m /\ k # m
    BY <1>1, <1>4
  <2>2. k + 1 \in 1..m /\ (k + 1 = m <=> k + shift = n)
          /\ (k + 1) + shift = (k + shift) + 1
    BY <1>1, <2>1 DEF shift
  <2>3. k + shift \in 1..n /\ w[k] = u[k + shift]
    BY <1>1, <1>2, <2>1
  <2>4. k + 1 \in DOMAIN w
    BY <1>1, <2>2
  <2>5. IF k + 1 = m THEN w[k + 1] = v
        ELSE w[k + 1] = u[(k + 1) + shift]
    BY <1>2, <2>4
  <2>6. w[k + 1] = IF k + shift = n THEN v ELSE u[(k + shift) + 1]
    BY <2>2, <2>5
  <2>7. Seen(u[k + shift]) # Seen(IF k + shift = n THEN v ELSE u[(k + shift) + 1])
    BY <1>1, <2>3 DEF Distinct, n
  <2>. QED
    BY <1>4, <2>3, <2>6, <2>7
<1>. QED
  BY <1>3, <1>4

\* One version moves from one stack to the other.
LEMMA DistinctMoved ==
  ASSUME NEW u \in Seq(Seq(Item)), NEW v \in Seq(Item), NEW r \in Seq(Seq(Item)),
         u # <<>>, Distinct(u, v), Distinct(r, v)
  PROVE  Distinct(Front(u), Last(u)) /\ Distinct(Append(r, v), Last(u))
<1>. DEFINE n == Len(u)
            m == Len(r)
            f == Front(u)
            l == Last(u)
            a == Append(r, v)
<1>1. n \in Nat \ {0} /\ m \in Nat /\ DOMAIN u = 1..n /\ DOMAIN r = 1..m
  OBVIOUS
<1>2. Len(f) = n - 1 /\ DOMAIN f = 1..(n - 1) /\ (\A k \in 1..(n - 1) : f[k] = u[k]) /\ l = u[n]
  BY FrontAndLast
<1>3. Len(a) = m + 1 /\ DOMAIN a = 1..(m + 1) /\ (\A k \in 1..m : a[k] = r[k]) /\ a[m + 1] = v
  BY OneMore
<1>4. \A k \in 1..n : Seen(u[k]) # Seen(IF k = n THEN v ELSE u[k + 1])
  BY <1>1 DEF Distinct
<1>5. \A k \in 1..m : Seen(r[k]) # Seen(IF k = m THEN v ELSE r[k + 1])
  BY <1>1 DEF Distinct
<1>. HIDE DEF n, m, f, l, a
<1>6. ASSUME NEW k \in DOMAIN f
      PROVE  Seen(f[k]) # Seen(IF k = Len(f) THEN l ELSE f[k + 1])
  <2>1. k \in 1..(n - 1) /\ k \in 1..n /\ k # n
    BY <1>1, <1>2
  <2>2. Seen(u[k]) # Seen(u[k + 1]) /\ f[k] = u[k]
    BY <1>2, <1>4, <2>1
  <2>3. CASE k = n - 1
    <3>1. k + 1 = n
      BY <1>1, <2>3
    <3>. QED
      BY <1>2, <2>2, <2>3, <3>1
  <2>4. CASE k # n - 1
    <3>1. n \in Nat /\ k \in Int /\ 1 <= k /\ k <= n - 1
      BY <1>1, <2>1
    <3>2. k + 1 \in 1..(n - 1)
      BY <2>4, <3>1
    <3>. QED
      BY <1>2, <2>2, <2>4, <3>2
  <2>. QED
    BY <2>3, <2>4
<1>7. ASSUME NEW k \in DOMAIN a
      PROVE  Seen(a[k]) # Seen(IF k = Len(a) THEN l ELSE a[k + 1])
  <2>1. CASE k = m + 1
    <3>1. n \in 1..n
      BY <1>1
    <3>2. Seen(u[n]) # Seen(v)
      BY <1>4, <3>1
    <3>. QED
      BY <1>2, <1>3, <2>1, <3>2
  <2>2. CASE k # m + 1
    <3>1. k \in 1..m
      BY <1>1, <1>3, <2>2
    <3>2. Seen(r[k]) # Seen(IF k = m THEN v ELSE r[k + 1]) /\ a[k] = r[k]
      BY <1>3, <1>5, <3>1
    <3>3. a[k + 1] = IF k = m THEN v ELSE r[k + 1]
      <4>1. CASE k = m
        BY <1>3, <4>1
      <4>2. CASE k # m
        <5>1. k + 1 \in 1..m
          BY <1>1, <3>1, <4>2
        <5>. QED
          BY <1>3, <4>2, <5>1
      <4>. QED
        BY <4>1, <4>2
    <3>. QED
      BY <1>3, <2>2, <3>2, <3>3
  <2>. QED
    BY <2>1, <2>2
<1>8. Distinct(f, l)
  BY <1>6 DEF Distinct
<1>9. Distinct(a, l)
  BY <1>7 DEF Distinct
<1>. QED
  BY <1>8, <1>9 DEF f, l, a


\* An edit that is seen to change the items is one an undo is seen to take back.
LEMMA EditTells ==
  ASSUME IInv, Telling(ctx), Edited(ctx, ctx'), Seen(ctx.items) # Seen(ctx'.items)
  PROVE  Telling(ctx')
<1>1. ctx.undo \in Seq(Seq(Item)) /\ ctx'.undo \in Seq(Seq(Item)) /\ ctx'.redo = <<>>
  <2>1. WellFormed(ctx) /\ WellFormed(ctx') /\ ctx'.redo = <<>>
    BY Basics DEF Edited
  <2>. QED
    BY <2>1, Parts
<1>2. OnTop(ctx.undo, ctx.items, ctx'.undo)
  BY DEF Edited
<1>3. Distinct(ctx'.undo, ctx'.items)
  BY <1>1, <1>2, DistinctPutDown DEF Telling
<1>4. Distinct(ctx'.redo, ctx'.items)
  BY <1>1 DEF Distinct
<1>. QED
  BY <1>3, <1>4 DEF Telling

\* One that adds an item is, whatever else it does.
LEMMA AddingTells ==
  ASSUME IInv, Telling(ctx), Edited(ctx, ctx'), ctx.next \in ctx.next .. (ctx'.next - 1)
  PROVE  Telling(ctx')
<1>1. WellFormed(ctx) /\ WellFormed(ctx') /\ ctx.next \in Ids(ctx'.items)
  BY Basics DEF Edited
<1>2. ctx.next \notin Ids(ctx.items)
  <2>1. Ids(ctx.items) \subseteq 1..(ctx.next - 1) /\ ctx.next \in Nat
    BY <1>1, Parts, VersionsKnown DEF VersionsOf
  <2>. DEFINE first == ctx.next
  <2>. HIDE DEF first
  <2>2. first \in Nat => first \notin 1..(first - 1)
    OBVIOUS
  <2>. QED
    BY <2>1, <2>2 DEF first
<1>3. ctx.items \in Seq(Item) /\ ctx'.items \in Seq(Item)
  BY <1>1, Parts
<1>4. Seen(ctx.items) # Seen(ctx'.items)
  BY <1>1, <1>2, <1>3, SeenTells
<1>. QED
  BY <1>4, EditTells

\* The first number to be handed out is new.
LEMMA NewIdsBegin ==
  ASSUME IInv, NEW n \in Nat, n # 0
  PROVE  ctx.next \in NewIds(n)
<1>. DEFINE first == ctx.next
<1>1. first \in Nat
  BY Basics, Parts
<1>. HIDE DEF first
<1>2. first \in first .. (first + n - 1)
  BY <1>1
<1>. QED
  BY <1>2 DEF NewIds, first

\* The actions that add items.
LEMMA AddingActionsTell ==
  ASSUME IInv, Telling(ctx),
         \/ \E item \in Pushable : Push(item)
         \/ \E n \in 1..Together : \E items \in [1..n -> Pushable] : PushAll(items)
         \/ \E old \in Listed, item \in Pushable : Supersede(old, item)
         \/ \E item \in Recordable : RecordFirst(item)
  PROVE  Telling(ctx')
<1>0. ctx.next \in NewIds(1)
  BY NewIdsBegin, 1 \in Nat, 1 # 0
<1>1. ASSUME NEW item \in Item, Room(1), ctx' = Add(Checkpoint(ctx), item, counter)
      PROVE  Telling(ctx')
  <2>1. Edited(ctx, ctx') /\ ctx.next .. (ctx'.next - 1) = NewIds(1)
    BY <1>1, Basics, AddedItem
  <2>2. ctx.next \in ctx.next .. (ctx'.next - 1)
    BY <1>0, <2>1
  <2>. QED
    BY <2>1, <2>2, AddingTells
<1>2. ASSUME NEW item \in Pushable, Push(item)
      PROVE  Telling(ctx')
  BY <1>1, <1>2, KernelContextAssumption DEF Push
<1>3. ASSUME NEW item \in Recordable, RecordFirst(item)
      PROVE  Telling(ctx')
  BY <1>1, <1>3, KernelContextAssumption DEF RecordFirst
<1>4. ASSUME NEW n \in 1..Together, NEW items \in [1..n -> Pushable], PushAll(items)
      PROVE  Telling(ctx')
  <2>1. items \in Seq(Item) /\ Len(items) \in Nat /\ Len(items) # 0
    BY <1>4, KernelContextAssumption DEF PushAll
  <2>2. ctx' = AddAll(Checkpoint(ctx), items, counter)
    BY <1>4 DEF PushAll
  <2>3. Edited(ctx, ctx') /\ ctx.next .. (ctx'.next - 1) = NewIds(Len(items))
    BY <2>1, <2>2, Basics, AddedItems
  <2>4. ctx.next \in ctx.next .. (ctx'.next - 1)
    BY <2>1, <2>3, NewIdsBegin
  <2>. QED
    BY <2>3, <2>4, AddingTells
<1>5. ASSUME NEW old \in Listed, NEW item \in Pushable, Supersede(old, item)
      PROVE  Telling(ctx')
  <2>. DEFINE d == Add(Checkpoint(ctx), item, counter)
              note == ctx.next
              state == "Excluded"
  <2>1. item \in Item /\ Room(1) /\ ctx' = SetState(d, old, state, note)
    BY <1>5, KernelContextAssumption DEF Supersede
  <2>2. Edited(ctx, d) /\ ctx.next .. (d.next - 1) = NewIds(1)
    BY <2>1, Basics, AddedItem
  <2>3. note \in Notes \cup Nat \cup {NoNote} /\ state \in States
    BY Basics DEF ContextType, States
  <2>. HIDE DEF d, note, state
  <2>4. d \in ContextType
    BY <2>2 DEF Edited, WellFormed
  <2>5. PICK items \in Seq(Item) : SameIds(items, d.items) /\ ctx' = [d EXCEPT !.items = items]
    BY <2>1, <2>3, <2>4, SetStateInPlace
  <2>6. Edited(ctx, ctx') /\ ctx'.next = d.next
    BY <2>2, <2>5, EditedInPlace
  <2>7. ctx.next \in ctx.next .. (ctx'.next - 1)
    BY <1>0, <2>2, <2>6
  <2>. QED
    BY <2>6, <2>7, AddingTells
<1>. QED
  BY <1>2, <1>3, <1>4, <1>5

\* A change in place is seen where one item has another state, note or text.
LEMMA InPlaceTells ==
  ASSUME IInv, Telling(ctx), NEW items \in Seq(Item), SameIds(items, ctx.items),
         ctx' = [Checkpoint(ctx) EXCEPT !.items = items],
         NEW k \in DOMAIN ctx.items,
         \/ items[k].state # ctx.items[k].state
         \/ items[k].note # ctx.items[k].note
         \/ items[k].text # ctx.items[k].text
  PROVE  Telling(ctx')
<1>1. Edited(ctx, ctx') /\ ctx'.items = items
  BY Basics, EditedInPlace
<1>2. Seen(ctx.items) # Seen(items)
  BY Basics, SeenTells
<1>. QED
  BY <1>1, <1>2, EditTells

\* A run of changes that would change something: the last of those that name an
\* item would change it.
LEMMA SetStatesTell ==
  ASSUME IInv, Telling(ctx), NEW changes, SetStates(changes),
         NEW n \in Nat, DOMAIN changes = 1..n,
         \A i \in Targets(changes) : changes[i].state \in States
                                      /\ changes[i].note \in Notes \cup Nat \cup {NoNote}
  PROVE  Telling(ctx')
<1>. DEFINE d == Checkpoint(ctx)
            targets == Targets(changes)
            last(id) == {i \in targets : /\ changes[i].id = id
                                         /\ \A j \in targets : changes[j].id = id => j <= i}
            moved(item) == LET i == CHOOSE i \in last(item.id) : TRUE
                           IN  [item EXCEPT !.state = changes[i].state, !.note = changes[i].note]
<1>1. ctx' = SetAll(d, changes, targets) /\ targets # {}
  BY DEF SetStates
<1>2. d \in ContextType /\ d.items = ctx.items /\ ctx.items \in Seq(Item)
  BY Basics
<1>3. /\ targets \subseteq 1..n
      /\ \A i \in targets : WouldChange(ctx, changes[i].id, changes[i].state, changes[i].note)
  BY DEF Targets
<1>3a. \A i \in targets : changes[i].state \in States
                            /\ changes[i].note \in Notes \cup Nat \cup {NoNote}
  OBVIOUS
<1>. HIDE DEF d, targets
<1>4. PICK items \in Seq(Item) : SameIds(items, d.items) /\ ctx' = [d EXCEPT !.items = items]
  BY <1>1, <1>2, <1>3a, SetAllInPlace
<1>5. items = [k \in DOMAIN ctx.items |->
                 IF last(ctx.items[k].id) = {} THEN ctx.items[k] ELSE moved(ctx.items[k])]
  <2>1. ctx' = [d EXCEPT !.items = [k \in DOMAIN d.items |->
                  IF last(d.items[k].id) = {} THEN d.items[k] ELSE moved(d.items[k])]]
    BY <1>1 DEF SetAll
  <2>. HIDE DEF last, moved
  <2>2. ctx'.items = [k \in DOMAIN d.items |->
                  IF last(d.items[k].id) = {} THEN d.items[k] ELSE moved(d.items[k])]
    BY <1>2, <2>1 DEF ContextType
  <2>3. ctx'.items = items
    BY <1>2, <1>4 DEF ContextType
  <2>. QED
    BY <1>2, <2>2, <2>3
<1>6. PICK i \in targets : TRUE
  BY <1>1
<1>. DEFINE id == changes[i].id
            k == IndexOf(ctx.items, id)
<1>7. id \in Ids(ctx.items) /\ k \in DOMAIN ctx.items /\ ctx.items[k].id = id
  BY <1>3, <1>6, IndexFinds DEF WouldChange
<1>8. last(id) # {}
  <2>. DEFINE S == {j \in targets : changes[j].id = id}
              top == Max(S)
  <2>1. S \in SUBSET Nat /\ S # {} /\ \A j \in S : j <= n
    BY <1>3, <1>6
  <2>2. top \in S /\ \A j \in S : j <= top
    BY <2>1, MaxOfBounded
  <2>. HIDE DEF top, id
  <2>3. top \in last(id)
    BY <2>2
  <2>. QED
    BY <2>3
<1>9. PICK j \in last(id) : j = CHOOSE x \in last(id) : TRUE
  <2>. HIDE DEF last, id
  <2>. QED
    BY <1>8
<1>10. items[k] = [ctx.items[k] EXCEPT !.state = changes[j].state, !.note = changes[j].note]
  <2>. HIDE DEF last, k, id
  <2>1. items[k] = moved(ctx.items[k])
    BY <1>5, <1>7, <1>8
  <2>. QED
    BY <1>7, <1>9, <2>1, SMTT(30)
<1>11. j \in targets /\ changes[j].id = id
  BY <1>9
<1>12. ctx.items[k].state # changes[j].state \/ ctx.items[k].note # changes[j].note
  BY <1>3, <1>11 DEF WouldChange, ItemOf
<1>. HIDE DEF last, moved, k, id
<1>13. ctx.items[k] \in Item
  BY <1>2, <1>7
<1>14. items[k].state = changes[j].state /\ items[k].note = changes[j].note
  BY <1>10, <1>13 DEF Item
<1>15. items[k].state # ctx.items[k].state \/ items[k].note # ctx.items[k].note
  BY <1>12, <1>14
<1>. QED
  BY <1>2, <1>4, <1>7, <1>15, InPlaceTells DEF d

\* A replaced text is a change the history tells.
LEMMA ReplaceTells ==
  ASSUME IInv, Telling(ctx), NEW id \in Listed, NEW text \in Texts, ReplaceItem(id, text)
  PROVE  Telling(ctx')
<1>. DEFINE d == Checkpoint(ctx)
            k == IndexOf(ctx.items, id)
            x == [ctx.items[k] EXCEPT !.text = text, !.priced = counter]
            items == [ctx.items EXCEPT ![k] = x]
<1>1. /\ ctx' = Replace(d, id, text, counter) /\ id \in Ids(ctx.items)
      /\ ctx.items[k].text # text /\ text \in Texts
  BY DEF ReplaceItem, Listed, ItemOf
<1>2. d \in ContextType /\ d.items = ctx.items /\ ctx.items \in Seq(Item) /\ counter \in Counters
  BY Basics
<1>3. k \in DOMAIN ctx.items /\ ctx.items[k] \in Item
  BY <1>1, <1>2, IndexFinds
<1>4. x \in Item /\ x.id = ctx.items[k].id /\ x.text = text
  <2>. DEFINE y == ctx.items[k]
  <2>. HIDE DEF y
  <2>1. y \in Item => LET z == [y EXCEPT !.text = text, !.priced = counter]
                      IN  z \in Item /\ z.id = y.id /\ z.text = text
    BY <1>2 DEF Item
  <2>. QED
    BY <1>3, <2>1 DEF y
<1>5. ctx' = [d EXCEPT !.items[k] = x]
  BY <1>1, <1>2, <1>3 DEF Replace, ContextType
<1>. HIDE DEF d, k, x
<1>6. [d EXCEPT !.items[k] = x] = [d EXCEPT !.items = items]
        /\ items \in Seq(Item) /\ SameIds(items, ctx.items)
  BY <1>2, <1>3, <1>4, OneChanged
<1>7. items[k].text # ctx.items[k].text
  BY <1>1, <1>2, <1>3, <1>4
<1>. HIDE DEF items
<1>. QED
  BY <1>3, <1>5, <1>6, <1>7, InPlaceTells DEF d


\* In a list in the order of its identifiers each stands once.
LEMMA ListedOnce ==
  ASSUME NEW items \in Seq(Item), Sorted(items),
         NEW j \in DOMAIN items, NEW k \in DOMAIN items, items[j].id = items[k].id
  PROVE  j = k
<1>. DEFINE n == Len(items)
<1>1. n \in Nat /\ DOMAIN items = 1..n
  OBVIOUS
<1>2. \A x, y \in DOMAIN items : x < y => items[x].id < items[y].id
  BY DEF Sorted
<1>3. items[j].id \in Nat /\ items[k].id \in Nat
  BY DEF Item
<1>4. CASE j < k
  BY <1>2, <1>3, <1>4
<1>5. CASE k < j
  BY <1>2, <1>3, <1>5
<1>. HIDE DEF n
<1>6. j \in 1..n /\ k \in 1..n
  BY <1>1
<1>. QED
  BY <1>1, <1>4, <1>5, <1>6

\* What a pass moves is projected, so that leaving it out is seen, and is not a
\* marker yet, so that making it one is.
LEMMA MovesTell ==
  ASSUME NEW items \in Seq(Item), Sorted(items), NEW plan, Moves(items, plan)
  PROVE  \E k \in DOMAIN items : Compacted(items, plan)[k].state # items[k].state
<1>. DEFINE carrying == Carrying(items)
            removing == Removing(items, plan, carrying)
            eliding == Eliding(items, plan, carrying)
            out == Compacted(items, plan)
<1>1. PICK id \in removing \cup eliding : TRUE
  BY DEF Moves
<1>2. id \in Ids(items) /\ id \in Carrying(items)
  BY DEF Removing, Eliding
<1>. DEFINE k == IndexOf(items, id)
<1>3. k \in DOMAIN items /\ items[k].id = id
  BY <1>2, IndexFinds
<1>4. IsProjected(items[k].state)
  <2>1. PICK j \in DOMAIN items : items[j].id = id /\ IsProjected(items[j].state)
    BY <1>2, CarriedProjected
  <2>2. j = k
    BY <1>3, <2>1, ListedOnce
  <2>. QED
    BY <2>1, <2>2
<1>5. out[k] = IF id \in removing
               THEN [items[k] EXCEPT !.state = "Excluded", !.note = Reason]
               ELSE IF id \in eliding
               THEN [items[k] EXCEPT !.state = "Elided", !.note = Reason]
               ELSE items[k]
  BY <1>3 DEF Compacted
<1>6. id \in eliding => items[k].state # "Elided"
  BY DEF Eliding, ItemOf
<1>7. items[k] \in Item
  BY <1>3
<1>. DEFINE x == items[k]
<1>. HIDE DEF k, removing, eliding, out
<1>8. CASE id \in removing
  <2>1. out[k].state = "Excluded"
    BY <1>5, <1>7, <1>8 DEF Item
  <2>. QED
    BY <1>3, <1>4, <2>1 DEF IsProjected, out
<1>9. CASE id \notin removing /\ id \in eliding
  <2>1. out[k].state = "Elided"
    BY <1>5, <1>7, <1>9 DEF Item
  <2>. QED
    BY <1>3, <1>6, <1>9, <2>1 DEF out
<1>. QED
  BY <1>1, <1>8, <1>9

\* What a compactor brings is a list of items.
LEMMA PlanBrings ==
  ASSUME NEW plan \in Plans
  PROVE  plan.summary \in Seq(Item) /\ Len(plan.summary) \in Nat
<1>. DEFINE new == plan.summary
<1>1. new = <<>> \/ \E item \in Pushable : new = <<item>>
  BY DEF Plans
<1>2. \A item \in Item : <<item>> \in Seq(Item)
  OBVIOUS
<1>3. <<>> \in Seq(Item)
  OBVIOUS
<1>. HIDE DEF new
<1>4. new \in Seq(Item)
  BY <1>1, <1>2, <1>3, KernelContextAssumption
<1>. QED
  BY <1>4 DEF new

\* A pass changes items where they stand.
LEMMA CompactedTyped ==
  ASSUME NEW was \in Seq(Item), NEW plan
  PROVE  Compacted(was, plan) \in Seq(Item) /\ SameIds(Compacted(was, plan), was)
<1>. DEFINE items == Compacted(was, plan)
<1>1. items = [k \in DOMAIN was |-> items[k]]
  BY DEF Compacted
<1>2. ASSUME NEW k \in DOMAIN was
      PROVE  \/ items[k] = [was[k] EXCEPT !.state = "Excluded", !.note = Reason]
             \/ items[k] = [was[k] EXCEPT !.state = "Elided", !.note = Reason]
             \/ items[k] = was[k]
  BY DEF Compacted
<1>. HIDE DEF items
<1>3. ASSUME NEW k \in DOMAIN was
      PROVE  items[k] \in Item /\ items[k].id = was[k].id
  <2>1. was[k] \in Item /\ Reason \in Notes
    BY KernelContextAssumption
  <2>2. CASE items[k] = [was[k] EXCEPT !.state = "Excluded", !.note = Reason]
    BY <2>1, <2>2 DEF Item, States
  <2>3. CASE items[k] = [was[k] EXCEPT !.state = "Elided", !.note = Reason]
    BY <2>1, <2>3 DEF Item, States
  <2>4. CASE items[k] = was[k]
    BY <2>1, <2>4
  <2>. QED
    BY <1>2, <2>2, <2>3, <2>4
<1>4. items \in Seq(Item) /\ SameIds(items, was)
  BY <1>1, <1>3, MadeFrom DEF SameIds
<1>. QED
  BY <1>4 DEF items

\* An applied plan puts down one checkpoint, and only when it brings a change.
LEMMA CompactionTells ==
  ASSUME IInv, Telling(ctx), NEW plan \in Plans, ApplyCompaction(plan)
  PROVE  Telling(ctx')
<1>. DEFINE items == Compacted(ctx.items, plan)
            d == [Checkpoint(ctx) EXCEPT !.items = items]
            new == plan.summary
<1>1. new \in Seq(Item) /\ Len(new) \in Nat
  BY PlanBrings
<1>2. /\ ctx' = AddAll(d, new, counter) /\ Moves(ctx.items, plan)
      /\ ctx.items \in Seq(Item)
  BY Basics DEF ApplyCompaction
<1>3. items \in Seq(Item) /\ SameIds(items, ctx.items)
  BY <1>2, CompactedTyped
<1>4. PICK k \in DOMAIN ctx.items : items[k].state # ctx.items[k].state
  <2>1. Sorted(ctx.items)
    BY Basics, Parts DEF VersionsOf, VersionOK
  <2>. QED
    BY <1>2, <2>1, MovesTell
<1>. HIDE DEF items
<1>5. Edited(ctx, d) /\ d.next = ctx.next /\ d.items = items
  BY <1>3, Basics, EditedInPlace
<1>. HIDE DEF d, new
<1>6. Edited(ctx, ctx') /\ ctx.next .. (ctx'.next - 1) = NewIds(Len(new))
  BY <1>1, <1>2, <1>5, AddedItems
<1>7. CASE Len(new) # 0
  <2>1. ctx.next \in ctx.next .. (ctx'.next - 1)
    BY <1>1, <1>6, <1>7, NewIdsBegin
  <2>. QED
    BY <1>6, <2>1, AddingTells
<1>8. CASE Len(new) = 0
  <2>1. new = <<>>
    BY <1>1, <1>8
  <2>2. d \in ContextType
    BY <1>5 DEF Edited, WellFormed
  <2>3. ctx'.items = d.items \o [j \in DOMAIN new |->
                                   [new[j] EXCEPT !.id = d.next + j - 1, !.priced = counter]]
    BY <1>2, <2>2 DEF AddAll, ContextType
  <2>4. ctx'.items = items
    <3>. DEFINE more == [j \in DOMAIN new |->
                           [new[j] EXCEPT !.id = d.next + j - 1, !.priced = counter]]
    <3>1. more = <<>>
      BY <2>1
    <3>. HIDE DEF more
    <3>2. items \o <<>> = items
      BY <1>3
    <3>. QED
      BY <1>5, <2>3, <3>1, <3>2 DEF more
  <2>5. Seen(ctx.items) # Seen(ctx'.items)
    BY <1>2, <1>3, <1>4, <2>4, SeenTells
  <2>. QED
    BY <1>6, <2>5, EditTells
<1>. QED
  BY <1>7, <1>8

\* Undo and redo move one version from one stack to the other, and count it.
LEMMA WalkTells ==
  ASSUME IInv, Telling(ctx), Undo \/ Redo
  PROVE  Telling(ctx')
<1>1. /\ WellFormed(ctx) /\ UndoDepth \in Nat
      /\ ctx.undo \in Seq(Seq(Item)) /\ ctx.redo \in Seq(Seq(Item)) /\ ctx.items \in Seq(Item)
      /\ Len(ctx.undo) + Len(ctx.redo) <= UndoDepth
  BY Basics, Parts
<1>2. ASSUME NEW d \in ContextType, ctx' = Recounted(d, counter), Telling(d)
      PROVE  Telling(ctx')
  <2>1. Seen(ctx'.items) = Seen(d.items) /\ ctx'.undo = d.undo /\ ctx'.redo = d.redo
    BY <1>2, RecountedSeen
  <2>. QED
    BY <1>2, <2>1, SameTop DEF Telling
<1>3. CASE Undo
  <2>. DEFINE longer == Append(ctx.redo, ctx.items)
  <2>1. ctx.undo # <<>> /\ ctx' = Recounted(Undone(ctx), counter)
    BY <1>3 DEF Undo
  <2>2. (IF Len(longer) > UndoDepth THEN Tail(longer) ELSE longer) = longer
    BY <1>1, <2>1, OneBack
  <2>3. Distinct(Front(ctx.undo), Last(ctx.undo)) /\ Distinct(longer, Last(ctx.undo))
    BY <1>1, <2>1, DistinctMoved DEF Telling
  <2>4. Undone(ctx) \in ContextType
    BY <1>1, <2>1, UndoneMoves DEF WellFormed
  <2>5. Undone(ctx).items = Last(ctx.undo) /\ Undone(ctx).undo = Front(ctx.undo)
          /\ Undone(ctx).redo = longer
    <3>1. ctx \in ContextType
      BY <1>1 DEF WellFormed
    <3>. QED
      BY <2>2, <3>1 DEF Undone, ContextType
  <2>. QED
    BY <1>2, <2>1, <2>3, <2>4, <2>5 DEF Telling
<1>4. CASE Redo
  <2>. DEFINE longer == Append(ctx.undo, ctx.items)
  <2>1. ctx.redo # <<>> /\ ctx' = Recounted(Redone(ctx), counter)
    BY <1>4 DEF Redo
  <2>2. UndoDepth # 0 /\ Len(ctx.undo) # UndoDepth
    BY <1>1, <2>1, OneOn
  <2>3. Distinct(Front(ctx.redo), Last(ctx.redo)) /\ Distinct(longer, Last(ctx.redo))
    BY <1>1, <2>1, DistinctMoved DEF Telling
  <2>4. Redone(ctx) \in ContextType
    BY <1>1, <2>1, RedoneMoves DEF WellFormed
  <2>5. Redone(ctx).items = Last(ctx.redo) /\ Redone(ctx).redo = Front(ctx.redo)
          /\ Redone(ctx).undo = longer
    <3>1. ctx \in ContextType
      BY <1>1 DEF WellFormed
    <3>. QED
      BY <2>2, <3>1 DEF Redone, ContextType
  <2>. QED
    BY <1>2, <2>1, <2>3, <2>4, <2>5 DEF Telling
<1>. QED
  BY <1>3, <1>4

\* A later item of a batch: what is left of the history is what it was, and none
\* of it lists the item.
LEMMA RecordNextTells ==
  ASSUME IInv, Telling(ctx), NEW item \in Recordable, RecordNext(item)
  PROVE  Telling(ctx')
<1>. DEFINE start == batch.taken
            f == FoldSince(ctx, start)
<1>1. /\ item \in Item /\ Room(1) /\ ctx' = Add(f, item, counter) /\ batch.open
  BY KernelContextAssumption DEF RecordNext
<1>2. start \in Nat /\ ctx.taken - start >= 0 /\ ctx.redo = <<>>
  BY <1>1 DEF IInv, TurnOK, BatchSplitsHistory
<1>3. /\ WellFormed(ctx) /\ ctx.taken \in Nat /\ ctx.next \in Nat \ {0} /\ counter \in Counters
      /\ ctx.undo \in Seq(Seq(Item))
  BY Basics, Parts
<1>4. start <= ctx.taken
  <2>. DEFINE taken == ctx.taken
  <2>1. taken \in Nat /\ start \in Nat /\ taken - start >= 0
    BY <1>2, <1>3
  <2>. HIDE DEF taken, start
  <2>2. start <= taken
    BY <2>1
  <2>. QED
    BY <2>2 DEF taken
<1>5. /\ WellFormed(f) /\ f.items = ctx.items /\ f.redo = <<>> /\ f.next = ctx.next
      /\ \A k \in DOMAIN f.undo : k \in DOMAIN ctx.undo /\ f.undo[k] = ctx.undo[k]
  <2>. HIDE DEF start
  <2>. QED
    BY <1>2, <1>3, <1>4, FoldedKeepsOlder
<1>. HIDE DEF f, start
<1>6. f \in ContextType /\ f.next + 1 <= TopId
  BY <1>1, <1>5 DEF Room, WellFormed
<1>7. WellFormed(ctx') /\ ctx'.undo = f.undo /\ ctx'.redo = <<>> /\ ctx.next \in Ids(ctx'.items)
  <2>1. <<item>> \in Seq(Item) /\ Len(<<item>>) = 1 /\ ctx' = AddAll(f, <<item>>, counter)
    BY <1>1, <1>3, <1>6, AddIsAddAll
  <2>2. /\ WellFormed(ctx') /\ ctx'.undo = f.undo /\ ctx'.redo = <<>>
        /\ ctx'.next = ctx.next + 1
        /\ Ids(ctx'.items) = Ids(f.items) \cup (ctx.next .. (ctx'.next - 1))
    <3>. DEFINE new == <<item>>
                n == Len(new)
    <3>. HIDE DEF new
    <3>1. /\ WellFormed(AddAll(f, new, counter)) /\ AddAll(f, new, counter).undo = f.undo
          /\ AddAll(f, new, counter).redo = <<>>
          /\ AddAll(f, new, counter).next = f.next + Len(new)
          /\ Ids(AddAll(f, new, counter).items)
               = Ids(f.items) \cup (f.next .. (AddAll(f, new, counter).next - 1))
      BY <1>3, <1>5, <2>1, Grown DEF new
    <3>. QED
      BY <1>5, <2>1, <3>1 DEF new
  <2>. DEFINE first == ctx.next
  <2>3. first \in Nat
    BY <1>3
  <2>. HIDE DEF first
  <2>4. first \in first .. (first + 1 - 1)
    BY <2>3
  <2>. QED
    BY <2>2, <2>4 DEF first
<1>8. ctx'.items \in Seq(Item) /\ ctx'.undo \in Seq(Seq(Item))
  BY <1>7, Parts
<1>9. ASSUME NEW v \in VersionsOf(ctx), v \in Seq(Item)
      PROVE  Seen(v) # Seen(ctx'.items)
  <2>1. Ids(v) \subseteq 1..(ctx.next - 1)
    BY <1>3, VersionsKnown
  <2>. DEFINE first == ctx.next
  <2>2. first \in Nat
    BY <1>3
  <2>. HIDE DEF first
  <2>3. first \notin 1..(first - 1)
    BY <2>2
  <2>4. ctx.next \notin Ids(v)
    BY <2>1, <2>3 DEF first
  <2>. QED
    BY <1>7, <1>8, <1>9, <2>4, SeenTells
<1>10. ASSUME NEW k \in DOMAIN ctx'.undo
       PROVE  Seen(ctx'.undo[k])
                # Seen(IF k = Len(ctx'.undo) THEN ctx'.items ELSE ctx'.undo[k + 1])
  <2>1. k \in DOMAIN ctx.undo /\ ctx'.undo[k] = ctx.undo[k]
    BY <1>5, <1>7
  <2>2. CASE k = Len(ctx'.undo)
    <3>1. ctx.undo[k] \in VersionsOf(ctx) /\ ctx.undo[k] \in Seq(Item)
      BY <1>3, <2>1 DEF VersionsOf, ToSet
    <3>. QED
      BY <1>9, <2>1, <2>2, <3>1
  <2>3. CASE k # Len(ctx'.undo)
    <3>. DEFINE n == Len(ctx'.undo)
                m == Len(ctx.undo)
    <3>1. n \in Nat /\ DOMAIN ctx'.undo = 1..n /\ m \in Nat /\ DOMAIN ctx.undo = 1..m
      BY <1>3, <1>8
    <3>. HIDE DEF n, m
    <3>2. k + 1 \in DOMAIN ctx'.undo
      BY <2>3, <3>1 DEF n
    <3>3. k + 1 \in DOMAIN ctx.undo /\ ctx'.undo[k + 1] = ctx.undo[k + 1]
      BY <1>5, <1>7, <3>2
    <3>4. k \in 1..m /\ k + 1 \in 1..m
      BY <2>1, <3>1, <3>3
    <3>5. k # m
      BY <3>1, <3>4
    <3>6. Seen(ctx.undo[k]) # Seen(ctx.undo[k + 1])
      BY <2>1, <3>5 DEF Telling, Distinct, m
    <3>. QED
      BY <2>1, <2>3, <3>3, <3>6
  <2>. QED
    BY <2>2, <2>3
<1>11. Distinct(ctx'.undo, ctx'.items)
  BY <1>10 DEF Distinct
<1>12. Distinct(ctx'.redo, ctx'.items)
  BY <1>7 DEF Distinct
<1>. QED
  BY <1>11, <1>12 DEF Telling

\* Metadata and figures are nothing an undo shows.
LEMMA AnnotateTells ==
  ASSUME IInv, Telling(ctx), NEW id \in Listed, NEW meta \in Metas, AnnotateItem(id, meta)
  PROVE  Telling(ctx')
<1>. DEFINE k == IndexOf(ctx.items, id)
            x == [ctx.items[k] EXCEPT !.meta = meta]
            items == [ctx.items EXCEPT ![k] = x]
<1>1. ctx \in ContextType /\ ctx.items \in Seq(Item) /\ id \in Ids(ctx.items)
  BY Basics DEF Listed
<1>2. k \in DOMAIN ctx.items /\ ctx.items[k] \in Item
  BY <1>1, IndexFinds
<1>3. CASE ctx' = ctx
  BY <1>3
<1>4. CASE ctx' # ctx
  <2>1. ctx' = [ctx EXCEPT !.items[k] = x, !.redo = <<>>]
    BY <1>1, <1>2, <1>4 DEF AnnotateItem, Annotate, ContextType
  <2>2. ctx'.items = items /\ ctx'.undo = ctx.undo /\ ctx'.redo = <<>>
    <3>. HIDE DEF k, x
    <3>. QED
      BY <1>1, <2>1 DEF ContextType
  <2>3. [x EXCEPT !.meta = {}, !.priced = {}] = [ctx.items[k] EXCEPT !.meta = {}, !.priced = {}]
    <3>. DEFINE y == ctx.items[k]
    <3>. HIDE DEF y
    <3>1. y \in Item => [[y EXCEPT !.meta = meta] EXCEPT !.meta = {}, !.priced = {}]
                          = [y EXCEPT !.meta = {}, !.priced = {}]
      BY DEF Item
    <3>. QED
      BY <1>2, <3>1 DEF y
  <2>. HIDE DEF k, x
  <2>4. DOMAIN items = DOMAIN ctx.items
          /\ \A j \in DOMAIN ctx.items : items[j] = IF j = k THEN x ELSE ctx.items[j]
    BY <1>1
  <2>. HIDE DEF items
  <2>5. Seen(items) = Seen(ctx.items)
    BY <2>3, <2>4 DEF Seen
  <2>6. Distinct(ctx'.redo, ctx'.items)
    BY <2>2 DEF Distinct
  <2>. QED
    BY <2>2, <2>5, <2>6, SameTop DEF Telling
<1>. QED
  BY <1>3, <1>4

\* Every step of KernelContext.
LEMMA TellingNext ==
  ASSUME IInv, Telling(ctx), [Next]_vars
  PROVE  Telling(ctx')
<1>1. CASE \/ \E item \in Pushable : Push(item)
           \/ \E n \in 1..Together : \E items \in [1..n -> Pushable] : PushAll(items)
           \/ \E old \in Listed, item \in Pushable : Supersede(old, item)
           \/ \E item \in Recordable : RecordFirst(item)
  BY <1>1, AddingActionsTell
<1>2. ASSUME NEW changes \in Changes, SetStates(changes)
      PROVE  Telling(ctx')
  <2>1. PICK n \in 1..Named : changes \in [1..n -> Change]
    BY DEF Changes
  <2>2. n \in Nat /\ DOMAIN changes = 1..n
    BY <2>1, KernelContextAssumption
  <2>3. \A i \in Targets(changes) : changes[i].state \in States
                                      /\ changes[i].note \in Notes \cup Nat \cup {NoNote}
    BY ChangesTyped
  <2>. QED
    BY <1>2, <2>2, <2>3, SetStatesTell
<1>3. ASSUME NEW id \in Listed, NEW text \in Texts, ReplaceItem(id, text)
      PROVE  Telling(ctx')
  BY <1>3, ReplaceTells
<1>4. ASSUME NEW id \in Listed, NEW meta \in Metas, AnnotateItem(id, meta)
      PROVE  Telling(ctx')
  BY <1>4, AnnotateTells
<1>5. ASSUME NEW plan \in Plans, ApplyCompaction(plan)
      PROVE  Telling(ctx')
  BY <1>5, CompactionTells
<1>6. CASE Undo \/ Redo
  BY <1>6, WalkTells
<1>7. CASE Recount \/ RecountAfterSwap
  <2>1. Seen(ctx'.items) = Seen(ctx.items) /\ ctx'.undo = ctx.undo /\ ctx'.redo = ctx.redo
    BY <1>7, Basics, RecountedSeen DEF Recount, RecountAfterSwap
  <2>. QED
    BY <2>1, SameTop DEF Telling
<1>8. ASSUME NEW item \in Recordable, RecordNext(item)
      PROVE  Telling(ctx')
  BY <1>8, RecordNextTells
<1>9. CASE \/ \E to \in Counters : SwapCounter(to)
           \/ Claim \/ CloseBatch \/ Release \/ Abandon \/ UNCHANGED vars
           \/ \E answer \in batch.ids : Finish(answer)
  BY <1>9 DEF SwapCounter, Claim, CloseBatch, Release, Abandon, Finish, vars
<1>. QED
  BY <1>1, <1>2, <1>3, <1>4, <1>5, <1>6, <1>7, <1>8, <1>9 DEF Next

\* A stack with what is on top of it.
LEMMA DistinctNext ==
  ASSUME NEW stack \in Seq(Seq(Item)), NEW top \in Seq(Item), Distinct(stack, top)
  PROVE  \A k \in DOMAIN stack :
           Seen(Append(stack, top)[k]) # Seen(Append(stack, top)[k + 1])
<1>. DEFINE m == Len(stack)
            a == Append(stack, top)
<1>1. m \in Nat /\ DOMAIN stack = 1..m
  OBVIOUS
<1>2. (\A k \in 1..m : a[k] = stack[k]) /\ a[m + 1] = top
  BY OneMore
<1>. SUFFICES ASSUME NEW k \in DOMAIN stack
              PROVE  Seen(a[k]) # Seen(a[k + 1])
  OBVIOUS
<1>3. Seen(stack[k]) # Seen(IF k = m THEN top ELSE stack[k + 1])
  BY DEF Distinct
<1>. HIDE DEF a, m
<1>4. CASE k = m
  BY <1>1, <1>2, <1>3, <1>4
<1>5. CASE k # m
  <2>1. k + 1 \in 1..m
    BY <1>1, <1>5
  <2>. QED
    BY <1>1, <1>2, <1>3, <1>5, <2>1
<1>. QED
  BY <1>4, <1>5

\* Whatever was done, in whatever order and with whatever batch open (the
\* checkpoints of kernel/context.rs), an undo, and so a redo, changes what is
\* listed, or a state, a note or a text of it: none is spent on nothing.
THEOREM UndoIsSeen == Spec => []NoEmptyUndo
<1>1. Init => Telling(ctx)
  BY DEF Init, NewContext, Telling, Distinct
<1>2. IInv /\ Telling(ctx) /\ [Next]_vars => Telling(ctx)'
  BY TellingNext, SMTT(30)
<1>3. ASSUME IInv, Telling(ctx)
      PROVE  NoEmptyUndo
  <2>1. /\ ctx.undo \in Seq(Seq(Item)) /\ ctx.redo \in Seq(Seq(Item))
        /\ ctx.items \in Seq(Item)
    BY <1>3, Basics, Parts
  <2>2. /\ \A k \in DOMAIN ctx.undo : Seen(Before[k]) # Seen(Before[k + 1])
        /\ \A k \in DOMAIN ctx.redo : Seen(After[k]) # Seen(After[k + 1])
    BY <1>3, <2>1, DistinctNext DEF Telling, Before, After
  <2>. QED
    BY <2>2 DEF NoEmptyUndo, Seen
<1>. QED
  BY <1>1, <1>2, <1>3, InvariantHolds, PTL DEF Spec


---------------------------------------------------------------------------
(* Pinned items.                                                           *)

\* What a pass, and the summary it brings, leave of a pinned item that the request
\* carried is carried still: no call it names loses a place it is made at or a result.
LEMMA PassSparesPins ==
  ASSUME NEW items \in Seq(Item), Sorted(items), NEW plan, NEW new \in Seq(Item),
         Compacted(items, plan) \in Seq(Item),
         NEW k \in DOMAIN items, items[k].state = "Pinned", items[k].id \in Carrying(items)
  PROVE  items[k].id \in Carrying(Compacted(items, plan) \o new)
<1>. DEFINE carrying == Carrying(items)
            removing == Removing(items, plan, carrying)
            eliding == Eliding(items, plan, carrying)
            out == Compacted(items, plan)
            other == out \o new
<1>1. ASSUME NEW j \in DOMAIN items
      PROVE  out[j] = IF items[j].id \in removing
                      THEN [items[j] EXCEPT !.state = "Excluded", !.note = Reason]
                      ELSE IF items[j].id \in eliding
                      THEN [items[j] EXCEPT !.state = "Elided", !.note = Reason]
                      ELSE items[j]
  BY DEF Compacted
<1>2. DOMAIN out = DOMAIN items /\ Len(out) = Len(items)
  <2>1. DOMAIN out = DOMAIN items
    BY DEF Compacted
  <2>. HIDE DEF out
  <2>. QED
    BY <2>1 DEF out
<1>3. ASSUME NEW j \in DOMAIN items
      PROVE  ItemOf(items, items[j].id) = items[j]
  <2>1. items[j].id \in Ids(items)
    BY DEF Ids
  <2>2. IndexOf(items, items[j].id) \in DOMAIN items
          /\ items[IndexOf(items, items[j].id)].id = items[j].id
    BY <2>1, IndexFinds
  <2>3. IndexOf(items, items[j].id) = j
    BY <2>2, ListedOnce
  <2>. QED
    BY <2>3 DEF ItemOf
<1>4. items[k].id \notin removing /\ items[k].id \notin eliding
  BY <1>3 DEF Removing, Eliding
<1>5. ASSUME NEW j \in DOMAIN items, items[j].id \in eliding
      PROVE  IsProjected(items[j].state)
  <2>1. items[j].id \in Carrying(items)
    BY <1>5 DEF Eliding
  <2>2. PICK i \in DOMAIN items : items[i].id = items[j].id /\ IsProjected(items[i].state)
    BY <2>1, CarriedProjected
  <2>3. i = j
    BY <2>2, ListedOnce
  <2>. QED
    BY <2>2, <2>3
<1>6. ASSUME NEW j \in DOMAIN items, items[j].id \in removing
      PROVE  NamedCalls(items[j]) \cap NamedCalls(items[k]) = {}
  <2>1. NamedCalls(items[j]) \cap PinnedCalls(items, carrying) = {}
    BY <1>3, <1>6 DEF Removing
  <2>2. NamedCalls(items[k]) \subseteq PinnedCalls(items, carrying)
    BY DEF PinnedCalls
  <2>. QED
    BY <2>1, <2>2
<1>. HIDE DEF carrying, removing, eliding, out
<1>7. other \in Seq(Item) /\ Len(items) <= Len(other)
        /\ \A j \in DOMAIN items : j \in DOMAIN other /\ other[j] = out[j]
  <2>1. out \in Seq(Item)
    BY DEF out
  <2>. DEFINE n == Len(out)
              m == Len(new)
  <2>2. n \in Nat /\ m \in Nat /\ Len(other) = n + m
    BY <2>1
  <2>3. \A j \in 1..n : other[j] = out[j]
    BY <2>1
  <2>4. other \in Seq(Item) /\ DOMAIN other = 1..Len(other) /\ DOMAIN items = 1..n /\ Len(items) = n
    BY <1>2, <2>1
  <2>. HIDE DEF n, m, other
  <2>. QED
    BY <2>2, <2>3, <2>4
<1>. HIDE DEF other
<1>8. ASSUME NEW j \in DOMAIN items
      PROVE  /\ items[j].kind = other[j].kind /\ items[j].calls = other[j].calls
             /\ items[j].answers = other[j].answers
             /\ items[j].id \notin removing =>
                  (IsProjected(items[j].state) <=> IsProjected(other[j].state))
  <2>. DEFINE x == items[j]
  <2>1. x \in Item
    OBVIOUS
  <2>2. other[j] = IF x.id \in removing
                   THEN [x EXCEPT !.state = "Excluded", !.note = Reason]
                   ELSE IF x.id \in eliding
                   THEN [x EXCEPT !.state = "Elided", !.note = Reason]
                   ELSE x
    BY <1>1, <1>7
  <2>3. x.id \in eliding => IsProjected(x.state)
    BY <1>5
  <2>. HIDE DEF x
  <2>4. CASE x.id \in removing
    <3>1. other[j].kind = x.kind /\ other[j].calls = x.calls /\ other[j].answers = x.answers
      BY <2>1, <2>2, <2>4 DEF Item
    <3>. QED
      BY <2>4, <3>1 DEF x
  <2>5. CASE x.id \notin removing /\ x.id \in eliding
    <3>1. other[j].kind = x.kind /\ other[j].calls = x.calls /\ other[j].answers = x.answers
            /\ other[j].state = "Elided"
      BY <2>1, <2>2, <2>5 DEF Item
    <3>2. IsProjected(other[j].state)
      BY <3>1 DEF IsProjected
    <3>. QED
      BY <2>3, <2>5, <3>1, <3>2 DEF x
  <2>6. CASE x.id \notin removing /\ x.id \notin eliding
    BY <2>2, <2>6 DEF x
  <2>. QED
    BY <2>4, <2>5, <2>6
<1>9. ASSUME NEW c \in NamedCalls(items[k])
      PROVE  AsMany(items, other, c)
  <2>1. ASSUME NEW j \in DOMAIN items, c \in NamedCalls(items[j])
        PROVE  IsProjected(items[j].state) <=> IsProjected(other[j].state)
    <3>1. items[j].id \notin removing
      BY <1>6, <2>1
    <3>. QED
      BY <1>8, <3>1
  <2>. QED
    BY <1>7, <1>8, <2>1 DEF AsMany
<1>10. other[k] = items[k] /\ k \in DOMAIN other
  BY <1>1, <1>4, <1>7
<1>11. \A j \in DOMAIN items : items[j].id = items[k].id => j = k
  BY ListedOnce
<1>12. items[k].id \in Carrying(other)
  BY <1>7, <1>9, <1>10, <1>11, SentStays
<1>. QED
  BY <1>12 DEF other, out

\* The pinned items of the context a plan is applied to.
PinsSpared ==
  LET left == Carrying(ctx'.items)
  IN  \A k \in DOMAIN ctx.items :
        ctx.items[k].state = "Pinned" /\ ctx.items[k].id \in Carrying(ctx.items)
          => ctx.items[k].id \in left

\* What a pass leaves, and behind it the summary, under the next numbers.
LEMMA CompactionAdds ==
  ASSUME IInv, NEW plan \in Plans, ApplyCompaction(plan)
  PROVE  /\ Compacted(ctx.items, plan) \in Seq(Item)
         /\ SameIds(Compacted(ctx.items, plan), ctx.items)
         /\ ctx'.next \in Nat /\ ctx.next \in Nat \ {0} /\ ctx.next <= ctx'.next
         /\ \E more \in Seq(Item) : /\ ctx'.items = Compacted(ctx.items, plan) \o more
                                   /\ \A j \in DOMAIN more : more[j].id = ctx.next + j - 1
<1>. DEFINE items == Compacted(ctx.items, plan)
            d == [Checkpoint(ctx) EXCEPT !.items = items]
            new == plan.summary
            more == [j \in DOMAIN new |->
                       [new[j] EXCEPT !.id = d.next + j - 1, !.priced = counter]]
<1>1. new \in Seq(Item)
  BY PlanBrings
<1>2. items \in Seq(Item) /\ SameIds(items, ctx.items)
  BY CompactedTyped, Basics
<1>3. ctx' = AddAll(d, new, counter) /\ ctx.items \in Seq(Item) /\ counter \in Counters
  BY Basics DEF ApplyCompaction
<1>. HIDE DEF items, new
<1>4. Edited(ctx, d) /\ d.items = items /\ d.next = ctx.next /\ d.next \in Nat \ {0}
  <2>1. Edited(ctx, d) /\ d.items = items /\ d.next = ctx.next
    BY <1>2, Basics, EditedInPlace
  <2>2. WellFormed(d)
    BY <2>1 DEF Edited
  <2>. QED
    BY <2>1, <2>2, Parts
<1>5. d \in ContextType
  BY <1>4 DEF Edited, WellFormed
<1>6. more \in Seq(Item) /\ \A j \in DOMAIN more : more[j].id = d.next + j - 1
  <2>. DEFINE first == d.next
  <2>1. first \in Nat \ {0}
    BY <1>4
  <2>. HIDE DEF first, d
  <2>2. ASSUME NEW j \in DOMAIN new
        PROVE  LET y == [new[j] EXCEPT !.id = first + j - 1, !.priced = counter]
               IN  y \in Item /\ y.id = first + j - 1
    <3>1. new[j] \in Item /\ first + j - 1 \in Nat
      BY <1>1, <2>1
    <3>. DEFINE x == new[j]
                n == first + j - 1
    <3>2. x \in Item /\ n \in Nat
      BY <3>1
    <3>. HIDE DEF x, n
    <3>3. [x EXCEPT !.id = n, !.priced = counter] \in Item
            /\ [x EXCEPT !.id = n, !.priced = counter].id = n
      BY <1>3, <3>2 DEF Item
    <3>. QED
      BY <3>3 DEF x, n
  <2>3. DOMAIN more = DOMAIN new
          /\ \A j \in DOMAIN new : more[j] \in Item /\ more[j].id = first + j - 1
    BY <2>2 DEF first
  <2>4. more = [j \in DOMAIN new |-> more[j]]
    OBVIOUS
  <2>. HIDE DEF more
  <2>. QED
    BY <1>1, <2>3, <2>4, MadeFrom DEF first
<1>7. ctx'.items = items \o more
  <2>. HIDE DEF d
  <2>1. ctx'.items = d.items \o more
    BY <1>3, <1>5 DEF AddAll, ContextType
  <2>. QED
    BY <1>4, <2>1
<1>8. ctx'.next \in Nat /\ ctx.next <= ctx'.next
  <2>. HIDE DEF more
  <2>. DEFINE first == d.next
              n == Len(new)
  <2>1. first \in Nat /\ n \in Nat
    BY <1>1, <1>4
  <2>. HIDE DEF d, n
  <2>2. ctx'.next = first + n
    BY <1>3, <1>5 DEF AddAll, ContextType, n
  <2>. HIDE DEF first
  <2>3. ctx'.next \in Nat /\ first <= ctx'.next
    BY <2>1, <2>2
  <2>. QED
    BY <1>4, <2>3 DEF first
<1>. HIDE DEF more, d
<1>. QED
  BY <1>2, <1>4, <1>6, <1>7, <1>8 DEF items

\* A plan a client applies leaves what is pinned where it is.
LEMMA CompactionSparesPins ==
  ASSUME IInv, NEW plan \in Plans, ApplyCompaction(plan)
  PROVE  PinsSpared
<1>1. Compacted(ctx.items, plan) \in Seq(Item) /\ ctx.items \in Seq(Item)
  BY Basics, CompactionAdds
<1>2. PICK more \in Seq(Item) : ctx'.items = Compacted(ctx.items, plan) \o more
  BY CompactionAdds
<1>3. Sorted(ctx.items)
  BY Basics, Parts DEF VersionsOf, VersionOK
<1>4. ASSUME NEW k \in DOMAIN ctx.items,
             ctx.items[k].state = "Pinned", ctx.items[k].id \in Carrying(ctx.items)
      PROVE  ctx.items[k].id \in Carrying(ctx'.items)
  BY <1>1, <1>2, <1>3, <1>4, PassSparesPins
<1>. QED
  BY <1>4 DEF PinsSpared

\* A compactor plans for the context it was shown, and its plan is applied to the one
\* there is by then (apply_compaction): no item pinned by then leaves the request,
\* neither taken out itself nor dropped for want of the other half of its pair.
THEOREM PinsStay == RequestsSpec => PlansSparePins
<1>1. ASSUME RInv, [RequestsNext]_<<vars, requests>>, At("planning"), req'.at = "planned"
      PROVE  PinsSpared
  <2>1. ASSUME NEW plan \in Brought, ApplyPlan(plan)
        PROVE  PinsSpared
    <3>1. plan \in Plans
      BY RequestsAssumption DEF Brought, Plans
    <3>. QED
      BY <1>1, <2>1, <3>1, CompactionSparesPins DEF ApplyPlan, RInv
  <2>2. ASSUME ctx' = ctx
        PROVE  PinsSpared
    BY <2>2 DEF PinsSpared
  <2>3. CASE NoPlan \/ UNCHANGED <<vars, requests>>
    BY <2>2, <2>3 DEF NoPlan, vars
  <2>4. ~(Ask \/ LeaveBe \/ Consult \/ BuildAgain \/ AsBefore \/ Mark \/ Look \/ Weigh \/ Place
            \/ Retire \/ BuildLast \/ Refuse \/ Send \/ Conclude \/ Further
            \/ \E item \in Recordable : Record(item))
    BY <1>1 DEF Ask, LeaveBe, Consult, BuildAgain, AsBefore, Mark, Look, Weigh, Place,
                Retire, BuildLast, Refuse, Send, Conclude, Further, Record, At
  <2>5. ~GiveUp
    BY <1>1 DEF GiveUp, NoRequest
  <2>6. ASSUME req' = req
        PROVE  FALSE
    BY <1>1, <2>6 DEF At
  <2>7. \A ids : Touched(ids) = req
    BY <1>1 DEF Touched, At
  <2>8. ~Client
    BY <2>6, <2>7 DEF Client, ClientPush, ClientMoves, Walk, Reword, RewordOne, Reworded
  <2>. QED
    BY <1>1, <2>1, <2>3, <2>4, <2>5, <2>8 DEF RequestsNext, Kernel
<1>2. RInv /\ [RequestsNext]_<<vars, requests>> =>
        [At("planning") /\ req'.at = "planned" =>
           LET left == Carrying(ctx'.items)
           IN  \A k \in DOMAIN ctx.items :
                 ctx.items[k].state = "Pinned" /\ ctx.items[k].id \in Carrying(ctx.items)
                   => ctx.items[k].id \in left]_<<vars, requests>>
  BY <1>1 DEF PinsSpared
<1>. QED
  BY <1>2, RequestsInitHolds, RequestsKeep, PTL DEF RequestsSpec, PlansSparePins


---------------------------------------------------------------------------
(* What is sent.                                                           *)

\* A step with nothing to send yet, or already sent; and while what was put in and
\* taken out is still to be built into the request.
Bare == {"no", "built", "planning", "out", "recorded"}
Preparing == {"planned", "marking", "looking", "weighing", "placing", "retiring", "marked"}

HandedOut == 1..(ctx.next - 1)

RequestType ==
  [at : Places, carried : SUBSET Nat, cost : Nat, full : BOOLEAN, retiring : SUBSET Nat,
   placed : SUBSET Nat, taken : SUBSET Nat, touched : BOOLEAN]

ReqTyped ==
  /\ req \in RequestType /\ full \in BOOLEAN /\ walked \in BOOLEAN
  /\ req.carried \cup req.retiring \cup req.placed \cup req.taken \subseteq HandedOut

\* Nobody undoes or redoes while a request is made.
Holds == req.at # "no" => machine = "holding"

\* The notice placed still stands, and the last build carries it.
PlacedStands ==
  /\ req.placed # {} => req.at \in {"marked", "ready"}
  /\ req.at = "marked" =>
       \A id \in req.placed : \E k \in DOMAIN ctx.items :
         /\ ctx.items[k].id = id /\ ctx.items[k].kind = "plain"
         /\ IsProjected(ctx.items[k].state)
  /\ req.at = "ready" => req.placed \subseteq req.carried

\* What was taken out stays out, and what was built since has none of it.
TakenStaysOut ==
  /\ req.at \in Bare => req.taken = {}
  /\ req.at \in Preparing =>
       \A k \in DOMAIN ctx.items : ctx.items[k].id \in req.taken => ctx.items[k].state = "Excluded"
  /\ req.at \in {"marking", "ready"} => req.taken \cap req.carried = {}

\* What was weighed is what will be sent, unless a client changes it.
StillFits ==
  ~req.touched =>
    /\ req.at = "placing" => Fits(ctx.items, given)
    /\ req.at = "marked" /\ req.placed # {} => ~Oversized(Cost(ctx.items))
    /\ req.at = "ready" /\ req.placed # {} => ~Oversized(req.cost)

SInv ==
  /\ RInv /\ ReqTyped /\ Holds /\ PlacedStands /\ TakenStaysOut /\ StillFits

\* How a context changes where only these items may get another state, and what is
\* new gets numbers that were not handed out before.
Steady(ids) ==
  /\ ctx'.items \in Seq(Item) /\ ctx'.next \in Nat /\ ctx.next <= ctx'.next
  /\ \A k \in DOMAIN ctx.items :
       /\ k \in DOMAIN ctx'.items /\ ctx'.items[k].id = ctx.items[k].id
       /\ ctx'.items[k].kind = ctx.items[k].kind
       /\ ctx.items[k].id \notin ids => ctx'.items[k].state = ctx.items[k].state
  /\ \A k \in DOMAIN ctx'.items : k \in DOMAIN ctx.items \/ ctx'.items[k].id \notin HandedOut

\* An item put behind the others.
LEMMA PushSteady ==
  ASSUME IInv, NEW item \in Item, Push(item)
  PROVE  /\ Steady({}) /\ ctx'.next = ctx.next + 1
         /\ ctx'.items = Append(ctx.items, [item EXCEPT !.id = ctx.next, !.priced = counter])
<1>. DEFINE d == Checkpoint(ctx)
            first == ctx.next
            v == ctx.items
            x == [item EXCEPT !.id = first, !.priced = counter]
<1>1. /\ d \in ContextType /\ d.items = v /\ d.next = first /\ v \in Seq(Item)
      /\ first \in Nat \ {0} /\ counter \in Counters
  BY Basics, Parts
<1>2. ctx' = Add(d, item, counter) /\ first + 1 <= TopId
  BY DEF Push, Room
<1>3. x \in Item /\ x.id = first
  <2>. HIDE DEF first
  <2>. QED
    BY <1>1 DEF Item
<1>. HIDE DEF d, x
<1>4. ctx'.items = Append(v, x) /\ ctx'.next = first + 1
  <2>. HIDE DEF v, first
  <2>1. ctx' = [d EXCEPT !.items = Append(d.items, [item EXCEPT !.id = d.next, !.priced = counter]),
                         !.next = SatInc(d.next)]
    BY <1>2 DEF Add
  <2>2. ctx'.items = Append(d.items, [item EXCEPT !.id = d.next, !.priced = counter])
          /\ ctx'.next = SatInc(d.next)
    BY <1>1, <2>1 DEF ContextType
  <2>3. SatInc(first) = first + 1
    BY <1>1, <1>2, TopAssumption DEF SatInc
  <2>. QED
    BY <1>1, <2>2, <2>3 DEF x
<1>. HIDE DEF v, first
<1>5. /\ Append(v, x) \in Seq(Item) /\ DOMAIN Append(v, x) = 1..(Len(v) + 1)
      /\ (\A k \in 1..Len(v) : Append(v, x)[k] = v[k]) /\ Append(v, x)[Len(v) + 1] = x
      /\ DOMAIN v = 1..Len(v) /\ Len(v) \in Nat
  BY <1>1, <1>3, OneMore
<1>6. first \notin 1..(first - 1) /\ first + 1 \in Nat /\ first <= first + 1
  BY <1>1
<1>7. \A k \in 1..(Len(v) + 1) : k \in 1..Len(v) \/ k = Len(v) + 1
  BY <1>5
<1>8. \A k \in 1..Len(v) : k \in 1..(Len(v) + 1)
  BY <1>5
<1>9. Steady({})
  BY <1>3, <1>4, <1>5, <1>6, <1>7, <1>8 DEF Steady, HandedOut, v, first
<1>. QED
  BY <1>4, <1>9 DEF v, first, x

\* Changes of state, of the items they name.
LEMMA SetStatesSteady ==
  ASSUME IInv, NEW changes, SetStates(changes), NEW n \in Nat, DOMAIN changes = 1..n,
         \A i \in Targets(changes) : changes[i].state \in States
                                      /\ changes[i].note \in Notes \cup Nat \cup {NoNote}
  PROVE  /\ Steady({changes[i].id : i \in DOMAIN changes})
         /\ ctx'.next = ctx.next
         /\ \A k \in DOMAIN ctx.items :
              (\E i \in Targets(changes) : changes[i].id = ctx.items[k].id)
                => \E i \in Targets(changes) : /\ changes[i].id = ctx.items[k].id
                                               /\ ctx'.items[k].state = changes[i].state
         /\ \A k \in DOMAIN ctx.items :
              ~(\E i \in Targets(changes) : changes[i].id = ctx.items[k].id)
                => ctx'.items[k] = ctx.items[k]
<1>. DEFINE d == Checkpoint(ctx)
            targets == Targets(changes)
            ids == {changes[i].id : i \in DOMAIN changes}
            last(id) == {i \in targets : /\ changes[i].id = id
                                         /\ \A j \in targets : changes[j].id = id => j <= i}
            moved(item) == LET i == CHOOSE i \in last(item.id) : TRUE
                           IN  [item EXCEPT !.state = changes[i].state, !.note = changes[i].note]
<1>1. ctx' = SetAll(d, changes, targets)
  BY DEF SetStates
<1>2. /\ d \in ContextType /\ d.items = ctx.items /\ d.next = ctx.next
      /\ ctx.items \in Seq(Item) /\ ctx.next \in Nat
  BY Basics, Parts
<1>3. targets \subseteq 1..n /\ targets \subseteq DOMAIN changes
  BY DEF Targets
<1>3a. \A i \in targets : changes[i].state \in States
                            /\ changes[i].note \in Notes \cup Nat \cup {NoNote}
  OBVIOUS
<1>. HIDE DEF d, targets
<1>4. PICK items \in Seq(Item) : SameIds(items, d.items) /\ ctx' = [d EXCEPT !.items = items]
  BY <1>1, <1>2, <1>3a, SetAllInPlace
<1>5. ctx'.items = items /\ ctx'.next = ctx.next
  BY <1>2, <1>4 DEF ContextType
<1>6. items = [k \in DOMAIN ctx.items |->
                 IF last(ctx.items[k].id) = {} THEN ctx.items[k] ELSE moved(ctx.items[k])]
  <2>1. ctx' = [d EXCEPT !.items = [k \in DOMAIN d.items |->
                  IF last(d.items[k].id) = {} THEN d.items[k] ELSE moved(d.items[k])]]
    BY <1>1 DEF SetAll
  <2>. HIDE DEF last, moved
  <2>2. ctx'.items = [k \in DOMAIN d.items |->
                  IF last(d.items[k].id) = {} THEN d.items[k] ELSE moved(d.items[k])]
    BY <1>2, <2>1 DEF ContextType
  <2>. QED
    BY <1>2, <1>5, <2>2, SMTT(30)
<1>7. ASSUME NEW id, NEW i \in targets, changes[i].id = id
      PROVE  last(id) # {}
  <2>. DEFINE S == {j \in targets : changes[j].id = id}
              top == Max(S)
  <2>0. i \in S /\ S \subseteq 1..n
    BY <1>3, <1>7
  <2>. HIDE DEF S
  <2>1. S \in SUBSET Nat /\ S # {} /\ \A j \in S : j <= n
    BY <2>0
  <2>2. top \in S /\ \A j \in S : j <= top
    BY <2>1, MaxOfBounded
  <2>. HIDE DEF top
  <2>3. top \in last(id)
    BY <2>2 DEF S
  <2>. QED
    BY <2>3
<1>8. ASSUME NEW k \in DOMAIN ctx.items,
             NEW i \in targets, changes[i].id = ctx.items[k].id
      PROVE  /\ items[k].kind = ctx.items[k].kind
             /\ \E j \in targets : changes[j].id = ctx.items[k].id /\ items[k].state = changes[j].state
  <2>. DEFINE id == ctx.items[k].id
  <2>1. last(id) # {}
    BY <1>7, <1>8
  <2>2. PICK j \in last(id) : j = CHOOSE x \in last(id) : TRUE
    <3>. HIDE DEF last, id
    <3>. QED
      BY <2>1
  <2>3. items[k] = [ctx.items[k] EXCEPT !.state = changes[j].state, !.note = changes[j].note]
    <3>1. items[k] = moved(ctx.items[k])
      <4>. HIDE DEF last, moved
      <4>. QED
        BY <1>6, <2>1
    <3>. HIDE DEF last
    <3>. QED
      BY <2>2, <3>1
  <2>4. j \in targets /\ changes[j].id = id
    BY <2>2
  <2>5. ctx.items[k] \in Item
    BY <1>2
  <2>. DEFINE y == ctx.items[k]
  <2>. HIDE DEF y, last, id
  <2>6. items[k].kind = ctx.items[k].kind /\ items[k].state = changes[j].state
    BY <2>3, <2>5 DEF Item
  <2>. QED
    BY <2>4, <2>6 DEF id
<1>9. ASSUME NEW k \in DOMAIN ctx.items,
             ~(\E i \in targets : changes[i].id = ctx.items[k].id)
      PROVE  items[k] = ctx.items[k]
  <2>1. last(ctx.items[k].id) = {}
    BY <1>9
  <2>. HIDE DEF last, moved
  <2>. QED
    BY <1>6, <2>1
<1>10. DOMAIN items = DOMAIN ctx.items /\ \A k \in DOMAIN items : items[k].id = ctx.items[k].id
  BY <1>2, <1>4 DEF SameIds
<1>. HIDE DEF last, moved
<1>11. Steady(ids)
  <2>1. ASSUME NEW k \in DOMAIN ctx.items
        PROVE  /\ items[k].kind = ctx.items[k].kind
               /\ ctx.items[k].id \notin ids => items[k].state = ctx.items[k].state
    <3>1. CASE \E i \in targets : changes[i].id = ctx.items[k].id
      <4>1. PICK i \in targets : changes[i].id = ctx.items[k].id
        BY <3>1
      <4>2. ctx.items[k].id \in ids
        BY <1>3, <4>1
      <4>. QED
        BY <1>8, <4>1, <4>2
    <3>2. CASE ~\E i \in targets : changes[i].id = ctx.items[k].id
      BY <1>9, <3>2
    <3>. QED
      BY <3>1, <3>2
  <2>2. ctx.next <= ctx'.next
    BY <1>2, <1>5
  <2>. HIDE DEF ids
  <2>. QED
    BY <1>2, <1>5, <1>10, <2>1, <2>2 DEF Steady
<1>. QED
  BY <1>5, <1>8, <1>9, <1>11 DEF targets

\* Other words, in place.
LEMMA ReplaceSteady ==
  ASSUME IInv, NEW id \in Listed, NEW text \in Texts, ReplaceItem(id, text)
  PROVE  Steady({}) /\ ctx'.next = ctx.next
<1>. DEFINE d == Checkpoint(ctx)
            k == IndexOf(ctx.items, id)
            x == [ctx.items[k] EXCEPT !.text = text, !.priced = counter]
            items == [ctx.items EXCEPT ![k] = x]
<1>1. ctx' = Replace(d, id, text, counter) /\ id \in Ids(ctx.items) /\ text \in Texts
  BY DEF ReplaceItem, Listed
<1>2. /\ d \in ContextType /\ d.items = ctx.items /\ d.next = ctx.next
      /\ ctx.items \in Seq(Item) /\ counter \in Counters /\ ctx.next \in Nat
  BY Basics, Parts
<1>3. k \in DOMAIN ctx.items /\ ctx.items[k] \in Item
  BY <1>1, <1>2, IndexFinds
<1>4. /\ x \in Item /\ x.id = ctx.items[k].id /\ x.kind = ctx.items[k].kind
      /\ x.state = ctx.items[k].state
  <2>. DEFINE y == ctx.items[k]
  <2>. HIDE DEF y
  <2>1. y \in Item => LET z == [y EXCEPT !.text = text, !.priced = counter]
                      IN  z \in Item /\ z.id = y.id /\ z.kind = y.kind /\ z.state = y.state
    BY <1>2 DEF Item
  <2>. QED
    BY <1>3, <2>1 DEF y
<1>5. ctx' = [d EXCEPT !.items[k] = x]
  BY <1>1, <1>2, <1>3 DEF Replace, ContextType
<1>. HIDE DEF d, k, x
<1>6. [d EXCEPT !.items[k] = x] = [d EXCEPT !.items = items] /\ items \in Seq(Item)
  BY <1>2, <1>3, <1>4, OneChanged
<1>7. ctx'.items = items /\ ctx'.next = ctx.next
  BY <1>2, <1>5, <1>6 DEF ContextType
<1>8. DOMAIN items = DOMAIN ctx.items
        /\ \A j \in DOMAIN ctx.items : items[j] = IF j = k THEN x ELSE ctx.items[j]
  BY <1>2
<1>9. ctx.next <= ctx'.next
  BY <1>2, <1>7
<1>. HIDE DEF items
<1>. QED
  BY <1>2, <1>4, <1>6, <1>7, <1>8, <1>9 DEF Steady


\* What a pass removes is out of the context it leaves, and nothing new has a number
\* that was handed out.
LEMMA CompactionTakesOut ==
  ASSUME IInv, NEW plan \in Plans, ApplyCompaction(plan),
         NEW k \in DOMAIN ctx'.items,
         ctx'.items[k].id \in Removing(ctx.items, plan, Carrying(ctx.items))
  PROVE  ctx'.items[k].state = "Excluded"
<1>. DEFINE v == ctx.items
            out == Compacted(v, plan)
            removing == Removing(v, plan, Carrying(v))
<1>1. /\ out \in Seq(Item) /\ SameIds(out, v) /\ v \in Seq(Item)
      /\ ctx.next \in Nat \ {0}
  BY Basics, CompactionAdds
<1>2. PICK more \in Seq(Item) : /\ ctx'.items = out \o more
                                /\ \A j \in DOMAIN more : more[j].id = ctx.next + j - 1
  BY CompactionAdds
<1>3. removing \subseteq 1..(ctx.next - 1)
  <2>1. removing \subseteq Ids(v)
    BY DEF Removing
  <2>2. Ids(v) \subseteq 1..(ctx.next - 1)
    BY Basics, VersionsKnown DEF VersionsOf
  <2>. QED
    BY <2>1, <2>2
<1>4. \A j \in DOMAIN v : v[j].id \in removing =>
        out[j] = [v[j] EXCEPT !.state = "Excluded", !.note = Reason]
  BY DEF Compacted
<1>5. ctx'.items[k].id \in removing
  OBVIOUS
<1>. HIDE DEF removing, out, v
<1>. DEFINE n == Len(out)
            m == Len(more)
<1>6. /\ n \in Nat /\ m \in Nat /\ DOMAIN out = 1..n /\ DOMAIN more = 1..m
      /\ DOMAIN (out \o more) = 1..(n + m)
      /\ (\A j \in 1..n : (out \o more)[j] = out[j])
      /\ \A j \in (n + 1)..(n + m) : (out \o more)[j] = more[j - n]
  BY <1>1
<1>. HIDE DEF n, m
<1>7. k \in 1..n
  <2>1. SUFFICES ASSUME k \notin 1..n PROVE FALSE
    OBVIOUS
  <2>2. k \in (n + 1)..(n + m) /\ k - n \in 1..m
    BY <1>2, <1>6, <2>1
  <2>3. ctx'.items[k].id = ctx.next + (k - n) - 1
    BY <1>2, <1>6, <2>2
  <2>4. ctx.next + (k - n) - 1 \in 1..(ctx.next - 1)
    BY <1>3, <1>5, <2>3
  <2>. DEFINE first == ctx.next
              j == k - n
  <2>5. first \in Nat /\ j \in 1..m
    BY <1>1, <2>2
  <2>. HIDE DEF first, j
  <2>6. first + j - 1 \notin 1..(first - 1)
    BY <1>6, <2>5
  <2>. QED
    BY <2>4, <2>6 DEF first, j
<1>8. k \in DOMAIN v /\ ctx'.items[k] = out[k] /\ out[k].id = v[k].id
  BY <1>1, <1>2, <1>6, <1>7 DEF SameIds
<1>9. out[k] = [v[k] EXCEPT !.state = "Excluded", !.note = Reason]
  BY <1>4, <1>5, <1>8
<1>10. v[k] \in Item
  BY <1>1, <1>8
<1>11. out[k].state = "Excluded"
  BY <1>9, <1>10 DEF Item
<1>. QED
  BY <1>8, <1>11

\* What a request costs is a number, and what it carries was handed out.
LEMMA CostCounts ==
  ASSUME NEW items \in Seq(Item)
  PROVE  Cost(items) \in Nat
<1>. DEFINE sent == Project(items).messages
            S == {k \in DOMAIN sent : sent[k].says = "words"}
            n == Len(sent)
<1>1. sent \in Seq(MessageType)
  BY MessagesTyped
<1>. HIDE DEF sent
<1>2. n \in Nat /\ DOMAIN sent = 1..n
  BY <1>1
<1>3. S \in SUBSET (1..n)
  BY <1>2
<1>. HIDE DEF S, n
<1>4. IsFiniteSet(1..n)
  BY <1>2, FS_Interval
<1>5. IsFiniteSet(S)
  BY <1>3, <1>4, FS_Subset
<1>6. Cardinality(S) \in Nat
  BY <1>5, FS_CardinalityType
<1>. QED
  BY <1>2, <1>6 DEF Cost, sent, S, n

\* What a request carries has numbers handed out before, and a cost that is a number.
LEMMA CarriedHandedOut ==
  ASSUME IInv
  PROVE  Carrying(ctx.items) \subseteq HandedOut /\ HandedOut \subseteq Nat /\ Cost(ctx.items) \in Nat
<1>1. ctx.items \in Seq(Item) /\ Ids(ctx.items) \subseteq HandedOut
  BY Basics, VersionsKnown DEF VersionsOf, HandedOut
<1>2. Carrying(ctx.items) \subseteq Ids(ctx.items)
  BY <1>1, CarriedProjected DEF Ids
<1>3. HandedOut \subseteq Nat
  BY Basics, Parts DEF HandedOut
<1>. QED
  BY <1>1, <1>2, <1>3, CostCounts

\* Numbers handed out stay so.
LEMMA HandedOutGrows ==
  ASSUME ctx.next \in Nat, ctx'.next \in Nat, ctx.next <= ctx'.next
  PROVE  HandedOut \subseteq HandedOut'
<1>. DEFINE m == ctx.next
            n == ctx'.next
<1>1. m \in Nat /\ n \in Nat /\ m <= n
  OBVIOUS
<1>. HIDE DEF m, n
<1>2. 1..(m - 1) \subseteq 1..(n - 1)
  BY <1>1
<1>. QED
  BY <1>2 DEF HandedOut, m, n

---------------------------------------------------------------------------
(* What clients do while a request is made.                                *)

\* A client's change of some items: what the kernel put in or took out of the others
\* is as it was, and the rest is touched.
LEMMA TouchedKeeps ==
  ASSUME SInv, RInv', NEW ids, Steady(ids), req' = Touched(ids), machine' = machine,
         full' = full, walked' = walked
  PROVE  SInv'
<1>1. /\ req \in RequestType /\ full \in BOOLEAN /\ walked \in BOOLEAN
      /\ req.carried \cup req.retiring \cup req.placed \cup req.taken \subseteq HandedOut
  BY DEF SInv, ReqTyped
<1>2. ctx.items \in Seq(Item) /\ ctx.next \in Nat /\ ctx'.next \in Nat
  BY Basics, Parts DEF SInv, RInv, Steady
<1>3. HandedOut \subseteq HandedOut'
  BY <1>2, HandedOutGrows DEF Steady
<1>4. CASE req.at \in Bare \cup {"ready"}
  <2>1. req' = req
    BY <1>4 DEF Touched, Bare
  <2>2. ReqTyped' /\ Holds'
    BY <1>1, <1>3, <2>1 DEF SInv, ReqTyped, Holds
  <2>3. req.at # "marked" /\ req.at # "placing" /\ req.at \notin Preparing
    BY <1>4 DEF Bare, Preparing
  <2>4. PlacedStands' /\ TakenStaysOut' /\ StillFits'
    BY <2>1, <2>3 DEF SInv, PlacedStands, TakenStaysOut, StillFits
  <2>. QED
    BY <2>2, <2>4 DEF SInv
<1>5. CASE req.at \notin Bare \cup {"ready"}
  <2>1. req' = [req EXCEPT !.placed = req.placed \ ids, !.taken = req.taken \ ids, !.touched = TRUE]
    BY <1>5 DEF Touched, Bare
  <2>2. /\ req'.at = req.at /\ req'.carried = req.carried /\ req'.cost = req.cost
        /\ req'.full = req.full /\ req'.retiring = req.retiring
        /\ req'.placed = req.placed \ ids /\ req'.taken = req.taken \ ids /\ req'.touched = TRUE
        /\ req' \in RequestType
    BY <1>1, <2>1 DEF RequestType
  <2>3. ReqTyped' /\ Holds'
    BY <1>1, <1>3, <2>2 DEF SInv, ReqTyped, Holds
  <2>4. PlacedStands'
    <3>1. req'.placed # {} => req'.at \in {"marked", "ready"}
      BY <2>2 DEF SInv, PlacedStands
    <3>2. req'.at # "ready"
      BY <1>5, <2>2
    <3>3. ASSUME req.at = "marked", NEW id \in req.placed \ ids
          PROVE  \E k \in DOMAIN ctx'.items : /\ ctx'.items[k].id = id
                                              /\ ctx'.items[k].kind = "plain"
                                              /\ IsProjected(ctx'.items[k].state)
      <4>1. PICK k \in DOMAIN ctx.items : /\ ctx.items[k].id = id /\ ctx.items[k].kind = "plain"
                                          /\ IsProjected(ctx.items[k].state)
        BY <3>3 DEF SInv, PlacedStands
      <4>. QED
        BY <3>3, <4>1 DEF Steady
    <3>. QED
      BY <2>2, <3>1, <3>2, <3>3 DEF PlacedStands
  <2>5. TakenStaysOut'
    <3>1. req.at \in Preparing => \A k \in DOMAIN ctx.items :
            ctx.items[k].id \in req.taken => ctx.items[k].state = "Excluded"
      BY DEF SInv, TakenStaysOut
    <3>2. ASSUME req.at \in Preparing, NEW k \in DOMAIN ctx'.items,
                 ctx'.items[k].id \in req.taken \ ids
          PROVE  ctx'.items[k].state = "Excluded"
      <4>1. k \in DOMAIN ctx.items
        BY <1>1, <3>2 DEF Steady
      <4>2. ctx'.items[k].id = ctx.items[k].id
        BY <4>1 DEF Steady
      <4>3. ctx'.items[k].state = ctx.items[k].state
        BY <3>2, <4>1, <4>2 DEF Steady
      <4>. QED
        BY <3>1, <3>2, <4>1, <4>2, <4>3
    <3>. QED
      BY <1>5, <2>2, <3>2 DEF SInv, TakenStaysOut
  <2>6. StillFits'
    BY <2>2 DEF StillFits
  <2>. QED
    BY <2>3, <2>4, <2>5, <2>6 DEF SInv
<1>. QED
  BY <1>4, <1>5


\* What clients do of the context between and beside requests.
LEMMA ClientsKeepSent ==
  ASSUME SInv, RInv', Client
  PROVE  SInv'
<1>1. IInv /\ RInv /\ given \in Wordings /\ rewrite.to \in Wordings
  BY DEF SInv, RInv, WordsOK
<1>2. ASSUME NEW item \in Pushable, ClientPush(item)
      PROVE  SInv'
  <2>1. Steady({})
    BY <1>1, <1>2, PushSteady, KernelContextAssumption DEF ClientPush
  <2>. QED
    BY <1>2, <2>1, TouchedKeeps DEF ClientPush, Push, turn, rest
<1>3. ASSUME NEW change \in Change, ClientMoves(change)
      PROVE  SInv'
  <2>. DEFINE changes == <<change>>
  <2>1. change.state \in States /\ change.note \in Notes \cup Nat \cup {NoNote}
    BY KernelContextAssumption DEF Change
  <2>2. DOMAIN changes = 1..1 /\ 1 \in Nat /\ \A i \in DOMAIN changes : changes[i] = change
    OBVIOUS
  <2>3. SetStates(changes) /\ req' = Touched({change.id}) /\ UNCHANGED rest
    BY <1>3 DEF ClientMoves
  <2>. HIDE DEF changes
  <2>4. \A i \in Targets(changes) : changes[i] = change
    BY <2>2 DEF Targets
  <2>5. Steady({changes[i].id : i \in DOMAIN changes})
    BY <1>1, <2>1, <2>2, <2>3, <2>4, SetStatesSteady
  <2>6. {changes[i].id : i \in DOMAIN changes} = {change.id}
    BY <2>2
  <2>7. Steady({change.id})
    BY <2>5, <2>6
  <2>. QED
    BY <2>3, <2>7, TouchedKeeps DEF SetStates, turn, rest
<1>4. ASSUME NEW id \in rewrite.left, RewordOne(id)
      PROVE  SInv'
  <2>1. CASE id \in Listed /\ ReplaceItem(id, rewrite.to)
    <3>1. rewrite.to \in Texts
      BY <1>1, RequestsAssumption
    <3>2. Steady({})
      BY <1>1, <2>1, <3>1, ReplaceSteady
    <3>. QED
      BY <1>4, <2>1, <3>2, TouchedKeeps DEF RewordOne, ReplaceItem, turn
  <2>2. CASE UNCHANGED vars
    <3>1. ctx' = ctx /\ machine' = machine
      BY <2>2 DEF vars
    <3>2. ctx.items \in Seq(Item) /\ ctx.next \in Nat
      BY <1>1, Basics, Parts
    <3>3. Steady({})
      BY <3>1, <3>2 DEF Steady
    <3>. QED
      BY <1>4, <3>1, <3>3, TouchedKeeps DEF RewordOne
  <2>. QED
    BY <1>4, <2>1, <2>2 DEF RewordOne
<1>5. CASE Walk
  <2>1. machine = "resting" /\ UNCHANGED <<req, full, given>> /\ walked' = TRUE /\ machine' = machine
    BY <1>5 DEF Walk, Undo, Redo, turn
  <2>2. req.at = "no"
    BY <2>1 DEF SInv, Holds
  <2>3. ctx'.next = ctx.next
    <3>1. WellFormed(ctx) /\ ctx \in ContextType
      BY <1>1, Basics
    <3>2. ASSUME NEW d \in ContextType, ctx' = Recounted(d, counter)
          PROVE  ctx'.next = d.next
      BY <3>2 DEF Recounted, ContextType
    <3>3. CASE Undo
      <4>1. Undone(ctx).next = ctx.next /\ Undone(ctx) \in ContextType
        BY <3>1, <3>3, UndoneMoves DEF Undo, WellFormed
      <4>. QED
        BY <3>2, <3>3, <4>1 DEF Undo
    <3>4. CASE Redo
      <4>1. Redone(ctx).next = ctx.next /\ Redone(ctx) \in ContextType
        BY <3>1, <3>4, RedoneMoves DEF Redo, WellFormed
      <4>. QED
        BY <3>2, <3>4, <4>1 DEF Redo
    <3>. QED
      BY <1>5, <3>3, <3>4 DEF Walk
  <2>4. ReqTyped' /\ Holds'
    BY <2>1, <2>2, <2>3 DEF SInv, ReqTyped, Holds, HandedOut
  <2>5. req.placed = {} /\ req.taken = {}
    BY <2>2 DEF SInv, PlacedStands, TakenStaysOut, Bare
  <2>6. PlacedStands' /\ TakenStaysOut' /\ StillFits'
    BY <2>1, <2>2, <2>5 DEF PlacedStands, TakenStaysOut, StillFits, Preparing
  <2>. QED
    BY <2>4, <2>6 DEF SInv
<1>6. ASSUME UNCHANGED <<vars, req, full, given, walked>>
      PROVE  SInv'
  <2>1. UNCHANGED <<ctx, counter, machine, req, full, given, walked>>
    BY <1>6 DEF vars
  <2>. QED
    BY <2>1 DEF SInv, ReqTyped, Holds, PlacedStands, TakenStaysOut, StillFits, HandedOut, Fits
<1>7. ASSUME (\E words \in Wordings : Reword(words)) \/ Reworded
      PROVE  SInv'
  BY <1>6, <1>7 DEF Reword, Reworded
<1>. QED
  BY <1>2, <1>3, <1>4, <1>5, <1>7 DEF Client

---------------------------------------------------------------------------
(* What the kernel does.                                                   *)

\* No request, or none that holds anything.
LEMMA BareKeeps ==
  ASSUME SInv, RInv', ctx'.next \in Nat, ctx.next <= ctx'.next,
         full' \in BOOLEAN, walked' \in BOOLEAN,
         NEW place \in {"no", "planning", "out", "recorded"},
         req' = [NoRequest EXCEPT !.at = place],
         place # "no" => machine' = "holding"
  PROVE  SInv'
<1>1. /\ req'.at = place /\ req'.carried = {} /\ req'.cost = 0 /\ req'.retiring = {}
      /\ req'.placed = {} /\ req'.taken = {} /\ req' \in RequestType
  BY DEF NoRequest, RequestType, Places
<1>2. ReqTyped' /\ Holds'
  BY <1>1 DEF ReqTyped, Holds
<1>3. PlacedStands' /\ TakenStaysOut' /\ StillFits'
  BY <1>1 DEF PlacedStands, TakenStaysOut, StillFits, Preparing
<1>. QED
  BY <1>2, <1>3 DEF SInv

\* A step that leaves the context as it is.
LEMMA LookingKeeps ==
  ASSUME SInv, RInv', UNCHANGED vars,
         LeaveBe \/ NoPlan \/ BuildAgain \/ AsBefore \/ Mark \/ Look \/ Weigh \/ BuildLast
  PROVE  SInv'
<1>1. /\ req \in RequestType /\ full \in BOOLEAN /\ walked \in BOOLEAN
      /\ req.carried \cup req.retiring \cup req.placed \cup req.taken \subseteq HandedOut
      /\ req.at # "no" => machine = "holding"
  BY DEF SInv, ReqTyped, Holds
<1>2. ctx' = ctx /\ machine' = machine /\ HandedOut' = HandedOut
  BY DEF vars, HandedOut
<1>3. /\ IInv /\ Carrying(ctx.items) \subseteq HandedOut /\ HandedOut \subseteq Nat
      /\ Cost(ctx.items) \in Nat /\ ctx.items \in Seq(Item)
  BY CarriedHandedOut, Basics DEF SInv, RInv
<1>4. /\ req.placed # {} => req.at \in {"marked", "ready"}
      /\ req.at \in Bare => req.taken = {}
      /\ req.at \in Preparing => \A k \in DOMAIN ctx.items :
           ctx.items[k].id \in req.taken => ctx.items[k].state = "Excluded"
      /\ req.at \in {"marking", "ready"} => req.taken \cap req.carried = {}
      /\ req.at = "marked" => \A id \in req.placed : \E k \in DOMAIN ctx.items :
           /\ ctx.items[k].id = id /\ ctx.items[k].kind = "plain"
           /\ IsProjected(ctx.items[k].state)
  BY DEF SInv, PlacedStands, TakenStaysOut
\* What is taken out is not carried by what is built now.
<1>5. ASSUME req.at \in Preparing
      PROVE  req.taken \cap Carrying(ctx.items) = {}
  <2>1. SUFFICES ASSUME NEW id \in req.taken, id \in Carrying(ctx.items) PROVE FALSE
    OBVIOUS
  <2>2. PICK k \in DOMAIN ctx.items : ctx.items[k].id = id /\ IsProjected(ctx.items[k].state)
    BY <1>3, <2>1, CarriedProjected
  <2>. QED
    BY <1>4, <1>5, <2>2 DEF IsProjected
<1>6. CASE LeaveBe
  <2>1. req.at = "built" /\ req' = [req EXCEPT !.at = "marking", !.full = FALSE]
          /\ full' = full /\ walked' = walked
    BY <1>6 DEF LeaveBe, At, rest
  <2>2. /\ req'.at = "marking" /\ req'.carried = req.carried /\ req'.retiring = req.retiring
        /\ req'.placed = {} /\ req'.taken = {} /\ req' \in RequestType
    BY <1>1, <1>4, <2>1 DEF RequestType, Places, Bare
  <2>3. ReqTyped' /\ Holds'
    BY <1>1, <1>2, <2>1, <2>2 DEF ReqTyped, Holds
  <2>4. PlacedStands' /\ TakenStaysOut' /\ StillFits'
    BY <2>2 DEF PlacedStands, TakenStaysOut, StillFits, Bare
  <2>. QED
    BY <2>3, <2>4 DEF SInv
<1>7. CASE NoPlan
  <2>1. req.at = "planning" /\ req' = [req EXCEPT !.at = "planned"]
          /\ full' = full /\ walked' = walked
    BY <1>7 DEF NoPlan, Goes, At, rest
  <2>2. /\ req'.at = "planned" /\ req'.carried = req.carried /\ req'.retiring = req.retiring
        /\ req'.placed = {} /\ req'.taken = {} /\ req' \in RequestType
    BY <1>1, <1>4, <2>1 DEF RequestType, Places, Bare
  <2>3. ReqTyped' /\ Holds'
    BY <1>1, <1>2, <2>1, <2>2 DEF ReqTyped, Holds
  <2>4. PlacedStands' /\ TakenStaysOut' /\ StillFits'
    BY <2>2 DEF PlacedStands, TakenStaysOut, StillFits, Bare
  <2>. QED
    BY <2>3, <2>4 DEF SInv
<1>8. CASE BuildAgain
  <2>. DEFINE filled == Cost(ctx.items) >= FullAt
  <2>1. /\ req.at = "planned" /\ full' = full /\ walked' = walked
        /\ req' = [[req EXCEPT !.carried = Carrying(ctx.items), !.cost = Cost(ctx.items)]
                     EXCEPT !.at = "marking", !.full = filled]
    BY <1>8 DEF BuildAgain, Built, At, rest
  <2>1a. filled \in BOOLEAN
    OBVIOUS
  <2>. HIDE DEF filled
  <2>2. /\ req'.at = "marking" /\ req'.carried = Carrying(ctx.items) /\ req'.retiring = req.retiring
        /\ req'.placed = {} /\ req'.taken = req.taken /\ req' \in RequestType
    BY <1>1, <1>3, <1>4, <2>1, <2>1a DEF RequestType, Places
  <2>3. ReqTyped' /\ Holds'
    BY <1>1, <1>2, <1>3, <2>1, <2>2 DEF ReqTyped, Holds
  <2>4. req.at \in Preparing
    BY <2>1 DEF Preparing
  <2>5. PlacedStands' /\ StillFits'
    BY <2>2 DEF PlacedStands, StillFits
  <2>6. TakenStaysOut'
    BY <1>2, <1>4, <1>5, <2>2, <2>4 DEF TakenStaysOut, Bare
  <2>. QED
    BY <2>3, <2>5, <2>6 DEF SInv
<1>9. CASE AsBefore
  <2>1. req.at = "marking" /\ req' = [req EXCEPT !.at = "ready"] /\ full' = full /\ walked' = walked
    BY <1>9 DEF AsBefore, Goes, At, rest
  <2>2. /\ req'.at = "ready" /\ req'.carried = req.carried /\ req'.retiring = req.retiring
        /\ req'.placed = {} /\ req'.taken = req.taken /\ req' \in RequestType
    BY <1>1, <1>4, <2>1 DEF RequestType, Places
  <2>3. ReqTyped' /\ Holds'
    BY <1>1, <1>2, <2>1, <2>2 DEF ReqTyped, Holds
  <2>4. PlacedStands' /\ StillFits'
    BY <2>2 DEF PlacedStands, StillFits
  <2>5. TakenStaysOut'
    BY <1>4, <2>1, <2>2 DEF TakenStaysOut, Bare, Preparing
  <2>. QED
    BY <2>3, <2>4, <2>5 DEF SInv
<1>10. CASE Mark
  <2>1. req.at = "marking" /\ req' = [req EXCEPT !.at = "looking"] /\ full' = req.full
          /\ walked' = (walked /\ (req.full \/ Stale # {}))
    BY <1>10 DEF Mark, Goes, At
  <2>2. /\ req'.at = "looking" /\ req'.carried = req.carried /\ req'.retiring = req.retiring
        /\ req'.placed = {} /\ req'.taken = req.taken /\ req' \in RequestType
    BY <1>1, <1>4, <2>1 DEF RequestType, Places
  <2>3. full' \in BOOLEAN /\ walked' \in BOOLEAN
    BY <1>1, <2>1 DEF RequestType
  <2>4. ReqTyped' /\ Holds'
    BY <1>1, <1>2, <2>1, <2>2, <2>3 DEF ReqTyped, Holds
  <2>5. PlacedStands' /\ StillFits'
    BY <2>2 DEF PlacedStands, StillFits
  <2>6. TakenStaysOut'
    BY <1>2, <1>4, <2>1, <2>2 DEF TakenStaysOut, Bare, Preparing
  <2>. QED
    BY <2>4, <2>5, <2>6 DEF SInv
<1>11. CASE Look
  <2>. DEFINE copies == Copies(ctx.items, given)
              active == {k \in copies : ctx.items[k].state = "Active"}
              going == {ctx.items[k].id : k \in active}
  <2>1. /\ req.at = "looking" /\ full' = full /\ walked' = walked
        /\ \/ req' = [req EXCEPT !.at = "retiring", !.retiring = going]
           \/ req' = [req EXCEPT !.at = "weighing"]
           \/ req' = [req EXCEPT !.at = "marked"]
    BY <1>11 DEF Look, At, rest
  <2>2. going \subseteq HandedOut
    <3>1. active \subseteq DOMAIN ctx.items
      BY DEF Copies
    <3>2. Ids(ctx.items) \subseteq HandedOut
      BY <1>3, Basics, VersionsKnown DEF VersionsOf, HandedOut
    <3>. HIDE DEF active
    <3>. QED
      BY <3>1, <3>2 DEF Ids
  <2>. HIDE DEF going
  <2>3. /\ req'.at \in {"retiring", "weighing", "marked"} /\ req'.carried = req.carried
        /\ req'.retiring \subseteq HandedOut
        /\ req'.placed = {} /\ req'.taken = req.taken /\ req' \in RequestType
    <3>1. CASE req' = [req EXCEPT !.at = "retiring", !.retiring = going]
      BY <1>1, <1>3, <1>4, <2>1, <2>2, <3>1 DEF RequestType, Places
    <3>2. CASE req' = [req EXCEPT !.at = "weighing"] \/ req' = [req EXCEPT !.at = "marked"]
      BY <1>1, <1>4, <2>1, <3>2 DEF RequestType, Places
    <3>. QED
      BY <2>1, <3>1, <3>2
  <2>4. ReqTyped' /\ Holds'
    BY <1>1, <1>2, <2>1, <2>3 DEF ReqTyped, Holds
  <2>5. PlacedStands' /\ StillFits'
    BY <2>3 DEF PlacedStands, StillFits
  <2>6. TakenStaysOut'
    BY <1>2, <1>4, <2>1, <2>3 DEF TakenStaysOut, Bare, Preparing
  <2>. QED
    BY <2>4, <2>5, <2>6 DEF SInv
<1>12. CASE Weigh
  <2>. DEFINE place == IF Fits(ctx.items, given) THEN "placing" ELSE "marked"
  <2>1. /\ req.at = "weighing" /\ full' = full /\ walked' = walked /\ given' = given
        /\ req' = [req EXCEPT !.at = place, !.touched = FALSE]
    BY <1>12 DEF Weigh, At, rest
  <2>2. place \in {"placing", "marked"} /\ (place = "placing" => Fits(ctx.items, given))
    OBVIOUS
  <2>. HIDE DEF place
  <2>3. /\ req'.at = place /\ req'.carried = req.carried /\ req'.retiring = req.retiring
        /\ req'.placed = {} /\ req'.taken = req.taken /\ req' \in RequestType
    BY <1>1, <1>4, <2>1, <2>2 DEF RequestType, Places
  <2>4. ReqTyped' /\ Holds'
    BY <1>1, <1>2, <2>1, <2>3 DEF ReqTyped, Holds
  <2>5. PlacedStands'
    BY <2>2, <2>3 DEF PlacedStands
  <2>6. Fits(ctx.items, given)' <=> Fits(ctx.items, given)
    BY <1>2, <2>1 DEF Fits
  <2>7. StillFits'
    BY <2>2, <2>3, <2>6 DEF StillFits
  <2>8. TakenStaysOut'
    BY <1>2, <1>4, <2>1, <2>2, <2>3 DEF TakenStaysOut, Bare, Preparing
  <2>. QED
    BY <2>4, <2>5, <2>7, <2>8 DEF SInv
<1>13. CASE BuildLast
  <2>1. /\ req.at = "marked" /\ full' = full /\ walked' = walked
        /\ req' = [[req EXCEPT !.carried = Carrying(ctx.items), !.cost = Cost(ctx.items)]
                     EXCEPT !.at = "ready"]
    BY <1>13 DEF BuildLast, Built, At
  <2>2. /\ req'.at = "ready" /\ req'.carried = Carrying(ctx.items) /\ req'.retiring = req.retiring
        /\ req'.placed = req.placed /\ req'.taken = req.taken /\ req' \in RequestType
        /\ req'.cost = Cost(ctx.items) /\ req'.touched = req.touched
    BY <1>1, <1>3, <2>1 DEF RequestType, Places
  <2>3. ReqTyped' /\ Holds'
    BY <1>1, <1>2, <1>3, <2>1, <2>2 DEF ReqTyped, Holds
  <2>4. req.placed \subseteq Carrying(ctx.items)
    <3>1. SUFFICES ASSUME NEW id \in req.placed PROVE id \in Carrying(ctx.items)
      OBVIOUS
    <3>2. PICK k \in DOMAIN ctx.items : /\ ctx.items[k].id = id /\ ctx.items[k].kind = "plain"
                                        /\ IsProjected(ctx.items[k].state)
      BY <1>4, <2>1, <3>1
    <3>. QED
      BY <1>3, <3>2, PlainCarried
  <2>5. PlacedStands'
    BY <2>2, <2>4 DEF PlacedStands
  <2>6. TakenStaysOut'
    BY <1>5, <2>1, <2>2 DEF TakenStaysOut, Bare, Preparing
  <2>7. StillFits'
    BY <2>1, <2>2 DEF SInv, StillFits
  <2>. QED
    BY <2>3, <2>5, <2>6, <2>7 DEF SInv
<1>. QED
  BY <1>6, <1>7, <1>8, <1>9, <1>10, <1>11, <1>12, <1>13


\* The notice goes in: it stands, and what was weighed with it is what there is now.
LEMMA PlaceKeepsSent ==
  ASSUME SInv, RInv', Place
  PROVE  SInv'
<1>. DEFINE item == [NoticeItem EXCEPT !.text = given]
            v == ctx.items
            x == [item EXCEPT !.id = ctx.next, !.priced = counter]
            y == [NoticeItem EXCEPT !.id = ctx.next, !.text = given]
<1>1. /\ req \in RequestType /\ full \in BOOLEAN /\ walked \in BOOLEAN
      /\ req.carried \cup req.retiring \cup req.placed \cup req.taken \subseteq HandedOut
      /\ IInv /\ given \in Wordings /\ given \in Texts
  BY RequestsAssumption DEF SInv, ReqTyped, RInv, WordsOK
<1>2. /\ req.at = "placing" /\ Push(item) /\ full' = full /\ walked' = walked
      /\ req' = [req EXCEPT !.at = "marked", !.placed = {ctx.next}]
  BY DEF Place, At, rest
<1>3. /\ item \in Item /\ v \in Seq(Item) /\ ctx.next \in Nat \ {0} /\ counter \in Counters
  BY <1>1, NoticeIsItem, Basics, Parts
<1>. HIDE DEF item
<1>4. /\ Steady({}) /\ ctx'.next = ctx.next + 1 /\ ctx'.items = Append(v, x)
  BY <1>1, <1>2, <1>3, PushSteady
<1>5. /\ x \in Item /\ y \in Item /\ x.id = ctx.next /\ y.id = ctx.next
      /\ x.kind = "plain" /\ x.state = "Active"
      /\ x.kind = y.kind /\ x.calls = y.calls /\ x.answers = y.answers /\ x.state = y.state
      /\ x.text = y.text
  <2>. DEFINE n == ctx.next
  <2>. HIDE DEF n
  <2>1. n \in Nat /\ NoticeItem \in Item
    BY <1>3, RequestsAssumption DEF n
  <2>2. LET a == [[NoticeItem EXCEPT !.text = given] EXCEPT !.id = n, !.priced = counter]
            b == [NoticeItem EXCEPT !.id = n, !.text = given]
        IN  /\ a \in Item /\ b \in Item /\ a.id = n /\ b.id = n
            /\ a.kind = NoticeItem.kind /\ a.state = NoticeItem.state
            /\ a.kind = b.kind /\ a.calls = b.calls /\ a.answers = b.answers /\ a.state = b.state
            /\ a.text = b.text
    BY <1>1, <1>3, <2>1 DEF Item
  <2>. QED
    BY <2>2, RequestsAssumption DEF n, item
<1>. HIDE DEF x, y
<1>6. /\ Append(v, x) \in Seq(Item) /\ Append(v, y) \in Seq(Item)
      /\ Len(Append(v, x)) = Len(v) + 1 /\ Len(Append(v, y)) = Len(v) + 1
      /\ DOMAIN Append(v, x) = 1..(Len(v) + 1)
      /\ (\A k \in 1..Len(v) : Append(v, x)[k] = v[k]) /\ Append(v, x)[Len(v) + 1] = x
      /\ (\A k \in 1..Len(v) : Append(v, y)[k] = v[k]) /\ Append(v, y)[Len(v) + 1] = y
      /\ Len(v) \in Nat
  BY <1>3, <1>5, OneMore
<1>7. Alike(Append(v, x), Append(v, y))
  <2>. DEFINE n == Len(v)
  <2>1. \A k \in 1..(n + 1) : k \in 1..n \/ k = n + 1
    BY <1>6
  <2>. HIDE DEF n
  <2>2. /\ DOMAIN Append(v, x) = 1..(n + 1)
        /\ (\A k \in 1..n : Append(v, x)[k] = Append(v, y)[k])
        /\ Append(v, x)[n + 1] = x /\ Append(v, y)[n + 1] = y
    BY <1>6 DEF n
  <2>3. ASSUME NEW k \in DOMAIN Append(v, x)
        PROVE  LET a == Append(v, x)[k]
                   b == Append(v, y)[k]
               IN  /\ a.id = b.id /\ a.kind = b.kind /\ a.calls = b.calls
                   /\ a.answers = b.answers /\ a.state = b.state /\ a.text = b.text
    BY <1>5, <2>1, <2>2
  <2>. QED
    BY <1>6, <2>3 DEF Alike
<1>8. Cost(Append(v, x)) = Cost(Append(v, y))
  <2>1. Project(Append(v, x)) = Project(Append(v, y))
    BY <1>6, <1>7, AlikeBuild
  <2>. QED
    BY <2>1 DEF Cost
<1>9. /\ req'.at = "marked" /\ req'.carried = req.carried /\ req'.retiring = req.retiring
      /\ req'.placed = {ctx.next} /\ req'.taken = req.taken /\ req'.touched = req.touched
      /\ req' \in RequestType
  BY <1>1, <1>2, <1>3 DEF RequestType, Places
<1>10. HandedOut \subseteq HandedOut' /\ ctx.next \in HandedOut'
  <2>. DEFINE n == ctx.next
  <2>. HIDE DEF n
  <2>1. n \in Nat \ {0}
    BY <1>3 DEF n
  <2>2. 1..(n - 1) \subseteq 1..((n + 1) - 1) /\ n \in 1..((n + 1) - 1)
    BY <2>1
  <2>. QED
    BY <1>4, <2>2 DEF HandedOut, n
<1>11. ReqTyped' /\ Holds'
  <2>1. machine' = machine
    BY <1>2 DEF Push, turn
  <2>. QED
    BY <1>1, <1>2, <1>9, <1>10, <2>1 DEF SInv, ReqTyped, Holds
<1>12. PlacedStands'
  <2>. DEFINE n == Len(v) + 1
  <2>1. n \in DOMAIN Append(v, x) /\ Append(v, x)[n] = x
    BY <1>6
  <2>. HIDE DEF n
  <2>2. n \in DOMAIN ctx'.items /\ ctx'.items[n] = x
    BY <1>4, <2>1
  <2>3. IsProjected(x.state)
    BY <1>5 DEF IsProjected
  <2>. QED
    BY <1>5, <1>9, <2>2, <2>3 DEF PlacedStands
<1>13. TakenStaysOut'
  <2>1. \A k \in DOMAIN v : v[k].id \in req.taken => v[k].state = "Excluded"
    BY <1>2 DEF SInv, TakenStaysOut, Preparing
  <2>2. ASSUME NEW k \in DOMAIN ctx'.items, ctx'.items[k].id \in req.taken
        PROVE  ctx'.items[k].state = "Excluded"
    <3>1. k \in DOMAIN v
      BY <1>1, <1>4, <2>2 DEF Steady
    <3>. QED
      BY <1>4, <2>1, <2>2, <3>1 DEF Steady
  <2>. QED
    BY <1>9, <2>2 DEF TakenStaysOut, Bare
<1>14. StillFits'
  <2>1. ~req.touched => ~Oversized(Cost(Append(v, y)))
    BY <1>2 DEF SInv, StillFits, Fits, y
  <2>2. ~req.touched => ~Oversized(Cost(ctx'.items))
    BY <1>4, <1>8, <2>1
  <2>. QED
    BY <1>9, <2>2 DEF StillFits, Oversized
<1>. QED
  BY <1>11, <1>12, <1>13, <1>14 DEF SInv

\* The notice goes out, every copy that was found.
LEMMA RetireKeepsSent ==
  ASSUME SInv, RInv', Retire
  PROVE  SInv'
<1>. DEFINE ids == req.retiring
            changes == Excluding(ids)
            v == ctx.items
<1>1. /\ req \in RequestType /\ full \in BOOLEAN /\ walked \in BOOLEAN
      /\ req.carried \cup ids \cup req.placed \cup req.taken \subseteq HandedOut
      /\ IInv /\ v \in Seq(Item) /\ Sorted(v) /\ ctx.next \in Nat
  BY Basics, Parts DEF SInv, ReqTyped, RInv, VersionsOf, VersionOK
<1>2. /\ req.at = "retiring" /\ full' = full /\ walked' = walked
      /\ req' = [req EXCEPT !.at = "marked", !.taken = req.taken \cup ids]
      /\ (Targets(changes) = {} /\ UNCHANGED vars) \/ SetStates(changes)
  BY DEF Retire, At, rest
<1>3. ids \in SUBSET Nat /\ IsFiniteSet(ids)
  <2>1. ids \subseteq HandedOut /\ HandedOut \subseteq Nat
    BY <1>1 DEF HandedOut
  <2>2. IsFiniteSet(HandedOut)
    <3>. DEFINE n == ctx.next - 1
    <3>1. 1 \in Int /\ n \in Int
      BY <1>1
    <3>. HIDE DEF n
    <3>2. IsFiniteSet(1..n)
      BY <3>1, FS_Interval
    <3>. QED
      BY <3>2 DEF HandedOut, n
  <2>. QED
    BY <2>1, <2>2, FS_Subset
<1>. DEFINE order == Ascending(ids)
<1>4. order \in Seq(ids) /\ ToSet(order) = ids
  BY <1>3, AscendingLists
<1>5. /\ DOMAIN changes = DOMAIN order
      /\ \A i \in DOMAIN order : changes[i] = [id |-> order[i], state |-> "Excluded", note |-> NoNote]
  BY DEF Excluding
<1>. HIDE DEF changes, order
<1>. DEFINE n == Len(order)
<1>6. n \in Nat /\ DOMAIN changes = 1..n
  BY <1>4, <1>5
<1>7. \A i \in DOMAIN changes : /\ changes[i].id = order[i] /\ changes[i].state = "Excluded"
                                /\ changes[i].note = NoNote
  BY <1>5
<1>8. {changes[i].id : i \in DOMAIN changes} = ids
  BY <1>4, <1>5, <1>7 DEF ToSet
<1>9. Targets(changes) \subseteq DOMAIN changes
  BY DEF Targets
<1>10. \A i \in Targets(changes) : changes[i].state \in States
                                    /\ changes[i].note \in Notes \cup Nat \cup {NoNote}
  BY <1>7, <1>9 DEF States
<1>. HIDE DEF n
<1>11. /\ Steady(ids) /\ ctx'.next = ctx.next /\ machine' = machine
       /\ \A k \in DOMAIN v :
            (\E i \in Targets(changes) : changes[i].id = v[k].id)
              => \E i \in Targets(changes) : /\ changes[i].id = v[k].id
                                             /\ ctx'.items[k].state = changes[i].state
       /\ \A k \in DOMAIN v :
            ~(\E i \in Targets(changes) : changes[i].id = v[k].id) => ctx'.items[k] = v[k]
  <2>1. CASE SetStates(changes)
    <3>1. machine' = machine
      BY <2>1 DEF SetStates, turn
    <3>2. IInv /\ n \in Nat /\ DOMAIN changes = 1..n /\ SetStates(changes)
      BY <1>1, <1>6, <2>1
    <3>3. Steady({changes[i].id : i \in DOMAIN changes})
      BY <3>2, <1>10, SetStatesSteady
    <3>4. Steady(ids)
      BY <1>8, <3>3
    <3>5. ctx'.next = ctx.next
      BY <3>2, <1>10, SetStatesSteady
    <3>6. \A k \in DOMAIN v :
            (\E i \in Targets(changes) : changes[i].id = v[k].id)
              => \E i \in Targets(changes) : /\ changes[i].id = v[k].id
                                             /\ ctx'.items[k].state = changes[i].state
      BY <3>2, <1>10, SetStatesSteady, ZenonT(60)
    <3>7. \A k \in DOMAIN v :
            ~(\E i \in Targets(changes) : changes[i].id = v[k].id) => ctx'.items[k] = v[k]
      BY <3>2, <1>10, SetStatesSteady
    <3>. QED
      BY <3>1, <3>4, <3>5, <3>6, <3>7
  <2>2. CASE Targets(changes) = {} /\ UNCHANGED vars
    <3>1. ctx' = ctx /\ machine' = machine
      BY <2>2 DEF vars
    <3>. HIDE DEF ids
    <3>2. Steady(ids)
      BY <1>1, <3>1 DEF Steady
    <3>. QED
      BY <2>2, <3>1, <3>2
  <2>. QED
    BY <1>2, <2>1, <2>2
<1>12. ASSUME NEW k \in DOMAIN ctx'.items, ctx'.items[k].id \in req.taken \cup ids
       PROVE  ctx'.items[k].state = "Excluded"
  <2>1. k \in DOMAIN v /\ ctx'.items[k].id = v[k].id
    BY <1>1, <1>11, <1>12 DEF Steady
  <2>2. CASE \E i \in Targets(changes) : changes[i].id = v[k].id
    <3>1. PICK i \in Targets(changes) : ctx'.items[k].state = changes[i].state
      BY <1>11, <2>1, <2>2
    <3>. QED
      BY <1>7, <1>9, <3>1
  <2>3. CASE ~(\E i \in Targets(changes) : changes[i].id = v[k].id)
    <3>1. ctx'.items[k] = v[k]
      BY <1>11, <2>1, <2>3
    <3>2. CASE v[k].id \in req.taken
      BY <1>2, <2>1, <3>1, <3>2 DEF SInv, TakenStaysOut, Preparing
    <3>3. CASE v[k].id \in ids
      <4>1. PICK i \in DOMAIN changes : changes[i].id = v[k].id
        BY <1>8, <3>3
      <4>2. v[k].id \in Ids(v)
        BY <2>1 DEF Ids
      <4>3. ~WouldChange(ctx, v[k].id, "Excluded", NoNote)
        BY <1>7, <2>3, <4>1 DEF Targets
      <4>4. ItemOf(v, v[k].id).state = "Excluded"
        BY <4>2, <4>3 DEF WouldChange
      <4>5. IndexOf(v, v[k].id) = k
        BY <1>1, <2>1, <4>2, IndexFinds, ListedOnce
      <4>. QED
        BY <3>1, <4>4, <4>5 DEF ItemOf
    <3>. QED
      BY <1>12, <2>1, <3>2, <3>3
  <2>. QED
    BY <2>2, <2>3
<1>13. /\ req'.at = "marked" /\ req'.carried = req.carried /\ req'.retiring = ids
       /\ req'.placed = {} /\ req'.taken = req.taken \cup ids /\ req' \in RequestType
  <2>1. req.placed = {}
    BY <1>2 DEF SInv, PlacedStands
  <2>. QED
    BY <1>1, <1>2, <2>1 DEF RequestType, Places
<1>14. ReqTyped' /\ Holds'
  <2>1. HandedOut' = HandedOut
    BY <1>11 DEF HandedOut
  <2>. QED
    BY <1>1, <1>2, <1>11, <1>13, <2>1 DEF SInv, ReqTyped, Holds
<1>15. PlacedStands' /\ StillFits'
  BY <1>13 DEF PlacedStands, StillFits
<1>16. TakenStaysOut'
  BY <1>12, <1>13 DEF TakenStaysOut, Bare
<1>. QED
  BY <1>14, <1>15, <1>16 DEF SInv

\* A plan, applied.
LEMMA ApplyPlanKeepsSent ==
  ASSUME SInv, RInv', NEW plan \in Brought, ApplyPlan(plan)
  PROVE  SInv'
<1>. DEFINE removing == Removing(ctx.items, plan, Carrying(ctx.items))
<1>1. /\ req \in RequestType /\ full \in BOOLEAN /\ walked \in BOOLEAN
      /\ req.carried \cup req.retiring \cup req.placed \cup req.taken \subseteq HandedOut /\ IInv
  BY DEF SInv, ReqTyped, RInv
<1>2. /\ req.at = "planning" /\ ApplyCompaction(plan) /\ full' = full /\ walked' = walked
      /\ req' = [req EXCEPT !.at = "planned", !.taken = removing] /\ machine' = machine
  BY DEF ApplyPlan, At, rest, ApplyCompaction, turn
<1>3. plan \in Plans
  BY RequestsAssumption DEF Brought, Plans
<1>4. ctx'.next \in Nat /\ ctx.next \in Nat /\ ctx.next <= ctx'.next
  BY <1>1, <1>2, <1>3, CompactionAdds
<1>5. HandedOut \subseteq HandedOut' /\ removing \subseteq HandedOut /\ HandedOut \subseteq Nat
  <2>1. removing \subseteq Carrying(ctx.items)
    BY DEF Removing
  <2>. QED
    BY <1>1, <1>4, <2>1, HandedOutGrows, CarriedHandedOut
<1>6. \A k \in DOMAIN ctx'.items : ctx'.items[k].id \in removing => ctx'.items[k].state = "Excluded"
  BY <1>1, <1>2, <1>3, CompactionTakesOut
<1>. HIDE DEF removing
<1>7. /\ req'.at = "planned" /\ req'.carried = req.carried /\ req'.retiring = req.retiring
      /\ req'.placed = {} /\ req'.taken = removing /\ req' \in RequestType
  <2>1. req.placed = {}
    BY <1>2 DEF SInv, PlacedStands
  <2>2. removing \in SUBSET Nat
    BY <1>5
  <2>. QED
    BY <1>1, <1>2, <2>1, <2>2 DEF RequestType, Places
<1>8. ReqTyped' /\ Holds'
  BY <1>1, <1>2, <1>5, <1>7 DEF SInv, ReqTyped, Holds
<1>9. PlacedStands' /\ StillFits'
  BY <1>7 DEF PlacedStands, StillFits
<1>10. TakenStaysOut'
  BY <1>6, <1>7 DEF TakenStaysOut, Bare
<1>. QED
  BY <1>8, <1>9, <1>10 DEF SInv

\* A request is sent: what is in it is what was decided on, and fits.
LEMMA AskKeepsSent ==
  ASSUME SInv, RInv', Ask
  PROVE  SInv'
<1>1. /\ full \in BOOLEAN /\ walked \in BOOLEAN /\ IInv
  BY DEF SInv, ReqTyped, RInv
<1>2. /\ machine' = "holding" /\ ctx' = ctx /\ full' = full /\ walked' = walked
      /\ req' = [[NoRequest EXCEPT !.carried = Carrying(ctx.items), !.cost = Cost(ctx.items)]
                   EXCEPT !.at = "built"]
  BY DEF Ask, Claim, rest, Built
<1>3. Carrying(ctx.items) \subseteq HandedOut /\ HandedOut \subseteq Nat /\ Cost(ctx.items) \in Nat
  BY <1>1, CarriedHandedOut
<1>4. /\ req'.at = "built" /\ req'.carried = Carrying(ctx.items) /\ req'.retiring = {}
      /\ req'.placed = {} /\ req'.taken = {} /\ req' \in RequestType
  BY <1>2, <1>3 DEF NoRequest, RequestType, Places
<1>5. HandedOut' = HandedOut
  BY <1>2 DEF HandedOut
<1>6. ReqTyped' /\ Holds'
  BY <1>1, <1>2, <1>3, <1>4, <1>5 DEF ReqTyped, Holds
<1>7. PlacedStands' /\ TakenStaysOut' /\ StillFits'
  BY <1>4 DEF PlacedStands, TakenStaysOut, StillFits, Preparing
<1>. QED
  BY <1>6, <1>7 DEF SInv

\* The number an item is given grows.
LEMMA RecordingGrows ==
  ASSUME IInv, NEW item \in Item, RecordFirst(item) \/ RecordNext(item)
  PROVE  ctx'.next \in Nat /\ ctx.next <= ctx'.next
<1>1. ctx.next \in Nat /\ ctx.next + 1 <= TopId /\ ctx \in ContextType
  BY Basics, Parts DEF RecordFirst, RecordNext, Room
<1>2. ctx'.next = SatInc(ctx.next)
  <2>1. CASE RecordFirst(item)
    <3>1. ctx' = Add(Checkpoint(ctx), item, counter) /\ Checkpoint(ctx).next = ctx.next
            /\ Checkpoint(ctx) \in ContextType
      BY <2>1, Basics DEF RecordFirst
    <3>. QED
      BY <3>1 DEF Add, ContextType
  <2>2. CASE RecordNext(item)
    <3>. DEFINE start == batch.taken
                f == FoldSince(ctx, start)
    <3>1. ctx' = Add(f, item, counter)
      BY <2>2 DEF RecordNext
    <3>2. ctx' = [f EXCEPT !.items = Append(f.items, [item EXCEPT !.id = f.next, !.priced = counter]),
                           !.next = SatInc(f.next)]
      BY <3>1 DEF Add
    <3>3. f.next = ctx.next /\ "next" \in DOMAIN f
      BY <1>1 DEF FoldSince, ContextType
    <3>. HIDE DEF f
    <3>. QED
      BY <3>2, <3>3
  <2>. QED
    BY <2>1, <2>2
<1>3. SatInc(ctx.next) = ctx.next + 1
  BY <1>1, TopAssumption DEF SatInc
<1>. QED
  BY <1>1, <1>2, <1>3

\* The rest of the step holds nothing of the request.
LEMMA FurtherKeepsSent ==
  ASSUME SInv, RInv', Further
  PROVE  SInv'
<1>1. /\ req \in RequestType /\ full \in BOOLEAN /\ walked \in BOOLEAN
      /\ req.carried \cup req.retiring \cup req.placed \cup req.taken \subseteq HandedOut /\ IInv
  BY DEF SInv, ReqTyped, RInv
<1>2. req.at = "recorded" /\ req' = req /\ full' = full /\ walked' = walked
  BY DEF Further, At, requests
<1>3. ctx'.next \in Nat /\ ctx.next \in Nat /\ ctx.next <= ctx'.next /\ machine' = machine
  <2>1. ctx.next \in Nat
    BY <1>1, Basics, Parts
  <2>2. CASE CloseBatch
    BY <2>1, <2>2 DEF CloseBatch
  <2>3. ASSUME NEW item \in Recordable, RecordFirst(item) \/ RecordNext(item)
        PROVE  ctx'.next \in Nat /\ ctx.next <= ctx'.next /\ machine' = machine
    <3>1. item \in Item
      BY KernelContextAssumption
    <3>2. machine' = machine
      BY <2>3 DEF RecordFirst, RecordNext
    <3>. QED
      BY <1>1, <2>3, <3>1, <3>2, RecordingGrows
  <2>. QED
    BY <2>1, <2>2, <2>3 DEF Further
<1>4. HandedOut \subseteq HandedOut'
  BY <1>3, HandedOutGrows
<1>5. ReqTyped' /\ Holds'
  BY <1>1, <1>2, <1>3, <1>4 DEF SInv, ReqTyped, Holds
<1>6. req.placed = {} /\ req.taken = {}
  BY <1>2 DEF SInv, PlacedStands, TakenStaysOut, Bare
<1>7. PlacedStands' /\ TakenStaysOut' /\ StillFits'
  BY <1>2, <1>6 DEF PlacedStands, TakenStaysOut, StillFits
<1>. QED
  BY <1>5, <1>7 DEF SInv

\* Every step of the kernel in a request.
LEMMA KernelKeepsSent ==
  ASSUME SInv, RInv', Kernel
  PROVE  SInv'
<1>1. /\ IInv /\ ctx.next \in Nat /\ full \in BOOLEAN /\ walked \in BOOLEAN
      /\ req.at # "no" => machine = "holding"
  BY Basics, Parts DEF SInv, RInv, ReqTyped, Holds
<1>2. CASE Consult \/ Send
  <2>1. /\ ctx' = ctx /\ machine' = machine /\ full' = full /\ walked' = walked
        /\ req.at \in {"built", "ready"}
    BY <1>2 DEF Consult, Send, At, vars, rest
  <2>2. \/ req' = [NoRequest EXCEPT !.at = "planning"] \/ req' = [NoRequest EXCEPT !.at = "out"]
    BY <1>2 DEF Consult, Send
  <2>. QED
    BY <1>1, <2>1, <2>2, BareKeeps
<1>3. CASE Refuse \/ GiveUp \/ Conclude
  <2>1. /\ ctx' = ctx /\ full' = full /\ walked' = walked /\ req' = NoRequest
    BY <1>3 DEF Refuse, GiveUp, Conclude, Abandon, Release, Finish, rest
  <2>2. NoRequest = [NoRequest EXCEPT !.at = "no"]
    BY DEF NoRequest
  <2>. QED
    BY <1>1, <2>1, <2>2, BareKeeps
<1>4. ASSUME NEW item \in Recordable, Record(item)
      PROVE  SInv'
  <2>1. /\ req' = [NoRequest EXCEPT !.at = "recorded"] /\ full' = full /\ walked' = walked
        /\ RecordFirst(item) /\ machine' = machine /\ req.at = "out" /\ item \in Item
    BY <1>4, KernelContextAssumption DEF Record, rest, RecordFirst, At
  <2>2. ctx'.next \in Nat /\ ctx.next <= ctx'.next
    BY <1>1, <2>1, RecordingGrows
  <2>. QED
    BY <1>1, <2>1, <2>2, BareKeeps
<1>5. CASE LeaveBe \/ NoPlan \/ BuildAgain \/ AsBefore \/ Mark \/ Look \/ Weigh \/ BuildLast
  <2>1. UNCHANGED vars
    BY <1>5 DEF LeaveBe, NoPlan, BuildAgain, AsBefore, Mark, Look, Weigh, BuildLast
  <2>. QED
    BY <1>5, <2>1, LookingKeeps
<1>. QED
  BY <1>2, <1>3, <1>4, <1>5, AskKeepsSent, ApplyPlanKeepsSent, PlaceKeepsSent, RetireKeepsSent,
     FurtherKeepsSent DEF Kernel

\* Every step of a request, and of the context under it.
LEMMA SentNext ==
  ASSUME SInv, [RequestsNext]_<<vars, requests>>
  PROVE  SInv'
<1>1. RInv'
  BY RequestsKeep DEF SInv
<1>2. CASE UNCHANGED <<vars, requests>>
  <2>1. UNCHANGED <<ctx, counter, machine, req, full, given, walked>>
    BY <1>2 DEF vars, requests
  <2>. QED
    BY <1>1, <2>1 DEF SInv, ReqTyped, Holds, PlacedStands, TakenStaysOut, StillFits, HandedOut, Fits
<1>. QED
  BY <1>1, <1>2, KernelKeepsSent, ClientsKeepSent DEF RequestsNext

\* What request.rs sends after `compacted`, wherever clients got in between: the notice
\* `mark_full` has just put in, unless somebody moved it; nothing the pass or the end of
\* the notice took out, unless somebody brought it back; and no request is too long
\* because of the notice, unless somebody changed the context after it was weighed.
THEOREM RequestsAreSentAsLeft == RequestsSpec => []SentAsLeft
<1>1. RequestsInit => SInv
  <2>. SUFFICES ASSUME RequestsInit PROVE SInv
    OBVIOUS
  <2>1. RInv
    BY RequestsInitHolds
  <2>2. /\ req = NoRequest /\ full = FALSE /\ walked = FALSE
    BY DEF RequestsInit
  <2>3. ReqTyped /\ Holds
    BY <2>2 DEF NoRequest, ReqTyped, RequestType, Places, Holds
  <2>4. PlacedStands /\ TakenStaysOut /\ StillFits
    BY <2>2 DEF NoRequest, PlacedStands, TakenStaysOut, StillFits, Preparing
  <2>. QED
    BY <2>1, <2>3, <2>4 DEF SInv
<1>2. SInv /\ [RequestsNext]_<<vars, requests>> => SInv'
  BY SentNext
<1>3. SInv => SentAsLeft
  <2>. SUFFICES ASSUME SInv PROVE SentAsLeft
    OBVIOUS
  <2>1. /\ req \in RequestType /\ full \in BOOLEAN /\ walked \in BOOLEAN
        /\ req.carried \cup req.retiring \cup req.placed \cup req.taken \subseteq HandedOut
        /\ WordsOK /\ rewrite \in RewriteType
    BY DEF SInv, ReqTyped, RInv
  <2>2. HandedOut \subseteq 1..TopId
    <3>. DEFINE n == ctx.next
    <3>1. n \in Nat /\ n <= TopId
      BY Basics, Parts DEF SInv, RInv, IInv, TurnOK
    <3>. HIDE DEF n
    <3>2. 1..(n - 1) \subseteq 1..TopId
      BY <3>1, TopAssumption
    <3>. QED
      BY <3>2 DEF HandedOut, n
  <2>3. RequestsTypeOK
    <3>1. req.at \in Places /\ req.cost \in Nat /\ {req.full, req.touched} \subseteq BOOLEAN
      BY <2>1 DEF RequestType
    <3>2. \A ids \in {req.carried, req.placed, req.taken, req.retiring} : ids \subseteq 1..TopId
      BY <2>1, <2>2
    <3>3. {notice, given, rewrite.to} \subseteq Wordings /\ rewrite.at \in {"no", "replacing"}
      BY <2>1 DEF WordsOK, RewriteType
    <3>. QED
      BY <2>1, <3>1, <3>2, <3>3 DEF RequestsTypeOK
  <2>4. At("ready") =>
          /\ req.placed \subseteq req.carried /\ req.taken \cap req.carried = {}
          /\ req.placed # {} /\ ~req.touched => ~Oversized(req.cost)
    BY DEF SInv, PlacedStands, TakenStaysOut, StillFits, At
  <2>. QED
    BY <2>3, <2>4 DEF SentAsLeft
<1>. QED
  BY <1>1, <1>2, <1>3, PTL DEF RequestsSpec

=============================================================================
