---------------------------- MODULE KernelContext ----------------------------
(***************************************************************************)
(* What a kernel lets its callers do to its context                        *)
(* (nachalnik/src/kernel/context.rs, and the parts of kernel/mod.rs and    *)
(* kernel/components.rs that add items and swap the token counter).        *)
(*                                                                         *)
(* Every operation holds the context lock from its first look to its last  *)
(* change, so each is one action, and any of them can fall between any two *)
(* others: clients, tools and the compactor call them while a turn runs.   *)
(* The turn itself is here only as far as the context notices it: whether  *)
(* the machine holds calls (which refuses undo and redo), the answer that  *)
(* State::Finished names, and the Batch through which a turn records.      *)
(* Machine has the rest of it.                                             *)
(***************************************************************************)
EXTENDS Projection

CONSTANTS
  Pushable,    \* the items a client pushes, and a compactor's summaries
  Recordable,  \* the items the kernel itself records in a turn
  Together,    \* how many items one push_all is given, at most
  Named,       \* how many changes one set_states is given, at most
  MoveTo,      \* the states a client moves items to
  Planned,     \* bound: the items a compaction plan may name
  Reason,      \* the note a compaction pass writes
  MaxTaken,    \* bound: checkpoints counted by Context::taken
  MaxSwaps     \* bound: set_counter calls between their swap and their recount

ASSUME KernelContextAssumption ==
  /\ \A item \in Pushable \cup Recordable : item \in Item
  /\ Together \in Nat /\ Named \in Nat /\ MaxTaken \in Nat /\ MaxSwaps \in Nat
  /\ MoveTo \subseteq States /\ Planned \subseteq Nat
  /\ Reason \in Notes

VARIABLES
  ctx,       \* the context: see Context
  counter,   \* the token counter installed
  swapping,  \* how many set_counter calls have swapped and not yet recounted
  machine,   \* "resting", or "holding" calls: Requesting, Deciding, Ready, Executing
  finished,  \* the item State::Finished names, or 0 in every other state
  batch,     \* the Batch being recorded into: its checkpoint, and its items so far
  groups,    \* history: the items of every operation that was to be undone whole
  told       \* history: the items a reader of the event stream takes to be listed

vars == <<ctx, counter, swapping, machine, finished, batch, groups, told>>
turn == <<machine, finished, batch>>
scale == <<counter, swapping>>

NoBatch == [open |-> FALSE, taken |-> 0, ids |-> {}]

Listed == Ids(ctx.items)
NewIds(n) == ctx.next .. (ctx.next + n - 1)

\* Room for n more items: identifiers stop at TopId, which no kernel that counted
\* from 1 gets to, and no operation here is asked for one more.
Room(n) == ctx.next + n <= TopId

\* The bound on checkpoints.
MayCheckpoint == ctx.taken < MaxTaken

Init ==
  /\ ctx = NewContext
  /\ counter \in Counters
  /\ swapping = 0
  /\ machine = "resting"
  /\ finished = 0
  /\ batch = NoBatch
  /\ groups = {}
  /\ told = {}

---------------------------------------------------------------------------
(* Adding items.                                                           *)

\* Kernel::push.
Push(item) ==
  /\ Room(1) /\ MayCheckpoint
  /\ ctx' = Add(Checkpoint(ctx), item, counter)
  /\ told' = told \cup NewIds(1)
  /\ UNCHANGED <<turn, scale, groups>>

\* Kernel::push_all: one checkpoint for all of them; an empty set of items
\* returns before anything.
PushAll(items) ==
  /\ items # <<>> /\ Room(Len(items)) /\ MayCheckpoint
  /\ ctx' = AddAll(Checkpoint(ctx), items, counter)
  /\ told' = told \cup NewIds(Len(items))
  /\ groups' = groups \cup {NewIds(Len(items))}
  /\ UNCHANGED <<turn, scale>>

\* Kernel::supersede: the note names the new item, so no two are the same.
Supersede(old, item) ==
  /\ old \in Listed /\ Room(1) /\ MayCheckpoint
  /\ ctx' = SetState(Add(Checkpoint(ctx), item, counter), old, "Excluded", ctx.next)
  /\ told' = told \cup NewIds(1)
  /\ UNCHANGED <<turn, scale, groups>>

---------------------------------------------------------------------------
(* Changing items.                                                         *)

\* The changes, by position, that would change anything.
Targets(changes) ==
  {i \in DOMAIN changes :
     WouldChange(ctx, changes[i].id, changes[i].state, changes[i].note)}

\* Wrong form of SetStates: an operation that changes nothing takes a checkpoint
\* all the same.
SetStatesRegardless(changes) ==
  /\ MayCheckpoint
  /\ ctx' = SetAll(Checkpoint(ctx), changes, Targets(changes))
  /\ UNCHANGED <<turn, scale, groups, told>>

\* Kernel::set_state and Kernel::set_states: which changes would change anything
\* is asked of the context as it was, before the first of them is made.
SetStates(changes) ==
  /\ Targets(changes) # {} /\ MayCheckpoint
  /\ ctx' = SetAll(Checkpoint(ctx), changes, Targets(changes))
  /\ UNCHANGED <<turn, scale, groups, told>>

\* Kernel::replace.
ReplaceItem(id, text) ==
  /\ id \in Listed /\ ItemOf(ctx.items, id).text # text /\ MayCheckpoint
  /\ ctx' = Replace(Checkpoint(ctx), id, text, counter)
  /\ UNCHANGED <<turn, scale, groups, told>>

\* Kernel::annotate.
AnnotateItem(id, meta) ==
  /\ id \in Listed
  /\ ctx' = Annotate(ctx, id, meta)
  /\ UNCHANGED <<turn, scale, groups, told>>

---------------------------------------------------------------------------
(* Compaction.                                                             *)

\* The calls of pinned items the request carries: a pair goes out together or
\* not at all, so taking the other half would take the pinned one too.
PinnedCalls(items, carrying) ==
  UNION {NamedCalls(items[k]) :
           k \in {j \in DOMAIN items : items[j].state = "Pinned" /\ items[j].id \in carrying}}

\* Wrong form of Removing: only the pinned item itself is spared.
RemovingPairs(items, plan, carrying) ==
  {id \in plan.remove \cap Ids(items) \cap carrying : ItemOf(items, id).state # "Pinned"}

\* What a pass takes out of the request.
Removing(items, plan, carrying) ==
  {id \in plan.remove \cap Ids(items) \cap carrying :
     /\ ItemOf(items, id).state # "Pinned"
     /\ NamedCalls(ItemOf(items, id)) \cap PinnedCalls(items, carrying) = {}}

\* What it leaves as a marker; removal wins over elision.
Eliding(items, plan, carrying) ==
  {id \in (plan.elide \cap Ids(items) \cap carrying) \ Removing(items, plan, carrying) :
     ItemOf(items, id).state \notin {"Pinned", "Elided"}}

\* The items as the pass leaves them, but for the summary.
Compacted(items, plan) ==
  LET carrying == Carrying(items)
      removing == Removing(items, plan, carrying)
      eliding  == Eliding(items, plan, carrying)
  IN  [k \in DOMAIN items |->
         IF items[k].id \in removing
         THEN [items[k] EXCEPT !.state = "Excluded", !.note = Reason]
         ELSE IF items[k].id \in eliding
         THEN [items[k] EXCEPT !.state = "Elided", !.note = Reason]
         ELSE items[k]]

Moves(items, plan) ==
  LET carrying == Carrying(items)
  IN  Removing(items, plan, carrying) \cup Eliding(items, plan, carrying) # {}

\* Kernel::apply_compaction, where the plan moves anything: a pass that moves
\* nothing takes no checkpoint and adds no summary.
ApplyCompaction(plan) ==
  /\ Moves(ctx.items, plan) /\ MayCheckpoint /\ Room(Len(plan.summary))
  /\ ctx' = AddAll([Checkpoint(ctx) EXCEPT !.items = Compacted(ctx.items, plan)],
                   plan.summary, counter)
  /\ told' = told \cup NewIds(Len(plan.summary))
  /\ UNCHANGED <<turn, scale, groups>>

---------------------------------------------------------------------------
(* Going back and forth.                                                   *)

\* Wrong form of Undo: the figures of what comes back are left as they were.
UndoUncounted ==
  /\ machine = "resting" /\ ctx.undo # <<>>
  /\ ctx' = Undone(ctx)
  /\ told' = told \ (Listed \ Ids(ctx'.items))
  /\ finished' = IF finished \in Listed \ Ids(ctx'.items) THEN 0 ELSE finished
  /\ UNCHANGED <<machine, batch, scale, groups>>

\* Kernel::undo (`walk(true)`): refused while the machine holds calls.  It tells
\* what it took away and what it changed, and nothing of what it brought back.
Undo ==
  /\ machine = "resting" /\ ctx.undo # <<>>
  /\ ctx' = Recounted(Undone(ctx), counter)
  /\ told' = told \ (Listed \ Ids(ctx'.items))
  /\ finished' = IF finished \in Listed \ Ids(ctx'.items) THEN 0 ELSE finished
  /\ UNCHANGED <<machine, batch, scale, groups>>

\* Kernel::redo (`walk(false)`): it tells what it brought back.
Redo ==
  /\ machine = "resting" /\ ctx.redo # <<>>
  /\ ctx' = Recounted(Redone(ctx), counter)
  /\ told' = told \cup (Ids(ctx'.items) \ Listed)
  /\ UNCHANGED <<turn, scale, groups>>

---------------------------------------------------------------------------
(* Counting.                                                               *)

\* Kernel::recount.
Recount ==
  /\ ctx' = Recounted(ctx, counter)
  /\ UNCHANGED <<turn, scale, groups, told>>

\* Kernel::set_counter swaps under the counter's lock, lets go, and only then
\* recounts: two steps, with room for anything between them.
SwapCounter(to) ==
  /\ swapping < MaxSwaps
  /\ counter' = to
  /\ swapping' = swapping + 1
  /\ UNCHANGED <<ctx, turn, groups, told>>

RecountAfterSwap ==
  /\ swapping > 0
  /\ ctx' = Recounted(ctx, counter)
  /\ swapping' = swapping - 1
  /\ UNCHANGED <<counter, turn, groups, told>>

---------------------------------------------------------------------------
(* A turn, as the context sees it.                                         *)

\* A step claims the machine.
Claim ==
  /\ machine = "resting"
  /\ machine' = "holding"
  /\ finished' = 0
  /\ UNCHANGED <<ctx, batch, scale, groups, told>>

\* Kernel::add_in, the first item of a batch: it takes the checkpoint and writes
\* down its number under the same lock.
RecordFirst(item) ==
  /\ machine = "holding" /\ ~batch.open /\ Room(1) /\ MayCheckpoint
  /\ ctx' = Add(Checkpoint(ctx), item, counter)
  /\ batch' = [open |-> TRUE, taken |-> ctx'.taken, ids |-> NewIds(1)]
  /\ told' = told \cup NewIds(1)
  /\ UNCHANGED <<machine, finished, scale, groups>>

\* Wrong form of RecordNext: each item of a batch is an operation of its own.
RecordApart(item) ==
  /\ machine = "holding" /\ batch.open /\ Room(1) /\ MayCheckpoint
  /\ ctx' = Add(Checkpoint(ctx), item, counter)
  /\ batch' = [batch EXCEPT !.ids = @ \cup NewIds(1)]
  /\ told' = told \cup NewIds(1)
  /\ UNCHANGED <<machine, finished, scale, groups>>

\* Kernel::add_in, every later one: whatever was checkpointed since becomes part
\* of the batch.
RecordNext(item) ==
  /\ machine = "holding" /\ batch.open /\ Room(1)
  /\ ctx' = Add(FoldSince(ctx, batch.taken), item, counter)
  /\ batch' = [batch EXCEPT !.ids = @ \cup NewIds(1)]
  /\ told' = told \cup NewIds(1)
  /\ UNCHANGED <<machine, finished, scale, groups>>

\* The calls a turn asked for are queued, or all their results are recorded: the
\* batch is complete.
CloseBatch ==
  /\ batch.open
  /\ batch' = NoBatch
  /\ groups' = groups \cup {batch.ids}
  /\ UNCHANGED <<ctx, machine, finished, scale, told>>

\* The machine comes to rest with nothing to run.
Release ==
  /\ machine = "holding" /\ ~batch.open
  /\ machine' = "resting"
  /\ UNCHANGED <<ctx, finished, batch, scale, groups, told>>

\* The turn asked for nothing: its one item is the answer State::Finished names.
Finish(answer) ==
  /\ machine = "holding" /\ batch.open /\ batch.ids = {answer}
  /\ finished' = answer
  /\ machine' = "resting"
  /\ batch' = NoBatch
  /\ groups' = groups \cup {batch.ids}
  /\ UNCHANGED <<ctx, scale, told>>

\* `Restore`: the future driving the turn failed or was dropped, wherever it was;
\* what it had recorded stays.
Abandon ==
  /\ machine = "holding"
  /\ machine' = "resting"
  /\ batch' = NoBatch
  /\ groups' = IF batch.open THEN groups \cup {batch.ids} ELSE groups
  /\ UNCHANGED <<ctx, finished, scale, told>>

---------------------------------------------------------------------------
Change == [id : 1..TopId, state : MoveTo, note : Notes \cup {NoNote}]
Changes == UNION {[1..n -> Change] : n \in 1..Named}
Plans == [remove : SUBSET Planned, elide : SUBSET Planned,
          summary : {<<>>} \cup {<<item>> : item \in Pushable}]

Next ==
  \/ \E item \in Pushable : Push(item)
  \/ \E n \in 1..Together : \E items \in [1..n -> Pushable] : PushAll(items)
  \/ \E old \in Listed, item \in Pushable : Supersede(old, item)
  \/ \E changes \in Changes : SetStates(changes)
  \/ \E id \in Listed, text \in Texts : ReplaceItem(id, text)
  \/ \E id \in Listed, meta \in Metas : AnnotateItem(id, meta)
  \/ \E plan \in Plans : ApplyCompaction(plan)
  \/ Undo
  \/ Redo
  \/ Recount
  \/ \E to \in Counters : SwapCounter(to)
  \/ RecountAfterSwap
  \/ Claim
  \/ \E item \in Recordable : RecordFirst(item)
  \/ \E item \in Recordable : RecordNext(item)
  \/ CloseBatch
  \/ Release
  \/ \E answer \in batch.ids : Finish(answer)
  \/ Abandon

Spec == Init /\ [][Next]_vars

---------------------------------------------------------------------------
(* What must hold.                                                         *)

\* The versions an undo goes back to, the oldest first, and the one there is;
\* and the ones a redo goes on to, the latest first.
Before == Append(ctx.undo, ctx.items)
After == Append(ctx.redo, ctx.items)
Versions == VersionsOf(ctx)

\* Types; and every identifier anywhere in the history has been handed out.
TypeOK ==
  /\ ctx.next \in 1..TopId /\ ctx.taken \in 0..MaxTaken
  /\ \A items \in Versions : \A k \in DOMAIN items :
       items[k] \in Item /\ items[k].id \in 1..(ctx.next - 1)
  /\ counter \in Counters /\ swapping \in 0..MaxSwaps
  /\ machine \in {"resting", "holding"} /\ finished \in Nat
  /\ batch \in [open : BOOLEAN, taken : 0..MaxTaken, ids : SUBSET (1..TopId)]
  /\ groups \subseteq SUBSET (1..TopId) /\ told \subseteq 1..TopId

\* The whole history, both ways together, is never longer than it was configured
\* to be: undoing and redoing only moves versions from one stack to the other.
HistoryBounded == Len(ctx.undo) + Len(ctx.redo) <= UndoDepth

\* index_of is a binary search: every version it can meet is in strict order.
AlwaysSorted == \A items \in Versions : Sorted(items)

\* Someone who only reads the events, and believes them, has exactly the items
\* there are: an undo never brings an item back and a redo never takes one away,
\* so that the one list each of the two events carries says everything.
LogTellsItems == told = Listed

\* An identifier that has left the history for good is never given to another
\* item: whatever turns up in any version is new or was known.
NeverReused ==
  [][LET known(c) == UNION {Ids(items) : items \in VersionsOf(c)}
     IN  known(ctx') \ known(ctx) \subseteq ctx.next .. TopId]_vars

\* What was one operation - the files of one push_all, a turn's items, the results
\* of its calls - is in every version whole or not at all, so that no number of
\* undos and redos stops in the middle of it, whatever was done to the context
\* while the batch was being recorded.
GroupsWhole ==
  \A group \in groups, items \in Versions :
    group \subseteq Ids(items) \/ group \cap Ids(items) = {}

\* An undo always changes something to see: no operation spends a checkpoint to
\* leave the items as they are.
NoEmptyUndo ==
  LET seen(items) == [k \in DOMAIN items |-> [items[k] EXCEPT !.meta = {}, !.priced = {}]]
  IN  /\ \A k \in DOMAIN ctx.undo : seen(Before[k]) # seen(Before[k + 1])
      /\ \A k \in DOMAIN ctx.redo : seen(After[k]) # seen(After[k + 1])

\* As long as something can be redone, nothing but the undo and redo themselves
\* has touched the items since - the figures a counter gave them excepted - so
\* that a redo never writes over later work, metadata included.
RedoOverwritesNothing ==
  [][LET worth(items) == [k \in DOMAIN items |-> [items[k] EXCEPT !.priced = {}]]
     IN  ctx'.redo # <<>> /\ ctx'.redo = ctx.redo
           => worth(ctx'.items) = worth(ctx.items)]_vars

\* Every figure in the list is the installed counter's, whoever swapped it, in
\* whatever order, and whatever came back from the history meanwhile - except
\* while a swap has yet to recount.
FiguresInForce ==
  swapping = 0 => \A k \in DOMAIN ctx.items : ctx.items[k].priced = counter

\* The answer the machine names is in the list.
AnswerListed == finished # 0 => finished \in Listed

\* While a turn is being recorded, the items recorded so far stay: no undo takes
\* away what the machine is acting on.
BatchListed == batch.ids \subseteq Listed

\* "an item named twice is moved twice, in order, and ends in the second state"
\* (the documentation of set_states).
SecondStateStands ==
  [][\A first, second \in Change :
       /\ first.id = second.id /\ first.id \in Listed
       /\ SetStates(<<first, second>>)
       => ItemOf(ctx'.items, first.id).state = second.state]_vars

---------------------------------------------------------------------------
(* The inductive invariant.                                                *)

\* Of the versions an undo goes back to, those from before the batch have none
\* of its items and those checkpointed since its last item have all of them: what
\* fold_since counts on.
BatchSplitsHistory ==
  batch.open =>
    LET since == ctx.taken - batch.taken
    IN  /\ ctx.redo = <<>>
        /\ machine = "holding"
        /\ since >= 0
        /\ \A k \in DOMAIN ctx.undo :
             IF k <= Len(ctx.undo) - since THEN batch.ids \cap Ids(ctx.undo[k]) = {}
             ELSE batch.ids \subseteq Ids(ctx.undo[k])

TurnOK ==
  /\ ctx.next <= TopId
  /\ counter \in Counters
  /\ batch \in [open : BOOLEAN, taken : Nat, ids : SUBSET Nat]
  /\ batch.open \/ batch = NoBatch

GroupsKnown == \A group \in groups : group \subseteq 1..(ctx.next - 1)

IInv ==
  /\ WellFormed(ctx) /\ TurnOK /\ GroupsKnown
  /\ GroupsWhole /\ BatchListed /\ BatchSplitsHistory
  /\ LogTellsItems /\ AnswerListed
=============================================================================
