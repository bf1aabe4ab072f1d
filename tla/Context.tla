------------------------------ MODULE Context ------------------------------
(***************************************************************************)
(* The context of nachalnik (nachalnik/src/context/mod.rs): the list of    *)
(* items a request is projected from, and the two stacks of earlier and    *)
(* undone versions of that list.  This module is the data structure alone: *)
(* operators on a record                                                   *)
(*                                                                         *)
(*    [items, undo, redo, next, taken]                                     *)
(*                                                                         *)
(* KernelContext drives it, as `Kernel` drives `Context` in the code.      *)
(*                                                                         *)
(* An item is a record.  Its content is one of a few Texts, its metadata   *)
(* one of a few Metas, its note one of a few Notes (or a number, for the   *)
(* note that names the item that replaced it); `priced` is the counter     *)
(* that produced the two figures the code keeps on an item (`tokens` and   *)
(* `uncounted`, always written together by `measure`).                     *)
(***************************************************************************)
EXTENDS Integers, SequencesExt

CONSTANTS
  UndoDepth,   \* Config::context_undo_depth
  TopId,       \* the largest identifier there is: u64::MAX
  Calls,       \* tool call identifiers
  NoCall,      \* an item that is no tool result answers no call
  Texts,       \* what an item may say
  Metas,       \* what metadata an item may carry
  Notes,       \* notes explaining a state
  NoNote,      \* Option::None for a note
  Counters     \* the token counters a client may install

ASSUME DepthAssumption == UndoDepth \in Nat
ASSUME TopAssumption == TopId \in Nat \ {0}

States == {"Active", "Excluded", "Pinned", "Elided"}
Kinds == {"plain", "assistant", "result"}

\* A result answers a call.
Item ==
  {item \in [id: Nat, kind: Kinds, calls: Seq(Calls), answers: Calls \cup {NoCall},
            state: States, note: Notes \cup Nat \cup {NoNote}, text: Texts, meta: Metas,
            priced: Counters] :
     item.kind = "result" => item.answers \in Calls}

\* ContextState::is_projected and ContextState::sends_content.
IsProjected(state) == state \in {"Active", "Pinned", "Elided"}
SendsContent(state) == IsProjected(state) /\ state # "Elided"

Ids(items) == {items[k].id : k \in DOMAIN items}

\* Context::index_of: the position a binary search finds, which is the only
\* one because the items are sorted by identifier (see Sorted).
IndexOf(items, id) == CHOOSE k \in DOMAIN items : items[k].id = id
ItemOf(items, id) == items[IndexOf(items, id)]

\* What index_of relies on: strictly increasing identifiers.
Sorted(items) ==
  \A i, j \in DOMAIN items : i < j => items[i].id < items[j].id

\* u64::saturating_add(1).
SatInc(n) == IF n < TopId THEN n + 1 ELSE TopId

\* Every list of items a context can still show: the one there is, those an undo
\* goes back to and those a redo goes on to.
VersionsOf(c) == {c.items} \cup ToSet(c.undo) \cup ToSet(c.redo)

NewContext == [items |-> <<>>, undo |-> <<>>, redo |-> <<>>, next |-> 1, taken |-> 0]

---------------------------------------------------------------------------
(* Every change of the items, in the order of the source.                  *)

\* Wrong form of Add: the identifier is one past the last item still listed,
\* instead of a number kept apart that never goes back.
AddPastTheLast(c, item, counter) ==
  LET id == IF c.items = <<>> THEN 1 ELSE c.items[Len(c.items)].id + 1
  IN  [c EXCEPT !.items = Append(@, [item EXCEPT !.id = id, !.priced = counter]),
                !.next = id + 1]

\* Context::add, with `measure`.
Add(c, item, counter) ==
  [c EXCEPT !.items = Append(@, [item EXCEPT !.id = c.next, !.priced = counter]),
            !.next = SatInc(@)]

\* A run of `add` calls under one lock.
AddAll(c, new, counter) ==
  [c EXCEPT !.items = @ \o [k \in DOMAIN new |->
                              [new[k] EXCEPT !.id = c.next + k - 1, !.priced = counter]],
            !.next = @ + Len(new)]

\* Context::would_change: the note counts as much as the state.
WouldChange(c, id, state, note) ==
  /\ id \in Ids(c.items)
  /\ \/ ItemOf(c.items, id).state # state
     \/ ItemOf(c.items, id).note # note

\* Context::set_state; a change that changes nothing leaves the context alone.
SetState(c, id, state, note) ==
  IF WouldChange(c, id, state, note)
  THEN [c EXCEPT !.items[IndexOf(c.items, id)] =
                   [@ EXCEPT !.state = state, !.note = note]]
  ELSE c

\* A run of set_state calls, one for each of the positions `targets` of a list of
\* changes [id, state, note], in order: an item ends as the last one that names it
\* says.
SetAll(c, changes, targets) ==
  LET last(id) == {i \in targets : /\ changes[i].id = id
                                   /\ \A j \in targets : changes[j].id = id => j <= i}
      moved(item) == LET i == CHOOSE i \in last(item.id) : TRUE
                     IN  [item EXCEPT !.state = changes[i].state, !.note = changes[i].note]
  IN  [c EXCEPT !.items = [k \in DOMAIN c.items |->
                             IF last(c.items[k].id) = {} THEN c.items[k]
                             ELSE moved(c.items[k])]]

\* Context::replace, in place, measured by the counter.
Replace(c, id, text, counter) ==
  [c EXCEPT !.items[IndexOf(c.items, id)] =
              [@ EXCEPT !.text = text, !.priced = counter]]

\* Wrong form of Annotate: what a redo could put back survives new work.
AnnotateKeepsRedo(c, id, meta) ==
  IF ItemOf(c.items, id).meta = meta THEN c
  ELSE [c EXCEPT !.items[IndexOf(c.items, id)] = [@ EXCEPT !.meta = meta]]

\* Context::annotate: no checkpoint, but still new work, so the redo stack goes.
Annotate(c, id, meta) ==
  IF ItemOf(c.items, id).meta = meta THEN c
  ELSE [c EXCEPT !.items[IndexOf(c.items, id)] = [@ EXCEPT !.meta = meta],
                 !.redo = <<>>]

\* Context::recount: every item is priced by this counter.
Recounted(c, counter) ==
  [c EXCEPT !.items = [k \in DOMAIN @ |-> [@[k] EXCEPT !.priced = counter]]]

---------------------------------------------------------------------------
(* The history.                                                            *)

\* Wrong form of Checkpoint: a new operation leaves the undone future reachable.
CheckpointKeepsRedo(c) ==
  [c EXCEPT !.taken = @ + 1,
            !.undo = IF UndoDepth = 0 THEN @
                     ELSE Append(IF Len(@) = UndoDepth THEN Tail(@) ELSE @, c.items)]

\* Context::checkpoint.
Checkpoint(c) ==
  [c EXCEPT !.redo = <<>>,
            !.taken = @ + 1,
            !.undo = IF UndoDepth = 0 THEN @
                     ELSE Append(IF Len(@) = UndoDepth THEN Tail(@) ELSE @, c.items)]

\* Context::undo, where there is something to undo.
Undone(c) ==
  LET redo == Append(c.redo, c.items)
  IN  [c EXCEPT !.items = Last(c.undo),
                !.undo = Front(@),
                !.redo = IF Len(redo) > UndoDepth THEN Tail(redo) ELSE redo]

\* Context::redo, where there is something to redo.
Redone(c) ==
  [c EXCEPT !.items = Last(c.redo),
            !.redo = Front(@),
            !.undo = IF UndoDepth = 0 THEN @
                     ELSE Append(IF Len(@) = UndoDepth THEN Tail(@) ELSE @, c.items)]

\* Wrong form of FoldSince: the later checkpoints stay.
FoldNothing(c, taken) == [c EXCEPT !.taken = taken]

\* Context::fold_since: pop what was checkpointed after `taken`, as far as it
\* is still there.
FoldSince(c, taken) ==
  LET since == IF c.taken > taken THEN c.taken - taken ELSE 0
      left  == IF Len(c.undo) > since THEN Len(c.undo) - since ELSE 0
  IN  [c EXCEPT !.undo = SubSeq(@, 1, left), !.taken = taken]

---------------------------------------------------------------------------
(* A context that is taken from a snapshot.                                *)

\* u64::saturating_add(m).
SatAdd(n, m) == IF n + m < TopId THEN n + m ELSE TopId

\* The members of a set in a strict order, given as the pairs in it: each has as
\* many before it as its place says.
InOrder(S, before) ==
  [n \in 1..Cardinality(S) |-> CHOOSE x \in S : Cardinality({y \in S : <<y, x>> \in before}) = n - 1]

\* A set of numbers from the least on.
Ascending(S) == InOrder(S, {pair \in S \X S : pair[1] < pair[2]})

\* Vec::sort_by_key on identifiers, which leaves equals as they were.
ById(items) ==
  LET Before(j, k) == items[j].id < items[k].id \/ (items[j].id = items[k].id /\ j < k)
      before == {pair \in (DOMAIN items) \X (DOMAIN items) : Before(pair[1], pair[2])}
      order == InOrder(DOMAIN items, before)
  IN  [k \in DOMAIN items |-> items[order[k]]]

\* Wrong form of Restored: the number to hand out next is taken as it is written.
RestoredAsWritten(items, next, counter) ==
  [NewContext EXCEPT !.items = [k \in DOMAIN items |-> [ById(items)[k] EXCEPT !.priced = counter]],
                     !.next = next]

\* Context::restore: in order of identifiers, an identifier that is 0 or taken
\* giving way to the next free one, and no history.
Restored(items, next, counter) ==
  LET sorted == ById(items)
      free == Max({next, 1} \cup {SatInc(sorted[k].id) : k \in DOMAIN sorted})
      renumbered == {k \in DOMAIN sorted :
                       sorted[k].id = 0 \/ \E j \in 1..(k - 1) : sorted[j].id = sorted[k].id}
      number(k) == IF k \in renumbered
                   THEN SatAdd(free, Cardinality({j \in renumbered : j < k}))
                   ELSE sorted[k].id
  IN  [NewContext EXCEPT
         !.items = ById([k \in DOMAIN sorted |->
                           [sorted[k] EXCEPT !.id = number(k), !.priced = counter]]),
         !.next = SatAdd(free, Cardinality(renumbered))]

---------------------------------------------------------------------------
(* What every context keeps.                                               *)

ContextType == [items : Seq(Item), undo : Seq(Seq(Item)), redo : Seq(Seq(Item)),
                next : Nat \ {0}, taken : Nat]

\* A version lists identifiers in strict order, and only ones handed out.
VersionOK(items, next) == Sorted(items) /\ \A k \in DOMAIN items : items[k].id \in 1..(next - 1)

\* From the oldest version an undo reaches to the last a redo reaches, the items
\* listed only become more.
Growing(undo, items, redo) ==
  /\ \A i, j \in DOMAIN undo : i <= j => Ids(undo[i]) \subseteq Ids(undo[j])
  /\ \A i \in DOMAIN undo : Ids(undo[i]) \subseteq Ids(items)
  /\ \A i \in DOMAIN redo : Ids(items) \subseteq Ids(redo[i])
  /\ \A i, j \in DOMAIN redo : i <= j => Ids(redo[j]) \subseteq Ids(redo[i])

WellFormed(c) ==
  /\ c \in ContextType
  /\ \A items \in VersionsOf(c) : VersionOK(items, c.next)
  /\ Growing(c.undo, c.items, c.redo)
  /\ Len(c.undo) + Len(c.redo) <= UndoDepth
=============================================================================
