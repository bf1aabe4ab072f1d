------------------------------ MODULE Sessions ------------------------------
(***************************************************************************)
(* The session of a kernel (nachalnik/src/session.rs, and the parts of     *)
(* kernel/mod.rs and kernel/request.rs that number things): the log of     *)
(* what happened, the identifiers handed out - to items, to tool calls, to *)
(* permission requests, to records - and what a snapshot of them says.     *)
(*                                                                         *)
(* Each action is one hold of the lock that guards what it changes, and    *)
(* announces it under that lock, so a snapshot may be read between any     *)
(* two.  Records that name nothing a property tells apart are left out;    *)
(* so are the parameters and the calibration, which are values copied      *)
(* whole.                                                                  *)
(***************************************************************************)
EXTENDS Context

CONSTANTS
  Ordinary, Whole,  \* whether an item is the whole of a shortened output
  MaxItems,         \* bound: how many item identifiers are handed out
  MaxSeq,           \* bound: how many records are numbered
  MaxAsks,          \* bound: how many permission requests are numbered
  MaxBatch          \* bound: how many calls one answer asks for

\* `problems` calls a number too large where nothing could be numbered after it.
ROOM == TopId \div 2

\* A session ends long before a number of its own is too large.
ASSUME SessionAssumption ==
  /\ Metas = {Ordinary, Whole} /\ Ordinary # Whole
  /\ Texts # {} /\ Counters # {} /\ NoCall \notin Calls
  /\ {MaxItems, MaxSeq, MaxAsks, MaxBatch} \subseteq Nat
  /\ MaxItems < ROOM /\ MaxSeq \in 1..ROOM /\ MaxAsks < ROOM

VARIABLES
  ctx,         \* Kernel's context
  seen,        \* InnerKernel::seen_calls
  permission,  \* InnerKernel::next_permission
  log, seq,    \* Session::records and Session::seq
  turn         \* the answer that is being recorded, and its calls

session == <<ctx, seen, permission, log, seq, turn>>

Counter == CHOOSE c \in Counters : TRUE

---------------------------------------------------------------------------
(* Items.                                                                  *)

Blank == [id |-> 0, kind |-> "plain", calls |-> <<>>, answers |-> NoCall, state |-> "Active",
          note |-> NoNote, text |-> CHOOSE t \in Texts : TRUE, meta |-> Ordinary,
          priced |-> Counter]
Turn(calls) == [Blank EXCEPT !.kind = "assistant", !.calls = calls]
Result(call) == [Blank EXCEPT !.kind = "result", !.answers = call]
WholeOf(call) == [Result(call) EXCEPT !.state = "Excluded", !.meta = Whole]

\* named_calls.
Named(item) == ToSet(item.calls) \cup ({item.answers} \ {NoCall})
NamedIn(items) == UNION {Named(items[k]) : k \in DOMAIN items}

---------------------------------------------------------------------------
(* The log.                                                                *)

\* What a record says: the items that appeared and those that went, the calls
\* and the permission request it names.
Event(what) == [what |-> what, adds |-> {}, takes |-> {}, calls |-> {}, asks |-> 0]
Added(id) == [Event("added") EXCEPT !.adds = {id}]
Moved(before, after) ==
  [Event("moved") EXCEPT !.adds = Ids(after) \ Ids(before), !.takes = Ids(before) \ Ids(after)]

Numbered(event, n) == [seq |-> n, what |-> event.what, adds |-> event.adds,
                       takes |-> event.takes, calls |-> event.calls, asks |-> event.asks]

\* Kernel::emit, of several events in one hold.
Emit(events) ==
  /\ seq + Len(events) <= MaxSeq
  /\ log' = log \o [k \in DOMAIN events |-> Numbered(events[k], seq + k)]
  /\ seq' = seq + Len(events)

\* How many of a log's records, which are in the order they were numbered, come
\* before the first past a number.
PartitionPoint(records, n) == Cardinality({k \in DOMAIN records : records[k].seq <= n})
Through(records, n) == SubSeq(records, 1, PartitionPoint(records, n))
Since(records, n) == SubSeq(records, PartitionPoint(records, n) + 1, Len(records))

---------------------------------------------------------------------------
(* A turn.                                                                 *)

NoTurn == [at |-> "resting", calls |-> <<>>, asks |-> <<>>, batch |-> 0, shortened |-> FALSE]
Room(n) == ctx.next + n <= MaxItems + 1

\* An item recorded in a batch: the first takes the checkpoint, later ones fold
\* what was checkpointed since into it.
AddIn(item) ==
  Add(IF turn.batch = 0 THEN Checkpoint(ctx) ELSE FoldSince(ctx, turn.batch), item, Counter)

\* Wrong form of Renamed: what was used earlier in the session is not looked at.
RenamedApart(offered, given) ==
  \A k \in DOMAIN offered :
    LET earlier == {given[j] : j \in 1..(k - 1)}
    IN  IF offered[k] \in earlier THEN given[k] \in Calls \ earlier ELSE given[k] = offered[k]

\* Kernel::rename_calls: an identifier is kept unless the session has used it,
\* or the provider left it out; then it is a fresh one.  Which fresh one is a
\* matter of spelling.
Renamed(offered, given) ==
  \A k \in DOMAIN offered :
    LET used == seen \cup {given[j] : j \in 1..(k - 1)}
    IN  IF offered[k] \in used \cup {NoCall} THEN given[k] \in Calls \ used
        ELSE given[k] = offered[k]

\* The answer arrives, and its calls are given usable identifiers.
Answer(offered, given) ==
  /\ turn.at = "resting"
  /\ Len(given) = Len(offered) /\ Renamed(offered, given)
  /\ seen' = seen \cup ToSet(given)
  /\ LET changed == {k \in DOMAIN given : given[k] # offered[k]}
         repaired == InOrder(changed, {pair \in changed \X changed : pair[1] < pair[2]})
     IN  Emit([j \in DOMAIN repaired |->
                 [Event("repaired") EXCEPT !.calls = {given[repaired[j]]}]])
  /\ turn' = [NoTurn EXCEPT !.at = "answered", !.calls = given]
  /\ UNCHANGED <<ctx, permission>>

\* Kernel::request records the turn.
RecordTurn ==
  /\ turn.at = "answered" /\ Room(1)
  /\ ctx' = AddIn(Turn(turn.calls))
  /\ Emit(<<Added(ctx.next)>>)
  /\ turn' = [turn EXCEPT !.at = "recorded"]
  /\ UNCHANGED <<seen, permission>>

\* ... and says that it is finished, naming its calls.
FinishTurn ==
  /\ turn.at = "recorded"
  /\ Emit(<<[Event("finished") EXCEPT !.calls = ToSet(turn.calls)]>>)
  /\ turn' = IF turn.calls = <<>> THEN NoTurn ELSE [turn EXCEPT !.at = "preparing"]
  /\ UNCHANGED <<ctx, seen, permission>>

\* prepare_calls numbers a question for each call; the policy is awaited ...
Question ==
  /\ turn.at = "preparing" /\ Len(turn.asks) < Len(turn.calls) /\ permission <= MaxAsks
  /\ permission' = SatInc(permission)
  /\ turn' = [turn EXCEPT !.asks = Append(@, permission)]
  /\ UNCHANGED <<ctx, seen, log, seq>>

\* ... and all of them are announced when the calls are queued.
AnnounceQuestions ==
  /\ turn.at = "preparing" /\ Len(turn.asks) = Len(turn.calls)
  /\ Emit([k \in DOMAIN turn.asks |-> [Event("asked") EXCEPT !.asks = turn.asks[k]]])
  /\ turn' = [turn EXCEPT !.at = "executing"]
  /\ UNCHANGED <<ctx, seen, permission>>

\* record_output keeps the whole of an output it will shorten, in the same batch.
RecordWhole ==
  /\ turn.at = "executing" /\ ~turn.shortened /\ Room(1)
  /\ ctx' = AddIn(WholeOf(Head(turn.calls)))
  /\ Emit(<<Added(ctx.next)>>)
  /\ turn' = [turn EXCEPT !.shortened = TRUE, !.batch = ctx'.taken]
  /\ UNCHANGED <<seen, permission>>

\* record_tool_result, for the calls in the order asked.
RecordResult ==
  /\ turn.at = "executing" /\ Room(1)
  /\ ctx' = AddIn(Result(Head(turn.calls)))
  /\ Emit(<<Added(ctx.next)>>)
  /\ turn' = IF Len(turn.calls) = 1 THEN NoTurn
             ELSE [turn EXCEPT !.calls = Tail(@), !.shortened = FALSE, !.batch = ctx'.taken]
  /\ UNCHANGED <<seen, permission>>

\* The future driving the turn is dropped where it waits.
Abandon ==
  /\ turn.at \in {"preparing", "executing"}
  /\ turn' = NoTurn
  /\ UNCHANGED <<ctx, seen, permission, log, seq>>

---------------------------------------------------------------------------
(* What a client does.                                                     *)

Push ==
  /\ Room(1)
  /\ ctx' = Add(Checkpoint(ctx), Blank, Counter)
  /\ Emit(<<Added(ctx.next)>>)
  /\ UNCHANGED <<seen, permission, turn>>

\* Undo and redo are refused while a turn holds calls.
Walk(to) ==
  /\ turn.at = "resting"
  /\ ctx' = to
  /\ Emit(<<Moved(ctx.items, to.items)>>)
  /\ UNCHANGED <<seen, permission, turn>>

Undo == ctx.undo # <<>> /\ Walk(Undone(ctx))
Redo == ctx.redo # <<>> /\ Walk(Redone(ctx))

\* A client that brings in another session's turn pushes it, its call named
\* afresh, and then reserves the call; it starts no turn in between.
LoadTurn(call) ==
  /\ turn.at = "resting" /\ Room(2) /\ call \notin seen
  /\ ctx' = AddAll(Checkpoint(ctx), <<Turn(<<call>>), Result(call)>>, Counter)
  /\ Emit(<<Added(ctx.next), Added(ctx.next + 1)>>)
  /\ turn' = [NoTurn EXCEPT !.at = "loading", !.calls = <<call>>]
  /\ UNCHANGED <<seen, permission>>

\* Kernel::reserve_calls: says how many it had not been told of, and no names.
ReserveCalls ==
  /\ turn.at = "loading"
  /\ seen' = seen \cup ToSet(turn.calls)
  /\ Emit(<<Event("reserved")>>)
  /\ turn' = NoTurn
  /\ UNCHANGED <<ctx, permission>>

KernelNext ==
  \/ \E n \in 0..MaxBatch : \E offered \in [1..n -> Calls \cup {NoCall}], given \in [1..n -> Calls] :
       Answer(offered, given)
  \/ RecordTurn \/ FinishTurn \/ Question \/ AnnounceQuestions
  \/ RecordWhole \/ RecordResult \/ Abandon
  \/ Push \/ Undo \/ Redo
  \/ \E call \in Calls : LoadTurn(call)
  \/ ReserveCalls

---------------------------------------------------------------------------
(* Snapshots.                                                              *)

Highest(items) == IF items = <<>> THEN 0 ELSE Max(Ids(items))
IsWhole(item) == item.meta = Whole

\* Snapshot::problems, one kind each.
Misnumbered(snap) ==
  \E k \in DOMAIN snap.items :
    \/ snap.items[k].id = 0
    \/ \E j \in 1..(k - 1) : snap.items[j].id >= snap.items[k].id
Unlisted(snap) == ~(NamedIn(snap.items) \subseteq snap.used)
Unpaired(snap) ==
  \E k \in DOMAIN snap.items :
    LET item == snap.items[k]
        before == {snap.items[j] : j \in 1..(k - 1)}
    IN  /\ item.answers # NoCall
        /\ \/ \A other \in before : item.answers \notin ToSet(other.calls)
           \/ \E other \in before : other.answers = item.answers /\ IsWhole(other) = IsWhole(item)
NextBehind(snap) == snap.next = 0 \/ snap.next <= Highest(snap.items)
NoRoomLeft(snap) ==
  \E n \in {Highest(snap.items), snap.next, snap.seq, snap.permission} : n > ROOM

HasProblems(snap) ==
  Misnumbered(snap) \/ Unlisted(snap) \/ Unpaired(snap) \/ NextBehind(snap) \/ NoRoomLeft(snap)

\* Wrong form of SeenAfter: the snapshot's own list is taken to be complete.
SeenAsListed(snap) == snap.used

\* What a kernel resumed from a snapshot takes as used.
SeenAfter(snap) == snap.used \cup NamedIn(snap.items)

\* Kernel::resume.
Resume(snap) ==
  /\ ctx' = Restored(snap.items, snap.next, Counter)
  /\ seen' = SeenAfter(snap)
  /\ permission' = Max({snap.permission, 1})
  /\ snap.seq < MaxSeq
  /\ log' = <<Numbered(Event("resumed"), snap.seq + 1)>> /\ seq' = snap.seq + 1
  /\ turn' = NoTurn

\* Kernel::new.
Start ==
  /\ ctx' = NewContext /\ seen' = {} /\ permission' = 1
  /\ log' = <<Numbered(Event("started"), 1)>> /\ seq' = 1
  /\ turn' = NoTurn
=============================================================================
