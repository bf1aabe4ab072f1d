# A specification of nachalnik

[nachalnik](../src/nachalnik) is a library that drives a language model: it keeps a *context* of items, projects a
request from it, sends the request, records the answer, runs the tool calls the answer asks for, and repeats. Its
promises (`src/INVARIANTS.md`) are about what a user can see and take back: nothing is destroyed, what is previewed is
what is sent, an operation is one undo step, every change is an event in order, identifiers are never reused, a pin is
a promise, and a failing tool is an answer rather than an error. `kamchatka`, `nachalnik-eval`, `nachalnik-mcp` and
`nachalnik-providers` are programs and bridges built on it.

The modules here specify the library's core: the context and its history, the operations a kernel offers on it, the
projection of a request, how a request is compacted and marked before it is sent, the state machine with everybody who
drives it, and the session that is numbered, written down, killed and carried on. Around it they specify how a provider
waits for an answer and reads it, kamchatka's application with its turn in the background, and a session served to
clients. TLC checks them on small instances, and TLAPS proves the safety of the context, of requests and what is
projected into them, of the state machine and its turns, with and without the application, of a provider's waiting, of a
served session and of its record for every value of the constants.

    tlc -workers 2 -config MCTogether.cfg MCMachine.tla     # one run; PROJECT.json lists all of them
    tlapm MachineProofs.tla                                 # one set of proofs

`PROJECT.json` ties every definition to the lines it models, every property to a mutated definition that breaks it, and
every hazard of the code to the properties about it.


## The system

| part | state it keeps | operations | what must hold |
|---|---|---|---|
| `context/mod.rs` `Context` | the items, the undo and redo stacks, the next identifier, a count of checkpoints | add, set_state, replace, annotate, recount, undo, redo, checkpoint, fold_since, restore | versions sorted by identifier; history bounded; identifiers never reused |
| `kernel/context.rs` | (the context behind a lock) | push, push_all, supersede, set_states, replace, annotate, undo, redo, recount, apply_compaction | one operation, one undo step; undo refused while calls are held; events tell the items; pins spared |
| `kernel/machine.rs`, `kernel/calls.rs` | the state, the queued calls with their grants, the count of a turn's requests, the interrupt flag | step, turn, interrupt, decide, cancel_pending_calls, and inside them prepare_calls, execute, `Restore` | one driver at a time; every call answered once and in order; nothing runs undecided or refused; a stop stops; a budget bounds |
| `kernel/request.rs` | the last response, the full notice | request: compact, build, refuse if too long, send, repair identifiers, record | the request is the one previewed; call identifiers distinct |
| `kernel/components.rs` | provider, projector, policy, compactor, counter, tools, limits | one setter each; set_counter recounts | figures belong to the counter installed |
| `projection.rs` `LinearProjector` | nothing | project | calls and results paired and adjacent, nothing lost unsaid, moves reported |
| `session.rs`, `event.rs` | the log of numbered records | emit, history_since, snapshot, resume | records in the order of the changes; a snapshot names what it reflects |
| `tokens.rs`, `compaction.rs` | the calibration factor | estimate, observe; a plan from a budget | corrections bounded; a plan only ever narrows |
| `nachalnik-providers` | attempts, patience, a notice | send, wait, retry, read a stream | a request that may have been heard is not sent again |
| `nachalnik-mcp` | a connection, the tools it lists | connect, install, invoke, shut down | a call is answered or fails |
| `kamchatka/app` | the turn in the background, lines typed ahead, spending, questions | start, decide, stop, on_outcome | a turn whose questions are answered is carried on; nothing is sent past a ceiling |
| `kamchatka/remote` | the seated client, a watermark per connection | attach, command, relay, replace | no record lost to a client; an answer never overtakes the records it is about |
| `kamchatka/wiring`, `reconcile` | the log and snapshot on disk | append, checkpoint, finish, reconcile | the log is never behind the snapshot |
| `nachalnik-eval` | experiments over forks of kernels | run, score | forks do not disturb each other |

### How the parts meet

A `Kernel` is a handle that is cloned freely. Clients, tools, compactors and policies all hold one and call it from
their own tasks, also while a turn is running. Three locks order what they do: the context's, the machine's and the
log's. Events are emitted while the lock of the change they tell about is held. Whatever lies between two holds, or
behind an `await` (the compactor, the provider, the policy, a tool), is where another caller gets in. A future that
drives the machine can be dropped at each of those awaits; `Restore` then puts the machine back.

### What is hard

* A turn records its items one lock at a time while clients checkpoint, so "one turn, one undo" is arithmetic on
  counts of checkpoints (`Batch`, `fold_since`), some of which a full history has already dropped.
* Any number of tasks may call `turn`, `step`, `cancel_pending_calls`, `interrupt` and `decide` at once.
* An interrupt is one flag with several readers. Spent by the wrong one, it stops nothing, or the next turn.
* Failures and dropped futures at every await, with calls in somebody's hands.
* Projection pairs calls with results by counting, over contexts anybody may have edited.
* A counter is swapped and the items recounted in two holds.
* A snapshot is read in three holds while the kernel goes on, and the process may die between any two steps of writing
  it down, with a log that runs past it.
* A request is built, compacted, marked and built again, hold by hold, with clients and the compactor's own await in
  between; the notice it may carry is recognised by its words, which a command may change meanwhile.
* A busy server, one that is at work, one that is gone and one that is done look alike from outside, and every attempt
  one of them took up is paid for.
* The application hears of the end of a turn over a channel: between the two the kernel is ahead of what it knows.
* A client of a served session reads frames of three sources, of which two lose what is read too slowly, over
  connections that drop and replace one another.

`PROJECT.json` lists each of these under `hazards`, at the line where it bites, one that no run covers included.


## The modules

| module | models | kind |
|---|---|---|
| `Context` | `context/mod.rs`, parts of `context/item.rs` | operators on the record `[items, undo, redo, next, taken]` |
| `Projection` | `projection.rs`, `session::named_calls` | operators: `Pairings`, `Build`, `WireOrder`, `Project` |
| `MCProjection` | | lists that grow by one item of any shape, and what each projects to |
| `KernelContext` | `kernel/context.rs`, `Batch` and `add_in` of `kernel/mod.rs`, `set_counter` | a state machine, one action per hold of the context lock |
| `MCKernelContext` | | the items of small instances |
| `Machine` | `kernel/machine.rs`, `kernel/calls.rs`, the frame of `kernel/request.rs` | a state machine, one action per hold of the machine lock and driver |
| `CallLife` | what the kernel promises about the calls of an answer | the abstract specification `Machine` implements |
| `Turns` | what `turn` promises over many steps | `Machine` with a record of what each turn has sent |
| `Sessions` | `session.rs`, `rename_calls` of `kernel/request.rs`, `resume` and `reserve_calls` of `kernel/mod.rs` | what a kernel numbers, and what may be wrong with a snapshot |
| `Recording` | `kamchatka/src/wiring/record.rs`, `Kernel::snapshot`, what `-r` does in `kamchatka/src/args.rs` | `Sessions` beside a recorder that writes it down, with crashes and restarts |
| `Requests` | `nachalnik/src/kernel/request.rs` up to the answer, `refresh_full_notice` of `kamchatka/src/app/mod.rs` | `KernelContext` with the request that is being made, one action per hold |
| `Waiting` | `nachalnik-providers/src/waiting.rs`, `reading.rs` | one request to a server, its attempts, and the clock |
| `Application` | `kamchatka/src/app/{turn,questions,spend,events,mod}.rs`, `app/command/mod.rs` | `Machine` with an App that drives it, and the loop of a served session |
| `Serving` | `kamchatka/src/remote/server/{mod,connection}.rs`, `remote/client.rs` | a loop, its connections and their clients |
| `MCMachine`, `MCTurns`, `MCRecording`, `MCRequests`, `MCWaiting`, `MCApplication`, `MCServing` | | symmetry, items, scripts and waits of small instances |
| `ContextProofs`, `RequestsProofs` (with those of `KernelContext`), `ProjectionProofs`, `RecordingProofs`, `MachineProofs` (with those of `Turns`), `ApplicationProofs`, `WaitingProofs`, `ServingProofs` | | theorems and their proofs |

`Machine` is driven by anybody in `Turns`, and by the App in `Application`; `KernelContext` is used by anybody in its
own runs, and by the kernel itself as well in `Requests`. `Serving` has an App of its own, cut down to what a client
can tell apart: whether a turn runs, and whose messages wait.

Definitions introduced by "Wrong form of" are never part of a specification. Each is the neighbouring definition with
a plausible mistake, and shows that a property would notice it.

### Context and KernelContext

`ctx` is the context; `Checkpoint`, `Undone`, `Redone` and `FoldSince` are the methods of those names, line for line.
An item keeps its identifier, kind, calls, state, note, text, metadata and `priced`, the counter that produced its two
figures (`measure` always writes both). Texts, metadata and notes are members of small sets.

Every operation of `kernel/context.rs` holds the context lock from its first look to its last change, so it is one
action. `SetStates` decides which changes change anything before it makes any (`Targets`), `ApplyCompaction` moves the
items and adds the summary under one checkpoint, `Undo` and `Redo` are refused while the machine holds calls. A turn
appears only as far as the context notices it: `Claim` and `Release`, `RecordFirst` and `RecordNext` (`add_in`),
`CloseBatch`, `Finish`, and `Abandon` for a future that fails or is dropped. `set_counter` is two actions,
`SwapCounter` and `RecountAfterSwap`, because it is two holds.

`told` is the list a reader of the events would keep, and `groups` the batches recorded so far; both are history.

### Projection

Three passes, as in the code. `Pairings` counts the calls and results of each identifier among the projected items;
`Build` goes through the items consuming the counts, so that the k-th result meets the k-th call; `WireOrder` places
each answer behind its call and reports what it moved. A message keeps whose item it is, whether it shows words, a
marker or nothing, the calls it makes and the one it answers. Reasoning, labels and the layout of content are left out.

### Machine, Turns and CallLife

`pc` says where a driver is: `away`, `looking` (the head of `turn`'s loop), `stepping` (about to call `step_once`),
`requesting`, `preparing`, `concluding`, `executing` or `cancelling`. The state of the code is `state`, `pending`,
`turnRequests` and `interrupted`; `requests` and `counted` are locals of `turn`; `hands` holds the prepared calls a
driver has taken and not yet recorded, each with its grant and how far it has run.

* `TurnLook` reads the state and lets go, and `Step...`/`Claim...` take the lock again: `turn` does both, in that order.
* `Refuse` and `Evaluate` prepare one call each, in order: a refusal is recorded at once, a policy is awaited. `Queue`
  queues all of them, announces them and moves the state in one hold.
* `Invoke` reads the flag and announces the start in one hold. Run one at a time a call starts when the one before is
  recorded, and an interrupt skips it; run together they start and return in any order, and are recorded when all are
  back, in the order asked.
* `Abandon` is `Restore`: possible wherever the future awaits, and only there.
* `AnswerUndone` is the one thing the context does to the machine: an undo that takes the answer away.

Calls are numbered afresh for each answer. That loses nothing, because `RequestsLeaveNothingOpen` shows that no call
of an earlier answer is open when the next is asked for. `CallLife` tells the life of each of those calls with nobody
driving, and `Machine!KeepsItsPromise` is the refinement: a call's life is read off who holds it.

### Sessions and Recording

`Sessions` has the state a kernel numbers things with: the context, `seen` (`seen_calls`), `permission`, `log` and
`seq`, and the answer that is being recorded. Each action is one hold and emits its records in it. `Answer` is
`rename_calls`, `Question` takes a permission number and `AnnounceQuestions` announces all of them when the calls are
queued, `LoadTurn` and `ReserveCalls` are the two calls of a client that merges another session's turn. A record keeps
the items it adds or takes away, and the calls and the permission request it names; events that name none of these are
no records here. `HasProblems` is `Snapshot::problems`, and `Resume` is `Kernel::resume` over `Restored`, which is
`Context::restore`.

`Recording` has a recorder beside it. `SnapshotItems`, `SnapshotCalls` and `SnapshotPermission` are the three separate
reads of `Kernel::snapshot`, `WriteLog` and `WriteState` the two writes of `Recorder::checkpoint`, and the kernel may
move between any two. `Recorder::append` reads nothing but the log, and nobody reads what it wrote until the process is
gone, so how far it had got is chosen in `Crash`. `files` holds the pairs on disk. `LaunchResumed` is what `-r` does
with one: refuse what has problems, move the numbering past the log (`PastSnapshot`), resume, and keep the records the
snapshot reflects for the next log (`earlier`). When the application asks for a checkpoint is left open, which allows
more than `keep_record`, which asks at rest.


### Requests

`req.at` says how far a request is: `built`, `planning` (the compactor's await), `planned`, `marking` and the holds of
`mark_full` (`looking`, `weighing`, `placing`, `retiring`), `marked`, `ready`, `out` and `recorded`. Every action is
one hold of the context lock, or what happens between two awaits with nothing to be seen in between, and clients push,
move, undo, redo and rewrite the notice between any two. `Built` projects the context and prices it: `carried` is what
goes out, by identifier. `Consult` and `ApplyPlan` leave open whether a compactor wants a look and what it plans, so
every compactor is one of them, also one that another client swaps in meanwhile; `FullAt` is when it still wants room.
`Mark` reads the notice, `Look` the items, `Weigh` asks whether the request still fits, `Place` pushes and `Retire`
excludes. `Reword`, `RewordOne` and `Reworded` are `refresh_full_notice`: it looks, replaces one copy at a time, and
then sets the notice. A message costs two tokens, a marker or an empty turn one; the count itself is not modelled, and
there always is a notice, the one thing a session without one lacks.

### Waiting

`call` is one call of `sent`: `asked` (`watched`), `reading` (`read`), `body`, `backing` (`backed_off`) or over, with
what this attempt has read. `taken` says which attempts the server took up, `handed` which handed part of an answer on,
and `ended` how a server ended a stream otherwise than by its finish: with the marker, an error, or a line without end.
The server and the network do as they like, with three exceptions. A server that refuses has not taken the request up,
a request that was not connected has not been taken up, and an error after the first piece comes from one that has.
Time is counted in heartbeats, `QUIET`, the patience and `LINGER` with it; the proportions in the run are smaller than
the code's, the order is the same. What a line or a body says is read off by what the code tells apart: an event that
says a response exists, a piece, a finish, an error, the end-of-stream marker, a line that says nothing. `streaming` is
`Dialect`'s choice. What is held and is no event yet is measured after every chunk and ahead of the question whether
somebody asked to stop (`Part`), as in the code; a stop seen between two lines (`Line`) leaves the rest of the chunk
unread, and that may be too large as well. Before the first event everything that came counts (`FirstLine`).

### Application

`app` has the fields of `App` that say what is out: `busy`, `stepping`, `interrupting`, `ahead` (lines typed while a
turn runs), `held` (lines that wait for a command), `errand` and `settling`, and the money. Every operator that takes an
app and gives one back is a method: `Launch`, `LetGo` (`interrupt`), `Charged` (`charge_since` and the `count` of every
response), `Message` and `Submitted` (`submitted`), `TurnOver` and `Returned` (`on_outcome`), `Gone` (`unsent`). An
action is a branch of the loop's `select!`, after the lines it can release were released (`Selecting`), or a step of
one of the tasks it spawned. The turn's task steps as `Machine`'s driver `Task`; the loop, while it drops calls that
wait, as `Desk`. A line is what it asks for, and `Scripts` are the lines somebody hands in. An event that is lost is one
the App was too slow for: `unread` stays at `Behind`, and whatever is read charges all the log has.

### Serving

`session` is the loop's side: whether a turn runs, whose it is and who waits behind it (`turns`), the seat, and the end.
A turn emits its first record when its message goes in and then fragments, which are in no log. `asks` is the channel of
the loop. A connection (`conns`) has its watermark `last`, its subscription to the events with a room of `EventRoom`,
and its queue of what the session says with `VoiceRoom`; each says when it lost something (`lagged`, `deaf`). The
frames between two awaits of a connection go out in one step, in the order the code writes them: `Backlog` is
`caught_up`, `Flushed` is `flush`. `links` are the sockets, which `Cutoff` cuts anywhere. `clients` are those of
`--connect`: what they know, how many answers they count themselves owed (`out`), and whether their input has closed.

## What is checked

| run | instance | shows |
|---|---|---|
| `batches` | identifiers up to 4, undo depth 2, five checkpoints, plans about one item | a batch is undone whole, whatever is pushed, compacted, undone and redone between its items; events tell the items; no identifier comes back |
| `edits` | two texts, two metadata, items excluded, two counters swapped twice at once, depth 2 | no undo is empty; no redo writes over later work; figures belong to the counter installed |
| `projection` | all lists of three items of 31 shapes over two calls, and of four over one | pairs whole and adjacent, nothing lost unsaid and which half is kept decided by rank, repairs that reach no further than the pair, moves reported |
| `requests` | three items over one call, pinned or excluded, every plan about two of them, a limit of four tokens, the notice reworded once | what goes out is what the kernel left, with the notice in it and fitting; the notice follows the fill; a plan spares what was pinned meanwhile |
| `waiting` | four tries, patience 4 and 5 heartbeats, bodies of three chunks | nobody pays twice; what was handed on is returned as what it is; a stop is heard; silence ends |
| `together` | two drivers, two calls at the same time, one request a turn | one driver, queue as shown, nothing open in a request, calls answered once, `CallLife` implemented; a busy machine comes to rest |
| `turn` | one driver, two calls, two requests a turn | a budget survives questions, a stop stops, every call of the kernel returns |
| `recording` | two runs of one session, three items, two calls, six records, undo depth 1 | nothing is numbered twice across a crash; no two turns make one call; log and snapshot agree, and the kernel's own snapshots are accepted; edited ones are repaired or refused |
| `application` | any two lines of five kinds and five longer scripts, two calls an answer, two requests a turn, a ceiling of two responses | what runs is known; messages keep their order and go in between no call and its result; a turn is carried on; spending is charged in full; nothing unwanted is claimed; the kernel is driven as `Machine` says |
| `serving` | two clients, two connections, rooms of one, a fragment | answers owed as counted; the word of rest comes last; all agree at rest; no record told twice or never; a client is told why it was let go |

Two runs show a disagreement between the code and what is written about it.

* `stop_lost`: a stop asked for between launching a turn and its task's first poll is spent by that task as one left
  over from the turn before, and the turn goes on. `App::interrupt` "asks the running turn to stop at the next
  opportunity".
* `old_words`: `refresh_full_notice` while a request is made. `mark_full` has read the notice, the command looks for
  copies and finds none, and then `mark_full` pushes the old words and the command sets the new: a copy that is never
  taken out again, which is what the rewriting is there to prevent.

### Further instances

These configurations are not among the runs of `PROJECT.json`. Each of the first group is refuted, and shows the code at
odds with what one would expect of it, or with what a comment says.

* `MCTwoTurns` (`MCTurns`, `BudgetHolds`): a turn that looks while another driver is sending neither checks nor counts,
  and goes on to claim a request that is not in its budget.
* `MCLateStop` (`MCTurns`, `StopEndsWithItsTurn`): an interrupt that falls into the last calls the budget allows is
  spent by nobody, and the next turn does nothing but acknowledge it.
* `MCSecondState` (`MCKernelContext`, `SecondStateStands`): `set_states` says an item named twice "ends in the second
  state". It decides what changes anything against the items as they were, so A to B and back to A ends in B.
* `MCProjectionAsIs` (`MCProjection`, `MovesReported`): with `repair_orphans` off, a result that nothing placed is put
  last and not listed in `reordered`.
* `MCStepMessage` (`MCApplication`, `StepsBetweenNothing`): a message given to `/step` while decided calls wait is
  put between the calls and their results. The guard asks whether a turn runs, not whether calls wait; the projection
  moves the message behind the results.
* `MCCutOff` (`MCWaiting`, `CutOffIsUnfinished`): an answer whose finish has arrived is returned as `CutOff` if an error
  event follows (`reading.rs:344-359`) or a line that never ends (`370-381`): neither asks `events.finished()`, and
  `openai/wire.rs:387` then writes "cut off" over the finish the server gave. `Stopped::CutOff` is "before the server
  had said the turn was over" (`82`), and of a break after the finish `read` says that calling it cut off "would be
  inventing a fault" (`213-214`). `AnswerKept`, in `waiting`, names these two and excludes every other way for a finished
  answer to be called so: a break, a silence, a close and a stop.
* `MCWaits` (`MCServing`, `WaitsForItsTurn`): before an answer is written a connection catches up with the log and the
  events, but not with what the session said. A word of rest of the turn before, still in that queue, follows the answer
  to a new message, and a client whose input has closed leaves on it.
* `MCLetGo` (`MCServing`, `LetGoForAnother`): a client that attaches again on its own connection, after another had
  the seat, is let go by the notice that was still on the way.
* `MCWordLast` (`MCServing`, `WordAlwaysLast`): the answer to a client that attaches again may say that the session is
  at rest ahead of fragments of the turn before.

`MCInTurn` (`MCMachine`) passes: the safety of `together` with three calls one by one, the third past the ceiling.

Two races were read in the code and are not stated as properties. A client may pin the notice between `mark_full`'s look
and its change of state, and the pinned notice is then excluded, which `NoticeFollows` allows. A stop that arrives with
the last bytes of a whole answer discards it, paid for or not; `AnswerKept` is about what was handed on.

### The bounds, and why they are enough

`TopId` and `MaxTaken` bound how long a history of a context can get. With depth 2, five checkpoints are enough to
overflow the history, undo to its end, redo, overflow it again with a batch open, and fold a batch whose own
checkpoint is gone. Three items are the smallest list in which a result can be separated from its call by another
item, and four the smallest in which two turns and two results share an identifier. `MaxBatch` 3 with `Ceiling` 2 has
a call before, at and past the ceiling; two calls are enough to finish out of order. `MaxRequests` 1 or 2 are enough
to reach the budget on either side of a question, and the proofs do not depend on any of them.
`Machine` has no other bound: its history is the last answer only, so the state graph is finite by itself.

In `requests`, `TopId` 4 is room for a call, its result and the notice, or a summary; a limit of four tokens makes the
notice fit beside one message and not beside two, and one step of undo is enough to bring a notice back or to take one
away. `MidRequest` keeps the rewriting of the notice out of requests: `old_words` shows what it does there. In
`waiting`, a quiet of two heartbeats comes before a patience of four, four tries are the code's, and a body of three
chunks is read, too large, or cut at either end. The proofs are for all of these numbers.

In `application`, two calls are a question answered before and after the other's, two requests a turn that runs on, and
a subscription that holds one event loses every other. The scripts are every pair of lines, and those with a third and
a fourth that wait behind a switch or an errand. In `serving` two connections are two clients with one each, or one that
came back; rooms of one lose what two words or two events would say, and a client reads each frame before the next is
written (`Unread` 0), which leaves every queue but the socket's to fill up. `MaxFragments` 1 is a fragment that may be
overtaken.

In `recording`, six records are enough for a turn to be recorded, finished, asked about and answered with the whole
of its output beside the result; or for it to be begun in one run, past the snapshot, and its numbers to be met by the
next. A second crash would meet nothing new: what a third run reads is a pair of files like those the second read.

`Room` and the bounds `MaxTaken`, `MaxSeq` and `MaxAsks` are guards of the model only. `MaxAsks` is larger than six
records can ask for: no run of the instance meets it. Identifiers are `u64`: a kernel that counts
from 1 does not reach the last. One resumed from an edited snapshot might: `EditsRepaired` edits numbers up to the last,
and asks for distinct ones wherever `problems` would find room.

### Fairness

`FairSpec` and `FairTurns` assume weak fairness of each driver's `GoesOn`: a task that has something to do is scheduled,
and an await ends, with an answer, a failure or a dropped future. The executor gives the first. The second is what a
provider, policy or tool owes; the kernel puts no time limit on them. Nothing is assumed of callers: nobody has to call
`turn`, decide or interrupt. `turn` has one driver: with two, the budget can be passed (`MCTwoTurns`),
and a `turn` may be kept going by the other's requests.

`Waiting`'s `FairSpec` assumes weak fairness of `Tick`: every wait of `waiting.rs` and `reading.rs` is under a timeout
of one heartbeat, which comes whatever the server does. Nothing is assumed of the server or the network. A server that
trickles lines for ever keeps a request that has had an event; `ComesBack` says so.

`Application` and `Serving` are checked for safety: what they wait for is mostly a person.


## What is proved

Every theorem is for all values of the constants: any undo depth, any identifiers, any number of drivers, calls,
requests, either mode. The assumptions are the named `ASSUME`s of the modules, which type the constants; that of
`Sessions` adds that a session hands out fewer numbers than half of `u64`, which is where `problems` draws its line, and
the theorems about turns that one driver is alone, and say so. `Projection` assumes that `NoCall` names no call, and
`MCProjection` that there is a text with something in it. Three of the theorems about the projection are of a projector
that repairs (`RepairOrphans`), which is the code's default, and say so.

**`RequestsProofs`, of `KernelContext`** (on the lemmas of `ContextProofs`). `GroupsWhole` is not inductive. What makes `fold_since`
right is where the batch lies in the history: versions from before it have none of its items, and those checkpointed
since its last item have all of them (`BatchSplitsHistory`), as many as `taken` has counted since. That needs `redo` to
be empty and `undo` to be refused while a batch is open, and versions to only grow from the oldest undo to the last
redo (`Growing`), which in turn is how one list of events is enough for an undo or a redo (`LogTellsItems`). `IInv` is
the conjunction; `Context`'s operators are shown to keep `WellFormed` once, each in a lemma of `ContextProofs`, and
every action of `KernelContext` is then a lemma that cites them. From `[]IInv`: `HistoryBounded`, `AlwaysSorted`,
`GroupsWhole`, `LogTellsItems`, `AnswerListed`, `BatchListed`, and the action property `NeverReused`.

`FiguresInForce` is inductive with the type of `swapping`: items are measured as they come in, and
what the history brings back is counted in the same hold. `RedoOverwritesNothing` is shown step by step from `IInv`: new
work leaves nothing to redo (`FoldSince` too, because nothing is left when a batch is open), and an undo always leaves
one more version to redo, because the two stacks together are never longer than one of them may be.

`NoEmptyUndo` is about neighbouring versions: none tells a reader the same as the next (`Telling`). Every checkpoint is
put down for a change that can be seen. That of a compactor's plan is one because what it takes out was projected
(`CarriedProjected`), and so not excluded, or is elided and was not.

**The projection** (in `ContextProofs`). The passes of the projector are folds. `FoldReached` unrolls a fold over a list
into the results it has place after place: the library's induction is out of reach, but a set of numbers that is not
empty has a least one (`MinOfNaturals`), and that is enough (`InductionTo`). From it, for every list of items: a request
has a message for each item that is sent (`BuiltPlaces`), in an order that loses none (`WireOrders`), so `CarryingIs`
says which items those are. `AlikeBuild`: what the projector cannot tell apart it projects alike. `SentStays`: an item
that is sent stays so when the list changes, if no call it names has fewer calls or results before or after
(`AsManyLeft` counts them).

**`ProjectionProofs`.** The properties of `MCProjection` hold of any list there is that is sorted by identifier, in
whatever states, over any calls, however long (`Listed`): `ListPairsWhole`, `ListNothingLost`, `ListMovesReported` and
`ListRepairsReachNoFurther`. The four `Grown` theorems are the same of the states of `Spec`, where `GrownInv` is inductive:
the identifier of an item is its place. None of the four is about one item, so the passes are followed place by place.

* `BuildingCounts` (`Counted`): before each place, what `Build` has left to claim of a call is the results there are,
  less the calls made so far, and 0 if those are more; and the other way round for results. At the end as many results
  of a call are left as places that make it (`Whole`, `BuiltWhole`). `ResultByRank` and `TurnByRank` read off it what
  `RanksDecide` says: by rank is what consuming counts comes to.
* `Arranged` is what `WireOrder` has placed so far: blocks (`Blocks`) of a message with the answers to its calls behind
  it, each once. Because the list is `Whole`, a turn always finds an answer to each of its calls that no turn before it
  has taken (`AnswerPlaced`, `TurnArranged`), and at the end no result is left over (`WireArranged`), so nothing is
  appended behind and `PairsWhole` follows.
* What a message finds already at the place it is put is not reported as moved. If nothing is reported, places and
  messages agree one by one; and the only ascending order of all of them is that one (`AscendingWhole`).
* `ElidedStays` and `ExcludedAlone` follow from `SentStays`: neither change takes a call or a result away from an item
  that names none of the calls of the item that was changed.

With no repair `ListMovesReported` is false, as `MCProjectionAsIs` shows, and so are the two others: orphans go out.

**`RequestsProofs`, of `Requests`.** Everything a request does to the context is one of `KernelContext`'s operations, but for two: the
kernel's own push of the notice, in whatever words, and its exclusion. The lemmas about `KernelContext` are stated
for any item and any typed changes of state, so `IInv` holds under `RequestsSpec` as well, and `GroupsWhole` with it.

`PlansSparePins` follows from `SentStays`: a plan spares a pinned item and, for each call it names, what names it too.
`SentAsLeft` rests on `SInv`, which follows the notice from the hold that places it to the one that sends it:
`PlacedStands` (what was placed is there and projected), `TakenStaysOut` (what was taken out is excluded) and `StillFits`
(what was weighed with the notice fits still, until a client touches the context). A client that moves a notice takes
it out of `placed` and `taken`. The proof assumes of the notice what kamchatka makes it: a reference, which answers nothing and calls nothing.

**`MachineProofs`.** `RequestsLeaveNothingOpen` needs to know where every call is: answered, lost, queued, in a
driver's hands or still to be prepared (`CallsAccounted`). `AnsweredOnce` needs what is held to be in ascending order
and unanswered (`CallsHeldOnce`), and what was lost to have been lost whole (`CallsInOrder`). All of it rests on
`OneDriver`, which holds because every claim is made under the lock from a resting state. `CallsKept` is the conjunction,
and `IInv` adds what a driver may have in its hands by where it is (`CallsAsGranted`): only calls that were asked for,
none undecided once they run, none started that was not allowed. There is one lemma per action for each half.
`QueueAsShown` and `RequestsLeaveNothingOpen` follow from it, and `KeepsItsPromise`: `Life` reads the life of a call off
the place it is in, `IInv` makes that place one, and each action moves the lives as one action of `CallLife` does or
leaves them alone.

**`MachineProofs`, of `Turns`**, assumes one driver (`Alone`). With two, `BudgetHolds` is refuted
(`MCTwoTurns`), and so is `StopHolds` on that instance: another driver may spend the flag. `BudgetHolds` needs to know
which count the requests of a turn are held against at every place it can be at (`BudgetKept`): its own where the loop
compares, the machine's `turnRequests` where the turn may stop and be carried on by the next call. `StopHolds` rests on
`StopKept`: the flag is only spent by a step that ends the turn. `TurnsInv` is `IInv` with the two.

**`ApplicationProofs`.** `DrivesTheKernel` is a refinement: `AppSpec` implements `Machine`'s `Spec`, with the identity on
the kernel's variables. Each branch of the loop is a stutter, an interrupt or a decision, and each step of a task is one
of the driver's. What `MachineProofs` proves for any drivers then holds under the App, for any scripts, ceiling and
size of answers.

None of the App's own properties is inductive: each speaks of what the App knows, and holds because of what the kernel
and the channel may be at meanwhile. `AppInv` is `Machine`'s `IInv` with two halves of its own.

* `TurnInv` ties the turn together. `TaskShown` and `EndShown`: where the kernel's two drivers are, and that the App is
  busy exactly while the task is there or its one outcome is unread. `OutcomeShown`: what an unread outcome says of the
  kernel is still so, but for questions answered meanwhile, which is what `TurnOver` looks for; from it, `CarriedOn`.
  `ChargesShown`: what the log has that is not charged is still announced, and only while busy. `StopsShown`,
  `WaitShown` and `LeftShown`: past the ceiling, and in a session that is being left or was, the flag stands until the
  turn has ended with it; from them, `ClaimsAreWanted`.
* `LinesInv` places the lines. `Placed`: each message is in one of four places, in order there, and each place has those
  that came before the next one's. That a line may be acted on at once rests on nothing being out that came before it
  (`HeldShown`), and that a command's return clears what is awaited and nothing else on `OutShown`.

The App's methods are first shown to change only what they should (`SameTurn`, `SameText`, `SameOut`, `SameMoney`,
`Launched`, `Asked`, ...); what any step must leave alone to keep a half is a lemma (`TurnKept`, `LinesKept`); then every
action has one. For the steps of the kernel under the turn's task, `Moved` says all that the App depends on. With
`INVARIANT AppInv` in its configuration, TLC checks all of it on the instance of the run `application`.

**`WaitingProofs`.** `PaidOnce` is not inductive: that no attempt is begun after one the server took up rests on what is
known wherever one is given up. `Known` says it: a refusal being read was not taken up, and what is `backing` off was
taken up only by attempts that broke off before a byte, handed nothing on, and has a try left. `PaidOnce` and
`AnswerKept` are parts of `IInv`; `StopIsHeard` follows from it step by step. Every way an attempt ends goes through one
lemma, `ReturnsStep`, which asks that the word it ends with be the right one.

**`ServingProofs`.** Five properties of `Serving` follow from one invariant, `ServingInv`, for any number of
connections and clients and rooms of any size. Each of them speaks of what a client has read, and holds because of what
is still on its way, so the invariant reads a link as what the client will know once it has read it to the end:

* of the log, `Leads`: the last frame that says how far the log goes says where the connection's watermark is; and
  `InTurn`: each record follows the one before it. `Follows` ties both to what the client asked from, wherever its
  connection is: not yet attached, attached, or over, where it says why the client will not take it for dropped.
  `ConnFollows` is what the connection itself owes: a watermark behind the log means a record in its inbox, or a lag
  that is noted.
* of the turn, `Leaves`: the last frame that tells. `Told` says it is what is so, unless a word, an answer or the news of
  a loss still waits to be written, and `ConnTold` that the last of those words is so. `ConnMarked` keeps the fragments
  of a turn ahead of the word that it is over.
* of answers, `Counted`: the unread commands, the one at the loop and the answers on the link. `AsksShown` is why there
  is at most one at the loop: what is asked is asked by a connection that waits for it and has no answer yet.

`ConnInv` and `ClientInv` are the halves of a connection and of a client, and a step touches few of them. `ConnStep`,
`LoopStep`, `ClientStep` and `LinkStep` say what is left to show for each kind of step; every action then has a lemma.
What catches up a client (`Catch`) is shown once for the three ways there are: the records behind a watermark, with a
note of the gap, with the fragments between. A client that is leaving (`detaching`) asks again from where it last wrote
and is sent records twice, which is why `NoHoles` and `InTurn` leave it out; `Leads` holds for it all the same. With
`INVARIANT ServingInv` in a configuration of its module, TLC checks all of it on the instance of the run `serving`.

**`RecordingProofs`.** Everything `Recording` promises follows from one invariant, `RecordingInv`, for any number of
runs, items, records and questions and a process that dies anywhere. `NumberedOnce` speaks of all files at once and is
not inductive: that a number handed out is nobody's rests on where each counter stands, and a crash throws the counters
away. What brings them back is the last snapshot and the log beside it, so the invariant follows coverage through the
files:

* `Covers` says that a snapshot's numbers are past what a record numbered. `CountersCover`: the kernel's own counters
  cover every record there is, and `TurnUnused`: what the turn holds and has not announced is in none.
* `DoingHolds` grows with the locks `Kernel::snapshot` takes one by one: after the first, the items and the log up to
  the record that is named agree, and the next identifier covers what came before it; after the second the calls do, and
  after the third the permissions. What the kernel does in between only moves its counters on.
* `FilesHold`: the last snapshot covers the log beside it up to the record it names (`FileHolds`), and every record of
  the other files. The one exception is the first record of a run that died before it had a snapshot: it is the record
  any run would begin with that starts now (`Opening`), so it is written again and not differently. That is why
  `NumberedOnce` compares records and not their places.
* `WiredHolds` and `KeptHolds`: what a run is before it has a snapshot of its own, and that its file is the records it
  began with and a beginning of its log. `past_the_snapshot` covers the rest of a log (`PastHolds`, `FilesCovered`).
* `ContextHolds` and `TurnHolds` are the kernel's: of every version an undo or a redo could show, and not only of the
  items there are, calls pair with results and are all in `seen`, but for those of a turn that was loaded and not
  reserved yet (`Loading`). `CallsApart` is a part of them, and what `problems` looks for in a snapshot.

The kernel's actions are first shown to say in the log what they number and to number nothing twice (`Moves`, one lemma
each), whatever the recorder is at; each step of the recorder has a lemma of its own. `EditsRepaired` needs more about
`Context::restore`: a sorted list stays as it is (`SortedStays`), and any list is put in strict order, each number
displaced getting one of its own past the highest (`SortedOut`, `RestoredApart`), for which `InOrder` is shown to list a
finite set in any strict order (`InOrderLists`). With `INVARIANT RecordingInv` in a configuration of its module, TLC
checks all of it on the instance of `recording` with five records, and with three runs of four.

Only model-checked: the liveness properties (`CallsReturn`, `BusyEnds`, `ComesBack`), under fairness, and
`NoticeFollows`, which holds only of what clients do here: one that pushes a notice of its own, or makes one active
again, decides about it.


## What is not modelled

* The arithmetic of `Calibrating` and of the compactor that is shipped: multiplication within bounds and a choice of the
  oldest results. What matters to the rest is any figure and any plan, and those are free.
* Of `Application`: the loops of the screen and of headless input, which drive the same methods; commands that read or
  edit the context; the keys a question is answered with; gates a running command waits at.
* Of `Serving`: a client of another version or of a session restarted at the same address, a projection too long for a
  frame, questions and the gates of running commands, interrupts, the web relay, ctrl+c at the serving terminal, and how
  long a client keeps trying to come back.
* Of `Waiting`: dialects, which read a whole answer or an event; keys; the reading of a `Retry-After`.
* A log line cut in half and a file that cannot be written: both are skipped or said, and cost what they hold. Records
  drained from a kernel's log, which only its client keeps.
* `Config::max_requests_per_turn` as `None`, which is documented to have no bound, and changing it, or the ceiling,
  during a turn: they are constants.
* In parallel mode a task that is aborted while it is being polled runs on to its next await, and may announce its
  start after the machine has come to rest. The model drops all calls at once. No result of such a call is recorded.
* What a message says, how a request is laid out for a provider, logging and drawing.
* The MCP bridge, the sandbox and the tools: input and output around awaits that `Machine` already has.


## Plan

Done: `Context`, `KernelContext`, `Projection`, `Machine`, `Turns`, `CallLife`, `Sessions`, `Recording`, `Requests`,
`Waiting`, `Application`, `Serving`, and the proofs above. What would come next, in order:

1. `Kernel`: `Machine` with `Requests`, so that what a request says is related to what was previewed.
2. `Serving` over `Application` in place of the App it has of its own, with questions.
3. `Calibrating`, and the bounded pool of trials of `nachalnik-eval`.
