----------------------------- MODULE Recording -----------------------------
(***************************************************************************)
(* A session that is written down as it goes, and carried on after the     *)
(* process dies (kamchatka/src/wiring/record.rs, and what `-r` does in     *)
(* args.rs): a pair of files for each run, the log with every record and   *)
(* the snapshot that names the last record it reflects.                    *)
(*                                                                         *)
(* The kernel of Sessions runs beside the recorder, so anything may be     *)
(* announced between two of the recorder's steps, and the process may die  *)
(* between any two steps of either; a file holds what was written to it by *)
(* then.  When the application asks for a checkpoint is left open: at rest *)
(* it does after each event, and `/save` takes a snapshot at any time.  A  *)
(* file that cannot be written, and a line cut in half, are not modelled.  *)
(***************************************************************************)
EXTENDS Sessions

CONSTANT MaxRuns  \* bound: how many times the process is started

VARIABLES
  process,  \* "down", "wired" (the kernel is there, its record is not) or "running"
  files,    \* the pairs claimed so far, each run's after those before it
  earlier,  \* Earlier: the records of the session before this run
  kept,     \* Kept: written, snapshotted
  doing     \* what the recorder is at, with the snapshot it is taking

vars == <<session, process, files, earlier, kept, doing>>
recorder == <<process, files, earlier, kept, doing>>

None == [seq |-> 0]
NothingKept == [written |-> 0, snapshotted |-> 0]
Idle == [at |-> "idle", snap |-> None]
Resumable == {f \in DOMAIN files : files[f].state # None}

Init ==
  /\ ctx = NewContext /\ seen = {} /\ permission = 1
  /\ log = <<>> /\ seq = 0 /\ turn = NoTurn
  /\ process = "down" /\ files = <<>> /\ earlier = <<>>
  /\ kept = NothingKept /\ doing = Idle

---------------------------------------------------------------------------
(* Starting.                                                               *)

\* Wrong form of PastSnapshot: the records past the snapshot number nothing.
AsTaken(snap, records) == snap

\* past_the_snapshot: the numbering moves past everything the log beside the
\* snapshot numbered after it was taken.
PastSnapshot(snap, records) ==
  LET past == Since(records, snap.seq)
      ids == UNION {past[k].adds : k \in {j \in DOMAIN past : past[j].what = "added"}}
      asks == {past[k].asks : k \in DOMAIN past} \ {0}
  IN  [snap EXCEPT
         !.seq = Max({@} \cup {past[k].seq : k \in DOMAIN past}),
         !.next = Max({@} \cup {id + 1 : id \in ids}),
         !.permission = Max({@} \cup {n + 1 : n \in asks}),
         !.used = @ \cup UNION {past[k].calls : k \in DOMAIN past}]

\* A session begins.
Launch ==
  /\ process = "down" /\ Resumable = {} /\ Len(files) < MaxRuns
  /\ Start
  /\ process' = "wired" /\ earlier' = <<>>
  /\ UNCHANGED <<files, kept, doing>>

\* `-r` with the last snapshot there is: refused if anything is wrong with it.
\* Of the log beside it, only what the snapshot reflects is this session's.
LaunchResumed ==
  /\ process = "down" /\ Resumable # {} /\ Len(files) < MaxRuns
  /\ LET from == files[Max(Resumable)]
     IN  /\ ~HasProblems(from.state)
         /\ Resume(PastSnapshot(from.state, from.log))
         /\ earlier' = Through(from.log, from.state.seq)
  /\ process' = "wired"
  /\ UNCHANGED <<files, kept, doing>>

\* Recorder::start_under claims a pair, copies the earlier records into it, and
\* makes a first checkpoint; the session goes on when that is written.
ClaimRecord ==
  /\ process = "wired" /\ doing = Idle
  /\ files' = Append(files, [log |-> earlier, state |-> None])
  /\ kept' = [written |-> IF earlier = <<>> THEN 0 ELSE Last(earlier).seq, snapshotted |-> 0]
  /\ doing' = [Idle EXCEPT !.at = "items"]
  /\ UNCHANGED <<session, process, earlier>>

---------------------------------------------------------------------------
(* Recorder::append and Recorder::checkpoint, each under the recorder's    *)
(* lock from beginning to end.  Nothing reads the log before the process   *)
(* has died, so how far `append` had brought it by then is chosen there.   *)

\* A snapshot is only taken of a log that has grown since the last.
CheckpointStart ==
  /\ process = "running" /\ doing = Idle /\ seq # kept.snapshotted
  /\ doing' = [Idle EXCEPT !.at = "items"]
  /\ UNCHANGED <<session, process, files, earlier, kept>>

\* Kernel::snapshot: the items with the number of the last record, in one hold ...
SnapshotItems ==
  /\ doing.at = "items"
  /\ doing' = [at |-> "calls",
               snap |-> [items |-> ctx.items, next |-> ctx.next, seq |-> seq,
                         used |-> {}, permission |-> 1]]
  /\ UNCHANGED <<session, process, files, earlier, kept>>

\* Wrong form of SnapshotCalls: the number of the last record is read here.
SnapshotCallsNumbered ==
  /\ doing.at = "calls"
  /\ doing' = [doing EXCEPT !.at = "permission",
                            !.snap.used = seen \cup NamedIn(doing.snap.items), !.snap.seq = seq]
  /\ UNCHANGED <<session, process, files, earlier, kept>>

\* Wrong form of SnapshotCalls: only the calls the kernel has been told of.
SnapshotCallsReserved ==
  /\ doing.at = "calls"
  /\ doing' = [doing EXCEPT !.at = "permission", !.snap.used = seen]
  /\ UNCHANGED <<session, process, files, earlier, kept>>

\* ... then the calls used, those the items name among them ...
SnapshotCalls ==
  /\ doing.at = "calls"
  /\ doing' = [doing EXCEPT !.at = "permission",
                            !.snap.used = seen \cup NamedIn(doing.snap.items)]
  /\ UNCHANGED <<session, process, files, earlier, kept>>

\* ... and then the next permission request.
SnapshotPermission ==
  /\ doing.at = "permission"
  /\ doing' = [doing EXCEPT !.at = "log", !.snap.permission = permission]
  /\ UNCHANGED <<session, process, files, earlier, kept>>

\* The log of the last pair, with the records up to one written to it.
WrittenTo(n) ==
  [files EXCEPT ![Len(files)].log = @ \o Since(Through(log, n), kept.written)]

\* append_into: the log is brought up to date first ...
WriteLog ==
  /\ doing.at = "log"
  /\ files' = WrittenTo(seq) /\ kept' = [kept EXCEPT !.written = seq]
  /\ doing' = [doing EXCEPT !.at = "state"]
  /\ UNCHANGED <<session, process, earlier>>

\* ... and the snapshot renamed into place after it, unless the last one reflects
\* the same record.
WriteState ==
  /\ doing.at = "state"
  /\ IF kept.snapshotted = doing.snap.seq
     THEN UNCHANGED <<files, kept>>
     ELSE /\ files' = [files EXCEPT ![Len(files)].state = doing.snap]
          /\ kept' = [kept EXCEPT !.snapshotted = doing.snap.seq]
  /\ doing' = Idle /\ process' = "running"
  /\ UNCHANGED <<session, earlier>>

\* The process dies, its log appended to up to some record; files is what is left.
\* The last run that is looked at is left to live: nothing would read what it left.
Crash ==
  /\ process # "down" /\ Len(files) < MaxRuns
  /\ \/ process = "wired" /\ doing = Idle /\ UNCHANGED files
     \/ /\ process = "running" \/ doing # Idle
        /\ \E n \in kept.written..seq : files' = WrittenTo(n)
  /\ ctx' = NewContext /\ seen' = {} /\ permission' = 1
  /\ log' = <<>> /\ seq' = 0 /\ turn' = NoTurn
  /\ process' = "down" /\ earlier' = <<>> /\ kept' = NothingKept /\ doing' = Idle

Next ==
  \/ Launch \/ LaunchResumed \/ ClaimRecord
  \/ CheckpointStart \/ SnapshotItems \/ SnapshotCalls \/ SnapshotPermission
  \/ WriteLog \/ WriteState
  \/ Crash
  \/ process = "running" /\ KernelNext /\ UNCHANGED recorder

Spec == Init /\ [][Next]_vars

---------------------------------------------------------------------------
(* What must hold.                                                         *)

TypeOK ==
  /\ ctx.next \in 1..TopId /\ seen \subseteq Calls /\ permission \in 1..TopId
  /\ seq \in 0..MaxSeq /\ turn.calls \in Seq(Calls)
  /\ process \in {"down", "wired", "running"}
  /\ Len(files) <= MaxRuns
  /\ kept.written \in 0..MaxSeq /\ kept.snapshotted \in 0..kept.written
  /\ doing.at \in {"idle", "items", "calls", "permission", "log", "state"}

\* Everything any run wrote down or holds.
Records == ToSet(log) \cup UNION {ToSet(files[f].log) : f \in DOMAIN files}

\* "nothing they numbered is numbered again" (what a resumed session says of the
\* records past its snapshot): whatever two runs of a session wrote, one number
\* is one record, one identifier one item, one call one answer's, and one
\* permission one question - crashes in between, wherever they fell.
NumberedOnce ==
  LET records == Records
      adding == {r \in records : r.what = "added"}
      finishing == {r \in records : r.what = "finished"}
      asking == {r \in records : r.asks # 0}
  IN  /\ \A one, other \in records : one.seq = other.seq => one = other
      /\ \A one, other \in adding : one.adds = other.adds => one = other
      /\ \A one, other \in finishing : one.calls \cap other.calls # {} => one = other
      /\ \A one, other \in asking : one.asks = other.asks => one = other

\* No two turns of a context make the same call, and the answer being recorded
\* makes none of theirs: what pairs a result with its call.
CallsApart ==
  /\ \A j, k \in DOMAIN ctx.items :
       j # k => ToSet(ctx.items[j].calls) \cap ToSet(ctx.items[k].calls) = {}
  /\ turn.at = "answered" =>
       \A k \in DOMAIN ctx.items : ToSet(ctx.items[k].calls) \cap ToSet(turn.calls) = {}

\* What the items of a log come to, up to a record.
ListedIn(records) ==
  {id \in 1..MaxItems :
     \E k \in DOMAIN records : id \in records[k].adds
                               /\ \A j \in (k + 1)..Len(records) : id \notin records[j].takes}

\* Whatever the turn was at when a snapshot was taken, and however far the log had got
\* when it was written: the records up to the one it names, those of the runs before among
\* them, show exactly its items; and the session can be carried on from it.
SnapshotsHold ==
  \A f \in Resumable :
    /\ ListedIn(Through(files[f].log, files[f].state.seq)) = Ids(files[f].state.items)
    /\ ~HasProblems(files[f].state)

\* What becomes of a snapshot that is edited: one item renumbered, two items
\* swapped, a call left out of the list, the next number changed.
Numbers == 0..(MaxItems + 1) \cup {ROOM, TopId}
Swapped(snap, j, k) == [snap EXCEPT !.items[j] = snap.items[k], !.items[k] = snap.items[j]]
EditsOf(snap) ==
  {[snap EXCEPT !.items[k].id = n] : k \in DOMAIN snap.items, n \in Numbers}
    \cup {Swapped(snap, j, k) : j \in DOMAIN snap.items, k \in DOMAIN snap.items}
    \cup {[snap EXCEPT !.used = @ \ {c}] : c \in snap.used}
    \cup {[snap EXCEPT !.next = n] : n \in Numbers}

\* Of the files a dead process left: a snapshot `problems` finds nothing wrong
\* with is resumed as it is; and one that was edited, and leaves room, is resumed
\* in order, every number once and below the next, and with no call of its items
\* left to be handed out again.
EditsRepaired ==
  process = "down" =>
    \A snap \in UNION {EditsOf(files[f].state) : f \in Resumable} :
      LET resumed == Restored(snap.items, snap.next, Counter)
      IN  /\ ~NoRoomLeft(snap) => VersionOK(resumed.items, resumed.next)
          /\ NamedIn(resumed.items) \subseteq SeenAfter(snap)
          /\ ~HasProblems(snap) =>
               resumed.items = snap.items /\ resumed.next = snap.next /\ SeenAfter(snap) = snap.used
=============================================================================
