--------------------------- MODULE RecordingProofs ---------------------------
(***************************************************************************)
(* The numbers of a session that is recorded, killed and carried on, for   *)
(* every set of calls, every number of runs and records, and a process     *)
(* that dies anywhere.                                                     *)
(*                                                                         *)
(* NumberedOnce is not inductive: that a new number is nobody's follows    *)
(* from where every counter stands, and after a crash the counters are     *)
(* read from the last snapshot and the log beside it.  RecordingInv        *)
(* therefore says what the last pair of files covers (FilesHold), what the *)
(* snapshot being taken covers after each of the locks its parts are read  *)
(* under (DoingHolds), how much of the log is written (KeptHolds), and     *)
(* what the kernel keeps meanwhile (ContextHolds, TurnHolds, LogHolds).    *)
(* That the files can be carried on from (SnapshotsHold, EditsRepaired)    *)
(* follows from it.                                                        *)
(***************************************************************************)
EXTENDS Recording, ContextProofs, FiniteSetTheorems

---------------------------------------------------------------------------
(* The kernel's half of the invariant: the context, the turn and the log.  *)

\* The calls of a turn that was loaded and not reserved yet.
Loading == IF turn.at = "loading" THEN ToSet(turn.calls) ELSE {}

\* The calls the turns of a list make.
CallsMade(items) == UNION {ToSet(items[k].calls) : k \in DOMAIN items}

\* Calls pair with results in a list of items: no call is made twice, and an answer comes
\* after its call and is the first of its kind.
Paired(items) ==
  /\ \A j, k \in DOMAIN items : j # k => ToSet(items[j].calls) \cap ToSet(items[k].calls) = {}
  /\ \A k \in DOMAIN items : items[k].answers # NoCall =>
       /\ \E j \in 1..(k - 1) : items[k].answers \in ToSet(items[j].calls)
       /\ \A j \in 1..(k - 1) :
            items[j].answers = items[k].answers => IsWhole(items[j]) # IsWhole(items[k])

\* What is kept of every list a context can show.
VersionHolds(items, named) ==
  /\ \A k \in DOMAIN items : items[k].priced = Counter
  /\ NamedIn(items) \subseteq named
  /\ Paired(items)

\* What is kept of the context.
ContextHolds ==
  /\ WellFormed(ctx) /\ ctx.next <= MaxItems + 1
  /\ \A items \in VersionsOf(ctx) : VersionHolds(items, seen \cup Loading)

\* What a turn is made of.
Phases == {"resting", "answered", "recorded", "preparing", "executing", "loading"}
Turns == [at : Phases, calls : Seq(Calls), asks : Seq(Nat \ {0}), batch : Nat, shortened : BOOLEAN]

\* A list with nothing twice.
Distinct(s) == \A j, k \in DOMAIN s : s[j] = s[k] => j = k

\* The calls of an answer that is not recorded are nobody's; those of one that is are made
\* by the items listed, and answered by none but the whole of the output being recorded.
TurnHolds ==
  /\ turn \in Turns /\ Distinct(turn.calls) /\ turn.batch <= ctx.taken
  /\ turn.at # "loading" => ToSet(turn.calls) \subseteq seen
  /\ turn.at \in {"answered", "recorded", "preparing"} => turn.batch = 0 /\ ~turn.shortened
  /\ turn.at \in {"answered", "recorded"} => turn.asks = <<>>
  /\ turn.at \in {"preparing", "executing"} => turn.calls # <<>>
  /\ turn.at = "answered" =>
       \A items \in VersionsOf(ctx) : NamedIn(items) \cap ToSet(turn.calls) = {}
  /\ turn.at \in {"recorded", "preparing", "executing"} =>
       /\ ctx.redo = <<>>
       /\ ToSet(turn.calls) \subseteq CallsMade(ctx.items)
       /\ \A k \in DOMAIN ctx.items :
            ctx.items[k].answers \in ToSet(turn.calls) =>
              turn.shortened /\ ctx.items[k].answers = turn.calls[1] /\ IsWhole(ctx.items[k])
  /\ turn.at = "preparing" =>
       Distinct(turn.asks) /\ \A k \in DOMAIN turn.asks : turn.asks[k] < permission

\* What a record is made of.
Whats == {"started", "resumed", "added", "moved", "repaired", "finished", "asked", "reserved"}
RecordType == [seq : Nat \ {0}, what : Whats, adds : SUBSET Nat, takes : SUBSET Nat,
               calls : SUBSET Calls, asks : Nat]

\* The number of the last record before this run's first.
Base == seq - Len(log)

\* The log of this run is numbered one by one, and with the records of the runs before it
\* shows the items there are.
LogHolds ==
  /\ log \in Seq(RecordType) /\ seq \in Nat /\ seq <= MaxSeq /\ Len(log) <= seq
  /\ \A k \in DOMAIN log : log[k].seq = Base + k
  /\ earlier \in Seq(RecordType)
  /\ \A k \in DOMAIN earlier : earlier[k].seq <= Base
  /\ ListedIn(earlier \o log) = Ids(ctx.items)

\* The numbers handed out stay in their bounds.
CountersHold == seen \subseteq Calls /\ permission \in 1..(MaxAsks + 1)

---------------------------------------------------------------------------
(* The recorder's half.                                                    *)

\* A run has its pair of files once it has claimed one: the last.
Claimed == process = "running" \/ doing.at # "idle"
Mine == Len(files)

\* What a pair of files is made of.
SnapshotType == [items : Seq(Item), next : Nat \ {0}, seq : Nat, used : SUBSET Calls,
                 permission : Nat \ {0}]
FileType == [log : Seq(RecordType), state : SnapshotType \cup {None}]

\* The items of a snapshot, with what it numbers next.
ItemsHold(snap) ==
  /\ VersionOK(snap.items, snap.next) /\ snap.next <= MaxItems + 1
  /\ VersionHolds(snap.items, Calls)

\* What the numbers of a snapshot say of a record: nothing it numbered is numbered by them.
CoversItems(snap, r) == r.what = "added" => r.adds \subseteq 1..(snap.next - 1)
CoversCalls(snap, r) == r.what = "finished" => r.calls \subseteq snap.used
CoversAsks(snap, r) == r.asks < snap.permission
Covers(snap, r) == CoversItems(snap, r) /\ CoversCalls(snap, r) /\ CoversAsks(snap, r)

\* The counters of the kernel as they are, as a snapshot.
Here == [items |-> ctx.items, next |-> ctx.next, seq |-> seq, used |-> seen, permission |-> permission]

\* What is known of the snapshot being taken grows with each hold of a lock.
Past(stage) == doing.at \in CASE stage = "items" -> {"calls", "permission", "log", "state"}
                              [] stage = "calls" -> {"permission", "log", "state"}
                              [] stage = "permission" -> {"log", "state"}

\* The records before a position are those numbered up to n.
CutAt(records, m, n) ==
  /\ m \in 0..Len(records)
  /\ \A k \in 1..m : records[k].seq <= n
  /\ \A k \in (m + 1)..Len(records) : records[k].seq > n

\* A snapshot that was written, with the log beside it.
FileHolds(f) ==
  /\ f.state.seq \in 1..MaxSeq /\ ItemsHold(f.state)
  /\ NamedIn(f.state.items) \subseteq f.state.used /\ f.state.permission <= MaxAsks + 1
  /\ \E m \in 0..Len(f.log) :
       CutAt(f.log, m, f.state.seq) /\ ListedIn(SubSeq(f.log, 1, m)) = Ids(f.state.items)
  /\ \A r \in ToSet(f.log) : /\ r.seq <= MaxSeq /\ r.asks <= MaxAsks
                             /\ r.what = "added" => r.adds \subseteq 1..MaxItems
                             /\ r.seq <= f.state.seq => Covers(f.state, r)

\* The snapshot a run would be carried on from, and what it would be carried on with.
Newest == files[Max(Resumable)]
Carried == PastSnapshot(Newest.state, Newest.log)

\* The record a run that started now would begin with.
Opening == IF Resumable = {} THEN Numbered(Event("started"), 1)
           ELSE Numbered(Event("resumed"), Carried.seq + 1)

\* The last snapshot there is numbers past everything the other files hold, but for the first
\* record of a run that ended before it had a snapshot of its own.
FilesHold ==
  /\ files \in Seq(FileType)
  /\ \A f \in Resumable : FileHolds(files[f])
  /\ \A g \in DOMAIN files : \A r \in ToSet(files[g].log) :
       \/ r = Opening /\ (Resumable = {} \/ g > Max(Resumable))
       \/ /\ Resumable # {}
          /\ \/ g = Max(Resumable)
             \/ r.seq <= Newest.state.seq /\ Covers(Newest.state, r)

\* While a run has no snapshot of its own yet, it is one record long and holds what it was
\* started with.
WiredHolds ==
  process = "wired" =>
    /\ log = <<Opening>>
    /\ earlier = IF Resumable = {} THEN <<>> ELSE Through(Newest.log, Newest.state.seq)
    /\ Claimed => Mine \notin Resumable

\* The numbers handed out next are nobody's in any file.
CountersCover == process # "down" => \A r \in Records : r.seq <= seq /\ Covers(Here, r)

\* Those the turn holds are in no record.
TurnUnused ==
  /\ turn.at \in {"answered", "recorded"} =>
       \A r \in Records : r.what = "finished" => r.calls \cap ToSet(turn.calls) = {}
  /\ turn.at = "preparing" =>
       \A r \in Records : \A k \in DOMAIN turn.asks : r.asks # turn.asks[k]

\* How far the log of this run has been brought.
Written == IF kept.written > Base THEN kept.written - Base ELSE 0

\* What is kept of the last pair: its log is the records before this run and as much of this
\* run's as was written, and its snapshot, when it is there, names one of those.
KeptHolds ==
  /\ kept \in [written : Nat, snapshotted : Nat] /\ kept.written <= seq
  /\ process = "down" => log = <<>> /\ seq = 0 /\ doing = Idle
  /\ process # "down" => log # <<>>
  /\ process = "running" => Mine \in Resumable
  /\ Claimed =>
       /\ files # <<>> /\ process # "down"
       /\ files[Mine].log = earlier \o SubSeq(log, 1, Written)
       /\ Mine \in Resumable =>
            /\ files[Mine].state.seq \in (Base + 1)..kept.written
            /\ kept.snapshotted = files[Mine].state.seq
            /\ process = "running"
       /\ Mine \notin Resumable => kept.snapshotted = 0

\* What is kept of the snapshot being taken, more of it with each lock that was held.
DoingHolds ==
  /\ doing.at \in {"idle", "items", "calls", "permission", "log", "state"}
  /\ doing.at = "idle" => doing = Idle
  /\ Past("items") =>
       /\ doing.snap \in SnapshotType /\ ItemsHold(doing.snap) /\ doing.snap.next <= ctx.next
       /\ doing.snap.seq \in (Base + 1)..seq
       /\ kept.snapshotted <= doing.snap.seq
       /\ ListedIn(earlier \o SubSeq(log, 1, doing.snap.seq - Base)) = Ids(doing.snap.items)
       /\ \A g \in DOMAIN files \ {Mine} : \A r \in ToSet(files[g].log) : r.seq <= doing.snap.seq
       /\ \A r \in Records : r.seq <= doing.snap.seq => CoversItems(doing.snap, r)
  /\ Past("calls") =>
       /\ NamedIn(doing.snap.items) \subseteq doing.snap.used
       /\ \A r \in Records : r.seq <= doing.snap.seq => CoversCalls(doing.snap, r)
  /\ Past("permission") =>
       /\ doing.snap.permission <= MaxAsks + 1
       /\ \A r \in Records : r.seq <= doing.snap.seq => CoversAsks(doing.snap, r)
  /\ doing.at = "state" => doing.snap.seq <= kept.written

\* The inductive invariant: NumberedOnce with what makes it hold.
RecordingInv ==
  /\ process \in {"down", "wired", "running"}
  /\ ContextHolds /\ TurnHolds /\ LogHolds /\ CountersHold
  /\ FilesHold /\ WiredHolds /\ CountersCover /\ TurnUnused /\ KeptHolds /\ DoingHolds
  /\ NumberedOnce

---------------------------------------------------------------------------
(* Numbers and sequences.                                                  *)

\* So is one no smaller than a given number, when that is a member.
LEMMA LeastOf ==
  ASSUME NEW S \in SUBSET Nat, S # {}
  PROVE  \E x \in S : \A y \in S : x <= y
<1>1. PICK top \in S : TRUE
  OBVIOUS
<1> DEFINE low == {x \in S : x <= top}
           T == {top - x : x \in low}
<1>2. T \in SUBSET Nat /\ T # {} /\ \A t \in T : t <= top
  <2>1. 0 \in T
    BY <1>1
  <2>. QED
    BY <2>1
<1>3. Max(T) \in T /\ \A t \in T : t <= Max(T)
  <2>. HIDE DEF T
  <2>. QED
    BY <1>1, <1>2, MaxOfBounded
<1>4. PICK x \in low : Max(T) = top - x
  BY <1>3
<1>5. ASSUME NEW y \in S PROVE x <= y
  <2>1. CASE y <= top
    <3>1. top - y \in T
      BY <2>1
    <3>. HIDE DEF T
    <3>. QED
      BY <1>3, <1>4, <3>1, <1>1
  <2>2. CASE y > top
    BY <1>1, <1>4, <2>2
  <2>. QED
    BY <2>1, <2>2, <1>1
<1>. QED
  BY <1>4, <1>5

\* The first part of a sequence, and what comes of a sequence put behind another.
LEMMA FirstPart ==
  ASSUME NEW S, NEW s \in Seq(S), NEW n \in 0..Len(s)
  PROVE  /\ SubSeq(s, 1, n) \in Seq(S) /\ Len(SubSeq(s, 1, n)) = n
         /\ DOMAIN SubSeq(s, 1, n) = 1..n
         /\ \A k \in 1..n : SubSeq(s, 1, n)[k] = s[k]
OBVIOUS

\* What comes after a position of a sequence.
LEMMA LastPart ==
  ASSUME NEW S, NEW s \in Seq(S), NEW n \in 0..Len(s)
  PROVE  LET rest == SubSeq(s, n + 1, Len(s))
         IN  /\ rest \in Seq(S) /\ Len(rest) = Len(s) - n
             /\ DOMAIN rest = 1..(Len(s) - n)
             /\ \A k \in 1..(Len(s) - n) : rest[k] = s[n + k]
OBVIOUS

\* Two sequences, one behind the other.
LEMMA JoinedUp ==
  ASSUME NEW S, NEW s \in Seq(S), NEW t \in Seq(S)
  PROVE  /\ s \o t \in Seq(S) /\ Len(s \o t) = Len(s) + Len(t)
         /\ DOMAIN (s \o t) = 1..(Len(s) + Len(t))
         /\ DOMAIN s = 1..Len(s) /\ DOMAIN t = 1..Len(t)
         /\ \A k \in 1..Len(s) : (s \o t)[k] = s[k]
         /\ \A k \in 1..Len(t) : (s \o t)[Len(s) + k] = t[k]
         /\ \A k \in 1..(Len(s) + Len(t)) : (s \o t)[k] = IF k <= Len(s) THEN s[k] ELSE t[k - Len(s)]
         /\ \A k \in (Len(s) + 1)..(Len(s) + Len(t)) : (s \o t)[k] = t[k - Len(s)]
         /\ ToSet(s \o t) = ToSet(s) \cup ToSet(t)
<1>1. /\ s \o t \in Seq(S) /\ Len(s \o t) = Len(s) + Len(t)
      /\ DOMAIN (s \o t) = 1..(Len(s) + Len(t))
      /\ DOMAIN s = 1..Len(s) /\ DOMAIN t = 1..Len(t)
      /\ \A k \in 1..Len(s) : (s \o t)[k] = s[k]
      /\ \A k \in 1..Len(t) : (s \o t)[Len(s) + k] = t[k]
      /\ Len(s) \in Nat /\ Len(t) \in Nat
  OBVIOUS
<1>2. \A k \in 1..(Len(s) + Len(t)) : (s \o t)[k] = IF k <= Len(s) THEN s[k] ELSE t[k - Len(s)]
  OBVIOUS
<1>3. ASSUME NEW x \in ToSet(s \o t) PROVE x \in ToSet(s) \cup ToSet(t)
  <2>1. PICK k \in 1..(Len(s) + Len(t)) : x = (s \o t)[k]
    BY <1>1 DEF ToSet
  <2>2. CASE k <= Len(s)
    BY <1>1, <1>2, <2>1, <2>2 DEF ToSet
  <2>3. CASE k > Len(s)
    <3>1. k - Len(s) \in DOMAIN t /\ x = t[k - Len(s)]
      BY <1>1, <1>2, <2>1, <2>3
    <3>. QED
      BY <3>1 DEF ToSet
  <2>. QED
    BY <1>1, <2>2, <2>3
<1>4. ToSet(s) \subseteq ToSet(s \o t)
  <2>1. DOMAIN s \subseteq DOMAIN (s \o t) /\ \A k \in DOMAIN s : (s \o t)[k] = s[k]
    BY <1>1
  <2>. QED
    BY <2>1 DEF ToSet
<1>5. ToSet(t) \subseteq ToSet(s \o t)
  <2>1. \A k \in DOMAIN t : Len(s) + k \in DOMAIN (s \o t) /\ (s \o t)[Len(s) + k] = t[k]
    BY <1>1
  <2>. QED
    BY <2>1 DEF ToSet
<1>. QED
  BY <1>1, <1>2, <1>3, <1>4, <1>5

\* What is in a sequence is at one of its places.
LEMMA InSet ==
  ASSUME NEW S, NEW s \in Seq(S)
  PROVE  /\ \A x \in ToSet(s) : \E k \in 1..Len(s) : s[k] = x
         /\ \A k \in 1..Len(s) : s[k] \in ToSet(s)
         /\ DOMAIN s = 1..Len(s) /\ Len(s) \in Nat /\ ToSet(s) \subseteq S
BY DEF ToSet

\* Of what a sequence of three parts is made.
LEMMA ThreeParts ==
  ASSUME NEW S, NEW r \in Seq(S), NEW s \in Seq(S), NEW t \in Seq(S)
  PROVE  (r \o s) \o t = r \o (s \o t)
OBVIOUS

\* The first part of a sequence, and then the part from there to a later place.
LEMMA PartThenPart ==
  ASSUME NEW S, NEW s \in Seq(S), NEW m \in 0..Len(s), NEW n \in m..Len(s)
  PROVE  SubSeq(s, 1, m) \o SubSeq(s, m + 1, n) = SubSeq(s, 1, n)
OBVIOUS

\* The first part of two sequences joined, when it takes in all of the first.
LEMMA PartBehind ==
  ASSUME NEW S, NEW s \in Seq(S), NEW t \in Seq(S), NEW n \in 0..Len(t)
  PROVE  SubSeq(s \o t, 1, Len(s) + n) = s \o SubSeq(t, 1, n)
OBVIOUS

\* ... and when it does not go beyond the first.
LEMMA PartBefore ==
  ASSUME NEW S, NEW s \in Seq(S), NEW t \in Seq(S), NEW n \in 0..Len(s)
  PROVE  SubSeq(s \o t, 1, n) = SubSeq(s, 1, n)
OBVIOUS

---------------------------------------------------------------------------
(* The log.                                                                *)

\* What an event says is a record once it is numbered.
EventType == [what : Whats, adds : SUBSET Nat, takes : SUBSET Nat, calls : SUBSET Calls, asks : Nat]

\* What the assumptions on the constants come to.
LEMMA RoomEnough ==
  /\ ROOM \in Nat /\ ROOM + ROOM <= TopId /\ TopId \in Nat
  /\ MaxItems \in Nat /\ MaxSeq \in Nat /\ MaxAsks \in Nat /\ MaxBatch \in Nat
  /\ MaxItems < ROOM /\ 0 < MaxSeq /\ MaxSeq <= ROOM /\ MaxAsks < ROOM /\ 0 < ROOM
  /\ NoCall \notin Calls /\ Ordinary # Whole /\ Ordinary \in Metas /\ Whole \in Metas
<1>1. ROOM \in Nat /\ ROOM + ROOM <= TopId /\ TopId \in Nat
  BY TopAssumption DEF ROOM
<1>2. /\ MaxItems \in Nat /\ MaxSeq \in Nat /\ MaxAsks \in Nat /\ MaxBatch \in Nat
      /\ MaxItems < ROOM /\ MaxSeq \in 1..ROOM /\ MaxAsks < ROOM
      /\ NoCall \notin Calls /\ Ordinary # Whole /\ Ordinary \in Metas /\ Whole \in Metas
  BY SessionAssumption
<1>. QED
  BY <1>1, <1>2

\* A numbered event is a record that says what the event does.
LEMMA NumberedIsRecord ==
  ASSUME NEW event \in EventType, NEW n \in Nat \ {0}
  PROVE  /\ Numbered(event, n) \in RecordType /\ Numbered(event, n).seq = n
         /\ Numbered(event, n).what = event.what /\ Numbered(event, n).adds = event.adds
         /\ Numbered(event, n).takes = event.takes /\ Numbered(event, n).calls = event.calls
         /\ Numbered(event, n).asks = event.asks
BY DEF Numbered, RecordType, EventType

\* What a record in a log is made of.
LEMMA RecordsTyped ==
  ASSUME NEW s \in Seq(RecordType), NEW k \in DOMAIN s
  PROVE  /\ s[k] \in RecordType /\ s[k].seq \in Nat /\ s[k].seq > 0 /\ s[k].what \in Whats
         /\ s[k].adds \subseteq Nat /\ s[k].takes \subseteq Nat /\ s[k].calls \subseteq Calls
         /\ s[k].asks \in Nat
<1>1. s[k] \in RecordType
  OBVIOUS
<1>. QED
  BY <1>1 DEF RecordType

\* The items of one log put behind another: those of the first that the second does not take,
\* and those of the second.
LEMMA ListedJoined ==
  ASSUME NEW r \in Seq(RecordType), NEW s \in Seq(RecordType)
  PROVE  ListedIn(r \o s) =
           {id \in ListedIn(r) : \A j \in DOMAIN s : id \notin s[j].takes} \cup ListedIn(s)
<1> DEFINE all == r \o s
           n == Len(r)
<1>1. /\ DOMAIN all = 1..(n + Len(s)) /\ DOMAIN r = 1..n /\ DOMAIN s = 1..Len(s)
      /\ \A k \in 1..n : all[k] = r[k]
      /\ \A k \in 1..Len(s) : all[n + k] = s[k]
      /\ Len(all) = n + Len(s) /\ n \in Nat /\ Len(s) \in Nat
  BY JoinedUp
<1> HIDE DEF all, n
<1>2. ASSUME NEW id \in ListedIn(all), id \notin ListedIn(s)
      PROVE  id \in ListedIn(r) /\ \A j \in DOMAIN s : id \notin s[j].takes
  <2>1. PICK k \in DOMAIN all : id \in all[k].adds /\ \A j \in (k + 1)..Len(all) : id \notin all[j].takes
    BY <1>2 DEF ListedIn
  <2>2. CASE k > n
    <3>1. k - n \in DOMAIN s /\ all[k] = s[k - n]
      <4>1. k - n \in 1..Len(s) /\ n + (k - n) = k
        BY <1>1, <2>2
      <4>. QED
        BY <4>1, <1>1
    <3>2. \A j \in (k - n + 1)..Len(s) : all[n + j] = s[j] /\ n + j \in (k + 1)..Len(all)
      BY <1>1, <2>2
    <3>3. \A j \in (k - n + 1)..Len(s) : id \notin s[j].takes
      BY <3>2, <2>1
    <3>. QED
      BY <3>1, <3>3, <2>1, <1>2, <1>1 DEF ListedIn
  <2>3. CASE k <= n
    <3>1. k \in DOMAIN r /\ all[k] = r[k]
      BY <1>1, <2>3
    <3>2. \A j \in (k + 1)..n : all[j] = r[j] /\ j \in (k + 1)..Len(all)
      BY <1>1, <2>3
    <3>3. \A j \in DOMAIN s : all[n + j] = s[j] /\ n + j \in (k + 1)..Len(all)
      BY <1>1, <2>3
    <3>. QED
      BY <3>1, <3>2, <3>3, <2>1, <1>2 DEF ListedIn, n
  <2>. QED
    BY <2>2, <2>3, <1>1
<1>3. ASSUME NEW id \in ListedIn(r), \A j \in DOMAIN s : id \notin s[j].takes
      PROVE  id \in ListedIn(all)
  <2>1. PICK k \in DOMAIN r : id \in r[k].adds /\ \A j \in (k + 1)..Len(r) : id \notin r[j].takes
    BY DEF ListedIn
  <2>2. k \in DOMAIN all /\ all[k] = r[k]
    BY <1>1
  <2>3. ASSUME NEW j \in (k + 1)..Len(all) PROVE id \notin all[j].takes
    <3>1. CASE j <= n
      BY <3>1, <1>1, <2>1 DEF n
    <3>2. CASE j > n
      <4>1. j - n \in DOMAIN s /\ n + (j - n) = j
        BY <1>1, <3>2
      <4>. QED
        BY <4>1, <1>1, <1>3
    <3>. QED
      BY <3>1, <3>2, <1>1
  <2>. QED
    BY <2>1, <2>2, <2>3, <1>3 DEF ListedIn
<1>4. ASSUME NEW id \in ListedIn(s) PROVE id \in ListedIn(all)
  <2>1. PICK k \in DOMAIN s : id \in s[k].adds /\ \A j \in (k + 1)..Len(s) : id \notin s[j].takes
    BY DEF ListedIn
  <2>2. n + k \in DOMAIN all /\ all[n + k] = s[k]
    BY <1>1
  <2>3. ASSUME NEW j \in (n + k + 1)..Len(all) PROVE id \notin all[j].takes
    <3>1. j - n \in (k + 1)..Len(s) /\ n + (j - n) = j /\ j - n \in 1..Len(s)
      BY <1>1
    <3>. QED
      BY <3>1, <1>1, <2>1
  <2>. QED
    BY <2>1, <2>2, <2>3, <1>4 DEF ListedIn
<1>5. ListedIn(all) \subseteq {id \in ListedIn(r) : \A j \in DOMAIN s : id \notin s[j].takes} \cup ListedIn(s)
  BY <1>2
<1>. QED
  BY <1>3, <1>4, <1>5 DEF all

\* A log that says nothing of items.
LEMMA QuietLists ==
  ASSUME NEW s \in Seq(RecordType), \A k \in DOMAIN s : s[k].adds = {} /\ s[k].takes = {}
  PROVE  ListedIn(s) = {} /\ \A r \in Seq(RecordType) : ListedIn(r \o s) = ListedIn(r)
<1>1. ListedIn(s) = {}
  BY DEF ListedIn
<1>2. ASSUME NEW r \in Seq(RecordType) PROVE ListedIn(r \o s) = ListedIn(r)
  <2>1. \A id \in ListedIn(r) : \A j \in DOMAIN s : id \notin s[j].takes
    OBVIOUS
  <2>2. ListedIn(r \o s) =
           {id \in ListedIn(r) : \A j \in DOMAIN s : id \notin s[j].takes} \cup ListedIn(s)
    BY ListedJoined
  <2>. QED
    BY <1>1, <2>1, <2>2
<1>. QED
  BY <1>1, <1>2

\* A log of one record that names some items.
LEMMA OneLists ==
  ASSUME NEW s \in Seq(RecordType), Len(s) = 1, s[1].adds \subseteq 1..MaxItems
  PROVE  /\ ListedIn(s) = s[1].adds
         /\ \A r \in Seq(RecordType) : ListedIn(r \o s) = (ListedIn(r) \ s[1].takes) \cup s[1].adds
<1>1. DOMAIN s = {1} /\ \A k \in DOMAIN s : (k + 1)..Len(s) = {}
  OBVIOUS
<1>2. ListedIn(s) = s[1].adds
  BY <1>1 DEF ListedIn
<1>. QED
  BY <1>1, <1>2, ListedJoined

\* A log of two records that add an item each.
LEMMA TwoList ==
  ASSUME NEW s \in Seq(RecordType), Len(s) = 2, \A k \in 1..2 : s[k].adds \subseteq 1..MaxItems /\ s[k].takes = {}
  PROVE  \A r \in Seq(RecordType) : ListedIn(r \o s) = ListedIn(r) \cup s[1].adds \cup s[2].adds
<1>1. DOMAIN s = {1, 2}
  OBVIOUS
<1>2. ListedIn(s) = s[1].adds \cup s[2].adds
  <2>1. \A k \in DOMAIN s : \A j \in (k + 1)..Len(s) : j \in DOMAIN s /\ s[j].takes = {}
    BY <1>1
  <2>2. ListedIn(s) = {id \in 1..MaxItems : \E k \in DOMAIN s : id \in s[k].adds}
    BY <2>1 DEF ListedIn
  <2>. QED
    BY <1>1, <2>2
<1>3. \A j \in DOMAIN s : s[j].takes = {}
  BY <1>1
<1>. QED
  BY <1>2, <1>3, ListedJoined

\* Where the records numbered up to a number end, those are what comes through and the others
\* are what has come since.
LEMMA CutThere ==
  ASSUME NEW records \in Seq(RecordType), NEW n \in Nat, NEW m, CutAt(records, m, n)
  PROVE  /\ Through(records, n) = SubSeq(records, 1, m)
         /\ Since(records, n) = SubSeq(records, m + 1, Len(records))
         /\ m \in 0..Len(records)
<1>1. m \in 0..Len(records) /\ Len(records) \in Nat /\ DOMAIN records = 1..Len(records)
  BY DEF CutAt
<1>2. {k \in DOMAIN records : records[k].seq <= n} = 1..m
  <2>1. ASSUME NEW k \in DOMAIN records, records[k].seq <= n PROVE k \in 1..m
    <3>1. records[k].seq \in Nat
      BY RecordsTyped
    <3>2. ~(records[k].seq > n)
      BY <2>1, <3>1
    <3>3. ~(k \in (m + 1)..Len(records))
      BY <3>2 DEF CutAt
    <3>. QED
      BY <3>3, <1>1
  <2>2. \A k \in 1..m : k \in DOMAIN records /\ records[k].seq <= n
    BY <1>1 DEF CutAt
  <2>. QED
    BY <2>1, <2>2
<1>3. Cardinality(1..m) = m
  BY <1>1, FS_Interval
<1>. QED
  BY <1>1, <1>2, <1>3 DEF Through, Since, PartitionPoint

\* A log numbered from a number on.
LEMMA NumberedParts ==
  ASSUME NEW records \in Seq(RecordType), NEW b \in Nat, \A k \in DOMAIN records : records[k].seq = b + k,
         NEW n \in Nat, n <= b + Len(records)
  PROVE  CutAt(records, IF n > b THEN n - b ELSE 0, n)
<1>1. Len(records) \in Nat /\ DOMAIN records = 1..Len(records)
  OBVIOUS
<1>. QED
  BY <1>1 DEF CutAt

\* ... behind records that all come before it.
LEMMA BehindParts ==
  ASSUME NEW before \in Seq(RecordType), NEW records \in Seq(RecordType), NEW b \in Nat, NEW n \in Nat,
         \A k \in DOMAIN records : records[k].seq = b + k,
         \A k \in DOMAIN before : before[k].seq <= b,
         b <= n, n <= b + Len(records)
  PROVE  /\ CutAt(before \o records, Len(before) + (n - b), n)
         /\ SubSeq(before \o records, 1, Len(before) + (n - b)) = before \o SubSeq(records, 1, n - b)
<1> DEFINE all == before \o records
<1>1. /\ DOMAIN all = 1..(Len(before) + Len(records))
      /\ DOMAIN before = 1..Len(before) /\ DOMAIN records = 1..Len(records)
      /\ \A k \in 1..Len(before) : all[k] = before[k]
      /\ \A k \in 1..(Len(before) + Len(records)) :
           all[k] = IF k <= Len(before) THEN before[k] ELSE records[k - Len(before)]
      /\ \A k \in (Len(before) + 1)..(Len(before) + Len(records)) : all[k] = records[k - Len(before)]
      /\ Len(all) = Len(before) + Len(records) /\ Len(before) \in Nat /\ Len(records) \in Nat
      /\ all \in Seq(RecordType)
  BY JoinedUp
<1>2. SubSeq(all, 1, Len(before) + (n - b)) = before \o SubSeq(records, 1, n - b)
  <2>1. n - b \in 0..Len(records)
    BY <1>1
  <2>. QED
    BY <2>1, PartBehind
<1> HIDE DEF all
<1>3. \A k \in DOMAIN before : before[k].seq \in Nat
  BY RecordsTyped
<1>4. \A k \in 1..(Len(before) + (n - b)) : all[k].seq <= n
  <2> TAKE k \in 1..(Len(before) + (n - b))
  <2>1. CASE k <= Len(before)
    BY <2>1, <1>1, <1>3
  <2>2. CASE k > Len(before)
    <3>1. k - Len(before) \in DOMAIN records /\ k \in (Len(before) + 1)..(Len(before) + Len(records))
      BY <2>2, <1>1
    <3>2. all[k] = records[k - Len(before)]
      BY <2>2, <3>1, <1>1
    <3>3. all[k].seq = b + (k - Len(before))
      BY <3>1, <3>2
    <3>. QED
      BY <3>3, <2>2, <1>1
  <2>. QED
    BY <2>1, <2>2, <1>1
<1>5. \A k \in (Len(before) + (n - b) + 1)..Len(all) : all[k].seq > n
  <2> TAKE k \in (Len(before) + (n - b) + 1)..Len(all)
  <2>1. k - Len(before) \in DOMAIN records /\ k \in 1..(Len(before) + Len(records)) /\ k > Len(before)
    BY <1>1
  <2>2. all[k] = records[k - Len(before)]
    BY <2>1, <1>1
  <2>3. all[k].seq = b + (k - Len(before))
    BY <2>1, <2>2
  <2>. QED
    BY <2>3, <2>1, <1>1
<1>6. Len(before) + (n - b) \in 0..Len(all)
  BY <1>1
<1>. QED
  BY <1>2, <1>4, <1>5, <1>6 DEF CutAt, all

---------------------------------------------------------------------------
(* A context taken from a snapshot that is in order.                       *)

\* Positions in their own order are themselves.
LEMMA PlacesInOrder ==
  ASSUME NEW n \in Nat, NEW before,
         \A j, k \in 1..n : <<j, k>> \in before <=> j < k
  PROVE  InOrder(1..n, before) = [k \in 1..n |-> k]
<1> DEFINE rank(x) == Cardinality({y \in 1..n : <<y, x>> \in before})
<1>1. Cardinality(1..n) = n
  BY FS_Interval
<1>2. ASSUME NEW x \in 1..n PROVE rank(x) = x - 1
  <2>1. {y \in 1..n : <<y, x>> \in before} = 1..(x - 1)
    OBVIOUS
  <2>2. Cardinality(1..(x - 1)) = x - 1
    BY FS_Interval
  <2>. QED
    BY <2>1, <2>2
<1> HIDE DEF rank
<1>3. ASSUME NEW k \in 1..n PROVE (CHOOSE x \in 1..n : rank(x) = k - 1) = k
  <2>1. rank(k) = k - 1 /\ \A x \in 1..n : rank(x) = k - 1 => x = k
    BY <1>2
  <2>. QED
    BY <2>1
<1>4. InOrder(1..n, before) = [k \in 1..n |-> CHOOSE x \in 1..n : rank(x) = k - 1]
  BY <1>1 DEF InOrder, rank
<1>. QED
  BY <1>3, <1>4

\* Putting a list in order that is in order changes nothing.
LEMMA SortedStays ==
  ASSUME NEW items \in Seq(Item), Sorted(items)
  PROVE  ById(items) = items
<1> DEFINE n == Len(items)
           Before(j, k) == items[j].id < items[k].id \/ (items[j].id = items[k].id /\ j < k)
           before == {pair \in (DOMAIN items) \X (DOMAIN items) : Before(pair[1], pair[2])}
<1>1. n \in Nat /\ DOMAIN items = 1..n
  OBVIOUS
<1>2. \A k \in 1..n : items[k].id \in Nat
  <2>1. \A k \in 1..n : items[k] \in Item
    BY <1>1
  <2>. QED
    BY <2>1 DEF Item
<1>3. ASSUME NEW j \in 1..n, NEW k \in 1..n PROVE <<j, k>> \in before <=> j < k
  <2>1. <<j, k>> \in before <=> Before(j, k)
    BY <1>1
  <2>2. j < k => items[j].id < items[k].id
    BY <1>1 DEF Sorted
  <2>3. k < j => items[k].id < items[j].id
    BY <1>1 DEF Sorted
  <2>. QED
    BY <2>1, <2>2, <2>3, <1>2
<1>4. ById(items) = [k \in DOMAIN items |-> items[InOrder(DOMAIN items, before)[k]]]
  BY DEF ById
<1>5. InOrder(1..n, before) = [k \in 1..n |-> k]
  <2>. HIDE DEF before, n
  <2>. QED
    BY <1>1, <1>3, PlacesInOrder
<1> HIDE DEF before, n
<1>. QED
  BY <1>1, <1>4, <1>5

\* A list in order, all of its numbers below the next, is restored as it is.
LEMMA RestoredAsIs ==
  ASSUME NEW items \in Seq(Item), NEW next \in Nat \ {0}, NEW counter,
         VersionOK(items, next), next < TopId,
         \A k \in DOMAIN items : items[k].priced = counter
  PROVE  Restored(items, next, counter) = [NewContext EXCEPT !.items = items, !.next = next]
<1> DEFINE free == Max({next, 1} \cup {SatInc(items[k].id) : k \in DOMAIN items})
           renumbered == {k \in DOMAIN items :
                            items[k].id = 0 \/ \E j \in 1..(k - 1) : items[j].id = items[k].id}
           number(k) == IF k \in renumbered
                        THEN SatAdd(free, Cardinality({j \in renumbered : j < k}))
                        ELSE items[k].id
           placed == [k \in DOMAIN items |-> [items[k] EXCEPT !.id = number(k), !.priced = counter]]
<1>1. ById(items) = items
  BY SortedStays DEF VersionOK
<1>2. /\ Len(items) \in Nat /\ DOMAIN items = 1..Len(items)
      /\ \A k \in DOMAIN items : items[k] \in Item /\ items[k].id \in 1..(next - 1)
  BY DEF VersionOK
<1>3. free = next
  <2> DEFINE S == {next, 1} \cup {SatInc(items[k].id) : k \in DOMAIN items}
  <2>1. \A k \in DOMAIN items : SatInc(items[k].id) \in Nat /\ SatInc(items[k].id) <= next
    BY <1>2, TopAssumption DEF SatInc
  <2>2. S \in SUBSET Nat /\ S # {} /\ (\A x \in S : x <= next) /\ next \in S
    BY <2>1
  <2> HIDE DEF S
  <2>3. Max(S) \in S /\ \A x \in S : x <= Max(S)
    BY <2>2, MaxOfBounded
  <2>4. Max(S) \in Nat /\ Max(S) <= next /\ next <= Max(S)
    BY <2>2, <2>3
  <2>5. Max(S) = next
    BY <2>4
  <2>. QED
    BY <2>5 DEF S
<1>4. renumbered = {}
  <2>1. ASSUME NEW k \in DOMAIN items PROVE k \notin renumbered
    <3>1. items[k].id # 0
      BY <1>2
    <3>2. \A j \in 1..(k - 1) : items[j].id # items[k].id
      <4> TAKE j \in 1..(k - 1)
      <4>1. j \in DOMAIN items /\ j < k
        BY <1>2
      <4>2. items[j].id < items[k].id /\ items[j].id \in Nat /\ items[k].id \in Nat
        BY <4>1, <1>2 DEF VersionOK, Sorted
      <4>. QED
        BY <4>2
    <3>. QED
      BY <3>1, <3>2
  <2>. QED
    BY <2>1
<1> HIDE DEF free, renumbered
<1>5. placed = items
  <2>1. ASSUME NEW k \in DOMAIN items
        PROVE  [items[k] EXCEPT !.id = number(k), !.priced = counter] = items[k]
    <3>1. number(k) = items[k].id /\ items[k].priced = counter /\ items[k] \in Item
      BY <1>2, <1>4
    <3>. QED
      BY <3>1 DEF Item
  <2>2. placed = [k \in DOMAIN items |-> items[k]]
    BY <2>1
  <2>3. items = [k \in DOMAIN items |-> items[k]]
    OBVIOUS
  <2>. QED
    BY <2>2, <2>3
<1>6. SatAdd(free, Cardinality(renumbered)) = next
  BY <1>3, <1>4, FS_EmptySet, TopAssumption DEF SatAdd
<1>7. Restored(items, next, counter) =
        [NewContext EXCEPT !.items = ById(placed), !.next = SatAdd(free, Cardinality(renumbered))]
  BY <1>1, SMTT(30) DEF Restored, free, renumbered
<1>. QED
  BY <1>1, <1>5, <1>6, <1>7

---------------------------------------------------------------------------
(* Items, and the lists of them a context shows.                           *)

\* The items the kernel makes, with what they call and what they answer.
LEMMA ItemsMade ==
  /\ Counter \in Counters
  /\ Blank \in Item /\ Blank.calls = <<>> /\ Blank.answers = NoCall
  /\ \A calls \in Seq(Calls) :
       Turn(calls) \in Item /\ Turn(calls).calls = calls /\ Turn(calls).answers = NoCall
  /\ \A call \in Calls :
       /\ Result(call) \in Item /\ Result(call).calls = <<>> /\ Result(call).answers = call
       /\ WholeOf(call) \in Item /\ WholeOf(call).calls = <<>> /\ WholeOf(call).answers = call
       /\ IsWhole(WholeOf(call)) /\ ~IsWhole(Result(call))
<1>1. Counter \in Counters
  BY SessionAssumption DEF Counter
<1>2. (CHOOSE t \in Texts : TRUE) \in Texts /\ Ordinary \in Metas /\ Whole \in Metas /\ Ordinary # Whole
  BY SessionAssumption
<1> HIDE DEF Counter
<1>3. Blank \in Item
  BY <1>1, <1>2 DEF Blank, Item, Kinds, States
<1>. QED
  BY <1>1, <1>2, <1>3 DEF Turn, Result, WholeOf, Blank, Item, Kinds, States, IsWhole

\* An item as `add` puts it.
Put(item, id) == [item EXCEPT !.id = id, !.priced = Counter]

\* An item that is numbered is the same item otherwise.
LEMMA PutIsItem ==
  ASSUME NEW item \in Item, NEW id \in Nat
  PROVE  /\ Put(item, id) \in Item /\ Put(item, id).id = id /\ Put(item, id).priced = Counter
         /\ Put(item, id).calls = item.calls /\ Put(item, id).answers = item.answers
         /\ IsWhole(Put(item, id)) = IsWhole(item)
         /\ Named(Put(item, id)) = Named(item)
<1>1. Counter \in Counters
  BY ItemsMade
<1>2. Put(item, id) \in Item /\ Put(item, id).id = id /\ Put(item, id).priced = Counter
  BY <1>1 DEF Put, Item
<1>3. Put(item, id).calls = item.calls /\ Put(item, id).answers = item.answers
      /\ Put(item, id).meta = item.meta
  BY DEF Put, Item
<1>. QED
  BY <1>2, <1>3 DEF IsWhole, Named

\* A list with one more item, whose calls are nobody's and which answers as it should.
LEMMA OneMoreItem ==
  ASSUME NEW v \in Seq(Item), NEW named, VersionHolds(v, named), NEW x \in Item, NEW wider,
         named \subseteq wider, Named(x) \subseteq wider, x.priced = Counter,
         ToSet(x.calls) \cap CallsMade(v) = {},
         x.answers # NoCall =>
           /\ x.answers \in CallsMade(v)
           /\ \A k \in DOMAIN v : v[k].answers = x.answers => IsWhole(v[k]) # IsWhole(x)
  PROVE  /\ VersionHolds(Append(v, x), wider) /\ Append(v, x) \in Seq(Item)
         /\ CallsMade(Append(v, x)) = CallsMade(v) \cup ToSet(x.calls)
         /\ NamedIn(Append(v, x)) = NamedIn(v) \cup Named(x)
<1> DEFINE w == Append(v, x)
           n == Len(v)
<1>1. /\ w \in Seq(Item) /\ DOMAIN w = 1..(n + 1) /\ DOMAIN v = 1..n /\ n \in Nat
      /\ \A k \in 1..n : w[k] = v[k]
      /\ w[n + 1] = x
  OBVIOUS
<1> HIDE DEF w, n
<1>2. CallsMade(w) = CallsMade(v) \cup ToSet(x.calls)
  <2>1. CallsMade(w) \subseteq CallsMade(v) \cup ToSet(x.calls)
    BY <1>1 DEF CallsMade
  <2>2. CallsMade(v) \subseteq CallsMade(w) /\ ToSet(x.calls) \subseteq CallsMade(w)
    BY <1>1 DEF CallsMade
  <2>. QED
    BY <2>1, <2>2
<1>3. NamedIn(w) = NamedIn(v) \cup Named(x)
  <2>1. NamedIn(w) \subseteq NamedIn(v) \cup Named(x)
    BY <1>1 DEF NamedIn
  <2>2. NamedIn(v) \subseteq NamedIn(w) /\ Named(x) \subseteq NamedIn(w)
    BY <1>1 DEF NamedIn
  <2>. QED
    BY <2>1, <2>2
<1>4. \A k \in DOMAIN w : w[k].priced = Counter
  BY <1>1 DEF VersionHolds
<1>5. ASSUME NEW j \in DOMAIN w, NEW k \in DOMAIN w, j # k
      PROVE  ToSet(w[j].calls) \cap ToSet(w[k].calls) = {}
  <2>1. CASE j \in 1..n /\ k \in 1..n
    BY <2>1, <1>1, <1>5 DEF VersionHolds, Paired
  <2>2. CASE j = n + 1 /\ k \in 1..n
    BY <2>2, <1>1 DEF CallsMade
  <2>3. CASE k = n + 1 /\ j \in 1..n
    BY <2>3, <1>1 DEF CallsMade
  <2>. QED
    BY <2>1, <2>2, <2>3, <1>1, <1>5
<1>6. ASSUME NEW k \in DOMAIN w, w[k].answers # NoCall
      PROVE  /\ \E j \in 1..(k - 1) : w[k].answers \in ToSet(w[j].calls)
             /\ \A j \in 1..(k - 1) :
                  w[j].answers = w[k].answers => IsWhole(w[j]) # IsWhole(w[k])
  <2>1. CASE k \in 1..n
    <3>1. w[k] = v[k] /\ \A j \in 1..(k - 1) : w[j] = v[j]
      BY <2>1, <1>1
    <3>2. k \in DOMAIN v
      BY <2>1, <1>1
    <3>. QED
      BY <3>1, <3>2, <1>6 DEF VersionHolds, Paired
  <2>2. CASE k = n + 1
    <3>1. w[k] = x /\ k - 1 = n /\ \A j \in 1..n : w[j] = v[j] /\ j \in DOMAIN v
      BY <2>2, <1>1
    <3>2. PICK j \in DOMAIN v : x.answers \in ToSet(v[j].calls)
      BY <3>1, <1>6 DEF CallsMade
    <3>. QED
      BY <3>1, <3>2, <1>1, <1>6
  <2>. QED
    BY <2>1, <2>2, <1>1
<1>7. NamedIn(w) \subseteq wider
  BY <1>3 DEF VersionHolds
<1>8. VersionHolds(w, wider)
  BY <1>4, <1>5, <1>6, <1>7 DEF VersionHolds, Paired
<1>. QED
  BY <1>1, <1>2, <1>3, <1>8 DEF w

\* What is named by fewer is named by more.
LEMMA NamedWider ==
  ASSUME NEW v, NEW named, NEW wider, named \subseteq wider, VersionHolds(v, named)
  PROVE  VersionHolds(v, wider)
BY DEF VersionHolds

\* The lists of a context that was checkpointed or folded are lists it had.
LEMMA CheckpointLists ==
  ASSUME NEW c, WellFormed(c)
  PROVE  LET e == Checkpoint(c)
         IN  /\ WellFormed(e) /\ e.items = c.items /\ e.next = c.next /\ e.redo = <<>>
             /\ e.taken = c.taken + 1 /\ VersionsOf(e) \subseteq VersionsOf(c)
<1> DEFINE e == Checkpoint(c)
<1>1. /\ WellFormed(e) /\ e.redo = <<>> /\ e.taken = c.taken + 1 /\ OnTop(c.undo, c.items, e.undo)
      /\ e.items = c.items /\ e.next = c.next
  BY CheckpointEdits DEF Edited
<1> HIDE DEF e
<1>2. ToSet(e.undo) \subseteq ToSet(c.undo) \cup {c.items}
  BY <1>1 DEF OnTop, ToSet
<1>3. ToSet(e.redo) = {}
  BY <1>1 DEF ToSet
<1>4. VersionsOf(e) \subseteq VersionsOf(c)
  BY <1>1, <1>2, <1>3 DEF VersionsOf
<1>. QED
  BY <1>1, <1>4 DEF e

\* ... nor does folding checkpoints add any.
LEMMA FoldLists ==
  ASSUME NEW c, WellFormed(c), NEW taken \in Nat, taken <= c.taken
  PROVE  LET e == FoldSince(c, taken)
         IN  /\ WellFormed(e) /\ e.items = c.items /\ e.next = c.next /\ e.redo = c.redo
             /\ e.taken = taken /\ VersionsOf(e) \subseteq VersionsOf(c)
<1> DEFINE e == FoldSince(c, taken)
<1>1. /\ WellFormed(e) /\ e.items = c.items /\ e.next = c.next /\ e.redo = c.redo /\ e.taken = taken
      /\ \A k \in DOMAIN e.undo : k \in DOMAIN c.undo /\ e.undo[k] = c.undo[k]
  BY FoldedKeepsOlder
<1> HIDE DEF e
<1>2. VersionsOf(e) \subseteq VersionsOf(c)
  BY <1>1 DEF VersionsOf, ToSet
<1>. QED
  BY <1>1, <1>2 DEF e

\* One item added to a context with nothing to redo.
LEMMA OneAdded ==
  ASSUME NEW e, WellFormed(e), e.redo = <<>>, NEW item \in Item, e.next + 1 <= TopId
  PROVE  LET d == Add(e, item, Counter)
         IN  /\ WellFormed(d) /\ d.next = e.next + 1 /\ d.redo = <<>> /\ d.taken = e.taken
             /\ d.items = Append(e.items, Put(item, e.next))
             /\ Ids(d.items) = Ids(e.items) \cup {e.next}
             /\ VersionsOf(d) \subseteq VersionsOf(e) \cup {d.items}
<1> DEFINE d == Add(e, item, Counter)
<1>1. e \in ContextType /\ e.next \in Nat \ {0} /\ Counter \in Counters
  BY Parts, ItemsMade
<1>2. <<item>> \in Seq(Item) /\ Len(<<item>>) = 1 /\ d = AddAll(e, <<item>>, Counter)
  BY <1>1, AddIsAddAll
<1>3. /\ WellFormed(d) /\ d.undo = e.undo /\ d.redo = <<>> /\ d.taken = e.taken
      /\ d.next = e.next + Len(<<item>>)
      /\ Ids(d.items) = Ids(e.items) \cup (e.next .. (d.next - 1))
  <2>. HIDE DEF d
  <2>. QED
    BY <1>1, <1>2, Grown
<1>4. d.items = Append(e.items, Put(item, e.next))
  BY <1>1 DEF Add, ContextType, Put
<1> HIDE DEF d
<1>5. d.next = e.next + 1 /\ (e.next .. (d.next - 1)) = {e.next}
  BY <1>1, <1>2, <1>3
<1>6. VersionsOf(d) \subseteq VersionsOf(e) \cup {d.items}
  BY <1>3 DEF VersionsOf, ToSet
<1>. QED
  BY <1>3, <1>4, <1>5, <1>6 DEF d

\* Two items added at once are the last two of the list, one numbered after the other.
LEMMA BothAdded ==
  ASSUME NEW e, WellFormed(e), e.redo = <<>>, NEW one \in Item, NEW other \in Item
  PROVE  LET d == AddAll(e, <<one, other>>, Counter)
         IN  /\ WellFormed(d) /\ d.next = e.next + 2 /\ d.redo = <<>> /\ d.taken = e.taken
             /\ d.items = Append(Append(e.items, Put(one, e.next)), Put(other, e.next + 1))
             /\ Ids(d.items) = Ids(e.items) \cup {e.next, e.next + 1}
             /\ VersionsOf(d) \subseteq VersionsOf(e) \cup {d.items}
<1> DEFINE d == AddAll(e, <<one, other>>, Counter)
           new == <<one, other>>
           fresh == [k \in DOMAIN new |-> [new[k] EXCEPT !.id = e.next + k - 1, !.priced = Counter]]
<1>1. e \in ContextType /\ e.next \in Nat \ {0} /\ Counter \in Counters /\ e.items \in Seq(Item)
  BY Parts, ItemsMade
<1>2. new \in Seq(Item) /\ Len(new) = 2 /\ DOMAIN new = {1, 2} /\ new[1] = one /\ new[2] = other
  OBVIOUS
<1>3. fresh = <<Put(one, e.next), Put(other, e.next + 1)>>
  <2>1. e.next + 1 - 1 = e.next /\ e.next + 2 - 1 = e.next + 1
    BY <1>1
  <2>2. fresh = [k \in {1, 2} |-> IF k = 1 THEN Put(one, e.next) ELSE Put(other, e.next + 1)]
    BY <1>2, <2>1 DEF Put
  <2>3. <<Put(one, e.next), Put(other, e.next + 1)>> =
          [k \in {1, 2} |-> IF k = 1 THEN Put(one, e.next) ELSE Put(other, e.next + 1)]
    OBVIOUS
  <2>. QED
    BY <2>2, <2>3
<1>4. d.items = e.items \o fresh
  BY <1>1 DEF AddAll, ContextType
<1>5. /\ WellFormed(d) /\ d.undo = e.undo /\ d.redo = <<>> /\ d.taken = e.taken
      /\ d.next = e.next + Len(new)
      /\ Ids(d.items) = Ids(e.items) \cup (e.next .. (d.next - 1))
  <2>1. d = AddAll(e, new, Counter) /\ new \in Seq(Item)
    BY <1>2
  <2>. HIDE DEF d, new
  <2>2. LET f == AddAll(e, new, Counter)
        IN  /\ WellFormed(f) /\ f.undo = e.undo /\ f.redo = <<>> /\ f.taken = e.taken
            /\ f.next = e.next + Len(new) /\ e.next <= f.next
            /\ Ids(f.items) = Ids(e.items) \cup (e.next .. (f.next - 1))
    BY <1>1, <2>1, Grown
  <2>. QED
    BY <2>1, <2>2
<1> HIDE DEF d, fresh, new
<1>6. d.next = e.next + 2 /\ (e.next .. (d.next - 1)) = {e.next, e.next + 1}
  BY <1>1, <1>2, <1>5
<1>7. e.items \o fresh = Append(Append(e.items, Put(one, e.next)), Put(other, e.next + 1))
  <2>0. e.next \in Nat /\ e.next + 1 \in Nat
    BY <1>1
  <2>1. Put(one, e.next) \in Item /\ Put(other, e.next + 1) \in Item
    BY <2>0, PutIsItem
  <2>. QED
    BY <1>1, <1>3, <2>1
<1>8. VersionsOf(d) \subseteq VersionsOf(e) \cup {d.items}
  BY <1>5 DEF VersionsOf, ToSet
<1>. QED
  BY <1>4, <1>5, <1>6, <1>7, <1>8 DEF d, new

---------------------------------------------------------------------------
(* A step of the kernel: what it says in the log, and what it numbers.     *)

\* What is kept of the kernel by a kernel's step.
Covered == \A r \in Records : r \in RecordType /\ r.seq <= seq /\ Covers(Here, r)
KernelHolds == ContextHolds /\ TurnHolds /\ LogHolds /\ CountersHold /\ TurnUnused /\ Covered

\* What the new records number is nobody's yet, and is behind the counters when they are there.
Fresh(new, k) ==
  /\ new[k].what = "added" =>
       /\ new[k].adds # {} /\ new[k].adds \subseteq ctx.next .. (ctx'.next - 1)
       /\ \A j \in DOMAIN new : new[j].what = "added" /\ new[j].adds = new[k].adds => j = k
  /\ new[k].what = "finished" =>
       /\ Len(new) = 1 /\ new[k].calls \subseteq seen'
       /\ \A r \in Records : r.what = "finished" => r.calls \cap new[k].calls = {}
  /\ new[k].asks < permission'
  /\ new[k].asks # 0 =>
       /\ \A r \in Records : r.asks # new[k].asks
       /\ \A j \in DOMAIN new : new[j].asks = new[k].asks => j = k

\* The log goes on with these records, numbered one by one.
LogGrows(new) ==
  /\ new \in Seq(RecordType)
  /\ log' = log \o new /\ seq' = seq + Len(new) /\ seq' <= MaxSeq
  /\ \A k \in DOMAIN new : new[k].seq = seq + k

\* No counter goes back.
CountersGrow ==
  /\ ctx'.next \in Nat \ {0} /\ ctx.next <= ctx'.next
  /\ seen \subseteq seen' /\ permission' \in Nat /\ permission <= permission'

\* What every step of the kernel does.
Moves(new) == LogGrows(new) /\ CountersGrow /\ \A k \in DOMAIN new : Fresh(new, k)

\* The log with a few events more.
LEMMA Emitted ==
  ASSUME LogHolds, NEW events \in Seq(EventType), Emit(events)
  PROVE  \E new : /\ LogGrows(new) /\ Len(new) = Len(events) /\ DOMAIN new = DOMAIN events
                  /\ \A k \in DOMAIN new : new[k] = Numbered(events[k], seq + k)
<1> DEFINE new == [k \in DOMAIN events |-> Numbered(events[k], seq + k)]
<1>1. DOMAIN events = 1..Len(events) /\ Len(events) \in Nat /\ seq \in Nat
  BY DEF LogHolds
<1>2. \A k \in DOMAIN events : new[k] \in RecordType /\ new[k].seq = seq + k
  <2> TAKE k \in DOMAIN events
  <2>1. events[k] \in EventType /\ seq + k \in Nat \ {0}
    BY <1>1
  <2>. QED
    BY <2>1, NumberedIsRecord
<1>3. new \in Seq(RecordType) /\ Len(new) = Len(events)
  <2>1. new = [k \in DOMAIN events |-> new[k]]
    OBVIOUS
  <2>. HIDE DEF new
  <2>. QED
    BY <1>2, <2>1, MadeFrom
<1>4. log' = log \o new /\ seq' = seq + Len(new) /\ seq' <= MaxSeq
  BY <1>3 DEF Emit
<1>5. DOMAIN new = DOMAIN events /\ \A k \in DOMAIN new : new[k] = Numbered(events[k], seq + k)
  OBVIOUS
<1> HIDE DEF new
<1>. QED
  BY <1>2, <1>3, <1>4, <1>5 DEF LogGrows

\* The log is numbered on from where it was, and begins where it did.
LEMMA LogGrown ==
  ASSUME LogHolds, NEW new, LogGrows(new)
  PROVE  /\ log' \in Seq(RecordType) /\ seq' \in Nat /\ seq' <= MaxSeq /\ Len(log') <= seq'
         /\ Base' = Base /\ Base \in Nat /\ seq <= seq' /\ Len(log) <= Len(log')
         /\ \A k \in DOMAIN log' : log'[k].seq = Base + k
         /\ ToSet(log') = ToSet(log) \cup ToSet(new)
         /\ earlier \o log' = (earlier \o log) \o new
         /\ \A n \in 0..Len(log) : SubSeq(log', 1, n) = SubSeq(log, 1, n)
<1>1. /\ log \in Seq(RecordType) /\ new \in Seq(RecordType) /\ earlier \in Seq(RecordType)
      /\ log' = log \o new /\ seq \in Nat /\ Len(log) <= seq /\ seq' = seq + Len(new)
      /\ seq' <= MaxSeq
      /\ \A k \in DOMAIN log : log[k].seq = Base + k
      /\ \A k \in DOMAIN new : new[k].seq = seq + k
  BY DEF LogHolds, LogGrows
<1> DEFINE more == log \o new
<1>2. /\ more \in Seq(RecordType) /\ Len(more) = Len(log) + Len(new)
      /\ DOMAIN more = 1..(Len(log) + Len(new))
      /\ DOMAIN log = 1..Len(log) /\ DOMAIN new = 1..Len(new)
      /\ \A k \in 1..Len(log) : more[k] = log[k]
      /\ \A k \in 1..Len(new) : more[Len(log) + k] = new[k]
      /\ ToSet(more) = ToSet(log) \cup ToSet(new)
      /\ Len(log) \in Nat /\ Len(new) \in Nat
  BY <1>1, JoinedUp
<1>3. earlier \o more = (earlier \o log) \o new
  <2>1. earlier \in Seq(RecordType) /\ log \in Seq(RecordType) /\ new \in Seq(RecordType)
    BY <1>1
  <2>2. (earlier \o log) \o new = earlier \o (log \o new)
    BY <2>1, ThreeParts
  <2>. QED
    BY <2>2
<1>4. \A n \in 0..Len(log) : SubSeq(more, 1, n) = SubSeq(log, 1, n)
  BY <1>1, PartBefore
<1>5. log' = more
  BY <1>1
<1> HIDE DEF more
<1>6. Base' = Base /\ Base \in Nat /\ Len(log') <= seq' /\ seq <= seq' /\ seq' \in Nat
      /\ Len(log) <= Len(log')
  <2>1. /\ Len(log') = Len(log) + Len(new) /\ seq' = seq + Len(new) /\ seq \in Nat
        /\ Len(log) \in Nat /\ Len(new) \in Nat /\ Len(log) <= seq
    BY <1>1, <1>2, <1>5
  <2>2. Base = seq - Len(log) /\ Base' = seq' - Len(log')
    BY DEF Base
  <2>. QED
    BY <2>1, <2>2
<1>7. ASSUME NEW k \in DOMAIN more PROVE more[k].seq = Base + k
  <2>1. CASE k <= Len(log)
    BY <1>1, <1>2, <2>1
  <2>2. CASE k > Len(log)
    <3>1. k - Len(log) \in 1..Len(new) /\ Len(log) + (k - Len(log)) = k
      BY <1>2, <2>2
    <3>2. more[k] = new[k - Len(log)]
      BY <1>2, <3>1
    <3>3. more[k].seq = seq + (k - Len(log))
      BY <1>1, <1>2, <3>1, <3>2
    <3>. QED
      BY <1>1, <1>2, <3>3, <2>2 DEF Base
  <2>. QED
    BY <2>1, <2>2, <1>2
<1>. QED
  BY <1>1, <1>2, <1>3, <1>4, <1>5, <1>6, <1>7

\* What the kernel's step leaves of the invariant, whatever it was.
LEMMA KernelHeld ==
  ASSUME KernelHolds, NEW new, Moves(new), UNCHANGED recorder,
         ListedIn((earlier \o log) \o new) = Ids(ctx'.items)
  PROVE  LogHolds' /\ Covered' /\ Records' = Records \cup ToSet(new)
<1>1. LogHolds /\ LogGrows(new) /\ earlier' = earlier /\ files' = files /\ CountersGrow
  BY DEF KernelHolds, Moves, recorder
<1>2. /\ log' \in Seq(RecordType) /\ seq' \in Nat /\ seq' <= MaxSeq /\ Len(log') <= seq'
      /\ Base' = Base /\ Base \in Nat /\ seq <= seq'
      /\ \A k \in DOMAIN log' : log'[k].seq = Base + k
      /\ ToSet(log') = ToSet(log) \cup ToSet(new)
      /\ earlier \o log' = (earlier \o log) \o new
  BY <1>1, LogGrown
<1>3. LogHolds'
  BY <1>1, <1>2 DEF LogHolds
<1>4. Records' = Records \cup ToSet(new)
  BY <1>1, <1>2 DEF Records
<1>5. /\ seq \in Nat /\ seq' \in Nat /\ seq <= seq' /\ permission \in Nat /\ permission' \in Nat
      /\ ctx.next \in Nat /\ ctx'.next \in Nat
      /\ seen \subseteq seen' /\ permission <= permission' /\ ctx.next <= ctx'.next
  <2>1. ctx.next \in Nat
    BY Parts DEF KernelHolds, ContextHolds
  <2>2. permission \in Nat
    BY RoomEnough DEF KernelHolds, CountersHold
  <2>. QED
    BY <1>1, <1>2, <2>1, <2>2 DEF CountersGrow, LogHolds
<1>6. ASSUME NEW r \in Records
      PROVE  r \in RecordType /\ r.seq <= seq' /\ Covers(Here, r)'
  <2>1. r \in RecordType /\ r.seq <= seq /\ Covers(Here, r)
    BY <1>6 DEF KernelHolds, Covered
  <2>2. r.seq \in Nat /\ r.asks \in Nat /\ r.adds \subseteq Nat
    BY <2>1 DEF RecordType
  <2>3. r.seq <= seq'
    BY <1>5, <2>1, <2>2
  <2>4. r.what = "added" => r.adds \subseteq 1..(ctx'.next - 1)
    <3>1. r.what = "added" => r.adds \subseteq 1..(ctx.next - 1)
      BY <2>1 DEF Covers, CoversItems, Here
    <3>. QED
      BY <3>1, <1>5
  <2>5. r.what = "finished" => r.calls \subseteq seen'
    BY <2>1, <1>5 DEF Covers, CoversCalls, Here
  <2>6. r.asks < permission'
    BY <2>1, <2>2, <1>5 DEF Covers, CoversAsks, Here
  <2>. QED
    BY <2>1, <2>3, <2>4, <2>5, <2>6 DEF Covers, CoversItems, CoversCalls, CoversAsks, Here
<1>7. ASSUME NEW r \in ToSet(new)
      PROVE  r \in RecordType /\ r.seq <= seq' /\ Covers(Here, r)'
  <2>1. new \in Seq(RecordType)
    BY <1>1 DEF LogGrows
  <2>2. PICK k \in DOMAIN new : new[k] = r
    BY DEF ToSet
  <2>3. r \in RecordType /\ Fresh(new, k) /\ r.seq = seq + k /\ seq' = seq + Len(new)
        /\ k \in 1..Len(new) /\ Len(new) \in Nat
    BY <2>1, <2>2 DEF Moves, LogGrows
  <2>4. r.seq <= seq'
    BY <2>3, <1>5
  <2>5. r.what = "added" => r.adds \subseteq 1..(ctx'.next - 1)
    <3>1. r.what = "added" => r.adds \subseteq ctx.next .. (ctx'.next - 1)
      BY <2>2, <2>3 DEF Fresh
    <3>2. ctx.next \in Nat \ {0}
      BY Parts DEF KernelHolds, ContextHolds
    <3>. QED
      BY <3>1, <3>2, <1>5
  <2>6. r.what = "finished" => r.calls \subseteq seen'
    BY <2>2, <2>3 DEF Fresh
  <2>7. r.asks < permission'
    BY <2>2, <2>3 DEF Fresh
  <2>. QED
    BY <2>3, <2>4, <2>5, <2>6, <2>7 DEF Covers, CoversItems, CoversCalls, CoversAsks, Here
<1>8. Covered'
  BY <1>4, <1>6, <1>7 DEF Covered
<1>. QED
  BY <1>3, <1>4, <1>8

\* What a step says of an item it adds.
LEMMA AddedSaid ==
  ASSUME KernelHolds, UNCHANGED recorder, Emit(<<Added(ctx.next)>>), Room(1),
         ctx'.next = ctx.next + 1, Ids(ctx'.items) = Ids(ctx.items) \cup {ctx.next},
         seen' = seen, permission' = permission
  PROVE  /\ LogHolds' /\ Covered'
         /\ \E new : /\ Moves(new) /\ Records' = Records \cup ToSet(new)
                     /\ \A r \in ToSet(new) : r.what # "finished" /\ r.asks = 0
<1>1. /\ LogHolds /\ ctx.next \in Nat \ {0} /\ ctx.next <= MaxItems /\ permission \in Nat \ {0}
      /\ MaxItems \in Nat
  <2>1. ctx.next \in Nat \ {0}
    BY Parts DEF KernelHolds, ContextHolds
  <2>. QED
    BY <2>1, RoomEnough DEF KernelHolds, CountersHold, Room
<1> DEFINE event == Added(ctx.next)
           events == <<event>>
<1>2. /\ event \in EventType /\ event.what = "added" /\ event.adds = {ctx.next}
      /\ event.takes = {} /\ event.asks = 0
  BY <1>1 DEF Added, Event, EventType, Whats
<1> HIDE DEF event
<1>3. events \in Seq(EventType) /\ Len(events) = 1 /\ events[1] = event /\ DOMAIN events = {1}
  BY <1>2
<1>4. Emit(events)
  BY DEF event
<1> HIDE DEF events
<1>5. PICK new : /\ LogGrows(new) /\ Len(new) = 1 /\ DOMAIN new = {1}
                 /\ new[1] = Numbered(event, seq + 1)
  BY <1>1, <1>3, <1>4, Emitted
<1>6. /\ new[1].what = "added" /\ new[1].adds = {ctx.next} /\ new[1].takes = {}
      /\ new[1].asks = 0
  BY <1>2, <1>5 DEF Numbered
<1>7. Fresh(new, 1)
  <2>1. {ctx.next} \subseteq ctx.next .. (ctx'.next - 1) /\ {ctx.next} # {} /\ 0 < permission'
    BY <1>1
  <2>2. \A j \in DOMAIN new : j = 1
    BY <1>5
  <2>3. new[1].what # "finished"
    BY <1>6
  <2>. QED
    BY <1>6, <2>1, <2>2, <2>3 DEF Fresh
<1>8. CountersGrow
  BY <1>1 DEF CountersGrow
<1>9. Moves(new)
  BY <1>5, <1>7, <1>8 DEF Moves
<1>10. ListedIn((earlier \o log) \o new) = Ids(ctx'.items)
  <2>1. earlier \o log \in Seq(RecordType) /\ new \in Seq(RecordType)
    <3>1. earlier \in Seq(RecordType) /\ log \in Seq(RecordType)
      BY <1>1 DEF LogHolds
    <3>. QED
      BY <1>5, <3>1, JoinedUp DEF LogGrows
  <2>2. new[1].adds \subseteq 1..MaxItems
    BY <1>1, <1>6
  <2>3. ListedIn((earlier \o log) \o new) = (ListedIn(earlier \o log) \ new[1].takes) \cup new[1].adds
    BY <1>5, <2>1, <2>2, OneLists
  <2>. QED
    BY <1>1, <1>6, <2>3 DEF LogHolds
<1>11. LogHolds' /\ Covered' /\ Records' = Records \cup ToSet(new)
  BY <1>9, <1>10, KernelHeld
<1>12. ToSet(new) = {new[1]}
  BY <1>5 DEF ToSet
<1>. QED
  BY <1>6, <1>9, <1>11, <1>12

\* What the turn holds is still nobody's.
LEMMA StillUnused ==
  ASSUME TurnUnused, NEW N, Records' = Records \cup N, turn' \in Turns,
         \A r \in N : r.what # "finished" /\ r.asks = 0,
         turn'.at \in {"answered", "recorded"} =>
           turn.at \in {"answered", "recorded"} /\ turn'.calls = turn.calls,
         turn'.at = "preparing" => turn.at = "preparing" /\ turn'.asks = turn.asks
  PROVE  TurnUnused'
<1>1. ASSUME turn'.at \in {"answered", "recorded"}, NEW r \in Records', r.what = "finished"
      PROVE  r.calls \cap ToSet(turn'.calls) = {}
  <2>1. r \in Records
    BY <1>1
  <2>. QED
    BY <1>1, <2>1 DEF TurnUnused
<1>2. ASSUME turn'.at = "preparing", NEW r \in Records', NEW k \in DOMAIN turn'.asks
      PROVE  r.asks # turn'.asks[k]
  <2>1. CASE r \in Records
    BY <1>2, <2>1 DEF TurnUnused
  <2>2. CASE r \in N
    <3>1. turn'.asks \in Seq(Nat \ {0})
      BY DEF Turns
    <3>2. turn'.asks[k] \in Nat \ {0}
      BY <3>1
    <3>. QED
      BY <3>2, <2>2
  <2>. QED
    BY <2>1, <2>2
<1>. QED
  BY <1>1, <1>2 DEF TurnUnused

\* One item added by a kernel's step to a context with nothing to redo.
LEMMA ItemAdded ==
  ASSUME ContextHolds, seen' = seen, Loading' = Loading, Room(1),
         NEW e, WellFormed(e), e.items = ctx.items, e.next = ctx.next, e.redo = <<>>,
         VersionsOf(e) \subseteq VersionsOf(ctx),
         NEW item \in Item, ctx' = Add(e, item, Counter), Named(item) \subseteq seen \cup Loading,
         ToSet(item.calls) \cap CallsMade(ctx.items) = {},
         item.answers # NoCall =>
           /\ item.answers \in CallsMade(ctx.items)
           /\ \A k \in DOMAIN ctx.items :
                ctx.items[k].answers = item.answers => IsWhole(ctx.items[k]) # IsWhole(item)
  PROVE  /\ ContextHolds' /\ ctx'.next = ctx.next + 1 /\ ctx'.redo = <<>> /\ ctx'.taken = e.taken
         /\ Ids(ctx'.items) = Ids(ctx.items) \cup {ctx.next}
         /\ CallsMade(ctx'.items) = CallsMade(ctx.items) \cup ToSet(item.calls)
         /\ NamedIn(ctx'.items) = NamedIn(ctx.items) \cup Named(item)
         /\ VersionsOf(ctx') \subseteq VersionsOf(ctx) \cup {ctx'.items}
         /\ DOMAIN ctx'.items = 1..(Len(ctx.items) + 1)
         /\ \A k \in 1..Len(ctx.items) : k \in DOMAIN ctx.items /\ ctx'.items[k] = ctx.items[k]
         /\ LET last == ctx'.items[Len(ctx.items) + 1]
            IN  last.answers = item.answers /\ IsWhole(last) = IsWhole(item)
<1>1. /\ WellFormed(ctx) /\ ctx.next \in Nat \ {0} /\ ctx.items \in Seq(Item)
      /\ ctx.next <= MaxItems /\ MaxItems \in Nat /\ MaxItems + 1 <= TopId
      /\ \A v \in VersionsOf(ctx) : VersionHolds(v, seen \cup Loading)
      /\ ctx.items \in VersionsOf(ctx)
  <2>1. WellFormed(ctx) /\ \A v \in VersionsOf(ctx) : VersionHolds(v, seen \cup Loading)
    BY DEF ContextHolds
  <2>2. ctx.next \in Nat \ {0} /\ ctx.items \in Seq(Item)
    BY <2>1, Parts
  <2>3. MaxItems \in Nat /\ MaxItems + 1 <= TopId
    BY RoomEnough
  <2>4. ctx.next <= MaxItems
    BY <2>2, <2>3 DEF Room
  <2>. QED
    BY <2>1, <2>2, <2>3, <2>4 DEF VersionsOf
<1> DEFINE x == Put(item, ctx.next)
<1>2. /\ x \in Item /\ x.priced = Counter /\ x.calls = item.calls /\ x.answers = item.answers
      /\ IsWhole(x) = IsWhole(item) /\ Named(x) = Named(item)
  BY <1>1, PutIsItem
<1>3. /\ WellFormed(ctx') /\ ctx'.next = ctx.next + 1 /\ ctx'.redo = <<>> /\ ctx'.taken = e.taken
      /\ ctx'.items = Append(ctx.items, x)
      /\ Ids(ctx'.items) = Ids(ctx.items) \cup {ctx.next}
      /\ VersionsOf(ctx') \subseteq VersionsOf(e) \cup {ctx'.items}
  <2>1. e.next + 1 <= TopId
    BY <1>1, RoomEnough
  <2>. QED
    BY <2>1, OneAdded, ZenonT(60)
<1> HIDE DEF x
<1>4. /\ VersionHolds(ctx'.items, seen \cup Loading)
      /\ CallsMade(ctx'.items) = CallsMade(ctx.items) \cup ToSet(x.calls)
      /\ NamedIn(ctx'.items) = NamedIn(ctx.items) \cup Named(x)
  <2>1. ToSet(x.calls) \cap CallsMade(ctx.items) = {} /\ Named(x) \subseteq seen \cup Loading
    BY <1>2
  <2>2. x.answers # NoCall =>
           /\ x.answers \in CallsMade(ctx.items)
           /\ \A k \in DOMAIN ctx.items :
                ctx.items[k].answers = x.answers => IsWhole(ctx.items[k]) # IsWhole(x)
    BY <1>2
  <2> DEFINE s == seen \cup Loading
             v == ctx.items
  <2>3. /\ v \in Seq(Item) /\ VersionHolds(v, s) /\ x \in Item /\ s \subseteq s /\ Named(x) \subseteq s
        /\ x.priced = Counter /\ ToSet(x.calls) \cap CallsMade(v) = {}
    BY <1>1, <1>2, <2>1
  <2>4. x.answers # NoCall =>
           /\ x.answers \in CallsMade(v)
           /\ \A k \in DOMAIN v : v[k].answers = x.answers => IsWhole(v[k]) # IsWhole(x)
    BY <2>2
  <2>5. ctx'.items = Append(v, x)
    BY <1>3
  <2> HIDE DEF s, v
  <2>6. /\ VersionHolds(Append(v, x), s) /\ CallsMade(Append(v, x)) = CallsMade(v) \cup ToSet(x.calls)
        /\ NamedIn(Append(v, x)) = NamedIn(v) \cup Named(x)
    BY <2>3, <2>4, OneMoreItem
  <2>. QED
    BY <2>5, <2>6 DEF s, v
<1>5. /\ DOMAIN ctx'.items = 1..(Len(ctx.items) + 1)
      /\ \A k \in 1..Len(ctx.items) : k \in DOMAIN ctx.items /\ ctx'.items[k] = ctx.items[k]
      /\ ctx'.items[Len(ctx.items) + 1] = x
  BY <1>1, <1>2, <1>3
<1>6. ContextHolds'
  <2>1. ctx'.next <= MaxItems + 1
    BY <1>1, <1>3
  <2>2. \A v \in VersionsOf(ctx') : VersionHolds(v, (seen \cup Loading)')
    BY <1>1, <1>3, <1>4
  <2>. QED
    BY <1>3, <2>1, <2>2 DEF ContextHolds
<1>. QED
  BY <1>2, <1>3, <1>4, <1>5, <1>6

\* The context an item of a turn is added to.
LEMMA RecordedIn ==
  ASSUME ContextHolds, TurnHolds, turn.batch # 0 => ctx.redo = <<>>,
         NEW e, e = IF turn.batch = 0 THEN Checkpoint(ctx) ELSE FoldSince(ctx, turn.batch)
  PROVE  /\ WellFormed(e) /\ e.items = ctx.items /\ e.next = ctx.next /\ e.redo = <<>>
         /\ VersionsOf(e) \subseteq VersionsOf(ctx) /\ e.taken \in Nat
<1>1. WellFormed(ctx) /\ turn.batch \in Nat /\ turn.batch <= ctx.taken
  BY DEF ContextHolds, TurnHolds, Turns
<1>2. CASE turn.batch = 0
  <2>1. e = Checkpoint(ctx)
    BY <1>2
  <2>2. e.taken \in Nat
    BY <1>1, <2>1, CheckpointLists, Parts
  <2>. QED
    BY <1>1, <2>1, <2>2, CheckpointLists
<1>3. CASE turn.batch # 0
  <2>1. e = FoldSince(ctx, turn.batch)
    BY <1>3
  <2>. QED
    BY <1>1, <1>3, <2>1, FoldLists
<1>. QED
  BY <1>2, <1>3

---------------------------------------------------------------------------
(* The kernel's steps, one by one.                                         *)

\* What every lemma below shows of its step.
Kept == KernelHolds' /\ \E new : Moves(new)

\* What the proofs below look up again and again.
LEMMA HeldParts ==
  ASSUME KernelHolds
  PROVE  /\ WellFormed(ctx) /\ ctx.items \in Seq(Item) /\ ctx.next \in Nat \ {0} /\ ctx.taken \in Nat
         /\ ctx.items \in VersionsOf(ctx)
         /\ \A v \in VersionsOf(ctx) : VersionHolds(v, seen \cup Loading) /\ v \in Seq(Item)
         /\ CallsMade(ctx.items) \subseteq NamedIn(ctx.items) /\ NamedIn(ctx.items) \subseteq seen \cup Loading
         /\ turn \in Turns /\ turn.at \in Phases /\ turn.calls \in Seq(Calls) /\ turn.asks \in Seq(Nat \ {0})
         /\ turn.batch \in Nat /\ turn.shortened \in BOOLEAN /\ turn.batch <= ctx.taken
         /\ log \in Seq(RecordType) /\ earlier \in Seq(RecordType) /\ earlier \o log \in Seq(RecordType)
         /\ seq \in Nat /\ seen \subseteq Calls /\ permission \in Nat \ {0}
         /\ ListedIn(earlier \o log) = Ids(ctx.items)
<1>1. WellFormed(ctx) /\ \A v \in VersionsOf(ctx) : VersionHolds(v, seen \cup Loading)
  BY DEF KernelHolds, ContextHolds
<1>2. /\ ctx.items \in Seq(Item) /\ ctx.next \in Nat \ {0} /\ ctx.taken \in Nat
      /\ ctx.undo \in Seq(Seq(Item)) /\ ctx.redo \in Seq(Seq(Item))
  BY <1>1, Parts
<1>3. ctx.items \in VersionsOf(ctx) /\ \A v \in VersionsOf(ctx) : v \in Seq(Item)
  BY <1>2 DEF VersionsOf, ToSet
<1>4. CallsMade(ctx.items) \subseteq NamedIn(ctx.items) /\ NamedIn(ctx.items) \subseteq seen \cup Loading
  <2>1. CallsMade(ctx.items) \subseteq NamedIn(ctx.items)
    BY DEF CallsMade, NamedIn, Named
  <2>. QED
    BY <1>1, <1>3, <2>1 DEF VersionHolds
<1>5. /\ turn \in Turns /\ turn.at \in Phases /\ turn.calls \in Seq(Calls) /\ turn.asks \in Seq(Nat \ {0})
      /\ turn.batch \in Nat /\ turn.shortened \in BOOLEAN /\ turn.batch <= ctx.taken
  BY DEF KernelHolds, TurnHolds, Turns
<1>6. log \in Seq(RecordType) /\ earlier \in Seq(RecordType) /\ seq \in Nat
      /\ ListedIn(earlier \o log) = Ids(ctx.items)
  BY DEF KernelHolds, LogHolds
<1>7. earlier \o log \in Seq(RecordType)
  BY <1>6, JoinedUp
<1>8. seen \subseteq Calls /\ permission \in Nat \ {0}
  BY RoomEnough DEF KernelHolds, CountersHold
<1>. QED
  BY <1>1, <1>2, <1>3, <1>4, <1>5, <1>6, <1>7, <1>8

\* Push: a client adds an item.
LEMMA PushMoves ==
  ASSUME KernelHolds, Push, UNCHANGED recorder
  PROVE  Kept
<1>1. /\ Room(1) /\ ctx' = Add(Checkpoint(ctx), Blank, Counter) /\ Emit(<<Added(ctx.next)>>)
      /\ seen' = seen /\ permission' = permission /\ turn' = turn
  BY DEF Push
<1>2. PICK e : e = Checkpoint(ctx)
  OBVIOUS
<1>3. /\ WellFormed(ctx) /\ ctx.taken \in Nat /\ ctx.items \in Seq(Item) /\ turn \in Turns
      /\ turn.batch \in Nat /\ turn.batch <= ctx.taken
  BY HeldParts
<1>4. /\ WellFormed(e) /\ e.items = ctx.items /\ e.next = ctx.next /\ e.redo = <<>>
      /\ e.taken = ctx.taken + 1 /\ VersionsOf(e) \subseteq VersionsOf(ctx)
  BY <1>2, <1>3, CheckpointLists
<1>5. /\ Blank \in Item /\ Named(Blank) = {} /\ ToSet(Blank.calls) = {} /\ Blank.answers = NoCall
  BY ItemsMade DEF Named, ToSet
<1>6. Loading' = Loading /\ ContextHolds
  BY <1>1 DEF Loading, KernelHolds
<1>7. /\ ContextHolds' /\ ctx'.next = ctx.next + 1 /\ ctx'.redo = <<>> /\ ctx'.taken = e.taken
      /\ Ids(ctx'.items) = Ids(ctx.items) \cup {ctx.next}
      /\ CallsMade(ctx'.items) = CallsMade(ctx.items) \cup ToSet(Blank.calls)
      /\ NamedIn(ctx'.items) = NamedIn(ctx.items) \cup Named(Blank)
      /\ VersionsOf(ctx') \subseteq VersionsOf(ctx) \cup {ctx'.items}
      /\ DOMAIN ctx'.items = 1..(Len(ctx.items) + 1)
      /\ \A k \in 1..Len(ctx.items) : k \in DOMAIN ctx.items /\ ctx'.items[k] = ctx.items[k]
      /\ ctx'.items[Len(ctx.items) + 1].answers = Blank.answers
  BY <1>1, <1>2, <1>4, <1>5, <1>6, ItemAdded
<1>8. PICK new : /\ Moves(new) /\ Records' = Records \cup ToSet(new)
                 /\ \A r \in ToSet(new) : r.what # "finished" /\ r.asks = 0
  BY <1>1, <1>7, AddedSaid
<1>9. LogHolds' /\ Covered'
  BY <1>1, <1>7, AddedSaid
<1>10. TurnUnused'
  BY <1>1, <1>3, <1>8, StillUnused DEF KernelHolds
<1>11. TurnHolds'
  <2>1. TurnHolds
    BY DEF KernelHolds
  <2>2. turn'.batch <= ctx'.taken
    BY <1>1, <1>3, <1>4, <1>7
  <2>3. ASSUME turn.at = "answered", NEW v \in VersionsOf(ctx') PROVE NamedIn(v) \cap ToSet(turn.calls) = {}
    <3>1. \A w \in VersionsOf(ctx) : NamedIn(w) \cap ToSet(turn.calls) = {}
      BY <2>1, <2>3 DEF TurnHolds
    <3>2. NamedIn(ctx'.items) = NamedIn(ctx.items) /\ ctx.items \in VersionsOf(ctx)
      BY <1>5, <1>7 DEF VersionsOf
    <3>. QED
      BY <1>7, <3>1, <3>2
  <2>4. ASSUME turn.at \in {"recorded", "preparing", "executing"}, NEW k \in DOMAIN ctx'.items,
               ctx'.items[k].answers \in ToSet(turn.calls)
        PROVE  turn.shortened /\ ctx'.items[k].answers = turn.calls[1] /\ IsWhole(ctx'.items[k])
    <3>1. NoCall \notin ToSet(turn.calls)
      <4>1. turn.calls \in Seq(Calls)
        BY <1>3 DEF Turns
      <4>. QED
        BY <4>1, RoomEnough, InSet
    <3>2. k # Len(ctx.items) + 1
      BY <3>1, <1>5, <1>7, <2>4
    <3>3. k \in DOMAIN ctx.items /\ ctx'.items[k] = ctx.items[k]
      BY <3>2, <1>7, <1>3
    <3>. QED
      BY <2>1, <2>4, <3>3 DEF TurnHolds
  <2>5. ToSet(turn.calls) \subseteq CallsMade(ctx.items) => ToSet(turn.calls) \subseteq CallsMade(ctx'.items)
    BY <1>7
  <2>. QED
    BY <1>1, <1>7, <2>1, <2>2, <2>3, <2>4, <2>5 DEF TurnHolds
<1>12. CountersHold'
  BY <1>1 DEF KernelHolds, CountersHold
<1>. QED
  BY <1>7, <1>8, <1>9, <1>10, <1>11, <1>12 DEF Kept, KernelHolds

\* RecordTurn: the answer becomes an item, and its calls are made.
LEMMA RecordTurnMoves ==
  ASSUME KernelHolds, RecordTurn, UNCHANGED recorder
  PROVE  Kept
<1> DEFINE item == Turn(turn.calls)
<1>1. /\ turn.at = "answered" /\ Room(1) /\ ctx' = AddIn(item)
      /\ Emit(<<Added(ctx.next)>>) /\ seen' = seen /\ permission' = permission
      /\ turn' = [turn EXCEPT !.at = "recorded"]
  BY DEF RecordTurn
<1>2. PICK e : e = IF turn.batch = 0 THEN Checkpoint(ctx) ELSE FoldSince(ctx, turn.batch)
  OBVIOUS
<1>3. /\ WellFormed(ctx) /\ ctx.taken \in Nat /\ ctx.items \in Seq(Item) /\ turn \in Turns
      /\ turn.calls \in Seq(Calls) /\ seen \subseteq Calls
      /\ CallsMade(ctx.items) \subseteq NamedIn(ctx.items) /\ ctx.items \in VersionsOf(ctx)
  BY HeldParts
<1>4. TurnHolds /\ ContextHolds /\ turn.batch = 0 /\ ~turn.shortened /\ turn.asks = <<>>
      /\ Distinct(turn.calls) /\ ToSet(turn.calls) \subseteq seen
      /\ \A v \in VersionsOf(ctx) : NamedIn(v) \cap ToSet(turn.calls) = {}
  BY <1>1 DEF KernelHolds, TurnHolds
<1>5. /\ WellFormed(e) /\ e.items = ctx.items /\ e.next = ctx.next /\ e.redo = <<>>
      /\ e.taken \in Nat /\ VersionsOf(e) \subseteq VersionsOf(ctx)
  BY <1>2, <1>4, RecordedIn
<1>6. /\ item \in Item /\ Named(item) = ToSet(turn.calls) /\ item.calls = turn.calls
      /\ item.answers = NoCall
  BY <1>3, ItemsMade DEF Named
<1>7. Loading' = Loading /\ Loading = {} /\ turn' \in Turns /\ turn'.at = "recorded"
      /\ turn'.calls = turn.calls /\ turn'.batch = 0 /\ ~turn'.shortened /\ turn'.asks = <<>>
  BY <1>1, <1>3, <1>4 DEF Loading, Turns, Phases
<1> HIDE DEF item
<1>8. /\ ContextHolds' /\ ctx'.next = ctx.next + 1 /\ ctx'.redo = <<>> /\ ctx'.taken = e.taken
      /\ Ids(ctx'.items) = Ids(ctx.items) \cup {ctx.next}
      /\ CallsMade(ctx'.items) = CallsMade(ctx.items) \cup ToSet(item.calls)
      /\ DOMAIN ctx'.items = 1..(Len(ctx.items) + 1)
      /\ \A k \in 1..Len(ctx.items) : k \in DOMAIN ctx.items /\ ctx'.items[k] = ctx.items[k]
      /\ ctx'.items[Len(ctx.items) + 1].answers = item.answers
  <2>1. ctx' = Add(e, item, Counter)
    BY <1>1, <1>2 DEF AddIn
  <2>2. Named(item) \subseteq seen \cup Loading /\ ToSet(item.calls) \cap CallsMade(ctx.items) = {}
    BY <1>3, <1>4, <1>6
  <2>. QED
    BY <1>1, <1>4, <1>5, <1>6, <1>7, <2>1, <2>2, ItemAdded
<1>9. PICK new : /\ Moves(new) /\ Records' = Records \cup ToSet(new)
                 /\ \A r \in ToSet(new) : r.what # "finished" /\ r.asks = 0
  BY <1>1, <1>8, AddedSaid
<1>10. LogHolds' /\ Covered'
  BY <1>1, <1>8, AddedSaid
<1>11. TurnUnused'
  BY <1>1, <1>7, <1>9, StillUnused DEF KernelHolds
<1>12. TurnHolds'
  <2>1. turn'.batch <= ctx'.taken
    BY <1>5, <1>7, <1>8
  <2>2. ASSUME NEW k \in DOMAIN ctx'.items PROVE ctx'.items[k].answers \notin ToSet(turn.calls)
    <3>1. NoCall \notin ToSet(turn.calls)
      BY <1>3, RoomEnough, InSet
    <3>2. CASE k = Len(ctx.items) + 1
      BY <3>1, <3>2, <1>6, <1>8
    <3>3. CASE k # Len(ctx.items) + 1
      <4>1. k \in DOMAIN ctx.items /\ ctx'.items[k] = ctx.items[k]
        BY <3>3, <1>3, <1>8
      <4>2. ctx.items[k].answers # NoCall => ctx.items[k].answers \in NamedIn(ctx.items)
        BY <4>1 DEF NamedIn, Named
      <4>. QED
        BY <4>1, <4>2, <3>1, <1>3, <1>4
    <3>. QED
      BY <3>2, <3>3
  <2>3. ToSet(turn.calls) \subseteq CallsMade(ctx'.items)
    BY <1>6, <1>8
  <2>. QED
    BY <1>1, <1>4, <1>7, <1>8, <2>1, <2>2, <2>3 DEF TurnHolds
<1>13. CountersHold'
  BY <1>1 DEF KernelHolds, CountersHold
<1>. QED
  BY <1>8, <1>9, <1>10, <1>11, <1>12, <1>13 DEF Kept, KernelHolds

\* A step that leaves the items alone.
LEMMA ItemsStay ==
  ASSUME KernelHolds, UNCHANGED recorder, ctx' = ctx, NEW new, LogGrows(new),
         \A k \in DOMAIN new : new[k].adds = {} /\ new[k].takes = {}
  PROVE  ListedIn((earlier \o log) \o new) = Ids(ctx'.items)
<1>1. earlier \o log \in Seq(RecordType) /\ ListedIn(earlier \o log) = Ids(ctx.items)
  BY HeldParts
<1>2. new \in Seq(RecordType)
  BY DEF LogGrows
<1>3. ListedIn((earlier \o log) \o new) = ListedIn(earlier \o log)
  BY <1>1, <1>2, QuietLists
<1>. QED
  BY <1>1, <1>3

\* A turn that is over, or that never was.
LEMMA RestingHolds ==
  ASSUME turn'.at = "resting", turn' \in Turns, turn'.calls = <<>>, turn'.batch <= ctx'.taken
  PROVE  TurnHolds' /\ TurnUnused' /\ Loading' = {}
<1>1. Distinct(turn'.calls) /\ ToSet(turn'.calls) = {}
  BY DEF Distinct, ToSet
<1>. QED
  BY <1>1 DEF TurnHolds, TurnUnused, Loading

\* No turn, and what it holds: nothing.
LEMMA NoTurnIs ==
  /\ NoTurn \in Turns /\ NoTurn.at = "resting" /\ NoTurn.calls = <<>> /\ NoTurn.asks = <<>>
  /\ NoTurn.batch = 0 /\ NoTurn.shortened = FALSE
BY DEF NoTurn, Turns, Phases

\* FinishTurn: a record names the calls, which no record did.
LEMMA FinishTurnMoves ==
  ASSUME KernelHolds, FinishTurn, UNCHANGED recorder
  PROVE  Kept
<1> DEFINE event == [Event("finished") EXCEPT !.calls = ToSet(turn.calls)]
<1>1. /\ turn.at = "recorded" /\ Emit(<<event>>)
      /\ turn' = IF turn.calls = <<>> THEN NoTurn ELSE [turn EXCEPT !.at = "preparing"]
      /\ ctx' = ctx /\ seen' = seen /\ permission' = permission
  BY DEF FinishTurn
<1>2. /\ turn.calls \in Seq(Calls) /\ turn \in Turns /\ permission \in Nat \ {0}
      /\ ctx.next \in Nat \ {0} /\ ctx.taken \in Nat /\ seq \in Nat
  BY HeldParts
<1>3. /\ TurnHolds /\ turn.batch = 0 /\ ~turn.shortened /\ turn.asks = <<>> /\ turn.batch <= ctx.taken
      /\ Distinct(turn.calls) /\ ToSet(turn.calls) \subseteq seen /\ ctx.redo = <<>>
      /\ \A r \in Records : r.what = "finished" => r.calls \cap ToSet(turn.calls) = {}
  BY <1>1 DEF KernelHolds, TurnHolds, TurnUnused
<1>4. /\ event \in EventType /\ event.what = "finished" /\ event.adds = {} /\ event.takes = {}
      /\ event.asks = 0 /\ event.calls = ToSet(turn.calls)
  <2>1. ToSet(turn.calls) \subseteq Calls
    BY <1>2, InSet
  <2>. QED
    BY <2>1 DEF Event, EventType, Whats
<1> HIDE DEF event
<1>5. PICK new : /\ LogGrows(new) /\ Len(new) = 1 /\ DOMAIN new = {1}
                 /\ new[1] = Numbered(event, seq + 1)
  <2> DEFINE events == <<event>>
  <2>1. events \in Seq(EventType) /\ Len(events) = 1 /\ events[1] = event /\ DOMAIN events = {1}
    BY <1>4
  <2>2. Emit(events) /\ LogHolds
    BY <1>1 DEF KernelHolds
  <2> HIDE DEF events
  <2>. QED
    BY <2>1, <2>2, Emitted
<1>6. /\ new[1].what = "finished" /\ new[1].calls = ToSet(turn.calls) /\ new[1].adds = {}
      /\ new[1].takes = {} /\ new[1].asks = 0
  BY <1>4, <1>5 DEF Numbered
<1>7. Moves(new)
  <2>1. Fresh(new, 1)
    <3>1. 0 < permission' /\ new[1].what # "added"
      BY <1>1, <1>2, <1>6
    <3>2. new[1].calls \subseteq seen'
      BY <1>1, <1>3, <1>6
    <3>. QED
      BY <1>3, <1>5, <1>6, <3>1, <3>2 DEF Fresh
  <2>2. CountersGrow
    BY <1>1, <1>2 DEF CountersGrow
  <2>. QED
    BY <1>5, <2>1, <2>2 DEF Moves
<1>8. ListedIn((earlier \o log) \o new) = Ids(ctx'.items)
  BY <1>1, <1>5, <1>6, ItemsStay
<1>9. LogHolds' /\ Covered' /\ Records' = Records \cup ToSet(new)
  BY <1>7, <1>8, KernelHeld
<1>10. CountersHold'
  BY <1>1 DEF KernelHolds, CountersHold
<1>11. TurnHolds' /\ TurnUnused' /\ Loading' = {}
  <2>1. CASE turn.calls = <<>>
    <3>1. turn' = NoTurn /\ 0 <= ctx'.taken
      BY <1>1, <1>2, <2>1
    <3>. QED
      BY <3>1, NoTurnIs, RestingHolds
  <2>2. CASE turn.calls # <<>>
    <3>1. turn' = [turn EXCEPT !.at = "preparing"]
      BY <1>1, <2>2
    <3>2. /\ turn' \in Turns /\ turn'.at = "preparing" /\ turn'.calls = turn.calls
          /\ turn'.asks = <<>> /\ turn'.batch = 0 /\ ~turn'.shortened
      BY <1>2, <1>3, <3>1 DEF Turns, Phases
    <3>3. Distinct(<<>>) /\ DOMAIN turn'.asks = {}
      BY <3>2 DEF Distinct
    <3>4. 0 <= ctx'.taken
      BY <1>1, <1>2
    <3>5. TurnHolds'
      BY <1>1, <1>3, <2>2, <3>2, <3>3, <3>4 DEF TurnHolds
    <3>6. TurnUnused'
      BY <3>2, <3>3 DEF TurnUnused
    <3>. QED
      BY <3>2, <3>5, <3>6 DEF Loading
  <2>. QED
    BY <2>1, <2>2
<1>12. ContextHolds'
  <2>1. Loading = {}
    BY <1>1 DEF Loading
  <2>. QED
    BY <1>1, <1>11, <2>1 DEF KernelHolds, ContextHolds
<1>. QED
  BY <1>7, <1>9, <1>10, <1>11, <1>12 DEF Kept, KernelHolds

\* A step that says nothing.
LEMMA NothingSaid ==
  ASSUME KernelHolds, UNCHANGED recorder, log' = log, seq' = seq, ctx' = ctx, CountersGrow
  PROVE  LogHolds' /\ Covered' /\ Records' = Records /\ \E new : Moves(new)
<1> DEFINE new == <<>>
<1>1. log \in Seq(RecordType) /\ seq \in Nat /\ seq <= MaxSeq /\ LogHolds /\ MaxSeq \in Nat
  BY RoomEnough DEF KernelHolds, LogHolds
<1>2. new \in Seq(RecordType) /\ Len(new) = 0 /\ DOMAIN new = {} /\ log \o new = log
  BY <1>1
<1>3. ToSet(new) = {}
  BY <1>2 DEF ToSet
<1> HIDE DEF new
<1>4. LogGrows(new)
  BY <1>1, <1>2 DEF LogGrows
<1>5. Moves(new)
  BY <1>2, <1>4 DEF Moves
<1>6. ListedIn((earlier \o log) \o new) = Ids(ctx'.items)
  BY <1>2, <1>4, ItemsStay
<1>7. LogHolds' /\ Covered' /\ Records' = Records \cup ToSet(new)
  BY <1>5, <1>6, KernelHeld
<1>. QED
  BY <1>3, <1>5, <1>7

\* Abandon: the turn is dropped with what it held.
LEMMA AbandonMoves ==
  ASSUME KernelHolds, Abandon, UNCHANGED recorder
  PROVE  Kept
<1>1. /\ turn.at \in {"preparing", "executing"} /\ turn' = NoTurn /\ ctx' = ctx /\ seen' = seen
      /\ permission' = permission /\ log' = log /\ seq' = seq
  BY DEF Abandon
<1>2. ctx.next \in Nat \ {0} /\ ctx.taken \in Nat /\ permission \in Nat
  BY HeldParts
<1>3. CountersGrow /\ 0 <= ctx'.taken
  BY <1>1, <1>2 DEF CountersGrow
<1>4. LogHolds' /\ Covered' /\ \E new : Moves(new)
  BY <1>1, <1>3, NothingSaid
<1>5. TurnHolds' /\ TurnUnused' /\ Loading' = {}
  BY <1>1, <1>3, NoTurnIs, RestingHolds
<1>6. ContextHolds'
  BY <1>1, <1>5 DEF KernelHolds, ContextHolds, Loading
<1>7. CountersHold'
  BY <1>1 DEF KernelHolds, CountersHold
<1>. QED
  BY <1>4, <1>5, <1>6, <1>7 DEF Kept, KernelHolds

\* Question: a permission request is numbered, and no record says so yet.
LEMMA QuestionMoves ==
  ASSUME KernelHolds, Question, UNCHANGED recorder
  PROVE  Kept
<1>1. /\ turn.at = "preparing" /\ permission <= MaxAsks /\ permission' = SatInc(permission)
      /\ turn' = [turn EXCEPT !.asks = Append(turn.asks, permission)]
      /\ ctx' = ctx /\ seen' = seen /\ log' = log /\ seq' = seq
  BY DEF Question
<1>2. /\ ctx.next \in Nat \ {0} /\ ctx.taken \in Nat /\ permission \in Nat \ {0} /\ turn \in Turns
      /\ turn.asks \in Seq(Nat \ {0})
  BY HeldParts
<1>3. permission' = permission + 1 /\ permission' \in 1..(MaxAsks + 1)
  BY <1>1, <1>2, RoomEnough DEF SatInc
<1>4. CountersGrow
  BY <1>1, <1>2, <1>3 DEF CountersGrow
<1>5. LogHolds' /\ Covered' /\ Records' = Records /\ \E new : Moves(new)
  BY <1>1, <1>4, NothingSaid
<1>6. CountersHold'
  BY <1>1, <1>3 DEF KernelHolds, CountersHold
<1> DEFINE asks == Append(turn.asks, permission)
           n == Len(turn.asks)
<1>7. /\ asks \in Seq(Nat \ {0}) /\ DOMAIN asks = 1..(n + 1) /\ n \in Nat /\ DOMAIN turn.asks = 1..n
      /\ \A k \in 1..n : asks[k] = turn.asks[k] /\ turn.asks[k] \in Nat
      /\ asks[n + 1] = permission
  BY <1>2
<1>8. /\ turn' \in Turns /\ turn'.at = "preparing" /\ turn'.calls = turn.calls /\ turn'.asks = asks
      /\ turn'.batch = turn.batch /\ turn'.shortened = turn.shortened
  BY <1>1, <1>2, <1>7 DEF Turns
<1> HIDE DEF asks, n
<1>9. /\ TurnHolds /\ Distinct(turn.asks) /\ \A k \in 1..n : turn.asks[k] < permission
  BY <1>1, <1>7 DEF KernelHolds, TurnHolds
<1>10. Distinct(asks)
  <2>1. ASSUME NEW j \in 1..(n + 1), NEW k \in 1..(n + 1), asks[j] = asks[k] PROVE j = k
    <3>1. CASE j \in 1..n /\ k \in 1..n
      BY <3>1, <2>1, <1>7, <1>9 DEF Distinct
    <3>2. CASE j = n + 1 /\ k \in 1..n
      <4>1. asks[j] = permission /\ asks[k] < permission
        BY <3>2, <1>7, <1>9
      <4>. QED
        BY <4>1, <2>1, <1>2
    <3>3. CASE k = n + 1 /\ j \in 1..n
      <4>1. asks[k] = permission /\ asks[j] < permission
        BY <3>3, <1>7, <1>9
      <4>. QED
        BY <4>1, <2>1, <1>2
    <3>. QED
      BY <3>1, <3>2, <3>3, <1>7
  <2>. QED
    BY <2>1, <1>7 DEF Distinct
<1>11. \A k \in DOMAIN asks : asks[k] < permission'
  <2> TAKE k \in DOMAIN asks
  <2>1. CASE k \in 1..n
    <3>1. asks[k] < permission /\ asks[k] \in Nat
      BY <2>1, <1>7, <1>9
    <3>. QED
      BY <3>1, <1>2, <1>3
  <2>2. CASE k = n + 1
    <3>1. asks[k] = permission
      BY <2>2, <1>7
    <3>. QED
      BY <3>1, <1>2, <1>3
  <2>. QED
    BY <2>1, <2>2, <1>7
<1>12. TurnHolds'
  BY <1>1, <1>8, <1>9, <1>10, <1>11 DEF TurnHolds
<1>13. TurnUnused'
  <2>1. ASSUME NEW r \in Records, NEW k \in DOMAIN asks PROVE r.asks # asks[k]
    <3>1. CASE k \in 1..n
      BY <3>1, <1>1, <1>7 DEF KernelHolds, TurnUnused
    <3>2. CASE k = n + 1
      <4>1. r \in RecordType /\ r.asks < permission
        BY <2>1 DEF KernelHolds, Covered, Covers, CoversAsks, Here
      <4>2. r.asks \in Nat
        BY <4>1 DEF RecordType
      <4>. QED
        BY <4>1, <4>2, <3>2, <1>2, <1>7
    <3>. QED
      BY <3>1, <3>2, <1>7
  <2>. QED
    BY <2>1, <1>5, <1>8 DEF TurnUnused
<1>14. ContextHolds'
  BY <1>1, <1>8 DEF KernelHolds, ContextHolds, Loading
<1>. QED
  BY <1>5, <1>6, <1>12, <1>13, <1>14 DEF Kept, KernelHolds

\* AnnounceQuestions: records say so, each with a number of its own.
LEMMA AnnounceQuestionsMoves ==
  ASSUME KernelHolds, AnnounceQuestions, UNCHANGED recorder
  PROVE  Kept
<1> DEFINE said(k) == [Event("asked") EXCEPT !.asks = turn.asks[k]]
           events == [k \in DOMAIN turn.asks |-> said(k)]
<1>1. /\ turn.at = "preparing" /\ Emit(events) /\ turn' = [turn EXCEPT !.at = "executing"]
      /\ ctx' = ctx /\ seen' = seen /\ permission' = permission
  BY DEF AnnounceQuestions
<1>2. /\ ctx.next \in Nat \ {0} /\ ctx.taken \in Nat /\ permission \in Nat \ {0} /\ turn \in Turns
      /\ turn.asks \in Seq(Nat \ {0}) /\ seq \in Nat
  BY HeldParts
<1>3. /\ TurnHolds /\ LogHolds /\ Distinct(turn.asks)
      /\ \A k \in DOMAIN turn.asks : turn.asks[k] < permission
      /\ \A r \in Records : \A k \in DOMAIN turn.asks : r.asks # turn.asks[k]
  BY <1>1 DEF KernelHolds, TurnHolds, TurnUnused
<1>4. \A k \in DOMAIN turn.asks :
        /\ said(k) \in EventType /\ said(k).what = "asked" /\ said(k).asks = turn.asks[k]
        /\ said(k).adds = {} /\ said(k).takes = {}
  <2> TAKE k \in DOMAIN turn.asks
  <2>1. turn.asks[k] \in Nat
    BY <1>2
  <2>. QED
    BY <2>1 DEF Event, EventType, Whats
<1>5. DOMAIN events = DOMAIN turn.asks /\ \A k \in DOMAIN events : events[k] = said(k)
  OBVIOUS
<1> HIDE DEF said
<1>6. events \in Seq(EventType)
  <2>1. events = [k \in DOMAIN turn.asks |-> events[k]]
    OBVIOUS
  <2>2. \A k \in DOMAIN turn.asks : events[k] \in EventType
    BY <1>4, <1>5
  <2> HIDE DEF events
  <2>. QED
    BY <1>2, <2>1, <2>2, MadeFrom
<1> HIDE DEF events
<1>7. PICK new : /\ LogGrows(new) /\ DOMAIN new = DOMAIN turn.asks
                 /\ \A k \in DOMAIN new : new[k] = Numbered(events[k], seq + k)
  BY <1>1, <1>3, <1>5, <1>6, Emitted
<1>8. \A k \in DOMAIN new : /\ new[k].what = "asked" /\ new[k].asks = turn.asks[k]
                            /\ new[k].adds = {} /\ new[k].takes = {}
  <2> TAKE k \in DOMAIN new
  <2>1. k \in DOMAIN turn.asks /\ new[k] = Numbered(said(k), seq + k)
    BY <1>5, <1>7
  <2>. QED
    BY <1>4, <2>1 DEF Numbered
<1>9. Moves(new)
  <2>1. ASSUME NEW k \in DOMAIN new PROVE Fresh(new, k)
    <3>1. new[k].asks < permission' /\ \A r \in Records : r.asks # new[k].asks
      BY <1>1, <1>3, <1>7, <1>8
    <3>2. \A j \in DOMAIN new : new[j].asks = new[k].asks => j = k
      BY <1>3, <1>7, <1>8 DEF Distinct
    <3>. QED
      BY <1>8, <3>1, <3>2 DEF Fresh
  <2>2. CountersGrow
    BY <1>1, <1>2 DEF CountersGrow
  <2>. QED
    BY <1>7, <2>1, <2>2 DEF Moves
<1>10. ListedIn((earlier \o log) \o new) = Ids(ctx'.items)
  BY <1>1, <1>7, <1>8, ItemsStay
<1>11. LogHolds' /\ Covered'
  BY <1>9, <1>10, KernelHeld
<1>12. CountersHold'
  BY <1>1 DEF KernelHolds, CountersHold
<1>13. /\ turn' \in Turns /\ turn'.at = "executing" /\ turn'.calls = turn.calls
       /\ turn'.batch = turn.batch /\ turn'.shortened = turn.shortened
  BY <1>1, <1>2 DEF Turns, Phases
<1>14. TurnHolds'
  BY <1>1, <1>3, <1>13 DEF TurnHolds
<1>15. TurnUnused' /\ ContextHolds'
  BY <1>1, <1>13 DEF KernelHolds, ContextHolds, Loading, TurnUnused
<1>. QED
  BY <1>9, <1>11, <1>12, <1>14, <1>15 DEF Kept, KernelHolds

\* The context while results are recorded: the calls at hand are made, and answered by none.
LEMMA Executing ==
  ASSUME KernelHolds, turn.at = "executing"
  PROVE  /\ turn.calls \in Seq(Calls) /\ turn.calls # <<>> /\ Len(turn.calls) \in Nat \ {0}
         /\ DOMAIN turn.calls = 1..Len(turn.calls) /\ Head(turn.calls) = turn.calls[1]
         /\ turn.calls[1] \in Calls /\ turn.calls[1] # NoCall /\ turn.calls[1] \in ToSet(turn.calls)
         /\ ToSet(turn.calls) \subseteq CallsMade(ctx.items) /\ ctx.redo = <<>>
         /\ ToSet(turn.calls) \subseteq seen /\ Distinct(turn.calls)
         /\ \A k \in DOMAIN ctx.items :
              ctx.items[k].answers \in ToSet(turn.calls) =>
                turn.shortened /\ ctx.items[k].answers = turn.calls[1] /\ IsWhole(ctx.items[k])
<1>1. /\ turn.calls # <<>> /\ ToSet(turn.calls) \subseteq CallsMade(ctx.items) /\ ctx.redo = <<>>
      /\ ToSet(turn.calls) \subseteq seen /\ Distinct(turn.calls)
      /\ \A k \in DOMAIN ctx.items :
           ctx.items[k].answers \in ToSet(turn.calls) =>
             turn.shortened /\ ctx.items[k].answers = turn.calls[1] /\ IsWhole(ctx.items[k])
  BY DEF KernelHolds, TurnHolds
<1>2. turn.calls \in Seq(Calls)
  BY HeldParts
<1>3. Len(turn.calls) \in Nat \ {0} /\ DOMAIN turn.calls = 1..Len(turn.calls)
      /\ Head(turn.calls) = turn.calls[1]
  BY <1>1, <1>2
<1>4. turn.calls[1] \in Calls /\ turn.calls[1] \in ToSet(turn.calls)
  BY <1>2, <1>3 DEF ToSet
<1>. QED
  BY <1>1, <1>2, <1>3, <1>4, RoomEnough

\* RecordWhole: the whole of an output is an answer before the shortened one.
LEMMA RecordWholeMoves ==
  ASSUME KernelHolds, RecordWhole, UNCHANGED recorder
  PROVE  Kept
<1> DEFINE call == turn.calls[1]
           item == WholeOf(call)
<1>1. /\ turn.at = "executing" /\ ~turn.shortened /\ Room(1) /\ ctx' = AddIn(WholeOf(Head(turn.calls)))
      /\ Emit(<<Added(ctx.next)>>) /\ seen' = seen /\ permission' = permission
      /\ turn' = [turn EXCEPT !.shortened = TRUE, !.batch = ctx'.taken]
  BY DEF RecordWhole
<1>2. PICK e : e = IF turn.batch = 0 THEN Checkpoint(ctx) ELSE FoldSince(ctx, turn.batch)
  OBVIOUS
<1>3. /\ ctx.items \in Seq(Item) /\ turn \in Turns /\ turn.calls \in Seq(Calls) /\ seen \subseteq Calls
  BY HeldParts
<1>4. /\ Head(turn.calls) = call /\ call \in Calls /\ call # NoCall /\ call \in ToSet(turn.calls)
      /\ turn.calls # <<>>
      /\ ToSet(turn.calls) \subseteq CallsMade(ctx.items) /\ ctx.redo = <<>>
      /\ ToSet(turn.calls) \subseteq seen /\ Distinct(turn.calls)
      /\ \A k \in DOMAIN ctx.items : ctx.items[k].answers \notin ToSet(turn.calls)
  BY <1>1, Executing
<1>5. TurnHolds /\ ContextHolds
  BY DEF KernelHolds
<1>6. /\ WellFormed(e) /\ e.items = ctx.items /\ e.next = ctx.next /\ e.redo = <<>>
      /\ e.taken \in Nat /\ VersionsOf(e) \subseteq VersionsOf(ctx)
  BY <1>2, <1>4, <1>5, RecordedIn
<1>7. /\ item \in Item /\ Named(item) = {call} /\ ToSet(item.calls) = {} /\ item.answers = call
      /\ IsWhole(item)
  BY <1>4, ItemsMade DEF Named, ToSet
<1>8. Loading' = Loading /\ Loading = {}
  BY <1>1 DEF Loading
<1>9. ctx' = Add(e, item, Counter)
  BY <1>1, <1>2, <1>4 DEF AddIn
<1> HIDE DEF item
<1>10. /\ ContextHolds' /\ ctx'.next = ctx.next + 1 /\ ctx'.redo = <<>> /\ ctx'.taken = e.taken
       /\ Ids(ctx'.items) = Ids(ctx.items) \cup {ctx.next}
       /\ CallsMade(ctx'.items) = CallsMade(ctx.items) \cup ToSet(item.calls)
       /\ DOMAIN ctx'.items = 1..(Len(ctx.items) + 1)
       /\ \A k \in 1..Len(ctx.items) : k \in DOMAIN ctx.items /\ ctx'.items[k] = ctx.items[k]
       /\ ctx'.items[Len(ctx.items) + 1].answers = item.answers
       /\ IsWhole(ctx'.items[Len(ctx.items) + 1]) = IsWhole(item)
  <2>1. Named(item) \subseteq seen \cup Loading /\ ToSet(item.calls) \cap CallsMade(ctx.items) = {}
    BY <1>4, <1>7
  <2>2. item.answers \in CallsMade(ctx.items)
    BY <1>4, <1>7
  <2>3. \A k \in DOMAIN ctx.items :
          ctx.items[k].answers = item.answers => IsWhole(ctx.items[k]) # IsWhole(item)
    BY <1>4, <1>7
  <2>. QED
    BY <1>1, <1>5, <1>6, <1>7, <1>8, <1>9, <2>1, <2>2, <2>3, ItemAdded
<1>11. PICK new : /\ Moves(new) /\ Records' = Records \cup ToSet(new)
                  /\ \A r \in ToSet(new) : r.what # "finished" /\ r.asks = 0
  BY <1>1, <1>10, AddedSaid
<1>12. LogHolds' /\ Covered'
  BY <1>1, <1>10, AddedSaid
<1>13. /\ turn' \in Turns /\ turn'.at = "executing" /\ turn'.calls = turn.calls
       /\ turn'.batch = ctx'.taken /\ turn'.shortened
  BY <1>1, <1>3, <1>6, <1>10 DEF Turns
<1>14. TurnHolds'
  <2>1. ASSUME NEW k \in DOMAIN ctx'.items, ctx'.items[k].answers \in ToSet(turn.calls)
        PROVE  ctx'.items[k].answers = call /\ IsWhole(ctx'.items[k])
    <3>1. CASE k = Len(ctx.items) + 1
      BY <3>1, <1>7, <1>10
    <3>2. CASE k # Len(ctx.items) + 1
      <4>1. k \in DOMAIN ctx.items /\ ctx'.items[k] = ctx.items[k]
        BY <3>2, <1>3, <1>10
      <4>. QED
        BY <4>1, <2>1, <1>4
    <3>. QED
      BY <3>1, <3>2
  <2>2. ToSet(turn.calls) \subseteq CallsMade(ctx'.items)
    BY <1>4, <1>10
  <2>3. turn'.batch <= ctx'.taken
    BY <1>6, <1>10, <1>13
  <2>. QED
    BY <1>1, <1>4, <1>10, <1>13, <2>1, <2>2, <2>3 DEF TurnHolds
<1>15. TurnUnused'
  BY <1>13 DEF TurnUnused
<1>16. CountersHold'
  BY <1>1 DEF KernelHolds, CountersHold
<1>. QED
  BY <1>10, <1>11, <1>12, <1>14, <1>15, <1>16 DEF Kept, KernelHolds

\* RecordResult: the first call left is answered, and is left no longer.
LEMMA RecordResultMoves ==
  ASSUME KernelHolds, RecordResult, UNCHANGED recorder
  PROVE  Kept
<1> DEFINE call == turn.calls[1]
           item == Result(call)
<1>1. /\ turn.at = "executing" /\ Room(1) /\ ctx' = AddIn(Result(Head(turn.calls)))
      /\ Emit(<<Added(ctx.next)>>) /\ seen' = seen /\ permission' = permission
      /\ turn' = IF Len(turn.calls) = 1 THEN NoTurn
                 ELSE [turn EXCEPT !.calls = Tail(turn.calls), !.shortened = FALSE,
                                   !.batch = ctx'.taken]
  BY DEF RecordResult
<1>2. PICK e : e = IF turn.batch = 0 THEN Checkpoint(ctx) ELSE FoldSince(ctx, turn.batch)
  OBVIOUS
<1>3. /\ ctx.items \in Seq(Item) /\ turn \in Turns /\ turn.calls \in Seq(Calls) /\ seen \subseteq Calls
  BY HeldParts
<1>4. /\ Head(turn.calls) = call /\ call \in Calls /\ call # NoCall /\ call \in ToSet(turn.calls)
      /\ turn.calls # <<>> /\ Len(turn.calls) \in Nat \ {0}
      /\ ToSet(turn.calls) \subseteq CallsMade(ctx.items) /\ ctx.redo = <<>>
      /\ ToSet(turn.calls) \subseteq seen /\ Distinct(turn.calls)
      /\ \A k \in DOMAIN ctx.items :
           ctx.items[k].answers \in ToSet(turn.calls) =>
             turn.shortened /\ ctx.items[k].answers = turn.calls[1] /\ IsWhole(ctx.items[k])
  BY <1>1, Executing
<1>5. TurnHolds /\ ContextHolds
  BY DEF KernelHolds
<1>6. /\ WellFormed(e) /\ e.items = ctx.items /\ e.next = ctx.next /\ e.redo = <<>>
      /\ e.taken \in Nat /\ VersionsOf(e) \subseteq VersionsOf(ctx)
  BY <1>2, <1>4, <1>5, RecordedIn
<1>7. /\ item \in Item /\ Named(item) = {call} /\ ToSet(item.calls) = {} /\ item.answers = call
      /\ ~IsWhole(item)
  BY <1>4, ItemsMade DEF Named, ToSet
<1>8. Loading = {}
  BY <1>1 DEF Loading
<1>9. ctx' = Add(e, item, Counter)
  BY <1>1, <1>2, <1>4 DEF AddIn
<1>10. Loading' = {}
  BY <1>1, NoTurnIs DEF Loading
<1> HIDE DEF item
<1>11. /\ ContextHolds' /\ ctx'.next = ctx.next + 1 /\ ctx'.redo = <<>> /\ ctx'.taken = e.taken
       /\ Ids(ctx'.items) = Ids(ctx.items) \cup {ctx.next}
       /\ CallsMade(ctx'.items) = CallsMade(ctx.items) \cup ToSet(item.calls)
       /\ DOMAIN ctx'.items = 1..(Len(ctx.items) + 1)
       /\ \A k \in 1..Len(ctx.items) : k \in DOMAIN ctx.items /\ ctx'.items[k] = ctx.items[k]
       /\ ctx'.items[Len(ctx.items) + 1].answers = item.answers
  <2>1. Named(item) \subseteq seen \cup Loading /\ ToSet(item.calls) \cap CallsMade(ctx.items) = {}
    BY <1>4, <1>7
  <2>2. item.answers \in CallsMade(ctx.items)
    BY <1>4, <1>7
  <2>3. \A k \in DOMAIN ctx.items :
          ctx.items[k].answers = item.answers => IsWhole(ctx.items[k]) # IsWhole(item)
    BY <1>4, <1>7
  <2>4. Loading' = Loading
    BY <1>8, <1>10
  <2>. QED
    BY <1>1, <1>5, <1>6, <1>7, <1>9, <2>1, <2>2, <2>3, <2>4, ItemAdded
<1>12. PICK new : /\ Moves(new) /\ Records' = Records \cup ToSet(new)
                  /\ \A r \in ToSet(new) : r.what # "finished" /\ r.asks = 0
  BY <1>1, <1>11, AddedSaid
<1>13. LogHolds' /\ Covered'
  BY <1>1, <1>11, AddedSaid
<1>14. CountersHold'
  BY <1>1 DEF KernelHolds, CountersHold
<1>15. TurnHolds' /\ TurnUnused'
  <2>1. CASE Len(turn.calls) = 1
    <3>1. turn' = NoTurn /\ 0 <= ctx'.taken
      BY <1>1, <1>6, <1>11, <2>1
    <3>. QED
      BY <3>1, NoTurnIs, RestingHolds
  <2>2. CASE Len(turn.calls) # 1
    <3> DEFINE rest == Tail(turn.calls)
    <3>1. /\ rest \in Seq(Calls) /\ DOMAIN rest = 1..(Len(turn.calls) - 1)
          /\ \A k \in 1..(Len(turn.calls) - 1) : rest[k] = turn.calls[k + 1]
          /\ Len(rest) = Len(turn.calls) - 1
      BY <1>3, <1>4, AllButFirst
    <3>2. rest # <<>>
      <4>1. Len(rest) # 0
        BY <3>1, <1>4, <2>2
      <4>. HIDE DEF rest
      <4>. QED
        BY <4>1
    <3>3. /\ turn' \in Turns /\ turn'.at = "executing" /\ turn'.calls = rest
          /\ turn'.batch = ctx'.taken /\ ~turn'.shortened
      BY <1>1, <1>3, <1>6, <1>11, <2>2, <3>1 DEF Turns
    <3> HIDE DEF rest
    <3>4. \A k \in DOMAIN rest : k + 1 \in DOMAIN turn.calls /\ rest[k] = turn.calls[k + 1]
      BY <3>1, <1>3, <1>4
    <3>5. Distinct(rest)
      <4>1. ASSUME NEW j \in DOMAIN rest, NEW k \in DOMAIN rest, rest[j] = rest[k] PROVE j = k
        <5>1. j + 1 = k + 1
          BY <3>4, <4>1, <1>4 DEF Distinct
        <5>. QED
          BY <5>1, <3>1
      <4>. QED
        BY <4>1 DEF Distinct
    <3>6. ToSet(rest) \subseteq ToSet(turn.calls) /\ call \notin ToSet(rest)
      <4>1. ToSet(rest) \subseteq ToSet(turn.calls)
        BY <3>4 DEF ToSet
      <4>2. ASSUME NEW k \in DOMAIN rest, rest[k] = call PROVE FALSE
        <5>1. k + 1 \in DOMAIN turn.calls /\ 1 \in DOMAIN turn.calls /\ k \in Nat /\ k > 0
          BY <3>1, <3>4, <1>3, <1>4
        <5>2. turn.calls[k + 1] = turn.calls[1]
          BY <3>4, <4>2
        <5>3. k + 1 = 1
          BY <5>1, <5>2, <1>4 DEF Distinct
        <5>. QED
          BY <5>1, <5>3
      <4>. QED
        BY <4>1, <4>2 DEF ToSet
    <3>7. ASSUME NEW k \in DOMAIN ctx'.items PROVE ctx'.items[k].answers \notin ToSet(rest)
      <4>1. CASE k = Len(ctx.items) + 1
        BY <4>1, <3>6, <1>7, <1>11
      <4>2. CASE k # Len(ctx.items) + 1
        <5>1. k \in DOMAIN ctx.items /\ ctx'.items[k] = ctx.items[k]
          BY <4>2, <1>3, <1>11
        <5>. QED
          BY <5>1, <3>6, <1>4
      <4>. QED
        BY <4>1, <4>2
    <3>8. ToSet(rest) \subseteq CallsMade(ctx'.items) /\ ToSet(rest) \subseteq seen'
      BY <1>1, <1>4, <1>11, <3>6
    <3>9. turn'.batch <= ctx'.taken
      BY <1>6, <1>11, <3>3
    <3>10. TurnHolds'
      BY <1>11, <3>2, <3>3, <3>5, <3>7, <3>8, <3>9 DEF TurnHolds
    <3>. QED
      BY <3>3, <3>10 DEF TurnUnused
  <2>. QED
    BY <2>1, <2>2
<1>. QED
  BY <1>11, <1>12, <1>13, <1>14, <1>15 DEF Kept, KernelHolds

\* An undo or a redo: the log says which items went and which came.
LEMMA WalkMoves ==
  ASSUME KernelHolds, UNCHANGED recorder, NEW to, Walk(to), WellFormed(to),
         to.next = ctx.next, to.taken = ctx.taken, VersionsOf(to) \subseteq VersionsOf(ctx)
  PROVE  Kept
<1> DEFINE event == Moved(ctx.items, to.items)
<1>1. /\ turn.at = "resting" /\ ctx' = to /\ Emit(<<event>>)
      /\ seen' = seen /\ permission' = permission /\ turn' = turn
  BY DEF Walk
<1>2. /\ ctx.next \in Nat \ {0} /\ ctx.taken \in Nat /\ seq \in Nat /\ permission \in Nat \ {0}
      /\ WellFormed(ctx) /\ turn \in Turns /\ turn.batch \in Nat /\ turn.batch <= ctx.taken
      /\ ListedIn(earlier \o log) = Ids(ctx.items) /\ earlier \o log \in Seq(RecordType)
      /\ ctx.items \in VersionsOf(ctx)
  BY HeldParts
<1>3. TurnHolds /\ LogHolds /\ ContextHolds /\ CountersHold
  BY DEF KernelHolds
<1>4. /\ Ids(to.items) \subseteq 1..MaxItems /\ Ids(to.items) \subseteq Nat
      /\ Ids(ctx.items) \subseteq Nat
  <2>1. ctx.next <= MaxItems + 1 /\ MaxItems \in Nat
    BY <1>3, RoomEnough DEF ContextHolds
  <2>2. \A v \in VersionsOf(ctx) : Ids(v) \subseteq 1..(ctx.next - 1)
    <3>1. \A v \in VersionsOf(ctx) : VersionOK(v, ctx.next)
      BY <1>2, Parts
    <3>. QED
      BY <3>1 DEF VersionOK, Ids
  <2>3. to.items \in VersionsOf(ctx)
    BY DEF VersionsOf
  <2>. QED
    BY <1>2, <2>1, <2>2, <2>3
<1>5. /\ event \in EventType /\ event.what = "moved" /\ event.asks = 0
      /\ event.adds = Ids(to.items) \ Ids(ctx.items)
      /\ event.takes = Ids(ctx.items) \ Ids(to.items)
  BY <1>4 DEF Moved, Event, EventType, Whats
<1> HIDE DEF event
<1>6. PICK new : /\ LogGrows(new) /\ Len(new) = 1 /\ DOMAIN new = {1}
                 /\ new[1] = Numbered(event, seq + 1)
  <2> DEFINE events == <<event>>
  <2>1. events \in Seq(EventType) /\ Len(events) = 1 /\ events[1] = event /\ DOMAIN events = {1}
    BY <1>5
  <2>2. Emit(events)
    BY <1>1
  <2> HIDE DEF events
  <2>. QED
    BY <1>3, <2>1, <2>2, Emitted
<1>7. /\ new[1].what = "moved" /\ new[1].adds = event.adds /\ new[1].takes = event.takes
      /\ new[1].asks = 0
  BY <1>5, <1>6 DEF Numbered
<1>8. Moves(new)
  <2>1. Fresh(new, 1)
    BY <1>1, <1>2, <1>7 DEF Fresh
  <2>2. CountersGrow
    BY <1>1, <1>2 DEF CountersGrow
  <2>. QED
    BY <1>6, <2>1, <2>2 DEF Moves
<1>9. ListedIn((earlier \o log) \o new) = Ids(ctx'.items)
  <2>1. new \in Seq(RecordType) /\ new[1].adds \subseteq 1..MaxItems
    BY <1>4, <1>5, <1>6, <1>7 DEF LogGrows
  <2>2. ListedIn((earlier \o log) \o new) = (ListedIn(earlier \o log) \ new[1].takes) \cup new[1].adds
    BY <1>2, <1>6, <2>1, OneLists
  <2>. QED
    BY <1>1, <1>2, <1>5, <1>7, <2>2
<1>10. LogHolds' /\ Covered' /\ Records' = Records \cup ToSet(new)
  BY <1>8, <1>9, KernelHeld
<1>11. ToSet(new) = {new[1]}
  BY <1>6 DEF ToSet
<1>12. TurnUnused'
  <2>1. \A r \in ToSet(new) : r.what # "finished" /\ r.asks = 0
    BY <1>7, <1>11
  <2>. QED
    BY <1>1, <1>2, <1>10, <2>1, StillUnused DEF KernelHolds
<1>13. TurnHolds'
  BY <1>1, <1>2, <1>3 DEF TurnHolds
<1>14. ContextHolds'
  BY <1>1, <1>3 DEF ContextHolds, Loading
<1>15. CountersHold'
  BY <1>1, <1>3 DEF CountersHold
<1>. QED
  BY <1>8, <1>10, <1>12, <1>13, <1>14, <1>15 DEF Kept, KernelHolds

\* Undo walks to the version last checkpointed.
LEMMA UndoMoves ==
  ASSUME KernelHolds, Undo, UNCHANGED recorder
  PROVE  Kept
<1>1. ctx.undo # <<>> /\ Walk(Undone(ctx)) /\ WellFormed(ctx)
  BY HeldParts DEF Undo
<1>2. /\ WellFormed(Undone(ctx)) /\ Undone(ctx).next = ctx.next /\ Undone(ctx).taken = ctx.taken
      /\ VersionsOf(Undone(ctx)) \subseteq VersionsOf(ctx)
  BY <1>1, UndoneMoves
<1>. QED
  BY <1>1, <1>2, WalkMoves

\* Redo walks to the version last undone.
LEMMA RedoMoves ==
  ASSUME KernelHolds, Redo, UNCHANGED recorder
  PROVE  Kept
<1>1. ctx.redo # <<>> /\ Walk(Redone(ctx)) /\ WellFormed(ctx)
  BY HeldParts DEF Redo
<1>2. /\ WellFormed(Redone(ctx)) /\ Redone(ctx).next = ctx.next /\ Redone(ctx).taken = ctx.taken
      /\ VersionsOf(Redone(ctx)) \subseteq VersionsOf(ctx)
  BY <1>1, RedoneMoves
<1>. QED
  BY <1>1, <1>2, WalkMoves

\* ReserveCalls: the calls that were loaded are used from here on.
LEMMA ReserveCallsMoves ==
  ASSUME KernelHolds, ReserveCalls, UNCHANGED recorder
  PROVE  Kept
<1> DEFINE event == Event("reserved")
<1>1. /\ turn.at = "loading" /\ Emit(<<event>>) /\ seen' = seen \cup ToSet(turn.calls)
      /\ turn' = NoTurn /\ ctx' = ctx /\ permission' = permission
  BY DEF ReserveCalls
<1>2. /\ ctx.next \in Nat \ {0} /\ ctx.taken \in Nat /\ seq \in Nat /\ permission \in Nat \ {0}
      /\ turn.calls \in Seq(Calls) /\ seen \subseteq Calls
  BY HeldParts
<1>3. LogHolds /\ ContextHolds /\ CountersHold
  BY DEF KernelHolds
<1>4. /\ event \in EventType /\ event.what = "reserved" /\ event.asks = 0
      /\ event.adds = {} /\ event.takes = {}
  BY DEF Event, EventType, Whats
<1> HIDE DEF event
<1>5. PICK new : /\ LogGrows(new) /\ Len(new) = 1 /\ DOMAIN new = {1}
                 /\ new[1] = Numbered(event, seq + 1)
  <2> DEFINE events == <<event>>
  <2>1. events \in Seq(EventType) /\ Len(events) = 1 /\ events[1] = event /\ DOMAIN events = {1}
    BY <1>4
  <2>2. Emit(events)
    BY <1>1
  <2> HIDE DEF events
  <2>. QED
    BY <1>3, <2>1, <2>2, Emitted
<1>6. /\ new[1].what = "reserved" /\ new[1].adds = {} /\ new[1].takes = {} /\ new[1].asks = 0
  BY <1>4, <1>5 DEF Numbered
<1>7. Moves(new)
  <2>1. Fresh(new, 1)
    BY <1>1, <1>2, <1>6 DEF Fresh
  <2>2. CountersGrow
    BY <1>1, <1>2 DEF CountersGrow
  <2>. QED
    BY <1>5, <2>1, <2>2 DEF Moves
<1>8. ListedIn((earlier \o log) \o new) = Ids(ctx'.items)
  BY <1>1, <1>5, <1>6, ItemsStay
<1>9. LogHolds' /\ Covered'
  BY <1>7, <1>8, KernelHeld
<1>10. CountersHold'
  <2>1. ToSet(turn.calls) \subseteq Calls
    BY <1>2, InSet
  <2>. QED
    BY <1>1, <1>3, <2>1 DEF CountersHold
<1>11. TurnHolds' /\ TurnUnused' /\ Loading' = {}
  <2>1. 0 <= ctx'.taken
    BY <1>1, <1>2
  <2>. QED
    BY <1>1, <2>1, NoTurnIs, RestingHolds
<1>12. ContextHolds'
  <2>1. seen' \cup Loading' = seen \cup Loading
    BY <1>1, <1>11 DEF Loading
  <2>. QED
    BY <1>1, <1>3, <2>1 DEF ContextHolds
<1>. QED
  BY <1>7, <1>9, <1>10, <1>11, <1>12 DEF Kept, KernelHolds

\* What is given is used by none before, nor twice.
LEMMA GivenApart ==
  ASSUME NEW n \in Nat, NEW offered \in [1..n -> Calls \cup {NoCall}], NEW given \in [1..n -> Calls],
         Renamed(offered, given)
  PROVE  Distinct(given) /\ ToSet(given) \cap seen = {} /\ given \in Seq(Calls)
<1>1. ASSUME NEW k \in 1..n
      PROVE  given[k] \notin seen /\ \A j \in 1..(k - 1) : given[j] # given[k]
  <2> DEFINE used == seen \cup {given[j] : j \in 1..(k - 1)}
  <2>1. IF offered[k] \in used \cup {NoCall} THEN given[k] \in Calls \ used
        ELSE given[k] = offered[k]
    BY DEF Renamed
  <2>2. given[k] \notin used
    BY <2>1
  <2>. QED
    BY <2>2
<1>2. \A j, k \in 1..n : given[j] = given[k] => j = k
  <2> TAKE j, k \in 1..n
  <2>1. j < k => j \in 1..(k - 1)
    OBVIOUS
  <2>2. k < j => k \in 1..(j - 1)
    OBVIOUS
  <2>3. j < k \/ k < j \/ j = k
    OBVIOUS
  <2>. QED
    BY <1>1, <2>1, <2>2, <2>3
<1>3. given \in Seq(Calls) /\ DOMAIN given = 1..n
  OBVIOUS
<1>. QED
  BY <1>1, <1>2, <1>3 DEF Distinct, ToSet

\* Answer: the calls get identifiers nobody has used, and the log says which were changed.
LEMMA AnswerMoves ==
  ASSUME KernelHolds, UNCHANGED recorder, NEW n \in Nat,
         NEW offered \in [1..n -> Calls \cup {NoCall}], NEW given \in [1..n -> Calls],
         Answer(offered, given)
  PROVE  Kept
<1> DEFINE changed == {k \in DOMAIN given : given[k] # offered[k]}
           repaired == InOrder(changed, {pair \in changed \X changed : pair[1] < pair[2]})
           said(j) == [Event("repaired") EXCEPT !.calls = {given[repaired[j]]}]
           events == [j \in DOMAIN repaired |-> said(j)]
<1>1. /\ turn.at = "resting" /\ Renamed(offered, given) /\ Emit(events)
      /\ seen' = seen \cup ToSet(given) /\ ctx' = ctx /\ permission' = permission
      /\ turn' = [NoTurn EXCEPT !.at = "answered", !.calls = given]
  BY DEF Answer
<1>2. /\ ctx.next \in Nat \ {0} /\ ctx.taken \in Nat /\ seq \in Nat /\ permission \in Nat \ {0}
      /\ seen \subseteq Calls
  BY HeldParts
<1>3. LogHolds /\ ContextHolds /\ CountersHold
  BY DEF KernelHolds
<1>4. /\ Distinct(given) /\ ToSet(given) \cap seen = {} /\ given \in Seq(Calls)
      /\ ToSet(given) \subseteq Calls
  BY <1>1, GivenApart, InSet
<1>5. changed \subseteq 1..n /\ IsFiniteSet(changed) /\ Cardinality(changed) \in Nat
  <2>1. changed \subseteq 1..n /\ IsFiniteSet(1..n)
    BY FS_Interval
  <2>2. IsFiniteSet(changed)
    BY <2>1, FS_Subset
  <2>. QED
    BY <2>1, <2>2, FS_CardinalityType
<1>6. DOMAIN repaired = 1..Cardinality(changed)
  BY DEF InOrder
<1>7. repaired \in [1..Cardinality(changed) -> 1..n]
  <2> DEFINE less == {pair \in changed \X changed : pair[1] < pair[2]}
  <2>1. \A x, y \in changed : x \in Nat /\ y \in Nat /\ (<<x, y>> \in less <=> x < y)
    BY <1>5
  <2> HIDE DEF changed, less
  <2>2. \A x \in changed : <<x, x>> \notin less
    BY <2>1
  <2>3. \A x, y \in changed : x # y => <<x, y>> \in less \/ <<y, x>> \in less
    BY <2>1
  <2>4. \A x, y, z \in changed : <<x, y>> \in less /\ <<y, z>> \in less => <<x, z>> \in less
    BY <2>1
  <2>5. InOrder(changed, less) \in [1..Cardinality(changed) -> changed]
    BY <1>5, <2>2, <2>3, <2>4, InOrderLists
  <2>6. repaired = InOrder(changed, less)
    BY DEF less, changed
  <2>. QED
    BY <1>5, <2>5, <2>6 DEF changed
<1>8. repaired \in Seq(1..n) /\ \A j \in DOMAIN repaired : repaired[j] \in 1..n
  <2> HIDE DEF repaired, changed
  <2>. QED
    BY <1>5, <1>7
<1> HIDE DEF repaired, changed
<1>9. \A j \in DOMAIN repaired :
        /\ said(j) \in EventType /\ said(j).what = "repaired" /\ said(j).asks = 0
        /\ said(j).adds = {} /\ said(j).takes = {}
  <2> TAKE j \in DOMAIN repaired
  <2>1. given[repaired[j]] \in Calls
    BY <1>8
  <2>. QED
    BY <2>1 DEF Event, EventType, Whats
<1>10. DOMAIN events = DOMAIN repaired /\ \A k \in DOMAIN events : events[k] = said(k)
  OBVIOUS
<1> HIDE DEF said
<1>11. events \in Seq(EventType)
  <2>1. events = [k \in DOMAIN repaired |-> events[k]]
    OBVIOUS
  <2>2. \A k \in DOMAIN repaired : events[k] \in EventType
    BY <1>9, <1>10
  <2> HIDE DEF events
  <2>. QED
    BY <1>8, <2>1, <2>2, MadeFrom
<1> HIDE DEF events
<1>12. PICK new : /\ LogGrows(new) /\ DOMAIN new = DOMAIN repaired
                  /\ \A k \in DOMAIN new : new[k] = Numbered(events[k], seq + k)
  BY <1>1, <1>3, <1>10, <1>11, Emitted
<1>13. \A k \in DOMAIN new : /\ new[k].what = "repaired" /\ new[k].asks = 0
                             /\ new[k].adds = {} /\ new[k].takes = {}
  <2> TAKE k \in DOMAIN new
  <2>1. k \in DOMAIN repaired /\ new[k] = Numbered(said(k), seq + k)
    BY <1>10, <1>12
  <2>. QED
    BY <1>9, <2>1 DEF Numbered
<1>14. Moves(new)
  <2>1. \A k \in DOMAIN new : Fresh(new, k)
    BY <1>1, <1>2, <1>13 DEF Fresh
  <2>2. CountersGrow
    BY <1>1, <1>2 DEF CountersGrow
  <2>. QED
    BY <1>12, <2>1, <2>2 DEF Moves
<1>15. ListedIn((earlier \o log) \o new) = Ids(ctx'.items)
  BY <1>1, <1>12, <1>13, ItemsStay
<1>16. LogHolds' /\ Covered' /\ Records' = Records \cup ToSet(new)
  BY <1>14, <1>15, KernelHeld
<1>17. CountersHold'
  BY <1>1, <1>3, <1>4 DEF CountersHold
<1>18. /\ turn' \in Turns /\ turn'.at = "answered" /\ turn'.calls = given /\ turn'.asks = <<>>
       /\ turn'.batch = 0 /\ ~turn'.shortened
  <2>1. turn' = [at |-> "answered", calls |-> given, asks |-> <<>>, batch |-> 0, shortened |-> FALSE]
    BY <1>1 DEF NoTurn
  <2>2. <<>> \in Seq(Nat \ {0})
    OBVIOUS
  <2>. QED
    BY <1>4, <2>1, <2>2 DEF Turns, Phases
<1>19. Loading = {} /\ Loading' = {}
  BY <1>1, <1>18 DEF Loading
<1>20. ContextHolds'
  <2>1. \A v \in VersionsOf(ctx) : VersionHolds(v, (seen \cup Loading)')
    BY <1>1, <1>3, <1>19, NamedWider DEF ContextHolds
  <2>. QED
    BY <1>1, <1>3, <2>1 DEF ContextHolds
<1>21. TurnHolds'
  <2>1. \A v \in VersionsOf(ctx) : NamedIn(v) \cap ToSet(given) = {}
    BY <1>3, <1>4, <1>19 DEF ContextHolds, VersionHolds
  <2>2. turn'.batch <= ctx'.taken /\ ToSet(given) \subseteq seen'
    BY <1>1, <1>2, <1>18
  <2>. QED
    BY <1>1, <1>4, <1>18, <2>1, <2>2 DEF TurnHolds
<1>22. TurnUnused'
  <2>1. ASSUME NEW r \in Records', r.what = "finished" PROVE r.calls \cap ToSet(given) = {}
    <3>1. r \in Records
      BY <2>1, <1>13, <1>16 DEF ToSet
    <3>2. r.calls \subseteq seen
      BY <2>1, <3>1 DEF KernelHolds, Covered, Covers, CoversCalls, Here
    <3>. QED
      BY <3>2, <1>4
  <2>. QED
    BY <1>18, <2>1 DEF TurnUnused
<1>. QED
  BY <1>14, <1>16, <1>17, <1>20, <1>21, <1>22 DEF Kept, KernelHolds

\* LoadTurn: a turn and its result are added at once, the call reserved afterwards.
LEMMA LoadTurnMoves ==
  ASSUME KernelHolds, UNCHANGED recorder, NEW call \in Calls, LoadTurn(call)
  PROVE  Kept
<1> DEFINE one == Turn(<<call>>)
           other == Result(call)
           n == ctx.next
<1>1. /\ turn.at = "resting" /\ Room(2) /\ call \notin seen
      /\ ctx' = AddAll(Checkpoint(ctx), <<one, other>>, Counter)
      /\ Emit(<<Added(n), Added(n + 1)>>)
      /\ turn' = [NoTurn EXCEPT !.at = "loading", !.calls = <<call>>]
      /\ seen' = seen /\ permission' = permission
  BY DEF LoadTurn
<1>2. /\ n \in Nat \ {0} /\ ctx.taken \in Nat /\ seq \in Nat /\ permission \in Nat \ {0}
      /\ WellFormed(ctx) /\ ctx.items \in Seq(Item) /\ seen \subseteq Calls
      /\ ListedIn(earlier \o log) = Ids(ctx.items) /\ earlier \o log \in Seq(RecordType)
      /\ ctx.items \in VersionsOf(ctx)
      /\ CallsMade(ctx.items) \subseteq NamedIn(ctx.items)
  BY HeldParts
<1>3. LogHolds /\ ContextHolds /\ CountersHold
  BY DEF KernelHolds
<1>4. n + 1 \in Nat /\ n + 1 <= MaxItems /\ n <= MaxItems /\ MaxItems \in Nat
  <2>1. ctx.next + 2 <= MaxItems + 1
    BY <1>1 DEF Room
  <2>2. MaxItems \in Nat
    BY RoomEnough
  <2>. QED
    BY <1>2, <2>1, <2>2
<1>5. /\ one \in Item /\ one.calls = <<call>> /\ ToSet(one.calls) = {call} /\ one.answers = NoCall
      /\ Named(one) = {call}
      /\ other \in Item /\ ToSet(other.calls) = {} /\ other.answers = call /\ Named(other) = {call}
      /\ call # NoCall
  <2>1. <<call>> \in Seq(Calls) /\ ToSet(<<call>>) = {call} /\ call # NoCall
    BY RoomEnough DEF ToSet
  <2>2. ToSet(<<>>) = {}
    BY DEF ToSet
  <2>. QED
    BY <2>1, <2>2, ItemsMade DEF Named
<1> DEFINE e == Checkpoint(ctx)
<1>6. /\ WellFormed(e) /\ e.items = ctx.items /\ e.next = n /\ e.redo = <<>>
      /\ e.taken \in Nat /\ VersionsOf(e) \subseteq VersionsOf(ctx)
  BY <1>2, CheckpointLists
<1> DEFINE x == Put(one, n)
           y == Put(other, n + 1)
           v == ctx.items
           w == Append(v, x)
<1>7. /\ x \in Item /\ x.priced = Counter /\ ToSet(x.calls) = {call} /\ x.answers = NoCall
      /\ Named(x) = {call}
      /\ y \in Item /\ y.priced = Counter /\ ToSet(y.calls) = {} /\ y.answers = call
      /\ Named(y) = {call}
  BY <1>2, <1>4, <1>5, PutIsItem, ZenonT(60)
<1>8. /\ WellFormed(ctx') /\ ctx'.next = n + 2 /\ ctx'.redo = <<>> /\ ctx'.taken = e.taken
      /\ ctx'.items = Append(w, y)
      /\ Ids(ctx'.items) = Ids(v) \cup {n, n + 1}
      /\ VersionsOf(ctx') \subseteq VersionsOf(e) \cup {ctx'.items}
  <2>1. ctx' = AddAll(e, <<one, other>>, Counter)
    BY <1>1
  <2>2. one \in Item /\ other \in Item
    BY <1>5
  <2> HIDE DEF one, other, e, n
  <2> DEFINE d == AddAll(e, <<one, other>>, Counter)
  <2>3. /\ WellFormed(d) /\ d.next = e.next + 2 /\ d.redo = <<>> /\ d.taken = e.taken
        /\ d.items = Append(Append(e.items, Put(one, e.next)), Put(other, e.next + 1))
        /\ Ids(d.items) = Ids(e.items) \cup {e.next, e.next + 1}
        /\ VersionsOf(d) \subseteq VersionsOf(e) \cup {d.items}
    BY <1>6, <2>2, BothAdded
  <2> HIDE DEF d
  <2>4. ctx' = d
    BY <2>1 DEF d
  <2>. QED
    BY <1>6, <2>3, <2>4
<1>9. Loading = {} /\ Loading' = {call}
  <2>1. turn'.at = "loading" /\ turn'.calls = <<call>>
    BY <1>1 DEF NoTurn
  <2>2. ToSet(<<call>>) = {call}
    BY DEF ToSet
  <2>. QED
    BY <1>1, <2>1, <2>2 DEF Loading
<1> DEFINE wider == seen \cup {call}
<1>10. /\ VersionHolds(v, seen) /\ v \in Seq(Item) /\ NamedIn(v) \subseteq seen
       /\ call \notin CallsMade(v) /\ \A k \in DOMAIN v : v[k].answers # call
  <2>1. VersionHolds(v, seen) /\ NamedIn(v) \subseteq seen
    BY <1>2, <1>3, <1>9 DEF ContextHolds, VersionHolds
  <2>2. \A k \in DOMAIN v : v[k].answers # NoCall => v[k].answers \in NamedIn(v)
    BY DEF NamedIn, Named
  <2>. QED
    BY <1>1, <1>2, <1>5, <2>1, <2>2
<1> HIDE DEF one, other, x, y, v, w, wider, n, e
<1>11. /\ VersionHolds(w, wider) /\ w \in Seq(Item) /\ CallsMade(w) = CallsMade(v) \cup {call}
       /\ \A k \in DOMAIN w : w[k].answers # call
  <2>1. seen \subseteq wider /\ Named(x) \subseteq wider /\ ToSet(x.calls) \cap CallsMade(v) = {}
    BY <1>7, <1>10 DEF wider
  <2>2. /\ VersionHolds(Append(v, x), wider) /\ Append(v, x) \in Seq(Item)
        /\ CallsMade(Append(v, x)) = CallsMade(v) \cup ToSet(x.calls)
    BY <1>7, <1>10, <2>1, OneMoreItem
  <2>3. ASSUME NEW k \in DOMAIN w PROVE w[k].answers # call
    <3>1. DOMAIN w = 1..(Len(v) + 1) /\ w[Len(v) + 1] = x /\ \A j \in 1..Len(v) : w[j] = v[j]
          /\ DOMAIN v = 1..Len(v) /\ Len(v) \in Nat
      BY <1>7, <1>10 DEF w
    <3>2. CASE k = Len(v) + 1
      BY <3>1, <3>2, <1>5, <1>7
    <3>3. CASE k # Len(v) + 1
      <4>1. k \in DOMAIN v /\ w[k] = v[k]
        BY <3>1, <3>3
      <4>. QED
        BY <4>1, <1>10
    <3>. QED
      BY <3>2, <3>3
  <2>. QED
    BY <1>7, <2>2, <2>3 DEF w
<1>12. VersionHolds(ctx'.items, wider)
  <2>1. wider \subseteq wider /\ Named(y) \subseteq wider /\ ToSet(y.calls) \cap CallsMade(w) = {}
        /\ y.answers \in CallsMade(w)
    BY <1>7, <1>11 DEF wider
  <2>2. \A k \in DOMAIN w : w[k].answers = y.answers => IsWhole(w[k]) # IsWhole(y)
    BY <1>7, <1>11
  <2>3. VersionHolds(Append(w, y), wider)
    BY <1>7, <1>11, <2>1, <2>2, OneMoreItem
  <2>. QED
    BY <1>8, <2>3
<1>13. ContextHolds'
  <2>1. seen' \cup Loading' = wider
    BY <1>1, <1>9 DEF wider
  <2>2. ctx'.next <= MaxItems + 1
    <3>1. n \in Nat
      BY <1>2 DEF n
    <3>. QED
      BY <1>4, <1>8, <3>1
  <2>3. \A u \in VersionsOf(ctx) : VersionHolds(u, wider)
    BY <1>3, <1>9, NamedWider DEF ContextHolds, wider
  <2>4. \A u \in VersionsOf(ctx') : VersionHolds(u, wider)
    BY <1>6, <1>8, <1>12, <2>3
  <2>. QED
    BY <1>8, <2>1, <2>2, <2>4 DEF ContextHolds
<1>14. /\ turn' \in Turns /\ turn'.at = "loading" /\ turn'.calls = <<call>> /\ turn'.batch = 0
  <2>1. turn' = [at |-> "loading", calls |-> <<call>>, asks |-> <<>>, batch |-> 0, shortened |-> FALSE]
    BY <1>1 DEF NoTurn
  <2>2. <<>> \in Seq(Nat \ {0}) /\ <<call>> \in Seq(Calls)
    OBVIOUS
  <2>. QED
    BY <2>1, <2>2 DEF Turns, Phases
<1>15. TurnHolds' /\ TurnUnused'
  <2>1. Distinct(<<call>>)
    BY DEF Distinct
  <2>2. turn'.batch <= ctx'.taken
    BY <1>6, <1>8, <1>14
  <2>. QED
    BY <1>14, <2>1, <2>2 DEF TurnHolds, TurnUnused
<1>16. CountersHold'
  BY <1>1, <1>3 DEF CountersHold
<1> DEFINE first == Added(n)
           second == Added(n + 1)
<1>17. /\ first \in EventType /\ first.what = "added" /\ first.adds = {n} /\ first.takes = {}
       /\ first.asks = 0
       /\ second \in EventType /\ second.what = "added" /\ second.adds = {n + 1} /\ second.takes = {}
       /\ second.asks = 0
  BY <1>2, <1>4 DEF Added, Event, EventType, Whats, n
<1>18. PICK new : /\ LogGrows(new) /\ Len(new) = 2 /\ DOMAIN new = {1, 2}
                  /\ new[1] = Numbered(first, seq + 1) /\ new[2] = Numbered(second, seq + 2)
  <2> DEFINE events == <<first, second>>
  <2>1. Emit(events)
    BY <1>1
  <2> HIDE DEF first, second
  <2>2. events \in Seq(EventType) /\ Len(events) = 2 /\ events[1] = first /\ events[2] = second
        /\ DOMAIN events = {1, 2}
    BY <1>17
  <2> HIDE DEF events
  <2>. QED
    BY <1>3, <2>1, <2>2, Emitted
<1> HIDE DEF first, second
<1>19. /\ new[1].what = "added" /\ new[1].adds = {n} /\ new[1].takes = {} /\ new[1].asks = 0
       /\ new[2].what = "added" /\ new[2].adds = {n + 1} /\ new[2].takes = {} /\ new[2].asks = 0
  BY <1>17, <1>18 DEF Numbered
<1>20. Moves(new)
  <2>0. n \in Nat /\ ctx.next = n
    BY <1>2 DEF n
  <2>c. ctx'.next = n + 2 /\ permission' = permission /\ seen' = seen /\ permission \in Nat \ {0}
    BY <1>1, <1>2, <1>8
  <2>1. n # n + 1 /\ {n} \subseteq n .. (ctx'.next - 1) /\ {n + 1} \subseteq n .. (ctx'.next - 1)
        /\ 0 < permission' /\ ctx.next = n /\ {n} # {} /\ {n + 1} # {} /\ {n} # {n + 1}
    BY <2>0, <2>c
  <2>2. Fresh(new, 1) /\ Fresh(new, 2)
    BY <1>18, <1>19, <2>1 DEF Fresh
  <2>3. CountersGrow
    BY <2>0, <2>c DEF CountersGrow
  <2>. QED
    BY <1>18, <2>2, <2>3 DEF Moves
<1>21. ListedIn((earlier \o log) \o new) = Ids(ctx'.items)
  <2>1. \A k \in 1..2 : new[k].adds \subseteq 1..MaxItems /\ new[k].takes = {}
    BY <1>2, <1>4, <1>19
  <2>2. new \in Seq(RecordType)
    BY <1>18 DEF LogGrows
  <2>3. ListedIn((earlier \o log) \o new) = ListedIn(earlier \o log) \cup new[1].adds \cup new[2].adds
    BY <1>2, <1>18, <2>1, <2>2, TwoList
  <2>. QED
    BY <1>2, <1>8, <1>19, <2>3 DEF v
<1>22. LogHolds' /\ Covered'
  BY <1>20, <1>21, KernelHeld
<1>. QED
  BY <1>13, <1>15, <1>16, <1>20, <1>22 DEF Kept, KernelHolds

\* Whatever the kernel's step.
LEMMA KernelMoves ==
  ASSUME KernelHolds, KernelNext, UNCHANGED recorder
  PROVE  Kept
<1>1. ASSUME NEW n \in 0..MaxBatch, NEW offered \in [1..n -> Calls \cup {NoCall}],
             NEW given \in [1..n -> Calls], Answer(offered, given)
      PROVE  Kept
  BY <1>1, RoomEnough, AnswerMoves
<1>2. ASSUME NEW call \in Calls, LoadTurn(call) PROVE Kept
  BY <1>2, LoadTurnMoves
<1>. QED
  BY <1>1, <1>2, RecordTurnMoves, FinishTurnMoves, QuestionMoves, AnnounceQuestionsMoves,
     RecordWholeMoves, RecordResultMoves, AbandonMoves, PushMoves, UndoMoves, RedoMoves,
     ReserveCallsMoves DEF KernelNext

---------------------------------------------------------------------------
(* A kernel's step beside the recorder.                                    *)

\* Two records that share no number are two, and one that shares one with itself is one.
Apart(one, other) ==
  /\ one.seq = other.seq => one = other
  /\ one.what = "added" /\ other.what = "added" /\ one.adds = other.adds => one = other
  /\ one.what = "finished" /\ other.what = "finished" /\ one.calls \cap other.calls # {} =>
       one = other
  /\ one.asks # 0 /\ other.asks # 0 /\ one.asks = other.asks => one = other

\* NumberedOnce, record by record.
LEMMA AllApart ==
  NumberedOnce <=> \A one, other \in Records : Apart(one, other)
BY DEF NumberedOnce, Apart

\* Records that number nothing anybody had numbered keep every number used once.
LEMMA NewApart ==
  ASSUME NumberedOnce, Covered, NEW new, Moves(new), Records' = Records \cup ToSet(new),
         ctx.next \in Nat \ {0}, seq \in Nat
  PROVE  NumberedOnce'
<1>1. new \in Seq(RecordType) /\ DOMAIN new = 1..Len(new) /\ Len(new) \in Nat
      /\ \A k \in DOMAIN new : new[k].seq = seq + k /\ Fresh(new, k)
  BY DEF Moves, LogGrows
<1>2. ASSUME NEW r \in Records, NEW k \in DOMAIN new
      PROVE  Apart(r, new[k]) /\ Apart(new[k], r)
  <2>1. r \in RecordType /\ r.seq <= seq /\ Covers(Here, r)
    BY <1>2 DEF Covered
  <2>2. r.seq \in Nat
    BY <2>1 DEF RecordType
  <2>3. r.seq # new[k].seq
    BY <1>1, <2>1, <2>2
  <2>4. ~(r.what = "added" /\ new[k].what = "added" /\ r.adds = new[k].adds)
    <3>1. r.what = "added" => r.adds \subseteq 1..(ctx.next - 1)
      BY <2>1 DEF Covers, CoversItems, Here
    <3>2. new[k].what = "added" => new[k].adds # {} /\ new[k].adds \subseteq ctx.next .. (ctx'.next - 1)
      BY <1>1 DEF Fresh
    <3>3. (1..(ctx.next - 1)) \cap (ctx.next .. (ctx'.next - 1)) = {}
      OBVIOUS
    <3>. QED
      BY <3>1, <3>2, <3>3
  <2>5. r.what = "finished" /\ new[k].what = "finished" => r.calls \cap new[k].calls = {}
    BY <1>1 DEF Fresh
  <2>6. new[k].asks # 0 => r.asks # new[k].asks
    BY <1>1 DEF Fresh
  <2>. QED
    BY <2>3, <2>4, <2>5, <2>6 DEF Apart
<1>3. ASSUME NEW j \in DOMAIN new, NEW k \in DOMAIN new
      PROVE  Apart(new[j], new[k])
  <2>1. new[j].seq = new[k].seq => j = k
    BY <1>1
  <2>2. new[j].what = "added" /\ new[k].what = "added" /\ new[j].adds = new[k].adds => j = k
    BY <1>1 DEF Fresh
  <2>3. new[j].what = "finished" => j = k
    <3>1. new[j].what = "finished" => Len(new) = 1
      BY <1>1 DEF Fresh
    <3>2. Len(new) = 1 => DOMAIN new = {1}
      BY <1>1
    <3>. QED
      BY <3>1, <3>2
  <2>4. new[j].asks # 0 /\ new[k].asks # 0 /\ new[j].asks = new[k].asks => j = k
    BY <1>1 DEF Fresh
  <2>. QED
    BY <2>1, <2>2, <2>3, <2>4 DEF Apart
<1>4. \A one, other \in Records : Apart(one, other)
  BY AllApart
<1>5. \A one, other \in Records' : Apart(one, other)
  BY <1>2, <1>3, <1>4 DEF ToSet
<1>. QED
  BY <1>5 DEF NumberedOnce, Apart

\* The kernel's half of what holds, while the process lives.
LEMMA RunningKernel ==
  ASSUME RecordingInv, process # "down"
  PROVE  KernelHolds
<1>1. \A r \in Records : r \in RecordType
  <2>1. log \in Seq(RecordType) /\ files \in Seq(FileType)
    BY DEF RecordingInv, LogHolds, FilesHold
  <2>2. ToSet(log) \subseteq RecordType
    BY <2>1, InSet
  <2>3. ASSUME NEW f \in DOMAIN files PROVE ToSet(files[f].log) \subseteq RecordType
    <3>0. files[f] \in FileType
      BY <2>1
    <3>1. files[f].log \in Seq(RecordType)
      BY <3>0 DEF FileType
    <3>. QED
      BY <3>1, InSet
  <2>. QED
    BY <2>2, <2>3 DEF Records
<1>. QED
  BY <1>1 DEF RecordingInv, KernelHolds, Covered, CountersCover

\* What the files hold is theirs alone.
LEMMA FilesAlone ==
  ASSUME FilesHold, files' = files
  PROVE  FilesHold'
BY DEF FilesHold, Resumable, Newest, Carried, Opening

\* A step of the kernel keeps the invariant, the recorder wherever it is.
LEMMA KernelStep ==
  ASSUME RecordingInv, process = "running", KernelNext, UNCHANGED recorder
  PROVE  RecordingInv'
<1>1. KernelHolds
  BY RunningKernel
<1>2. KernelHolds' /\ \E new : Moves(new)
  BY <1>1, KernelMoves DEF Kept
<1>3. PICK new : Moves(new)
  BY <1>2
<1>4. /\ process' = process /\ files' = files /\ earlier' = earlier /\ kept' = kept /\ doing' = doing
  BY DEF recorder
<1>5. /\ LogHolds /\ LogGrows(new) /\ ctx.next \in Nat \ {0} /\ seq \in Nat /\ ctx'.next \in Nat
      /\ ctx.next <= ctx'.next
  BY <1>1, <1>3, HeldParts DEF KernelHolds, Moves, CountersGrow
<1>6. /\ log' \in Seq(RecordType) /\ seq' \in Nat /\ seq' <= MaxSeq /\ Len(log') <= seq'
      /\ Base' = Base /\ Base \in Nat /\ seq <= seq' /\ Len(log) <= Len(log')
      /\ ToSet(log') = ToSet(log) \cup ToSet(new)
      /\ \A n \in 0..Len(log) : SubSeq(log', 1, n) = SubSeq(log, 1, n)
  BY <1>5, LogGrown
<1>7. Records' = Records \cup ToSet(new)
  BY <1>4, <1>6 DEF Records
<1>8. \A r \in ToSet(new) : r.seq > seq
  <2>1. \A k \in DOMAIN new : new[k].seq = seq + k /\ k \in Nat /\ k > 0
    BY <1>5 DEF LogGrows
  <2>. QED
    BY <1>5, <2>1 DEF ToSet
<1>9. FilesHold'
  BY <1>4, FilesAlone DEF RecordingInv
<1>10. WiredHolds'
  BY <1>4 DEF WiredHolds
<1>11. CountersCover'
  BY <1>2 DEF KernelHolds, Covered, CountersCover
<1>12. NumberedOnce'
  BY <1>1, <1>3, <1>5, <1>7, NewApart DEF RecordingInv, KernelHolds
<1>13. KeptHolds'
  <2>1. KeptHolds /\ Len(log) \in Nat /\ log \in Seq(RecordType) /\ seq \in Nat
    BY <1>5 DEF RecordingInv, LogHolds
  <2>2. kept.written \in Nat /\ kept.written <= seq
    BY <2>1 DEF KeptHolds
  <2>3. Written' = Written /\ Written \in 0..Len(log)
    <3>1. Written' = Written
      BY <1>4, <1>6 DEF Written
    <3>2. Base = seq - Len(log)
      BY DEF Base
    <3>. QED
      BY <1>6, <2>1, <2>2, <3>1, <3>2 DEF Written
  <2>4. SubSeq(log', 1, Written') = SubSeq(log, 1, Written)
    BY <1>6, <2>3
  <2>5. log # <<>> /\ log' # <<>>
    <3>1. log # <<>>
      BY <2>1 DEF KeptHolds
    <3>2. Len(log) # 0 /\ Len(log') \in Nat
      BY <2>1, <1>6, <3>1
    <3>3. Len(log') # 0
      BY <1>6, <2>1, <3>2
    <3>. QED
      BY <3>1, <3>3
  <2>6. kept.written <= seq'
    BY <1>6, <2>1, <2>2
  <2>. QED
    BY <1>4, <1>6, <2>1, <2>4, <2>5, <2>6 DEF KeptHolds, Mine, Claimed, Resumable
<1>14. DoingHolds'
  <2>1. DoingHolds /\ Len(log) \in Nat /\ seq \in Nat /\ log \in Seq(RecordType)
    BY <1>5 DEF RecordingInv, LogHolds
  <2>2. Past("items") => doing.snap.seq \in (Base + 1)..seq /\ doing.snap.next \in Nat
    BY <2>1 DEF DoingHolds, SnapshotType
  <2>3. /\ Past("items")' = Past("items") /\ Past("calls")' = Past("calls")
        /\ Past("permission")' = Past("permission") /\ Mine' = Mine
    BY <1>4 DEF Past, Mine
  <2>4. ASSUME Past("calls") \/ Past("permission") \/ doing.at = "state" PROVE Past("items")
    BY <2>4 DEF Past
  <2>5. ASSUME Past("items"), NEW r \in Records', r.seq <= doing.snap.seq PROVE r \in Records
    <3>1. r \in ToSet(new) => r.seq > seq /\ r.seq \in Nat
      <4>1. new \in Seq(RecordType)
        BY <1>5 DEF LogGrows
      <4>2. r \in ToSet(new) => r \in RecordType
        BY <4>1, InSet
      <4>. QED
        BY <4>2, <1>8 DEF RecordType
    <3>2. doing.snap.seq <= seq /\ doing.snap.seq \in Nat
      BY <2>2, <2>5, <1>6
    <3>. QED
      BY <2>1, <2>5, <3>1, <3>2, <1>7
  <2>6. ASSUME Past("items")
        PROVE  /\ doing.snap.next <= ctx'.next /\ doing.snap.seq \in (Base' + 1)..seq'
               /\ SubSeq(log', 1, doing.snap.seq - Base') = SubSeq(log, 1, doing.snap.seq - Base)
    <3>1. doing.snap.next <= ctx.next
      BY <2>1, <2>6 DEF DoingHolds
    <3>2. Base = seq - Len(log)
      BY DEF Base
    <3>3. doing.snap.seq - Base \in 0..Len(log)
      BY <1>6, <2>1, <2>2, <2>6, <3>2
    <3>4. SubSeq(log', 1, doing.snap.seq - Base') = SubSeq(log, 1, doing.snap.seq - Base)
      BY <1>6, <3>3
    <3>5. doing.snap.seq \in (Base' + 1)..seq'
      BY <1>6, <2>1, <2>2, <2>6
    <3>6. doing.snap.next \in Nat
      BY <2>2, <2>6
    <3>7. doing.snap.next <= ctx'.next
      BY <1>5, <3>1, <3>6
    <3>. QED
      BY <3>4, <3>5, <3>7
  <2>7. CASE ~Past("items")
    BY <1>4, <2>1, <2>3, <2>4, <2>7 DEF DoingHolds
  <2>8. CASE Past("items")
    <3>1. /\ doing'.snap \in SnapshotType /\ ItemsHold(doing'.snap) /\ doing'.snap.next <= ctx'.next
          /\ doing'.snap.seq \in (Base' + 1)..seq'
          /\ kept'.snapshotted <= doing'.snap.seq
          /\ ListedIn(earlier' \o SubSeq(log', 1, doing'.snap.seq - Base')) = Ids(doing'.snap.items)
          /\ \A g \in DOMAIN files' \ {Mine'} : \A r \in ToSet(files'[g].log) : r.seq <= doing'.snap.seq
          /\ \A r \in Records' : r.seq <= doing'.snap.seq => CoversItems(doing'.snap, r)
      BY <1>4, <2>1, <2>3, <2>5, <2>6, <2>8 DEF DoingHolds
    <3>2. Past("calls") =>
            /\ NamedIn(doing'.snap.items) \subseteq doing'.snap.used
            /\ \A r \in Records' : r.seq <= doing'.snap.seq => CoversCalls(doing'.snap, r)
      BY <1>4, <2>1, <2>5, <2>8 DEF DoingHolds
    <3>3. Past("permission") =>
            /\ doing'.snap.permission <= MaxAsks + 1
            /\ \A r \in Records' : r.seq <= doing'.snap.seq => CoversAsks(doing'.snap, r)
      BY <1>4, <2>1, <2>5, <2>8 DEF DoingHolds
    <3>4. /\ doing'.at \in {"idle", "items", "calls", "permission", "log", "state"}
          /\ doing'.at = "idle" => doing' = Idle
          /\ doing'.at = "state" => doing'.snap.seq <= kept'.written
      BY <1>4, <2>1 DEF DoingHolds
    <3>. QED
      BY <2>3, <3>1, <3>2, <3>3, <3>4 DEF DoingHolds
  <2>. QED
    BY <2>7, <2>8
<1>15. process' \in {"down", "wired", "running"}
  BY <1>4
<1>. QED
  BY <1>2, <1>9, <1>10, <1>11, <1>12, <1>13, <1>14, <1>15 DEF RecordingInv, KernelHolds

---------------------------------------------------------------------------
(* What the files say a run that starts now goes on from.                  *)

\* What smaller numbers cover is covered by larger ones.
LEMMA CoversMore ==
  ASSUME NEW snap, NEW wider, NEW r \in RecordType, Covers(snap, r),
         snap.next \in Nat, wider.next \in Nat, snap.next <= wider.next,
         snap.used \subseteq wider.used,
         snap.permission \in Nat, wider.permission \in Nat, snap.permission <= wider.permission
  PROVE  Covers(wider, r)
<1>1. r.asks \in Nat
  BY DEF RecordType
<1>2. CoversItems(wider, r)
  BY DEF Covers, CoversItems
<1>3. CoversCalls(wider, r)
  BY DEF Covers, CoversCalls
<1>4. CoversAsks(wider, r)
  BY <1>1 DEF Covers, CoversAsks
<1>. QED
  BY <1>2, <1>3, <1>4 DEF Covers

\* The last snapshot there is.
LEMMA TheNewest ==
  ASSUME FilesHold, Resumable # {}
  PROVE  /\ Max(Resumable) \in Resumable /\ Max(Resumable) \in DOMAIN files
         /\ Max(Resumable) \in 1..Len(files) /\ \A f \in Resumable : f <= Max(Resumable)
         /\ Newest.state \in SnapshotType /\ Newest.log \in Seq(RecordType) /\ FileHolds(Newest)
<1>1. files \in Seq(FileType) /\ Len(files) \in Nat /\ DOMAIN files = 1..Len(files)
  BY DEF FilesHold
<1>2. Resumable \in SUBSET Nat /\ \A f \in Resumable : f <= Len(files)
  BY <1>1 DEF Resumable
<1>3. Max(Resumable) \in Resumable /\ \A f \in Resumable : f <= Max(Resumable)
  BY <1>1, <1>2, MaxOfBounded
<1>4. Max(Resumable) \in DOMAIN files /\ files[Max(Resumable)].state # None
  BY <1>3 DEF Resumable
<1>5. files[Max(Resumable)] \in FileType
  BY <1>1, <1>4
<1>. QED
  BY <1>1, <1>3, <1>4, <1>5 DEF Newest, FileType, FilesHold

\* The numbers past a snapshot: as far as the records written after it go, and no further.
LEMMA PastHolds ==
  ASSUME NEW f \in FileType, f.state \in SnapshotType, FileHolds(f)
  PROVE  LET past == PastSnapshot(f.state, f.log)
         IN  /\ past \in SnapshotType /\ past.items = f.state.items
             /\ f.state.seq <= past.seq /\ past.seq <= MaxSeq
             /\ f.state.next <= past.next /\ past.next <= MaxItems + 1
             /\ f.state.permission <= past.permission /\ past.permission <= MaxAsks + 1
             /\ f.state.used \subseteq past.used
             /\ \A r \in ToSet(f.log) : r.seq <= past.seq /\ Covers(past, r)
<1> DEFINE snap == f.state
           since == Since(f.log, snap.seq)
           ids == UNION {since[k].adds : k \in {j \in DOMAIN since : since[j].what = "added"}}
           asks == {since[k].asks : k \in DOMAIN since} \ {0}
           seqs == {snap.seq} \cup {since[k].seq : k \in DOMAIN since}
           nexts == {snap.next} \cup {id + 1 : id \in ids}
           permissions == {snap.permission} \cup {n + 1 : n \in asks}
           used == snap.used \cup UNION {since[k].calls : k \in DOMAIN since}
           past == PastSnapshot(snap, f.log)
<1>1. /\ f.log \in Seq(RecordType) /\ snap.items \in Seq(Item) /\ snap.next \in Nat \ {0}
      /\ snap.seq \in Nat /\ snap.used \subseteq Calls /\ snap.permission \in Nat \ {0}
  BY DEF FileType, SnapshotType
<1>2. /\ snap.seq <= MaxSeq /\ snap.next <= MaxItems + 1 /\ snap.permission <= MaxAsks + 1
      /\ \A r \in ToSet(f.log) : /\ r.seq <= MaxSeq /\ r.asks <= MaxAsks
                                 /\ r.what = "added" => r.adds \subseteq 1..MaxItems
                                 /\ r.seq <= snap.seq => Covers(snap, r)
  BY DEF FileHolds, ItemsHold
<1>3. MaxItems \in Nat /\ MaxSeq \in Nat /\ MaxAsks \in Nat
  BY RoomEnough
<1>4. PICK m \in 0..Len(f.log) : CutAt(f.log, m, snap.seq)
  BY DEF FileHolds
<1>5. since = SubSeq(f.log, m + 1, Len(f.log))
  BY <1>1, <1>4, CutThere
<1>6. past = [snap EXCEPT !.seq = Max(seqs), !.next = Max(nexts),
                          !.permission = Max(permissions), !.used = used]
  BY DEF PastSnapshot
<1> HIDE DEF snap, since
<1>7. /\ since \in Seq(RecordType) /\ DOMAIN since = 1..(Len(f.log) - m)
      /\ \A k \in DOMAIN since : since[k] = f.log[m + k] /\ m + k \in DOMAIN f.log
  BY <1>1, <1>5, LastPart
<1>8. \A k \in DOMAIN since :
        /\ since[k] \in ToSet(f.log) /\ since[k] \in RecordType
        /\ since[k].seq \in Nat /\ since[k].asks \in Nat /\ since[k].adds \subseteq Nat
        /\ since[k].calls \subseteq Calls
  BY <1>7, RecordsTyped DEF ToSet
<1>9. ids \subseteq 1..MaxItems
  BY <1>2, <1>8
<1>10. /\ seqs \in SUBSET Nat /\ (\A x \in seqs : x <= MaxSeq) /\ snap.seq \in seqs
  BY <1>1, <1>2, <1>8
<1>11. /\ nexts \in SUBSET Nat /\ (\A x \in nexts : x <= MaxItems + 1) /\ snap.next \in nexts
  <2>. HIDE DEF ids
  <2>1. \A id \in ids : id \in Nat /\ id + 1 \in Nat /\ id + 1 <= MaxItems + 1
    BY <1>3, <1>9
  <2>2. \A x \in nexts : x = snap.next \/ \E id \in ids : x = id + 1
    OBVIOUS
  <2>3. snap.next \in nexts
    OBVIOUS
  <2>. HIDE DEF nexts
  <2>4. \A x \in nexts : x \in Nat /\ x <= MaxItems + 1
    BY <1>1, <1>2, <2>1, <2>2
  <2>. QED
    BY <2>3, <2>4
<1>12. /\ permissions \in SUBSET Nat /\ (\A x \in permissions : x <= MaxAsks + 1)
       /\ snap.permission \in permissions
  BY <1>1, <1>2, <1>3, <1>8
<1>13. \A k \in DOMAIN since : since[k].seq \in seqs
  OBVIOUS
<1>14. \A k \in DOMAIN since : since[k].what = "added" => \A id \in since[k].adds : id + 1 \in nexts /\ id \in 1..MaxItems
  BY <1>9
<1>15. \A k \in DOMAIN since : since[k].asks # 0 => since[k].asks + 1 \in permissions
  OBVIOUS
<1>16. used \subseteq Calls /\ snap.used \subseteq used /\ \A k \in DOMAIN since : since[k].calls \subseteq used
  BY <1>1, <1>8
<1> HIDE DEF ids, asks, seqs, nexts, permissions, used, past
<1>17. Max(seqs) \in seqs /\ \A x \in seqs : x <= Max(seqs)
  BY <1>3, <1>10, MaxOfBounded
<1>18. Max(nexts) \in nexts /\ \A x \in nexts : x <= Max(nexts)
  <2>1. MaxItems + 1 \in Nat /\ nexts # {}
    BY <1>3, <1>11
  <2>. QED
    BY <1>11, <2>1, MaxOfBounded
<1>19. Max(permissions) \in permissions /\ \A x \in permissions : x <= Max(permissions)
  <2>1. MaxAsks + 1 \in Nat /\ permissions # {}
    BY <1>3, <1>12
  <2>. QED
    BY <1>12, <2>1, MaxOfBounded
<1>20. /\ Max(seqs) \in Nat /\ snap.seq <= Max(seqs) /\ Max(seqs) <= MaxSeq
       /\ Max(nexts) \in Nat \ {0} /\ snap.next <= Max(nexts) /\ Max(nexts) <= MaxItems + 1
       /\ Max(permissions) \in Nat \ {0} /\ snap.permission <= Max(permissions)
       /\ Max(permissions) <= MaxAsks + 1
  <2>1. Max(seqs) \in Nat /\ snap.seq <= Max(seqs) /\ Max(seqs) <= MaxSeq
    BY <1>10, <1>17
  <2>2. Max(nexts) \in Nat /\ snap.next <= Max(nexts) /\ Max(nexts) <= MaxItems + 1
    BY <1>11, <1>18
  <2>3. Max(permissions) \in Nat /\ snap.permission <= Max(permissions) /\ Max(permissions) <= MaxAsks + 1
    BY <1>12, <1>19
  <2>. QED
    BY <1>1, <2>1, <2>2, <2>3
<1>21. /\ past.items = snap.items /\ past.seq = Max(seqs) /\ past.next = Max(nexts)
       /\ past.permission = Max(permissions) /\ past.used = used
       /\ past \in SnapshotType
  <2>1. snap \in SnapshotType
    BY DEF snap
  <2>. QED
    BY <1>6, <1>16, <1>20, <2>1 DEF SnapshotType
<1>22. ASSUME NEW r \in ToSet(f.log) PROVE r.seq <= past.seq /\ Covers(past, r)
  <2>1. r \in RecordType
    BY <1>1, InSet
  <2>2. r.seq \in Nat /\ r.asks \in Nat
    BY <2>1 DEF RecordType
  <2>3. CASE r.seq <= snap.seq
    <3>1. Covers(snap, r)
      BY <1>2, <2>3
    <3>2. Covers(past, r)
      BY <1>1, <1>16, <1>20, <1>21, <2>1, <3>1, CoversMore
    <3>3. r.seq <= past.seq
      BY <1>1, <1>20, <1>21, <2>2, <2>3
    <3>. QED
      BY <3>2, <3>3
  <2>4. CASE r.seq > snap.seq
    <3>1. PICK j \in 1..Len(f.log) : f.log[j] = r
      BY <1>1, InSet
    <3>2. \A k \in 1..m : f.log[k].seq <= snap.seq
      BY <1>4 DEF CutAt
    <3>3. j \notin 1..m
      BY <3>1, <3>2, <2>2, <2>4, <1>1
    <3>4. j - m \in DOMAIN since /\ m + (j - m) = j
      BY <1>4, <1>7, <3>3
    <3>5. since[j - m] = r
      BY <1>7, <3>1, <3>4
    <3>6. r.seq <= past.seq
      BY <1>13, <1>17, <1>21, <3>4, <3>5
    <3>7. CoversItems(past, r)
      <4>1. ASSUME r.what = "added", NEW id \in r.adds PROVE id \in 1..(past.next - 1)
        <5>1. id + 1 \in nexts /\ id \in 1..MaxItems
          BY <1>14, <3>4, <3>5, <4>1
        <5>2. id + 1 <= Max(nexts)
          BY <1>18, <5>1
        <5>. QED
          BY <1>20, <1>21, <1>3, <5>1, <5>2
      <4>. QED
        BY <4>1 DEF CoversItems
    <3>8. CoversCalls(past, r)
      BY <1>16, <1>21, <3>4, <3>5 DEF CoversCalls
    <3>9. CoversAsks(past, r)
      <4>1. CASE r.asks = 0
        BY <1>20, <1>21, <4>1 DEF CoversAsks
      <4>2. CASE r.asks # 0
        <5>1. r.asks + 1 \in permissions
          BY <1>15, <3>4, <3>5, <4>2
        <5>2. r.asks + 1 <= Max(permissions)
          BY <1>19, <5>1
        <5>. QED
          BY <1>20, <1>21, <2>2, <5>2 DEF CoversAsks
      <4>. QED
        BY <4>1, <4>2
    <3>. QED
      BY <3>6, <3>7, <3>8, <3>9 DEF Covers
  <2>. QED
    BY <1>1, <2>2, <2>3, <2>4
<1>. QED
  BY <1>16, <1>20, <1>21, <1>22 DEF snap, past

---------------------------------------------------------------------------
(* The steps that only begin something: a run, a claim, a snapshot.        *)

\* What is in the files and the log are records.
LEMMA RecordsAll ==
  ASSUME log \in Seq(RecordType), files \in Seq(FileType)
  PROVE  /\ Records \subseteq RecordType /\ ToSet(log) \subseteq Records
         /\ \A g \in DOMAIN files : /\ ToSet(files[g].log) \subseteq Records
                                    /\ files[g] \in FileType /\ files[g].log \in Seq(RecordType)
<1>1. ToSet(log) \subseteq RecordType
  BY InSet
<1>2. ASSUME NEW f \in DOMAIN files
      PROVE  /\ ToSet(files[f].log) \subseteq RecordType /\ files[f] \in FileType
             /\ files[f].log \in Seq(RecordType)
  <2>1. files[f] \in FileType
    OBVIOUS
  <2>2. files[f].log \in Seq(RecordType)
    BY <2>1 DEF FileType
  <2>. QED
    BY <2>1, <2>2, InSet
<1>3. \A g \in DOMAIN files : ToSet(files[g].log) \subseteq Records
  BY DEF Records
<1>. QED
  BY <1>1, <1>2, <1>3 DEF Records

\* A context of which nothing is known but that it is new.
LEMMA NewContextHolds ==
  /\ WellFormed(NewContext) /\ VersionsOf(NewContext) = {<<>>} /\ Ids(<<>>) = {}
  /\ NewContext.items = <<>> /\ NewContext.next = 1 /\ NewContext.taken = 0
  /\ \A named : VersionHolds(<<>>, named)
  /\ 1 <= MaxItems + 1
<1>1. <<>> \in Seq(Item) /\ <<>> \in Seq(Seq(Item)) /\ ToSet(<<>>) = {} /\ DOMAIN <<>> = {} /\ Len(<<>>) = 0
  BY DEF ToSet
<1>2. NewContext \in ContextType
  BY <1>1 DEF NewContext, ContextType
<1>3. VersionsOf(NewContext) = {<<>>}
  BY <1>1 DEF VersionsOf, NewContext
<1>4. VersionOK(<<>>, 1)
  BY <1>1 DEF VersionOK, Sorted
<1>5. Growing(<<>>, <<>>, <<>>)
  BY <1>1 DEF Growing
<1>6. /\ NewContext.items = <<>> /\ NewContext.undo = <<>> /\ NewContext.redo = <<>>
      /\ NewContext.next = 1 /\ NewContext.taken = 0
  BY DEF NewContext
<1>7. WellFormed(NewContext)
  BY <1>1, <1>2, <1>3, <1>4, <1>5, <1>6, DepthAssumption DEF WellFormed
<1>8. \A named : VersionHolds(<<>>, named)
  BY <1>1 DEF VersionHolds, NamedIn, Paired
<1>9. Ids(<<>>) = {}
  BY <1>1 DEF Ids
<1>. QED
  BY <1>3, <1>6, <1>7, <1>8, <1>9, RoomEnough

\* A kernel that begins a session.
LEMMA NewKernel ==
  ASSUME ctx' = NewContext, seen' = {}, permission' = 1, turn' = NoTurn
  PROVE  ContextHolds' /\ TurnHolds' /\ TurnUnused' /\ CountersHold' /\ Loading' = {}
<1>1. 0 <= ctx'.taken
  BY NewContextHolds
<1>2. TurnHolds' /\ TurnUnused' /\ Loading' = {}
  BY <1>1, NoTurnIs, RestingHolds
<1>3. ContextHolds'
  BY NewContextHolds DEF ContextHolds
<1>4. CountersHold'
  BY RoomEnough DEF CountersHold
<1>. QED
  BY <1>2, <1>3, <1>4

\* The first record of a run says nothing of items, calls or questions.
LEMMA QuietOpening ==
  ASSUME NEW what \in {"started", "resumed"}, NEW n \in Nat \ {0}
  PROVE  LET r == Numbered(Event(what), n)
         IN  /\ r \in RecordType /\ r.seq = n /\ r.what = what /\ r.adds = {} /\ r.takes = {}
             /\ r.calls = {} /\ r.asks = 0
<1>1. /\ Event(what) \in EventType /\ Event(what).what = what /\ Event(what).adds = {}
      /\ Event(what).takes = {} /\ Event(what).calls = {} /\ Event(what).asks = 0
  BY DEF Event, EventType, Whats
<1>. QED
  BY <1>1, NumberedIsRecord

\* A log of one such record.
LEMMA OneRecord ==
  ASSUME NEW r \in RecordType, r.adds = {}, r.takes = {}
  PROVE  /\ <<r>> \in Seq(RecordType) /\ Len(<<r>>) = 1 /\ <<r>>[1] = r /\ ToSet(<<r>>) = {r}
         /\ DOMAIN <<r>> = {1} /\ <<r>> # <<>>
         /\ \A s \in Seq(RecordType) : ListedIn(s \o <<r>>) = ListedIn(s)
<1>1. <<r>> \in Seq(RecordType) /\ Len(<<r>>) = 1 /\ <<r>>[1] = r /\ DOMAIN <<r>> = {1}
  OBVIOUS
<1>2. \A k \in DOMAIN <<r>> : <<r>>[k].adds = {} /\ <<r>>[k].takes = {}
  BY <1>1
<1>3. \A s \in Seq(RecordType) : ListedIn(s \o <<r>>) = ListedIn(s)
  BY <1>1, <1>2, QuietLists
<1>. QED
  BY <1>1, <1>3 DEF ToSet

\* A record with no number but its own is apart from all that have another.
LEMMA OpeningApart ==
  ASSUME NumberedOnce, NEW r, r.what \notin {"added", "finished"}, r.asks = 0,
         Records' \subseteq Records \cup {r},
         \A other \in Records : other = r \/ other.seq # r.seq
  PROVE  NumberedOnce'
<1>1. ASSUME NEW one \in Records', NEW other \in Records' PROVE Apart(one, other)
  <2>1. CASE one \in Records /\ other \in Records
    BY <2>1, AllApart
  <2>2. CASE one = r
    <3>1. one.seq = other.seq => one = other
      BY <2>2
    <3>. QED
      BY <2>2, <3>1 DEF Apart
  <2>3. CASE other = r
    <3>1. one.seq = other.seq => one = other
      BY <2>3
    <3>. QED
      BY <2>3, <3>1 DEF Apart
  <2>. QED
    BY <2>1, <2>2, <2>3
<1>. QED
  BY <1>1 DEF NumberedOnce, Apart

\* A run begins a session: nothing is in any file but the first record of one that ended
\* before it had a snapshot.
LEMMA LaunchStep ==
  ASSUME RecordingInv, Launch
  PROVE  RecordingInv'
<1>1. /\ process = "down" /\ Resumable = {} /\ ctx' = NewContext /\ seen' = {} /\ permission' = 1
      /\ log' = <<Numbered(Event("started"), 1)>> /\ seq' = 1 /\ turn' = NoTurn
      /\ process' = "wired" /\ earlier' = <<>> /\ files' = files /\ kept' = kept /\ doing' = doing
  BY DEF Launch, Start
<1>2. /\ KeptHolds /\ FilesHold /\ NumberedOnce /\ log = <<>> /\ seq = 0 /\ doing = Idle
  BY <1>1 DEF RecordingInv, KeptHolds
<1>3. PICK r : r = Opening
  OBVIOUS
<1>4. r = Numbered(Event("started"), 1)
  BY <1>1, <1>3 DEF Opening
<1>5. /\ r \in RecordType /\ r.seq = 1 /\ r.what = "started" /\ r.adds = {} /\ r.takes = {}
      /\ r.calls = {} /\ r.asks = 0
  BY <1>4, QuietOpening
<1>6. /\ <<r>> \in Seq(RecordType) /\ Len(<<r>>) = 1 /\ <<r>>[1] = r /\ ToSet(<<r>>) = {r}
      /\ DOMAIN <<r>> = {1} /\ <<r>> # <<>>
      /\ \A s \in Seq(RecordType) : ListedIn(s \o <<r>>) = ListedIn(s)
  BY <1>5, OneRecord
<1>7. log' = <<r>>
  BY <1>1, <1>4
<1>8. ContextHolds' /\ TurnHolds' /\ TurnUnused' /\ CountersHold' /\ ctx'.items = <<>> /\ ctx'.next = 1
  BY <1>1, NewKernel, NewContextHolds
<1>9. LogHolds'
  <2>1. <<>> \in Seq(RecordType) /\ DOMAIN <<>> = {}
    OBVIOUS
  <2>2. ListedIn(<<>>) = {}
    BY <2>1 DEF ListedIn
  <2>3. ListedIn(earlier' \o log') = Ids(ctx'.items)
    BY <1>1, <1>6, <1>7, <1>8, <2>1, <2>2, NewContextHolds
  <2>4. Base' = 0
    BY <1>1, <1>6, <1>7 DEF Base
  <2>. QED
    BY <1>1, <1>5, <1>6, <1>7, <2>1, <2>3, <2>4, RoomEnough DEF LogHolds
<1>10. \A g \in DOMAIN files : \A x \in ToSet(files[g].log) : x = r
  BY <1>1, <1>2, <1>3 DEF FilesHold
<1>11. \A x \in Records' : x = r
  BY <1>1, <1>6, <1>7, <1>10 DEF Records
<1>12. FilesHold' /\ Opening' = Opening /\ Resumable' = Resumable
  BY <1>1, <1>2, FilesAlone DEF Opening, Resumable, Carried, Newest
<1>13. WiredHolds'
  BY <1>1, <1>2, <1>3, <1>7, <1>12 DEF WiredHolds, Claimed, Idle
<1>14. CountersCover'
  <2>1. r.seq <= seq' /\ Covers(Here', r)
    BY <1>1, <1>5 DEF Covers, CoversItems, CoversCalls, CoversAsks, Here
  <2>. QED
    BY <1>11, <2>1 DEF CountersCover
<1>15. NumberedOnce'
  BY <1>11 DEF NumberedOnce
<1>16. KeptHolds'
  <2>1. kept \in [written : Nat, snapshotted : Nat] /\ kept.written <= 0
    BY <1>2 DEF KeptHolds
  <2>2. kept'.written <= seq' /\ ~Claimed'
    BY <1>1, <1>2, <2>1 DEF Claimed, Idle
  <2>. QED
    BY <1>1, <1>6, <1>7, <2>1, <2>2 DEF KeptHolds
<1>17. DoingHolds'
  BY <1>1, <1>2 DEF DoingHolds, Past, Idle
<1>. QED
  BY <1>1, <1>8, <1>9, <1>12, <1>13, <1>14, <1>15, <1>16, <1>17 DEF RecordingInv

\* Of what the files hold, a run that is carried on numbers past everything but the first record
\* of one that ended before it had a snapshot.
LEMMA FilesCovered ==
  ASSUME FilesHold, Resumable # {}
  PROVE  /\ Carried \in SnapshotType /\ Carried.items = Newest.state.items
         /\ Newest.state.seq <= Carried.seq /\ Carried.seq <= MaxSeq
         /\ Newest.state.next <= Carried.next /\ Carried.next <= MaxItems + 1
         /\ Newest.state.permission <= Carried.permission /\ Carried.permission <= MaxAsks + 1
         /\ Newest.state.used \subseteq Carried.used
         /\ \A g \in DOMAIN files : \A r \in ToSet(files[g].log) :
              r = Opening \/ (r.seq <= Carried.seq /\ Covers(Carried, r))
<1>1. /\ Max(Resumable) \in DOMAIN files /\ Newest.state \in SnapshotType /\ FileHolds(Newest)
      /\ files \in Seq(FileType) /\ Newest = files[Max(Resumable)]
  BY TheNewest DEF FilesHold, Newest
<1>2. Newest \in FileType
  BY <1>1
<1>3. /\ Carried \in SnapshotType /\ Carried.items = Newest.state.items
      /\ Newest.state.seq <= Carried.seq /\ Carried.seq <= MaxSeq
      /\ Newest.state.next <= Carried.next /\ Carried.next <= MaxItems + 1
      /\ Newest.state.permission <= Carried.permission /\ Carried.permission <= MaxAsks + 1
      /\ Newest.state.used \subseteq Carried.used
      /\ \A r \in ToSet(Newest.log) : r.seq <= Carried.seq /\ Covers(Carried, r)
  BY <1>1, <1>2, PastHolds DEF Carried
<1>4. ASSUME NEW g \in DOMAIN files, NEW r \in ToSet(files[g].log), r # Opening
      PROVE  r.seq <= Carried.seq /\ Covers(Carried, r)
  <2>1. CASE g = Max(Resumable)
    BY <1>1, <1>3, <2>1
  <2>2. CASE r.seq <= Newest.state.seq /\ Covers(Newest.state, r)
    <3>1. files[g] \in FileType
      BY <1>1
    <3>2. files[g].log \in Seq(RecordType)
      BY <3>1 DEF FileType
    <3>3. r \in RecordType
      BY <3>2, InSet
    <3>4. r.seq \in Nat
      BY <3>3 DEF RecordType
    <3>5. /\ Newest.state.seq \in Nat /\ Newest.state.next \in Nat /\ Newest.state.permission \in Nat
          /\ Carried.seq \in Nat /\ Carried.next \in Nat /\ Carried.permission \in Nat
      BY <1>1, <1>3 DEF SnapshotType
    <3>6. r.seq <= Carried.seq
      BY <1>3, <2>2, <3>4, <3>5
    <3>7. Covers(Carried, r)
      BY <1>3, <2>2, <3>3, <3>5, CoversMore
    <3>. QED
      BY <3>6, <3>7
  <2>3. g = Max(Resumable) \/ (r.seq <= Newest.state.seq /\ Covers(Newest.state, r))
    BY <1>4 DEF FilesHold
  <2>. QED
    BY <2>1, <2>2, <2>3
<1>. QED
  BY <1>3, <1>4

\* A run carries a session on: its context is the last snapshot's, and its counters are past
\* whatever was written after that snapshot.
LEMMA LaunchResumedStep ==
  ASSUME RecordingInv, LaunchResumed
  PROVE  RecordingInv'
<1> DEFINE from == Newest.state
<1>1. /\ process = "down" /\ Resumable # {} /\ Resume(Carried)
      /\ earlier' = Through(Newest.log, from.seq)
      /\ process' = "wired" /\ files' = files /\ kept' = kept /\ doing' = doing
  BY DEF LaunchResumed, Carried, Newest
<1>2. /\ KeptHolds /\ FilesHold /\ NumberedOnce /\ log = <<>> /\ seq = 0 /\ doing = Idle
  BY <1>1 DEF RecordingInv, KeptHolds
<1>3. /\ from \in SnapshotType /\ FileHolds(Newest) /\ Newest.log \in Seq(RecordType)
  BY <1>1, <1>2, TheNewest
<1>4. /\ Carried \in SnapshotType /\ Carried.items = from.items
      /\ from.seq <= Carried.seq /\ Carried.seq <= MaxSeq
      /\ from.next <= Carried.next /\ Carried.next <= MaxItems + 1
      /\ Carried.permission <= MaxAsks + 1
      /\ from.used \subseteq Carried.used
      /\ \A g \in DOMAIN files : \A r \in ToSet(files[g].log) :
           r = Opening \/ (r.seq <= Carried.seq /\ Covers(Carried, r))
  BY <1>1, <1>2, FilesCovered
<1> HIDE DEF from
<1>5. /\ from.items \in Seq(Item) /\ from.seq \in Nat /\ from.next \in Nat \ {0}
      /\ Carried.items \in Seq(Item) /\ Carried.seq \in Nat /\ Carried.next \in Nat \ {0}
      /\ Carried.permission \in Nat \ {0} /\ Carried.used \subseteq Calls
  BY <1>3, <1>4 DEF SnapshotType
<1>6. /\ VersionOK(from.items, from.next) /\ VersionHolds(from.items, Calls)
      /\ NamedIn(from.items) \subseteq from.used
      /\ \E m \in 0..Len(Newest.log) :
           CutAt(Newest.log, m, from.seq) /\ ListedIn(SubSeq(Newest.log, 1, m)) = Ids(from.items)
  BY <1>3 DEF FileHolds, ItemsHold, from
<1>7. VersionOK(Carried.items, Carried.next)
  <2>1. \A k \in DOMAIN from.items : from.items[k].id \in 1..(Carried.next - 1)
    BY <1>4, <1>5, <1>6 DEF VersionOK
  <2>. QED
    BY <1>4, <1>6, <2>1 DEF VersionOK
<1>8. /\ ctx' = [NewContext EXCEPT !.items = from.items, !.next = Carried.next]
  <2>1. Carried.next < TopId
    BY <1>4, <1>5, RoomEnough
  <2>2. \A k \in DOMAIN Carried.items : Carried.items[k].priced = Counter
    BY <1>4, <1>6 DEF VersionHolds
  <2>3. ctx' = Restored(Carried.items, Carried.next, Counter)
    BY <1>1 DEF Resume
  <2>. QED
    BY <1>4, <1>5, <1>7, <2>1, <2>2, <2>3, RestoredAsIs
<1>9. seen' = Carried.used
  <2>1. seen' = Carried.used \cup NamedIn(Carried.items)
    BY <1>1 DEF Resume, SeenAfter
  <2>. QED
    BY <1>4, <1>6, <2>1
<1>10. permission' = Carried.permission
  <2>1. permission' = Max({Carried.permission, 1})
    BY <1>1 DEF Resume
  <2> DEFINE S == {Carried.permission, 1}
  <2>2. S \in SUBSET Nat /\ (\A x \in S : x <= Carried.permission) /\ S # {} /\ Carried.permission \in S
    BY <1>5
  <2>3. Carried.permission \in Nat
    BY <1>5
  <2>. HIDE DEF S
  <2>4. Max(S) \in S /\ \A x \in S : x <= Max(S)
    BY <2>2, <2>3, MaxOfBounded
  <2>5. Max(S) \in Nat /\ Max(S) <= Carried.permission /\ Carried.permission <= Max(S)
    BY <2>2, <2>4
  <2>. QED
    BY <2>1, <2>3, <2>5 DEF S
<1>11. /\ Carried.seq < MaxSeq /\ seq' = Carried.seq + 1 /\ turn' = NoTurn
       /\ log' = <<Numbered(Event("resumed"), Carried.seq + 1)>>
  BY <1>1 DEF Resume
<1>12. PICK r : r = Opening
  OBVIOUS
<1>13. r = Numbered(Event("resumed"), Carried.seq + 1)
  BY <1>1, <1>12 DEF Opening
<1>14. /\ r \in RecordType /\ r.seq = Carried.seq + 1 /\ r.what = "resumed" /\ r.adds = {}
       /\ r.takes = {} /\ r.calls = {} /\ r.asks = 0
  <2>1. Carried.seq + 1 \in Nat \ {0}
    BY <1>5
  <2>. QED
    BY <1>13, <2>1, QuietOpening
<1>15. /\ <<r>> \in Seq(RecordType) /\ Len(<<r>>) = 1 /\ <<r>>[1] = r /\ ToSet(<<r>>) = {r}
       /\ DOMAIN <<r>> = {1} /\ <<r>> # <<>>
       /\ \A s \in Seq(RecordType) : ListedIn(s \o <<r>>) = ListedIn(s)
  BY <1>14, OneRecord
<1>16. log' = <<r>>
  BY <1>11, <1>13
<1>17. /\ ctx'.items = from.items /\ ctx'.next = Carried.next /\ ctx'.taken = 0
       /\ WellFormed(ctx') /\ VersionsOf(ctx') = {from.items}
  <2> DEFINE d == [NewContext EXCEPT !.items = from.items, !.next = Carried.next]
  <2>1. WellFormed(NewContext) /\ NewContext.redo = <<>> /\ NewContext.undo = <<>> /\ NewContext.next = 1
        /\ Ids(NewContext.items) = {} /\ NewContext.taken = 0 /\ NewContext \in ContextType
    BY NewContextHolds DEF NewContext, WellFormed
  <2>2. Carried.next \in Nat /\ 1 <= Carried.next
    BY <1>5
  <2>3. WellFormed(d)
    BY <1>4, <1>5, <1>7, <2>1, <2>2, GrownInPlace
  <2>4. /\ d.items = from.items /\ d.next = Carried.next /\ d.taken = 0 /\ d.undo = <<>> /\ d.redo = <<>>
    BY <2>1 DEF ContextType
  <2>5. VersionsOf(d) = {from.items}
    <3>. HIDE DEF d
    <3>1. ToSet(<<>>) = {}
      BY DEF ToSet
    <3>. QED
      BY <2>4, <3>1 DEF VersionsOf
  <2>. QED
    BY <1>8, <2>3, <2>4, <2>5
<1>18. TurnHolds' /\ TurnUnused' /\ Loading' = {}
  <2>1. 0 <= ctx'.taken
    BY <1>17
  <2>. QED
    BY <2>1, <1>11, NoTurnIs, RestingHolds
<1>19. ContextHolds'
  <2>1. VersionHolds(from.items, seen' \cup Loading')
    BY <1>4, <1>6, <1>9 DEF VersionHolds
  <2>. QED
    BY <1>4, <1>17, <2>1 DEF ContextHolds
<1>20. CountersHold'
  BY <1>4, <1>5, <1>9, <1>10, RoomEnough DEF CountersHold
<1>21. LogHolds'
  <2>1. PICK m \in 0..Len(Newest.log) :
          CutAt(Newest.log, m, from.seq) /\ ListedIn(SubSeq(Newest.log, 1, m)) = Ids(from.items)
    BY <1>6
  <2>2. earlier' = SubSeq(Newest.log, 1, m)
    BY <1>1, <1>3, <1>5, <2>1, CutThere
  <2>3. /\ earlier' \in Seq(RecordType) /\ DOMAIN earlier' = 1..m
        /\ \A k \in 1..m : earlier'[k] = Newest.log[k]
    BY <1>3, <2>2, FirstPart
  <2>4. \A k \in DOMAIN earlier' : earlier'[k].seq <= Carried.seq
    <3> TAKE k \in DOMAIN earlier'
    <3>1. Newest.log[k].seq <= from.seq
      BY <2>1, <2>3 DEF CutAt
    <3>2. earlier'[k].seq \in Nat
      BY <2>3, RecordsTyped
    <3>. QED
      BY <1>4, <1>5, <2>3, <3>1, <3>2
  <2>5. Base' = Carried.seq
    BY <1>5, <1>11, <1>15, <1>16 DEF Base
  <2>6. ListedIn(earlier' \o log') = Ids(ctx'.items)
    BY <1>15, <1>16, <1>17, <2>1, <2>2, <2>3
  <2>. QED
    BY <1>5, <1>11, <1>14, <1>15, <1>16, <2>3, <2>4, <2>5, <2>6, RoomEnough DEF LogHolds
<1>22. FilesHold' /\ Opening' = Opening /\ Resumable' = Resumable /\ Newest' = Newest
  BY <1>1, <1>2, FilesAlone DEF Opening, Resumable, Carried, Newest
<1>23. WiredHolds'
  BY <1>1, <1>2, <1>12, <1>16, <1>22 DEF WiredHolds, Claimed, Idle, from
<1>24. \A x \in Records' : x = r \/ (x \in Records /\ x.seq <= Carried.seq /\ Covers(Carried, x))
  <2> TAKE x \in Records'
  <2>1. x \in ToSet(log') \/ \E g \in DOMAIN files : x \in ToSet(files[g].log)
    BY <1>1 DEF Records
  <2>2. CASE x \in ToSet(log')
    BY <1>15, <1>16, <2>2
  <2>3. ASSUME NEW g \in DOMAIN files, x \in ToSet(files[g].log)
        PROVE  x = r \/ (x \in Records /\ x.seq <= Carried.seq /\ Covers(Carried, x))
    <3>1. x \in Records
      BY <2>3 DEF Records
    <3>. QED
      BY <1>4, <1>12, <2>3, <3>1
  <2>. QED
    BY <2>1, <2>2, <2>3
<1>25. Records \subseteq RecordType
  BY <1>2, RecordsAll DEF RecordingInv, LogHolds, FilesHold
<1>26. CountersCover'
  <2> DEFINE here == [items |-> ctx'.items, next |-> ctx'.next, seq |-> seq', used |-> seen',
                      permission |-> permission']
  <2>1. Here' = here
    BY DEF Here
  <2>2. here.next = Carried.next /\ here.used = Carried.used /\ here.permission = Carried.permission
    BY <1>9, <1>10, <1>17
  <2>. HIDE DEF here
  <2>3. r.seq <= seq' /\ Covers(here, r)
    BY <1>5, <1>11, <1>14, <2>2 DEF Covers, CoversItems, CoversCalls, CoversAsks
  <2>4. ASSUME NEW x \in Records, x.seq <= Carried.seq, Covers(Carried, x)
        PROVE  x.seq <= seq' /\ Covers(here, x)
    <3>1. x.seq \in Nat
      BY <1>25 DEF RecordType
    <3>2. Covers(here, x)
      BY <2>2, <2>4 DEF Covers, CoversItems, CoversCalls, CoversAsks
    <3>. QED
      BY <1>5, <1>11, <2>4, <3>1, <3>2
  <2>. QED
    BY <1>24, <2>1, <2>3, <2>4 DEF CountersCover
<1>27. NumberedOnce'
  <2>1. Records' \subseteq Records \cup {r}
    BY <1>24
  <2>2. \A other \in Records : other = r \/ other.seq # r.seq
    <3> TAKE other \in Records
    <3>1. other = r \/ other.seq <= Carried.seq
      <4>1. ToSet(log) = {}
        BY <1>2 DEF ToSet
      <4>. QED
        BY <1>4, <1>12, <4>1 DEF Records
    <3>2. other.seq \in Nat
      BY <1>25 DEF RecordType
    <3>. QED
      BY <1>5, <1>14, <3>1, <3>2
  <2>. QED
    BY <1>2, <1>14, <2>1, <2>2, OpeningApart
<1>28. KeptHolds'
  <2>1. kept \in [written : Nat, snapshotted : Nat] /\ kept.written <= 0
    BY <1>2 DEF KeptHolds
  <2>2. kept'.written <= seq' /\ ~Claimed'
    BY <1>1, <1>2, <1>5, <1>11, <2>1 DEF Claimed, Idle
  <2>. QED
    BY <1>1, <1>15, <1>16, <2>1, <2>2 DEF KeptHolds
<1>29. DoingHolds'
  BY <1>1, <1>2 DEF DoingHolds, Past, Idle
<1>. QED
  BY <1>1, <1>18, <1>19, <1>20, <1>21, <1>22, <1>23, <1>26, <1>27, <1>28, <1>29 DEF RecordingInv

\* A run claims a file of its own, with what it carries on already in it.
LEMMA ClaimStep ==
  ASSUME RecordingInv, ClaimRecord
  PROVE  RecordingInv'
<1> DEFINE n == Len(files)
           mine == [log |-> earlier, state |-> None]
<1>1. /\ process = "wired" /\ doing = Idle /\ files' = Append(files, mine)
      /\ kept' = [written |-> IF earlier = <<>> THEN 0 ELSE Last(earlier).seq, snapshotted |-> 0]
      /\ doing' = [Idle EXCEPT !.at = "items"]
      /\ process' = process /\ earlier' = earlier /\ ctx' = ctx /\ seen' = seen
      /\ permission' = permission /\ log' = log /\ seq' = seq /\ turn' = turn
  BY DEF ClaimRecord, session
<1>2. /\ files \in Seq(FileType) /\ LogHolds /\ FilesHold /\ KeptHolds /\ WiredHolds
      /\ log \in Seq(RecordType) /\ earlier \in Seq(RecordType) /\ seq \in Nat /\ Len(log) <= seq
  BY DEF RecordingInv, FilesHold, LogHolds
<1>3. mine \in FileType /\ mine.log = earlier /\ mine.state = None
  BY <1>2 DEF FileType
<1> HIDE DEF mine
<1>4. /\ files' \in Seq(FileType) /\ Len(files') = n + 1 /\ DOMAIN files' = 1..(n + 1)
      /\ (\A g \in 1..n : files'[g] = files[g]) /\ files'[n + 1] = mine
      /\ n \in Nat /\ DOMAIN files = 1..n
  BY <1>1, <1>2, <1>3, OneMore
<1> HIDE DEF n
<1>5. Resumable' = Resumable
  BY <1>3, <1>4 DEF Resumable
<1>6. /\ Resumable # {} => Max(Resumable) \in 1..n /\ Newest' = Newest /\ Carried' = Carried
      /\ Opening' = Opening
  <2>1. ASSUME Resumable # {} PROVE Max(Resumable) \in 1..n
    BY <1>2, <1>4, <2>1, TheNewest
  <2>2. ASSUME Resumable # {} PROVE Newest' = Newest
    BY <1>4, <1>5, <2>1, <2>2 DEF Newest
  <2>3. ASSUME Resumable # {} PROVE Carried' = Carried
    BY <2>2, <2>3 DEF Carried
  <2>4. Opening' = Opening
    BY <1>5, <2>3 DEF Opening
  <2>. QED
    BY <2>1, <2>2, <2>3, <2>4
<1>7. ASSUME NEW r \in ToSet(earlier)
      PROVE  Resumable # {} /\ r \in ToSet(Newest.log) /\ r.seq <= Newest.state.seq
             /\ Covers(Newest.state, r)
  <2>1. Resumable # {}
    <3>1. earlier # <<>>
      BY DEF ToSet
    <3>. QED
      BY <1>1, <1>2, <3>1 DEF WiredHolds
  <2>2. earlier = Through(Newest.log, Newest.state.seq)
    BY <1>1, <1>2, <2>1 DEF WiredHolds
  <2>3. Newest.state \in SnapshotType /\ FileHolds(Newest) /\ Newest.log \in Seq(RecordType)
    BY <1>2, <2>1, TheNewest
  <2>4. Newest.state.seq \in Nat
    BY <2>3 DEF SnapshotType
  <2>5. PICK m \in 0..Len(Newest.log) : CutAt(Newest.log, m, Newest.state.seq)
    BY <2>3 DEF FileHolds
  <2>6. earlier = SubSeq(Newest.log, 1, m)
    BY <2>2, <2>3, <2>4, <2>5, CutThere
  <2>7. Len(earlier) = m /\ \A k \in 1..m : earlier[k] = Newest.log[k]
    BY <2>3, <2>6, FirstPart
  <2>8. PICK k \in 1..Len(earlier) : earlier[k] = r
    BY <1>2, InSet
  <2>9. k \in 1..Len(Newest.log) /\ Newest.log[k] = r /\ Newest.log[k].seq <= Newest.state.seq
    BY <2>3, <2>5, <2>7, <2>8 DEF CutAt
  <2>10. r \in ToSet(Newest.log)
    BY <2>3, <2>9, InSet
  <2>. QED
    BY <2>1, <2>3, <2>9, <2>10 DEF FileHolds
<1>8. FilesHold'
  <2>1. \A f \in Resumable' : FileHolds(files'[f])
    <3>1. \A f \in Resumable : f \in 1..n
      BY <1>4 DEF Resumable
    <3>. QED
      BY <1>2, <1>4, <1>5, <3>1 DEF FilesHold
  <2>2. ASSUME NEW g \in DOMAIN files', NEW r \in ToSet(files'[g].log)
        PROVE  \/ r = Opening' /\ (Resumable' = {} \/ g > Max(Resumable'))
               \/ /\ Resumable' # {}
                  /\ \/ g = Max(Resumable')
                     \/ r.seq <= Newest'.state.seq /\ Covers(Newest'.state, r)
    <3>1. CASE g = n + 1
      <4>1. r \in ToSet(earlier)
        BY <1>3, <1>4, <2>2, <3>1
      <4>. QED
        BY <1>5, <1>6, <1>7, <4>1
    <3>2. CASE g \in 1..n
      <4>1. g \in DOMAIN files /\ r \in ToSet(files[g].log)
        BY <1>4, <2>2, <3>2
      <4>2. \/ r = Opening /\ (Resumable = {} \/ g > Max(Resumable))
            \/ /\ Resumable # {}
               /\ \/ g = Max(Resumable)
                  \/ r.seq <= Newest.state.seq /\ Covers(Newest.state, r)
        BY <1>2, <4>1 DEF FilesHold
      <4>. QED
        BY <1>5, <1>6, <4>2
    <3>. QED
      BY <1>4, <2>2, <3>1, <3>2
  <2>. QED
    BY <1>4, <2>1, <2>2 DEF FilesHold
<1>9. Records' = Records
  <2>1. ToSet(earlier) \subseteq Records
    <3>1. ASSUME NEW r \in ToSet(earlier) PROVE r \in Records
      <4>1. Resumable # {} /\ r \in ToSet(Newest.log)
        BY <1>7
      <4>2. Max(Resumable) \in DOMAIN files
        BY <1>4, <1>6, <4>1
      <4>. QED
        BY <4>1, <4>2 DEF Newest, Records
    <3>. QED
      BY <3>1
  <2>2. UNION {ToSet(files'[f].log) : f \in DOMAIN files'} =
          (UNION {ToSet(files[f].log) : f \in DOMAIN files}) \cup ToSet(earlier)
    <3>0. \A f \in DOMAIN files' : f \in 1..n \/ f = n + 1
      BY <1>4
    <3>1. \A f \in DOMAIN files' : (f \in DOMAIN files /\ files'[f] = files[f]) \/ files'[f].log = earlier
      BY <1>3, <1>4, <3>0
    <3>2. \A f \in DOMAIN files : f \in DOMAIN files' /\ files'[f] = files[f]
      BY <1>4
    <3>3. n + 1 \in DOMAIN files' /\ files'[n + 1].log = earlier
      BY <1>3, <1>4
    <3> DEFINE before == UNION {ToSet(files[f].log) : f \in DOMAIN files}
               after == UNION {ToSet(files'[f].log) : f \in DOMAIN files'}
    <3>4. ASSUME NEW f \in DOMAIN files', NEW r \in ToSet(files'[f].log) PROVE r \in before \cup ToSet(earlier)
      BY <3>1
    <3>5. ASSUME NEW f \in DOMAIN files, NEW r \in ToSet(files[f].log) PROVE r \in after
      BY <3>2
    <3>6. ToSet(earlier) \subseteq after
      BY <3>3
    <3>7. after \subseteq before \cup ToSet(earlier)
      BY <3>4
    <3>8. before \subseteq after
      BY <3>5
    <3>. QED
      BY <3>6, <3>7, <3>8
  <2>3. Records' = ToSet(log') \cup UNION {ToSet(files'[f].log) : f \in DOMAIN files'}
    BY DEF Records
  <2>4. Records = ToSet(log) \cup UNION {ToSet(files[f].log) : f \in DOMAIN files}
    BY DEF Records
  <2>5. log' = log
    BY <1>1
  <2>. QED
    BY <2>1, <2>2, <2>3, <2>4, <2>5
<1>10. WiredHolds'
  <2>1. Mine' = n + 1 /\ Mine' \notin Resumable'
    <3>1. Mine' = n + 1
      BY <1>4 DEF Mine
    <3>. QED
      BY <1>4, <1>5, <3>1 DEF Resumable
  <2>2. Resumable # {} => Newest' = Newest
    BY <1>6
  <2>. QED
    BY <1>1, <1>2, <1>5, <1>6, <2>1, <2>2 DEF WiredHolds
<1>11. CountersCover' /\ TurnUnused' /\ NumberedOnce'
  BY <1>1, <1>9 DEF RecordingInv, CountersCover, TurnUnused, NumberedOnce, Here
<1>12. ContextHolds' /\ TurnHolds' /\ LogHolds' /\ CountersHold'
  BY <1>1 DEF RecordingInv, ContextHolds, Loading, TurnHolds, LogHolds, Base, CountersHold
<1>13. KeptHolds'
  <2>1. kept'.written \in Nat /\ kept'.written <= Base /\ Base \in Nat /\ Base <= seq /\ Base' = Base
    <3>1. Base \in Nat /\ Base <= seq /\ Base' = Base
      BY <1>1, <1>2 DEF Base
    <3>2. CASE earlier = <<>>
      BY <1>1, <3>1, <3>2
    <3>3. CASE earlier # <<>>
      <4>0. Last(earlier) = earlier[Len(earlier)]
        BY <1>2, <3>3, FrontAndLast
      <4>1. Last(earlier) = earlier[Len(earlier)] /\ Len(earlier) \in DOMAIN earlier
        BY <1>2, <3>3, <4>0
      <4>2. earlier[Len(earlier)].seq \in Nat /\ earlier[Len(earlier)].seq <= Base
        BY <1>2, <4>1, RecordsTyped DEF LogHolds
      <4>. QED
        BY <1>1, <3>1, <3>3, <4>1, <4>2
    <3>. QED
      BY <3>2, <3>3
  <2>2. Written' = 0
    BY <2>1 DEF Written
  <2>3. earlier \o SubSeq(log, 1, 0) = earlier
    BY <1>2
  <2>4. Mine' = n + 1 /\ Mine' \notin Resumable' /\ files' # <<>>
    <3>1. Mine' = n + 1
      BY <1>4 DEF Mine
    <3>2. files' # <<>>
      BY <1>4
    <3>. QED
      BY <1>4, <1>5, <3>1, <3>2 DEF Resumable
  <2>5. files'[Mine'].log = earlier' \o SubSeq(log', 1, Written')
    BY <1>1, <1>3, <1>4, <2>2, <2>3, <2>4
  <2>6. kept' \in [written : Nat, snapshotted : Nat] /\ kept'.snapshotted = 0 /\ kept'.written <= seq'
    <3>1. kept'.written <= seq
      BY <1>2, <2>1
    <3>. QED
      BY <1>1, <2>1, <3>1
  <2>7. process' = "wired" /\ log' # <<>>
    BY <1>1, <1>2 DEF KeptHolds
  <2>. QED
    BY <2>4, <2>5, <2>6, <2>7 DEF KeptHolds
<1>14. DoingHolds'
  BY <1>1 DEF DoingHolds, Past, Idle
<1>. QED
  BY <1>1, <1>8, <1>10, <1>11, <1>12, <1>13, <1>14 DEF RecordingInv

\* A step of the recorder that only takes something into the snapshot it is making.
LEMMA DoingStep ==
  ASSUME RecordingInv, Claimed, process # "down",
         UNCHANGED <<session, process, files, earlier, kept>>, DoingHolds'
  PROVE  RecordingInv'
<1>1. /\ process' = process /\ files' = files /\ earlier' = earlier /\ kept' = kept
      /\ ctx' = ctx /\ seen' = seen /\ permission' = permission /\ log' = log /\ seq' = seq
      /\ turn' = turn
  BY DEF session
<1>2. ContextHolds' /\ TurnHolds' /\ LogHolds' /\ CountersHold'
  BY <1>1 DEF RecordingInv, ContextHolds, Loading, TurnHolds, LogHolds, Base, CountersHold
<1>3. Records' = Records
  BY <1>1 DEF Records
<1>4. CountersCover' /\ TurnUnused' /\ NumberedOnce'
  BY <1>1, <1>3 DEF RecordingInv, CountersCover, TurnUnused, NumberedOnce, Here
<1>5. FilesHold' /\ Resumable' = Resumable /\ Mine' = Mine
  BY <1>1, FilesAlone DEF RecordingInv, Resumable, Mine
<1>6. WiredHolds'
  <2>1. Opening' = Opening /\ Newest' = Newest
    BY <1>1 DEF Opening, Carried, Newest, Resumable
  <2>. QED
    BY <1>1, <1>5, <2>1 DEF RecordingInv, WiredHolds
<1>7. KeptHolds'
  <2>1. Written' = Written
    BY <1>1 DEF Written, Base
  <2>2. KeptHolds
    BY DEF RecordingInv
  <2>3. /\ files # <<>> /\ process # "down"
        /\ files[Mine].log = earlier \o SubSeq(log, 1, Written)
        /\ Mine \in Resumable =>
             /\ files[Mine].state.seq \in (Base + 1)..kept.written
             /\ kept.snapshotted = files[Mine].state.seq
             /\ process = "running"
        /\ Mine \notin Resumable => kept.snapshotted = 0
    BY <2>2 DEF KeptHolds
  <2>4. Base' = Base
    BY <1>1 DEF Base
  <2>. QED
    BY <1>1, <1>5, <2>1, <2>2, <2>3, <2>4 DEF KeptHolds
<1>8. process' \in {"down", "wired", "running"}
  BY <1>1 DEF RecordingInv
<1>. QED
  BY <1>2, <1>4, <1>5, <1>6, <1>7, <1>8 DEF RecordingInv

\* A checkpoint begins.
LEMMA CheckpointStartStep ==
  ASSUME RecordingInv, CheckpointStart
  PROVE  RecordingInv'
<1>1. /\ process = "running" /\ doing' = [Idle EXCEPT !.at = "items"]
      /\ UNCHANGED <<session, process, files, earlier, kept>>
  BY DEF CheckpointStart
<1>2. Claimed /\ process # "down"
  BY <1>1 DEF Claimed
<1>3. DoingHolds'
  BY <1>1 DEF DoingHolds, Past, Idle
<1>. QED
  BY <1>1, <1>2, <1>3, DoingStep

\* What a run that has a file of its own knows of its log.
LEMMA ClaimedParts ==
  ASSUME RecordingInv, Claimed
  PROVE  /\ process # "down" /\ files # <<>> /\ files \in Seq(FileType) /\ Mine \in DOMAIN files
         /\ log \in Seq(RecordType) /\ earlier \in Seq(RecordType) /\ log # <<>>
         /\ Len(log) \in Nat \ {0} /\ seq \in Nat /\ seq <= MaxSeq /\ Base \in Nat
         /\ seq = Base + Len(log)
         /\ \A k \in DOMAIN log : log[k].seq = Base + k
         /\ \A k \in DOMAIN earlier : earlier[k].seq <= Base
         /\ kept \in [written : Nat, snapshotted : Nat] /\ kept.written <= seq
         /\ kept.snapshotted <= kept.written
         /\ files[Mine].log = earlier \o SubSeq(log, 1, Written) /\ Written \in 0..Len(log)
<1>1. LogHolds /\ KeptHolds /\ files \in Seq(FileType)
  BY DEF RecordingInv, FilesHold
<1>2. /\ process # "down" /\ files # <<>> /\ log # <<>>
      /\ files[Mine].log = earlier \o SubSeq(log, 1, Written)
      /\ kept \in [written : Nat, snapshotted : Nat] /\ kept.written <= seq
      /\ Mine \in Resumable =>
           /\ files[Mine].state.seq \in (Base + 1)..kept.written
           /\ kept.snapshotted = files[Mine].state.seq
      /\ Mine \notin Resumable => kept.snapshotted = 0
  BY <1>1 DEF KeptHolds
<1>3. /\ log \in Seq(RecordType) /\ earlier \in Seq(RecordType) /\ seq \in Nat /\ seq <= MaxSeq
      /\ Len(log) <= seq
      /\ \A k \in DOMAIN log : log[k].seq = Base + k
      /\ \A k \in DOMAIN earlier : earlier[k].seq <= Base
  BY <1>1 DEF LogHolds
<1>4. Mine \in DOMAIN files
  BY <1>1, <1>2 DEF Mine
<1>5. Len(log) \in Nat \ {0}
  BY <1>2, <1>3
<1>6. Base \in Nat /\ seq = Base + Len(log)
  BY <1>3, <1>5 DEF Base
<1>7. kept.written \in Nat /\ kept.snapshotted \in Nat
  BY <1>2
<1>8. kept.snapshotted <= kept.written
  BY <1>2, <1>6, <1>7
<1>9. Written \in 0..Len(log)
  BY <1>2, <1>5, <1>6, <1>7 DEF Written
<1>. QED
  BY <1>1, <1>2, <1>3, <1>4, <1>5, <1>6, <1>8, <1>9

\* What the kernel's counters say of every record, one counter at a time.
LEMMA CoveredHere ==
  ASSUME RecordingInv, process # "down", NEW r \in Records
  PROVE  /\ r.seq <= seq
         /\ r.what = "added" => r.adds \subseteq 1..(ctx.next - 1)
         /\ r.what = "finished" => r.calls \subseteq seen
         /\ r.asks < permission
<1>1. r.seq <= seq /\ Covers(Here, r)
  BY DEF RecordingInv, CountersCover
<1>2. Here.next = ctx.next /\ Here.used = seen /\ Here.permission = permission
  BY DEF Here
<1>. QED
  BY <1>1, <1>2 DEF Covers, CoversItems, CoversCalls, CoversAsks

\* The items are taken with the number of the last record, of which they are what it lists.
LEMMA SnapshotItemsStep ==
  ASSUME RecordingInv, SnapshotItems
  PROVE  RecordingInv'
<1> DEFINE snap == [items |-> ctx.items, next |-> ctx.next, seq |-> seq, used |-> {}, permission |-> 1]
<1>1. /\ doing.at = "items" /\ doing' = [at |-> "calls", snap |-> snap]
      /\ UNCHANGED <<session, process, files, earlier, kept>>
  BY DEF SnapshotItems
<1>2. /\ process' = process /\ files' = files /\ earlier' = earlier /\ kept' = kept
      /\ ctx' = ctx /\ log' = log /\ seq' = seq
  BY <1>1 DEF session
<1>3. Claimed
  BY <1>1 DEF Claimed
<1>4. /\ process # "down" /\ log \in Seq(RecordType) /\ earlier \in Seq(RecordType)
      /\ Len(log) \in Nat \ {0} /\ seq \in Nat /\ Base \in Nat /\ seq = Base + Len(log)
      /\ kept \in [written : Nat, snapshotted : Nat] /\ kept.written <= seq
      /\ kept.snapshotted <= kept.written /\ files \in Seq(FileType)
  BY <1>3, ClaimedParts
<1>5. KernelHolds
  BY <1>4, RunningKernel
<1>6. /\ ctx.items \in Seq(Item) /\ ctx.next \in Nat \ {0} /\ ctx.items \in VersionsOf(ctx)
      /\ WellFormed(ctx) /\ VersionHolds(ctx.items, seen \cup Loading)
      /\ seen \subseteq Calls /\ turn.calls \in Seq(Calls)
      /\ ListedIn(earlier \o log) = Ids(ctx.items)
  BY <1>5, HeldParts
<1>7. /\ snap.items = ctx.items /\ snap.next = ctx.next /\ snap.seq = seq /\ snap.used = {}
      /\ snap.permission = 1 /\ snap \in SnapshotType
  BY <1>4, <1>6 DEF SnapshotType
<1> HIDE DEF snap
<1>8. ItemsHold(snap)
  <2>1. VersionOK(ctx.items, ctx.next)
    BY <1>6, Parts
  <2>2. Loading \subseteq Calls
    <3>1. ToSet(turn.calls) \subseteq Calls
      BY <1>6, InSet
    <3>. QED
      BY <3>1 DEF Loading
  <2>3. VersionHolds(ctx.items, Calls)
    BY <1>6, <2>2 DEF VersionHolds
  <2>4. ctx.next <= MaxItems + 1
    BY DEF RecordingInv, ContextHolds
  <2>. QED
    BY <1>7, <2>1, <2>3, <2>4 DEF ItemsHold
<1>9. snap.next <= ctx.next /\ snap.seq \in (Base + 1)..seq /\ kept.snapshotted <= snap.seq
  BY <1>4, <1>6, <1>7
<1>10. ListedIn(earlier \o SubSeq(log, 1, snap.seq - Base)) = Ids(snap.items)
  <2>1. snap.seq - Base = Len(log)
    BY <1>4, <1>7
  <2>2. SubSeq(log, 1, Len(log)) = log
    BY <1>4
  <2>. QED
    BY <1>6, <1>7, <2>1, <2>2
<1>11. \A r \in Records : r.seq <= snap.seq /\ CoversItems(snap, r)
  BY <1>4, <1>7, CoveredHere DEF CoversItems
<1>12. \A g \in DOMAIN files \ {Mine} : \A r \in ToSet(files[g].log) : r.seq <= snap.seq
  BY <1>4, <1>11, RecordsAll
<1>13. doing'.at = "calls" /\ doing'.snap = snap
  BY <1>1
<1>14. DoingHolds'
  <2>1. Base' = Base /\ Records' = Records /\ Mine' = Mine
    BY <1>2 DEF Base, Records, Mine
  <2>2. Past("items")' /\ ~Past("calls")' /\ ~Past("permission")'
    BY <1>13 DEF Past
  <2>. QED
    BY <1>2, <1>7, <1>8, <1>9, <1>10, <1>11, <1>12, <1>13, <2>1, <2>2 DEF DoingHolds
<1>. QED
  BY <1>1, <1>3, <1>4, <1>14, DoingStep

\* The calls are taken after the items, so they are more than those of the records so far.
LEMMA SnapshotCallsStep ==
  ASSUME RecordingInv, SnapshotCalls
  PROVE  RecordingInv'
<1> DEFINE used == seen \cup NamedIn(doing.snap.items)
           snap == [doing.snap EXCEPT !.used = used]
<1>1. /\ doing.at = "calls"
      /\ doing' = [doing EXCEPT !.at = "permission", !.snap.used = used]
      /\ UNCHANGED <<session, process, files, earlier, kept>>
  BY DEF SnapshotCalls
<1>2. /\ process' = process /\ files' = files /\ earlier' = earlier /\ kept' = kept
      /\ ctx' = ctx /\ log' = log /\ seq' = seq
  BY <1>1 DEF session
<1>3. Claimed
  BY <1>1 DEF Claimed
<1>4. process # "down"
  BY <1>3, ClaimedParts
<1>5. DoingHolds /\ Past("items") /\ seen \subseteq Calls
  BY <1>1 DEF RecordingInv, Past, CountersHold
<1>6. /\ doing.snap \in SnapshotType /\ ItemsHold(doing.snap) /\ doing.snap.next <= ctx.next
      /\ doing.snap.seq \in (Base + 1)..seq
      /\ kept.snapshotted <= doing.snap.seq
      /\ ListedIn(earlier \o SubSeq(log, 1, doing.snap.seq - Base)) = Ids(doing.snap.items)
      /\ \A g \in DOMAIN files \ {Mine} : \A r \in ToSet(files[g].log) : r.seq <= doing.snap.seq
      /\ \A r \in Records : r.seq <= doing.snap.seq => CoversItems(doing.snap, r)
  BY <1>5 DEF DoingHolds
<1>7. used \subseteq Calls
  BY <1>5, <1>6 DEF ItemsHold, VersionHolds
<1> HIDE DEF used
<1>8. /\ snap.items = doing.snap.items /\ snap.next = doing.snap.next /\ snap.seq = doing.snap.seq
      /\ snap.used = used /\ snap.permission = doing.snap.permission /\ snap \in SnapshotType
  BY <1>6, <1>7 DEF SnapshotType
<1>9. doing'.at = "permission" /\ doing'.snap = snap
  BY <1>1
<1> HIDE DEF snap
<1>10. NamedIn(snap.items) \subseteq snap.used /\ \A r \in Records : CoversCalls(snap, r)
  <2>1. seen \subseteq used /\ NamedIn(doing.snap.items) \subseteq used
    BY DEF used
  <2>2. \A r \in Records : r.what = "finished" => r.calls \subseteq seen
    BY <1>4, CoveredHere
  <2>. QED
    BY <1>8, <2>1, <2>2 DEF CoversCalls
<1>11. ItemsHold(snap) /\ \A r \in Records : r.seq <= snap.seq => CoversItems(snap, r)
  BY <1>6, <1>8 DEF ItemsHold, CoversItems
<1>12. DoingHolds'
  <2>1. Base' = Base /\ Records' = Records /\ Mine' = Mine
    BY <1>2 DEF Base, Records, Mine
  <2>2. Past("items")' /\ Past("calls")' /\ ~Past("permission")'
    BY <1>9 DEF Past
  <2>. QED
    BY <1>2, <1>6, <1>8, <1>9, <1>10, <1>11, <2>1, <2>2 DEF DoingHolds
<1>. QED
  BY <1>1, <1>3, <1>4, <1>12, DoingStep

\* So is the next permission request.
LEMMA SnapshotPermissionStep ==
  ASSUME RecordingInv, SnapshotPermission
  PROVE  RecordingInv'
<1> DEFINE snap == [doing.snap EXCEPT !.permission = permission]
<1>1. /\ doing.at = "permission"
      /\ doing' = [doing EXCEPT !.at = "log", !.snap.permission = permission]
      /\ UNCHANGED <<session, process, files, earlier, kept>>
  BY DEF SnapshotPermission
<1>2. /\ process' = process /\ files' = files /\ earlier' = earlier /\ kept' = kept
      /\ ctx' = ctx /\ log' = log /\ seq' = seq
  BY <1>1 DEF session
<1>3. Claimed
  BY <1>1 DEF Claimed
<1>4. process # "down"
  BY <1>3, ClaimedParts
<1>5. DoingHolds /\ Past("items") /\ Past("calls") /\ permission \in 1..(MaxAsks + 1)
  BY <1>1 DEF RecordingInv, Past, CountersHold
<1>6. /\ doing.snap \in SnapshotType /\ ItemsHold(doing.snap) /\ doing.snap.next <= ctx.next
      /\ doing.snap.seq \in (Base + 1)..seq
      /\ kept.snapshotted <= doing.snap.seq
      /\ ListedIn(earlier \o SubSeq(log, 1, doing.snap.seq - Base)) = Ids(doing.snap.items)
      /\ \A g \in DOMAIN files \ {Mine} : \A r \in ToSet(files[g].log) : r.seq <= doing.snap.seq
      /\ \A r \in Records : r.seq <= doing.snap.seq => CoversItems(doing.snap, r)
      /\ NamedIn(doing.snap.items) \subseteq doing.snap.used
      /\ \A r \in Records : r.seq <= doing.snap.seq => CoversCalls(doing.snap, r)
  BY <1>5 DEF DoingHolds
<1>7. permission \in Nat \ {0} /\ permission <= MaxAsks + 1
  BY <1>5, RoomEnough
<1>8. /\ snap.items = doing.snap.items /\ snap.next = doing.snap.next /\ snap.seq = doing.snap.seq
      /\ snap.used = doing.snap.used /\ snap.permission = permission /\ snap \in SnapshotType
  BY <1>6, <1>7 DEF SnapshotType
<1>9. doing'.at = "log" /\ doing'.snap = snap
  BY <1>1
<1> HIDE DEF snap
<1>10. \A r \in Records : CoversAsks(snap, r)
  BY <1>4, <1>8, CoveredHere DEF CoversAsks
<1>11. /\ ItemsHold(snap) /\ \A r \in Records : r.seq <= snap.seq => CoversItems(snap, r)
       /\ \A r \in Records : r.seq <= snap.seq => CoversCalls(snap, r)
  BY <1>6, <1>8 DEF ItemsHold, CoversItems, CoversCalls
<1>12. DoingHolds'
  <2>1. Base' = Base /\ Records' = Records /\ Mine' = Mine
    BY <1>2 DEF Base, Records, Mine
  <2>2. Past("items")' /\ Past("calls")' /\ Past("permission")'
    BY <1>9 DEF Past
  <2>. QED
    BY <1>2, <1>6, <1>7, <1>8, <1>9, <1>10, <1>11, <2>1, <2>2 DEF DoingHolds
<1>. QED
  BY <1>1, <1>3, <1>4, <1>12, DoingStep

---------------------------------------------------------------------------
(* What is written.                                                        *)

\* The end of a first part.
LEMMA PartOfPart ==
  ASSUME NEW S, NEW s \in Seq(S), NEW n \in 0..Len(s), NEW m \in 0..n
  PROVE  /\ SubSeq(SubSeq(s, 1, n), m + 1, n) = SubSeq(s, m + 1, n)
         /\ SubSeq(SubSeq(s, 1, n), 1, m) = SubSeq(s, 1, m)
OBVIOUS

\* How many of the records of this run are numbered up to a number.
UpTo(n) == IF n > Base THEN n - Base ELSE 0

\* The log of a run, written up to a record: what it carries on, and its own records so far.
LEMMA WrittenParts ==
  ASSUME RecordingInv, Claimed, NEW n \in kept.written..seq, files' = WrittenTo(n)
  PROVE  /\ UpTo(n) \in 0..Len(log) /\ Written <= UpTo(n) /\ n <= Base + UpTo(n)
         /\ files' \in Seq(FileType) /\ Len(files') = Len(files) /\ DOMAIN files' = DOMAIN files
         /\ \A g \in DOMAIN files : g # Mine => files'[g] = files[g]
         /\ files'[Mine].state = files[Mine].state
         /\ files'[Mine].log = earlier \o SubSeq(log, 1, UpTo(n))
         /\ Resumable' = Resumable
         /\ ToSet(files'[Mine].log) = ToSet(files[Mine].log) \cup ToSet(SubSeq(log, 1, UpTo(n)))
         /\ ToSet(SubSeq(log, 1, UpTo(n))) \subseteq ToSet(log)
<1>1. /\ files # <<>> /\ files \in Seq(FileType) /\ Mine \in DOMAIN files
      /\ log \in Seq(RecordType) /\ earlier \in Seq(RecordType)
      /\ Len(log) \in Nat \ {0} /\ seq \in Nat /\ Base \in Nat /\ seq = Base + Len(log)
      /\ \A k \in DOMAIN log : log[k].seq = Base + k
      /\ kept \in [written : Nat, snapshotted : Nat] /\ kept.written <= seq
      /\ files[Mine].log = earlier \o SubSeq(log, 1, Written) /\ Written \in 0..Len(log)
  BY ClaimedParts
<1>2. kept.written \in Nat /\ n \in Nat /\ kept.written <= n /\ n <= seq
  BY <1>1
<1> DEFINE v == UpTo(n)
           w == Written
           said == SubSeq(log, 1, v)
<1>3. /\ v \in 0..Len(log) /\ w <= v /\ n <= Base + v /\ w \in 0..v /\ kept.written <= Base + v
  BY <1>1, <1>2 DEF UpTo, Written
<1>4. Through(log, n) = said
  <2>1. CutAt(log, v, n)
    BY <1>1, <1>2, NumberedParts DEF UpTo
  <2>. QED
    BY <1>1, <1>2, <2>1, CutThere
<1>5. /\ said \in Seq(RecordType) /\ Len(said) = v /\ DOMAIN said = 1..v
      /\ \A k \in 1..v : said[k] = log[k]
  BY <1>1, <1>3, FirstPart
<1>6. \A k \in DOMAIN said : said[k].seq = Base + k
  <2>1. \A k \in 1..v : k \in DOMAIN log
    BY <1>1, <1>3
  <2>. HIDE DEF said, v
  <2>. QED
    BY <1>1, <1>5, <2>1
<1>7. Since(said, kept.written) = SubSeq(log, w + 1, v)
  <2>1. CutAt(said, w, kept.written)
    <3>1. kept.written <= Base + Len(said)
      BY <1>3, <1>5
    <3>. HIDE DEF said
    <3>2. CutAt(said, IF kept.written > Base THEN kept.written - Base ELSE 0, kept.written)
      BY <1>1, <1>2, <1>5, <1>6, <3>1, NumberedParts
    <3>. QED
      BY <3>2 DEF Written
  <2>2. Since(said, kept.written) = SubSeq(said, w + 1, Len(said))
    <3>. HIDE DEF said, w, v
    <3>. QED
      BY <1>2, <1>5, <2>1, CutThere
  <2>3. SubSeq(said, w + 1, v) = SubSeq(log, w + 1, v)
    <3>. HIDE DEF w, v
    <3>. QED
      BY <1>1, <1>3, PartOfPart
  <2>. QED
    BY <1>5, <2>2, <2>3
<1> HIDE DEF v, w
<1> DEFINE before == SubSeq(log, 1, w)
           rest == SubSeq(log, w + 1, v)
           mine == [files[Mine] EXCEPT !.log = (earlier \o before) \o rest]
<1>8. files' = [files EXCEPT ![Mine] = mine]
  BY <1>1, <1>4, <1>7 DEF WrittenTo, Mine, w
<1>9. (earlier \o before) \o rest = earlier \o said
  <2>1. before \in Seq(RecordType)
    BY <1>1, <1>3, FirstPart
  <2>2. rest \in Seq(RecordType)
    BY <1>1, <1>3
  <2>3. before \o rest = said
    <3>1. w \in 0..Len(log) /\ v \in w..Len(log)
      BY <1>1, <1>3
    <3>. QED
      BY <1>1, <3>1, PartThenPart
  <2>. HIDE DEF before, rest, said
  <2>4. (earlier \o before) \o rest = earlier \o (before \o rest)
    <3>1. earlier \in Seq(RecordType)
      BY <1>1
    <3>. QED
      BY <2>1, <2>2, <3>1, ThreeParts
  <2>. QED
    BY <2>3, <2>4
<1>10. /\ mine \in FileType /\ mine.state = files[Mine].state /\ mine.log = earlier \o said
  <2>1. files[Mine] \in FileType
    BY <1>1
  <2>2. earlier \o said \in Seq(RecordType)
    BY <1>1, <1>5
  <2>3. mine = [files[Mine] EXCEPT !.log = earlier \o said]
    BY <1>9
  <2>. HIDE DEF mine, said
  <2>. QED
    BY <2>1, <2>2, <2>3 DEF FileType
<1>11. files[Mine].log = earlier \o before
  BY <1>1 DEF w
<1> HIDE DEF mine
<1>12. /\ files' \in Seq(FileType) /\ Len(files') = Len(files) /\ DOMAIN files' = DOMAIN files
       /\ \A g \in DOMAIN files : g # Mine => files'[g] = files[g]
       /\ files'[Mine] = mine
  <2>1. /\ files \in Seq(FileType) /\ Mine \in DOMAIN files /\ mine \in FileType
        /\ files' = [files EXCEPT ![Mine] = mine]
    BY <1>1, <1>8, <1>10
  <2>2. /\ [files EXCEPT ![Mine] = mine] \in Seq(FileType)
        /\ Len([files EXCEPT ![Mine] = mine]) = Len(files)
    BY <2>1
  <2>3. DOMAIN files' = DOMAIN files
    BY <2>1
  <2>4. \A g \in DOMAIN files : g # Mine => files'[g] = files[g]
    BY <2>1
  <2>5. files'[Mine] = mine
    BY <2>1
  <2>. QED
    BY <2>1, <2>2, <2>3, <2>4, <2>5
<1>13. Resumable' = Resumable
  BY <1>10, <1>12 DEF Resumable
<1>14. /\ ToSet(before) \subseteq ToSet(said) /\ ToSet(said) \subseteq ToSet(log)
  <2>1. /\ before \in Seq(RecordType) /\ Len(before) = w /\ DOMAIN before = 1..w
        /\ \A k \in 1..w : before[k] = log[k]
    <3>1. w \in 0..Len(log)
      BY <1>1, <1>3
    <3>. QED
      BY <1>1, <3>1, FirstPart
  <2>2. \A k \in DOMAIN before : k \in DOMAIN said /\ before[k] = said[k]
    BY <1>3, <1>5, <2>1
  <2>3. \A k \in DOMAIN said : k \in DOMAIN log /\ said[k] = log[k]
    <3>1. v \in 0..Len(log) /\ log \in Seq(RecordType)
      BY <1>1, <1>3, <1>5
    <3>2. Len(said) = v /\ DOMAIN said = 1..v /\ \A k \in 1..v : said[k] = log[k]
      BY <3>1, FirstPart
    <3>. QED
      BY <3>1, <3>2
  <2>. HIDE DEF before, said
  <2>. QED
    BY <2>2, <2>3 DEF ToSet
<1>15. /\ ToSet(earlier \o before) = ToSet(earlier) \cup ToSet(before)
       /\ ToSet(earlier \o said) = ToSet(earlier) \cup ToSet(said)
  <2>1. before \in Seq(RecordType)
    BY <1>1, <1>3, FirstPart
  <2>. HIDE DEF before, said
  <2>. QED
    BY <1>1, <1>5, <2>1, JoinedUp
<1>. QED
  BY <1>3, <1>10, <1>11, <1>12, <1>13, <1>14, <1>15 DEF v, w

\* Writing more of the log of a run that has a snapshot leaves its snapshot true of it.
LEMMA WrittenUnder ==
  ASSUME RecordingInv, Claimed, NEW n \in kept.written..seq, files' = WrittenTo(n), Mine \in Resumable
  PROVE  FileHolds(files'[Mine])
<1> DEFINE f == files[Mine]
           g == files'[Mine]
           v == UpTo(n)
           s == f.state.seq
           old == SubSeq(log, 1, Written)
           said == SubSeq(log, 1, v)
<1>1. /\ v \in 0..Len(log) /\ Written <= v /\ n <= Base + v
      /\ g.state = f.state /\ g.log = earlier \o said
      /\ ToSet(g.log) = ToSet(f.log) \cup ToSet(said) /\ ToSet(said) \subseteq ToSet(log)
  BY WrittenParts
<1>2. /\ files \in Seq(FileType) /\ Mine \in DOMAIN files /\ process # "down"
      /\ log \in Seq(RecordType) /\ earlier \in Seq(RecordType)
      /\ seq \in Nat /\ seq <= MaxSeq /\ Base \in Nat
      /\ \A k \in DOMAIN log : log[k].seq = Base + k
      /\ \A k \in DOMAIN earlier : earlier[k].seq <= Base
      /\ kept \in [written : Nat, snapshotted : Nat] /\ Len(log) \in Nat
      /\ f.log = earlier \o old /\ Written \in 0..Len(log)
  BY ClaimedParts
<1>3. FileHolds(f) /\ s \in (Base + 1)..kept.written
  BY DEF RecordingInv, FilesHold, KeptHolds
<1>4. kept.written \in Nat /\ n \in Nat /\ kept.written <= n /\ s \in Nat /\ s > Base
      /\ kept.written <= Base + Written /\ s <= Base + Written /\ Base <= s /\ s <= Base + v
  <2>1. kept.written \in Nat /\ n \in Nat /\ kept.written <= n
    BY <1>2
  <2>2. s \in Nat /\ s > Base /\ s <= kept.written
    BY <1>2, <1>3, <2>1
  <2>3. Written = kept.written - Base
    BY <1>2, <2>1, <2>2 DEF Written
  <2>4. Written \in Nat /\ Base \in Nat /\ v \in Nat /\ Written <= v
    BY <1>1, <1>2
  <2>. HIDE DEF v, s
  <2>. QED
    BY <2>1, <2>2, <2>3, <2>4
<1> HIDE DEF f, g, v, s
<1>5. /\ old \in Seq(RecordType) /\ Len(old) = Written
      /\ \A k \in DOMAIN old : old[k].seq = Base + k
  <2>1. /\ old \in Seq(RecordType) /\ Len(old) = Written /\ DOMAIN old = 1..Written
        /\ \A k \in 1..Written : old[k] = log[k]
    BY <1>2, FirstPart
  <2>2. \A k \in 1..Written : k \in DOMAIN log
    BY <1>2
  <2>. HIDE DEF old
  <2>. QED
    BY <1>2, <2>1, <2>2
<1>6. /\ said \in Seq(RecordType) /\ Len(said) = v
      /\ \A k \in DOMAIN said : said[k].seq = Base + k
  <2>1. /\ said \in Seq(RecordType) /\ Len(said) = v /\ DOMAIN said = 1..v
        /\ \A k \in 1..v : said[k] = log[k]
    BY <1>1, <1>2, FirstPart
  <2>2. \A k \in 1..v : k \in DOMAIN log
    BY <1>1, <1>2
  <2>. HIDE DEF said
  <2>. QED
    BY <1>2, <2>1, <2>2
<1> DEFINE m == Len(earlier) + (s - Base)
<1>7. /\ SubSeq(old, 1, s - Base) = SubSeq(log, 1, s - Base)
      /\ SubSeq(said, 1, s - Base) = SubSeq(log, 1, s - Base)
  <2>1. s - Base \in 0..Written /\ s - Base \in 0..v
    BY <1>1, <1>2, <1>4
  <2>. QED
    BY <1>1, <1>2, <2>1, PartOfPart
<1> HIDE DEF old, said
<1>8. /\ CutAt(f.log, m, s) /\ SubSeq(f.log, 1, m) = earlier \o SubSeq(log, 1, s - Base)
  <2>1. s \in Nat /\ Base \in Nat /\ Base <= s /\ s <= Base + Len(old)
    BY <1>2, <1>4, <1>5
  <2>2. \A k \in DOMAIN earlier : earlier[k].seq <= Base
    BY <1>2
  <2>3. old \in Seq(RecordType) /\ earlier \in Seq(RecordType) /\ \A k \in DOMAIN old : old[k].seq = Base + k
    BY <1>2, <1>5
  <2>4. /\ CutAt(earlier \o old, m, s)
        /\ SubSeq(earlier \o old, 1, m) = earlier \o SubSeq(old, 1, s - Base)
    BY <2>1, <2>2, <2>3, BehindParts
  <2>. HIDE DEF m
  <2>. QED
    BY <1>2, <1>7, <2>4
<1>9. /\ CutAt(g.log, m, s) /\ SubSeq(g.log, 1, m) = earlier \o SubSeq(log, 1, s - Base)
  <2>1. s \in Nat /\ Base \in Nat /\ Base <= s /\ s <= Base + Len(said)
    BY <1>2, <1>4, <1>6
  <2>2. \A k \in DOMAIN earlier : earlier[k].seq <= Base
    BY <1>2
  <2>3. said \in Seq(RecordType) /\ earlier \in Seq(RecordType) /\ \A k \in DOMAIN said : said[k].seq = Base + k
    BY <1>2, <1>6
  <2>4. /\ CutAt(earlier \o said, m, s)
        /\ SubSeq(earlier \o said, 1, m) = earlier \o SubSeq(said, 1, s - Base)
    BY <2>1, <2>2, <2>3, BehindParts
  <2>. HIDE DEF m
  <2>. QED
    BY <1>1, <1>7, <2>4
<1> HIDE DEF m
<1>10. f.log \in Seq(RecordType) /\ g.log \in Seq(RecordType)
  BY <1>1, <1>2, <1>5, <1>6
<1>11. ListedIn(SubSeq(g.log, 1, m)) = Ids(g.state.items)
  <2>1. PICK m0 \in 0..Len(f.log) : CutAt(f.log, m0, s) /\ ListedIn(SubSeq(f.log, 1, m0)) = Ids(f.state.items)
    BY <1>3 DEF FileHolds, s
  <2>2. Through(f.log, s) = SubSeq(f.log, 1, m0)
    BY <1>4, <1>10, <2>1, CutThere
  <2>3. Through(f.log, s) = SubSeq(f.log, 1, m)
    BY <1>4, <1>8, <1>10, CutThere
  <2>. QED
    BY <1>1, <1>8, <1>9, <2>1, <2>2, <2>3
<1>12. Records \subseteq RecordType /\ ToSet(log) \subseteq Records
  BY <1>2, RecordsAll
<1>13. ASSUME NEW r \in ToSet(g.log)
       PROVE  /\ r.seq <= MaxSeq /\ r.asks <= MaxAsks
              /\ r.what = "added" => r.adds \subseteq 1..MaxItems
              /\ r.seq <= s => Covers(f.state, r)
  <2>1. CASE r \in ToSet(f.log)
    BY <1>3, <2>1 DEF FileHolds, s
  <2>2. CASE r \notin ToSet(f.log)
    <3>1. r \in Records /\ r \in RecordType
      BY <1>1, <1>12, <2>2
    <3>2. /\ r.seq <= seq /\ r.asks < permission
          /\ r.what = "added" => r.adds \subseteq 1..(ctx.next - 1)
      BY <1>2, <3>1, CoveredHere
    <3>3. /\ permission \in Nat /\ permission <= MaxAsks + 1 /\ ctx.next \in Nat
          /\ ctx.next <= MaxItems + 1 /\ MaxItems \in Nat /\ MaxAsks \in Nat /\ MaxSeq \in Nat
      <4>1. KernelHolds
        BY <1>2, RunningKernel
      <4>2. permission \in Nat \ {0} /\ ctx.next \in Nat \ {0}
        BY <4>1, HeldParts
      <4>3. permission <= MaxAsks + 1 /\ ctx.next <= MaxItems + 1
        BY RoomEnough DEF RecordingInv, CountersHold, ContextHolds
      <4>. QED
        BY <4>2, <4>3, RoomEnough
    <3>4. r.seq \in Nat /\ r.asks \in Nat
      BY <3>1 DEF RecordType
    <3>5. ~(r.seq <= s)
      <4>1. PICK k \in 1..Len(g.log) : g.log[k] = r
        BY <1>10, InSet
      <4>2. k \notin 1..m
        <5>1. ASSUME k \in 1..m PROVE FALSE
          <6>1. m \in 0..Len(f.log) /\ m \in 0..Len(g.log)
            BY <1>8, <1>9 DEF CutAt
          <6>2. SubSeq(f.log, 1, m)[k] = f.log[k] /\ SubSeq(g.log, 1, m)[k] = g.log[k]
            BY <1>10, <5>1, <6>1, FirstPart
          <6>3. f.log[k] = r
            BY <1>8, <1>9, <4>1, <6>2
          <6>4. k \in 1..Len(f.log)
            BY <1>10, <5>1, <6>1
          <6>. QED
            BY <1>10, <2>2, <6>3, <6>4, InSet
        <5>. QED
          BY <5>1
      <4>3. k \in (m + 1)..Len(g.log)
        BY <1>9, <4>1, <4>2 DEF CutAt
      <4>4. g.log[k].seq > s
        BY <1>9, <4>3 DEF CutAt
      <4>. QED
        BY <1>4, <3>4, <4>1, <4>4
    <3>6. r.seq <= MaxSeq
      BY <1>2, <3>2, <3>3, <3>4
    <3>7. r.asks <= MaxAsks
      BY <3>2, <3>3, <3>4
    <3>8. 1..(ctx.next - 1) \subseteq 1..MaxItems
      BY <3>3
    <3>. QED
      BY <3>2, <3>5, <3>6, <3>7, <3>8
  <2>. QED
    BY <2>1, <2>2
<1>14. m \in 0..Len(g.log)
  BY <1>9 DEF CutAt
<1>15. /\ g.state.seq = s /\ s \in 1..MaxSeq /\ ItemsHold(g.state)
       /\ NamedIn(g.state.items) \subseteq g.state.used /\ g.state.permission <= MaxAsks + 1
  BY <1>1, <1>3 DEF FileHolds, s
<1>16. FileHolds(g)
  BY <1>1, <1>9, <1>11, <1>13, <1>14, <1>15 DEF FileHolds
<1>. QED
  BY <1>16 DEF g

\* However far the log of a run is written, the files still hold together.
LEMMA WrittenFiles ==
  ASSUME RecordingInv, Claimed, NEW n \in kept.written..seq, files' = WrittenTo(n)
  PROVE  /\ FilesHold'
         /\ process = "wired" => Opening' = Opening /\ (Resumable # {} => Newest' = Newest)
<1>1. /\ files' \in Seq(FileType) /\ Len(files') = Len(files) /\ DOMAIN files' = DOMAIN files
      /\ \A g \in DOMAIN files : g # Mine => files'[g] = files[g]
      /\ files'[Mine].state = files[Mine].state
      /\ Resumable' = Resumable
      /\ ToSet(files'[Mine].log) = ToSet(files[Mine].log) \cup ToSet(SubSeq(log, 1, UpTo(n)))
      /\ ToSet(SubSeq(log, 1, UpTo(n))) \subseteq ToSet(log)
  BY WrittenParts
<1>2. /\ FilesHold /\ KeptHolds /\ WiredHolds /\ Mine \in DOMAIN files /\ process # "down"
      /\ files \in Seq(FileType) /\ process \in {"down", "wired", "running"}
      /\ Mine = Len(files) /\ Len(files) \in Nat
  BY ClaimedParts DEF RecordingInv, Mine
<1>3. CASE Mine \in Resumable
  <2>1. /\ Max(Resumable) \in Resumable /\ Max(Resumable) \in 1..Len(files)
        /\ \A f \in Resumable : f <= Max(Resumable)
    BY <1>2, <1>3, TheNewest
  <2>2. Max(Resumable) = Mine /\ Mine \in 1..Len(files)
    BY <1>2, <1>3, <2>1
  <2>3. process = "running"
    BY <1>2, <1>3 DEF KeptHolds
  <2>4. Newest'.state = Newest.state
    BY <1>1, <2>2 DEF Newest
  <2>5. \A f \in Resumable' : FileHolds(files'[f])
    <3>1. FileHolds(files'[Mine])
      BY <1>3, WrittenUnder
    <3>2. \A f \in Resumable : f \in DOMAIN files
      BY DEF Resumable
    <3>. QED
      BY <1>1, <1>2, <3>1, <3>2 DEF FilesHold
  <2>6. ASSUME NEW g \in DOMAIN files', g # Mine, NEW r \in ToSet(files'[g].log)
        PROVE  r.seq <= Newest.state.seq /\ Covers(Newest.state, r)
    <3>1. g \in DOMAIN files /\ r \in ToSet(files[g].log) /\ g \in 1..Len(files)
      BY <1>1, <1>2, <2>6
    <3>2. ~(g > Max(Resumable)) /\ g # Max(Resumable) /\ Resumable # {}
      BY <1>2, <2>2, <2>6, <3>1, <1>3
    <3>. QED
      BY <1>2, <3>1, <3>2 DEF FilesHold
  <2>7. FilesHold'
    BY <1>1, <1>3, <2>2, <2>4, <2>5, <2>6 DEF FilesHold
  <2>. QED
    BY <2>3, <2>7
<1>4. CASE Mine \notin Resumable
  <2>1. process = "wired"
    BY <1>2, <1>4 DEF KeptHolds
  <2>2. ASSUME Resumable # {} PROVE Max(Resumable) \in DOMAIN files /\ Max(Resumable) # Mine /\ Max(Resumable) < Mine
    <3>1. Max(Resumable) \in Resumable /\ Max(Resumable) \in 1..Len(files) /\ Max(Resumable) \in DOMAIN files
      BY <1>2, <2>2, TheNewest
    <3>2. Max(Resumable) # Mine
      BY <1>4, <3>1
    <3>. QED
      BY <1>2, <3>1, <3>2
  <2>3. ASSUME Resumable # {} PROVE Newest' = Newest /\ Carried' = Carried
    <3>1. Newest' = Newest
      BY <1>1, <2>2, <2>3 DEF Newest
    <3>. QED
      BY <3>1 DEF Carried
  <2>4. Opening' = Opening
    BY <1>1, <2>3 DEF Opening
  <2>5. \A f \in Resumable' : FileHolds(files'[f])
    <3>1. \A f \in Resumable : f \in DOMAIN files /\ f # Mine
      BY <1>4 DEF Resumable
    <3>. QED
      BY <1>1, <1>2, <3>1 DEF FilesHold
  <2>6. ASSUME NEW g \in DOMAIN files', NEW r \in ToSet(files'[g].log)
        PROVE  \/ r = Opening /\ (Resumable = {} \/ g > Max(Resumable))
               \/ /\ Resumable # {}
                  /\ \/ g = Max(Resumable)
                     \/ r.seq <= Newest.state.seq /\ Covers(Newest.state, r)
    <3>1. CASE r \in ToSet(files[g].log)
      BY <1>1, <1>2, <3>1 DEF FilesHold
    <3>2. CASE r \notin ToSet(files[g].log)
      <4>1. g = Mine /\ r \in ToSet(log)
        BY <1>1, <2>6, <3>2
      <4>2. ToSet(log) = {Opening}
        <5>1. log = <<Opening>>
          BY <1>2, <2>1 DEF WiredHolds
        <5>2. ToSet(<<Opening>>) = {Opening}
          BY DEF ToSet
        <5>. QED
          BY <5>1, <5>2
      <4>3. Resumable = {} \/ g > Max(Resumable)
        <5>1. ASSUME Resumable # {} PROVE g > Max(Resumable)
          <6>1. Max(Resumable) < Mine /\ Max(Resumable) \in 1..Len(files)
            BY <1>2, <2>2, <5>1
          <6>. QED
            BY <1>2, <4>1, <6>1
        <5>. QED
          BY <5>1
      <4>. QED
        BY <4>1, <4>2, <4>3
    <3>. QED
      BY <3>1, <3>2
  <2>7. FilesHold'
    BY <1>1, <2>3, <2>4, <2>5, <2>6 DEF FilesHold
  <2>. QED
    BY <2>3, <2>4, <2>7
<1>. QED
  BY <1>3, <1>4

\* The log is brought up to date.
LEMMA WriteLogStep ==
  ASSUME RecordingInv, WriteLog
  PROVE  RecordingInv'
<1>1. /\ doing.at = "log" /\ files' = WrittenTo(seq) /\ kept' = [kept EXCEPT !.written = seq]
      /\ doing' = [doing EXCEPT !.at = "state"] /\ process' = process /\ earlier' = earlier
      /\ ctx' = ctx /\ seen' = seen /\ permission' = permission /\ log' = log /\ seq' = seq
      /\ turn' = turn
  BY DEF WriteLog, session
<1>2. Claimed
  BY <1>1 DEF Claimed
<1>3. /\ process # "down" /\ files # <<>> /\ files \in Seq(FileType) /\ Mine \in DOMAIN files
      /\ log \in Seq(RecordType) /\ log # <<>> /\ Len(log) \in Nat \ {0} /\ seq \in Nat
      /\ Base \in Nat /\ seq = Base + Len(log)
      /\ kept \in [written : Nat, snapshotted : Nat] /\ kept.written <= seq
  BY <1>2, ClaimedParts
<1>4. seq \in kept.written..seq
  BY <1>3
<1>5. /\ files' \in Seq(FileType) /\ Len(files') = Len(files) /\ DOMAIN files' = DOMAIN files
      /\ \A g \in DOMAIN files : g # Mine => files'[g] = files[g]
      /\ files'[Mine].state = files[Mine].state
      /\ files'[Mine].log = earlier \o SubSeq(log, 1, UpTo(seq))
      /\ Resumable' = Resumable
      /\ ToSet(files'[Mine].log) = ToSet(files[Mine].log) \cup ToSet(SubSeq(log, 1, UpTo(seq)))
      /\ ToSet(SubSeq(log, 1, UpTo(seq))) \subseteq ToSet(log)
  BY <1>1, <1>2, <1>4, WrittenParts
<1>6. /\ FilesHold'
      /\ process = "wired" => Opening' = Opening /\ (Resumable # {} => Newest' = Newest)
  BY <1>1, <1>2, <1>4, WrittenFiles
<1>7. Records' = Records
  <2>1. ASSUME NEW g \in DOMAIN files, NEW r \in ToSet(files[g].log) PROVE r \in ToSet(files'[g].log)
    BY <1>5, <2>1
  <2>2. ASSUME NEW g \in DOMAIN files', NEW r \in ToSet(files'[g].log) PROVE r \in ToSet(log) \/ r \in ToSet(files[g].log)
    BY <1>5, <2>2
  <2> DEFINE before == UNION {ToSet(files[f].log) : f \in DOMAIN files}
             after == UNION {ToSet(files'[f].log) : f \in DOMAIN files'}
  <2>3. before \subseteq after /\ after \subseteq before \cup ToSet(log)
    BY <1>5, <2>1, <2>2
  <2>4. Records = ToSet(log) \cup before /\ Records' = ToSet(log) \cup after
    BY <1>1 DEF Records
  <2>. HIDE DEF before, after
  <2>. QED
    BY <2>3, <2>4
<1>8. Base' = Base /\ Mine' = Mine
  BY <1>1, <1>5 DEF Base, Mine
<1>9. ContextHolds' /\ TurnHolds' /\ LogHolds' /\ CountersHold'
  BY <1>1 DEF RecordingInv, ContextHolds, Loading, TurnHolds, LogHolds, Base, CountersHold
<1>10. CountersCover' /\ TurnUnused' /\ NumberedOnce'
  BY <1>1, <1>7 DEF RecordingInv, CountersCover, TurnUnused, NumberedOnce, Here
<1>11. WiredHolds'
  BY <1>1, <1>2, <1>5, <1>6, <1>8 DEF RecordingInv, WiredHolds
<1>12. KeptHolds /\ DoingHolds
  BY DEF RecordingInv
<1>13. KeptHolds'
  <2>1. kept' \in [written : Nat, snapshotted : Nat] /\ kept'.written = seq /\ kept'.snapshotted = kept.snapshotted
    BY <1>1, <1>3
  <2>2. Written' = UpTo(seq)
    BY <1>1, <1>8, <2>1 DEF Written, UpTo
  <2>3. files'[Mine'].log = earlier' \o SubSeq(log', 1, Written')
    BY <1>1, <1>5, <1>8, <2>2
  <2>4. ASSUME Mine \in Resumable
        PROVE  /\ files'[Mine].state.seq \in (Base + 1)..seq
               /\ kept'.snapshotted = files'[Mine].state.seq /\ process = "running"
    <3>1. /\ files[Mine].state.seq \in (Base + 1)..kept.written
          /\ kept.snapshotted = files[Mine].state.seq /\ process = "running"
      BY <1>2, <1>12, <2>4 DEF KeptHolds
    <3>2. files[Mine].state.seq \in (Base + 1)..seq
      BY <1>3, <3>1
    <3>. QED
      BY <1>5, <2>1, <3>1, <3>2
  <2>5. Mine \notin Resumable => kept'.snapshotted = 0
    BY <1>2, <1>12, <2>1 DEF KeptHolds
  <2>6. files' # <<>> /\ log' # <<>> /\ process' # "down" /\ kept'.written <= seq'
    <3>1. Len(files') # 0
      BY <1>3, <1>5
    <3>. QED
      BY <1>1, <1>3, <2>1, <3>1
  <2>7. process' = "running" => Mine' \in Resumable'
    BY <1>1, <1>5, <1>8, <1>12 DEF KeptHolds
  <2>. QED
    BY <1>1, <1>5, <1>8, <2>1, <2>3, <2>4, <2>5, <2>6, <2>7 DEF KeptHolds
<1>14. DoingHolds'
  <2>1. doing'.at = "state" /\ doing'.snap = doing.snap
    <3>1. Past("items")
      BY <1>1 DEF Past
    <3>. QED
      BY <1>1, <1>12
  <2>2. Past("items") /\ Past("calls") /\ Past("permission")
    BY <1>1 DEF Past
  <2>3. /\ doing.snap \in SnapshotType /\ ItemsHold(doing.snap) /\ doing.snap.next <= ctx.next
        /\ doing.snap.seq \in (Base + 1)..seq
        /\ kept.snapshotted <= doing.snap.seq
        /\ ListedIn(earlier \o SubSeq(log, 1, doing.snap.seq - Base)) = Ids(doing.snap.items)
        /\ \A g \in DOMAIN files \ {Mine} : \A r \in ToSet(files[g].log) : r.seq <= doing.snap.seq
        /\ \A r \in Records : r.seq <= doing.snap.seq => CoversItems(doing.snap, r)
    BY <1>12, <2>2 DEF DoingHolds
  <2>4. /\ NamedIn(doing.snap.items) \subseteq doing.snap.used
        /\ \A r \in Records : r.seq <= doing.snap.seq => CoversCalls(doing.snap, r)
        /\ doing.snap.permission <= MaxAsks + 1
        /\ \A r \in Records : r.seq <= doing.snap.seq => CoversAsks(doing.snap, r)
    BY <1>12, <2>2 DEF DoingHolds
  <2>5. \A g \in DOMAIN files' \ {Mine'} : \A r \in ToSet(files'[g].log) : r.seq <= doing.snap.seq
    BY <1>5, <1>8, <2>3
  <2>6. kept'.snapshotted = kept.snapshotted /\ kept'.written = seq /\ doing.snap.seq <= seq
    BY <1>1, <1>3, <2>3
  <2>. QED
    BY <1>1, <1>7, <1>8, <2>1, <2>3, <2>4, <2>5, <2>6 DEF DoingHolds
<1>15. process' \in {"down", "wired", "running"}
  BY <1>1 DEF RecordingInv
<1>. QED
  BY <1>6, <1>9, <1>10, <1>11, <1>13, <1>14, <1>15 DEF RecordingInv

\* What is known of a snapshot that is about to be written, with the log beside it.
LEMMA TakenHolds ==
  ASSUME RecordingInv, doing.at = "state"
  PROVE  /\ doing.snap \in SnapshotType /\ doing.snap.seq \in (Base + 1)..kept.written
         /\ FileHolds([log |-> files[Mine].log, state |-> doing.snap])
         /\ \A g \in DOMAIN files \ {Mine} : \A r \in ToSet(files[g].log) :
              r.seq <= doing.snap.seq /\ Covers(doing.snap, r)
<1> DEFINE snap == doing.snap
           f == [log |-> files[Mine].log, state |-> snap]
           said == SubSeq(log, 1, Written)
<1>1. /\ process # "down" /\ files \in Seq(FileType) /\ Mine \in DOMAIN files
      /\ log \in Seq(RecordType) /\ earlier \in Seq(RecordType)
      /\ Len(log) \in Nat \ {0} /\ seq \in Nat /\ seq <= MaxSeq /\ Base \in Nat
      /\ \A k \in DOMAIN log : log[k].seq = Base + k
      /\ \A k \in DOMAIN earlier : earlier[k].seq <= Base
      /\ kept \in [written : Nat, snapshotted : Nat] /\ kept.written <= seq
      /\ files[Mine].log = earlier \o SubSeq(log, 1, Written) /\ Written \in 0..Len(log)
  <2>1. Claimed
    BY DEF Claimed
  <2>. QED
    BY <2>1, ClaimedParts
<1>2. Past("items") /\ Past("calls") /\ Past("permission") /\ DoingHolds
  BY DEF Past, RecordingInv
<1>3. /\ snap \in SnapshotType /\ ItemsHold(snap)
      /\ snap.seq \in (Base + 1)..seq
      /\ ListedIn(earlier \o SubSeq(log, 1, snap.seq - Base)) = Ids(snap.items)
      /\ \A g \in DOMAIN files \ {Mine} : \A r \in ToSet(files[g].log) : r.seq <= snap.seq
      /\ NamedIn(snap.items) \subseteq snap.used
      /\ snap.permission <= MaxAsks + 1 /\ snap.seq <= kept.written
      /\ \A r \in Records : r.seq <= snap.seq =>
           CoversItems(snap, r) /\ CoversCalls(snap, r) /\ CoversAsks(snap, r)
  BY <1>2 DEF DoingHolds
<1> HIDE DEF snap
<1>4. \A r \in Records : r.seq <= snap.seq => Covers(snap, r)
  BY <1>3 DEF Covers
<1>5. /\ snap.seq \in Nat /\ snap.seq > Base /\ snap.seq <= kept.written /\ kept.written \in Nat
      /\ Written = kept.written - Base /\ snap.seq <= Base + Written
      /\ snap.seq - Base \in 0..Written
  <2>1. snap.seq \in Nat /\ snap.seq > Base /\ snap.seq <= kept.written /\ kept.written \in Nat
    BY <1>1, <1>3
  <2>2. Written = kept.written - Base
    BY <1>1, <2>1 DEF Written
  <2>3. Base \in Nat
    BY <1>1
  <2>4. snap.seq <= Base + Written /\ snap.seq - Base \in 0..Written
    BY <2>1, <2>2, <2>3
  <2>. QED
    BY <2>1, <2>2, <2>4
<1>6. /\ said \in Seq(RecordType) /\ Len(said) = Written /\ \A k \in DOMAIN said : said[k].seq = Base + k
  <2>1. /\ said \in Seq(RecordType) /\ Len(said) = Written /\ DOMAIN said = 1..Written
        /\ \A k \in 1..Written : said[k] = log[k]
    BY <1>1, FirstPart
  <2>2. \A k \in 1..Written : k \in DOMAIN log
    BY <1>1
  <2>. HIDE DEF said
  <2>. QED
    BY <1>1, <2>1, <2>2
<1>7. SubSeq(said, 1, snap.seq - Base) = SubSeq(log, 1, snap.seq - Base)
  BY <1>1, <1>5, PartOfPart
<1> DEFINE m == Len(earlier) + (snap.seq - Base)
<1>8. /\ CutAt(f.log, m, snap.seq) /\ ListedIn(SubSeq(f.log, 1, m)) = Ids(snap.items)
  <2>1. f.log = earlier \o said
    BY <1>1
  <2>. HIDE DEF said, f
  <2>2. snap.seq \in Nat /\ Base \in Nat /\ Base <= snap.seq /\ snap.seq <= Base + Len(said)
    BY <1>1, <1>5, <1>6
  <2>3. \A k \in DOMAIN earlier : earlier[k].seq <= Base
    BY <1>1
  <2>4. /\ CutAt(earlier \o said, m, snap.seq)
        /\ SubSeq(earlier \o said, 1, m) = earlier \o SubSeq(said, 1, snap.seq - Base)
    <3>1. said \in Seq(RecordType) /\ earlier \in Seq(RecordType) /\ \A k \in DOMAIN said : said[k].seq = Base + k
      BY <1>1, <1>6
    <3>. QED
      BY <2>2, <2>3, <3>1, BehindParts
  <2>. HIDE DEF m
  <2>. QED
    BY <1>3, <1>7, <2>1, <2>4
<1> HIDE DEF m, said
<1>9. m \in 0..Len(f.log)
  BY <1>8 DEF CutAt
<1>10. /\ Records \subseteq RecordType
       /\ \A g \in DOMAIN files : ToSet(files[g].log) \subseteq Records
  BY <1>1, RecordsAll
<1>11. /\ permission \in Nat /\ permission <= MaxAsks + 1 /\ ctx.next \in Nat
       /\ ctx.next <= MaxItems + 1 /\ MaxItems \in Nat /\ MaxAsks \in Nat /\ MaxSeq \in Nat
  <2>1. KernelHolds
    BY <1>1, RunningKernel
  <2>2. permission \in Nat \ {0} /\ ctx.next \in Nat \ {0}
    BY <2>1, HeldParts
  <2>3. permission <= MaxAsks + 1 /\ ctx.next <= MaxItems + 1
    BY RoomEnough DEF RecordingInv, CountersHold, ContextHolds
  <2>. QED
    BY <2>2, <2>3, RoomEnough
<1>12. ASSUME NEW r \in ToSet(files[Mine].log)
       PROVE  /\ r.seq <= MaxSeq /\ r.asks <= MaxAsks
              /\ r.what = "added" => r.adds \subseteq 1..MaxItems
              /\ r.seq <= snap.seq => Covers(snap, r)
  <2>1. r \in Records /\ r \in RecordType
    BY <1>1, <1>10
  <2>2. /\ r.seq <= seq /\ r.asks < permission
        /\ r.what = "added" => r.adds \subseteq 1..(ctx.next - 1)
    BY <1>1, <2>1, CoveredHere
  <2>3. r.seq \in Nat /\ r.asks \in Nat
    BY <2>1 DEF RecordType
  <2>4. r.seq <= MaxSeq
    BY <1>1, <1>11, <2>2, <2>3
  <2>5. r.asks <= MaxAsks
    BY <1>11, <2>2, <2>3
  <2>6. 1..(ctx.next - 1) \subseteq 1..MaxItems
    BY <1>11
  <2>. QED
    BY <1>4, <2>1, <2>2, <2>4, <2>5, <2>6
<1>13. snap.seq \in 1..MaxSeq
  <2>1. seq \in Nat /\ kept.written <= seq /\ seq <= MaxSeq /\ MaxSeq \in Nat /\ Base \in Nat
    BY <1>1, <1>11
  <2>. QED
    BY <1>5, <2>1
<1>14. f.log = files[Mine].log /\ f.state = snap
  OBVIOUS
<1> HIDE DEF f
<1>15. FileHolds(f)
  BY <1>3, <1>8, <1>9, <1>12, <1>13, <1>14 DEF FileHolds
<1>16. \A g \in DOMAIN files \ {Mine} : \A r \in ToSet(files[g].log) : r.seq <= snap.seq /\ Covers(snap, r)
  BY <1>3, <1>4, <1>10
<1>17. snap.seq \in (Base + 1)..kept.written
  BY <1>1, <1>5
<1>. QED
  BY <1>3, <1>15, <1>16, <1>17 DEF f, snap

\* The snapshot is renamed into place, and the run is the last that can be carried on.
LEMMA WriteStateStep ==
  ASSUME RecordingInv, WriteState
  PROVE  RecordingInv'
<1> DEFINE snap == doing.snap
           f == [log |-> files[Mine].log, state |-> snap]
<1>1. /\ doing.at = "state" /\ doing' = Idle /\ process' = "running" /\ earlier' = earlier
      /\ ctx' = ctx /\ seen' = seen /\ permission' = permission /\ log' = log /\ seq' = seq
      /\ turn' = turn
      /\ IF kept.snapshotted = doing.snap.seq
         THEN UNCHANGED <<files, kept>>
         ELSE /\ files' = [files EXCEPT ![Len(files)].state = doing.snap]
              /\ kept' = [kept EXCEPT !.snapshotted = doing.snap.seq]
  BY DEF WriteState, session
<1>2. Claimed
  BY <1>1 DEF Claimed
<1>3. /\ process # "down" /\ files # <<>> /\ files \in Seq(FileType) /\ Mine \in DOMAIN files
      /\ log # <<>> /\ seq \in Nat /\ Base \in Nat
      /\ kept \in [written : Nat, snapshotted : Nat] /\ kept.written <= seq
      /\ files[Mine].log = earlier \o SubSeq(log, 1, Written)
  BY <1>2, ClaimedParts
<1>4. /\ snap \in SnapshotType /\ snap.seq \in (Base + 1)..kept.written /\ FileHolds(f)
      /\ \A g \in DOMAIN files \ {Mine} : \A r \in ToSet(files[g].log) :
           r.seq <= snap.seq /\ Covers(snap, r)
  BY <1>1, TakenHolds
<1>5. snap.seq \in Nat /\ snap.seq > 0
  BY <1>3, <1>4
<1>6. KeptHolds /\ FilesHold
  BY DEF RecordingInv
<1>7. ContextHolds' /\ TurnHolds' /\ LogHolds' /\ CountersHold' /\ Base' = Base
  BY <1>1 DEF RecordingInv, ContextHolds, Loading, TurnHolds, LogHolds, Base, CountersHold
<1>8. DoingHolds' /\ WiredHolds' /\ process' \in {"down", "wired", "running"}
  BY <1>1 DEF DoingHolds, Past, Idle, WiredHolds
<1> HIDE DEF snap
<1>9. CASE kept.snapshotted = snap.seq
  <2>1. files' = files /\ kept' = kept
    BY <1>1, <1>9 DEF snap
  <2>2. Records' = Records
    BY <1>1, <2>1 DEF Records
  <2>3. CountersCover' /\ TurnUnused' /\ NumberedOnce'
    BY <1>1, <1>3, <2>2 DEF RecordingInv, CountersCover, TurnUnused, NumberedOnce, Here
  <2>4. FilesHold' /\ Resumable' = Resumable /\ Mine' = Mine
    BY <1>6, <2>1, FilesAlone DEF Resumable, Mine
  <2>5. Mine \in Resumable
    BY <1>2, <1>5, <1>6, <1>9 DEF KeptHolds
  <2>6. /\ files[Mine].state.seq \in (Base + 1)..kept.written
        /\ kept.snapshotted = files[Mine].state.seq
    BY <1>2, <1>6, <2>5 DEF KeptHolds
  <2>7. Written' = Written
    BY <1>7, <2>1 DEF Written
  <2>8. KeptHolds'
    BY <1>1, <1>3, <1>7, <2>1, <2>4, <2>5, <2>6, <2>7 DEF KeptHolds
  <2>. QED
    BY <1>7, <1>8, <2>3, <2>4, <2>8 DEF RecordingInv
<1>10. CASE kept.snapshotted # snap.seq
  <2>1. files' = [files EXCEPT ![Mine].state = snap] /\ kept' = [kept EXCEPT !.snapshotted = snap.seq]
    BY <1>1, <1>10 DEF snap, Mine
  <2>2. files[Mine] \in FileType
    BY <1>3
  <2>3. [files[Mine] EXCEPT !.state = snap] = f /\ f \in FileType
    BY <1>4, <2>2 DEF FileType
  <2>4. f.log = files[Mine].log /\ f.state = snap
    OBVIOUS
  <2>. HIDE DEF f
  <2>5. /\ files' = [files EXCEPT ![Mine] = f]
    BY <2>1, <2>3
  <2>6. /\ files' \in Seq(FileType) /\ Len(files') = Len(files) /\ DOMAIN files' = DOMAIN files
        /\ (\A g \in DOMAIN files : g # Mine => files'[g] = files[g]) /\ files'[Mine] = f
    BY <1>3, <2>3, <2>5
  <2>7. Mine' = Mine /\ Mine = Len(files) /\ Len(files) \in Nat
    BY <1>3, <2>6 DEF Mine
  <2>8. snap # None
    <3>1. None.seq = 0
      BY DEF None
    <3>. QED
      BY <1>5, <3>1
  <2>9. Mine \in Resumable' /\ Resumable' \subseteq Resumable \cup {Mine} /\ Resumable \subseteq DOMAIN files
    BY <1>3, <2>4, <2>6, <2>8 DEF Resumable
  <2>10. Max(Resumable') = Mine
    <3>1. Resumable' \in SUBSET Nat /\ \A x \in Resumable' : x <= Mine
      <4>1. Resumable' \subseteq 1..Len(files)
        BY <1>3, <2>9
      <4>. QED
        BY <2>7, <4>1
    <3>2. Mine \in Nat /\ Resumable' # {}
      BY <2>7, <2>9
    <3> DEFINE S == Resumable'
    <3>. HIDE DEF S
    <3>3. S \in SUBSET Nat /\ (\A x \in S : x <= Mine) /\ S # {} /\ Mine \in S
      BY <2>9, <3>1, <3>2 DEF S
    <3>4. Max(S) \in S /\ \A x \in S : x <= Max(S)
      BY <3>2, <3>3, MaxOfBounded
    <3>5. Max(S) \in Nat /\ Max(S) <= Mine /\ Mine <= Max(S)
      BY <3>3, <3>4
    <3>6. Max(S) = Mine
      BY <3>2, <3>5
    <3>. QED
      BY <3>6 DEF S
  <2>11. Newest' = f /\ Resumable' # {}
    BY <2>6, <2>9, <2>10 DEF Newest
  <2>12. \A g \in DOMAIN files : files'[g].log = files[g].log
    BY <2>4, <2>6
  <2>13. Records' = Records
    BY <1>1, <2>6, <2>12 DEF Records
  <2>14. CountersCover' /\ TurnUnused' /\ NumberedOnce'
    BY <1>1, <1>3, <2>13 DEF RecordingInv, CountersCover, TurnUnused, NumberedOnce, Here
  <2>15. \A g \in Resumable' : FileHolds(files'[g])
    <3>1. \A g \in Resumable' : g = Mine \/ (g \in Resumable /\ g \in DOMAIN files)
      BY <2>9
    <3>. QED
      BY <1>4, <1>6, <2>6, <3>1 DEF FilesHold
  <2>16. \A g \in DOMAIN files' : \A r \in ToSet(files'[g].log) :
           g = Max(Resumable') \/ (r.seq <= Newest'.state.seq /\ Covers(Newest'.state, r))
    BY <1>4, <2>4, <2>6, <2>10, <2>11
  <2>17. FilesHold'
    BY <2>6, <2>11, <2>15, <2>16 DEF FilesHold
  <2>18. kept' \in [written : Nat, snapshotted : Nat] /\ kept'.written = kept.written /\ kept'.snapshotted = snap.seq
    BY <1>3, <1>5, <2>1
  <2>19. Written' = Written
    BY <1>7, <2>18 DEF Written
  <2>20. files'[Mine'].log = earlier' \o SubSeq(log', 1, Written')
    BY <1>1, <1>3, <2>7, <2>12, <2>19
  <2>21. files'[Mine'].state.seq \in (Base' + 1)..kept'.written /\ kept'.snapshotted = files'[Mine'].state.seq
    BY <1>4, <1>7, <2>4, <2>6, <2>7, <2>18
  <2>22. files' # <<>> /\ log' # <<>> /\ kept'.written <= seq'
    <3>1. Len(files') # 0
      BY <1>3, <2>6
    <3>. QED
      BY <1>1, <1>3, <2>18, <3>1
  <2>23. KeptHolds'
    BY <1>1, <2>7, <2>9, <2>18, <2>20, <2>21, <2>22 DEF KeptHolds
  <2>. QED
    BY <1>7, <1>8, <2>14, <2>17, <2>23 DEF RecordingInv
<1>. QED
  BY <1>9, <1>10

\* The process dies, with as much of its log written as there was time for.
LEMMA CrashStep ==
  ASSUME RecordingInv, Crash
  PROVE  RecordingInv'
<1>1. /\ process # "down" /\ ctx' = NewContext /\ seen' = {} /\ permission' = 1
      /\ log' = <<>> /\ seq' = 0 /\ turn' = NoTurn
      /\ process' = "down" /\ earlier' = <<>> /\ kept' = NothingKept /\ doing' = Idle
      /\ \/ files' = files
         \/ /\ process = "running" \/ doing # Idle
            /\ \E n \in kept.written..seq : files' = WrittenTo(n)
  BY DEF Crash
<1>2. FilesHold /\ KeptHolds /\ DoingHolds /\ NumberedOnce /\ log \in Seq(RecordType) /\ files \in Seq(FileType)
  BY DEF RecordingInv, FilesHold, LogHolds
<1>3. FilesHold' /\ Records' \subseteq Records
  <2>1. CASE files' = files
    BY <1>1, <1>2, <2>1, FilesAlone DEF Records, ToSet
  <2>2. ASSUME Claimed, NEW n \in kept.written..seq, files' = WrittenTo(n)
        PROVE  FilesHold' /\ Records' \subseteq Records
    <3>1. FilesHold'
      BY <2>2, WrittenFiles
    <3>2. /\ DOMAIN files' = DOMAIN files
          /\ \A g \in DOMAIN files : g # Mine => files'[g] = files[g]
          /\ ToSet(files'[Mine].log) = ToSet(files[Mine].log) \cup ToSet(SubSeq(log, 1, UpTo(n)))
          /\ ToSet(SubSeq(log, 1, UpTo(n))) \subseteq ToSet(log)
      BY <2>2, WrittenParts
    <3>3. /\ ToSet(log) \subseteq Records
          /\ \A g \in DOMAIN files : ToSet(files[g].log) \subseteq Records
      BY <1>2, RecordsAll
    <3>4. \A g \in DOMAIN files' : ToSet(files'[g].log) \subseteq Records
      BY <3>2, <3>3
    <3>5. ToSet(log') = {}
      BY <1>1 DEF ToSet
    <3>6. Records' = ToSet(log') \cup UNION {ToSet(files'[g].log) : g \in DOMAIN files'}
      BY DEF Records
    <3>. QED
      BY <3>1, <3>4, <3>5, <3>6
  <2>3. CASE process = "running"
    BY <1>1, <2>1, <2>2, <2>3 DEF Claimed
  <2>4. CASE process # "running"
    <3>1. doing.at # "idle" => Claimed
      BY DEF Claimed
    <3>2. CASE files' = files
      BY <2>1, <3>2
    <3>3. CASE files' # files
      <4>1. doing # Idle /\ \E n \in kept.written..seq : files' = WrittenTo(n)
        BY <1>1, <2>4, <3>3
      <4>2. doing.at # "idle"
        BY <1>2, <4>1 DEF DoingHolds
      <4>. QED
        BY <2>2, <3>1, <4>1, <4>2
    <3>. QED
      BY <3>2, <3>3
  <2>. QED
    BY <2>3, <2>4
<1>4. ContextHolds' /\ TurnHolds' /\ TurnUnused' /\ CountersHold'
  BY <1>1, NewKernel
<1>5. LogHolds'
  <2>1. <<>> \in Seq(RecordType) /\ DOMAIN <<>> = {} /\ Len(<<>>) = 0 /\ <<>> \o <<>> = <<>>
    OBVIOUS
  <2>2. ListedIn(<<>>) = {}
    BY <2>1 DEF ListedIn
  <2>3. ListedIn(earlier' \o log') = Ids(ctx'.items)
    BY <1>1, <2>1, <2>2, NewContextHolds
  <2>. QED
    BY <1>1, <2>1, <2>3, RoomEnough DEF LogHolds
<1>6. WiredHolds' /\ CountersCover'
  BY <1>1 DEF WiredHolds, CountersCover
<1>7. KeptHolds'
  BY <1>1 DEF KeptHolds, NothingKept, Claimed, Idle
<1>8. DoingHolds'
  BY <1>1 DEF DoingHolds, Past, Idle
<1>9. NumberedOnce'
  BY <1>2, <1>3 DEF NumberedOnce
<1>. QED
  BY <1>1, <1>3, <1>4, <1>5, <1>6, <1>7, <1>8, <1>9 DEF RecordingInv

\* Before anything was started.
LEMMA BeforeAnything == Init => RecordingInv
<1> SUFFICES ASSUME Init PROVE RecordingInv
  OBVIOUS
<1>1. /\ ctx = NewContext /\ seen = {} /\ permission = 1
      /\ log = <<>> /\ seq = 0 /\ turn = NoTurn
      /\ process = "down" /\ files = <<>> /\ earlier = <<>>
      /\ kept = NothingKept /\ doing = Idle
  BY DEF Init
<1>2. TurnHolds /\ TurnUnused /\ Loading = {}
  <2>1. 0 <= ctx.taken
    BY <1>1, NewContextHolds
  <2>2. /\ turn \in Turns /\ turn.at = "resting" /\ turn.calls = <<>> /\ turn.batch = 0
    BY <1>1, NoTurnIs
  <2>3. Distinct(turn.calls) /\ ToSet(turn.calls) = {}
    BY <2>2 DEF Distinct, ToSet
  <2>. QED
    BY <2>1, <2>2, <2>3 DEF TurnHolds, TurnUnused, Loading
<1>3. ContextHolds
  BY <1>1, NewContextHolds DEF ContextHolds
<1>4. CountersHold
  BY <1>1, RoomEnough DEF CountersHold
<1>5. LogHolds
  <2>1. <<>> \in Seq(RecordType) /\ DOMAIN <<>> = {} /\ Len(<<>>) = 0 /\ <<>> \o <<>> = <<>>
    OBVIOUS
  <2>2. ListedIn(<<>>) = {}
    BY <2>1 DEF ListedIn
  <2>3. ListedIn(earlier \o log) = Ids(ctx.items)
    BY <1>1, <2>1, <2>2, NewContextHolds
  <2>. QED
    BY <1>1, <2>1, <2>3, RoomEnough DEF LogHolds
<1>6. FilesHold /\ Records = {}
  BY <1>1 DEF FilesHold, Resumable, Records, ToSet
<1>7. WiredHolds /\ CountersCover /\ KeptHolds /\ DoingHolds
  BY <1>1 DEF WiredHolds, CountersCover, KeptHolds, NothingKept, Claimed, Idle, DoingHolds, Past
<1>8. NumberedOnce
  BY <1>6 DEF NumberedOnce
<1>. QED
  BY <1>1, <1>2, <1>3, <1>4, <1>5, <1>6, <1>7, <1>8 DEF RecordingInv

\* A step that changes nothing.
LEMMA NothingDone ==
  ASSUME RecordingInv, UNCHANGED vars
  PROVE  RecordingInv'
<1>1. /\ process' = process /\ files' = files /\ earlier' = earlier /\ kept' = kept
      /\ doing' = doing /\ ctx' = ctx /\ seen' = seen /\ permission' = permission
      /\ log' = log /\ seq' = seq /\ turn' = turn
  BY DEF vars, session
<1>2. ContextHolds' /\ TurnHolds' /\ LogHolds' /\ CountersHold'
  BY <1>1 DEF RecordingInv, ContextHolds, Loading, TurnHolds, LogHolds, Base, CountersHold
<1>3. Records' = Records /\ FilesHold'
  BY <1>1, FilesAlone DEF Records, RecordingInv
<1>4. CountersCover' /\ TurnUnused' /\ NumberedOnce'
  BY <1>1, <1>3 DEF RecordingInv, CountersCover, TurnUnused, NumberedOnce, Here
<1>5. Opening' = Opening /\ Newest' = Newest /\ Resumable' = Resumable /\ Mine' = Mine
  BY <1>1 DEF Opening, Carried, Newest, Resumable, Mine
<1>6. Written' = Written /\ Base' = Base /\ Claimed' = Claimed
  BY <1>1 DEF Written, Base, Claimed
<1>7. WiredHolds'
  BY <1>1, <1>5, <1>6 DEF RecordingInv, WiredHolds
<1>8. KeptHolds'
  BY <1>1, <1>5, <1>6 DEF RecordingInv, KeptHolds
<1>9. DoingHolds'
  <2>1. /\ Past("items")' = Past("items") /\ Past("calls")' = Past("calls")
        /\ Past("permission")' = Past("permission")
    BY <1>1 DEF Past
  <2>. QED
    BY <1>1, <1>3, <1>5, <1>6, <2>1 DEF RecordingInv, DoingHolds
<1>10. process' \in {"down", "wired", "running"}
  BY <1>1 DEF RecordingInv
<1>. QED
  BY <1>2, <1>3, <1>4, <1>7, <1>8, <1>9, <1>10 DEF RecordingInv

\* Every step of the process or of its recorder keeps what holds.
LEMMA RecordingKept == RecordingInv /\ [Next]_vars => RecordingInv'
<1> SUFFICES ASSUME RecordingInv, [Next]_vars PROVE RecordingInv'
  OBVIOUS
<1>1. CASE Launch
  BY <1>1, LaunchStep
<1>2. CASE LaunchResumed
  BY <1>2, LaunchResumedStep
<1>3. CASE ClaimRecord
  BY <1>3, ClaimStep
<1>4. CASE CheckpointStart
  BY <1>4, CheckpointStartStep
<1>5. CASE SnapshotItems
  BY <1>5, SnapshotItemsStep
<1>6. CASE SnapshotCalls
  BY <1>6, SnapshotCallsStep
<1>7. CASE SnapshotPermission
  BY <1>7, SnapshotPermissionStep
<1>8. CASE WriteLog
  BY <1>8, WriteLogStep
<1>9. CASE WriteState
  BY <1>9, WriteStateStep
<1>10. CASE Crash
  BY <1>10, CrashStep
<1>11. CASE process = "running" /\ KernelNext /\ UNCHANGED recorder
  BY <1>11, KernelStep
<1>12. CASE UNCHANGED vars
  BY <1>12, NothingDone
<1>. QED
  BY <1>1, <1>2, <1>3, <1>4, <1>5, <1>6, <1>7, <1>8, <1>9, <1>10, <1>11, <1>12 DEF Next

\* The invariant of a recorded session: the context, its turn and its log agree, every record
\* is behind the kernel's counters, the last snapshot numbers past what the runs before wrote,
\* and each snapshot shows what its log lists.
THEOREM RecordingInvariant == Spec => []RecordingInv
<1>1. Init => RecordingInv
  BY BeforeAnything
<1>2. RecordingInv /\ [Next]_vars => RecordingInv'
  BY RecordingKept
<1>. QED
  BY <1>1, <1>2, PTL DEF Spec

\* "nothing they numbered is numbered again" (kernel/mod.rs, of the records past a snapshot):
\* whatever runs of a session wrote, crashes in between wherever they fell, a number is one
\* record, an identifier one item, a call one answer's and a permission one question.
THEOREM NumbersUsedOnce == Spec => []NumberedOnce
<1>1. RecordingInv => NumberedOnce
  BY DEF RecordingInv
<1>. QED
  BY <1>1, RecordingInvariant, PTL

---------------------------------------------------------------------------
(* What a run that is carried on makes of a snapshot.                      *)

\* A part of a finite set that is not all of it is smaller.
LEMMA StrictPart ==
  ASSUME NEW S, IsFiniteSet(S), NEW T \in SUBSET S, NEW x \in S, x \notin T
  PROVE  /\ IsFiniteSet(T) /\ Cardinality(T) \in Nat /\ Cardinality(S) \in Nat
         /\ Cardinality(T) < Cardinality(S)
<1>1. IsFiniteSet(T) /\ Cardinality(T) <= Cardinality(S) /\ Cardinality(T) # Cardinality(S)
  BY FS_Subset
<1>2. Cardinality(T) \in Nat /\ Cardinality(S) \in Nat
  BY <1>1, FS_CardinalityType
<1>. QED
  BY <1>1, <1>2

\* A list put in order of identifiers is made of the same items, and in strict order when no two
\* have the same.
LEMMA SortedOut ==
  ASSUME NEW items \in Seq(Item)
  PROVE  /\ ById(items) \in Seq(Item) /\ DOMAIN ById(items) = DOMAIN items
         /\ \A k \in DOMAIN items : \E j \in DOMAIN items : ById(items)[k] = items[j]
         /\ (\A j, k \in DOMAIN items : items[j].id = items[k].id => j = k) => Sorted(ById(items))
<1> DEFINE n == Len(items)
           Before(j, k) == items[j].id < items[k].id \/ (items[j].id = items[k].id /\ j < k)
           before == {pair \in (DOMAIN items) \X (DOMAIN items) : Before(pair[1], pair[2])}
           order == InOrder(1..n, before)
           sorted == [k \in DOMAIN items |-> items[order[k]]]
<1>1. n \in Nat /\ DOMAIN items = 1..n
  OBVIOUS
<1>2. \A k \in 1..n : items[k] \in Item /\ items[k].id \in Nat
  <2>1. \A k \in 1..n : items[k] \in Item
    BY <1>1
  <2>. QED
    BY <2>1 DEF Item
<1>3. ASSUME NEW j \in 1..n, NEW k \in 1..n PROVE <<j, k>> \in before <=> Before(j, k)
  BY <1>1
<1>4. ById(items) = sorted
  BY <1>1 DEF ById
<1>5. IsFiniteSet(1..n) /\ Cardinality(1..n) = n
  BY <1>1, FS_Interval
<1>6. \A x \in 1..n : <<x, x>> \notin before
  BY <1>1, <1>2, <1>3
<1>7. \A x, y \in 1..n : x # y => <<x, y>> \in before \/ <<y, x>> \in before
  <2> TAKE x, y \in 1..n
  <2>1. x # y => Before(x, y) \/ Before(y, x)
    BY <1>1, <1>2
  <2>. QED
    BY <1>3, <2>1
<1>8. \A x, y, z \in 1..n : <<x, y>> \in before /\ <<y, z>> \in before => <<x, z>> \in before
  <2> TAKE x, y, z \in 1..n
  <2>1. Before(x, y) /\ Before(y, z) => Before(x, z)
    BY <1>1, <1>2
  <2>. QED
    BY <1>3, <2>1
<1> HIDE DEF before, sorted, n
<1>9. /\ order \in [1..n -> 1..n] /\ DOMAIN order = 1..n
      /\ \A j, k \in 1..n : j < k => <<order[j], order[k]>> \in before
  BY <1>5, <1>6, <1>7, <1>8, InOrderLists
<1> HIDE DEF order
<1>10. \A k \in 1..n : order[k] \in 1..n
  BY <1>9
<1>11. DOMAIN sorted = 1..n /\ \A k \in 1..n : sorted[k] = items[order[k]]
  BY <1>1 DEF sorted
<1>12. sorted \in Seq(Item)
  <2>1. sorted \in [1..n -> Item]
    BY <1>1, <1>2, <1>10 DEF sorted
  <2>. QED
    BY <1>1, <2>1
<1>13. ASSUME \A j, k \in DOMAIN items : items[j].id = items[k].id => j = k
       PROVE  Sorted(sorted)
  <2>1. ASSUME NEW j \in 1..n, NEW k \in 1..n, j < k PROVE sorted[j].id < sorted[k].id
    <3>1. <<order[j], order[k]>> \in before /\ order[j] \in 1..n /\ order[k] \in 1..n
      BY <1>9, <1>10, <2>1
    <3>2. Before(order[j], order[k])
      BY <1>3, <3>1
    <3>3. items[order[j]].id = items[order[k]].id => order[j] = order[k]
      BY <1>1, <1>13, <3>1
    <3>4. order[j] \in Nat
      BY <1>1, <3>1
    <3>5. ~(order[j] < order[j])
      BY <3>4
    <3>6. items[order[j]].id < items[order[k]].id
      BY <3>2, <3>3, <3>5
    <3>. QED
      BY <1>11, <3>6
  <2>. QED
    BY <1>11, <2>1 DEF Sorted
<1>. QED
  BY <1>1, <1>4, <1>10, <1>11, <1>12, <1>13

\* What is renumbered of a list, and with which numbers.
Displaced(items) ==
  {k \in DOMAIN items : items[k].id = 0 \/ \E j \in 1..(k - 1) : items[j].id = items[k].id}
Replaced(items, free, k) ==
  IF k \in Displaced(items)
  THEN SatAdd(free, Cardinality({j \in Displaced(items) : j < k}))
  ELSE items[k].id

\* The steps of a restoration: in order, renumbered from the first free number, in order again.
Restoring(items, next, counter, sorted, placed, free) ==
  /\ DOMAIN sorted = DOMAIN items /\ DOMAIN placed = DOMAIN items
  /\ \A k \in DOMAIN items : \E j \in DOMAIN items : sorted[k] = items[j]
  /\ \A k \in DOMAIN items : SatInc(sorted[k].id) <= free
  /\ free \in {next, 1} \/ \E k \in DOMAIN items : free = SatInc(sorted[k].id)
  /\ \A k \in DOMAIN items : /\ placed[k].id = Replaced(sorted, free, k)
                             /\ placed[k].calls = sorted[k].calls
                             /\ placed[k].answers = sorted[k].answers
  /\ Restored(items, next, counter).items = ById(placed)
  /\ Restored(items, next, counter).next = SatAdd(free, Cardinality(Displaced(sorted)))

\* Every restoration takes them.
LEMMA RestoredParts ==
  ASSUME NEW items \in Seq(Item), NEW next \in Nat, NEW counter \in Counters
  PROVE  \E sorted, placed \in Seq(Item) : \E free \in Nat \ {0} :
           Restoring(items, next, counter, sorted, placed, free)
<1> DEFINE sorted == ById(items)
           frees == {next, 1} \cup {SatInc(sorted[k].id) : k \in DOMAIN sorted}
           free == Max(frees)
           placed == [k \in DOMAIN sorted |->
                        [sorted[k] EXCEPT !.id = Replaced(sorted, free, k), !.priced = counter]]
<1>1. /\ sorted \in Seq(Item) /\ DOMAIN sorted = DOMAIN items
      /\ \A k \in DOMAIN items : \E j \in DOMAIN items : sorted[k] = items[j]
  BY SortedOut
<1>2. /\ Restored(items, next, counter).items = ById(placed)
      /\ Restored(items, next, counter).next = SatAdd(free, Cardinality(Displaced(sorted)))
  BY DEF Restored, Displaced, Replaced, NewContext
<1> HIDE DEF sorted
<1>3. \A k \in DOMAIN items : sorted[k] \in Item /\ sorted[k].id \in Nat
  <2>1. \A k \in DOMAIN items : sorted[k] \in Item
    BY <1>1
  <2>. QED
    BY <2>1 DEF Item
<1>4. /\ frees \in SUBSET Nat /\ (\A x \in frees : x <= next + TopId) /\ next + TopId \in Nat
      /\ next \in frees /\ 1 \in frees /\ frees # {}
  <2>1. TopId \in Nat /\ TopId >= 1
    BY TopAssumption
  <2>2. \A k \in DOMAIN sorted : SatInc(sorted[k].id) \in Nat /\ SatInc(sorted[k].id) <= TopId
    BY <1>1, <1>3, <2>1 DEF SatInc
  <2>3. \A k \in DOMAIN sorted : SatInc(sorted[k].id) <= next + TopId
    BY <2>1, <2>2
  <2>. QED
    BY <2>1, <2>2, <2>3
<1>5. \A k \in DOMAIN items : SatInc(sorted[k].id) \in frees
  BY <1>1
<1>6. free \in frees /\ \A x \in frees : x <= free
  <2>. HIDE DEF frees
  <2>. QED
    BY <1>4, MaxOfBounded
<1>7. free \in {next, 1} \/ \E k \in DOMAIN items : free = SatInc(sorted[k].id)
  BY <1>1, <1>6
<1> HIDE DEF frees
<1>8. free \in Nat /\ 1 <= free /\ next <= free
  BY <1>4, <1>6
<1> HIDE DEF free
<1>9. \A k \in DOMAIN items : Replaced(sorted, free, k) \in Nat
  <2>1. DOMAIN sorted = 1..Len(sorted) /\ Len(sorted) \in Nat
    BY <1>1
  <2>2. \A k \in DOMAIN items : IsFiniteSet({j \in Displaced(sorted) : j < k})
    <3>1. IsFiniteSet(1..Len(sorted))
      BY <2>1, FS_Interval
    <3>2. \A k : {j \in Displaced(sorted) : j < k} \in SUBSET (1..Len(sorted))
      BY <2>1 DEF Displaced
    <3>. QED
      BY <3>1, <3>2, FS_Subset
  <2>3. \A k \in DOMAIN items : Cardinality({j \in Displaced(sorted) : j < k}) \in Nat
    BY <2>2, FS_CardinalityType
  <2>4. TopId \in Nat
    BY TopAssumption
  <2>. QED
    BY <1>3, <1>8, <2>3, <2>4 DEF Replaced, SatAdd
<1>10. \A k \in DOMAIN items :
         /\ placed[k] \in Item /\ placed[k].id = Replaced(sorted, free, k)
         /\ placed[k].calls = sorted[k].calls /\ placed[k].answers = sorted[k].answers
  <2> TAKE k \in DOMAIN items
  <2>1. sorted[k] \in Item /\ Replaced(sorted, free, k) \in Nat
    BY <1>3, <1>9
  <2>2. placed[k] = [sorted[k] EXCEPT !.id = Replaced(sorted, free, k), !.priced = counter]
    BY <1>1
  <2>. HIDE DEF placed
  <2>. QED
    BY <2>1, <2>2 DEF Item
<1>11. placed \in Seq(Item) /\ DOMAIN placed = DOMAIN items
  <2>1. placed = [k \in DOMAIN sorted |-> placed[k]]
    OBVIOUS
  <2>2. DOMAIN placed = DOMAIN items
    BY <1>1
  <2>. HIDE DEF placed
  <2>3. \A k \in DOMAIN sorted : placed[k] \in Item
    BY <1>1, <1>10
  <2>. QED
    BY <1>1, <2>1, <2>2, <2>3, MadeFrom
<1> HIDE DEF placed
<1>12. Restoring(items, next, counter, sorted, placed, free)
  BY <1>1, <1>2, <1>5, <1>6, <1>7, <1>10, <1>11 DEF Restoring
<1>13. free \in Nat \ {0}
  BY <1>8
<1>. QED
  BY <1>1, <1>11, <1>12, <1>13

\* No restoration names a call that the list did not.
LEMMA RestoredNames ==
  ASSUME NEW items \in Seq(Item), NEW next \in Nat, NEW counter \in Counters
  PROVE  NamedIn(Restored(items, next, counter).items) \subseteq NamedIn(items)
<1>0. PICK sorted, placed \in Seq(Item) : \E free \in Nat \ {0} :
        Restoring(items, next, counter, sorted, placed, free)
  BY RestoredParts
<1>p. PICK free \in Nat \ {0} : Restoring(items, next, counter, sorted, placed, free)
  BY <1>0
<1>1. /\ DOMAIN sorted = DOMAIN items /\ DOMAIN placed = DOMAIN items
      /\ \A k \in DOMAIN items : \E j \in DOMAIN items : sorted[k] = items[j]
      /\ \A k \in DOMAIN items : placed[k].calls = sorted[k].calls /\ placed[k].answers = sorted[k].answers
      /\ Restored(items, next, counter).items = ById(placed)
  BY <1>p DEF Restoring
<1>2. /\ DOMAIN ById(placed) = DOMAIN placed
      /\ \A k \in DOMAIN placed : \E j \in DOMAIN placed : ById(placed)[k] = placed[j]
  BY SortedOut
<1>3. \A k \in DOMAIN items : \E j \in DOMAIN items : Named(placed[k]) = Named(items[j])
  BY <1>1, ZenonT(60) DEF Named
<1>4. \A k \in DOMAIN ById(placed) : \E j \in DOMAIN items : Named(ById(placed)[k]) = Named(items[j])
  BY <1>1, <1>2, <1>3
<1>. QED
  BY <1>1, <1>4 DEF NamedIn

\* A list with room left is restored in strict order, every number below the next.
LEMMA RestoredApart ==
  ASSUME NEW items \in Seq(Item), NEW next \in Nat, NEW counter \in Counters,
         next <= ROOM, Len(items) <= MaxItems, \A k \in DOMAIN items : items[k].id <= ROOM
  PROVE  VersionOK(Restored(items, next, counter).items, Restored(items, next, counter).next)
<1>0. PICK sorted, placed \in Seq(Item) : \E free \in Nat \ {0} :
        Restoring(items, next, counter, sorted, placed, free)
  BY RestoredParts
<1>p. PICK free \in Nat \ {0} : Restoring(items, next, counter, sorted, placed, free)
  BY <1>0
<1>1. /\ DOMAIN sorted = DOMAIN items /\ DOMAIN placed = DOMAIN items
      /\ \A k \in DOMAIN items : \E j \in DOMAIN items : sorted[k] = items[j]
      /\ \A k \in DOMAIN items : SatInc(sorted[k].id) <= free
      /\ free \in {next, 1} \/ \E k \in DOMAIN items : free = SatInc(sorted[k].id)
      /\ \A k \in DOMAIN items : placed[k].id = Replaced(sorted, free, k)
      /\ Restored(items, next, counter).items = ById(placed)
      /\ Restored(items, next, counter).next = SatAdd(free, Cardinality(Displaced(sorted)))
  BY <1>p DEF Restoring
<1> DEFINE n == Len(items)
           moved == Displaced(sorted)
           sooner(k) == {j \in moved : j < k}
<1>2. n \in Nat /\ DOMAIN items = 1..n /\ n <= MaxItems
  OBVIOUS
<1> HIDE DEF n
<1>3. \A k \in 1..n : sorted[k] \in Item /\ sorted[k].id \in Nat /\ sorted[k].id <= ROOM
  <2>1. \A k \in 1..n : sorted[k] \in Item
    BY <1>1, <1>2
  <2>2. \A k \in 1..n : sorted[k].id <= ROOM
    BY <1>1, <1>2
  <2>. QED
    BY <2>1, <2>2 DEF Item
<1>4. \A k \in 1..n : SatInc(sorted[k].id) = sorted[k].id + 1
  BY <1>3, RoomEnough DEF SatInc
<1>5. free \in Nat /\ 1 <= free /\ free <= ROOM + 1 /\ \A k \in 1..n : sorted[k].id + 1 <= free
  <2>1. free \in Nat /\ 1 <= free
    OBVIOUS
  <2>2. \A k \in 1..n : sorted[k].id + 1 <= free
    BY <1>1, <1>2, <1>4
  <2>3. free <= ROOM + 1
    <3>1. CASE free \in {next, 1}
      BY <3>1, RoomEnough
    <3>2. CASE \E k \in 1..n : free = sorted[k].id + 1
      BY <3>2, <1>3, RoomEnough
    <3>. QED
      BY <1>1, <1>2, <1>4, <3>1, <3>2
  <2>. QED
    BY <2>1, <2>2, <2>3
<1>6. moved \subseteq 1..n /\ IsFiniteSet(moved) /\ Cardinality(moved) \in 0..n
  <2>1. moved \in SUBSET (1..n)
    BY <1>1, <1>2 DEF Displaced
  <2>2. IsFiniteSet(1..n) /\ Cardinality(1..n) = n
    BY <1>2, FS_Interval
  <2>. HIDE DEF moved
  <2>3. IsFiniteSet(moved) /\ Cardinality(moved) <= n
    BY <2>1, <2>2, FS_Subset
  <2>4. Cardinality(moved) \in Nat
    BY <2>3, FS_CardinalityType
  <2>. QED
    BY <1>2, <2>1, <2>3, <2>4
<1>7. \A m \in 0..n : SatAdd(free, m) = free + m
  <2>1. free + n <= TopId
    BY <1>2, <1>5, RoomEnough
  <2>. QED
    BY <1>2, <1>5, <2>1, RoomEnough DEF SatAdd
<1>8. \A k \in moved : Cardinality(sooner(k)) \in Nat /\ Cardinality(sooner(k)) < Cardinality(moved)
  <2> TAKE k \in moved
  <2>1. sooner(k) \in SUBSET moved /\ k \notin sooner(k)
    BY <1>2, <1>6
  <2>. HIDE DEF sooner, moved
  <2>. QED
    BY <1>6, <2>1, StrictPart
<1>9. \A j, k \in moved : j < k => Cardinality(sooner(j)) < Cardinality(sooner(k))
  <2> TAKE j, k \in moved
  <2>1. ASSUME j < k PROVE Cardinality(sooner(j)) < Cardinality(sooner(k))
    <3>1. j \in Nat /\ k \in Nat /\ \A i \in moved : i \in Nat
      BY <1>2, <1>6
    <3>2. sooner(j) \in SUBSET sooner(k) /\ j \in sooner(k) /\ j \notin sooner(j)
      <4>. HIDE DEF moved
      <4>1. \A i \in moved : i < j => i < k
        BY <2>1, <3>1
      <4>2. ~(j < j)
        BY <3>1
      <4>. QED
        BY <2>1, <4>1, <4>2
    <3>3. IsFiniteSet(sooner(k))
      <4>1. sooner(k) \in SUBSET moved
        OBVIOUS
      <4>. HIDE DEF sooner, moved
      <4>. QED
        BY <1>6, <4>1, FS_Subset
    <3>. HIDE DEF sooner, moved
    <3>. QED
      BY <3>2, <3>3, StrictPart
  <2>. QED
    BY <2>1
<1>10. \A k \in moved : placed[k].id = free + Cardinality(sooner(k))
  <2> TAKE k \in moved
  <2>1. Cardinality(sooner(k)) \in 0..n
    BY <1>2, <1>6, <1>8
  <2>2. placed[k].id = SatAdd(free, Cardinality(sooner(k)))
    BY <1>1, <1>2, <1>6 DEF Replaced
  <2>. HIDE DEF sooner
  <2>. QED
    BY <1>7, <2>1, <2>2
<1>11. \A k \in 1..n : k \notin moved => placed[k].id = sorted[k].id /\ sorted[k].id # 0
  BY <1>1, <1>2 DEF Replaced, Displaced
<1>12. \A j, k \in 1..n : j < k /\ k \notin moved => sorted[j].id # sorted[k].id
  <2> TAKE j, k \in 1..n
  <2>1. ASSUME j < k, sorted[j].id = sorted[k].id PROVE k \in moved
    <3>1. j \in 1..(k - 1) /\ k \in DOMAIN sorted
      BY <1>1, <1>2, <2>1
    <3>. QED
      BY <2>1, <3>1 DEF Displaced
  <2>. QED
    BY <2>1
<1>13. Restored(items, next, counter).next = free + Cardinality(moved)
  BY <1>1, <1>6, <1>7
<1> HIDE DEF moved, sooner
<1>14. \A k \in 1..n : placed[k].id \in 1..((free + Cardinality(moved)) - 1)
  <2> TAKE k \in 1..n
  <2>0. Cardinality(moved) \in Nat
    BY <1>6
  <2>1. CASE k \in moved
    <3>1. Cardinality(sooner(k)) \in Nat /\ Cardinality(sooner(k)) < Cardinality(moved)
      BY <1>8, <2>1
    <3>2. placed[k].id = free + Cardinality(sooner(k))
      BY <1>10, <2>1
    <3>. QED
      BY <1>5, <2>0, <3>1, <3>2
  <2>2. CASE k \notin moved
    <3>1. placed[k].id = sorted[k].id /\ sorted[k].id # 0 /\ sorted[k].id \in Nat /\ sorted[k].id + 1 <= free
      BY <1>3, <1>5, <1>11, <2>2
    <3>. QED
      BY <1>5, <2>0, <3>1
  <2>. QED
    BY <2>1, <2>2
<1>15. ASSUME NEW j \in 1..n, NEW k \in 1..n, j < k PROVE placed[j].id # placed[k].id
  <2>1. CASE j \in moved /\ k \in moved
    <3>1. /\ placed[j].id = free + Cardinality(sooner(j)) /\ placed[k].id = free + Cardinality(sooner(k))
          /\ Cardinality(sooner(j)) \in Nat /\ Cardinality(sooner(k)) \in Nat
          /\ Cardinality(sooner(j)) < Cardinality(sooner(k))
      BY <1>8, <1>9, <1>10, <1>15, <2>1
    <3>. QED
      BY <1>5, <3>1
  <2>2. CASE j \in moved /\ k \notin moved
    <3>1. /\ placed[j].id = free + Cardinality(sooner(j)) /\ Cardinality(sooner(j)) \in Nat
          /\ placed[k].id = sorted[k].id /\ sorted[k].id \in Nat /\ sorted[k].id + 1 <= free
      BY <1>3, <1>5, <1>8, <1>10, <1>11, <2>2
    <3>. QED
      BY <1>5, <3>1
  <2>3. CASE j \notin moved /\ k \in moved
    <3>1. /\ placed[k].id = free + Cardinality(sooner(k)) /\ Cardinality(sooner(k)) \in Nat
          /\ placed[j].id = sorted[j].id /\ sorted[j].id \in Nat /\ sorted[j].id + 1 <= free
      BY <1>3, <1>5, <1>8, <1>10, <1>11, <2>3
    <3>. QED
      BY <1>5, <3>1
  <2>4. CASE j \notin moved /\ k \notin moved
    BY <1>11, <1>12, <1>15, <2>4
  <2>. QED
    BY <2>1, <2>2, <2>3, <2>4
<1>16. \A j, k \in DOMAIN placed : placed[j].id = placed[k].id => j = k
  <2> TAKE j, k \in DOMAIN placed
  <2>1. j \in 1..n /\ k \in 1..n
    BY <1>1, <1>2
  <2>2. j = k \/ j < k \/ k < j
    BY <1>2, <2>1
  <2>. QED
    BY <1>15, <2>1, <2>2
<1>17. /\ Sorted(ById(placed)) /\ DOMAIN ById(placed) = 1..n
       /\ \A k \in 1..n : \E j \in 1..n : ById(placed)[k] = placed[j]
  <2>1. /\ DOMAIN ById(placed) = DOMAIN placed
        /\ \A k \in DOMAIN placed : \E j \in DOMAIN placed : ById(placed)[k] = placed[j]
        /\ Sorted(ById(placed))
    BY <1>16, SortedOut
  <2>. QED
    BY <1>1, <1>2, <2>1
<1>18. \A k \in 1..n : ById(placed)[k].id \in 1..((free + Cardinality(moved)) - 1)
  BY <1>14, <1>17
<1>19. Restored(items, next, counter).items = ById(placed)
  BY <1>1
<1>20. VersionOK(ById(placed), free + Cardinality(moved))
  <2> DEFINE out == ById(placed)
             top == free + Cardinality(moved)
  <2>1. Sorted(out) /\ DOMAIN out = 1..n
    BY <1>17
  <2>2. \A k \in 1..n : out[k].id \in 1..(top - 1)
    BY <1>18
  <2>. HIDE DEF out, top
  <2>3. VersionOK(out, top)
    BY <2>1, <2>2 DEF VersionOK
  <2>. QED
    BY <2>3 DEF out, top
<1>21. Restored(items, next, counter).next = free + Cardinality(moved)
  BY <1>13 DEF moved
<1>. QED
  BY <1>19, <1>20, <1>21

---------------------------------------------------------------------------
(* What follows of calls and of snapshots.                                 *)

\* No two turns of a context make the same call, and the answer being recorded makes none of
\* theirs (rename_calls, with what an undo and a redo bring back): what pairs a result with its
\* call.
THEOREM CallsStayApart == Spec => []CallsApart
<1>1. ASSUME RecordingInv PROVE CallsApart
  <2>1. ctx.items \in VersionsOf(ctx)
    BY DEF VersionsOf
  <2>2. Paired(ctx.items)
    BY <1>1, <2>1 DEF RecordingInv, ContextHolds, VersionHolds
  <2>3. turn.at = "answered" => NamedIn(ctx.items) \cap ToSet(turn.calls) = {}
    BY <1>1, <2>1 DEF RecordingInv, TurnHolds
  <2>4. \A k \in DOMAIN ctx.items : ToSet(ctx.items[k].calls) \subseteq NamedIn(ctx.items)
    BY DEF NamedIn, Named
  <2>. QED
    BY <2>2, <2>3, <2>4 DEF Paired, CallsApart
<1>. QED
  BY <1>1, RecordingInvariant, PTL

\* The highest number of a list is one of them, or 0 when there are none.
LEMMA HighestOf ==
  ASSUME NEW items \in Seq(Item), NEW n \in Nat, \A k \in DOMAIN items : items[k].id <= n
  PROVE  /\ Highest(items) \in Nat /\ Highest(items) <= n
         /\ \A k \in DOMAIN items : items[k].id <= Highest(items)
         /\ items # <<>> => \E k \in DOMAIN items : Highest(items) = items[k].id
<1>1. CASE items = <<>>
  BY <1>1 DEF Highest
<1>2. CASE items # <<>>
  <2>1. \A k \in DOMAIN items : items[k].id \in Nat
    <3>1. \A k \in DOMAIN items : items[k] \in Item
      OBVIOUS
    <3>. QED
      BY <3>1 DEF Item
  <2>2. Ids(items) \in SUBSET Nat /\ (\A x \in Ids(items) : x <= n) /\ Ids(items) # {}
    BY <1>2, <2>1 DEF Ids
  <2>3. Max(Ids(items)) \in Ids(items) /\ \A x \in Ids(items) : x <= Max(Ids(items))
    BY <2>2, MaxOfBounded
  <2>4. Highest(items) = Max(Ids(items))
    BY <1>2 DEF Highest
  <2>. QED
    BY <2>2, <2>3, <2>4 DEF Ids
<1>. QED
  BY <1>1, <1>2

\* Nothing is wrong with a snapshot that was written.
LEMMA NothingWrong ==
  ASSUME NEW snap \in SnapshotType, ItemsHold(snap), NamedIn(snap.items) \subseteq snap.used,
         snap.permission <= MaxAsks + 1, snap.seq <= MaxSeq
  PROVE  ~HasProblems(snap)
<1>1. /\ snap.items \in Seq(Item) /\ snap.next \in Nat \ {0} /\ snap.seq \in Nat
      /\ snap.permission \in Nat \ {0}
  BY DEF SnapshotType
<1>2. /\ Sorted(snap.items) /\ \A k \in DOMAIN snap.items : snap.items[k].id \in 1..(snap.next - 1)
      /\ snap.next <= MaxItems + 1 /\ Paired(snap.items)
  BY DEF ItemsHold, VersionOK, VersionHolds
<1>3. /\ \A k \in DOMAIN snap.items : k \in Nat /\ \A j \in 1..(k - 1) : j \in DOMAIN snap.items /\ j < k
      /\ \A k \in DOMAIN snap.items : snap.items[k].id <= snap.next - 1
      /\ snap.next - 1 \in Nat
  BY <1>1, <1>2
<1>4. ~Misnumbered(snap)
  <2>1. ASSUME NEW k \in DOMAIN snap.items PROVE snap.items[k].id \in Nat /\ snap.items[k].id # 0
    BY <1>1, <1>2
  <2>2. ASSUME NEW k \in DOMAIN snap.items, NEW j \in 1..(k - 1)
        PROVE  ~(snap.items[j].id >= snap.items[k].id)
    <3>1. j \in DOMAIN snap.items /\ j < k
      BY <1>3
    <3>2. snap.items[j].id < snap.items[k].id
      BY <1>2, <3>1 DEF Sorted
    <3>3. snap.items[j].id \in Nat /\ snap.items[k].id \in Nat
      BY <2>1, <3>1
    <3>. QED
      BY <3>2, <3>3
  <2>. QED
    BY <2>1, <2>2 DEF Misnumbered
<1>5. ~Unlisted(snap)
  BY DEF Unlisted
<1>6. ~Unpaired(snap)
  BY <1>2 DEF Paired, Unpaired
<1>7. Highest(snap.items) \in Nat /\ Highest(snap.items) <= snap.next - 1
  BY <1>1, <1>3, HighestOf
<1>8. ~NextBehind(snap)
  BY <1>1, <1>7 DEF NextBehind
<1>9. ~NoRoomLeft(snap)
  <2>1. Highest(snap.items) <= ROOM /\ snap.next <= ROOM /\ snap.seq <= ROOM /\ snap.permission <= ROOM
    BY <1>1, <1>2, <1>7, RoomEnough
  <2>2. \A n \in {Highest(snap.items), snap.next, snap.seq, snap.permission} : n \in Nat /\ n <= ROOM
    BY <1>1, <1>7, <2>1
  <2>3. \A n \in Nat : n <= ROOM => ~(n > ROOM)
    BY RoomEnough
  <2>. QED
    BY <2>2, <2>3 DEF NoRoomLeft
<1>. QED
  BY <1>4, <1>5, <1>6, <1>8, <1>9 DEF HasProblems

\* Whatever the turn was at when a snapshot was taken (Kernel::snapshot), and however far the
\* log had got when it was written (Recorder::checkpoint): the records up to the one it names
\* show exactly its items, and `problems` finds nothing wrong with it.
THEOREM SnapshotsAreTrue == Spec => []SnapshotsHold
<1>1. ASSUME RecordingInv, NEW f \in Resumable
      PROVE  /\ ListedIn(Through(files[f].log, files[f].state.seq)) = Ids(files[f].state.items)
             /\ ~HasProblems(files[f].state)
  <2>1. files \in Seq(FileType) /\ f \in DOMAIN files /\ files[f].state # None /\ FileHolds(files[f])
    BY <1>1 DEF RecordingInv, FilesHold, Resumable
  <2>2. files[f] \in FileType
    BY <2>1
  <2>3. files[f].log \in Seq(RecordType) /\ files[f].state \in SnapshotType
    BY <2>1, <2>2 DEF FileType
  <2>4. PICK m \in 0..Len(files[f].log) :
          /\ CutAt(files[f].log, m, files[f].state.seq)
          /\ ListedIn(SubSeq(files[f].log, 1, m)) = Ids(files[f].state.items)
    BY <2>1 DEF FileHolds
  <2>5. files[f].state.seq \in Nat /\ files[f].state.seq <= MaxSeq
    BY <2>1, RoomEnough DEF FileHolds
  <2>6. Through(files[f].log, files[f].state.seq) = SubSeq(files[f].log, 1, m)
    BY <2>3, <2>4, <2>5, CutThere
  <2>7. ~HasProblems(files[f].state)
    BY <2>1, <2>3, <2>5, NothingWrong DEF FileHolds
  <2>. QED
    BY <2>4, <2>6, <2>7
<1>2. RecordingInv => SnapshotsHold
  BY <1>1 DEF SnapshotsHold
<1>. QED
  BY <1>2, RecordingInvariant, PTL

---------------------------------------------------------------------------
(* A snapshot that is edited.                                              *)

\* A list whose items carry different numbers out of 1..MaxItems is no longer than that.
LEMMA FewItems ==
  ASSUME NEW items \in Seq(Item), NEW next \in Nat, VersionOK(items, next), next <= MaxItems + 1
  PROVE  Len(items) <= MaxItems
<1> DEFINE n == Len(items)
           number == [k \in 1..n |-> items[k].id]
<1>1. n \in Nat /\ DOMAIN items = 1..n /\ MaxItems \in Nat
  BY RoomEnough
<1> HIDE DEF n
<1>2. \A k \in 1..n : items[k].id \in 1..MaxItems
  BY <1>1 DEF VersionOK
<1>3. number \in [1..n -> 1..MaxItems]
  BY <1>2
<1>4. \A j, k \in 1..n : number[j] = number[k] => j = k
  <2>1. ASSUME NEW j \in 1..n, NEW k \in 1..n, j < k PROVE number[j] # number[k]
    <3>1. items[j].id < items[k].id
      BY <1>1, <2>1 DEF VersionOK, Sorted
    <3>2. items[j].id \in Nat /\ items[k].id \in Nat
      BY <1>2
    <3>. QED
      BY <3>1, <3>2
  <2>2. \A j, k \in 1..n : j = k \/ j < k \/ k < j
    BY <1>1
  <2>. QED
    BY <2>1, <2>2
<1>5. /\ IsFiniteSet(1..n) /\ Cardinality(1..n) = n
      /\ IsFiniteSet(1..MaxItems) /\ Cardinality(1..MaxItems) = MaxItems
  BY <1>1, FS_Interval
<1> HIDE DEF number
<1>6. IsInjective(number)
  BY <1>3, <1>4 DEF IsInjective
<1>7. number \in Injection(1..n, 1..MaxItems)
  BY <1>3, <1>6 DEF Injection
<1>8. Cardinality(1..n) <= Cardinality(1..MaxItems)
  BY <1>5, <1>7, FS_Injection
<1>. QED
  BY <1>5, <1>8 DEF n

\* What an edit leaves of a snapshot that was written: items priced alike and no more of them,
\* and numbers.
LeftByEdit(snap, edit) ==
  /\ edit.items \in Seq(Item) /\ DOMAIN edit.items = DOMAIN snap.items
  /\ \A k \in DOMAIN edit.items : edit.items[k].priced = Counter /\ edit.items[k].id <= TopId
  /\ edit.next \in Nat /\ edit.seq = snap.seq /\ edit.permission = snap.permission

\* Every edit leaves that.
LEMMA EditsLeave ==
  ASSUME NEW snap \in SnapshotType, ItemsHold(snap), NEW edit \in EditsOf(snap)
  PROVE  LeftByEdit(snap, edit)
<1>1. /\ snap.items \in Seq(Item) /\ snap.next \in Nat \ {0}
      /\ DOMAIN snap = {"items", "next", "seq", "used", "permission"}
      /\ snap = [items |-> snap.items, next |-> snap.next, seq |-> snap.seq, used |-> snap.used,
                 permission |-> snap.permission]
  BY DEF SnapshotType
<1> DEFINE items == snap.items
           n == Len(items)
<1>2. n \in Nat /\ DOMAIN items = 1..n /\ items = [k \in 1..n |-> items[k]]
  BY <1>1
<1>3. \A k \in 1..n : items[k] \in Item /\ items[k].priced = Counter /\ items[k].id <= TopId
  <2>1. \A k \in 1..n : items[k] \in Item /\ items[k].priced = Counter
    BY <1>1, <1>2 DEF ItemsHold, VersionHolds
  <2>2. \A k \in 1..n : items[k].id \in 1..(snap.next - 1)
    BY <1>2 DEF ItemsHold, VersionOK
  <2>3. snap.next - 1 <= TopId
    BY <1>1, RoomEnough DEF ItemsHold
  <2>4. \A k \in 1..n : items[k].id <= TopId
    BY <1>1, <2>2, <2>3, RoomEnough
  <2>. QED
    BY <2>1, <2>4
<1>4. \A m \in Numbers : m \in Nat /\ m <= TopId
  <2>1. \A m \in Numbers : m \in 0..(MaxItems + 1) \/ m = ROOM \/ m = TopId
    BY DEF Numbers
  <2>. QED
    BY <2>1, RoomEnough
<1> DEFINE Fine(list) == /\ list \in Seq(Item) /\ DOMAIN list = 1..n
                         /\ \A k \in 1..n : list[k].priced = Counter /\ list[k].id <= TopId
<1>5. Fine(items)
  BY <1>1, <1>2, <1>3
<1>6. ASSUME NEW list \in [1..n -> Item],
             \A k \in 1..n : list[k].priced = Counter /\ list[k].id <= TopId
      PROVE  Fine(list)
  BY <1>2, <1>6
<1> HIDE DEF n
<1>7. ASSUME NEW k \in DOMAIN snap.items, NEW m \in Numbers, edit = [snap EXCEPT !.items[k].id = m]
      PROVE  LeftByEdit(snap, edit)
  <2> DEFINE list == [items EXCEPT ![k] = [items[k] EXCEPT !.id = m]]
  <2>1. /\ edit.items = list /\ edit.next = snap.next /\ edit.seq = snap.seq
        /\ edit.permission = snap.permission
    BY <1>1, <1>7
  <2>2. k \in 1..n /\ m \in Nat /\ m <= TopId
    BY <1>2, <1>4, <1>7
  <2>3. /\ [items[k] EXCEPT !.id = m] \in Item /\ [items[k] EXCEPT !.id = m].id = m
        /\ [items[k] EXCEPT !.id = m].priced = Counter
    BY <1>3, <2>2 DEF Item
  <2>4. \A j \in 1..n : list[j] = IF j = k THEN [items[k] EXCEPT !.id = m] ELSE items[j]
    BY <1>2
  <2>5. list \in [1..n -> Item]
    BY <1>2, <1>3, <2>3
  <2>. HIDE DEF list
  <2>6. \A j \in 1..n : list[j].priced = Counter /\ list[j].id <= TopId
    BY <1>3, <2>2, <2>3, <2>4
  <2>7. Fine(list)
    BY <1>6, <2>5, <2>6
  <2>. QED
    BY <1>1, <1>2, <2>1, <2>7 DEF LeftByEdit
<1>8. ASSUME NEW j \in DOMAIN snap.items, NEW k \in DOMAIN snap.items,
             edit = Swapped(snap, j, k)
      PROVE  LeftByEdit(snap, edit)
  <2> DEFINE list == [[items EXCEPT ![j] = items[k]] EXCEPT ![k] = items[j]]
  <2>1. /\ edit.items = list /\ edit.next = snap.next /\ edit.seq = snap.seq
        /\ edit.permission = snap.permission
    BY <1>1, <1>8 DEF Swapped
  <2>2. j \in 1..n /\ k \in 1..n
    BY <1>2, <1>8
  <2>3. \A i \in 1..n : \E h \in 1..n : list[i] = items[h]
    BY <1>2, <2>2
  <2>4. list \in [1..n -> Item]
    BY <1>2, <1>3, <2>2
  <2>. HIDE DEF list
  <2>5. \A i \in 1..n : list[i].priced = Counter /\ list[i].id <= TopId
    BY <1>3, <2>3
  <2>6. Fine(list)
    BY <1>6, <2>4, <2>5
  <2>. QED
    BY <1>1, <1>2, <2>1, <2>6 DEF LeftByEdit
<1>9. ASSUME NEW c \in snap.used, edit = [snap EXCEPT !.used = @ \ {c}]
      PROVE  LeftByEdit(snap, edit)
  <2>1. /\ edit.items = items /\ edit.next = snap.next /\ edit.seq = snap.seq
        /\ edit.permission = snap.permission
    BY <1>1, <1>9
  <2>. QED
    BY <1>1, <1>2, <1>5, <2>1 DEF LeftByEdit
<1>10. ASSUME NEW m \in Numbers, edit = [snap EXCEPT !.next = m]
       PROVE  LeftByEdit(snap, edit)
  <2>1. /\ edit.items = items /\ edit.next = m /\ edit.seq = snap.seq
        /\ edit.permission = snap.permission
    BY <1>1, <1>10
  <2>. QED
    BY <1>2, <1>4, <1>5, <2>1 DEF LeftByEdit
<1>11. \/ \E k \in DOMAIN snap.items, m \in Numbers : edit = [snap EXCEPT !.items[k].id = m]
       \/ \E j, k \in DOMAIN snap.items : edit = Swapped(snap, j, k)
       \/ \E c \in snap.used : edit = [snap EXCEPT !.used = @ \ {c}]
       \/ \E m \in Numbers : edit = [snap EXCEPT !.next = m]
  <2> DEFINE renumbered == {[snap EXCEPT !.items[k].id = m] : k \in DOMAIN snap.items, m \in Numbers}
             swapped == {Swapped(snap, j, k) : j \in DOMAIN snap.items, k \in DOMAIN snap.items}
             shorter == {[snap EXCEPT !.used = @ \ {c}] : c \in snap.used}
             moved == {[snap EXCEPT !.next = m] : m \in Numbers}
  <2>1. EditsOf(snap) = ((renumbered \cup swapped) \cup shorter) \cup moved
    BY DEF EditsOf
  <2>2. edit \in renumbered =>
          \E k \in DOMAIN snap.items, m \in Numbers : edit = [snap EXCEPT !.items[k].id = m]
    OBVIOUS
  <2>3. edit \in swapped => \E j, k \in DOMAIN snap.items : edit = Swapped(snap, j, k)
    OBVIOUS
  <2>4. edit \in shorter => \E c \in snap.used : edit = [snap EXCEPT !.used = @ \ {c}]
    OBVIOUS
  <2>5. edit \in moved => \E m \in Numbers : edit = [snap EXCEPT !.next = m]
    OBVIOUS
  <2>. HIDE DEF renumbered, swapped, shorter, moved
  <2>6. edit \in renumbered \/ edit \in swapped \/ edit \in shorter \/ edit \in moved
    BY <2>1
  <2>. QED
    BY <2>2, <2>3, <2>4, <2>5, <2>6
<1>. QED
  BY <1>7, <1>8, <1>9, <1>10, <1>11

\* What becomes of an edited snapshot: in order again if there is room, naming no call that is
\* not kept from use, and as it is if nothing is wrong with it.
Repaired(edit) ==
  LET resumed == Restored(edit.items, edit.next, Counter)
  IN  /\ ~NoRoomLeft(edit) => VersionOK(resumed.items, resumed.next)
      /\ NamedIn(resumed.items) \subseteq SeenAfter(edit)
      /\ ~HasProblems(edit) =>
           resumed.items = edit.items /\ resumed.next = edit.next /\ SeenAfter(edit) = edit.used

\* An edit of a snapshot that was written is repaired.
LEMMA EditIsRepaired ==
  ASSUME NEW snap \in SnapshotType, ItemsHold(snap), NEW edit \in EditsOf(snap)
  PROVE  Repaired(edit)
<1> DEFINE items == edit.items
           next == edit.next
<1>1. LeftByEdit(snap, edit)
  BY EditsLeave
<1>2. /\ items \in Seq(Item) /\ next \in Nat /\ DOMAIN items = DOMAIN snap.items
      /\ \A k \in DOMAIN items : items[k].priced = Counter /\ items[k].id <= TopId
  BY <1>1 DEF LeftByEdit
<1>3. /\ snap.items \in Seq(Item) /\ snap.next \in Nat /\ snap.next <= MaxItems + 1
      /\ VersionOK(snap.items, snap.next)
  BY DEF SnapshotType, ItemsHold
<1>4. Len(items) <= MaxItems
  <2>1. Len(snap.items) <= MaxItems
    BY <1>3, FewItems
  <2>2. Len(items) = Len(snap.items)
    BY <1>2, <1>3
  <2>. QED
    BY <2>1, <2>2
<1>5. Counter \in Counters
  BY ItemsMade
<1>6. /\ Highest(items) \in Nat /\ \A k \in DOMAIN items : items[k].id <= Highest(items)
  BY <1>2, HighestOf, RoomEnough
<1>7. \A k \in DOMAIN items : items[k].id \in Nat
  <2>1. \A k \in DOMAIN items : items[k] \in Item
    BY <1>2
  <2>. QED
    BY <2>1 DEF Item
<1>8. ASSUME ~NoRoomLeft(edit)
      PROVE  /\ next <= ROOM /\ Highest(items) <= ROOM
             /\ \A k \in DOMAIN items : items[k].id <= ROOM
  <2>1. ~(next > ROOM) /\ ~(Highest(items) > ROOM)
    BY <1>8 DEF NoRoomLeft
  <2>2. next <= ROOM /\ Highest(items) <= ROOM
    BY <1>2, <1>6, <2>1, RoomEnough
  <2>. QED
    BY <1>6, <1>7, <2>2, RoomEnough
<1> HIDE DEF items, next
<1>9. ~NoRoomLeft(edit) =>
        VersionOK(Restored(items, next, Counter).items, Restored(items, next, Counter).next)
  BY <1>2, <1>4, <1>5, <1>8, RestoredApart
<1>10. NamedIn(Restored(items, next, Counter).items) \subseteq NamedIn(items)
  BY <1>2, <1>5, RestoredNames
<1>11. ASSUME ~HasProblems(edit)
       PROVE  /\ Restored(items, next, Counter).items = items
              /\ Restored(items, next, Counter).next = next
              /\ NamedIn(items) \subseteq edit.used
  <2>1. ~Misnumbered(edit) /\ ~Unlisted(edit) /\ ~NextBehind(edit) /\ ~NoRoomLeft(edit)
    BY <1>11 DEF HasProblems
  <2>2. next # 0 /\ ~(next <= Highest(items))
    BY <2>1 DEF NextBehind, items, next
  <2>3. \A k \in DOMAIN items : items[k].id # 0 /\ \A j \in 1..(k - 1) : ~(items[j].id >= items[k].id)
    BY <2>1 DEF Misnumbered, items
  <2>4. next \in Nat \ {0} /\ Highest(items) <= next - 1
    BY <1>2, <1>6, <2>2
  <2>5. \A k \in DOMAIN items : items[k].id \in 1..(next - 1)
    BY <1>2, <1>6, <1>7, <2>3, <2>4
  <2>6. Sorted(items)
    <3>1. DOMAIN items = 1..Len(items) /\ Len(items) \in Nat
      BY <1>2
    <3>2. ASSUME NEW j \in DOMAIN items, NEW k \in DOMAIN items, j < k
          PROVE  items[j].id < items[k].id
      <4>1. j \in 1..(k - 1)
        BY <3>1, <3>2
      <4>2. ~(items[j].id >= items[k].id)
        BY <2>3, <4>1
      <4>3. items[j].id \in Nat /\ items[k].id \in Nat
        BY <1>7
      <4>. QED
        BY <4>2, <4>3
    <3>. QED
      BY <3>2 DEF Sorted
  <2>7. VersionOK(items, next)
    BY <2>5, <2>6 DEF VersionOK
  <2>8. next < TopId
    BY <1>2, <1>8, <2>1, RoomEnough
  <2>9. Restored(items, next, Counter) = [NewContext EXCEPT !.items = items, !.next = next]
    BY <1>2, <2>4, <2>7, <2>8, RestoredAsIs
  <2>10. NamedIn(items) \subseteq edit.used
    BY <2>1 DEF Unlisted, items
  <2>. QED
    BY <2>9, <2>10 DEF NewContext
<1>. QED
  BY <1>9, <1>10, <1>11 DEF Repaired, SeenAfter, items, next

\* Of the files a dead process left (Snapshot::problems, Context::restore): a snapshot nothing is
\* found wrong with is resumed as it is; one that was edited, and leaves room, is resumed in
\* order, every number once and below the next; and no call its items name is handed out again.
THEOREM EditsAreRepaired == Spec => []EditsRepaired
<1>1. ASSUME RecordingInv, NEW f \in Resumable, NEW snap \in EditsOf(files[f].state)
      PROVE  Repaired(snap)
  <2>1. files \in Seq(FileType) /\ f \in DOMAIN files /\ files[f].state # None /\ FileHolds(files[f])
    BY <1>1 DEF RecordingInv, FilesHold, Resumable
  <2>2. files[f] \in FileType
    BY <2>1
  <2>3. files[f].state \in SnapshotType /\ ItemsHold(files[f].state)
    BY <2>1, <2>2 DEF FileType, FileHolds
  <2>. QED
    BY <1>1, <2>3, EditIsRepaired
<1>2. RecordingInv => EditsRepaired
  BY <1>1 DEF EditsRepaired, Repaired
<1>. QED
  BY <1>2, RecordingInvariant, PTL
==============================================================================
