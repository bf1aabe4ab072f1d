------------------------------ MODULE Serving ------------------------------
(***************************************************************************)
(* A session served to clients (kamchatka/src/remote/server/mod.rs and     *)
(* connection.rs), and the clients of `--connect` (remote/client.rs).      *)
(*                                                                         *)
(* Three kinds of actors.  The loop owns the App and the seat, the         *)
(* connection that may give commands.  A connection reads the log, a       *)
(* subscription to the kernel's events and one to what the loop says,      *)
(* both of which lose what it is too slow for, and asks the loop for the   *)
(* rest.  A client reads frames, and comes back when its connection goes.  *)
(*                                                                         *)
(* Records are numbered, and are in the log; fragments are in no log, and  *)
(* are numbered here to tell them apart.  What a connection writes between *)
(* two awaits of the loop goes out in one step.  The loop says whether the *)
(* session is busy, and the model; its notes go the same way.              *)
(* Of the records of a turn there is the first, its message.               *)
(***************************************************************************)
EXTENDS Integers, FiniteSets, SequencesExt

CONSTANTS
  Client,       \* those who connect
  Paced,        \* the ones whose input is a pipe
  Script,       \* what each of them types: a line after another, each of one of the kinds
  Nobody,       \* who sits in an empty seat
  EventRoom,    \* how many events a subscription holds
  VoiceRoom,    \* how much of what the loop says
  Connections,  \* bound: how many connections arrive
  Unread,       \* bound: how many frames a client leaves unread
  MaxFragments  \* bound: how many fragments the turns emit

ASSUME ServingAssumption ==
  /\ Paced \subseteq Client
  /\ Script \in [Client -> Seq(SUBSET {"message", "quit"})]
  /\ {EventRoom, VoiceRoom, Connections} \subseteq Nat \ {0}
  /\ {Unread, MaxFragments} \subseteq Nat
  /\ Nobody \notin Nat

VARIABLES
  kernel,   \* how many records its log holds, and how many fragments it emitted
  session,  \* App and Serving: whether a turn runs, whose it is and who waits, the seat
  asks,     \* what the loop has not taken of what connections asked
  conns,    \* the connections, by number
  links,    \* what lies between each and its client
  clients

vars == <<kernel, session, asks, conns, links, clients>>

Unborn ==
  [client |-> Nobody, at |-> "unborn", last |-> 0, since |-> 0, fresh |-> TRUE,
   events |-> <<>>, lagged |-> FALSE, hears |-> FALSE, voice |-> <<>>, deaf |-> FALSE,
   notified |-> FALSE, listed |-> FALSE, answer |-> <<>>]

Init ==
  /\ kernel = [seq |-> 1, fragments |-> 0]
  /\ session = [busy |-> FALSE, turns |-> <<>>, seated |-> Nobody, leaving |-> FALSE,
                open |-> TRUE]
  /\ asks = <<>>
  /\ conns = [c \in 1..Connections |-> Unborn]
  /\ links = [c \in 1..Connections |-> [up |-> FALSE, commands |-> <<>>, frames |-> <<>>]]
  /\ clients = [cl \in Client |->
       [at |-> "off", conn |-> 0, knows |-> FALSE, last |-> 0, written |-> 0,
        out |-> 0, busy |-> FALSE, typed |-> 0, detaching |-> FALSE,
        over |-> FALSE]]

Used == Cardinality({c \in DOMAIN conns : conns[c].at # "unborn"})

---------------------------------------------------------------------------
(* The two broadcasts.  A reader that is behind by all it holds loses the  *)
(* oldest, and is told so before it reads on.                              *)

Record == 0

Emitted(cs, event) ==
  [c \in DOMAIN cs |->
     IF cs[c].at \in {"unborn", "closed"} THEN cs[c]
     ELSE IF Len(cs[c].events) < EventRoom THEN [cs[c] EXCEPT !.events = Append(@, event)]
     ELSE [cs[c] EXCEPT !.events = Append(Tail(@), event), !.lagged = TRUE]]

Busy(busy) == [kind |-> "busy", busy |-> busy, mark |-> kernel.fragments]
Model == [kind |-> "model"]

\* pump: what changed is said to whoever is attached.
Said(cs, word) ==
  [c \in DOMAIN cs |->
     IF ~cs[c].hears THEN cs[c]
     ELSE IF Len(cs[c].voice) < VoiceRoom THEN [cs[c] EXCEPT !.voice = Append(@, word)]
     ELSE [cs[c] EXCEPT !.voice = Append(Tail(@), word), !.deaf = TRUE]]

---------------------------------------------------------------------------
(* The turn, in the background of the loop.  Nobody can tell when it ends  *)
(* before the loop takes its outcome.                                      *)

TurnSays ==
  /\ session.busy /\ kernel.fragments < MaxFragments
  /\ kernel' = [kernel EXCEPT !.fragments = @ + 1]
  /\ conns' = Emitted(conns, kernel.fragments + 1)
  /\ UNCHANGED <<session, asks, links, clients>>

---------------------------------------------------------------------------
(* The loop.                                                               *)

AtTop == session.open /\ ~session.leaving

\* apply_outcome, and the pump at the top of the loop: a message that waited is put
\* in and gets its turn, or the session is no longer busy.  A switch of the model that
\* came through meanwhile is said behind that.
TakeOutcome ==
  /\ AtTop /\ session.busy
  /\ LET waiting == Tail(session.turns)
         ended   == [session EXCEPT !.turns = waiting]
     IN  IF waiting # <<>>
         THEN /\ session' = ended
              /\ kernel' = [kernel EXCEPT !.seq = @ + 1]
              /\ conns' = Emitted(conns, Record)
         ELSE /\ session' = [ended EXCEPT !.busy = FALSE]
              /\ LET rested == Said(conns, Busy(FALSE))
                 IN  conns' \in {rested, Said(rested, Model)}
              /\ UNCHANGED kernel
  /\ UNCHANGED <<asks, links, clients>>

Asking == AtTop /\ asks # <<>>

\* A connection has gone.
Forget ==
  /\ Asking /\ Head(asks).what = "left"
  /\ LET c == Head(asks).from
     IN  /\ conns' = [conns EXCEPT ![c].listed = FALSE]
         /\ session' = [session EXCEPT !.seated = IF @ = c THEN Nobody ELSE @]
  /\ asks' = Tail(asks) /\ UNCHANGED <<kernel, links, clients>>

Word(about) == [about |-> about, busy |-> session.busy, mark |-> kernel.fragments,
                seq |-> kernel.seq]

\* A connection that lost some of what was said asks where things stand.
TellStanding ==
  /\ Asking /\ Head(asks).what = "standing"
  /\ conns' = [conns EXCEPT ![Head(asks).from].answer = <<Word("standing")>>]
  /\ asks' = Tail(asks) /\ UNCHANGED <<kernel, session, links, clients>>

\* seated: whoever has the session is told that it has it no longer, once.
Unseated(cs, c) ==
  LET had == session.seated
  IN  IF had \in {Nobody, c} \/ ~cs[had].listed THEN cs
      ELSE [cs EXCEPT ![had].notified = TRUE, ![had].listed = FALSE]

\* An attach: the newcomer hears what is said from here on, and has the session.
Attach ==
  /\ Asking /\ Head(asks).what = "attach"
  /\ LET c    == Head(asks).from
         born == IF conns[c].hears THEN conns
                 ELSE [conns EXCEPT ![c].hears = TRUE]
     IN  /\ conns' = [Unseated(born, c) EXCEPT ![c].answer = <<Word("attach")>>]
         /\ session' = [session EXCEPT !.seated = c]
  /\ asks' = Tail(asks) /\ UNCHANGED <<kernel, links, clients>>

\* Somebody who has not the session asks for something.
Refuse ==
  /\ Asking /\ Head(asks).what \in {"message", "quit"} /\ session.seated # Head(asks).from
  /\ conns' = [conns EXCEPT ![Head(asks).from].answer = <<Word("replaced")>>]
  /\ asks' = Tail(asks) /\ UNCHANGED <<kernel, session, links, clients>>

Seated(what) ==
  Asking /\ Head(asks).what = what /\ session.seated = Head(asks).from

\* submit, for a message: it goes in and gets a turn, or waits for the one that runs.
Submit ==
  /\ Seated("message")
  /\ LET c     == Head(asks).from
         reply == [Word("submit") EXCEPT !.busy = TRUE]
         lined == [session EXCEPT !.turns = Append(@, conns[c].client)]
     IN  IF session.busy
         THEN /\ session' = lined
              /\ conns' = [conns EXCEPT ![c].answer = <<reply>>]
              /\ UNCHANGED kernel
         ELSE /\ session' = [lined EXCEPT !.busy = TRUE]
              /\ kernel' = [kernel EXCEPT !.seq = @ + 1]
              /\ conns' = Said(Emitted([conns EXCEPT ![c].answer = <<reply>>], Record), Busy(TRUE))
  /\ asks' = Tail(asks) /\ UNCHANGED <<links, clients>>

\* submit, for `/quit`.
Quit ==
  /\ Seated("quit")
  /\ session' = [session EXCEPT !.leaving = TRUE]
  /\ conns' = [conns EXCEPT ![Head(asks).from].answer = <<Word("submit")>>]
  /\ asks' = Tail(asks) /\ UNCHANGED <<kernel, links, clients>>

\* A session that a client left ends once its turn is over: the last record is emitted,
\* nobody is answered any more and nothing said.
End ==
  /\ session.open /\ session.leaving
  /\ session' = [session EXCEPT !.open = FALSE, !.busy = FALSE, !.turns = <<>>]
  /\ kernel' = [kernel EXCEPT !.seq = @ + 1]
  /\ conns' = Emitted(conns, Record)
  /\ asks' = <<>> /\ UNCHANGED <<links, clients>>

---------------------------------------------------------------------------
(* A connection.                                                           *)

RecordsAfter(n) == [i \in 1..(kernel.seq - n) |-> [kind |-> "record", seq |-> n + i]]
Missed == [kind |-> "missed"]
Fragment == [kind |-> "fragment"]
Failed(about) == [kind |-> "failed", about |-> about]
Answer(word) == [kind |-> "answer", about |-> word.about, busy |-> word.busy, mark |-> word.mark]

\* An answer as the connection writes it.
Answered(word) == IF word.about = "replaced" THEN Failed("replaced") ELSE Answer(word)

\* Wrong form of Flushed: what was written is not remembered.
FlushedAnew(conn) == conn

\* flush: what the log has past the watermark is written, and the watermark moved.
Flushed(conn) == [conn EXCEPT !.last = kernel.seq]

\* Those of its events that are fragments.
Fragments(conn) == {i \in DOMAIN conn.events : conn.events[i] # Record}

\* What caught_up writes: the records, and the fragments in the subscription.
Backlog(conn) ==
  RecordsAfter(conn.last) \o (IF conn.lagged THEN <<Missed>> ELSE <<>>)
    \o [i \in 1..Cardinality(Fragments(conn)) |-> Fragment]

CaughtUp(conn) == [Flushed(conn) EXCEPT !.events = <<>>, !.lagged = FALSE]

\* The connection goes on as `conn`, after writing `frames`.
Goes(c, conn, frames) ==
  /\ links[c].up => Len(links[c].frames) <= Unread
  /\ conns' = [conns EXCEPT ![c] = conn]
  /\ links' = [links EXCEPT ![c].frames = IF links[c].up THEN @ \o frames ELSE @,
                            ![c].commands = IF conn.at = "closed" THEN <<>> ELSE @]
  /\ UNCHANGED <<kernel, session, clients>>

\* It writes `frames`, and is over; the loop hears of it last.
Closes(c, frames) ==
  /\ Goes(c, [Unborn EXCEPT !.client = conns[c].client, !.at = "closed",
                            !.listed = conns[c].listed], frames)
  /\ asks' = IF session.open THEN Append(asks, [what |-> "left", from |-> c]) ELSE asks

Asks(c, what) == asks' = Append(asks, [what |-> what, from |-> c])

Reads(c, at) == conns[c].at = at /\ links[c].commands # <<>>
Command(c) == Head(links[c].commands)
Read(c) == [links EXCEPT ![c].commands = Tail(@)]

\* The loop will not answer what is asked of it.
Unanswered(c) == ~session.open /\ conns[c].answer = <<>>

\* A command is asked of the loop.
Forwards(c, at, conn, what) ==
  /\ session.open /\ Asks(c, what)
  /\ conns' = [conns EXCEPT ![c] = [conn EXCEPT !.at = at]]
  /\ links' = Read(c) /\ UNCHANGED <<kernel, session, clients>>

\* attend: the first command says where the client stands.
ReadAttach(c) ==
  /\ Reads(c, "new")
  /\ Forwards(c, "attaching", [conns[c] EXCEPT !.fresh = Command(c).fresh,
                                               !.since = Command(c).since], "attach")

ReadReattach(c) ==
  /\ Reads(c, "loop") /\ Command(c).kind = "attach"
  /\ Forwards(c, "reattaching", [conns[c] EXCEPT !.fresh = FALSE,
                                                 !.since = Command(c).since], "attach")

ReadCommand(c) ==
  /\ Reads(c, "loop") /\ Command(c).kind # "attach"
  /\ Forwards(c, "asking", conns[c], Command(c).kind)

\* The same where the session is over: what the log has grown is written first, after
\* an attach from where the client stands.
ReadTooLate(c) ==
  /\ conns[c].at \in {"new", "loop"} /\ links[c].commands # <<>> /\ ~session.open
  /\ LET command == Command(c)
         missed == IF command.kind # "attach" \/ command.fresh THEN <<>>
                   ELSE RecordsAfter(command.since)
         rest == IF conns[c].at = "new" THEN <<>> ELSE RecordsAfter(conns[c].last)
         about == IF command.kind = "attach" THEN "attach" ELSE "submit"
     IN  Closes(c, Append(missed \o rest, Failed(about)))

\* watermark, answered.
Settle(c) ==
  /\ conns[c].at \in {"attaching", "reattaching"} /\ conns[c].answer # <<>>
  /\ LET word == Head(conns[c].answer)
         conn == [Flushed(conns[c]) EXCEPT !.at = "loop", !.answer = <<>>, !.since = 0,
                                        !.fresh = TRUE]
     IN  Goes(c, conn,
              IF conns[c].fresh
              THEN <<[kind |-> "attached", seq |-> word.seq, busy |-> word.busy]>>
                     \o RecordsAfter(word.seq)
              ELSE Append(RecordsAfter(conns[c].since), Answer(word)))
  /\ UNCHANGED asks

\* watermark, where the session ended meanwhile.
Unsettled(c) ==
  /\ conns[c].at \in {"attaching", "reattaching"} /\ Unanswered(c)
  /\ LET owed == IF conns[c].fresh THEN <<>> ELSE RecordsAfter(conns[c].since)
         again == IF conns[c].at = "attaching" THEN <<>> ELSE RecordsAfter(conns[c].last)
     IN  Closes(c, Append(owed \o again, Failed("attach")))

\* Wrong form of Done: the answer goes out ahead of what is still to be read.
DoneAhead(c) ==
  /\ conns[c].at = "asking" /\ conns[c].answer # <<>>
  /\ Goes(c, [Flushed(conns[c]) EXCEPT !.at = "loop", !.answer = <<>>],
          Append(RecordsAfter(conns[c].last), Answered(Head(conns[c].answer))))
  /\ UNCHANGED asks

\* The answer to a command goes out behind everything there is to read.
Done(c) ==
  /\ conns[c].at = "asking" /\ conns[c].answer # <<>>
  /\ Goes(c, [CaughtUp(conns[c]) EXCEPT !.at = "loop", !.answer = <<>>],
          Append(Backlog(conns[c]), Answered(Head(conns[c].answer))))
  /\ UNCHANGED asks

\* Wrong form of Undone: nothing is written first.
UndoneEmptyHanded(c) ==
  /\ conns[c].at = "asking" /\ Unanswered(c)
  /\ Closes(c, <<Failed("submit")>>)

\* The session ended with a command still waiting on it.
Undone(c) ==
  /\ conns[c].at = "asking" /\ Unanswered(c)
  /\ Closes(c, Append(RecordsAfter(conns[c].last), Failed("submit")))

\* Somebody else has the session.
Replaced(c) ==
  /\ conns[c].at = "loop" /\ conns[c].notified
  /\ Closes(c, Append(RecordsAfter(conns[c].last), Failed("replaced")))

\* The client has gone.
Hangup(c) ==
  /\ conns[c].at \in {"new", "loop"} /\ ~links[c].up /\ links[c].commands = <<>>
  /\ Closes(c, <<>>)

\* One event: the log is read first.
Hear(c) ==
  /\ conns[c].at = "loop" /\ (conns[c].lagged \/ conns[c].events # <<>>)
  /\ LET conn == Flushed(conns[c])
     IN  IF conn.lagged
         THEN Goes(c, [conn EXCEPT !.lagged = FALSE], Append(RecordsAfter(conns[c].last), Missed))
         ELSE Goes(c, [conn EXCEPT !.events = Tail(@)],
                   RecordsAfter(conns[c].last) \o
                     (IF Head(conn.events) = Record THEN <<>> ELSE <<Fragment>>))
  /\ UNCHANGED asks

\* One thing the loop said, behind everything there is to read.
HearVoice(c) ==
  /\ conns[c].at = "loop" /\ ~conns[c].deaf /\ conns[c].voice # <<>>
  /\ Goes(c, [CaughtUp(conns[c]) EXCEPT !.voice = Tail(@)],
          Append(Backlog(conns[c]), Head(conns[c].voice)))
  /\ UNCHANGED asks

\* Wrong form of Deaf: what was lost is only counted.
DeafToIt(c) ==
  /\ conns[c].at = "loop" /\ conns[c].deaf
  /\ Goes(c, [Flushed(conns[c]) EXCEPT !.deaf = FALSE],
          Append(RecordsAfter(conns[c].last), Missed))
  /\ UNCHANGED asks

\* Some of what the loop said is lost: it is asked where things stand.
Deaf(c) ==
  /\ conns[c].at = "loop" /\ conns[c].deaf
  /\ Goes(c, [Flushed(conns[c]) EXCEPT !.deaf = FALSE,
                                       !.at = IF session.open THEN "standing" ELSE @],
          Append(RecordsAfter(conns[c].last), Missed))
  /\ IF session.open THEN Asks(c, "standing") ELSE UNCHANGED asks

Stands(c) ==
  /\ conns[c].at = "standing" /\ (conns[c].answer # <<>> \/ Unanswered(c))
  /\ IF conns[c].answer = <<>> THEN Goes(c, [conns[c] EXCEPT !.at = "loop"], <<>>)
     ELSE Goes(c, [CaughtUp(conns[c]) EXCEPT !.at = "loop", !.answer = <<>>],
               Append(Backlog(conns[c]), [Answer(Head(conns[c].answer)) EXCEPT !.kind = "busy"]))
  /\ UNCHANGED asks

\* The loop has said the last of it.
LastWord(c) ==
  /\ conns[c].at = "loop" /\ conns[c].hears /\ ~session.open
  /\ ~conns[c].deaf /\ conns[c].voice = <<>>
  /\ Closes(c, RecordsAfter(conns[c].last))

---------------------------------------------------------------------------
(* A client.                                                               *)

\* What it has read says that the session is at rest, and nothing is owed.
Resting(client) == ~client.busy /\ client.out = 0

\* It goes, at rest or told to.
HangsUp(c) == [links EXCEPT ![c].up = FALSE, ![c].frames = <<>>]

Sends(c, command) ==
  IF links[c].up /\ conns[c].at # "closed"
  THEN [links EXCEPT ![c].commands = Append(@, command)] ELSE links

Online(cl) == clients[cl].at = "on"

\* attend: connects, and says where it stands.  One that is away may never come back.
Connect(cl) ==
  /\ clients[cl].at \in {"off", "away"} /\ session.open /\ Used < Connections
  /\ LET c == Used + 1
     IN  /\ conns' = [conns EXCEPT ![c] = [Unborn EXCEPT !.client = cl, !.at = "new",
                                                         !.listed = TRUE]]
         /\ links' = [links EXCEPT ![c] =
              [up |-> TRUE, frames |-> <<>>,
               commands |-> <<[kind |-> "attach", fresh |-> ~clients[cl].knows,
                               since |-> clients[cl].last]>>]]
         /\ clients' = [clients EXCEPT ![cl].at = "on", ![cl].conn = c, ![cl].out = 1]
  /\ UNCHANGED <<kernel, session, asks>>

\* Wrong form of Owing: one answer settles everything asked.
OwingNothing(client) == [client EXCEPT !.out = 0]

\* heard: an answer settles the oldest thing asked.
Owing(client) == [client EXCEPT !.out = IF @ > 0 THEN @ - 1 ELSE 0]

\* heard: what one frame does to a client.
Heard(client, frame) ==
  CASE frame.kind = "record" ->
         [client EXCEPT !.last = frame.seq, !.written = frame.seq,
                        !.over = @ \/ (~session.open /\ frame.seq = kernel.seq)]
    [] frame.kind = "attached" ->
         [Owing(client) EXCEPT !.last = frame.seq, !.knows = TRUE, !.busy = frame.busy]
    [] frame.kind = "answer" -> [Owing(client) EXCEPT !.busy = frame.busy]
    [] frame.kind = "busy" -> [client EXCEPT !.busy = frame.busy]
    [] frame.kind = "failed" -> Owing(client)
    [] OTHER -> client

\* What ends it: it was replaced, or the session there is not the one it followed.
Ends(client, frame) ==
  frame.kind = "failed" /\ (frame.about = "replaced"
                             \/ (frame.about = "attach" /\ ~client.over /\ client.knows))

\* catch_up: a client whose input has closed asks for the records it has not written.
CatchesUp(client) == client.detaching /\ client.written < client.last /\ client.out = 0

Hears(cl) ==
  LET c == clients[cl].conn
  IN  /\ Online(cl) /\ links[c].frames # <<>>
      /\ LET frame  == Head(links[c].frames)
             client == Heard(clients[cl], frame)
             read   == [links EXCEPT ![c].frames = Tail(@)]
         IN  IF Ends(clients[cl], frame)
             THEN /\ clients' = [clients EXCEPT ![cl] = [client EXCEPT !.at = "refused"]]
                  /\ links' = HangsUp(c)
             ELSE IF CatchesUp(client)
             THEN /\ clients' = [clients EXCEPT ![cl] = [client EXCEPT !.out = 1]]
                  /\ links' = [Sends(c, [kind |-> "attach", fresh |-> FALSE,
                                         since |-> client.written])
                                EXCEPT ![c].frames = Tail(@)]
             ELSE IF client.detaching /\ Resting(client)
             THEN /\ clients' = [clients EXCEPT ![cl] = [client EXCEPT !.at = "done"]]
                  /\ links' = HangsUp(c)
             ELSE clients' = [clients EXCEPT ![cl] = client] /\ links' = read
      /\ UNCHANGED <<kernel, session, asks, conns>>

\* The connection has ended: with the session, or it comes back for more.
HearsNothing(cl) ==
  LET c == clients[cl].conn
  IN  /\ Online(cl) /\ links[c].frames = <<>> /\ (conns[c].at = "closed" \/ ~links[c].up)
      /\ clients' = [clients EXCEPT ![cl].at = IF clients[cl].over THEN "done" ELSE "away"]
      /\ links' = [links EXCEPT ![c].up = FALSE]
      /\ UNCHANGED <<kernel, session, asks, conns>>

\* A line is read, from a pipe only while nothing is owed and no turn runs.
Reading(cl) == Online(cl) /\ ~clients[cl].detaching /\ (cl \in Paced => Resting(clients[cl]))

\* What has arrived is read before what is typed.
Types(cl) ==
  LET c == clients[cl].conn
      n == clients[cl].typed + 1
  IN  /\ Reading(cl) /\ links[c].frames = <<>> /\ n <= Len(Script[cl])
      /\ clients' = [clients EXCEPT ![cl].typed = n, ![cl].out = @ + 1]
      /\ \E kind \in Script[cl][n] : links' = Sends(c, [kind |-> kind])
      /\ UNCHANGED <<kernel, session, asks, conns>>

\* Its input has closed.
Closed(cl) ==
  LET c == clients[cl].conn
  IN  /\ Reading(cl) /\ links[c].frames = <<>> /\ clients[cl].typed = Len(Script[cl])
      /\ clients' = [clients EXCEPT ![cl].detaching = TRUE,
                                    ![cl].at = IF Resting(clients[cl]) THEN "done" ELSE @]
      /\ links' = IF Resting(clients[cl]) THEN HangsUp(c) ELSE links
      /\ UNCHANGED <<kernel, session, asks, conns>>

\* The network: a connection goes, with some of what was on the way.  One goes only
\* while another may arrive.
Cutoff(c) ==
  /\ links[c].up /\ Used < Connections
  /\ \E f \in 0..Len(links[c].frames), k \in 0..Len(links[c].commands) :
       links' = [links EXCEPT ![c] = [up |-> FALSE, frames |-> SubSeq(@.frames, 1, f),
                                      commands |-> SubSeq(@.commands, 1, k)]]
  /\ UNCHANGED <<kernel, session, asks, conns, clients>>

---------------------------------------------------------------------------
Loop == TakeOutcome \/ Forget \/ TellStanding \/ Attach \/ Refuse \/ Submit \/ Quit \/ End

Connection(c) ==
  \/ ReadAttach(c) \/ ReadReattach(c) \/ ReadCommand(c) \/ ReadTooLate(c)
  \/ Settle(c) \/ Unsettled(c) \/ Done(c) \/ Undone(c)
  \/ Replaced(c) \/ Hangup(c) \/ Hear(c) \/ HearVoice(c)
  \/ Deaf(c) \/ Stands(c) \/ LastWord(c)

Outside(cl) ==
  Connect(cl) \/ Hears(cl) \/ HearsNothing(cl) \/ Types(cl) \/ Closed(cl)

Next ==
  \/ Loop \/ TurnSays
  \/ \E c \in DOMAIN conns : Connection(c) \/ Cutoff(c)
  \/ \E cl \in Client : Outside(cl)

Spec == Init /\ [][Next]_vars

---------------------------------------------------------------------------
(* What must hold.                                                         *)

TypeOK ==
  /\ kernel.seq \in Nat \ {0} /\ kernel.fragments \in 0..MaxFragments
  /\ session.seated \in DOMAIN conns \cup {Nobody} /\ session.turns \in Seq(Client)
  /\ \A c \in DOMAIN conns :
       /\ conns[c].at \in {"unborn", "new", "attaching", "loop", "asking", "reattaching",
                           "standing", "closed"}
       /\ Len(conns[c].events) <= EventRoom /\ Len(conns[c].voice) <= VoiceRoom
       /\ conns[c].last \in 0..kernel.seq
  /\ \A cl \in Client :
       /\ clients[cl].at \in {"off", "on", "away", "refused", "done"}
       /\ clients[cl].last \in 0..kernel.seq /\ clients[cl].out \in Nat

\* The frames that answer something.
Answers(frames) == {i \in DOMAIN frames : frames[i].kind \in {"attached", "answer", "failed"}}

\* A client is owed exactly as many answers as it counts: one more, and it would wait
\* for ever; one less, and it would leave before it is answered.
OwedAnswers ==
  /\ TypeOK
  /\ \A cl \in Client :
       LET c == clients[cl].conn
       IN  Online(cl) /\ links[c].up /\ conns[c].at # "closed" =>
             clients[cl].out = Len(links[c].commands) + Cardinality(Answers(links[c].frames))
               + (IF conns[c].at \in {"attaching", "reattaching", "asking"} THEN 1 ELSE 0)

\* Whatever connections went and came back, a client hears every record once and in
\* order; one that is leaving may ask for some again.
NoHoles ==
  [][\A cl \in Client :
       LET c == clients[cl].conn
       IN  Online(cl) /\ ~clients[cl].detaching /\ clients'[cl].last # clients[cl].last
             /\ Head(links[c].frames).kind = "record"
             => clients'[cl].last = clients[cl].last + 1]_vars

\* The word that the session is at rest, or an answer that says so, goes out behind the
\* fragments of the turn it is about.
SaysHowItStands(frame) == frame.kind = "busy" \/ (frame.kind = "answer" /\ frame.about = "submit")

Overtaken(c, frame) ==
  ~frame.busy /\ \E i \in DOMAIN conns[c].events : conns[c].events[i] \in 1..frame.mark

WordComesLast ==
  \A c \in DOMAIN conns : \A i \in DOMAIN links[c].frames :
    SaysHowItStands(links[c].frames[i]) => ~Overtaken(c, links[c].frames[i])

\* Once everybody has read what there is to read, a client knows every record and
\* whether the session is busy, however much its connection lost.
Quiet(c) ==
  /\ conns[c].at = "loop" /\ links[c].up
  /\ links[c].commands = <<>> /\ links[c].frames = <<>>
  /\ conns[c].events = <<>> /\ conns[c].voice = <<>>
  /\ ~conns[c].lagged /\ ~conns[c].deaf /\ ~conns[c].notified

AtRestTheyAgree ==
  \A cl \in Client :
    Online(cl) /\ Quiet(clients[cl].conn) /\ session.open =>
      clients[cl].last = kernel.seq /\ clients[cl].busy = session.busy

\* A client that has attached takes its connection to have dropped only if it did: one
\* whose session ends is told so, and one that is replaced.
DroppedOnlyIfCut ==
  [][\A cl \in Client :
       Online(cl) /\ clients'[cl].at = "away"
         => ~links[clients[cl].conn].up \/ ~clients[cl].knows]_vars

\* What the comment in Client::attend says: a client whose input has closed waits for
\* its turn before it goes.  One that never lost a connection, at least.
WaitsForItsTurn ==
  \A cl \in Client :
    clients[cl].at = "done" /\ ~clients[cl].over
      /\ (\A c \in DOMAIN conns : conns[c].client = cl => c = clients[cl].conn) =>
      \A i \in DOMAIN session.turns : session.turns[i] # cl

\* What `seated` says: who attached last has the session, and is not let go.
LetGoForAnother ==
  [][\A c \in DOMAIN conns : Replaced(c) => session.seated # c]_vars

\* The same as WordComesLast, of an attach as well.
WordAlwaysLast ==
  \A c \in DOMAIN conns : \A i \in DOMAIN links[c].frames :
    links[c].frames[i].kind \in {"busy", "answer"} => ~Overtaken(c, links[c].frames[i])
=============================================================================
