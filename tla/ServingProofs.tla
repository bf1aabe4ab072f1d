--------------------------- MODULE ServingProofs ---------------------------
(***************************************************************************)
(* A served session: what the connections, the loop, the turn and the      *)
(* clients hold of each other, in one inductive invariant.                 *)
(*                                                                         *)
(* ServingInv says who waits for what (AsksShown, ConnPlaced), what is on  *)
(* the way of the log (ConnFollows, Follows), of the turn (ConnMarked,     *)
(* ConnTold, Told) and of answers (Counted).  Frames on a link are read as *)
(* what the client will know when it has read them: Leads and InTurn of    *)
(* the records, Leaves of the turn.  First what these make of one list     *)
(* behind another and of a list without its first; then, for a step of a   *)
(* connection, of the loop and of a client, what it must show of what it   *)
(* touches; then one lemma for each action, and the properties.            *)
(***************************************************************************)
EXTENDS Serving, FiniteSetTheorems, TLAPS

---------------------------------------------------------------------------
(* What everything is.                                                     *)

Abouts == {"attach", "submit", "standing", "replaced"}

Frame ==
  [kind : {"record"}, seq : Nat]
    \cup [kind : {"missed", "model", "fragment"}]
    \cup [kind : {"failed"}, about : {"attach", "submit", "replaced"}]
    \cup [kind : {"attached"}, seq : Nat, busy : BOOLEAN]
    \cup [kind : {"answer", "busy"}, about : Abouts, busy : BOOLEAN, mark : Nat]
    \cup [kind : {"busy"}, busy : BOOLEAN, mark : Nat]

CommandType ==
  [kind : {"attach"}, fresh : BOOLEAN, since : Nat] \cup [kind : {"message", "quit"}]

AskType == [what : {"attach", "message", "quit", "standing", "left"}, from : 1..Connections]
WordType == [about : Abouts, busy : BOOLEAN, mark : Nat, seq : Nat]
VoiceType == [kind : {"busy"}, busy : BOOLEAN, mark : Nat] \cup [kind : {"model"}]

ConnType ==
  [client : Client \cup {Nobody},
   at : {"unborn", "new", "attaching", "loop", "asking", "reattaching", "standing", "closed"},
   last : Nat, since : Nat, fresh : BOOLEAN, events : Seq(Nat), lagged : BOOLEAN,
   hears : BOOLEAN, voice : Seq(VoiceType), deaf : BOOLEAN, notified : BOOLEAN,
   listed : BOOLEAN, answer : Seq(WordType)]

LinkType == [up : BOOLEAN, commands : Seq(CommandType), frames : Seq(Frame)]

ClientType ==
  [at : {"off", "on", "away", "refused", "done"}, conn : Nat, knows : BOOLEAN, last : Nat,
   written : Nat, out : Nat, busy : BOOLEAN, typed : Nat, detaching : BOOLEAN, over : BOOLEAN]

ServingTypes ==
  /\ kernel \in [seq : Nat \ {0}, fragments : 0..MaxFragments]
  /\ session \in [busy : BOOLEAN, turns : Seq(Client), seated : 1..Connections \cup {Nobody},
                  leaving : BOOLEAN, open : BOOLEAN]
  /\ asks \in Seq(AskType)
  /\ conns \in [1..Connections -> ConnType]
  /\ links \in [1..Connections -> LinkType]
  /\ clients \in [Client -> ClientType]

---------------------------------------------------------------------------
(* What a client will know once it has read these frames.                  *)

\* What says how far the log goes, and what says whether the session is busy.
Bearing(frame) == frame.kind \in {"record", "attached"}
Telling(frame) == frame.kind \in {"attached", "answer", "busy"}

\* Who knew the records up to `from` knows those up to `to`.
Leads(frames, from, to) ==
  /\ \A i \in DOMAIN frames :
       Bearing(frames[i]) /\ (\A j \in DOMAIN frames : j > i => ~Bearing(frames[j]))
         => frames[i].seq = to
  /\ (\A i \in DOMAIN frames : ~Bearing(frames[i])) => from = to

\* No record is left out on the way, and none comes twice.
InTurn(frames, from) ==
  \A i \in DOMAIN frames :
    frames[i].kind = "record" =>
      /\ (\A j \in DOMAIN frames : j < i => ~Bearing(frames[j])) => frames[i].seq = from + 1
      /\ \A j \in DOMAIN frames :
           /\ j < i /\ Bearing(frames[j])
           /\ \A k \in DOMAIN frames : j < k /\ k < i => ~Bearing(frames[k])
           => frames[i].seq = frames[j].seq + 1

\* The last of these that tells says this.
TellsLast(frames, busy) ==
  \A i \in DOMAIN frames :
    Telling(frames[i]) /\ (\A j \in DOMAIN frames : j > i => ~Telling(frames[j]))
      => frames[i].busy = busy

Silent(frames) == \A i \in DOMAIN frames : ~Telling(frames[i])

Leaves(frames, from, to) == TellsLast(frames, to) /\ (Silent(frames) => from = to)

---------------------------------------------------------------------------
(* The inductive invariant.  First, who is where, and what is asked.       *)

Asking1 == {"attaching", "reattaching", "asking"}
Going == {"loop", "asking", "reattaching", "standing"}

\* What was asked is asked by a connection that waits for it, and answered once.
AskFits(what, conn) ==
  CASE what = "left"     -> conn.at = "closed"
    [] what = "attach"   -> conn.at \in {"attaching", "reattaching"} /\ conn.answer = <<>>
    [] what = "standing" -> conn.at = "standing" /\ conn.answer = <<>>
    [] OTHER             -> conn.at = "asking" /\ conn.answer = <<>>

AnswerFits(about, at) ==
  CASE about = "attach"   -> at \in {"attaching", "reattaching"}
    [] about = "standing" -> at = "standing"
    [] OTHER              -> at = "asking"

AsksShown ==
  /\ ~session.open => asks = <<>>
  /\ \A k \in DOMAIN asks : AskFits(asks[k].what, conns[asks[k].from])
  /\ \A j, k \in DOMAIN asks : asks[j].from = asks[k].from => j = k

ConnPlaced(conn, link) ==
  /\ conn.at = "unborn" => link = [up |-> FALSE, commands |-> <<>>, frames |-> <<>>]
  /\ conn.at # "unborn" => conn.client \in Client
  /\ \A i \in DOMAIN conn.answer : AnswerFits(conn.answer[i].about, conn.at)
  /\ conn.at = "new" =>
       IF link.commands = <<>> THEN ~link.up ELSE Head(link.commands).kind = "attach"
  /\ conn.at \in {"new", "attaching"} => link.frames = <<>>

Counted(client, conn, link) ==
  link.up /\ conn.at # "closed" =>
    client.out = Len(link.commands) + Cardinality(Answers(link.frames))
                   + (IF conn.at \in Asking1 THEN 1 ELSE 0)

BornInOrder ==
  \E n \in 0..Connections : \A c \in 1..Connections : conns[c].at # "unborn" <=> c <= n

Attended ==
  \A cl \in Client : Online(cl) =>
    /\ clients[cl].conn \in 1..Connections
    /\ conns[clients[cl].conn].client = cl /\ conns[clients[cl].conn].at # "unborn"

TurnShown == session.busy => session.turns # <<>>

---------------------------------------------------------------------------
(* Then the records.                                                       *)

\* An attach on a connection that has had one is of a client that is leaving.
CommandFits(conn, i, command, k) ==
  command.kind = "attach" =>
    IF conn.at = "new" /\ i = 1 THEN command.since <= k.seq
    ELSE ~command.fresh /\ command.since < k.seq

ConnFollows(conn, link, k, open) ==
  /\ conn.last <= k.seq
  /\ Len(conn.events) <= EventRoom
  /\ conn.at \in {"attaching", "reattaching"} => conn.since <= k.seq
  /\ conn.at = "reattaching" => ~conn.fresh /\ conn.since < k.seq
  /\ conn.at \in Going /\ conn.last < k.seq =>
       conn.lagged \/ \E i \in DOMAIN conn.events : conn.events[i] = Record
  /\ \A i \in DOMAIN link.commands : CommandFits(conn, i, link.commands[i], k)
  /\ \A i \in DOMAIN link.frames :
       /\ Bearing(link.frames[i]) => link.frames[i].seq <= k.seq
       /\ link.frames[i].kind = "attached" /\ ~open => link.frames[i].seq < k.seq
  /\ \A i \in DOMAIN conn.answer :
       conn.answer[i].seq <= k.seq /\ (~open => conn.answer[i].seq < k.seq)

IsReplaced(frame) == frame.kind = "failed" /\ frame.about = "replaced"

Follows(client, conn, link, k, open) ==
  /\ conn.at = "new" /\ link.commands # <<>> =>
       /\ Head(link.commands).fresh = ~client.knows
       /\ Head(link.commands).since = client.last
  /\ conn.at = "attaching" => conn.fresh = ~client.knows /\ conn.since = client.last
  /\ conn.at = "reattaching" => client.detaching
  /\ \A i \in DOMAIN link.commands :
       link.commands[i].kind = "attach" /\ ~(conn.at = "new" /\ i = 1) => client.detaching
  /\ ~client.detaching => InTurn(link.frames, client.last)
  /\ link.up /\ conn.at \in Going => Leads(link.frames, client.last, conn.last)
  /\ link.up /\ conn.at = "closed" =>
       \/ \E i \in DOMAIN link.frames : IsReplaced(link.frames[i])
       \/ ~open /\ Leads(link.frames, client.last, k.seq)
       \/ ~client.knows /\ \A i \in DOMAIN link.frames : link.frames[i].kind # "attached"

ClientsShown ==
  \A cl \in Client :
    /\ clients[cl].last <= kernel.seq
    /\ ~session.open /\ clients[cl].last = kernel.seq => clients[cl].over

---------------------------------------------------------------------------
(* And last what the loop says.                                            *)

ConnMarked(conn, link, fragments) ==
  /\ \A i \in DOMAIN conn.answer : conn.answer[i].mark <= fragments
  /\ \A i \in DOMAIN conn.voice : Telling(conn.voice[i]) => conn.voice[i].mark <= fragments
  /\ \A i \in DOMAIN link.frames : SaysHowItStands(link.frames[i]) =>
       /\ link.frames[i].mark <= fragments
       /\ \A j \in DOMAIN conn.events :
            conn.events[j] # Record => conn.events[j] > link.frames[i].mark

ConnHears(conn) ==
  /\ Len(conn.voice) <= VoiceRoom
  /\ conn.at \in Going \/ conn.answer # <<>> => conn.hears
  /\ ~conn.hears => conn.voice = <<>>
  /\ conn.at \notin {"unborn", "closed"} \/ ~conn.hears

\* Whether what the connection has in hand settles it.
Pending(conn) == conn.answer # <<>> /\ Head(conn.answer).about # "replaced"

ConnTold(conn, busy) ==
  /\ TellsLast(conn.voice, busy)
  /\ Silent(conn.voice) /\ ~conn.deaf /\ Pending(conn) => Head(conn.answer).busy = busy

Told(client, conn, link, busy) ==
  link.up /\ Silent(conn.voice) /\ ~conn.deaf /\ ~Pending(conn)
    /\ conn.at \in {"loop", "asking", "reattaching"}
    => Leaves(link.frames, client.busy, busy)

---------------------------------------------------------------------------
(* Together.                                                               *)

ConnInv(conn, link, k, s) ==
  /\ ConnPlaced(conn, link)
  /\ ConnFollows(conn, link, k, s.open)
  /\ ConnMarked(conn, link, k.fragments)
  /\ ConnHears(conn)
  /\ s.open => ConnTold(conn, s.busy)

ClientInv(client, conn, link, k, s) ==
  /\ Counted(client, conn, link)
  /\ Follows(client, conn, link, k, s.open)
  /\ s.open => Told(client, conn, link, s.busy)

ServingInv ==
  /\ ServingTypes /\ AsksShown /\ BornInOrder /\ Attended /\ TurnShown /\ ClientsShown
  /\ \A c \in 1..Connections : ConnInv(conns[c], links[c], kernel, session)
  /\ \A cl \in Client : Online(cl) =>
       ClientInv(clients[cl], conns[clients[cl].conn], links[clients[cl].conn], kernel, session)

---------------------------------------------------------------------------
(* Lists.                                                                  *)

\* What a frame carries has its type.
LEMMA FrameFacts ==
  ASSUME NEW f \in Frame
  PROVE  /\ Bearing(f) => f.seq \in Nat
         /\ Telling(f) => f.busy \in BOOLEAN
         /\ SaysHowItStands(f) => f.mark \in Nat
BY DEF Frame, Bearing, Telling, SaysHowItStands

\* Where the members of two joined lists are.
LEMMA Joined ==
  ASSUME NEW S, NEW f \in Seq(S), NEW g \in Seq(S)
  PROVE  /\ f \o g \in Seq(S) /\ Len(f \o g) = Len(f) + Len(g)
         /\ \A i \in DOMAIN f : i \in DOMAIN (f \o g) /\ (f \o g)[i] = f[i]
         /\ \A i \in DOMAIN g : Len(f) + i \in DOMAIN (f \o g) /\ (f \o g)[Len(f) + i] = g[i]
         /\ \A i \in DOMAIN (f \o g) :
              i \in DOMAIN f \/ (i - Len(f) \in DOMAIN g /\ i > Len(f))
OBVIOUS

\* What is behind the first of a list.
LEMMA Behind ==
  ASSUME NEW S, NEW f \in Seq(S), f # <<>>
  PROVE  /\ Tail(f) \in Seq(S) /\ Len(Tail(f)) = Len(f) - 1 /\ Head(f) = f[1] /\ f[1] \in S
         /\ 1 \in DOMAIN f
         /\ \A i \in DOMAIN Tail(f) : i + 1 \in DOMAIN f /\ Tail(f)[i] = f[i + 1]
         /\ \A i \in DOMAIN f : i = 1 \/ i - 1 \in DOMAIN Tail(f)
OBVIOUS

\* A list of one.
LEMMA OneOf ==
  ASSUME NEW S, NEW e \in S
  PROVE  /\ <<e>> \in Seq(S) /\ Len(<<e>>) = 1 /\ DOMAIN <<e>> = {1} /\ <<e>>[1] = e
         /\ Head(<<e>>) = e /\ <<e>> # <<>>
OBVIOUS

\* A list is a function of its places.
LEMMA Ordered ==
  ASSUME NEW S, NEW f \in Seq(S)
  PROVE  /\ DOMAIN f = 1..Len(f) /\ Len(f) \in Nat /\ DOMAIN f \subseteq Nat
         /\ \A i \in DOMAIN f : f[i] \in S
OBVIOUS

\* How many of some frames answer something.
AnswersIn(frames) == Cardinality(Answers(frames))

\* The answers among some frames can be counted.
LEMMA AnswersCount ==
  ASSUME NEW f \in Seq(Frame)
  PROVE  /\ IsFiniteSet(Answers(f)) /\ AnswersIn(f) \in Nat /\ Answers(f) \subseteq DOMAIN f
         /\ \A i \in Answers(f) : AnswersIn(f) >= 1
<1>1. Answers(f) \subseteq 1..Len(f) /\ DOMAIN f = 1..Len(f) /\ Len(f) \in Nat
  BY DEF Answers
<1>2. IsFiniteSet(1..Len(f))
  BY <1>1, FS_Interval
<1>3. IsFiniteSet(Answers(f))
  BY <1>1, <1>2, FS_Subset
<1>4. AnswersIn(f) \in Nat
  BY <1>3, FS_CardinalityType DEF AnswersIn
<1>5. ASSUME NEW i \in Answers(f) PROVE AnswersIn(f) >= 1
  <2>1. AnswersIn(f) # 0
    BY <1>3, <1>5, FS_EmptySet DEF AnswersIn
  <2> QED BY <2>1, <1>4
<1> QED BY <1>1, <1>3, <1>4, <1>5

\* Frames behind others: their answers come on top.
LEMMA AnswersJoined ==
  ASSUME NEW f \in Seq(Frame), NEW g \in Seq(Frame)
  PROVE  AnswersIn(f \o g) = AnswersIn(f) + AnswersIn(g)
<1> DEFINE G == {Len(f) + i : i \in Answers(g)}
<1>1. /\ DOMAIN f = 1..Len(f) /\ Len(f) \in Nat /\ DOMAIN g = 1..Len(g) /\ Len(g) \in Nat
      /\ Answers(f) \subseteq DOMAIN f /\ Answers(g) \subseteq DOMAIN g
  BY DEF Answers
<1>2. ASSUME NEW i \in Answers(f \o g) PROVE i \in Answers(f) \cup G
  <2>1. i \in DOMAIN (f \o g)
    BY DEF Answers
  <2>2. CASE i \in DOMAIN f
    BY <2>2, Joined DEF Answers
  <2>3. CASE i - Len(f) \in DOMAIN g /\ i > Len(f)
    <3>1. (f \o g)[Len(f) + (i - Len(f))] = g[i - Len(f)]
      BY <2>3, Joined
    <3>2. i \in Nat /\ Len(f) + (i - Len(f)) = i
      BY <2>1, <1>1, Joined, Ordered
    <3>3. i - Len(f) \in Answers(g)
      BY <2>3, <3>1, <3>2 DEF Answers
    <3> QED BY <3>2, <3>3
  <2> QED BY <2>1, <2>2, <2>3, Joined
<1>3. ASSUME NEW i \in Answers(f) PROVE i \in Answers(f \o g)
  BY <1>3, Joined DEF Answers
<1>4. ASSUME NEW i \in Answers(g) PROVE Len(f) + i \in Answers(f \o g)
  BY <1>4, Joined DEF Answers
<1>5. Answers(f \o g) = Answers(f) \cup G
  BY <1>2, <1>3, <1>4
<1>6. Answers(f) \cap G = {}
  <2> SUFFICES ASSUME NEW i \in Answers(f), NEW j \in Answers(g), i = Len(f) + j PROVE FALSE
    OBVIOUS
  <2>1. i \in 1..Len(f) /\ j \in 1..Len(g)
    BY <1>1
  <2> QED BY <2>1, <1>1
<1>7. IsFiniteSet(Answers(f)) /\ IsFiniteSet(Answers(g))
  BY AnswersCount
<1>8. ExistsBijection(Answers(g), G)
  <2> DEFINE B == [i \in Answers(g) |-> Len(f) + i]
  <2>1. B \in [Answers(g) -> G]
    OBVIOUS
  <2>2. \A i, j \in Answers(g) : B[i] = B[j] => i = j
    <3> SUFFICES ASSUME NEW i \in Answers(g), NEW j \in Answers(g), Len(f) + i = Len(f) + j
                 PROVE  i = j
      OBVIOUS
    <3>1. i \in 1..Len(g) /\ j \in 1..Len(g)
      BY <1>1
    <3> QED BY <3>1, <1>1
  <2>3. \A e \in G : \E i \in Answers(g) : B[i] = e
    OBVIOUS
  <2>4. B \in Bijection(Answers(g), G)
    BY <2>1, <2>2, <2>3 DEF Bijection, Injection, Surjection, IsInjective
  <2> QED BY <2>4 DEF ExistsBijection
<1>9. IsFiniteSet(G) /\ Cardinality(G) = Cardinality(Answers(g))
  BY <1>7, <1>8, FS_Bijection
<1> HIDE DEF G
<1>10. Cardinality(Answers(f) \cup G)
         = Cardinality(Answers(f)) + Cardinality(G) - Cardinality(Answers(f) \cap G)
  BY <1>7, <1>9, FS_Union
<1>11. Cardinality(Answers(f) \cap G) = 0
  BY <1>6, FS_EmptySet
<1>12. Cardinality(Answers(f)) \in Nat /\ Cardinality(Answers(g)) \in Nat
  BY <1>7, FS_CardinalityType
<1> QED BY <1>5, <1>9, <1>10, <1>11, <1>12 DEF AnswersIn

\* One frame, and none.
LEMMA AnswersOne ==
  ASSUME NEW e \in Frame
  PROVE  AnswersIn(<<e>>) = IF e.kind \in {"attached", "answer", "failed"} THEN 1 ELSE 0
<1>1. Answers(<<e>>) = IF e.kind \in {"attached", "answer", "failed"} THEN {1} ELSE {}
  BY DEF Answers
<1> QED BY <1>1, FS_Singleton, FS_EmptySet DEF AnswersIn

\* Records, fragments and what is said to everybody answer nobody.
LEMMA AnswersNone ==
  ASSUME NEW f \in Seq(Frame),
         \A i \in DOMAIN f : f[i].kind \notin {"attached", "answer", "failed"}
  PROVE  AnswersIn(f) = 0
<1>1. Answers(f) = {}
  BY DEF Answers
<1> QED BY <1>1, FS_EmptySet DEF AnswersIn

\* The first frame is read.
LEMMA AnswersTail ==
  ASSUME NEW f \in Seq(Frame), f # <<>>
  PROVE  AnswersIn(f) = AnswersIn(Tail(f))
           + (IF f[1].kind \in {"attached", "answer", "failed"} THEN 1 ELSE 0)
<1>1. f = <<f[1]>> \o Tail(f) /\ f[1] \in Frame /\ Tail(f) \in Seq(Frame)
  OBVIOUS
<1>2. <<f[1]>> \in Seq(Frame)
  BY <1>1
<1>3. AnswersIn(<<f[1]>> \o Tail(f)) = AnswersIn(<<f[1]>>) + AnswersIn(Tail(f))
  BY <1>1, <1>2, AnswersJoined
<1>4. AnswersIn(Tail(f)) \in Nat
  BY <1>1, AnswersCount
<1>5. AnswersIn(<<f[1]>>) = IF f[1].kind \in {"attached", "answer", "failed"} THEN 1 ELSE 0
  BY <1>1, AnswersOne
<1>6. AnswersIn(f) = AnswersIn(<<f[1]>> \o Tail(f))
  BY <1>1
<1> QED BY <1>3, <1>4, <1>5, <1>6

\* Frames behind others, and the first of them read: what a client will know of the log.
LEMMA LeadsJoined ==
  ASSUME NEW f \in Seq(Frame), NEW g \in Seq(Frame), NEW a, NEW b, NEW c,
         Leads(f, a, b), Leads(g, b, c)
  PROVE  Leads(f \o g, a, c)
<1> DEFINE h == f \o g
<1>1. /\ \A i \in DOMAIN f : i \in DOMAIN h /\ h[i] = f[i]
      /\ \A i \in DOMAIN g : Len(f) + i \in DOMAIN h /\ h[Len(f) + i] = g[i]
      /\ \A i \in DOMAIN h : i \in DOMAIN f \/ (i - Len(f) \in DOMAIN g /\ i > Len(f))
      /\ DOMAIN f = 1..Len(f) /\ Len(f) \in Nat /\ DOMAIN g \subseteq Nat \ {0}
      /\ DOMAIN h \subseteq Nat
  BY Joined, Ordered
<1> HIDE DEF h
<1>2. ASSUME NEW i \in DOMAIN h, Bearing(h[i]), \A j \in DOMAIN h : j > i => ~Bearing(h[j])
      PROVE  h[i].seq = c
  <2>1. CASE i \in DOMAIN f
    <3>1. \A j \in DOMAIN g : ~Bearing(g[j])
      <4> SUFFICES ASSUME NEW j \in DOMAIN g PROVE ~Bearing(g[j])
        OBVIOUS
      <4>1. Len(f) + j \in DOMAIN h /\ h[Len(f) + j] = g[j]
        BY <1>1
      <4>2. Len(f) + j > i
        BY <1>1, <2>1
      <4> QED BY <4>1, <4>2, <1>2
    <3>2. \A j \in DOMAIN f : j > i => ~Bearing(f[j])
      BY <1>1, <1>2
    <3>3. f[i].seq = b
      BY <1>1, <1>2, <2>1, <3>2 DEF Leads
    <3>4. b = c
      BY <3>1 DEF Leads
    <3> QED BY <1>1, <2>1, <3>3, <3>4
  <2>2. CASE i - Len(f) \in DOMAIN g /\ i > Len(f)
    <3> DEFINE n == i - Len(f)
    <3>1. n \in DOMAIN g /\ Len(f) + n = i
      BY <1>1, <2>2
    <3>2. h[i] = g[n]
      BY <1>1, <3>1
    <3>3. \A j \in DOMAIN g : j > n => ~Bearing(g[j])
      <4> SUFFICES ASSUME NEW j \in DOMAIN g, j > n PROVE ~Bearing(g[j])
        OBVIOUS
      <4>1. Len(f) + j \in DOMAIN h /\ h[Len(f) + j] = g[j]
        BY <1>1
      <4>2. Len(f) + j > i
        BY <1>1, <3>1
      <4> QED BY <4>1, <4>2, <1>2
    <3> HIDE DEF n
    <3> QED BY <3>1, <3>2, <3>3, <1>2 DEF Leads
  <2> QED BY <2>1, <2>2, <1>1
<1>3. ASSUME \A i \in DOMAIN h : ~Bearing(h[i]) PROVE a = c
  <2>1. \A i \in DOMAIN f : ~Bearing(f[i])
    BY <1>1, <1>3
  <2>2. \A i \in DOMAIN g : ~Bearing(g[i])
    BY <1>1, <1>3
  <2> QED BY <2>1, <2>2 DEF Leads
<1>4. Leads(h, a, c)
  BY <1>2, <1>3 DEF Leads
<1> QED BY <1>4 DEF h

Further(frame, from) == IF Bearing(frame) THEN frame.seq ELSE from

\* Who has read the first frame knows what it says, and the rest leads on from there.
LEMMA LeadsTail ==
  ASSUME NEW f \in Seq(Frame), f # <<>>, NEW a, NEW c, Leads(f, a, c)
  PROVE  Leads(Tail(f), Further(f[1], a), c)
<1> DEFINE g == Tail(f)
<1>1. /\ \A i \in DOMAIN g : i + 1 \in DOMAIN f /\ g[i] = f[i + 1]
      /\ \A i \in DOMAIN f : i = 1 \/ i - 1 \in DOMAIN g
      /\ DOMAIN g \subseteq Nat \ {0} /\ DOMAIN f \subseteq Nat \ {0} /\ 1 \in DOMAIN f
  BY Behind, Ordered
<1> HIDE DEF g
<1>2. ASSUME NEW i \in DOMAIN g, Bearing(g[i]), \A j \in DOMAIN g : j > i => ~Bearing(g[j])
      PROVE  g[i].seq = c
  <2>1. \A j \in DOMAIN f : j > i + 1 => ~Bearing(f[j])
    <3> SUFFICES ASSUME NEW j \in DOMAIN f, j > i + 1 PROVE ~Bearing(f[j])
      OBVIOUS
    <3>1. j - 1 \in DOMAIN g /\ (j - 1) + 1 = j /\ j - 1 > i
      BY <1>1
    <3> QED BY <3>1, <1>1, <1>2
  <2> QED BY <2>1, <1>1, <1>2 DEF Leads
<1>3. ASSUME \A i \in DOMAIN g : ~Bearing(g[i]) PROVE Further(f[1], a) = c
  <2>1. \A j \in DOMAIN f : j > 1 => ~Bearing(f[j])
    <3> SUFFICES ASSUME NEW j \in DOMAIN f, j > 1 PROVE ~Bearing(f[j])
      OBVIOUS
    <3>1. j - 1 \in DOMAIN g /\ (j - 1) + 1 = j
      BY <1>1
    <3> QED BY <3>1, <1>1, <1>3
  <2>2. CASE Bearing(f[1])
    BY <2>1, <2>2, <1>1 DEF Leads, Further
  <2>3. CASE ~Bearing(f[1])
    <3>1. \A j \in DOMAIN f : ~Bearing(f[j])
      BY <2>1, <2>3, <1>1
    <3> QED BY <3>1, <2>3 DEF Leads, Further
  <2> QED BY <2>2, <2>3
<1>4. Leads(g, Further(f[1], a), c)
  BY <1>2, <1>3 DEF Leads
<1> QED BY <1>4 DEF g

\* Frames that say nothing of the log leave a client where it was.
LEMMA LeadsNowhere ==
  ASSUME NEW f \in Seq(Frame), NEW a, \A i \in DOMAIN f : ~Bearing(f[i])
  PROVE  Leads(f, a, a) /\ InTurn(f, a)
BY DEF Leads, InTurn, Bearing

\* The same of the order they come in.
LEMMA InTurnJoined ==
  ASSUME NEW f \in Seq(Frame), NEW g \in Seq(Frame), NEW a, NEW b,
         InTurn(f, a), Leads(f, a, b), InTurn(g, b)
  PROVE  InTurn(f \o g, a)
<1> DEFINE h == f \o g
<1>1. /\ \A i \in DOMAIN f : i \in DOMAIN h /\ h[i] = f[i]
      /\ \A i \in DOMAIN g : Len(f) + i \in DOMAIN h /\ h[Len(f) + i] = g[i]
      /\ \A i \in DOMAIN h : i \in DOMAIN f \/ (i - Len(f) \in DOMAIN g /\ i > Len(f))
      /\ DOMAIN f = 1..Len(f) /\ Len(f) \in Nat /\ DOMAIN g \subseteq Nat \ {0}
      /\ DOMAIN h \subseteq Nat
  BY Joined, Ordered
<1> HIDE DEF h
<1> SUFFICES ASSUME NEW i \in DOMAIN h, h[i].kind = "record"
             PROVE  /\ (\A j \in DOMAIN h : j < i => ~Bearing(h[j])) => h[i].seq = a + 1
                    /\ \A j \in DOMAIN h :
                         /\ j < i /\ Bearing(h[j])
                         /\ \A k \in DOMAIN h : j < k /\ k < i => ~Bearing(h[k])
                         => h[i].seq = h[j].seq + 1
  BY DEF InTurn, h
<1>2. CASE i \in DOMAIN f
  <2>1. f[i].kind = "record" /\ h[i] = f[i]
    BY <1>1, <1>2
  <2>2. ASSUME \A j \in DOMAIN h : j < i => ~Bearing(h[j]) PROVE h[i].seq = a + 1
    <3>1. \A j \in DOMAIN f : j < i => ~Bearing(f[j])
      BY <1>1, <2>2
    <3> QED BY <3>1, <2>1, <1>2 DEF InTurn
  <2>3. ASSUME NEW j \in DOMAIN h, j < i, Bearing(h[j]),
               \A k \in DOMAIN h : j < k /\ k < i => ~Bearing(h[k])
        PROVE  h[i].seq = h[j].seq + 1
    <3>1. j \in DOMAIN f
      BY <1>1, <1>2, <2>3
    <3>2. \A k \in DOMAIN f : j < k /\ k < i => ~Bearing(f[k])
      BY <1>1, <2>3
    <3>3. Bearing(f[j]) /\ h[j] = f[j]
      BY <1>1, <3>1, <2>3
    <3> QED BY <3>1, <3>2, <3>3, <2>1, <2>3, <1>2 DEF InTurn
  <2> QED BY <2>2, <2>3
<1>3. CASE i - Len(f) \in DOMAIN g /\ i > Len(f)
  <2> DEFINE n == i - Len(f)
  <2>1. n \in DOMAIN g /\ Len(f) + n = i
    BY <1>1, <1>3
  <2> HIDE DEF n
  <2>2. h[i] = g[n] /\ g[n].kind = "record"
    BY <1>1, <2>1
  <2>3. ASSUME \A j \in DOMAIN g : j < n => ~Bearing(g[j]) PROVE h[i].seq = b + 1
    BY <2>1, <2>2, <2>3 DEF InTurn
  <2>4. ASSUME \A j \in DOMAIN h : j < i => ~Bearing(h[j]) PROVE h[i].seq = a + 1
    <3>1. \A j \in DOMAIN g : j < n => ~Bearing(g[j])
      <4> SUFFICES ASSUME NEW j \in DOMAIN g, j < n PROVE ~Bearing(g[j])
        OBVIOUS
      <4>1. Len(f) + j \in DOMAIN h /\ h[Len(f) + j] = g[j]
        BY <1>1
      <4>2. Len(f) + j < i
        BY <1>1, <2>1
      <4> QED BY <4>1, <4>2, <2>4
    <3>2. \A j \in DOMAIN f : ~Bearing(f[j])
      <4> SUFFICES ASSUME NEW j \in DOMAIN f PROVE ~Bearing(f[j])
        OBVIOUS
      <4>1. j < i /\ j \in DOMAIN h /\ h[j] = f[j]
        BY <1>1, <1>3
      <4> QED BY <4>1, <2>4
    <3>3. a = b
      BY <3>2 DEF Leads
    <3> QED BY <3>1, <3>3, <2>3
  <2>5. ASSUME NEW j \in DOMAIN h, j < i, Bearing(h[j]),
               \A k \in DOMAIN h : j < k /\ k < i => ~Bearing(h[k])
        PROVE  h[i].seq = h[j].seq + 1
    <3>1. CASE j \in DOMAIN f
      <4>1. \A k \in DOMAIN g : k < n => ~Bearing(g[k])
        <5> SUFFICES ASSUME NEW k \in DOMAIN g, k < n PROVE ~Bearing(g[k])
          OBVIOUS
        <5>1. Len(f) + k \in DOMAIN h /\ h[Len(f) + k] = g[k]
          BY <1>1
        <5>2. Len(f) + k < i /\ j < Len(f) + k
          BY <1>1, <2>1, <3>1
        <5> QED BY <5>1, <5>2, <2>5
      <4>2. \A k \in DOMAIN f : k > j => ~Bearing(f[k])
        <5> SUFFICES ASSUME NEW k \in DOMAIN f, k > j PROVE ~Bearing(f[k])
          OBVIOUS
        <5>1. k < i /\ k \in DOMAIN h /\ h[k] = f[k]
          BY <1>1, <1>3
        <5> QED BY <5>1, <2>5
      <4>3. Bearing(f[j]) /\ h[j] = f[j]
        BY <3>1, <1>1, <2>5
      <4>4. f[j].seq = b
        BY <3>1, <4>2, <4>3 DEF Leads
      <4> QED BY <4>1, <4>3, <4>4, <2>3
    <3>2. CASE j - Len(f) \in DOMAIN g /\ j > Len(f)
      <4> DEFINE m == j - Len(f)
      <4>1. m \in DOMAIN g /\ Len(f) + m = j /\ m < n
        BY <1>1, <2>1, <3>2, <2>5
      <4> HIDE DEF m
      <4>2. h[j] = g[m] /\ Bearing(g[m])
        BY <1>1, <4>1, <2>5
      <4>3. \A k \in DOMAIN g : m < k /\ k < n => ~Bearing(g[k])
        <5> SUFFICES ASSUME NEW k \in DOMAIN g, m < k, k < n PROVE ~Bearing(g[k])
          OBVIOUS
        <5>1. Len(f) + k \in DOMAIN h /\ h[Len(f) + k] = g[k]
          BY <1>1
        <5>2. Len(f) + k < i /\ j < Len(f) + k
          <6>1. k \in Nat /\ m \in Nat /\ n \in Nat /\ Len(f) \in Nat
            BY <1>1, <2>1, <4>1
          <6> QED BY <6>1, <2>1, <4>1
        <5> QED BY <5>1, <5>2, <2>5
      <4> QED BY <4>1, <4>2, <4>3, <2>1, <2>2 DEF InTurn
    <3> QED BY <3>1, <3>2, <1>1
  <2> QED BY <2>4, <2>5
<1> QED BY <1>1, <1>2, <1>3

\* The first record is the next one the client needs, and the rest are in turn behind it.
LEMMA InTurnTail ==
  ASSUME NEW f \in Seq(Frame), f # <<>>, NEW a, InTurn(f, a)
  PROVE  /\ InTurn(Tail(f), Further(f[1], a))
         /\ f[1].kind = "record" => f[1].seq = a + 1
<1> DEFINE g == Tail(f)
<1>1. /\ \A i \in DOMAIN g : i + 1 \in DOMAIN f /\ g[i] = f[i + 1]
      /\ \A i \in DOMAIN f : i = 1 \/ i - 1 \in DOMAIN g
      /\ DOMAIN g \subseteq Nat \ {0} /\ DOMAIN f \subseteq Nat \ {0} /\ 1 \in DOMAIN f
  BY Behind, Ordered
<1> HIDE DEF g
<1>2. ASSUME NEW i \in DOMAIN g, g[i].kind = "record"
      PROVE  /\ (\A j \in DOMAIN g : j < i => ~Bearing(g[j])) => g[i].seq = Further(f[1], a) + 1
             /\ \A j \in DOMAIN g :
                  /\ j < i /\ Bearing(g[j])
                  /\ \A k \in DOMAIN g : j < k /\ k < i => ~Bearing(g[k])
                  => g[i].seq = g[j].seq + 1
  <2>1. i + 1 \in DOMAIN f /\ g[i] = f[i + 1] /\ f[i + 1].kind = "record"
    BY <1>1, <1>2
  <2>2. ASSUME \A j \in DOMAIN g : j < i => ~Bearing(g[j])
        PROVE  g[i].seq = Further(f[1], a) + 1
    <3>1. \A j \in DOMAIN f : 1 < j /\ j < i + 1 => ~Bearing(f[j])
      <4> SUFFICES ASSUME NEW j \in DOMAIN f, 1 < j, j < i + 1 PROVE ~Bearing(f[j])
        OBVIOUS
      <4>1. j - 1 \in DOMAIN g /\ (j - 1) + 1 = j /\ j - 1 < i
        BY <1>1
      <4> QED BY <4>1, <1>1, <2>2
    <3>2. 1 < i + 1
      BY <1>1
    <3>3. CASE Bearing(f[1])
      BY <3>1, <3>2, <3>3, <2>1, <1>1 DEF InTurn, Further
    <3>4. CASE ~Bearing(f[1])
      <4>1. \A j \in DOMAIN f : j < i + 1 => ~Bearing(f[j])
        BY <3>1, <3>4, <1>1
      <4> QED BY <4>1, <3>4, <2>1 DEF InTurn, Further
    <3> QED BY <3>3, <3>4
  <2>3. ASSUME NEW j \in DOMAIN g, j < i, Bearing(g[j]),
               \A k \in DOMAIN g : j < k /\ k < i => ~Bearing(g[k])
        PROVE  g[i].seq = g[j].seq + 1
    <3>1. j + 1 \in DOMAIN f /\ g[j] = f[j + 1] /\ j + 1 < i + 1
      BY <1>1, <2>3
    <3>2. \A k \in DOMAIN f : j + 1 < k /\ k < i + 1 => ~Bearing(f[k])
      <4> SUFFICES ASSUME NEW k \in DOMAIN f, j + 1 < k, k < i + 1 PROVE ~Bearing(f[k])
        OBVIOUS
      <4>1. k - 1 \in DOMAIN g /\ (k - 1) + 1 = k /\ k - 1 < i /\ j < k - 1
        BY <1>1
      <4> QED BY <4>1, <1>1, <2>3
    <3> QED BY <3>1, <3>2, <2>1, <2>3 DEF InTurn
  <2> QED BY <2>2, <2>3
<1>3. InTurn(g, Further(f[1], a))
  BY <1>2 DEF InTurn
<1>4. ASSUME f[1].kind = "record" PROVE f[1].seq = a + 1
  BY <1>1, <1>4 DEF InTurn
<1> QED BY <1>3, <1>4 DEF g

\* What is left of frames that were on the way.
LEMMA InTurnCut ==
  ASSUME NEW f \in Seq(Frame), NEW a, InTurn(f, a), NEW n \in 0..Len(f)
  PROVE  InTurn(SubSeq(f, 1, n), a)
<1> DEFINE g == SubSeq(f, 1, n)
<1>1. /\ \A i \in DOMAIN g : i \in DOMAIN f /\ g[i] = f[i]
      /\ \A i \in DOMAIN f, j \in DOMAIN g : i < j => i \in DOMAIN g
  OBVIOUS
<1> HIDE DEF g
<1>2. ASSUME NEW i \in DOMAIN g, g[i].kind = "record"
      PROVE  /\ (\A j \in DOMAIN g : j < i => ~Bearing(g[j])) => g[i].seq = a + 1
             /\ \A j \in DOMAIN g :
                  /\ j < i /\ Bearing(g[j])
                  /\ \A k \in DOMAIN g : j < k /\ k < i => ~Bearing(g[k])
                  => g[i].seq = g[j].seq + 1
  <2>1. i \in DOMAIN f /\ f[i].kind = "record" /\ f[i] = g[i]
    BY <1>1, <1>2
  <2>2. ASSUME \A j \in DOMAIN g : j < i => ~Bearing(g[j]) PROVE g[i].seq = a + 1
    <3>1. \A j \in DOMAIN f : j < i => ~Bearing(f[j])
      BY <1>1, <2>2
    <3> QED BY <3>1, <2>1 DEF InTurn
  <2>3. ASSUME NEW j \in DOMAIN g, j < i, Bearing(g[j]),
               \A k \in DOMAIN g : j < k /\ k < i => ~Bearing(g[k])
        PROVE  g[i].seq = g[j].seq + 1
    <3>1. \A k \in DOMAIN f : j < k /\ k < i => ~Bearing(f[k])
      BY <1>1, <2>3
    <3> QED BY <3>1, <2>1, <2>3, <1>1 DEF InTurn
  <2> QED BY <2>2, <2>3
<1>3. InTurn(g, a)
  BY <1>2 DEF InTurn
<1> QED BY <1>3 DEF g

\* The same again: what a client will take the session to be at.
LEMMA LeavesJoined ==
  ASSUME NEW S, NEW f \in Seq(S), NEW g \in Seq(S), NEW a, NEW b, NEW c,
         Leaves(f, a, b), Leaves(g, b, c)
  PROVE  Leaves(f \o g, a, c)
<1> DEFINE h == f \o g
<1>1. /\ \A i \in DOMAIN f : i \in DOMAIN h /\ h[i] = f[i]
      /\ \A i \in DOMAIN g : Len(f) + i \in DOMAIN h /\ h[Len(f) + i] = g[i]
      /\ \A i \in DOMAIN h : i \in DOMAIN f \/ (i - Len(f) \in DOMAIN g /\ i > Len(f))
      /\ DOMAIN f = 1..Len(f) /\ Len(f) \in Nat /\ DOMAIN g \subseteq Nat \ {0}
      /\ DOMAIN h \subseteq Nat
  BY Joined, Ordered
<1> HIDE DEF h
<1>2. ASSUME NEW i \in DOMAIN h, Telling(h[i]), \A j \in DOMAIN h : j > i => ~Telling(h[j])
      PROVE  h[i].busy = c
  <2>1. CASE i \in DOMAIN f
    <3>1. \A j \in DOMAIN g : ~Telling(g[j])
      <4> SUFFICES ASSUME NEW j \in DOMAIN g PROVE ~Telling(g[j])
        OBVIOUS
      <4>1. Len(f) + j \in DOMAIN h /\ h[Len(f) + j] = g[j]
        BY <1>1
      <4>2. Len(f) + j > i
        BY <1>1, <2>1
      <4> QED BY <4>1, <4>2, <1>2
    <3>2. \A j \in DOMAIN f : j > i => ~Telling(f[j])
      BY <1>1, <1>2
    <3>3. f[i].busy = b
      BY <1>1, <1>2, <2>1, <3>2 DEF Leaves, TellsLast
    <3>4. b = c
      BY <3>1 DEF Leaves, Silent
    <3> QED BY <1>1, <2>1, <3>3, <3>4
  <2>2. CASE i - Len(f) \in DOMAIN g /\ i > Len(f)
    <3> DEFINE n == i - Len(f)
    <3>1. n \in DOMAIN g /\ Len(f) + n = i
      BY <1>1, <2>2
    <3>2. h[i] = g[n]
      BY <1>1, <3>1
    <3>3. \A j \in DOMAIN g : j > n => ~Telling(g[j])
      <4> SUFFICES ASSUME NEW j \in DOMAIN g, j > n PROVE ~Telling(g[j])
        OBVIOUS
      <4>1. Len(f) + j \in DOMAIN h /\ h[Len(f) + j] = g[j]
        BY <1>1
      <4>2. Len(f) + j > i
        BY <1>1, <3>1
      <4> QED BY <4>1, <4>2, <1>2
    <3> HIDE DEF n
    <3> QED BY <3>1, <3>2, <3>3, <1>2 DEF Leaves, TellsLast
  <2> QED BY <2>1, <2>2, <1>1
<1>3. ASSUME Silent(h) PROVE a = c
  <2>1. Silent(f)
    BY <1>1, <1>3 DEF Silent
  <2>2. Silent(g)
    BY <1>1, <1>3 DEF Silent
  <2> QED BY <2>1, <2>2 DEF Leaves
<1>4. Leaves(h, a, c)
  BY <1>2, <1>3 DEF Leaves, TellsLast
<1> QED BY <1>4 DEF h

\* The last word stays the last when the first frame has been read.
LEMMA TellsTail ==
  ASSUME NEW S, NEW f \in Seq(S), f # <<>>, NEW c, TellsLast(f, c)
  PROVE  /\ TellsLast(Tail(f), c)
         /\ Silent(Tail(f)) => IF Telling(f[1]) THEN f[1].busy = c ELSE Silent(f)
<1> DEFINE g == Tail(f)
<1>1. /\ \A i \in DOMAIN g : i + 1 \in DOMAIN f /\ g[i] = f[i + 1]
      /\ \A i \in DOMAIN f : i = 1 \/ i - 1 \in DOMAIN g
      /\ DOMAIN g \subseteq Nat \ {0} /\ DOMAIN f \subseteq Nat \ {0} /\ 1 \in DOMAIN f
  BY Behind, Ordered
<1> HIDE DEF g
<1>2. ASSUME NEW i \in DOMAIN g, Telling(g[i]), \A j \in DOMAIN g : j > i => ~Telling(g[j])
      PROVE  g[i].busy = c
  <2>1. \A j \in DOMAIN f : j > i + 1 => ~Telling(f[j])
    <3> SUFFICES ASSUME NEW j \in DOMAIN f, j > i + 1 PROVE ~Telling(f[j])
      OBVIOUS
    <3>1. j - 1 \in DOMAIN g /\ (j - 1) + 1 = j /\ j - 1 > i
      BY <1>1
    <3> QED BY <3>1, <1>1, <1>2
  <2> QED BY <2>1, <1>1, <1>2 DEF TellsLast
<1>3. ASSUME Silent(g) PROVE IF Telling(f[1]) THEN f[1].busy = c ELSE Silent(f)
  <2>1. \A j \in DOMAIN f : j > 1 => ~Telling(f[j])
    <3> SUFFICES ASSUME NEW j \in DOMAIN f, j > 1 PROVE ~Telling(f[j])
      OBVIOUS
    <3>1. j - 1 \in DOMAIN g /\ (j - 1) + 1 = j
      BY <1>1
    <3> QED BY <3>1, <1>1, <1>3 DEF Silent
  <2>2. CASE Telling(f[1])
    BY <2>1, <2>2, <1>1 DEF TellsLast
  <2>3. CASE ~Telling(f[1])
    BY <2>1, <2>3, <1>1 DEF Silent
  <2> QED BY <2>2, <2>3
<1>4. TellsLast(g, c)
  BY <1>2 DEF TellsLast
<1> QED BY <1>3, <1>4 DEF g

\* A client that reads a frame comes to the same in the end.
LEMMA LeavesTail ==
  ASSUME NEW S, NEW f \in Seq(S), f # <<>>, NEW a, NEW c, Leaves(f, a, c)
  PROVE  Leaves(Tail(f), IF Telling(f[1]) THEN f[1].busy ELSE a, c)
<1>1. TellsLast(Tail(f), c) /\ (Silent(Tail(f)) => IF Telling(f[1]) THEN f[1].busy = c ELSE Silent(f))
  BY TellsTail DEF Leaves
<1> QED BY <1>1 DEF Leaves

\* Frames that tell nothing leave a client as it was.
LEMMA LeavesQuiet ==
  ASSUME NEW f, Silent(f), NEW a
  PROVE  Leaves(f, a, a)
BY DEF Leaves, TellsLast, Silent

\* One more word, behind the others.
LEMMA TellsAppended ==
  ASSUME NEW S, NEW f \in Seq(S), NEW e \in S
  PROVE  /\ Telling(e) => TellsLast(Append(f, e), e.busy) /\ ~Silent(Append(f, e))
         /\ ~Telling(e) => /\ \A b : TellsLast(f, b) => TellsLast(Append(f, e), b)
                           /\ Silent(Append(f, e)) => Silent(f)
<1> DEFINE g == Append(f, e)
<1>1. /\ \A i \in DOMAIN f : i \in DOMAIN g /\ g[i] = f[i] /\ i < Len(f) + 1
      /\ \A i \in DOMAIN g : i \in DOMAIN f \/ i = Len(f) + 1
      /\ Len(f) + 1 \in DOMAIN g /\ g[Len(f) + 1] = e
      /\ Len(f) \in Nat
  OBVIOUS
<1> HIDE DEF g
<1>2. Telling(e) => TellsLast(g, e.busy) /\ ~Silent(g)
  BY <1>1 DEF TellsLast, Silent
<1>3. ASSUME ~Telling(e), NEW b, TellsLast(f, b) PROVE TellsLast(g, b)
  BY <1>1, <1>3 DEF TellsLast
<1>4. ~Telling(e) => (Silent(g) => Silent(f))
  BY <1>1 DEF Silent
<1> QED BY <1>2, <1>3, <1>4 DEF g

---------------------------------------------------------------------------
(* What a connection writes before it says a word.                         *)

\* The records up to k for one who has those up to `last`, and what interrupts them.
Catch(frames, last, k) ==
  /\ frames \in Seq(Frame)
  /\ \A i \in DOMAIN frames :
       /\ frames[i].kind \in {"record", "missed", "fragment"}
       /\ frames[i].kind = "record" => frames[i].seq <= k
  /\ InTurn(frames, last) /\ Leads(frames, last, k)

\* What is caught up with tells nothing and answers nobody.
LEMMA CatchSays ==
  ASSUME NEW f, NEW a, NEW k, Catch(f, a, k)
  PROVE  /\ f \in Seq(Frame) /\ Silent(f) /\ AnswersIn(f) = 0
         /\ \A b : Leaves(f, b, b)
         /\ \A i \in DOMAIN f : ~SaysHowItStands(f[i]) /\ ~IsReplaced(f[i])
                                /\ f[i].kind # "attached" /\ (Bearing(f[i]) => f[i].seq <= k)
<1>1. f \in Seq(Frame) /\ Silent(f)
  BY DEF Catch, Silent, Telling
<1>2. AnswersIn(f) = 0
  BY AnswersNone DEF Catch
<1>3. \A b : Leaves(f, b, b)
  BY <1>1, LeavesQuiet
<1>4. \A i \in DOMAIN f : ~SaysHowItStands(f[i]) /\ ~IsReplaced(f[i])
                          /\ f[i].kind # "attached" /\ (Bearing(f[i]) => f[i].seq <= k)
  BY DEF Catch, SaysHowItStands, IsReplaced, Bearing
<1> QED BY <1>1, <1>2, <1>3, <1>4

\* The records behind the n-th catch up with the log.
LEMMA RecordsCatch ==
  ASSUME kernel.seq \in Nat, NEW n \in Nat
  PROVE  /\ RecordsAfter(n) \in Seq(Frame)
         /\ n <= kernel.seq => Catch(RecordsAfter(n), n, kernel.seq)
         /\ n < kernel.seq => \A a : Leads(RecordsAfter(n), a, kernel.seq)
         /\ AnswersIn(RecordsAfter(n)) = 0
         /\ \A i \in DOMAIN RecordsAfter(n) : RecordsAfter(n)[i].kind = "record"
<1> DEFINE k == kernel.seq
           f == [i \in 1..(k - n) |-> [kind |-> "record", seq |-> n + i]]
<1>1. f = RecordsAfter(n)
  BY DEF RecordsAfter
<1>2. k \in Nat
  OBVIOUS
<1> HIDE DEF k
<1>3. \A i \in 1..(k - n) : i \in Nat /\ n + i \in Nat /\ n + i <= k
  BY <1>2
<1>4. \A i \in 1..(k - n) : [kind |-> "record", seq |-> n + i] \in Frame
  BY <1>3 DEF Frame
<1>5. f \in Seq(Frame)
  <2>1. CASE n <= k
    <3>1. k - n \in Nat
      BY <1>2, <2>1
    <3> QED BY <3>1, <1>4
  <2>2. CASE n > k
    <3>1. 1..(k - n) = 1..0
      BY <1>2, <2>2
    <3>2. \A i \in 1..(k - n) : FALSE
      BY <3>1
    <3>3. f = <<>>
      BY <3>2
    <3>4. <<>> \in Seq(Frame)
      OBVIOUS
    <3> HIDE DEF f
    <3> QED BY <3>3, <3>4
  <2> QED BY <2>1, <2>2, <1>2
<1>6. /\ DOMAIN f = 1..(k - n)
      /\ \A i \in 1..(k - n) : f[i].kind = "record" /\ f[i].seq = n + i
  OBVIOUS
<1> HIDE DEF f
<1>7. \A i \in DOMAIN f : f[i].kind = "record" /\ Bearing(f[i])
  BY <1>6 DEF Bearing
<1>8. AnswersIn(f) = 0
  BY <1>5, <1>7, AnswersNone
<1>9. ASSUME n <= k PROVE Catch(f, n, k)
  <2>1. InTurn(f, n)
    <3> SUFFICES ASSUME NEW i \in DOMAIN f
                 PROVE  /\ (\A j \in DOMAIN f : j < i => ~Bearing(f[j])) => f[i].seq = n + 1
                        /\ \A j \in DOMAIN f :
                             /\ j < i /\ Bearing(f[j])
                             /\ \A l \in DOMAIN f : j < l /\ l < i => ~Bearing(f[l])
                             => f[i].seq = f[j].seq + 1
      BY DEF InTurn
    <3>1. i \in 1..(k - n) /\ f[i].seq = n + i
      BY <1>6
    <3>2. ASSUME \A j \in DOMAIN f : j < i => ~Bearing(f[j]) PROVE f[i].seq = n + 1
      <4>1. ~(1 < i)
        <5>1. 1 \in DOMAIN f
          BY <3>1, <1>6, <1>2
        <5> QED BY <5>1, <3>2, <1>7
      <4> QED BY <4>1, <3>1
    <3>3. ASSUME NEW j \in DOMAIN f, j < i,
                 \A l \in DOMAIN f : j < l /\ l < i => ~Bearing(f[l])
          PROVE  f[i].seq = f[j].seq + 1
      <4>1. j \in 1..(k - n) /\ f[j].seq = n + j
        BY <1>6
      <4>2. ~(j + 1 < i)
        <5>1. j + 1 <= i => j + 1 \in DOMAIN f
          BY <3>1, <4>1, <1>6, <1>2
        <5> QED BY <5>1, <4>1, <3>1, <3>3, <1>7
      <4>3. i = j + 1
        BY <4>1, <4>2, <3>1, <3>3
      <4> QED BY <4>1, <4>3, <3>1
    <3> QED BY <3>2, <3>3
  <2>2. Leads(f, n, k)
    <3>1. ASSUME NEW i \in DOMAIN f, \A j \in DOMAIN f : j > i => ~Bearing(f[j])
          PROVE  f[i].seq = k
      <4>1. i \in 1..(k - n) /\ f[i].seq = n + i
        BY <1>6
      <4>2. ~(k - n > i)
        <5>1. k - n \in DOMAIN f
          BY <4>1, <1>6, <1>2
        <5> QED BY <5>1, <3>1, <1>7
      <4> QED BY <4>1, <4>2, <1>2
    <3>2. ASSUME \A i \in DOMAIN f : ~Bearing(f[i]) PROVE n = k
      <4>1. ~(1 <= k - n)
        <5>1. 1 <= k - n => 1 \in DOMAIN f
          BY <1>6, <1>2
        <5> QED BY <5>1, <3>2, <1>7
      <4> QED BY <4>1, <1>2, <1>9
    <3> QED BY <3>1, <3>2 DEF Leads
  <2>3. \A i \in DOMAIN f : f[i].seq <= k
    BY <1>3, <1>6
  <2> QED BY <2>1, <2>2, <2>3, <1>5, <1>7 DEF Catch
<1>10. ASSUME n < k, NEW a PROVE Leads(f, a, k)
  <2>1. Leads(f, n, k)
    BY <1>9, <1>10, <1>2 DEF Catch
  <2>2. 1 \in DOMAIN f
    BY <1>6, <1>2, <1>10
  <2> QED BY <2>1, <2>2, <1>7 DEF Leads
<1> QED BY <1>1, <1>5, <1>7, <1>8, <1>9, <1>10 DEF k

\* What comes between the records changes nothing.
LEMMA CatchJoined ==
  ASSUME NEW f, NEW a, NEW k, Catch(f, a, k), NEW g \in Seq(Frame),
         \A i \in DOMAIN g : g[i].kind \in {"missed", "fragment"}
  PROVE  Catch(f \o g, a, k)
<1>1. f \in Seq(Frame)
  BY DEF Catch
<1>2. InTurn(g, k) /\ Leads(g, k, k)
  BY LeadsNowhere DEF Bearing
<1>3. InTurn(f \o g, a) /\ Leads(f \o g, a, k)
  BY <1>1, <1>2, InTurnJoined, LeadsJoined DEF Catch
<1>4. ASSUME NEW i \in DOMAIN (f \o g)
      PROVE  /\ (f \o g)[i].kind \in {"record", "missed", "fragment"}
             /\ (f \o g)[i].kind = "record" => (f \o g)[i].seq <= k
  <2>1. CASE i \in DOMAIN f
    BY <2>1, <1>1, Joined DEF Catch
  <2>2. CASE i - Len(f) \in DOMAIN g /\ i > Len(f)
    <3>1. Len(f) + (i - Len(f)) = i
      BY <1>1, <1>4, Joined, Ordered
    <3> QED BY <3>1, <2>2, <1>1, Joined
  <2> QED BY <2>1, <2>2, <1>1, <1>4, Joined
<1> QED BY <1>1, <1>3, <1>4, Joined DEF Catch

\* A note of a gap, and a fragment, are frames that bear on nothing.
LEMMA Interruptions ==
  /\ Missed \in Frame /\ Fragment \in Frame
  /\ <<Missed>> \in Seq(Frame) /\ <<Fragment>> \in Seq(Frame) /\ <<>> \in Seq(Frame)
  /\ \A i \in DOMAIN <<Missed>> : <<Missed>>[i].kind = "missed"
  /\ \A i \in DOMAIN <<Fragment>> : <<Fragment>>[i].kind = "fragment"
BY DEF Missed, Fragment, Frame

\* What `caught_up` writes, the gap, the records and the fragments, catches up with the log.
LEMMA BacklogCatches ==
  ASSUME kernel.seq \in Nat, NEW conn \in ConnType, conn.last <= kernel.seq
  PROVE  Catch(Backlog(conn), conn.last, kernel.seq)
<1> DEFINE lost == IF conn.lagged THEN <<Missed>> ELSE <<>>
           heard == [i \in 1..Cardinality(Fragments(conn)) |-> Fragment]
<1>1. conn.last \in Nat /\ conn.events \in Seq(Nat)
  BY DEF ConnType
<1>2. Catch(RecordsAfter(conn.last), conn.last, kernel.seq)
  BY <1>1, RecordsCatch
<1>3. lost \in Seq(Frame) /\ \A i \in DOMAIN lost : lost[i].kind \in {"missed", "fragment"}
  BY Interruptions
<1>4. Cardinality(Fragments(conn)) \in Nat
  <2>1. Fragments(conn) \subseteq 1..Len(conn.events) /\ Len(conn.events) \in Nat
    BY <1>1 DEF Fragments
  <2>2. IsFiniteSet(1..Len(conn.events))
    BY <2>1, FS_Interval
  <2>3. IsFiniteSet(Fragments(conn))
    BY <2>1, <2>2, FS_Subset
  <2> QED BY <2>3, FS_CardinalityType
<1>5. heard \in Seq(Frame) /\ \A i \in DOMAIN heard : heard[i].kind \in {"missed", "fragment"}
  <2>1. heard \in Seq(Frame)
    BY <1>4, Interruptions
  <2> QED BY <2>1 DEF Fragment
<1>6. Backlog(conn) = (RecordsAfter(conn.last) \o lost) \o heard
  BY DEF Backlog
<1> HIDE DEF lost, heard
<1>7. Catch(RecordsAfter(conn.last) \o lost, conn.last, kernel.seq)
  BY <1>2, <1>3, CatchJoined
<1> QED BY <1>5, <1>6, <1>7, CatchJoined

---------------------------------------------------------------------------
(* What a step must show: only what it touches.                            *)

\* A connection that does something waits for no answer.
LEMMA NoneAsked ==
  ASSUME ServingInv, NEW c \in 1..Connections,
         conns[c].at \in {"new", "loop"} \/ conns[c].answer # <<>> \/ ~session.open
  PROVE  \A k \in DOMAIN asks : asks[k].from # c
<1> SUFFICES ASSUME NEW k \in DOMAIN asks, asks[k].from = c PROVE FALSE
  OBVIOUS
<1>1. AskFits(asks[k].what, conns[c]) /\ session.open
  BY DEF ServingInv, AsksShown
<1>2. CASE conns[c].at \in {"new", "loop"}
  BY <1>1, <1>2 DEF AskFits
<1>3. CASE conns[c].answer # <<>>
  <2>1. conns[c].at = "closed"
    BY <1>1, <1>3 DEF AskFits
  <2>2. conns[c].answer \in Seq(WordType)
    BY DEF ServingInv, ServingTypes, ConnType
  <2>3. 1 \in DOMAIN conns[c].answer
    BY <2>2, <1>3
  <2>4. AnswerFits(conns[c].answer[1].about, "closed")
    BY <2>1, <2>3 DEF ServingInv, ConnInv, ConnPlaced
  <2> QED BY <2>4 DEF AnswerFits
<1> QED BY <1>1, <1>2, <1>3

\* A connection that waits for nothing may ask the loop for one thing.
LEMMA AsksGrow ==
  ASSUME ServingTypes, AsksShown, NEW c \in 1..Connections, NEW conn,
         \A k \in DOMAIN asks : asks[k].from # c,
         session' = session, conns' = [conns EXCEPT ![c] = conn],
         \/ asks' = asks
         \/ /\ session.open
            /\ \E what \in {"attach", "message", "quit", "standing", "left"} :
                 asks' = Append(asks, [what |-> what, from |-> c]) /\ AskFits(what, conn)
  PROVE  asks' \in Seq(AskType) /\ AsksShown'
<1>1. asks \in Seq(AskType) /\ conns \in [1..Connections -> ConnType]
  BY DEF ServingTypes
<1>2. asks \in Seq(AskType) /\ conns'[c] = conn
      /\ \A k \in DOMAIN asks : asks[k].from \in 1..Connections /\ conns'[asks[k].from] = conns[asks[k].from]
  <2>1. \A k \in DOMAIN asks : asks[k] \in AskType
    BY <1>1
  <2>2. \A k \in DOMAIN asks : asks[k].from \in 1..Connections
    BY <2>1 DEF AskType
  <2> QED BY <1>1, <2>2
<1>3. CASE asks' = asks
  BY <1>2, <1>3 DEF AsksShown
<1>4. ASSUME session.open, NEW what \in {"attach", "message", "quit", "standing", "left"},
             asks' = Append(asks, [what |-> what, from |-> c]), AskFits(what, conn)
      PROVE  asks' \in Seq(AskType) /\ AsksShown'
  <2> DEFINE ask == [what |-> what, from |-> c]
  <2>1. ask \in AskType /\ ask.what = what /\ ask.from = c
    BY DEF AskType
  <2>2. asks' = Append(asks, ask)
    BY <1>4
  <2> HIDE DEF ask
  <2>3. /\ asks' \in Seq(AskType)
        /\ \A k \in DOMAIN asks' : (k \in DOMAIN asks /\ asks'[k] = asks[k])
            \/ (k = Len(asks) + 1 /\ asks'[k] = ask)
    BY <1>2, <2>1, <2>2
  <2>4. \A k \in DOMAIN asks' : AskFits(asks'[k].what, conns'[asks'[k].from])
    BY <2>1, <2>3, <1>2, <1>4 DEF AsksShown
  <2>5. \A j, k \in DOMAIN asks' : asks'[j].from = asks'[k].from => j = k
    BY <2>1, <2>3 DEF AsksShown
  <2> QED BY <2>3, <2>4, <2>5, <1>4 DEF AsksShown
<1> QED BY <1>3, <1>4

\* A step of one connection.
LEMMA ConnStep ==
  ASSUME ServingInv, NEW c \in 1..Connections, NEW conn \in ConnType, NEW link \in LinkType,
         conns' = [conns EXCEPT ![c] = conn], links' = [links EXCEPT ![c] = link],
         kernel' = kernel, session' = session, clients' = clients,
         conn.client = conns[c].client, conns[c].at # "unborn", conn.at # "unborn",
         ConnInv(conn, link, kernel, session),
         \A cl \in Client : Online(cl) /\ clients[cl].conn = c
           => ClientInv(clients[cl], conn, link, kernel, session),
         \A k \in DOMAIN asks : asks[k].from # c,
         \/ asks' = asks
         \/ /\ session.open
            /\ \E what \in {"attach", "message", "quit", "standing", "left"} :
                 asks' = Append(asks, [what |-> what, from |-> c]) /\ AskFits(what, conn)
  PROVE  ServingInv'
<1>1. conns \in [1..Connections -> ConnType] /\ links \in [1..Connections -> LinkType]
  BY DEF ServingInv, ServingTypes
<1>2. /\ conns' \in [1..Connections -> ConnType] /\ links' \in [1..Connections -> LinkType]
      /\ conns'[c] = conn /\ links'[c] = link
      /\ \A d \in 1..Connections : d # c => conns'[d] = conns[d] /\ links'[d] = links[d]
  BY <1>1
<1>3. asks' \in Seq(AskType) /\ AsksShown'
  BY AsksGrow DEF ServingInv
<1>4. ServingTypes'
  BY <1>2, <1>3 DEF ServingInv, ServingTypes
<1>5. BornInOrder' /\ Attended' /\ TurnShown' /\ ClientsShown'
  <2>1. \A d \in 1..Connections : /\ conns'[d].at # "unborn" <=> conns[d].at # "unborn"
                                  /\ conns'[d].client = conns[d].client
    BY <1>2
  <2> QED BY <2>1 DEF ServingInv, BornInOrder, Attended, TurnShown, ClientsShown, Online
<1>6. \A d \in 1..Connections : ConnInv(conns'[d], links'[d], kernel', session')
  BY <1>2 DEF ServingInv
<1>7. ASSUME NEW cl \in Client, clients'[cl].at = "on"
      PROVE  ClientInv(clients'[cl], conns'[clients'[cl].conn], links'[clients'[cl].conn],
                       kernel', session')
  <2>1. Online(cl) /\ clients[cl].conn \in 1..Connections
    BY <1>7 DEF Online, ServingInv, Attended
  <2>2. CASE clients[cl].conn = c
    BY <2>1, <2>2, <1>2
  <2>3. CASE clients[cl].conn # c
    BY <2>1, <2>3, <1>2 DEF ServingInv
  <2> QED BY <2>2, <2>3
<1> QED BY <1>3, <1>4, <1>5, <1>6, <1>7 DEF ServingInv, Online

\* A step of one client, and of the link it has.
LEMMA ClientStep ==
  ASSUME ServingInv, NEW cl \in Client, NEW client \in ClientType, NEW link \in LinkType,
         Online(cl), clients' = [clients EXCEPT ![cl] = client],
         links' = [links EXCEPT ![clients[cl].conn] = link],
         kernel' = kernel, session' = session, asks' = asks, conns' = conns,
         client.conn = clients[cl].conn,
         client.last <= kernel.seq, ~session.open /\ client.last = kernel.seq => client.over,
         ConnInv(conns[clients[cl].conn], link, kernel, session),
         client.at = "on" => ClientInv(client, conns[clients[cl].conn], link, kernel, session)
  PROVE  ServingInv'
<1> DEFINE c == clients[cl].conn
<1>1. links \in [1..Connections -> LinkType] /\ clients \in [Client -> ClientType]
  BY DEF ServingInv, ServingTypes
<1>2. c \in 1..Connections /\ conns[c].client = cl
  BY DEF ServingInv, Attended
<1>3. /\ clients' \in [Client -> ClientType] /\ links' \in [1..Connections -> LinkType]
      /\ clients'[cl] = client /\ links'[c] = link
      /\ \A d \in 1..Connections : d # c => links'[d] = links[d]
      /\ \A other \in Client : other # cl => clients'[other] = clients[other]
  BY <1>1, <1>2
<1> HIDE DEF c
<1>4. ServingTypes' /\ AsksShown'
  BY <1>3 DEF ServingInv, ServingTypes, AsksShown
<1>5. BornInOrder' /\ TurnShown' /\ ClientsShown'
  BY <1>3 DEF ServingInv, BornInOrder, TurnShown, ClientsShown
<1>6. Attended'
  <2>1. ASSUME NEW other \in Client, clients'[other].at = "on"
        PROVE  /\ clients'[other].conn \in 1..Connections
               /\ conns[clients'[other].conn].client = other
               /\ conns[clients'[other].conn].at # "unborn"
    <3>1. CASE other = cl
      BY <3>1, <1>3 DEF ServingInv, Attended
    <3>2. CASE other # cl
      BY <3>2, <2>1, <1>3 DEF ServingInv, Attended, Online
    <3> QED BY <3>1, <3>2
  <2> QED BY <2>1 DEF Attended, Online
<1>7. \A d \in 1..Connections : ConnInv(conns'[d], links'[d], kernel', session')
  BY <1>3 DEF ServingInv, c
<1>8. ASSUME NEW other \in Client, clients'[other].at = "on"
      PROVE  ClientInv(clients'[other], conns'[clients'[other].conn], links'[clients'[other].conn],
                       kernel', session')
  <2>1. CASE other = cl
    <3>1. clients'[other].conn = c /\ clients'[other] = client
      BY <2>1, <1>3 DEF c
    <3> QED BY <3>1, <1>8, <1>3 DEF c
  <2>2. CASE other # cl
    <3>1. Online(other) /\ clients'[other] = clients[other]
      BY <2>2, <1>8, <1>3 DEF Online
    <3>2. clients[other].conn \in 1..Connections /\ conns[clients[other].conn].client = other
      BY <3>1 DEF ServingInv, Attended
    <3>3. clients[other].conn # c
      BY <3>2, <2>2, <1>2
    <3> QED BY <3>1, <3>2, <3>3, <1>3 DEF ServingInv
  <2> QED BY <2>1, <2>2
<1> QED BY <1>4, <1>5, <1>6, <1>7, <1>8 DEF ServingInv, Online

\* A step of the loop, or of the turn.
LEMMA LoopStep ==
  ASSUME ServingInv, links' = links, clients' = clients,
         kernel' \in [seq : Nat \ {0}, fragments : 0..MaxFragments],
         session' \in [busy : BOOLEAN, turns : Seq(Client), leaving : BOOLEAN, open : BOOLEAN,
                       seated : 1..Connections \cup {Nobody}],
         conns' \in [1..Connections -> ConnType],
         \A c \in 1..Connections : /\ conns'[c].at = conns[c].at
                                   /\ conns'[c].client = conns[c].client,
         asks' \in Seq(AskType), AsksShown', TurnShown', ClientsShown',
         \A c \in 1..Connections : ConnInv(conns'[c], links[c], kernel', session'),
         \A cl \in Client : Online(cl) =>
           ClientInv(clients[cl], conns'[clients[cl].conn], links[clients[cl].conn], kernel', session')
  PROVE  ServingInv'
<1>1. ServingTypes'
  BY DEF ServingInv, ServingTypes
<1>2. BornInOrder'
  BY DEF ServingInv, BornInOrder
<1>3. Attended'
  BY DEF ServingInv, Attended, Online
<1> QED BY <1>1, <1>2, <1>3 DEF ServingInv, Online

---------------------------------------------------------------------------
(* A connection that writes.                                               *)

\* Its link, with these frames behind the others.
Written(link, conn, frames) ==
  [link EXCEPT !.frames = IF link.up THEN @ \o frames ELSE @,
               !.commands = IF conn.at = "closed" THEN <<>> ELSE @]

\* What a connection that goes on has changed: itself and its own link.
LEMMA GoesWrites ==
  ASSUME ServingInv, NEW c \in 1..Connections, NEW conn, NEW frames \in Seq(Frame),
         Goes(c, conn, frames)
  PROVE  /\ conns' = [conns EXCEPT ![c] = conn]
         /\ links' = [links EXCEPT ![c] = Written(links[c], conn, frames)]
         /\ Written(links[c], conn, frames) \in LinkType /\ links[c] \in LinkType
         /\ conns[c] \in ConnType
         /\ kernel' = kernel /\ session' = session /\ clients' = clients
<1>1. links \in [1..Connections -> LinkType] /\ conns \in [1..Connections -> ConnType]
  BY DEF ServingInv, ServingTypes
<1>2. links[c] \in LinkType
  BY <1>1
<1>3. Written(links[c], conn, frames) \in LinkType
  <2>1. links[c].up \in BOOLEAN /\ links[c].frames \in Seq(Frame) /\ links[c].commands \in Seq(CommandType)
    BY <1>2 DEF LinkType
  <2> DEFINE F == IF links[c].up THEN links[c].frames \o frames ELSE links[c].frames
             C == IF conn.at = "closed" THEN <<>> ELSE links[c].commands
  <2>2. F \in Seq(Frame) /\ C \in Seq(CommandType)
    BY <2>1
  <2>3. Written(links[c], conn, frames) = [links[c] EXCEPT !.frames = F, !.commands = C]
    BY DEF Written
  <2> HIDE DEF F, C
  <2> QED BY <1>2, <2>2, <2>3 DEF LinkType
<1>4. links' = [links EXCEPT ![c] = Written(links[c], conn, frames)]
  <2>1. links' = [links EXCEPT ![c].frames = IF links[c].up THEN @ \o frames ELSE @,
                               ![c].commands = IF conn.at = "closed" THEN <<>> ELSE @]
    BY DEF Goes
  <2> QED BY <2>1, <1>1 DEF Written
<1> QED BY <1>1, <1>2, <1>3, <1>4 DEF Goes

\* What is true of frames, and of more frames, is true of both.
LEMMA AllOfJoined ==
  ASSUME NEW f \in Seq(Frame), NEW g \in Seq(Frame), NEW k \in Nat, NEW open \in BOOLEAN, NEW n \in Nat,
         \A i \in DOMAIN f : /\ Bearing(f[i]) => f[i].seq <= k
                             /\ f[i].kind = "attached" /\ ~open => f[i].seq < k
                             /\ SaysHowItStands(f[i]) => f[i].mark <= n,
         \A i \in DOMAIN g : /\ Bearing(g[i]) => g[i].seq <= k
                             /\ g[i].kind = "attached" /\ ~open => g[i].seq < k
                             /\ SaysHowItStands(g[i]) => g[i].mark <= n
  PROVE  \A i \in DOMAIN (f \o g) :
           /\ Bearing((f \o g)[i]) => (f \o g)[i].seq <= k
           /\ (f \o g)[i].kind = "attached" /\ ~open => (f \o g)[i].seq < k
           /\ SaysHowItStands((f \o g)[i]) => (f \o g)[i].mark <= n
<1> DEFINE h == f \o g
<1>1. \A i \in DOMAIN h : \/ i \in DOMAIN f /\ h[i] = f[i]
                          \/ i - Len(f) \in DOMAIN g /\ h[i] = g[i - Len(f)]
  <2> SUFFICES ASSUME NEW i \in DOMAIN h
               PROVE  \/ i \in DOMAIN f /\ h[i] = f[i]
                      \/ i - Len(f) \in DOMAIN g /\ h[i] = g[i - Len(f)]
    OBVIOUS
  <2>1. i \in DOMAIN f => h[i] = f[i]
    BY Joined
  <2>2. i \in Nat /\ Len(f) \in Nat
    BY Joined, Ordered
  <2>3. i - Len(f) \in DOMAIN g => h[Len(f) + (i - Len(f))] = g[i - Len(f)]
    BY Joined
  <2>4. Len(f) + (i - Len(f)) = i
    BY <2>2
  <2>5. i \in DOMAIN f \/ i - Len(f) \in DOMAIN g
    BY Joined
  <2> QED BY <2>1, <2>3, <2>4, <2>5
<1> HIDE DEF h
<1>2. \A i \in DOMAIN h : /\ Bearing(h[i]) => h[i].seq <= k
                          /\ h[i].kind = "attached" /\ ~open => h[i].seq < k
                          /\ SaysHowItStands(h[i]) => h[i].mark <= n
  BY <1>1
<1> QED BY <1>2 DEF h

\* Frames written behind others are about no fragment that is still to come.
LEMMA EventsJoined ==
  ASSUME NEW f \in Seq(Frame), NEW g \in Seq(Frame), NEW e \in Seq(Nat),
         \A i \in DOMAIN f : SaysHowItStands(f[i]) =>
           \A j \in DOMAIN e : e[j] # Record => e[j] > f[i].mark,
         e = <<>> \/ \A i \in DOMAIN g : ~SaysHowItStands(g[i])
  PROVE  \A i \in DOMAIN (f \o g) : SaysHowItStands((f \o g)[i]) =>
           \A j \in DOMAIN e : e[j] # Record => e[j] > (f \o g)[i].mark
<1>1. CASE e = <<>>
  BY <1>1
<1>2. CASE \A i \in DOMAIN g : ~SaysHowItStands(g[i])
  <2> SUFFICES ASSUME NEW i \in DOMAIN (f \o g), SaysHowItStands((f \o g)[i]),
                      NEW j \in DOMAIN e, e[j] # Record
               PROVE  e[j] > (f \o g)[i].mark
    OBVIOUS
  <2>1. CASE i \in DOMAIN f
    <3>1. (f \o g)[i] = f[i]
      BY <2>1, Joined
    <3> QED BY <2>1, <3>1
  <2>2. CASE i - Len(f) \in DOMAIN g
    <3>1. i \in Nat /\ Len(f) \in Nat
      BY Joined, Ordered
    <3>2. Len(f) + (i - Len(f)) = i
      BY <3>1
    <3>3. (f \o g)[i] = g[i - Len(f)]
      BY <2>2, <3>2, Joined
    <3> QED BY <2>2, <3>3, <1>2
  <2> QED BY <2>1, <2>2, Joined
<1> QED BY <1>1, <1>2

\* What a connection may have kept of what it had in hand.
Kept(conn, had) ==
  /\ \A j \in DOMAIN conn.events : \E i \in DOMAIN had.events : conn.events[j] = had.events[i]
  /\ Len(conn.events) <= Len(had.events)
  /\ \A j \in DOMAIN conn.voice : \E i \in DOMAIN had.voice : conn.voice[j] = had.voice[i]
  /\ Len(conn.voice) <= Len(had.voice)

\* A connection that dropped events or words, from the front or all of them, kept the rest.
LEMMA KeptWays ==
  ASSUME NEW conn \in ConnType, NEW had \in ConnType,
         \/ conn.events \in {<<>>, had.events}
         \/ had.events # <<>> /\ conn.events = Tail(had.events),
         \/ conn.voice = had.voice
         \/ had.voice # <<>> /\ conn.voice = Tail(had.voice)
  PROVE  Kept(conn, had)
<1>1. had.events \in Seq(Nat) /\ had.voice \in Seq(VoiceType)
  BY DEF ConnType
<1>2. /\ \A j \in DOMAIN conn.events : \E i \in DOMAIN had.events : conn.events[j] = had.events[i]
      /\ Len(conn.events) <= Len(had.events)
  <2>1. CASE conn.events \in {<<>>, had.events}
    BY <2>1, <1>1
  <2>2. CASE had.events # <<>> /\ conn.events = Tail(had.events)
    BY <2>2, <1>1
  <2> QED BY <2>1, <2>2
<1>3. /\ \A j \in DOMAIN conn.voice : \E i \in DOMAIN had.voice : conn.voice[j] = had.voice[i]
      /\ Len(conn.voice) <= Len(had.voice)
  <2>1. CASE conn.voice = had.voice
    BY <2>1, <1>1
  <2>2. CASE had.voice # <<>> /\ conn.voice = Tail(had.voice)
    BY <2>2, <1>1
  <2> QED BY <2>1, <2>2
<1> QED BY <1>2, <1>3 DEF Kept

\* Everything it has come to is in what it writes, and it goes on.
LEMMA StaysConn ==
  ASSUME ServingInv, NEW c \in 1..Connections, NEW conn \in ConnType, NEW frames \in Seq(Frame),
         conns[c].at \in Going \cup {"attaching"}, conns[c].hears,
         conn.at \in {"loop", "standing"}, conn.client = conns[c].client, conn.hears, conn.answer = <<>>,
         Kept(conn, conns[c]),
         \/ conn.last = kernel.seq
         \/ /\ conn.last = conns[c].last /\ conns[c].at \in Going
            /\ conn.events = conns[c].events /\ conn.lagged = conns[c].lagged,
         session.open => TellsLast(conn.voice, session.busy),
         \A i \in DOMAIN frames : /\ Bearing(frames[i]) => frames[i].seq <= kernel.seq
                                  /\ frames[i].kind = "attached" /\ ~session.open => frames[i].seq < kernel.seq
                                  /\ SaysHowItStands(frames[i]) => frames[i].mark <= kernel.fragments,
         conn.events = <<>> \/ \A i \in DOMAIN frames : ~SaysHowItStands(frames[i])
  PROVE  ConnInv(conn, Written(links[c], conn, frames), kernel, session)
<1> DEFINE had == conns[c]
           link == links[c]
           wrote == Written(links[c], conn, frames)
<1>1. had \in ConnType /\ link \in LinkType /\ kernel.seq \in Nat /\ kernel.fragments \in Nat
        /\ session.open \in BOOLEAN
  BY DEF ServingInv, ServingTypes
<1>2. link.frames \in Seq(Frame) /\ link.commands \in Seq(CommandType) /\ conn.events \in Seq(Nat)
  BY <1>1 DEF LinkType, ConnType
<1>3. ConnInv(had, link, kernel, session)
  BY DEF ServingInv
<1>4. /\ wrote.frames \in {link.frames, link.frames \o frames} /\ wrote.commands = link.commands
      /\ conn.at # "closed"
  BY <1>1 DEF Written, LinkType
<1>5. ConnPlaced(conn, wrote)
  BY <1>3, <1>4 DEF ConnInv, ConnPlaced, Going
<1>6. ConnHears(conn)
  <2>1. Len(had.voice) <= VoiceRoom /\ had.voice \in Seq(VoiceType) /\ conn.voice \in Seq(VoiceType)
    BY <1>3, <1>1 DEF ConnInv, ConnHears, ConnType
  <2>2. Len(had.voice) \in Nat /\ Len(conn.voice) \in Nat /\ VoiceRoom \in Nat
    BY <2>1, ServingAssumption
  <2>3. Len(conn.voice) <= VoiceRoom
    BY <2>1, <2>2 DEF Kept
  <2> QED BY <2>3 DEF ConnHears
<1>7. session.open => ConnTold(conn, session.busy)
  BY DEF ConnTold, Pending
<1>8. /\ \A i \in DOMAIN link.frames :
           /\ Bearing(link.frames[i]) => link.frames[i].seq <= kernel.seq
           /\ link.frames[i].kind = "attached" /\ ~session.open => link.frames[i].seq < kernel.seq
           /\ SaysHowItStands(link.frames[i]) => link.frames[i].mark <= kernel.fragments
      /\ \A i \in DOMAIN link.frames : SaysHowItStands(link.frames[i]) =>
           \A j \in DOMAIN conn.events : conn.events[j] # Record => conn.events[j] > link.frames[i].mark
  BY <1>3 DEF ConnInv, ConnFollows, ConnMarked, Kept
<1>9. /\ \A i \in DOMAIN wrote.frames :
           /\ Bearing(wrote.frames[i]) => wrote.frames[i].seq <= kernel.seq
           /\ wrote.frames[i].kind = "attached" /\ ~session.open => wrote.frames[i].seq < kernel.seq
           /\ SaysHowItStands(wrote.frames[i]) => wrote.frames[i].mark <= kernel.fragments
      /\ \A i \in DOMAIN wrote.frames : SaysHowItStands(wrote.frames[i]) =>
           \A j \in DOMAIN conn.events : conn.events[j] # Record => conn.events[j] > wrote.frames[i].mark
  <2>1. CASE wrote.frames = link.frames
    BY <2>1, <1>8
  <2>2. CASE wrote.frames = link.frames \o frames
    <3>1. \A i \in DOMAIN (link.frames \o frames) :
           /\ Bearing((link.frames \o frames)[i]) => (link.frames \o frames)[i].seq <= kernel.seq
           /\ (link.frames \o frames)[i].kind = "attached" /\ ~session.open
               => (link.frames \o frames)[i].seq < kernel.seq
           /\ SaysHowItStands((link.frames \o frames)[i]) => (link.frames \o frames)[i].mark <= kernel.fragments
      <4> HIDE DEF link
      <4> QED BY <1>1, <1>2, <1>8, AllOfJoined
    <3>2. \A i \in DOMAIN (link.frames \o frames) : SaysHowItStands((link.frames \o frames)[i]) =>
           \A j \in DOMAIN conn.events : conn.events[j] # Record
             => conn.events[j] > (link.frames \o frames)[i].mark
      <4> HIDE DEF link
      <4> QED BY <1>2, <1>8, EventsJoined
    <3> QED BY <2>2, <3>1, <3>2
  <2> QED BY <2>1, <2>2, <1>4
<1> HIDE DEF wrote
<1>10. ConnMarked(conn, wrote, kernel.fragments)
  <2>1. \A i \in DOMAIN conn.voice : Telling(conn.voice[i]) => conn.voice[i].mark <= kernel.fragments
    BY <1>3 DEF ConnInv, ConnMarked, Kept
  <2>2. \A i \in DOMAIN conn.answer : conn.answer[i].mark <= kernel.fragments
    OBVIOUS
  <2> QED BY <1>9, <2>1, <2>2 DEF ConnMarked
<1>11. ConnFollows(conn, wrote, kernel, session.open)
  <2>1. conn.last <= kernel.seq
    BY <1>3, <1>1 DEF ConnInv, ConnFollows
  <2>2. Len(conn.events) <= EventRoom
    <3>1. Len(had.events) <= EventRoom /\ had.events \in Seq(Nat)
      BY <1>3, <1>1 DEF ConnInv, ConnFollows, ConnType
    <3>2. Len(had.events) \in Nat /\ Len(conn.events) \in Nat /\ EventRoom \in Nat
      BY <3>1, <1>2, ServingAssumption
    <3> QED BY <3>1, <3>2 DEF Kept
  <2>3. conn.last < kernel.seq => conn.lagged \/ \E i \in DOMAIN conn.events : conn.events[i] = Record
    BY <1>3, <1>1 DEF ConnInv, ConnFollows
  <2>4. \A i \in DOMAIN wrote.commands : CommandFits(conn, i, wrote.commands[i], kernel)
    <3>1. \A i \in DOMAIN link.commands : CommandFits(had, i, link.commands[i], kernel)
      BY <1>3 DEF ConnInv, ConnFollows
    <3>2. had.at # "new" /\ conn.at # "new"
      BY DEF Going
    <3> QED BY <3>1, <3>2, <1>4 DEF CommandFits
  <2>5. \A i \in DOMAIN conn.answer :
          conn.answer[i].seq <= kernel.seq /\ (~session.open => conn.answer[i].seq < kernel.seq)
    OBVIOUS
  <2> QED BY <2>1, <2>2, <2>3, <2>4, <2>5, <1>9 DEF ConnFollows
<1> QED BY <1>5, <1>6, <1>7, <1>10, <1>11 DEF ConnInv, wrote

\* What its client is owed, and will know.
LEMMA StaysClient ==
  ASSUME ServingInv, NEW c \in 1..Connections, NEW conn \in ConnType, NEW frames \in Seq(Frame),
         conns[c].at \in Going \cup {"attaching"}, conn.at \in {"loop", "standing"},
         AnswersIn(frames) = (IF conns[c].at \in Asking1 THEN 1 ELSE 0),
         NEW cl \in Client, Online(cl), clients[cl].conn = c,
         links[c].up /\ ~clients[cl].detaching => InTurn(links[c].frames \o frames, clients[cl].last),
         links[c].up => Leads(links[c].frames \o frames, clients[cl].last, conn.last),
         session.open /\ links[c].up /\ Silent(conn.voice) /\ ~conn.deaf /\ conn.at = "loop"
           => Leaves(links[c].frames \o frames, clients[cl].busy, session.busy)
  PROVE  ClientInv(clients[cl], conn, Written(links[c], conn, frames), kernel, session)
<1> DEFINE had == conns[c]
           link == links[c]
           client == clients[cl]
           wrote == Written(links[c], conn, frames)
<1>1. link \in LinkType /\ client \in ClientType
  BY DEF ServingInv, ServingTypes
<1>2. link.frames \in Seq(Frame) /\ link.commands \in Seq(CommandType) /\ client.out \in Nat
  BY <1>1 DEF LinkType, ClientType
<1>3. ClientInv(client, had, link, kernel, session)
  BY DEF ServingInv
<1>4. /\ wrote.frames = (IF link.up THEN link.frames \o frames ELSE link.frames)
      /\ wrote.commands = link.commands /\ wrote.up = link.up
  BY <1>1 DEF Written, LinkType
<1>5. Counted(client, conn, wrote)
  <2> SUFFICES ASSUME link.up PROVE client.out = Len(link.commands) + AnswersIn(link.frames \o frames)
    BY <1>1, <1>2, <1>4, AnswersCount DEF Counted, Asking1, AnswersIn
  <2>1. client.out = Len(link.commands) + AnswersIn(link.frames) + (IF had.at \in Asking1 THEN 1 ELSE 0)
    BY <1>3 DEF ClientInv, Counted, Going, AnswersIn
  <2>2. AnswersIn(link.frames \o frames) = AnswersIn(link.frames) + AnswersIn(frames)
    <3> HIDE DEF link
    <3> QED BY <1>2, AnswersJoined
  <2>3. AnswersIn(link.frames) \in Nat /\ Len(link.commands) \in Nat
    BY <1>2, AnswersCount
  <2>4. AnswersIn(frames) = IF had.at \in Asking1 THEN 1 ELSE 0
    OBVIOUS
  <2> HIDE DEF had, link, client
  <2> QED BY <2>1, <2>2, <2>3, <2>4
<1>6. Follows(client, conn, wrote, kernel, session.open)
  <2>1. conn.at \notin {"new", "attaching", "reattaching", "closed"}
    OBVIOUS
  <2>2. \A i \in DOMAIN wrote.commands : wrote.commands[i].kind = "attach" => client.detaching
    BY <1>3, <1>4 DEF ClientInv, Follows, Going
  <2>3. ~client.detaching => InTurn(wrote.frames, client.last)
    BY <1>3, <1>4 DEF ClientInv, Follows
  <2>4. wrote.up => Leads(wrote.frames, client.last, conn.last)
    BY <1>4
  <2> QED BY <2>1, <2>2, <2>3, <2>4 DEF Follows
<1>7. session.open => Told(client, conn, wrote, session.busy)
  BY <1>4 DEF Told
<1> QED BY <1>5, <1>6, <1>7 DEF ClientInv, wrote

\* Both together: a connection that goes on after it has written.
LEMMA Stays ==
  ASSUME ServingInv, NEW c \in 1..Connections, NEW conn \in ConnType, NEW frames \in Seq(Frame),
         Goes(c, conn, frames),
         conns[c].at \in Going \cup {"attaching"}, conns[c].hears,
         conn.at \in {"loop", "standing"}, conn.client = conns[c].client, conn.hears, conn.answer = <<>>,
         Kept(conn, conns[c]),
         \/ conn.last = kernel.seq
         \/ /\ conn.last = conns[c].last /\ conns[c].at \in Going
            /\ conn.events = conns[c].events /\ conn.lagged = conns[c].lagged,
         session.open => TellsLast(conn.voice, session.busy),
         \A i \in DOMAIN frames : /\ Bearing(frames[i]) => frames[i].seq <= kernel.seq
                                  /\ frames[i].kind = "attached" /\ ~session.open => frames[i].seq < kernel.seq
                                  /\ SaysHowItStands(frames[i]) => frames[i].mark <= kernel.fragments,
         conn.events = <<>> \/ \A i \in DOMAIN frames : ~SaysHowItStands(frames[i]),
         AnswersIn(frames) = (IF conns[c].at \in Asking1 THEN 1 ELSE 0),
         \A k \in DOMAIN asks : asks[k].from # c,
         \/ asks' = asks
         \/ session.open /\ conn.at = "standing" /\ asks' = Append(asks, [what |-> "standing", from |-> c]),
         \A cl \in Client : Online(cl) /\ clients[cl].conn = c /\ links[c].up =>
           /\ ~clients[cl].detaching => InTurn(links[c].frames \o frames, clients[cl].last)
           /\ Leads(links[c].frames \o frames, clients[cl].last, conn.last)
           /\ session.open /\ Silent(conn.voice) /\ ~conn.deaf /\ conn.at = "loop"
                => Leaves(links[c].frames \o frames, clients[cl].busy, session.busy)
  PROVE  ServingInv'
<1> DEFINE wrote == Written(links[c], conn, frames)
<1>1. /\ conns' = [conns EXCEPT ![c] = conn] /\ links' = [links EXCEPT ![c] = wrote]
      /\ wrote \in LinkType /\ kernel' = kernel /\ session' = session /\ clients' = clients
  BY GoesWrites
<1>2. ConnInv(conn, wrote, kernel, session)
  BY StaysConn
<1>3. ASSUME NEW cl \in Client, Online(cl), clients[cl].conn = c
      PROVE  ClientInv(clients[cl], conn, wrote, kernel, session)
  BY <1>3, StaysClient
<1> HIDE DEF wrote
<1>4. conns[c].at # "unborn" /\ conn.at # "unborn"
  BY DEF Going
<1>5. conn.at = "standing" => AskFits("standing", conn)
  BY DEF AskFits
<1>6. \/ asks' = asks
      \/ /\ session.open
         /\ \E what \in {"attach", "message", "quit", "standing", "left"} :
              asks' = Append(asks, [what |-> what, from |-> c]) /\ AskFits(what, conn)
  BY <1>5
<1> QED BY <1>1, <1>2, <1>3, <1>4, <1>6, ConnStep

\* It writes what it has missed, and at most one word behind that.
LEMMA CatchThenWord ==
  ASSUME ServingInv, NEW c \in 1..Connections, conns[c].at \in Going,
         NEW cl \in Client, Online(cl), clients[cl].conn = c, links[c].up,
         NEW g, Catch(g, conns[c].last, kernel.seq), NEW e \in Frame, ~Bearing(e)
  PROVE  /\ links[c].frames \in Seq(Frame)
         /\ ~clients[cl].detaching => InTurn(links[c].frames \o g, clients[cl].last)
                                      /\ InTurn(links[c].frames \o Append(g, e), clients[cl].last)
         /\ Leads(links[c].frames \o g, clients[cl].last, kernel.seq)
         /\ Leads(links[c].frames \o Append(g, e), clients[cl].last, kernel.seq)
         /\ \A b \in BOOLEAN : Leaves(links[c].frames, clients[cl].busy, b) =>
              /\ Leaves(links[c].frames \o g, clients[cl].busy, b)
              /\ ~Telling(e) => Leaves(links[c].frames \o Append(g, e), clients[cl].busy, b)
         /\ Telling(e) => Leaves(links[c].frames \o Append(g, e), clients[cl].busy, e.busy)
<1> DEFINE f == links[c].frames
           a == clients[cl].last
           n == conns[c].last
           k == kernel.seq
           h == Append(g, e)
<1>1. links[c] \in LinkType /\ clients[cl] \in ClientType
  BY DEF ServingInv, ServingTypes
<1>2. f \in Seq(Frame) /\ g \in Seq(Frame) /\ <<e>> \in Seq(Frame) /\ h = g \o <<e>> /\ h \in Seq(Frame)
  BY <1>1, CatchSays DEF LinkType
<1>3. /\ Leads(f, a, n) /\ (~clients[cl].detaching => InTurn(f, a))
  BY DEF ServingInv, ClientInv, Follows
<1>4. InTurn(g, n) /\ Leads(g, n, k) /\ \A b : Leaves(g, b, b)
  BY CatchSays DEF Catch
<1>5. InTurn(<<e>>, k) /\ Leads(<<e>>, k, k)
  <2>1. \A i \in DOMAIN <<e>> : ~Bearing(<<e>>[i])
    OBVIOUS
  <2> QED BY <2>1, <1>2, LeadsNowhere
<1> HIDE DEF f, a, n, k, h
<1>6. InTurn(h, n) /\ Leads(h, n, k)
  BY <1>2, <1>4, <1>5, InTurnJoined, LeadsJoined
<1>7. /\ Leads(f \o g, a, k) /\ Leads(f \o h, a, k)
      /\ ~clients[cl].detaching => InTurn(f \o g, a) /\ InTurn(f \o h, a)
  BY <1>2, <1>3, <1>4, <1>6, InTurnJoined, LeadsJoined
<1>8. ASSUME NEW b, Leaves(f, clients[cl].busy, b) PROVE Leaves(f \o g, clients[cl].busy, b)
  BY <1>2, <1>4, <1>8, LeavesJoined
<1>9. ~Telling(e) => \A b : Leaves(<<e>>, b, b)
  BY <1>2 DEF Leaves, TellsLast, Silent
<1>10. ASSUME NEW b, Leaves(f, clients[cl].busy, b), ~Telling(e)
       PROVE  Leaves(f \o h, clients[cl].busy, b)
  <2>1. Leaves(h, b, b)
    BY <1>2, <1>4, <1>9, <1>10, LeavesJoined
  <2> QED BY <2>1, <1>2, <1>10, LeavesJoined
<1>11. ASSUME Telling(e) PROVE Leaves(f \o h, clients[cl].busy, e.busy)
  <2>1. f \o h = Append(f \o g, e) /\ f \o g \in Seq(Frame)
    BY <1>2
  <2>2. TellsLast(f \o h, e.busy) /\ ~Silent(f \o h)
    BY <2>1, <1>11, TellsAppended
  <2> QED BY <2>2 DEF Leaves
<1> QED BY <1>2, <1>7, <1>8, <1>10, <1>11 DEF f, a, k, h

---------------------------------------------------------------------------
(* The steps of a connection that goes on.                                 *)

\* Where a connection is that goes on.
LEMMA GoingFacts ==
  ASSUME ServingInv, NEW c \in 1..Connections, conns[c].at \in Going \cup {"attaching"}
  PROVE  /\ conns[c] \in ConnType /\ links[c] \in LinkType
         /\ kernel.seq \in Nat /\ kernel.fragments \in Nat /\ session.open \in BOOLEAN
             /\ session.busy \in BOOLEAN
         /\ conns[c].last \in Nat /\ conns[c].last <= kernel.seq
         /\ conns[c].at \in Going => conns[c].hears
         /\ conns[c].answer \in Seq(WordType) /\ conns[c].voice \in Seq(VoiceType)
             /\ conns[c].events \in Seq(Nat)
         /\ session.open => TellsLast(conns[c].voice, session.busy)
         /\ \A i \in DOMAIN conns[c].voice : Telling(conns[c].voice[i])
             => conns[c].voice[i].mark <= kernel.fragments
<1>1. conns[c] \in ConnType /\ links[c] \in LinkType
      /\ kernel.seq \in Nat /\ kernel.fragments \in Nat /\ session.open \in BOOLEAN /\ session.busy \in BOOLEAN
  BY DEF ServingInv, ServingTypes
<1>2. ConnInv(conns[c], links[c], kernel, session)
  BY DEF ServingInv
<1>3. conns[c].last \in Nat /\ conns[c].answer \in Seq(WordType) /\ conns[c].voice \in Seq(VoiceType)
      /\ conns[c].events \in Seq(Nat)
  BY <1>1 DEF ConnType
<1>4. conns[c].last <= kernel.seq /\ (conns[c].at \in Going => conns[c].hears)
  BY <1>2 DEF ConnInv, ConnFollows, ConnHears
<1>5. session.open => TellsLast(conns[c].voice, session.busy)
  BY <1>2 DEF ConnInv, ConnTold
<1>6. \A i \in DOMAIN conns[c].voice : Telling(conns[c].voice[i]) => conns[c].voice[i].mark <= kernel.fragments
  BY <1>2 DEF ConnInv, ConnMarked
<1> QED BY <1>1, <1>3, <1>4, <1>5, <1>6

\* The word it waits for.
LEMMA WordFacts ==
  ASSUME ServingInv, NEW c \in 1..Connections, conns[c].answer # <<>>
  PROVE  /\ Head(conns[c].answer) \in WordType /\ conns[c].answer \in Seq(WordType)
         /\ AnswerFits(Head(conns[c].answer).about, conns[c].at)
         /\ Head(conns[c].answer).mark <= kernel.fragments /\ Head(conns[c].answer).seq <= kernel.seq
         /\ ~session.open => Head(conns[c].answer).seq < kernel.seq
         /\ conns[c].hears
         /\ session.open /\ Silent(conns[c].voice) /\ ~conns[c].deaf /\ Head(conns[c].answer).about # "replaced"
              => Head(conns[c].answer).busy = session.busy
<1>1. conns[c].answer \in Seq(WordType)
  BY DEF ServingInv, ServingTypes, ConnType
<1>2. 1 \in DOMAIN conns[c].answer /\ Head(conns[c].answer) = conns[c].answer[1]
      /\ conns[c].answer[1] \in WordType
  BY <1>1
<1>3. ConnInv(conns[c], links[c], kernel, session)
  BY DEF ServingInv
<1>4. /\ AnswerFits(conns[c].answer[1].about, conns[c].at)
      /\ conns[c].answer[1].mark <= kernel.fragments /\ conns[c].answer[1].seq <= kernel.seq
      /\ ~session.open => conns[c].answer[1].seq < kernel.seq
  BY <1>2, <1>3 DEF ConnInv, ConnPlaced, ConnMarked, ConnFollows
<1>5. conns[c].hears
  BY <1>3 DEF ConnInv, ConnHears
<1>6. session.open /\ Silent(conns[c].voice) /\ ~conns[c].deaf /\ Head(conns[c].answer).about # "replaced"
        => Head(conns[c].answer).busy = session.busy
  BY <1>3 DEF ConnInv, ConnTold, Pending
<1> QED BY <1>1, <1>2, <1>4, <1>5, <1>6

\* What a client that hears the loop will come to believe of the turn.
LEMMA FollowsUp ==
  ASSUME ServingInv, NEW cl \in Client, Online(cl), session.open,
         links[clients[cl].conn].up, Silent(conns[clients[cl].conn].voice), ~conns[clients[cl].conn].deaf,
         ~Pending(conns[clients[cl].conn]),
         conns[clients[cl].conn].at \in {"loop", "asking", "reattaching"}
  PROVE  Leaves(links[clients[cl].conn].frames, clients[cl].busy, session.busy)
BY DEF ServingInv, ClientInv, Told

\* What is left in hand of a connection that has written what it missed.
LEMMA CaughtUpFacts ==
  ASSUME NEW had \in ConnType, kernel.seq \in Nat
  PROVE  /\ Flushed(had) \in ConnType /\ Flushed(had).last = kernel.seq
         /\ Flushed(had).client = had.client /\ Flushed(had).hears = had.hears
         /\ Flushed(had).voice = had.voice /\ Flushed(had).deaf = had.deaf
         /\ Flushed(had).events = had.events /\ Flushed(had).at = had.at
         /\ Flushed(had).answer = had.answer /\ Flushed(had).lagged = had.lagged
         /\ CaughtUp(had) \in ConnType /\ CaughtUp(had).last = kernel.seq
         /\ CaughtUp(had).client = had.client /\ CaughtUp(had).hears = had.hears
         /\ CaughtUp(had).voice = had.voice /\ CaughtUp(had).deaf = had.deaf
         /\ CaughtUp(had).events = <<>> /\ CaughtUp(had).at = had.at
         /\ CaughtUp(had).answer = had.answer
<1>1. /\ Flushed(had) \in ConnType /\ Flushed(had).last = kernel.seq
      /\ Flushed(had).client = had.client /\ Flushed(had).hears = had.hears
      /\ Flushed(had).voice = had.voice /\ Flushed(had).deaf = had.deaf
      /\ Flushed(had).events = had.events /\ Flushed(had).at = had.at
      /\ Flushed(had).answer = had.answer /\ Flushed(had).lagged = had.lagged
  BY DEF ConnType, Flushed
<1> DEFINE f == Flushed(had)
<1> HIDE DEF f
<1>2. CaughtUp(had) = [f EXCEPT !.events = <<>>, !.lagged = FALSE]
  BY DEF CaughtUp, f
<1>3. f \in ConnType
  BY <1>1 DEF f
<1>4. /\ CaughtUp(had) \in ConnType /\ CaughtUp(had).last = f.last
      /\ CaughtUp(had).client = f.client /\ CaughtUp(had).hears = f.hears
      /\ CaughtUp(had).voice = f.voice /\ CaughtUp(had).deaf = f.deaf
      /\ CaughtUp(had).events = <<>> /\ CaughtUp(had).at = f.at
      /\ CaughtUp(had).answer = f.answer
  <2>1. <<>> \in Seq(Nat)
    OBVIOUS
  <2> QED BY <2>1, <1>2, <1>3 DEF ConnType
<1> QED BY <1>1, <1>4 DEF f

\* One frame behind what was missed: what it adds.
LEMMA WordBehind ==
  ASSUME NEW g, NEW a, NEW k, Catch(g, a, k), NEW e \in Frame, ~Bearing(e)
  PROVE  /\ Append(g, e) \in Seq(Frame)
         /\ AnswersIn(Append(g, e)) = IF e.kind \in {"answer", "failed"} THEN 1 ELSE 0
         /\ \A i \in DOMAIN Append(g, e) :
              /\ Bearing(Append(g, e)[i]) => Append(g, e)[i].seq <= k
              /\ Append(g, e)[i].kind # "attached"
              /\ SaysHowItStands(Append(g, e)[i]) => Append(g, e)[i] = e
              /\ IsReplaced(Append(g, e)[i]) => Append(g, e)[i] = e
         /\ \E i \in DOMAIN Append(g, e) : Append(g, e)[i] = e
<1>1. g \in Seq(Frame) /\ AnswersIn(g) = 0 /\ <<e>> \in Seq(Frame)
  BY CatchSays
<1>2. Append(g, e) = g \o <<e>> /\ Append(g, e) \in Seq(Frame)
  BY <1>1
<1>3. AnswersIn(<<e>>) = IF e.kind \in {"answer", "failed"} THEN 1 ELSE 0
  BY AnswersOne DEF Bearing
<1>4. AnswersIn(Append(g, e)) = IF e.kind \in {"answer", "failed"} THEN 1 ELSE 0
  <2>1. AnswersIn(g \o <<e>>) = AnswersIn(g) + AnswersIn(<<e>>)
    BY <1>1, AnswersJoined
  <2> QED BY <2>1, <1>1, <1>2, <1>3
<1>5. \A i \in DOMAIN g : ~SaysHowItStands(g[i]) /\ ~IsReplaced(g[i])
                          /\ g[i].kind # "attached" /\ (Bearing(g[i]) => g[i].seq <= k)
  BY CatchSays
<1>6. \A i \in DOMAIN Append(g, e) : (i \in DOMAIN g /\ Append(g, e)[i] = g[i]) \/ Append(g, e)[i] = e
  BY <1>1
<1>7. Len(g) + 1 \in DOMAIN Append(g, e) /\ Append(g, e)[Len(g) + 1] = e
  BY <1>1
<1>8. \A i \in DOMAIN Append(g, e) :
              /\ Bearing(Append(g, e)[i]) => Append(g, e)[i].seq <= k
              /\ Append(g, e)[i].kind # "attached"
              /\ SaysHowItStands(Append(g, e)[i]) => Append(g, e)[i] = e
              /\ IsReplaced(Append(g, e)[i]) => Append(g, e)[i] = e
  BY <1>5, <1>6 DEF Bearing
<1> QED BY <1>2, <1>4, <1>7, <1>8

\* The answer to a command is written behind the backlog, and settles it.
LEMMA DoneKeeps ==
  ASSUME ServingInv, NEW c \in 1..Connections, Done(c)
  PROVE  ServingInv'
<1> DEFINE had == conns[c]
           word == Head(had.answer)
           e == Answered(word)
           g == Backlog(had)
           conn == [CaughtUp(had) EXCEPT !.at = "loop", !.answer = <<>>]
<1>1. had.at = "asking" /\ had.answer # <<>> /\ Goes(c, conn, Append(g, e)) /\ asks' = asks
  BY DEF Done
<1>2. had.at \in Going
  BY <1>1 DEF Going
<1>3. /\ had \in ConnType /\ kernel.seq \in Nat /\ kernel.fragments \in Nat /\ session.busy \in BOOLEAN
      /\ had.last <= kernel.seq /\ had.hears
      /\ session.open => TellsLast(had.voice, session.busy)
  BY <1>2, GoingFacts
<1>4. /\ word \in WordType /\ AnswerFits(word.about, "asking") /\ word.mark <= kernel.fragments
      /\ session.open /\ Silent(had.voice) /\ ~had.deaf /\ word.about # "replaced" => word.busy = session.busy
  BY <1>1, WordFacts
<1>5. /\ e \in Frame /\ ~Bearing(e) /\ e.kind \in {"answer", "failed"}
      /\ SaysHowItStands(e) => e.mark <= kernel.fragments
      /\ Telling(e) <=> word.about # "replaced"
      /\ Telling(e) => e.busy = word.busy
  <2>1. CASE word.about = "replaced"
    BY <2>1 DEF Answered, Failed, Frame, Bearing, SaysHowItStands, Telling
  <2>2. CASE word.about # "replaced"
    <3>1. e = [kind |-> "answer", about |-> word.about, busy |-> word.busy, mark |-> word.mark]
      BY <2>2 DEF Answered, Answer
    <3>2. word.about \in Abouts /\ word.busy \in BOOLEAN /\ word.mark \in Nat
      BY <1>4 DEF WordType
    <3> HIDE DEF word, e
    <3> QED BY <2>2, <3>1, <3>2, <1>4 DEF Frame, Bearing, SaysHowItStands, Telling
  <2> QED BY <2>1, <2>2
<1>6. /\ conn \in ConnType /\ conn.at = "loop" /\ conn.client = had.client /\ conn.hears = had.hears
      /\ conn.answer = <<>> /\ conn.last = kernel.seq /\ conn.events = <<>> /\ conn.voice = had.voice
      /\ conn.deaf = had.deaf
  <2> DEFINE up == CaughtUp(had)
  <2> HIDE DEF up, word, e, g
  <2>1. conn = [up EXCEPT !.at = "loop", !.answer = <<>>]
    BY DEF up
  <2>2. up \in ConnType
    BY <1>3, CaughtUpFacts DEF up
  <2> HIDE DEF conn
  <2>3. /\ conn \in ConnType /\ conn.at = "loop" /\ conn.client = up.client /\ conn.hears = up.hears
        /\ conn.answer = <<>> /\ conn.last = up.last /\ conn.events = up.events /\ conn.voice = up.voice
        /\ conn.deaf = up.deaf
    <3>1. <<>> \in Seq(WordType)
      OBVIOUS
    <3> QED BY <3>1, <2>1, <2>2 DEF ConnType
  <2> QED BY <1>3, <2>3, CaughtUpFacts DEF up
<1> HIDE DEF word, e, g, conn
<1>7. Catch(g, had.last, kernel.seq)
  BY <1>3, BacklogCatches DEF g
<1>8. /\ Append(g, e) \in Seq(Frame) /\ AnswersIn(Append(g, e)) = 1
      /\ \A i \in DOMAIN Append(g, e) :
           /\ Bearing(Append(g, e)[i]) => Append(g, e)[i].seq <= kernel.seq
           /\ Append(g, e)[i].kind # "attached"
           /\ SaysHowItStands(Append(g, e)[i]) => Append(g, e)[i].mark <= kernel.fragments
  BY <1>5, <1>7, WordBehind
<1>9. Kept(conn, had)
  BY <1>3, <1>6, KeptWays
<1>10. ASSUME NEW cl \in Client, Online(cl), clients[cl].conn = c, links[c].up
       PROVE  /\ ~clients[cl].detaching => InTurn(links[c].frames \o Append(g, e), clients[cl].last)
              /\ Leads(links[c].frames \o Append(g, e), clients[cl].last, conn.last)
              /\ session.open /\ Silent(conn.voice) /\ ~conn.deaf /\ conn.at = "loop"
                   => Leaves(links[c].frames \o Append(g, e), clients[cl].busy, session.busy)
  <2>1. /\ ~clients[cl].detaching => InTurn(links[c].frames \o Append(g, e), clients[cl].last)
        /\ Leads(links[c].frames \o Append(g, e), clients[cl].last, kernel.seq)
        /\ \A b \in BOOLEAN : Leaves(links[c].frames, clients[cl].busy, b) =>
             (~Telling(e) => Leaves(links[c].frames \o Append(g, e), clients[cl].busy, b))
        /\ Telling(e) => Leaves(links[c].frames \o Append(g, e), clients[cl].busy, e.busy)
    BY <1>2, <1>5, <1>7, <1>10, CatchThenWord
  <2>2. ASSUME session.open, Silent(had.voice), ~had.deaf, ~Telling(e)
        PROVE  Leaves(links[c].frames, clients[cl].busy, session.busy)
    <3>1. ~Pending(had)
      BY <1>5, <2>2 DEF Pending, word
    <3> QED BY <3>1, <2>2, <1>1, <1>10, FollowsUp
  <2> QED BY <2>1, <2>2, <1>3, <1>4, <1>5, <1>6
<1>11. \A k \in DOMAIN asks : asks[k].from # c
  BY <1>1, NoneAsked
<1>12. AnswersIn(Append(g, e)) = IF had.at \in Asking1 THEN 1 ELSE 0
  BY <1>1, <1>8 DEF Asking1
<1> DEFINE frames == Append(g, e)
<1>13. \A i \in DOMAIN frames : /\ Bearing(frames[i]) => frames[i].seq <= kernel.seq
                                /\ frames[i].kind = "attached" /\ ~session.open => frames[i].seq < kernel.seq
                                /\ SaysHowItStands(frames[i]) => frames[i].mark <= kernel.fragments
  BY <1>8
<1> HIDE DEF frames, had
<1> QED BY <1>1, <1>2, <1>3, <1>6, <1>8, <1>9, <1>10, <1>11, <1>12, <1>13, Stays DEF frames, had

\* A connection that reads is owed no answer and asks for nothing.
LEMMA AtLoop ==
  ASSUME ServingInv, NEW c \in 1..Connections, conns[c].at = "loop"
  PROVE  conns[c].answer = <<>> /\ ~Pending(conns[c]) /\ \A k \in DOMAIN asks : asks[k].from # c
<1>1. conns[c].answer = <<>>
  <2> SUFFICES ASSUME conns[c].answer # <<>> PROVE FALSE
    OBVIOUS
  <2>1. AnswerFits(Head(conns[c].answer).about, "loop")
    BY WordFacts
  <2> QED BY <2>1 DEF AnswerFits
<1> QED BY <1>1, NoneAsked DEF Pending

\* An empty list is a list of anything.
LEMMA EmptyLists == <<>> \in Seq(Nat) /\ <<>> \in Seq(WordType) /\ <<>> \in Seq(VoiceType)
OBVIOUS

\* It wrote what it missed, and nothing that tells anything.
LEMMA StaysCaught ==
  ASSUME ServingInv, NEW c \in 1..Connections, NEW conn \in ConnType, NEW frames,
         Catch(frames, conns[c].last, kernel.seq), Goes(c, conn, frames), conns[c].at = "loop",
         conn.at \in {"loop", "standing"}, conn.client = conns[c].client, conn.hears, conn.answer = <<>>,
         Kept(conn, conns[c]), conn.last = kernel.seq, conn.voice = conns[c].voice,
         conn.deaf = conns[c].deaf \/ conn.at = "standing" \/ ~session.open,
         \/ asks' = asks
         \/ session.open /\ conn.at = "standing" /\ asks' = Append(asks, [what |-> "standing", from |-> c])
  PROVE  ServingInv'
<1> DEFINE had == conns[c]
<1>1. had.at \in Going /\ had.at \notin Asking1
  BY DEF Going, Asking1
<1>2. had.hears /\ (session.open => TellsLast(had.voice, session.busy)) /\ kernel.seq \in Nat
        /\ session.busy \in BOOLEAN
  BY <1>1, GoingFacts
<1>3. /\ frames \in Seq(Frame) /\ AnswersIn(frames) = 0
      /\ \A i \in DOMAIN frames : ~SaysHowItStands(frames[i]) /\ frames[i].kind # "attached"
                                  /\ (Bearing(frames[i]) => frames[i].seq <= kernel.seq)
  BY CatchSays
<1>4. ASSUME NEW cl \in Client, Online(cl), clients[cl].conn = c, links[c].up
       PROVE  /\ ~clients[cl].detaching => InTurn(links[c].frames \o frames, clients[cl].last)
              /\ Leads(links[c].frames \o frames, clients[cl].last, conn.last)
              /\ session.open /\ Silent(conn.voice) /\ ~conn.deaf /\ conn.at = "loop"
                   => Leaves(links[c].frames \o frames, clients[cl].busy, session.busy)
  <2>1. Missed \in Frame /\ ~Bearing(Missed)
    BY Interruptions DEF Missed, Bearing
  <2>2. /\ ~clients[cl].detaching => InTurn(links[c].frames \o frames, clients[cl].last)
        /\ Leads(links[c].frames \o frames, clients[cl].last, kernel.seq)
        /\ \A b \in BOOLEAN : Leaves(links[c].frames, clients[cl].busy, b) =>
             Leaves(links[c].frames \o frames, clients[cl].busy, b)
    BY <2>1, <1>1, <1>4, CatchThenWord
  <2>3. ASSUME session.open, Silent(had.voice), ~had.deaf
        PROVE  Leaves(links[c].frames, clients[cl].busy, session.busy)
    BY <2>3, <1>4, AtLoop, FollowsUp
  <2> QED BY <2>2, <2>3, <1>2
<1>5. \A k \in DOMAIN asks : asks[k].from # c
  BY NoneAsked
<1>6. AnswersIn(frames) = IF had.at \in Asking1 THEN 1 ELSE 0
  BY <1>1, <1>3
<1>7. \A i \in DOMAIN frames : /\ Bearing(frames[i]) => frames[i].seq <= kernel.seq
                               /\ frames[i].kind = "attached" /\ ~session.open => frames[i].seq < kernel.seq
                               /\ SaysHowItStands(frames[i]) => frames[i].mark <= kernel.fragments
  BY <1>3
<1> HIDE DEF had
<1> QED BY <1>1, <1>2, <1>3, <1>4, <1>5, <1>6, <1>7, Stays DEF had

\* It wrote what it missed, and a word that tells how the session stands.
LEMMA StaysTold ==
  ASSUME ServingInv, NEW c \in 1..Connections, NEW conn \in ConnType, NEW e \in Frame,
         Goes(c, conn, Append(Backlog(conns[c]), e)), conns[c].at \in {"loop", "standing"},
         e.kind \in {"busy", "model"}, e.kind = "busy" => e.mark <= kernel.fragments,
         conn.at = "loop", conn.client = conns[c].client, conn.hears, conn.answer = <<>>,
         Kept(conn, conns[c]), conn.last = kernel.seq, conn.events = <<>>,
         session.open => TellsLast(conn.voice, session.busy),
         e.kind = "busy" /\ session.open /\ Silent(conn.voice) /\ ~conn.deaf => e.busy = session.busy,
         e.kind = "model" => conns[c].at = "loop" /\ conn.deaf = conns[c].deaf
                             /\ (Silent(conn.voice) => Silent(conns[c].voice)),
         asks' = asks, \A k \in DOMAIN asks : asks[k].from # c
  PROVE  ServingInv'
<1> DEFINE had == conns[c]
           g == Backlog(had)
           frames == Append(g, e)
<1>1. had.at \in Going /\ had.at \notin Asking1
  BY DEF Going, Asking1
<1>2. had \in ConnType /\ had.last <= kernel.seq /\ had.hears /\ kernel.seq \in Nat /\ session.busy \in BOOLEAN
  BY <1>1, GoingFacts
<1>3. Catch(g, had.last, kernel.seq)
  BY <1>2, BacklogCatches
<1>4. ~Bearing(e) /\ (Telling(e) <=> e.kind = "busy")
  BY DEF Bearing, Telling
<1> HIDE DEF g
<1>5. /\ frames \in Seq(Frame) /\ AnswersIn(frames) = 0
      /\ \A i \in DOMAIN frames :
           /\ Bearing(frames[i]) => frames[i].seq <= kernel.seq
           /\ frames[i].kind # "attached"
           /\ SaysHowItStands(frames[i]) => frames[i] = e
  BY <1>3, <1>4, WordBehind
<1>6. SaysHowItStands(e) => e.mark <= kernel.fragments
  BY DEF SaysHowItStands
<1>7. ASSUME NEW cl \in Client, Online(cl), clients[cl].conn = c, links[c].up
       PROVE  /\ ~clients[cl].detaching => InTurn(links[c].frames \o frames, clients[cl].last)
              /\ Leads(links[c].frames \o frames, clients[cl].last, conn.last)
              /\ session.open /\ Silent(conn.voice) /\ ~conn.deaf /\ conn.at = "loop"
                   => Leaves(links[c].frames \o frames, clients[cl].busy, session.busy)
  <2>1. /\ ~clients[cl].detaching => InTurn(links[c].frames \o frames, clients[cl].last)
        /\ Leads(links[c].frames \o frames, clients[cl].last, kernel.seq)
        /\ \A b \in BOOLEAN : Leaves(links[c].frames, clients[cl].busy, b) =>
             (~Telling(e) => Leaves(links[c].frames \o frames, clients[cl].busy, b))
        /\ Telling(e) => Leaves(links[c].frames \o frames, clients[cl].busy, e.busy)
    BY <1>1, <1>3, <1>4, <1>7, CatchThenWord
  <2>2. ASSUME session.open, Silent(conn.voice), ~conn.deaf, e.kind = "model"
        PROVE  Leaves(links[c].frames, clients[cl].busy, session.busy)
    BY <2>2, <1>7, AtLoop, FollowsUp
  <2> QED BY <2>1, <2>2, <1>2, <1>4
<1>8. AnswersIn(frames) = IF had.at \in Asking1 THEN 1 ELSE 0
  BY <1>1, <1>5
<1>9. \A i \in DOMAIN frames : /\ Bearing(frames[i]) => frames[i].seq <= kernel.seq
                               /\ frames[i].kind = "attached" /\ ~session.open => frames[i].seq < kernel.seq
                               /\ SaysHowItStands(frames[i]) => frames[i].mark <= kernel.fragments
  BY <1>5, <1>6
<1>10. Goes(c, conn, frames)
  BY DEF g
<1> HIDE DEF had, frames
<1> QED BY <1>1, <1>2, <1>5, <1>7, <1>8, <1>9, <1>10, Stays DEF had

\* An event that came is written, with the records it stands for.
LEMMA HearKeeps ==
  ASSUME ServingInv, NEW c \in 1..Connections, Hear(c)
  PROVE  ServingInv'
<1> DEFINE had == conns[c]
           up == Flushed(had)
           past == RecordsAfter(had.last)
<1>1. had.at = "loop" /\ asks' = asks /\ had.at \in Going
  BY DEF Hear, Going
<1>2. had \in ConnType /\ kernel.seq \in Nat /\ had.last \in Nat /\ had.last <= kernel.seq /\ had.hears
      /\ had.events \in Seq(Nat) /\ had.answer = <<>>
  BY <1>1, GoingFacts, AtLoop
<1>3. Catch(past, had.last, kernel.seq)
  BY <1>2, RecordsCatch
<1>4. /\ up \in ConnType /\ up.last = kernel.seq /\ up.client = had.client /\ up.hears = had.hears
      /\ up.voice = had.voice /\ up.deaf = had.deaf /\ up.events = had.events /\ up.at = had.at
      /\ up.answer = had.answer /\ up.lagged = had.lagged
  BY <1>2, CaughtUpFacts
<1>5. CASE had.lagged
  <2> DEFINE conn == [up EXCEPT !.lagged = FALSE]
  <2>1. Goes(c, conn, Append(past, Missed))
    BY <1>4, <1>5 DEF Hear
  <2>2. Append(past, Missed) = past \o <<Missed>>
    BY <1>3 DEF Catch
  <2>3. Catch(past \o <<Missed>>, had.last, kernel.seq)
    BY <1>3, Interruptions, CatchJoined
  <2> HIDE DEF up, past
  <2>4. /\ conn \in ConnType /\ conn.last = up.last /\ conn.client = up.client /\ conn.hears = up.hears
        /\ conn.voice = up.voice /\ conn.deaf = up.deaf /\ conn.events = up.events /\ conn.at = up.at
        /\ conn.answer = up.answer
    BY <1>4 DEF ConnType
  <2> HIDE DEF conn
  <2>5. Kept(conn, had)
    BY <2>4, <1>2, <1>4, KeptWays
  <2> QED BY <1>1, <1>2, <1>4, <2>1, <2>2, <2>3, <2>4, <2>5, StaysCaught
<1>6. CASE ~had.lagged
  <2> DEFINE conn == [up EXCEPT !.events = Tail(@)]
             one == IF Head(had.events) = Record THEN <<>> ELSE <<Fragment>>
  <2>1. had.events # <<>> /\ Goes(c, conn, past \o one)
    BY <1>4, <1>6 DEF Hear
  <2>2. one \in Seq(Frame) /\ \A i \in DOMAIN one : one[i].kind \in {"missed", "fragment"}
    BY Interruptions
  <2> HIDE DEF up, past, one
  <2>3. Catch(past \o one, had.last, kernel.seq)
    BY <1>3, <2>2, CatchJoined
  <2>4. Tail(had.events) \in Seq(Nat)
    BY <1>2, <2>1
  <2>5. /\ conn \in ConnType /\ conn.last = up.last /\ conn.client = up.client /\ conn.hears = up.hears
        /\ conn.voice = up.voice /\ conn.deaf = up.deaf /\ conn.events = Tail(had.events) /\ conn.at = up.at
        /\ conn.answer = up.answer
    BY <1>4, <2>4 DEF ConnType
  <2> HIDE DEF conn
  <2>6. Kept(conn, had)
    BY <2>1, <2>5, <1>2, <1>4, KeptWays
  <2> QED BY <1>1, <1>2, <1>4, <2>1, <2>3, <2>5, <2>6, StaysCaught
<1> QED BY <1>5, <1>6

\* A connection that lost some of what was said asks where things stand.
LEMMA DeafKeeps ==
  ASSUME ServingInv, NEW c \in 1..Connections, Deaf(c)
  PROVE  ServingInv'
<1> DEFINE had == conns[c]
           up == Flushed(had)
           past == RecordsAfter(had.last)
           conn == [up EXCEPT !.deaf = FALSE, !.at = IF session.open THEN "standing" ELSE @]
<1>1. /\ had.at = "loop" /\ had.at \in Going /\ Goes(c, conn, Append(past, Missed))
      /\ asks' = (IF session.open THEN Append(asks, [what |-> "standing", from |-> c]) ELSE asks)
  BY DEF Deaf, Going, Asks
<1>2. had \in ConnType /\ kernel.seq \in Nat /\ had.last \in Nat /\ had.last <= kernel.seq /\ had.hears
      /\ had.answer = <<>>
  BY <1>1, GoingFacts, AtLoop
<1>3. Catch(past, had.last, kernel.seq)
  BY <1>2, RecordsCatch
<1>4. /\ up \in ConnType /\ up.last = kernel.seq /\ up.client = had.client /\ up.hears = had.hears
      /\ up.voice = had.voice /\ up.deaf = had.deaf /\ up.events = had.events /\ up.at = had.at
      /\ up.answer = had.answer /\ up.lagged = had.lagged
  BY <1>2, CaughtUpFacts
<1>5. Append(past, Missed) = past \o <<Missed>>
  BY <1>3 DEF Catch
<1>6. Catch(past \o <<Missed>>, had.last, kernel.seq)
  BY <1>3, Interruptions, CatchJoined
<1> HIDE DEF up, past
<1>7. /\ conn \in ConnType /\ conn.last = up.last /\ conn.client = up.client /\ conn.hears = up.hears
      /\ conn.voice = up.voice /\ conn.events = up.events
      /\ conn.at = (IF session.open THEN "standing" ELSE up.at)
      /\ conn.answer = up.answer
  BY <1>4 DEF ConnType
<1> HIDE DEF conn
<1>8. Kept(conn, had)
  BY <1>7, <1>2, <1>4, KeptWays
<1>9. conn.at \in {"loop", "standing"} /\ (conn.at = "standing" \/ ~session.open)
      /\ conn.last = kernel.seq /\ conn.client = had.client /\ conn.hears
      /\ conn.voice = had.voice /\ conn.answer = <<>>
  BY <1>1, <1>2, <1>4, <1>7
<1>10. \/ asks' = asks
       \/ session.open /\ conn.at = "standing" /\ asks' = Append(asks, [what |-> "standing", from |-> c])
  BY <1>1, <1>9
<1>11. Goes(c, conn, past \o <<Missed>>)
  BY <1>1, <1>5
<1> QED BY <1>1, <1>6, <1>7, <1>8, <1>9, <1>10, <1>11, StaysCaught

\* What the loop said is written, behind the backlog where the turn is over.
LEMMA HearVoiceKeeps ==
  ASSUME ServingInv, NEW c \in 1..Connections, HearVoice(c)
  PROVE  ServingInv'
<1> DEFINE had == conns[c]
           up == CaughtUp(had)
           e == Head(had.voice)
           conn == [up EXCEPT !.voice = Tail(@)]
<1>1. /\ had.at = "loop" /\ had.at \in Going /\ ~had.deaf /\ had.voice # <<>>
      /\ Goes(c, conn, Append(Backlog(had), e)) /\ asks' = asks
  BY DEF HearVoice, Going
<1>2. /\ had \in ConnType /\ kernel.seq \in Nat /\ had.hears /\ had.answer = <<>>
      /\ had.voice \in Seq(VoiceType) /\ session.busy \in BOOLEAN
      /\ session.open => TellsLast(had.voice, session.busy)
      /\ \A i \in DOMAIN had.voice : Telling(had.voice[i]) => had.voice[i].mark <= kernel.fragments
  BY <1>1, GoingFacts, AtLoop
<1>3. /\ up \in ConnType /\ up.last = kernel.seq /\ up.client = had.client /\ up.hears = had.hears
      /\ up.voice = had.voice /\ up.deaf = had.deaf /\ up.events = <<>> /\ up.at = had.at
      /\ up.answer = had.answer
  BY <1>2, CaughtUpFacts
<1>4. Tail(had.voice) \in Seq(VoiceType) /\ e = had.voice[1] /\ 1 \in DOMAIN had.voice /\ e \in VoiceType
  BY <1>1, <1>2
<1>5. /\ e \in Frame /\ e.kind \in {"busy", "model"} /\ (e.kind = "busy" => e.mark <= kernel.fragments)
      /\ Telling(e) <=> e.kind = "busy"
  <2>1. e \in Frame /\ e.kind \in {"busy", "model"} /\ (Telling(e) <=> e.kind = "busy")
    <3> HIDE DEF e
    <3> QED BY <1>4 DEF VoiceType, Frame, Telling
  <2> QED BY <2>1, <1>2, <1>4
<1> HIDE DEF up, e
<1>6. /\ conn \in ConnType /\ conn.last = up.last /\ conn.client = up.client /\ conn.hears = up.hears
      /\ conn.voice = Tail(had.voice) /\ conn.events = up.events /\ conn.at = up.at
      /\ conn.answer = up.answer /\ conn.deaf = up.deaf
  BY <1>3, <1>4 DEF ConnType
<1> HIDE DEF conn
<1>7. Kept(conn, had)
  BY <1>1, <1>6, <1>2, <1>3, KeptWays
<1>8. session.open => /\ TellsLast(conn.voice, session.busy)
                      /\ Silent(conn.voice) => IF Telling(e) THEN e.busy = session.busy ELSE Silent(had.voice)
  BY <1>1, <1>2, <1>4, <1>6, TellsTail
<1>9. ~Telling(e) => (Silent(conn.voice) => Silent(had.voice))
  <2> SUFFICES ASSUME ~Telling(e), Silent(Tail(had.voice)) PROVE Silent(had.voice)
    BY <1>6
  <2>1. \A i \in DOMAIN had.voice : i = 1
          \/ (i - 1 \in DOMAIN Tail(had.voice) /\ Tail(had.voice)[i - 1] = had.voice[i])
    BY <1>1, <1>2
  <2> QED BY <2>1, <1>4 DEF Silent
<1>10. \A k \in DOMAIN asks : asks[k].from # c
  BY <1>1, AtLoop
<1>11. /\ conns[c].at = "loop" /\ Goes(c, conn, Append(Backlog(conns[c]), e)) /\ asks' = asks
       /\ conn \in ConnType /\ conn.at = "loop" /\ conn.client = conns[c].client /\ conn.hears
       /\ conn.answer = <<>> /\ conn.last = kernel.seq /\ conn.events = <<>>
       /\ conn.deaf = conns[c].deaf /\ Kept(conn, conns[c])
  BY <1>1, <1>2, <1>3, <1>6, <1>7
<1>12. /\ session.open => TellsLast(conn.voice, session.busy)
       /\ e.kind = "busy" /\ session.open /\ Silent(conn.voice) /\ ~conn.deaf => e.busy = session.busy
       /\ e.kind = "model" => (Silent(conn.voice) => Silent(conns[c].voice))
  BY <1>5, <1>8, <1>9
<1> HIDE DEF had
<1> QED BY <1>5, <1>10, <1>11, <1>12, StaysTold

\* How things stand, once answered, makes up for what was lost.
LEMMA StandsKeeps ==
  ASSUME ServingInv, NEW c \in 1..Connections, Stands(c)
  PROVE  ServingInv'
<1> DEFINE had == conns[c]
<1>1. had.at = "standing" /\ had.at \in Going /\ asks' = asks /\ had.at \notin Asking1
      /\ (had.answer # <<>> \/ (~session.open /\ had.answer = <<>>))
  BY DEF Stands, Going, Unanswered, Asking1
<1>2. /\ had \in ConnType /\ kernel.seq \in Nat /\ had.hears /\ session.busy \in BOOLEAN
      /\ session.open => TellsLast(had.voice, session.busy)
  BY <1>1, GoingFacts
<1>3. \A k \in DOMAIN asks : asks[k].from # c
  BY <1>1, NoneAsked
<1>4. CASE had.answer = <<>>
  <2> DEFINE conn == [had EXCEPT !.at = "loop"]
  <2>1. ~session.open /\ Goes(c, conn, <<>>)
    BY <1>1, <1>4 DEF Stands
  <2>2. /\ conn \in ConnType /\ conn.last = had.last /\ conn.client = had.client /\ conn.hears = had.hears
        /\ conn.voice = had.voice /\ conn.events = had.events /\ conn.at = "loop"
        /\ conn.answer = had.answer /\ conn.lagged = had.lagged
    BY <1>2 DEF ConnType
  <2> HIDE DEF conn
  <2>3. Kept(conn, had)
    BY <2>2, <1>2, KeptWays
  <2>4. <<>> \in Seq(Frame) /\ AnswersIn(<<>>) = 0
    <3>1. <<>> \in Seq(Frame) /\ \A i \in DOMAIN <<>> : FALSE
      OBVIOUS
    <3> QED BY <3>1, AnswersNone
  <2>5. ASSUME NEW cl \in Client, Online(cl), clients[cl].conn = c, links[c].up
        PROVE  /\ ~clients[cl].detaching => InTurn(links[c].frames \o <<>>, clients[cl].last)
               /\ Leads(links[c].frames \o <<>>, clients[cl].last, conn.last)
    <3>1. links[c].frames \in Seq(Frame)
      BY DEF ServingInv, ServingTypes, LinkType
    <3>2. links[c].frames \o <<>> = links[c].frames
      BY <3>1
    <3>3. /\ ~clients[cl].detaching => InTurn(links[c].frames, clients[cl].last)
          /\ Leads(links[c].frames, clients[cl].last, had.last)
      BY <1>1, <2>5 DEF ServingInv, ClientInv, Follows
    <3> QED BY <3>2, <3>3, <2>2
  <2> DEFINE none == <<>>
  <2>6. AnswersIn(none) = IF had.at \in Asking1 THEN 1 ELSE 0
    BY <1>1, <2>4
  <2>7. \A i \in DOMAIN none : FALSE
    OBVIOUS
  <2>8. none \in Seq(Frame) /\ Goes(c, conn, none)
    BY <2>1, <2>4
  <2>9. \A cl \in Client : Online(cl) /\ clients[cl].conn = c /\ links[c].up =>
          /\ ~clients[cl].detaching => InTurn(links[c].frames \o none, clients[cl].last)
          /\ Leads(links[c].frames \o none, clients[cl].last, conn.last)
    BY <2>5
  <2> HIDE DEF had, none
  <2>10. /\ \A i \in DOMAIN none : /\ Bearing(none[i]) => none[i].seq <= kernel.seq
                                   /\ none[i].kind = "attached" /\ ~session.open => none[i].seq < kernel.seq
                                   /\ SaysHowItStands(none[i]) => none[i].mark <= kernel.fragments
         /\ \A i \in DOMAIN none : ~SaysHowItStands(none[i])
    BY <2>7
  <2>11. /\ conns[c].at \in Going \cup {"attaching"} /\ conns[c].hears /\ conn.at \in {"loop", "standing"}
         /\ conn.client = conns[c].client /\ conn.hears /\ conn.answer = <<>> /\ Kept(conn, conns[c])
         /\ conn.last = conns[c].last /\ conns[c].at \in Going
         /\ conn.events = conns[c].events /\ conn.lagged = conns[c].lagged
         /\ AnswersIn(none) = IF conns[c].at \in Asking1 THEN 1 ELSE 0
    BY <1>1, <1>2, <1>4, <2>2, <2>3, <2>6 DEF had
  <2>12. asks' = asks /\ ~session.open
    BY <1>1, <2>1
  <2> QED BY <1>3, <2>2, <2>8, <2>9, <2>10, <2>11, <2>12, Stays
<1>5. CASE had.answer # <<>>
  <2> DEFINE up == CaughtUp(had)
             word == Head(had.answer)
             e == [Answer(word) EXCEPT !.kind = "busy"]
             conn == [up EXCEPT !.at = "loop", !.answer = <<>>]
  <2>1. Goes(c, conn, Append(Backlog(had), e))
    BY <1>5 DEF Stands
  <2>2. /\ word \in WordType /\ AnswerFits(word.about, "standing") /\ word.mark <= kernel.fragments
        /\ session.open /\ Silent(had.voice) /\ ~had.deaf /\ word.about # "replaced" => word.busy = session.busy
    BY <1>1, <1>5, WordFacts
  <2>3. /\ up \in ConnType /\ up.last = kernel.seq /\ up.client = had.client /\ up.hears = had.hears
        /\ up.voice = had.voice /\ up.deaf = had.deaf /\ up.events = <<>>
    BY <1>2, CaughtUpFacts
  <2>4. e = [kind |-> "busy", about |-> word.about, busy |-> word.busy, mark |-> word.mark]
    BY DEF Answer
  <2> HIDE DEF up, word, e
  <2>5. word.about \in Abouts /\ word.busy \in BOOLEAN /\ word.mark \in Nat /\ word.about = "standing"
    BY <2>2 DEF WordType, AnswerFits
  <2>6. e \in Frame /\ e.kind = "busy" /\ e.mark <= kernel.fragments /\ e.busy = word.busy
    BY <2>2, <2>4, <2>5 DEF Frame
  <2>7. /\ conn \in ConnType /\ conn.last = up.last /\ conn.client = up.client /\ conn.hears = up.hears
        /\ conn.voice = up.voice /\ conn.events = up.events /\ conn.at = "loop"
        /\ conn.answer = <<>> /\ conn.deaf = up.deaf
    BY <2>3, EmptyLists DEF ConnType
  <2> HIDE DEF conn
  <2>8. Kept(conn, had)
    BY <2>7, <1>2, <2>3, KeptWays
  <2> QED BY <1>1, <1>2, <1>3, <2>1, <2>2, <2>3, <2>5, <2>6, <2>7, <2>8, StaysTold
<1> QED BY <1>4, <1>5

\* The answer to an attach: where the session stands, or what the client had missed of it.
LEMMA SettleKeeps ==
  ASSUME ServingInv, NEW c \in 1..Connections, Settle(c)
  PROVE  ServingInv'
<1> DEFINE had == conns[c]
           word == Head(had.answer)
           up == Flushed(had)
           conn == [up EXCEPT !.at = "loop", !.answer = <<>>, !.since = 0, !.fresh = TRUE]
           e == [kind |-> "attached", seq |-> word.seq, busy |-> word.busy]
           past == RecordsAfter(word.seq)
           missed == RecordsAfter(had.since)
           frames == IF had.fresh THEN <<e>> \o past ELSE Append(missed, Answer(word))
<1>1. had.at \in {"attaching", "reattaching"} /\ had.answer # <<>> /\ Goes(c, conn, frames) /\ asks' = asks
  BY DEF Settle
<1>2. had.at \in Going \cup {"attaching"} /\ had.at \in Asking1
  BY <1>1 DEF Going, Asking1
<1>3. /\ had \in ConnType /\ kernel.seq \in Nat /\ session.busy \in BOOLEAN /\ session.open \in BOOLEAN
      /\ session.open => TellsLast(had.voice, session.busy)
      /\ links[c] \in LinkType
  BY <1>2, GoingFacts
<1>4. /\ word \in WordType /\ AnswerFits(word.about, had.at) /\ word.mark <= kernel.fragments
      /\ word.seq <= kernel.seq /\ (~session.open => word.seq < kernel.seq) /\ had.hears
      /\ session.open /\ Silent(had.voice) /\ ~had.deaf /\ word.about # "replaced" => word.busy = session.busy
  BY <1>1, WordFacts
<1>5. /\ up \in ConnType /\ up.last = kernel.seq /\ up.client = had.client /\ up.hears = had.hears
      /\ up.voice = had.voice /\ up.deaf = had.deaf /\ up.events = had.events
  BY <1>3, CaughtUpFacts
<1>6. word.about = "attach" /\ word.busy \in BOOLEAN /\ word.mark \in Nat /\ word.seq \in Nat
        /\ had.since \in Nat
  BY <1>1, <1>3, <1>4 DEF AnswerFits, WordType, ConnType, Abouts
<1> HIDE DEF up
<1>7. /\ conn \in ConnType /\ conn.last = up.last /\ conn.client = up.client /\ conn.hears = up.hears
      /\ conn.voice = up.voice /\ conn.events = up.events /\ conn.at = "loop"
      /\ conn.answer = <<>> /\ conn.deaf = up.deaf
  BY <1>5, EmptyLists DEF ConnType
<1>8. Kept(conn, had)
  <2> HIDE DEF conn
  <2> QED BY <1>7, <1>3, <1>5, KeptWays
<1>9. /\ e \in Frame /\ e.kind = "attached" /\ Bearing(e) /\ Telling(e) /\ ~SaysHowItStands(e)
      /\ e.seq = word.seq /\ e.busy = word.busy
  <2> HIDE DEF word
  <2> QED BY <1>6 DEF Frame, Bearing, Telling, SaysHowItStands
<1> DEFINE answer == Answer(word)
<1>10. /\ answer \in Frame /\ answer.kind = "answer" /\ ~Bearing(answer)
       /\ Telling(answer) /\ ~SaysHowItStands(answer) /\ answer.busy = word.busy
  <2> HIDE DEF word
  <2>1. answer = [kind |-> "answer", about |-> "attach", busy |-> word.busy, mark |-> word.mark]
    BY <1>6 DEF Answer
  <2> HIDE DEF answer
  <2> QED BY <2>1, <1>6 DEF Frame, Bearing, Telling, SaysHowItStands, Abouts
<1>11. Catch(past, word.seq, kernel.seq) /\ past \in Seq(Frame)
  BY <1>3, <1>4, <1>6, RecordsCatch
<1>12. missed \in Seq(Frame) /\ had.since <= kernel.seq /\ Catch(missed, had.since, kernel.seq)
       /\ (had.since < kernel.seq => \A a : Leads(missed, a, kernel.seq))
  <2>1. had.since <= kernel.seq
    BY <1>1 DEF ServingInv, ConnInv, ConnFollows
  <2> QED BY <2>1, <1>3, <1>6, RecordsCatch
<1> HIDE DEF word, conn, e, past, missed, answer
\* The frames themselves.
<1>13. CASE had.fresh
  <2>1. frames = <<e>> \o past /\ <<e>> \in Seq(Frame) /\ frames \in Seq(Frame)
    BY <1>13, <1>9, <1>11
  <2>2. Goes(c, conn, frames) /\ conn \in ConnType
    BY <1>1, <1>7
  <2> HIDE DEF frames
  <2>3. had.at = "attaching"
    BY <1>1, <1>13 DEF ServingInv, ConnInv, ConnFollows
  <2>4. links[c].frames = <<>>
    BY <2>3 DEF ServingInv, ConnInv, ConnPlaced
  <2>5. AnswersIn(frames) = 1
    <3>1. AnswersIn(<<e>> \o past) = AnswersIn(<<e>>) + AnswersIn(past)
      BY <2>1, <1>11, AnswersJoined
    <3>2. AnswersIn(<<e>>) = 1 /\ AnswersIn(past) = 0
      BY <1>9, <1>11, AnswersOne, CatchSays
    <3> QED BY <2>1, <3>1, <3>2
  <2>6. \A i \in DOMAIN past : ~SaysHowItStands(past[i]) /\ past[i].kind # "attached"
                               /\ (Bearing(past[i]) => past[i].seq <= kernel.seq)
    BY <1>11, CatchSays
  <2>7. \A i \in DOMAIN frames : frames[i] = e \/ \E j \in DOMAIN past : frames[i] = past[j]
    <3> SUFFICES ASSUME NEW i \in DOMAIN (<<e>> \o past)
                 PROVE  (<<e>> \o past)[i] = e \/ \E j \in DOMAIN past : (<<e>> \o past)[i] = past[j]
      BY <2>1
    <3>1. i \in DOMAIN <<e>> \/ (i - Len(<<e>>) \in DOMAIN past /\ i > Len(<<e>>))
      BY <2>1, <1>11, Joined
    <3>2. CASE i \in DOMAIN <<e>>
      <4>1. (<<e>> \o past)[i] = <<e>>[i] /\ i = 1
        BY <3>2, <2>1, <1>11, Joined
      <4> QED BY <4>1
    <3>3. CASE i - Len(<<e>>) \in DOMAIN past /\ i > Len(<<e>>)
      <4>1. Len(<<e>>) = 1 /\ i \in Nat
        BY <2>1, <1>11, Joined, Ordered
      <4>2. i - 1 \in DOMAIN past /\ 1 + (i - 1) = i
        BY <4>1, <3>3
      <4>3. (<<e>> \o past)[1 + (i - 1)] = past[i - 1]
        BY <4>1, <4>2, <2>1, <1>11, Joined
      <4> QED BY <4>2, <4>3
    <3> QED BY <3>1, <3>2, <3>3
  <2>8. /\ \A i \in DOMAIN frames : /\ Bearing(frames[i]) => frames[i].seq <= kernel.seq
                                    /\ frames[i].kind = "attached" /\ ~session.open
                                        => frames[i].seq < kernel.seq
                                    /\ ~SaysHowItStands(frames[i])
    BY <2>6, <2>7, <1>4, <1>9
  <2>9. ASSUME NEW cl \in Client, Online(cl), clients[cl].conn = c, links[c].up
        PROVE  /\ InTurn(links[c].frames \o frames, clients[cl].last)
               /\ Leads(links[c].frames \o frames, clients[cl].last, kernel.seq)
               /\ session.open /\ Silent(conn.voice) /\ ~conn.deaf
                    => Leaves(links[c].frames \o frames, clients[cl].busy, session.busy)
    <3>1. links[c].frames \o frames = <<e>> \o past
      BY <2>1, <2>4
    <3>2. InTurn(<<e>>, clients[cl].last) /\ Leads(<<e>>, clients[cl].last, word.seq)
      BY <1>9 DEF InTurn, Leads, Bearing
    <3>3. Leaves(<<e>>, clients[cl].busy, word.busy)
      BY <1>9 DEF Leaves, TellsLast, Silent
    <3>4. InTurn(past, word.seq) /\ Leads(past, word.seq, kernel.seq) /\ Leaves(past, word.busy, word.busy)
      BY <1>11, CatchSays DEF Catch
    <3>5. InTurn(<<e>> \o past, clients[cl].last) /\ Leads(<<e>> \o past, clients[cl].last, kernel.seq)
      BY <3>2, <3>4, <2>1, <1>11, InTurnJoined, LeadsJoined
    <3>6. Leaves(<<e>> \o past, clients[cl].busy, word.busy)
      BY <3>3, <3>4, <2>1, <1>11, LeavesJoined
    <3>7. session.open /\ Silent(conn.voice) /\ ~conn.deaf => word.busy = session.busy
      BY <1>4, <1>5, <1>6, <1>7
    <3> QED BY <3>1, <3>5, <3>6, <3>7
  <2>10. AnswersIn(frames) = IF had.at \in Asking1 THEN 1 ELSE 0
    BY <1>2, <2>5
  <2>11. \A k \in DOMAIN asks : asks[k].from # c
    BY <1>1, NoneAsked
  <2>12. /\ conns[c].at \in Going \cup {"attaching"} /\ conns[c].hears /\ conn.at \in {"loop", "standing"}
         /\ conn.client = conns[c].client /\ conn.hears /\ conn.answer = <<>> /\ Kept(conn, conns[c])
         /\ conn.last = kernel.seq /\ (session.open => TellsLast(conn.voice, session.busy))
         /\ AnswersIn(frames) = IF conns[c].at \in Asking1 THEN 1 ELSE 0
    BY <1>2, <1>3, <1>4, <1>5, <1>7, <1>8, <2>10
  <2>13. /\ \A i \in DOMAIN frames : /\ Bearing(frames[i]) => frames[i].seq <= kernel.seq
                                     /\ frames[i].kind = "attached" /\ ~session.open
                                         => frames[i].seq < kernel.seq
                                     /\ SaysHowItStands(frames[i]) => frames[i].mark <= kernel.fragments
         /\ \A i \in DOMAIN frames : ~SaysHowItStands(frames[i])
    BY <2>8
  <2>14. \A cl \in Client : Online(cl) /\ clients[cl].conn = c /\ links[c].up =>
           /\ ~clients[cl].detaching => InTurn(links[c].frames \o frames, clients[cl].last)
           /\ Leads(links[c].frames \o frames, clients[cl].last, conn.last)
           /\ session.open /\ Silent(conn.voice) /\ ~conn.deaf /\ conn.at = "loop"
                => Leaves(links[c].frames \o frames, clients[cl].busy, session.busy)
    BY <2>9, <2>12
  <2>15. asks' = asks /\ frames \in Seq(Frame)
    BY <1>1, <2>1
  <2> HIDE DEF had
  <2> QED BY <2>2, <2>11, <2>12, <2>13, <2>14, <2>15, Stays
<1>14. CASE ~had.fresh
  <2>1. frames = Append(missed, answer)
    BY <1>14 DEF answer
  <2>2. Goes(c, conn, frames) /\ conn \in ConnType
    BY <1>1, <1>7
  <2> HIDE DEF frames
  <2>3. /\ frames \in Seq(Frame) /\ AnswersIn(frames) = 1
        /\ \A i \in DOMAIN frames : /\ Bearing(frames[i]) => frames[i].seq <= kernel.seq
                                    /\ frames[i].kind # "attached"
                                    /\ ~SaysHowItStands(frames[i])
    BY <2>1, <1>10, <1>12, WordBehind
  <2>4. <<answer>> \in Seq(Frame) /\ frames = missed \o <<answer>>
    BY <2>1, <1>10, <1>12
  <2>5. InTurn(<<answer>>, kernel.seq) /\ Leads(<<answer>>, kernel.seq, kernel.seq)
    <3>1. \A i \in DOMAIN <<answer>> : ~Bearing(<<answer>>[i])
      BY <1>10
    <3> QED BY <3>1, <2>4, LeadsNowhere
  <2>6. InTurn(frames, had.since) /\ Leads(frames, had.since, kernel.seq)
        /\ (had.since < kernel.seq => \A a : Leads(frames, a, kernel.seq))
    BY <2>4, <2>5, <1>12, InTurnJoined, LeadsJoined DEF Catch
  <2>7. TellsLast(frames, word.busy) /\ ~Silent(frames)
    BY <2>1, <1>10, <1>12, TellsAppended
  <2>8. \A a : Leaves(frames, a, word.busy)
    BY <2>7 DEF Leaves
  <2>9. ASSUME NEW cl \in Client, Online(cl), clients[cl].conn = c, links[c].up
        PROVE  /\ ~clients[cl].detaching => InTurn(links[c].frames \o frames, clients[cl].last)
               /\ Leads(links[c].frames \o frames, clients[cl].last, kernel.seq)
               /\ session.open /\ Silent(conn.voice) /\ ~conn.deaf
                    => Leaves(links[c].frames \o frames, clients[cl].busy, session.busy)
    <3>1. Follows(clients[cl], had, links[c], kernel, session.open)
      BY <2>9 DEF ServingInv, ClientInv
    <3>2. links[c].frames \in Seq(Frame)
      BY <1>3 DEF LinkType
    <3>3. CASE had.at = "attaching"
      <4>1. links[c].frames = <<>> /\ had.since = clients[cl].last
        BY <3>1, <3>3 DEF ServingInv, ConnInv, ConnPlaced, Follows
      <4>2. links[c].frames \o frames = frames
        BY <4>1, <2>3
      <4>3. session.open /\ Silent(conn.voice) /\ ~conn.deaf => word.busy = session.busy
        BY <1>4, <1>5, <1>6, <1>7
      <4> QED BY <4>1, <4>2, <4>3, <2>6, <2>8
    <3>4. CASE had.at = "reattaching"
      <4>1. clients[cl].detaching /\ Leads(links[c].frames, clients[cl].last, had.last)
        BY <3>1, <3>4, <2>9 DEF Follows, Going
      <4>2. had.since < kernel.seq
        BY <3>4 DEF ServingInv, ConnInv, ConnFollows
      <4>3. Leads(links[c].frames \o frames, clients[cl].last, kernel.seq)
        BY <4>1, <4>2, <2>6, <2>3, <3>2, LeadsJoined
      <4>4. links[c].frames \o frames = Append(links[c].frames \o missed, answer)
            /\ links[c].frames \o missed \in Seq(Frame)
        <5> DEFINE f == links[c].frames
        <5>1. f \in Seq(Frame) /\ missed \in Seq(Frame) /\ answer \in Frame
          BY <3>2, <1>10, <1>12
        <5> HIDE DEF f
        <5>2. f \o Append(missed, answer) = Append(f \o missed, answer) /\ f \o missed \in Seq(Frame)
          BY <5>1
        <5> QED BY <5>2, <2>1 DEF f
      <4>5. TellsLast(links[c].frames \o frames, word.busy) /\ ~Silent(links[c].frames \o frames)
        BY <4>4, <1>10, TellsAppended
      <4>6. session.open /\ Silent(conn.voice) /\ ~conn.deaf => word.busy = session.busy
        BY <1>4, <1>5, <1>6, <1>7
      <4> QED BY <4>1, <4>3, <4>5, <4>6 DEF Leaves
    <3> QED BY <3>3, <3>4, <1>1
  <2>10. AnswersIn(frames) = IF had.at \in Asking1 THEN 1 ELSE 0
    BY <1>2, <2>3
  <2>11. \A k \in DOMAIN asks : asks[k].from # c
    BY <1>1, NoneAsked
  <2>12. /\ conns[c].at \in Going \cup {"attaching"} /\ conns[c].hears /\ conn.at \in {"loop", "standing"}
         /\ conn.client = conns[c].client /\ conn.hears /\ conn.answer = <<>> /\ Kept(conn, conns[c])
         /\ conn.last = kernel.seq /\ (session.open => TellsLast(conn.voice, session.busy))
         /\ AnswersIn(frames) = IF conns[c].at \in Asking1 THEN 1 ELSE 0
    BY <1>2, <1>3, <1>4, <1>5, <1>7, <1>8, <2>10
  <2>13. /\ \A i \in DOMAIN frames : /\ Bearing(frames[i]) => frames[i].seq <= kernel.seq
                                     /\ frames[i].kind = "attached" /\ ~session.open
                                         => frames[i].seq < kernel.seq
                                     /\ SaysHowItStands(frames[i]) => frames[i].mark <= kernel.fragments
         /\ \A i \in DOMAIN frames : ~SaysHowItStands(frames[i])
    BY <2>3
  <2>14. \A cl \in Client : Online(cl) /\ clients[cl].conn = c /\ links[c].up =>
           /\ ~clients[cl].detaching => InTurn(links[c].frames \o frames, clients[cl].last)
           /\ Leads(links[c].frames \o frames, clients[cl].last, conn.last)
           /\ session.open /\ Silent(conn.voice) /\ ~conn.deaf /\ conn.at = "loop"
                => Leaves(links[c].frames \o frames, clients[cl].busy, session.busy)
    BY <2>9, <2>12
  <2>15. asks' = asks
    BY <1>1
  <2> HIDE DEF had
  <2> QED BY <2>3, <2>2, <2>11, <2>12, <2>13, <2>14, <2>15, Stays
<1> QED BY <1>13, <1>14

---------------------------------------------------------------------------
(* The steps of a connection that is over.                                 *)

\* A connection that writes its last frames and is over keeps the invariant, if the
\* frames are in turn and tell the client why it is over.
LEMMA CloseStep ==
  ASSUME ServingInv, NEW c \in 1..Connections, NEW frames \in Seq(Frame), Closes(c, frames),
         conns[c].at \notin {"unborn", "closed"}, \A k \in DOMAIN asks : asks[k].from # c,
         \A i \in DOMAIN frames : /\ frames[i].kind \in {"record", "failed"}
                                  /\ frames[i].kind = "record" => frames[i].seq <= kernel.seq,
         \A cl \in Client : Online(cl) /\ clients[cl].conn = c /\ links[c].up =>
           /\ ~clients[cl].detaching => InTurn(links[c].frames \o frames, clients[cl].last)
           /\ \/ \E i \in DOMAIN frames : IsReplaced(frames[i])
              \/ ~session.open /\ Leads(links[c].frames \o frames, clients[cl].last, kernel.seq)
              \/ ~clients[cl].knows /\ links[c].frames = <<>>
  PROVE  ServingInv'
<1> DEFINE had == conns[c]
           link == links[c]
           conn == [Unborn EXCEPT !.client = had.client, !.at = "closed", !.listed = had.listed]
           wrote == Written(link, conn, frames)
<1>1. /\ Goes(c, conn, frames)
      /\ asks' = IF session.open THEN Append(asks, [what |-> "left", from |-> c]) ELSE asks
  BY DEF Closes
<1>2. had \in ConnType /\ link \in LinkType /\ session.open \in BOOLEAN
      /\ kernel.seq \in Nat /\ kernel.fragments \in Nat
  BY DEF ServingInv, ServingTypes
<1>3. had.client \in Client \cup {Nobody} /\ had.listed \in BOOLEAN
      /\ link.frames \in Seq(Frame) /\ link.commands \in Seq(CommandType) /\ link.up \in BOOLEAN
  BY <1>2 DEF ConnType, LinkType
<1>4. conn \in ConnType
  <2> HIDE DEF had
  <2> QED BY <1>3, EmptyLists DEF Unborn, ConnType
<1>5. /\ conn.at = "closed" /\ conn.client = had.client /\ conn.answer = <<>> /\ conn.events = <<>>
      /\ conn.voice = <<>> /\ conn.last = 0 /\ conn.hears = FALSE
  BY DEF Unborn
<1> HIDE DEF conn
<1>6. /\ conns' = [conns EXCEPT ![c] = conn] /\ links' = [links EXCEPT ![c] = wrote]
      /\ wrote \in LinkType /\ kernel' = kernel /\ session' = session /\ clients' = clients
  BY <1>1, GoesWrites
<1>7. /\ wrote.frames = (IF link.up THEN link.frames \o frames ELSE link.frames)
      /\ wrote.commands = <<>> /\ wrote.up = link.up
  BY <1>2, <1>5 DEF Written, LinkType
<1> HIDE DEF wrote
<1>8. ConnInv(had, link, kernel, session)
  BY DEF ServingInv
<1>9. \A i \in DOMAIN frames : /\ Bearing(frames[i]) => frames[i].seq <= kernel.seq
                               /\ frames[i].kind = "attached" /\ ~session.open => frames[i].seq < kernel.seq
                               /\ SaysHowItStands(frames[i]) => frames[i].mark <= kernel.fragments
  BY DEF Bearing, SaysHowItStands
<1>10. \A i \in DOMAIN wrote.frames :
         /\ Bearing(wrote.frames[i]) => wrote.frames[i].seq <= kernel.seq
         /\ wrote.frames[i].kind = "attached" /\ ~session.open => wrote.frames[i].seq < kernel.seq
         /\ SaysHowItStands(wrote.frames[i]) => wrote.frames[i].mark <= kernel.fragments
  <2>1. \A i \in DOMAIN link.frames :
          /\ Bearing(link.frames[i]) => link.frames[i].seq <= kernel.seq
          /\ link.frames[i].kind = "attached" /\ ~session.open => link.frames[i].seq < kernel.seq
          /\ SaysHowItStands(link.frames[i]) => link.frames[i].mark <= kernel.fragments
    BY <1>8 DEF ConnInv, ConnFollows, ConnMarked
  <2> DEFINE f == link.frames
  <2>2. f \in Seq(Frame)
    BY <1>3
  <2>3. \A i \in DOMAIN (f \o frames) :
          /\ Bearing((f \o frames)[i]) => (f \o frames)[i].seq <= kernel.seq
          /\ (f \o frames)[i].kind = "attached" /\ ~session.open => (f \o frames)[i].seq < kernel.seq
          /\ SaysHowItStands((f \o frames)[i]) => (f \o frames)[i].mark <= kernel.fragments
    <3> HIDE DEF f
    <3>1. \A i \in DOMAIN f :
          /\ Bearing(f[i]) => f[i].seq <= kernel.seq
          /\ f[i].kind = "attached" /\ ~session.open => f[i].seq < kernel.seq
          /\ SaysHowItStands(f[i]) => f[i].mark <= kernel.fragments
      BY <2>1 DEF f
    <3> QED BY <3>1, <2>2, <1>2, <1>9, AllOfJoined
  <2>4. CASE link.up
    BY <2>3, <2>4, <1>7
  <2>5. CASE ~link.up
    BY <2>1, <2>5, <1>7
  <2> QED BY <2>4, <2>5
<1>11. ConnInv(conn, wrote, kernel, session)
  <2>1. ConnPlaced(conn, wrote)
    BY <1>5, <1>8 DEF ConnInv, ConnPlaced
  <2>2. ConnFollows(conn, wrote, kernel, session.open)
    <3>1. DOMAIN wrote.commands = {} /\ DOMAIN conn.answer = {} /\ Len(conn.events) = 0
      BY <1>5, <1>7
    <3>2. EventRoom \in Nat
      BY ServingAssumption
    <3>3. Len(conn.events) <= EventRoom /\ conn.last <= kernel.seq
      BY <3>1, <3>2, <1>2, <1>5
    <3> QED BY <3>1, <3>3, <1>5, <1>10 DEF ConnFollows, Going
  <2>3. ConnMarked(conn, wrote, kernel.fragments)
    BY <1>5, <1>10 DEF ConnMarked
  <2>4. ConnHears(conn)
    BY <1>5, ServingAssumption DEF ConnHears, Going
  <2>5. ConnTold(conn, session.busy)
    BY <1>5 DEF ConnTold, TellsLast, Pending
  <2> QED BY <2>1, <2>2, <2>3, <2>4, <2>5 DEF ConnInv
<1>12. ASSUME NEW cl \in Client, Online(cl), clients[cl].conn = c
       PROVE  ClientInv(clients[cl], conn, wrote, kernel, session)
  <2>1. Follows(clients[cl], had, link, kernel, session.open)
    BY <1>12 DEF ServingInv, ClientInv
  <2>2. ~clients[cl].detaching => InTurn(wrote.frames, clients[cl].last)
    BY <2>1, <1>7, <1>12 DEF Follows
  <2>3. ASSUME wrote.up
        PROVE  \/ \E i \in DOMAIN wrote.frames : IsReplaced(wrote.frames[i])
               \/ ~session.open /\ Leads(wrote.frames, clients[cl].last, kernel.seq)
               \/ /\ ~clients[cl].knows
                  /\ \A i \in DOMAIN wrote.frames : wrote.frames[i].kind # "attached"
    <3>1. link.up /\ wrote.frames = link.frames \o frames
      BY <2>3, <1>7
    <3>2. CASE \E i \in DOMAIN frames : IsReplaced(frames[i])
      <4>1. PICK i \in DOMAIN frames : IsReplaced(frames[i])
        BY <3>2
      <4>2. link.frames \in Seq(Frame)
        BY <1>3
      <4> HIDE DEF link
      <4>3. Len(link.frames) + i \in DOMAIN (link.frames \o frames)
            /\ (link.frames \o frames)[Len(link.frames) + i] = frames[i]
        BY <4>2, Joined
      <4> QED BY <4>1, <4>3, <3>1
    <3>3. CASE ~clients[cl].knows /\ link.frames = <<>>
      <4>1. wrote.frames = frames
        BY <3>1, <3>3
      <4> QED BY <4>1, <3>3
    <3> QED BY <3>1, <3>2, <3>3, <1>12
  <2>4. Follows(clients[cl], conn, wrote, kernel, session.open)
    <3>1. wrote.commands = <<>> /\ DOMAIN wrote.commands = {}
      BY <1>7
    <3> QED BY <2>2, <2>3, <3>1, <1>5 DEF Follows, Going
  <2>5. Counted(clients[cl], conn, wrote) /\ Told(clients[cl], conn, wrote, session.busy)
    BY <1>5 DEF Counted, Told
  <2> QED BY <2>4, <2>5 DEF ClientInv
<1>13. conns[c].at # "unborn" /\ conn.at # "unborn" /\ conn.client = conns[c].client
  BY <1>5
<1>14. \/ asks' = asks
       \/ /\ session.open
          /\ \E what \in {"attach", "message", "quit", "standing", "left"} :
               asks' = Append(asks, [what |-> what, from |-> c]) /\ AskFits(what, conn)
  <2>1. AskFits("left", conn)
    BY <1>5 DEF AskFits
  <2> QED BY <2>1, <1>1
<1> HIDE DEF had, link
<1> QED BY <1>4, <1>6, <1>11, <1>12, <1>13, <1>14, ConnStep DEF had, link

\* What a refusal adds.
LEMMA Refusals ==
  ASSUME NEW about \in {"attach", "submit", "replaced"}
  PROVE  /\ Failed(about) \in Frame /\ Failed(about).kind = "failed" /\ ~Bearing(Failed(about))
         /\ ~Telling(Failed(about)) /\ (IsReplaced(Failed(about)) <=> about = "replaced")
BY DEF Failed, Frame, Bearing, Telling, IsReplaced

\* Only records, and a refusal behind them.
LEMMA OwedThenFailed ==
  ASSUME kernel.seq \in Nat, NEW f \in Seq(Frame),
         \A i \in DOMAIN f : f[i].kind = "record" /\ f[i].seq <= kernel.seq,
         NEW about \in {"attach", "submit", "replaced"}
  PROVE  /\ Append(f, Failed(about)) \in Seq(Frame)
         /\ \A i \in DOMAIN Append(f, Failed(about)) :
              /\ Append(f, Failed(about))[i].kind \in {"record", "failed"}
              /\ Append(f, Failed(about))[i].kind = "record" => Append(f, Failed(about))[i].seq <= kernel.seq
         /\ about = "replaced" =>
              \E i \in DOMAIN Append(f, Failed(about)) : IsReplaced(Append(f, Failed(about))[i])
         /\ \A a : InTurn(f, a) /\ Leads(f, a, kernel.seq) =>
              InTurn(Append(f, Failed(about)), a) /\ Leads(Append(f, Failed(about)), a, kernel.seq)
         /\ \A a : Leads(f, a, kernel.seq) => Leads(Append(f, Failed(about)), a, kernel.seq)
<1> DEFINE e == Failed(about)
<1>1. e \in Frame /\ e.kind = "failed" /\ ~Bearing(e) /\ (IsReplaced(e) <=> about = "replaced")
  BY Refusals
<1> HIDE DEF e
<1>2. Append(f, e) \in Seq(Frame) /\ Append(f, e) = f \o <<e>> /\ <<e>> \in Seq(Frame)
  BY <1>1
<1>3. /\ \A i \in DOMAIN Append(f, e) : (i \in DOMAIN f /\ Append(f, e)[i] = f[i]) \/ Append(f, e)[i] = e
      /\ Len(f) + 1 \in DOMAIN Append(f, e) /\ Append(f, e)[Len(f) + 1] = e
  BY <1>1
<1>4. InTurn(<<e>>, kernel.seq) /\ Leads(<<e>>, kernel.seq, kernel.seq)
  <2>1. \A i \in DOMAIN <<e>> : ~Bearing(<<e>>[i])
    BY <1>1
  <2> QED BY <2>1, <1>2, LeadsNowhere
<1>5. ASSUME NEW a, Leads(f, a, kernel.seq) PROVE Leads(Append(f, e), a, kernel.seq)
  BY <1>2, <1>4, <1>5, LeadsJoined
<1>6. ASSUME NEW a, InTurn(f, a), Leads(f, a, kernel.seq) PROVE InTurn(Append(f, e), a)
  <2> DEFINE g == <<e>>
  <2>1. g \in Seq(Frame) /\ InTurn(g, kernel.seq) /\ Append(f, e) = f \o g
    BY <1>2, <1>4
  <2> HIDE DEF g
  <2> QED BY <2>1, <1>6, InTurnJoined
<1>7. /\ \A i \in DOMAIN Append(f, e) :
              /\ Append(f, e)[i].kind \in {"record", "failed"}
              /\ Append(f, e)[i].kind = "record" => Append(f, e)[i].seq <= kernel.seq
      /\ about = "replaced" => \E i \in DOMAIN Append(f, e) : IsReplaced(Append(f, e)[i])
  BY <1>1, <1>3
<1> QED BY <1>2, <1>5, <1>6, <1>7 DEF e

\* Records behind the n-th are records the log has.
LEMMA OnlyRecords ==
  ASSUME kernel.seq \in Nat, NEW n \in Nat, n <= kernel.seq
  PROVE  \A i \in DOMAIN RecordsAfter(n) :
           RecordsAfter(n)[i].kind = "record" /\ RecordsAfter(n)[i].seq <= kernel.seq
<1>1. Catch(RecordsAfter(n), n, kernel.seq)
        /\ \A i \in DOMAIN RecordsAfter(n) : RecordsAfter(n)[i].kind = "record"
  BY RecordsCatch
<1> QED BY <1>1 DEF Catch

\* Nothing written is nothing added.
LEMMA EmptyFrames ==
  /\ <<>> \in Seq(Frame) /\ DOMAIN <<>> = {}
  /\ \A f \in Seq(Frame) : f \o <<>> = f /\ <<>> \o f = f
OBVIOUS

\* It writes the rest of the log, and a refusal behind it.
LEMMA ClosesBehindAll ==
  ASSUME ServingInv, NEW c \in 1..Connections, conns[c].at \in Going,
         NEW about \in {"submit", "replaced"}, ~session.open \/ about = "replaced",
         Closes(c, Append(RecordsAfter(conns[c].last), Failed(about))),
         \A k \in DOMAIN asks : asks[k].from # c
  PROVE  ServingInv'
<1> DEFINE had == conns[c]
           past == RecordsAfter(had.last)
           e == Failed(about)
           frames == Append(past, e)
<1>1. had \in ConnType /\ kernel.seq \in Nat /\ had.last \in Nat /\ had.last <= kernel.seq
  BY GoingFacts
<1>2. Catch(past, had.last, kernel.seq)
  BY <1>1, RecordsCatch
<1>3. \A i \in DOMAIN past : past[i].kind = "record" /\ past[i].seq <= kernel.seq
  BY <1>1, OnlyRecords
<1>4. e \in Frame /\ ~Bearing(e)
  BY Refusals
<1>5. past \in Seq(Frame)
  BY <1>2 DEF Catch
<1> HIDE DEF past
<1>6. /\ frames \in Seq(Frame)
      /\ \A i \in DOMAIN frames : /\ frames[i].kind \in {"record", "failed"}
                                  /\ frames[i].kind = "record" => frames[i].seq <= kernel.seq
      /\ about = "replaced" => \E i \in DOMAIN frames : IsReplaced(frames[i])
  BY <1>1, <1>3, <1>5, OwedThenFailed
<1>7. Closes(c, frames)
  BY DEF past
<1> HIDE DEF e
<1>8. ASSUME NEW cl \in Client, Online(cl), clients[cl].conn = c, links[c].up
      PROVE  /\ ~clients[cl].detaching => InTurn(links[c].frames \o frames, clients[cl].last)
             /\ \/ \E i \in DOMAIN frames : IsReplaced(frames[i])
                \/ ~session.open /\ Leads(links[c].frames \o frames, clients[cl].last, kernel.seq)
                \/ ~clients[cl].knows /\ links[c].frames = <<>>
  <2>1. /\ ~clients[cl].detaching => InTurn(links[c].frames \o frames, clients[cl].last)
        /\ Leads(links[c].frames \o frames, clients[cl].last, kernel.seq)
    BY <1>2, <1>4, <1>8, CatchThenWord
  <2> QED BY <2>1, <1>6
<1>9. conns[c].at \notin {"unborn", "closed"}
  BY DEF Going
<1> HIDE DEF frames, had
<1> QED BY <1>6, <1>7, <1>8, <1>9, CloseStep

\* A session that ends under a command gives the records first, and then the refusal.
LEMMA UndoneKeeps ==
  ASSUME ServingInv, NEW c \in 1..Connections, Undone(c)
  PROVE  ServingInv'
<1>1. conns[c].at \in Going /\ ~session.open
      /\ Closes(c, Append(RecordsAfter(conns[c].last), Failed("submit")))
  BY DEF Undone, Unanswered, Going
<1>2. \A k \in DOMAIN asks : asks[k].from # c
  BY <1>1, NoneAsked
<1> QED BY <1>1, <1>2, ClosesBehindAll

\* A connection whose place was taken is told so.
LEMMA ReplacedKeeps ==
  ASSUME ServingInv, NEW c \in 1..Connections, Replaced(c)
  PROVE  ServingInv'
<1>1. conns[c].at = "loop" /\ conns[c].at \in Going
      /\ Closes(c, Append(RecordsAfter(conns[c].last), Failed("replaced")))
  BY DEF Replaced, Going
<1>2. \A k \in DOMAIN asks : asks[k].from # c
  BY <1>1, NoneAsked
<1> QED BY <1>1, <1>2, ClosesBehindAll

\* A session that ends gives every connection the rest of its records.
LEMMA LastWordKeeps ==
  ASSUME ServingInv, NEW c \in 1..Connections, LastWord(c)
  PROVE  ServingInv'
<1> DEFINE had == conns[c]
           frames == RecordsAfter(had.last)
<1>1. had.at = "loop" /\ had.at \in Going /\ ~session.open /\ Closes(c, frames)
  BY DEF LastWord, Going
<1>2. had \in ConnType /\ kernel.seq \in Nat /\ had.last \in Nat /\ had.last <= kernel.seq
  BY <1>1, GoingFacts
<1>3. Catch(frames, had.last, kernel.seq) /\ frames \in Seq(Frame)
  BY <1>2, RecordsCatch
<1>4. \A i \in DOMAIN frames : frames[i].kind = "record" /\ frames[i].seq <= kernel.seq
  BY <1>2, OnlyRecords
<1>5. ASSUME NEW cl \in Client, Online(cl), clients[cl].conn = c, links[c].up
      PROVE  /\ ~clients[cl].detaching => InTurn(links[c].frames \o frames, clients[cl].last)
             /\ Leads(links[c].frames \o frames, clients[cl].last, kernel.seq)
  <2>1. Missed \in Frame /\ ~Bearing(Missed)
    BY Interruptions DEF Missed, Bearing
  <2> QED BY <2>1, <1>1, <1>3, <1>5, CatchThenWord
<1>6. \A k \in DOMAIN asks : asks[k].from # c
  BY <1>1, NoneAsked
<1>7. /\ conns[c].at \notin {"unborn", "closed"}
      /\ \A i \in DOMAIN frames : /\ frames[i].kind \in {"record", "failed"}
                                  /\ frames[i].kind = "record" => frames[i].seq <= kernel.seq
      /\ \A cl \in Client : Online(cl) /\ clients[cl].conn = c /\ links[c].up =>
           /\ ~clients[cl].detaching => InTurn(links[c].frames \o frames, clients[cl].last)
           /\ \/ \E i \in DOMAIN frames : IsReplaced(frames[i])
              \/ ~session.open /\ Leads(links[c].frames \o frames, clients[cl].last, kernel.seq)
              \/ ~clients[cl].knows /\ links[c].frames = <<>>
  BY <1>1, <1>4, <1>5
<1> HIDE DEF frames, had
<1> QED BY <1>1, <1>3, <1>6, <1>7, CloseStep

\* A connection whose client has gone writes to nobody.
LEMMA HangupKeeps ==
  ASSUME ServingInv, NEW c \in 1..Connections, Hangup(c)
  PROVE  ServingInv'
<1> DEFINE frames == <<>>
<1>1. conns[c].at \in {"new", "loop"} /\ ~links[c].up /\ Closes(c, frames)
  BY DEF Hangup
<1>2. frames \in Seq(Frame) /\ DOMAIN frames = {}
  BY EmptyFrames
<1> HIDE DEF frames
<1>3. \A k \in DOMAIN asks : asks[k].from # c
  BY <1>1, NoneAsked
<1>4. /\ conns[c].at \notin {"unborn", "closed"}
      /\ \A i \in DOMAIN frames : /\ frames[i].kind \in {"record", "failed"}
                                  /\ frames[i].kind = "record" => frames[i].seq <= kernel.seq
      /\ \A cl \in Client : Online(cl) /\ clients[cl].conn = c /\ links[c].up =>
           /\ ~clients[cl].detaching => InTurn(links[c].frames \o frames, clients[cl].last)
           /\ \/ \E i \in DOMAIN frames : IsReplaced(frames[i])
              \/ ~session.open /\ Leads(links[c].frames \o frames, clients[cl].last, kernel.seq)
              \/ ~clients[cl].knows /\ links[c].frames = <<>>
  BY <1>1, <1>2
<1> QED BY <1>1, <1>2, <1>3, <1>4, CloseStep

\* What a connection that attaches too late is written: the records after `since`, and those
\* it was not written yet, or nothing to one that knows nothing.
LEMMA ClosesUnattached ==
  ASSUME ServingInv, NEW c \in 1..Connections, ~session.open,
         conns[c].at \in {"new", "attaching", "loop", "reattaching"}, NEW fresh, NEW since \in Nat,
         since <= kernel.seq,
         conns[c].at \in Going => ~fresh /\ since < kernel.seq,
         \A cl \in Client : Online(cl) /\ clients[cl].conn = c =>
           IF conns[c].at \in Going THEN clients[cl].detaching
           ELSE fresh = ~clients[cl].knows /\ since = clients[cl].last,
         NEW owed,
         owed = IF fresh THEN <<>>
                ELSE IF conns[c].at \in Going THEN RecordsAfter(since) \o RecordsAfter(conns[c].last)
                ELSE RecordsAfter(since),
         Closes(c, Append(owed, Failed("attach")))
  PROVE  ServingInv'
<1> DEFINE had == conns[c]
           frames == Append(owed, Failed("attach"))
<1>1. had \in ConnType /\ links[c] \in LinkType /\ kernel.seq \in Nat
  BY DEF ServingInv, ServingTypes
<1>2. had.last \in Nat /\ had.last <= kernel.seq /\ links[c].frames \in Seq(Frame)
  BY <1>1 DEF ConnType, LinkType, ServingInv, ConnInv, ConnFollows
<1>3. /\ Catch(RecordsAfter(since), since, kernel.seq) /\ RecordsAfter(since) \in Seq(Frame)
      /\ \A i \in DOMAIN RecordsAfter(since) :
           RecordsAfter(since)[i].kind = "record" /\ RecordsAfter(since)[i].seq <= kernel.seq
      /\ since < kernel.seq => \A a : Leads(RecordsAfter(since), a, kernel.seq)
  BY <1>1, RecordsCatch, OnlyRecords
<1>4. /\ Catch(RecordsAfter(had.last), had.last, kernel.seq) /\ RecordsAfter(had.last) \in Seq(Frame)
      /\ \A i \in DOMAIN RecordsAfter(had.last) :
           RecordsAfter(had.last)[i].kind = "record" /\ RecordsAfter(had.last)[i].seq <= kernel.seq
      /\ had.last < kernel.seq => \A a : Leads(RecordsAfter(had.last), a, kernel.seq)
  BY <1>1, <1>2, RecordsCatch, OnlyRecords
<1>5. Leads(RecordsAfter(had.last), kernel.seq, kernel.seq)
  <2>1. CASE had.last < kernel.seq
    BY <2>1, <1>4
  <2>2. CASE had.last = kernel.seq
    BY <2>2, <1>4 DEF Catch
  <2> QED BY <2>1, <2>2, <1>1, <1>2
<1>6. owed \in Seq(Frame) /\ \A i \in DOMAIN owed : owed[i].kind = "record" /\ owed[i].seq <= kernel.seq
  <2>1. CASE fresh
    BY <2>1, EmptyFrames
  <2>2. CASE ~fresh /\ had.at \notin Going
    BY <2>2, <1>3
  <2>3. CASE ~fresh /\ had.at \in Going
    <3> DEFINE f == RecordsAfter(since)
               g == RecordsAfter(had.last)
    <3>1. f \in Seq(Frame) /\ g \in Seq(Frame) /\ owed = f \o g
      BY <2>3, <1>3, <1>4
    <3>2. /\ \A i \in DOMAIN f : f[i].kind = "record" /\ f[i].seq <= kernel.seq
          /\ \A i \in DOMAIN g : g[i].kind = "record" /\ g[i].seq <= kernel.seq
      BY <1>3, <1>4
    <3> HIDE DEF f, g
    <3>3. \A i \in DOMAIN (f \o g) : \/ \E j \in DOMAIN f : (f \o g)[i] = f[j]
                                     \/ \E j \in DOMAIN g : (f \o g)[i] = g[j]
      <4> SUFFICES ASSUME NEW i \in DOMAIN (f \o g)
                   PROVE  \/ \E j \in DOMAIN f : (f \o g)[i] = f[j]
                          \/ \E j \in DOMAIN g : (f \o g)[i] = g[j]
        OBVIOUS
      <4>1. CASE i \in DOMAIN f
        BY <4>1, <3>1, Joined
      <4>2. CASE i - Len(f) \in DOMAIN g
        <5>1. i \in Nat /\ Len(f) \in Nat
          BY <3>1, Joined, Ordered
        <5>2. Len(f) + (i - Len(f)) = i
          BY <5>1
        <5>3. (f \o g)[Len(f) + (i - Len(f))] = g[i - Len(f)]
          BY <4>2, <3>1, Joined
        <5> QED BY <4>2, <5>2, <5>3
      <4> QED BY <4>1, <4>2, <3>1, Joined
    <3>4. \A i \in DOMAIN (f \o g) : (f \o g)[i].kind = "record" /\ (f \o g)[i].seq <= kernel.seq
      BY <3>2, <3>3
    <3>5. f \o g \in Seq(Frame)
      BY <3>1, Joined
    <3> QED BY <3>1, <3>4, <3>5
  <2> QED BY <2>1, <2>2, <2>3
<1>7. /\ frames \in Seq(Frame)
      /\ \A i \in DOMAIN frames : /\ frames[i].kind \in {"record", "failed"}
                                  /\ frames[i].kind = "record" => frames[i].seq <= kernel.seq
      /\ \A a : InTurn(owed, a) /\ Leads(owed, a, kernel.seq) =>
              InTurn(frames, a) /\ Leads(frames, a, kernel.seq)
      /\ \A a : Leads(owed, a, kernel.seq) => Leads(frames, a, kernel.seq)
  BY <1>1, <1>6, OwedThenFailed
<1>8. had.at \notin Going => links[c].frames = <<>>
  BY DEF ServingInv, ConnInv, ConnPlaced, Going
<1>9. ASSUME NEW cl \in Client, Online(cl), clients[cl].conn = c, links[c].up
      PROVE  /\ ~clients[cl].detaching => InTurn(links[c].frames \o frames, clients[cl].last)
             /\ \/ \E i \in DOMAIN frames : IsReplaced(frames[i])
                \/ ~session.open /\ Leads(links[c].frames \o frames, clients[cl].last, kernel.seq)
                \/ ~clients[cl].knows /\ links[c].frames = <<>>
  <2>1. CASE had.at \in Going
    <3>1. clients[cl].detaching /\ ~fresh /\ since < kernel.seq
            /\ owed = RecordsAfter(since) \o RecordsAfter(had.last)
      BY <2>1, <1>9
    <3>2. Leads(links[c].frames, clients[cl].last, had.last)
      BY <2>1, <1>9 DEF ServingInv, ClientInv, Follows
    <3>3. Leads(owed, had.last, kernel.seq)
      BY <3>1, <1>3, <1>4, <1>5, LeadsJoined
    <3>4. Leads(frames, had.last, kernel.seq)
      BY <3>3, <1>7
    <3> HIDE DEF frames, had
    <3>5. Leads(links[c].frames \o frames, clients[cl].last, kernel.seq)
      BY <3>2, <3>4, <1>2, <1>7, LeadsJoined
    <3> QED BY <3>1, <3>5
  <2>2. CASE had.at \notin Going
    <3>1. fresh = ~clients[cl].knows /\ since = clients[cl].last /\ links[c].frames = <<>>
      BY <2>2, <1>8, <1>9
    <3>2. links[c].frames \o frames = frames
      BY <3>1, <1>7, EmptyFrames
    <3>3. CASE fresh
      <4>1. InTurn(frames, clients[cl].last)
        <5>1. frames = <<Failed("attach")>> /\ Failed("attach").kind = "failed"
          BY <3>3 DEF Failed
        <5> HIDE DEF frames
        <5> QED BY <5>1 DEF InTurn
      <4> QED BY <4>1, <3>1, <3>2, <3>3
    <3>4. CASE ~fresh
      <4>1. owed = RecordsAfter(clients[cl].last)
        BY <3>1, <3>4, <2>2
      <4>2. InTurn(owed, clients[cl].last) /\ Leads(owed, clients[cl].last, kernel.seq)
        BY <4>1, <3>1, <1>3 DEF Catch
      <4> QED BY <4>2, <3>2, <1>7
    <3> QED BY <3>3, <3>4
  <2> QED BY <2>1, <2>2
<1>10. \A k \in DOMAIN asks : asks[k].from # c
  BY NoneAsked
<1>11. conns[c].at \notin {"unborn", "closed"} /\ Closes(c, frames)
  OBVIOUS
<1> HIDE DEF frames, had
<1> QED BY <1>7, <1>9, <1>10, <1>11, CloseStep

\* A session that ends before an attach is answered gives what is owed all the same.
LEMMA UnsettledKeeps ==
  ASSUME ServingInv, NEW c \in 1..Connections, Unsettled(c)
  PROVE  ServingInv'
<1> DEFINE had == conns[c]
           first == IF had.fresh THEN <<>> ELSE RecordsAfter(had.since)
           again == IF had.at = "attaching" THEN <<>> ELSE RecordsAfter(had.last)
           owed == IF had.fresh THEN <<>>
                   ELSE IF had.at \in Going THEN RecordsAfter(had.since) \o RecordsAfter(had.last)
                   ELSE RecordsAfter(had.since)
<1>1. had.at \in {"attaching", "reattaching"} /\ ~session.open
      /\ Closes(c, Append(first \o again, Failed("attach")))
  BY DEF Unsettled, Unanswered
<1>2. had \in ConnType /\ kernel.seq \in Nat
  BY DEF ServingInv, ServingTypes
<1>3. had.since \in Nat /\ had.last \in Nat
  BY <1>2 DEF ConnType
<1>4. had.since <= kernel.seq /\ (had.at = "reattaching" => ~had.fresh /\ had.since < kernel.seq)
  BY <1>1 DEF ServingInv, ConnInv, ConnFollows
<1>5. RecordsAfter(had.since) \in Seq(Frame)
  BY <1>2, <1>3, RecordsCatch
<1>6. had.at \in Going <=> had.at = "reattaching"
  BY <1>1 DEF Going
<1>7. owed = first \o again
  <2>1. CASE had.at = "attaching"
    BY <2>1, <1>5, <1>6, EmptyFrames
  <2>2. CASE had.at = "reattaching"
    BY <2>2, <1>4, <1>6
  <2> QED BY <2>1, <2>2, <1>1
<1>8. Closes(c, Append(owed, Failed("attach")))
  BY <1>1, <1>7
<1>9. \A cl \in Client : Online(cl) /\ clients[cl].conn = c =>
           IF had.at \in Going THEN clients[cl].detaching
           ELSE had.fresh = ~clients[cl].knows /\ had.since = clients[cl].last
  BY <1>1, <1>6 DEF ServingInv, ClientInv, Follows
<1>10. had.at \in Going => ~had.fresh /\ had.since < kernel.seq
  BY <1>4, <1>6
<1> HIDE DEF owed
<1>11. conns[c].at \in {"new", "attaching", "loop", "reattaching"}
  BY <1>1
<1>12. owed = IF had.fresh THEN <<>>
              ELSE IF conns[c].at \in Going THEN RecordsAfter(had.since) \o RecordsAfter(conns[c].last)
              ELSE RecordsAfter(had.since)
  BY DEF owed
<1> QED BY <1>1, <1>3, <1>4, <1>8, <1>9, <1>10, <1>11, <1>12, ClosesUnattached

\* So does one that has ended before the command is read.
LEMMA ReadTooLateKeeps ==
  ASSUME ServingInv, NEW c \in 1..Connections, ReadTooLate(c)
  PROVE  ServingInv'
<1> DEFINE had == conns[c]
           command == Command(c)
<1>1. had.at \in {"new", "loop"} /\ links[c].commands # <<>> /\ ~session.open
  BY DEF ReadTooLate
<1>2. had \in ConnType /\ links[c] \in LinkType /\ kernel.seq \in Nat
  BY DEF ServingInv, ServingTypes
<1>3. links[c].commands \in Seq(CommandType) /\ had.last \in Nat
  BY <1>2 DEF LinkType, ConnType
<1>4. command \in CommandType /\ 1 \in DOMAIN links[c].commands /\ command = links[c].commands[1]
  BY <1>1, <1>3 DEF Command
<1>5. ConnInv(had, links[c], kernel, session)
  BY DEF ServingInv
<1>6. had.at = "new" => command.kind = "attach"
  BY <1>1, <1>5 DEF ConnInv, ConnPlaced, Command
<1> DEFINE missed == IF command.kind # "attach" \/ command.fresh THEN <<>> ELSE RecordsAfter(command.since)
           rest == IF had.at = "new" THEN <<>> ELSE RecordsAfter(had.last)
<1>7. Closes(c, Append(missed \o rest, Failed(IF command.kind = "attach" THEN "attach" ELSE "submit")))
  BY DEF ReadTooLate
<1>8. RecordsAfter(had.last) \in Seq(Frame)
  BY <1>2, <1>3, RecordsCatch
<1>9. CASE command.kind # "attach"
  <2>1. had.at = "loop" /\ had.at \in Going
    BY <1>1, <1>6, <1>9 DEF Going
  <2>2. missed \o rest = RecordsAfter(had.last)
    BY <2>1, <1>9, <1>8, EmptyFrames
  <2> HIDE DEF missed, rest, command
  <2>3. Closes(c, Append(RecordsAfter(had.last), Failed("submit")))
    BY <1>9, <1>7, <2>2
  <2>4. \A k \in DOMAIN asks : asks[k].from # c
    BY <2>1, NoneAsked
  <2> QED BY <1>1, <2>1, <2>3, <2>4, ClosesBehindAll
<1>10. CASE command.kind = "attach"
  <2>1. command.since \in Nat /\ command.fresh \in BOOLEAN
    BY <1>4, <1>10 DEF CommandType
  <2>2. CommandFits(had, 1, command, kernel)
    BY <1>4, <1>5 DEF ConnInv, ConnFollows
  <2>3. had.at \in Going <=> had.at = "loop"
    BY <1>1 DEF Going
  <2>4. /\ command.since <= kernel.seq
        /\ had.at = "loop" => ~command.fresh /\ command.since < kernel.seq
    BY <2>1, <2>2, <1>2, <1>10, <1>1 DEF CommandFits
  <2> DEFINE owed == missed \o rest
  <2>5. Closes(c, Append(owed, Failed("attach")))
    BY <1>10, <1>7
  <2>6. RecordsAfter(command.since) \in Seq(Frame)
    BY <2>1, <1>2, RecordsCatch
  <2>7. owed = IF command.fresh THEN <<>>
               ELSE IF had.at \in Going THEN RecordsAfter(command.since) \o RecordsAfter(had.last)
               ELSE RecordsAfter(command.since)
    <3>1. CASE command.fresh
      <4>1. had.at = "new"
        BY <3>1, <2>4, <1>1
      <4>2. missed = <<>> /\ rest = <<>> /\ had.at \notin Going
        BY <3>1, <4>1, <2>3
      <4> QED BY <3>1, <4>2, EmptyFrames
    <3>2. CASE ~command.fresh
      <4>1. missed = RecordsAfter(command.since)
        BY <3>2, <1>10
      <4>2. CASE had.at = "new"
        BY <3>2, <4>1, <4>2, <2>3, <2>6, EmptyFrames
      <4>3. CASE had.at = "loop"
        BY <3>2, <4>1, <4>3, <2>3
      <4> QED BY <4>2, <4>3, <1>1
    <3> QED BY <3>1, <3>2
  <2>8. \A cl \in Client : Online(cl) /\ clients[cl].conn = c =>
           IF had.at \in Going THEN clients[cl].detaching
           ELSE command.fresh = ~clients[cl].knows /\ command.since = clients[cl].last
    <3> SUFFICES ASSUME NEW cl \in Client, Online(cl), clients[cl].conn = c
                 PROVE  IF had.at \in Going THEN clients[cl].detaching
                        ELSE command.fresh = ~clients[cl].knows /\ command.since = clients[cl].last
      OBVIOUS
    <3>1. Follows(clients[cl], had, links[c], kernel, session.open)
      BY DEF ServingInv, ClientInv
    <3>2. CASE had.at = "new"
      BY <3>1, <3>2, <2>3, <1>1 DEF Follows, Command
    <3>3. CASE had.at = "loop"
      BY <3>1, <3>3, <2>3, <1>4, <1>10 DEF Follows
    <3> QED BY <3>2, <3>3, <1>1
  <2> HIDE DEF owed, command
  <2>9. conns[c].at \in {"new", "attaching", "loop", "reattaching"}
    BY <1>1
  <2>10. had.at \in Going => ~command.fresh /\ command.since < kernel.seq
    BY <2>3, <2>4
  <2> QED BY <1>1, <2>1, <2>4, <2>5, <2>7, <2>8, <2>9, <2>10, ClosesUnattached
<1> QED BY <1>9, <1>10

---------------------------------------------------------------------------
(* The steps of a connection that asks the loop.                           *)

\* A connection that has asked for nothing is owed no answer.
LEMMA NothingAnswered ==
  ASSUME ServingInv, NEW c \in 1..Connections, conns[c].at \in {"new", "loop"}
  PROVE  conns[c].answer = <<>> /\ \A k \in DOMAIN asks : asks[k].from # c
<1>1. conns[c].answer = <<>>
  <2> SUFFICES ASSUME conns[c].answer # <<>> PROVE FALSE
    OBVIOUS
  <2>1. AnswerFits(Head(conns[c].answer).about, conns[c].at)
    BY WordFacts
  <2> QED BY <2>1 DEF AnswerFits
<1> QED BY <1>1, NoneAsked

\* The first command of a link, and the rest.
LEMMA CommandFacts ==
  ASSUME ServingInv, NEW c \in 1..Connections, links[c].commands # <<>>
  PROVE  /\ links[c] \in LinkType /\ Command(c) \in CommandType /\ Command(c) = links[c].commands[1]
         /\ 1 \in DOMAIN links[c].commands
         /\ [links[c] EXCEPT !.commands = Tail(@)] \in LinkType
         /\ Len(Tail(links[c].commands)) \in Nat /\ Len(links[c].commands) = Len(Tail(links[c].commands)) + 1
         /\ \A i \in DOMAIN Tail(links[c].commands) :
              /\ i \in Nat \ {0} /\ i + 1 \in DOMAIN links[c].commands
              /\ Tail(links[c].commands)[i] = links[c].commands[i + 1]
         /\ Read(c) = [links EXCEPT ![c] = [links[c] EXCEPT !.commands = Tail(@)]]
<1>1. links \in [1..Connections -> LinkType] /\ links[c] \in LinkType
  BY DEF ServingInv, ServingTypes
<1>2. links[c].commands \in Seq(CommandType)
  BY <1>1 DEF LinkType
<1>3. Command(c) \in CommandType /\ Command(c) = links[c].commands[1] /\ 1 \in DOMAIN links[c].commands
      /\ Tail(links[c].commands) \in Seq(CommandType)
  BY <1>2 DEF Command
<1>4. [links[c] EXCEPT !.commands = Tail(@)] \in LinkType
  <2> DEFINE rest == Tail(links[c].commands)
  <2>1. rest \in Seq(CommandType)
    BY <1>3
  <2> HIDE DEF rest
  <2>2. [links[c] EXCEPT !.commands = rest] \in LinkType
    BY <2>1, <1>1 DEF LinkType
  <2> QED BY <2>2 DEF rest
<1>5. /\ Len(Tail(links[c].commands)) \in Nat /\ Len(links[c].commands) = Len(Tail(links[c].commands)) + 1
      /\ \A i \in DOMAIN Tail(links[c].commands) :
              /\ i \in Nat \ {0} /\ i + 1 \in DOMAIN links[c].commands
              /\ Tail(links[c].commands)[i] = links[c].commands[i + 1]
  BY <1>2
<1>6. Read(c) = [links EXCEPT ![c] = [links[c] EXCEPT !.commands = Tail(@)]]
  BY <1>1 DEF Read
<1> QED BY <1>1, <1>3, <1>4, <1>5, <1>6

\* A command that is read and handed to the loop keeps the invariant, if the connection
\* takes from it what the client has.
LEMMA ForwardStep ==
  ASSUME ServingInv, NEW c \in 1..Connections, NEW conn \in ConnType,
         NEW what \in {"attach", "message", "quit"},
         session.open, conns[c].at \in {"new", "loop"}, links[c].commands # <<>>,
         conns' = [conns EXCEPT ![c] = conn], links' = Read(c),
         asks' = Append(asks, [what |-> what, from |-> c]),
         kernel' = kernel, session' = session, clients' = clients,
         conn.client = conns[c].client, conn.last = conns[c].last, conn.events = conns[c].events,
         conn.lagged = conns[c].lagged, conn.hears = conns[c].hears, conn.voice = conns[c].voice,
         conn.deaf = conns[c].deaf, conn.answer = conns[c].answer,
         \/ conns[c].at = "new" /\ conn.at = "attaching" /\ what = "attach" /\ conn.since <= kernel.seq
         \/ /\ conns[c].at = "loop" /\ conn.at = "reattaching" /\ what = "attach"
            /\ ~conn.fresh /\ conn.since < kernel.seq
         \/ conns[c].at = "loop" /\ conn.at = "asking" /\ what # "attach",
         \A cl \in Client : Online(cl) /\ clients[cl].conn = c =>
           /\ conn.at = "attaching" => conn.fresh = ~clients[cl].knows /\ conn.since = clients[cl].last
           /\ conn.at = "reattaching" => clients[cl].detaching
  PROVE  ServingInv'
<1> DEFINE had == conns[c]
           link == [links[c] EXCEPT !.commands = Tail(@)]
<1>1. /\ had.answer = <<>> /\ \A k \in DOMAIN asks : asks[k].from # c
  BY NothingAnswered
<1>2. /\ links[c] \in LinkType /\ link \in LinkType
      /\ Len(Tail(links[c].commands)) \in Nat /\ Len(links[c].commands) = Len(Tail(links[c].commands)) + 1
      /\ \A i \in DOMAIN Tail(links[c].commands) :
           /\ i \in Nat \ {0} /\ i + 1 \in DOMAIN links[c].commands
           /\ Tail(links[c].commands)[i] = links[c].commands[i + 1]
      /\ Read(c) = [links EXCEPT ![c] = link]
  BY CommandFacts
<1>3. link.commands = Tail(links[c].commands) /\ link.frames = links[c].frames /\ link.up = links[c].up
  BY <1>2 DEF LinkType
<1> HIDE DEF link
<1>4. ConnInv(had, links[c], kernel, session)
  BY DEF ServingInv
<1>5. kernel.seq \in Nat /\ had \in ConnType
  BY DEF ServingInv, ServingTypes
<1>6. ConnInv(conn, link, kernel, session)
  <2>1. ConnPlaced(conn, link)
    BY <1>1, <1>3, <1>4 DEF ConnInv, ConnPlaced
  <2>2. ConnFollows(conn, link, kernel, session.open)
    <3>1. \A i \in DOMAIN link.commands : CommandFits(conn, i, link.commands[i], kernel)
      <4> SUFFICES ASSUME NEW i \in DOMAIN Tail(links[c].commands)
                   PROVE  CommandFits(conn, i, Tail(links[c].commands)[i], kernel)
        BY <1>3
      <4>1. CommandFits(had, i + 1, links[c].commands[i + 1], kernel)
        BY <1>2, <1>4 DEF ConnInv, ConnFollows
      <4>2. i + 1 # 1
        BY <1>2
      <4> QED BY <4>1, <4>2, <1>2 DEF CommandFits
    <3>2. conn.at \in Going => had.at \in Going
      BY DEF Going
    <3>3. /\ conn.at \in {"attaching", "reattaching"} => conn.since <= kernel.seq
          /\ conn.at = "reattaching" => ~conn.fresh /\ conn.since < kernel.seq
      <4>1. conn.since \in Nat
        BY DEF ConnType
      <4> QED BY <4>1, <1>5
    <3>4. ConnFollows(had, links[c], kernel, session.open)
      BY <1>4 DEF ConnInv
    <3>5. \A i \in DOMAIN conn.answer :
            conn.answer[i].seq <= kernel.seq /\ (~session.open => conn.answer[i].seq < kernel.seq)
      BY <1>1
    <3>6. \A i \in DOMAIN link.frames :
            /\ Bearing(link.frames[i]) => link.frames[i].seq <= kernel.seq
            /\ link.frames[i].kind = "attached" /\ ~session.open => link.frames[i].seq < kernel.seq
      BY <3>4, <1>3 DEF ConnFollows
    <3>7. conn.at \in Going /\ conn.last < kernel.seq =>
            conn.lagged \/ \E i \in DOMAIN conn.events : conn.events[i] = Record
      BY <3>2, <3>4 DEF ConnFollows
    <3>8. conn.last <= kernel.seq /\ Len(conn.events) <= EventRoom
      BY <3>4 DEF ConnFollows
    <3> QED BY <3>1, <3>3, <3>5, <3>6, <3>7, <3>8 DEF ConnFollows
  <2>3. ConnMarked(conn, link, kernel.fragments)
    BY <1>3, <1>4 DEF ConnInv, ConnMarked
  <2>4. ConnHears(conn)
    BY <1>1, <1>4 DEF ConnInv, ConnHears, Going
  <2>5. ConnTold(conn, session.busy)
    BY <1>4 DEF ConnInv, ConnTold, Pending
  <2> QED BY <2>1, <2>2, <2>3, <2>4, <2>5 DEF ConnInv
<1>7. ASSUME NEW cl \in Client, Online(cl), clients[cl].conn = c
      PROVE  ClientInv(clients[cl], conn, link, kernel, session)
  <2>1. ClientInv(clients[cl], had, links[c], kernel, session)
    BY <1>7 DEF ServingInv
  <2>2. Counted(clients[cl], conn, link)
    <3> SUFFICES ASSUME links[c].up
                 PROVE  clients[cl].out = Len(link.commands) + AnswersIn(links[c].frames) + 1
      BY <1>3 DEF Counted, Asking1, AnswersIn
    <3>1. clients[cl].out = Len(links[c].commands) + AnswersIn(links[c].frames) + 0
      BY <2>1 DEF ClientInv, Counted, Asking1, AnswersIn
    <3>2. AnswersIn(links[c].frames) \in Nat
      BY <1>2, AnswersCount DEF LinkType
    <3> QED BY <3>1, <3>2, <1>2, <1>3
  <2>3. Follows(clients[cl], conn, link, kernel, session.open)
    <3>1. Follows(clients[cl], had, links[c], kernel, session.open)
      BY <2>1 DEF ClientInv
    <3>2. \A i \in DOMAIN link.commands : link.commands[i].kind = "attach" => clients[cl].detaching
      <4> SUFFICES ASSUME NEW i \in DOMAIN Tail(links[c].commands),
                          Tail(links[c].commands)[i].kind = "attach"
                   PROVE  clients[cl].detaching
        BY <1>3
      <4>1. i + 1 # 1 /\ i + 1 \in DOMAIN links[c].commands /\ links[c].commands[i + 1].kind = "attach"
        BY <1>2
      <4> QED BY <3>1, <4>1 DEF Follows
    <3>3. conn.at \in Going => had.at \in Going
      BY DEF Going
    <3> QED BY <3>1, <3>2, <3>3, <1>3, <1>7 DEF Follows
  <2>4. Told(clients[cl], conn, link, session.busy)
    BY <2>1, <1>3 DEF ClientInv, Told, Pending
  <2> QED BY <2>2, <2>3, <2>4 DEF ClientInv
<1>8. /\ session.open
      /\ \E w \in {"attach", "message", "quit", "standing", "left"} :
           asks' = Append(asks, [what |-> w, from |-> c]) /\ AskFits(w, conn)
  <2>1. AskFits(what, conn)
    BY <1>1 DEF AskFits
  <2> QED BY <2>1
<1>9. links' = [links EXCEPT ![c] = link] /\ conns[c].at # "unborn" /\ conn.at # "unborn"
  BY <1>2
<1> HIDE DEF had
<1> QED BY <1>1, <1>2, <1>6, <1>7, <1>8, <1>9, ConnStep

\* The first attach is handed on.
LEMMA ReadAttachKeeps ==
  ASSUME ServingInv, NEW c \in 1..Connections, ReadAttach(c)
  PROVE  ServingInv'
<1> DEFINE had == conns[c]
           command == Command(c)
           conn == [[had EXCEPT !.fresh = command.fresh, !.since = command.since] EXCEPT !.at = "attaching"]
<1>1. /\ had.at = "new" /\ links[c].commands # <<>> /\ session.open
      /\ conns' = [conns EXCEPT ![c] = conn] /\ links' = Read(c)
      /\ asks' = Append(asks, [what |-> "attach", from |-> c])
      /\ kernel' = kernel /\ session' = session /\ clients' = clients
  BY DEF ReadAttach, Reads, Forwards, Asks
<1>2. command \in CommandType /\ command = links[c].commands[1] /\ 1 \in DOMAIN links[c].commands
  BY <1>1, CommandFacts
<1>3. had \in ConnType /\ ConnInv(had, links[c], kernel, session)
  BY DEF ServingInv, ServingTypes
<1>4. command.kind = "attach" /\ CommandFits(had, 1, command, kernel)
  BY <1>1, <1>2, <1>3 DEF ConnInv, ConnPlaced, ConnFollows, Command
<1>5. command.fresh \in BOOLEAN /\ command.since \in Nat /\ command.since <= kernel.seq
  BY <1>1, <1>2, <1>4 DEF CommandType, CommandFits
<1>6. ASSUME NEW cl \in Client, Online(cl), clients[cl].conn = c
      PROVE  command.fresh = ~clients[cl].knows /\ command.since = clients[cl].last
  BY <1>1, <1>6 DEF ServingInv, ClientInv, Follows, Command
<1> HIDE DEF command
<1>7. /\ conn \in ConnType /\ conn.at = "attaching" /\ conn.fresh = command.fresh /\ conn.since = command.since
      /\ conn.client = had.client /\ conn.last = had.last /\ conn.events = had.events
      /\ conn.lagged = had.lagged /\ conn.hears = had.hears /\ conn.voice = had.voice
      /\ conn.deaf = had.deaf /\ conn.answer = had.answer
  <2> HIDE DEF had
  <2> QED BY <1>3, <1>5 DEF ConnType
<1> HIDE DEF conn
<1>8. \A cl \in Client : Online(cl) /\ clients[cl].conn = c =>
           /\ conn.at = "attaching" => conn.fresh = ~clients[cl].knows /\ conn.since = clients[cl].last
           /\ conn.at = "reattaching" => clients[cl].detaching
  BY <1>6, <1>7
<1> QED BY <1>1, <1>5, <1>7, <1>8, ForwardStep

\* So is another one on the same connection, of a client that is leaving.
LEMMA ReadReattachKeeps ==
  ASSUME ServingInv, NEW c \in 1..Connections, ReadReattach(c)
  PROVE  ServingInv'
<1> DEFINE had == conns[c]
           command == Command(c)
           conn == [[had EXCEPT !.fresh = FALSE, !.since = command.since] EXCEPT !.at = "reattaching"]
<1>1. /\ had.at = "loop" /\ links[c].commands # <<>> /\ session.open /\ command.kind = "attach"
      /\ conns' = [conns EXCEPT ![c] = conn] /\ links' = Read(c)
      /\ asks' = Append(asks, [what |-> "attach", from |-> c])
      /\ kernel' = kernel /\ session' = session /\ clients' = clients
  BY DEF ReadReattach, Reads, Forwards, Asks
<1>2. command \in CommandType /\ command = links[c].commands[1] /\ 1 \in DOMAIN links[c].commands
  BY <1>1, CommandFacts
<1>3. had \in ConnType /\ ConnInv(had, links[c], kernel, session)
  BY DEF ServingInv, ServingTypes
<1>4. CommandFits(had, 1, command, kernel)
  BY <1>1, <1>2, <1>3 DEF ConnInv, ConnFollows
<1>5. command.since \in Nat /\ command.since < kernel.seq
  BY <1>1, <1>2, <1>4 DEF CommandType, CommandFits
<1>6. ASSUME NEW cl \in Client, Online(cl), clients[cl].conn = c
      PROVE  clients[cl].detaching
  <2>1. Follows(clients[cl], had, links[c], kernel, session.open)
    BY <1>6 DEF ServingInv, ClientInv
  <2> QED BY <2>1, <1>1, <1>2 DEF Follows
<1> HIDE DEF command
<1>7. /\ conn \in ConnType /\ conn.at = "reattaching" /\ ~conn.fresh /\ conn.since = command.since
      /\ conn.client = had.client /\ conn.last = had.last /\ conn.events = had.events
      /\ conn.lagged = had.lagged /\ conn.hears = had.hears /\ conn.voice = had.voice
      /\ conn.deaf = had.deaf /\ conn.answer = had.answer
  <2> HIDE DEF had
  <2> QED BY <1>3, <1>5 DEF ConnType
<1> HIDE DEF conn
<1>8. \A cl \in Client : Online(cl) /\ clients[cl].conn = c =>
           /\ conn.at = "attaching" => conn.fresh = ~clients[cl].knows /\ conn.since = clients[cl].last
           /\ conn.at = "reattaching" => clients[cl].detaching
  BY <1>6, <1>7
<1> QED BY <1>1, <1>5, <1>7, <1>8, ForwardStep

\* So is a message, and a quit.
LEMMA ReadCommandKeeps ==
  ASSUME ServingInv, NEW c \in 1..Connections, ReadCommand(c)
  PROVE  ServingInv'
<1> DEFINE had == conns[c]
           command == Command(c)
           conn == [had EXCEPT !.at = "asking"]
<1>1. /\ had.at = "loop" /\ links[c].commands # <<>> /\ session.open /\ command.kind # "attach"
      /\ conns' = [conns EXCEPT ![c] = conn] /\ links' = Read(c)
      /\ asks' = Append(asks, [what |-> command.kind, from |-> c])
      /\ kernel' = kernel /\ session' = session /\ clients' = clients
  BY DEF ReadCommand, Reads, Forwards, Asks
<1>2. command \in CommandType
  BY <1>1, CommandFacts
<1>3. command.kind \in {"message", "quit"}
  BY <1>1, <1>2 DEF CommandType
<1>4. had \in ConnType
  BY DEF ServingInv, ServingTypes
<1>5. /\ conn \in ConnType /\ conn.at = "asking"
      /\ conn.client = had.client /\ conn.last = had.last /\ conn.events = had.events
      /\ conn.lagged = had.lagged /\ conn.hears = had.hears /\ conn.voice = had.voice
      /\ conn.deaf = had.deaf /\ conn.answer = had.answer
  <2> HIDE DEF had
  <2> QED BY <1>4 DEF ConnType
<1> HIDE DEF conn, command
<1> QED BY <1>1, <1>3, <1>5, ForwardStep

---------------------------------------------------------------------------
(* The two broadcasts, for one connection.                                 *)

Emits(conn, event) ==
  IF conn.at \in {"unborn", "closed"} THEN conn
  ELSE IF Len(conn.events) < EventRoom THEN [conn EXCEPT !.events = Append(@, event)]
  ELSE [conn EXCEPT !.events = Append(Tail(@), event), !.lagged = TRUE]

Says(conn, word) ==
  IF ~conn.hears THEN conn
  ELSE IF Len(conn.voice) < VoiceRoom THEN [conn EXCEPT !.voice = Append(@, word)]
  ELSE [conn EXCEPT !.voice = Append(Tail(@), word), !.deaf = TRUE]

KernelType == [seq : Nat \ {0}, fragments : 0..MaxFragments]

\* What a connection is shown to be, but for what it was told.
Shape(conn, link, k, open) ==
  /\ ConnPlaced(conn, link) /\ ConnFollows(conn, link, k, open)
  /\ ConnMarked(conn, link, k.fragments) /\ ConnHears(conn)

ClientShape(client, conn, link, k, open) ==
  Counted(client, conn, link) /\ Follows(client, conn, link, k, open)

\* How the log and the fragments grow.
Grows(event, k, after) ==
  \/ event = Record /\ after.seq = k.seq + 1 /\ after.fragments = k.fragments
  \/ event = k.fragments + 1 /\ after.seq = k.seq /\ after.fragments = k.fragments + 1

\* A connection's inbox takes one more event, and drops the oldest where it is full.
LEMMA EmitsFields ==
  ASSUME NEW conn \in ConnType, NEW event \in Nat
  PROVE  /\ Emits(conn, event) \in ConnType
         /\ Emits(conn, event).at = conn.at /\ Emits(conn, event).client = conn.client
         /\ Emits(conn, event).last = conn.last /\ Emits(conn, event).since = conn.since
         /\ Emits(conn, event).fresh = conn.fresh /\ Emits(conn, event).hears = conn.hears
         /\ Emits(conn, event).voice = conn.voice /\ Emits(conn, event).deaf = conn.deaf
         /\ Emits(conn, event).answer = conn.answer
         /\ conn.at \in {"unborn", "closed"} => Emits(conn, event) = conn
         /\ conn.at \notin {"unborn", "closed"} /\ Len(conn.events) <= EventRoom =>
              /\ Len(Emits(conn, event).events) <= EventRoom
              /\ \E i \in DOMAIN Emits(conn, event).events : Emits(conn, event).events[i] = event
              /\ \A i \in DOMAIN Emits(conn, event).events :
                   \/ Emits(conn, event).events[i] = event
                   \/ \E j \in DOMAIN conn.events : Emits(conn, event).events[i] = conn.events[j]
              /\ \/ Emits(conn, event).lagged
                 \/ /\ Emits(conn, event).lagged = conn.lagged
                    /\ \A j \in DOMAIN conn.events :
                         \E i \in DOMAIN Emits(conn, event).events :
                           Emits(conn, event).events[i] = conn.events[j]
<1>1. conn.events \in Seq(Nat)
  BY DEF ConnType
<1>2. CASE conn.at \in {"unborn", "closed"}
  BY <1>2 DEF Emits
<1>3. CASE conn.at \notin {"unborn", "closed"} /\ Len(conn.events) < EventRoom
  <2> DEFINE ev == Append(conn.events, event)
             after == [conn EXCEPT !.events = ev]
  <2>1. Emits(conn, event) = after
    BY <1>3 DEF Emits
  <2>2. /\ ev \in Seq(Nat) /\ Len(ev) = Len(conn.events) + 1 /\ Len(conn.events) \in Nat
        /\ \A i \in DOMAIN ev : ev[i] = event \/ (i \in DOMAIN conn.events /\ ev[i] = conn.events[i])
        /\ \A j \in DOMAIN conn.events : j \in DOMAIN ev /\ ev[j] = conn.events[j]
        /\ Len(conn.events) + 1 \in DOMAIN ev /\ ev[Len(conn.events) + 1] = event
    BY <1>1
  <2>3. Len(ev) <= EventRoom
    BY <2>2, <1>3, ServingAssumption
  <2> HIDE DEF ev
  <2>4. /\ after \in ConnType /\ after.at = conn.at /\ after.client = conn.client
        /\ after.last = conn.last /\ after.since = conn.since
        /\ after.fresh = conn.fresh /\ after.hears = conn.hears
        /\ after.voice = conn.voice /\ after.deaf = conn.deaf
        /\ after.answer = conn.answer /\ after.events = ev /\ after.lagged = conn.lagged
    BY <2>2 DEF ConnType
  <2> HIDE DEF after
  <2> QED BY <2>1, <2>2, <2>3, <2>4, <1>3
<1>4. CASE conn.at \notin {"unborn", "closed"} /\ ~(Len(conn.events) < EventRoom)
  <2> DEFINE ev == Append(Tail(conn.events), event)
             after == [conn EXCEPT !.events = ev, !.lagged = TRUE]
  <2>1. Emits(conn, event) = after
    BY <1>4 DEF Emits
  <2>2. Len(conn.events) \in Nat /\ Len(conn.events) >= 1
    BY <1>1, <1>4, ServingAssumption
  <2>3. /\ ev \in Seq(Nat) /\ Len(ev) = Len(conn.events)
        /\ \A i \in DOMAIN ev : ev[i] = event \/ (i + 1 \in DOMAIN conn.events /\ ev[i] = conn.events[i + 1])
        /\ Len(conn.events) \in DOMAIN ev /\ ev[Len(conn.events)] = event
    BY <1>1, <2>2
  <2> HIDE DEF ev
  <2>4. /\ after \in ConnType /\ after.at = conn.at /\ after.client = conn.client
        /\ after.last = conn.last /\ after.since = conn.since
        /\ after.fresh = conn.fresh /\ after.hears = conn.hears
        /\ after.voice = conn.voice /\ after.deaf = conn.deaf
        /\ after.answer = conn.answer /\ after.events = ev /\ after.lagged = TRUE
    BY <2>3 DEF ConnType
  <2> HIDE DEF after
  <2> QED BY <2>1, <2>3, <2>4, <1>4
<1> QED BY <1>2, <1>3, <1>4

\* A connection that is sent an event keeps its half of the invariant.
LEMMA EmitsShape ==
  ASSUME NEW conn \in ConnType, NEW link \in LinkType, NEW k \in KernelType, NEW after \in KernelType,
         NEW open, NEW opened, NEW event, Grows(event, k, after),
         opened = open \/ after.seq = k.seq + 1, Shape(conn, link, k, open)
  PROVE  Emits(conn, event) \in ConnType /\ Shape(Emits(conn, event), link, after, opened)
<1> DEFINE new == Emits(conn, event)
<1>1. k.seq \in Nat /\ after.seq \in Nat /\ k.fragments \in Nat /\ after.fragments \in Nat
      /\ k.seq <= after.seq /\ k.fragments <= after.fragments /\ event \in Nat
  BY DEF KernelType, Grows, Record
<1>2. ConnPlaced(conn, link) /\ ConnFollows(conn, link, k, open) /\ ConnMarked(conn, link, k.fragments)
      /\ ConnHears(conn)
  BY DEF Shape
<1>3. /\ new \in ConnType /\ new.at = conn.at /\ new.client = conn.client
      /\ new.last = conn.last /\ new.since = conn.since
      /\ new.fresh = conn.fresh /\ new.hears = conn.hears
      /\ new.voice = conn.voice /\ new.deaf = conn.deaf
      /\ new.answer = conn.answer
      /\ conn.at \in {"unborn", "closed"} => new = conn
      /\ conn.at \notin {"unborn", "closed"} =>
              /\ Len(new.events) <= EventRoom
              /\ \E i \in DOMAIN new.events : new.events[i] = event
              /\ \A i \in DOMAIN new.events :
                   \/ new.events[i] = event
                   \/ \E j \in DOMAIN conn.events : new.events[i] = conn.events[j]
              /\ \/ new.lagged
                 \/ /\ new.lagged = conn.lagged
                    /\ \A j \in DOMAIN conn.events :
                         \E i \in DOMAIN new.events : new.events[i] = conn.events[j]
  BY <1>1, <1>2, EmitsFields DEF ConnFollows
<1> HIDE DEF new
<1>4. ConnPlaced(new, link)
  BY <1>2, <1>3 DEF ConnPlaced
<1>5. ConnHears(new)
  BY <1>2, <1>3 DEF ConnHears
<1>6. conn.last \in Nat /\ conn.since \in Nat /\ conn.answer \in Seq(WordType) /\ conn.events \in Seq(Nat)
      /\ conn.voice \in Seq(VoiceType) /\ link.frames \in Seq(Frame) /\ link.commands \in Seq(CommandType)
  BY DEF ConnType, LinkType
<1>7. ConnFollows(new, link, after, opened)
  <2>1. new.last <= after.seq
    BY <1>1, <1>2, <1>3, <1>6 DEF ConnFollows
  <2>2. Len(new.events) <= EventRoom
    BY <1>2, <1>3 DEF ConnFollows
  <2>3. /\ new.at \in {"attaching", "reattaching"} => new.since <= after.seq
        /\ new.at = "reattaching" => ~new.fresh /\ new.since < after.seq
    <3>1. k.seq \in Nat /\ after.seq \in Nat /\ k.seq <= after.seq
      BY <1>1
    <3>2. /\ conn.at \in {"attaching", "reattaching"} => conn.since <= k.seq
          /\ conn.at = "reattaching" => ~conn.fresh /\ conn.since < k.seq
      BY <1>2 DEF ConnFollows
    <3>3. new.at = conn.at /\ new.since = conn.since /\ new.fresh = conn.fresh
      BY <1>3
    <3> QED BY <3>1, <3>2, <3>3, <1>6
  <2>4. ASSUME new.at \in Going, new.last < after.seq
        PROVE  new.lagged \/ \E i \in DOMAIN new.events : new.events[i] = Record
    <3>1. conn.at \notin {"unborn", "closed"} /\ conn.at \in Going
      BY <2>4, <1>3 DEF Going
    <3>2. CASE event = Record
      BY <3>1, <3>2, <1>3
    <3>3. CASE event # Record
      <4>1. after.seq = k.seq
        BY <3>3 DEF Grows
      <4>2. conn.lagged \/ \E i \in DOMAIN conn.events : conn.events[i] = Record
        BY <2>4, <3>1, <4>1, <1>2, <1>3 DEF ConnFollows
      <4> QED BY <3>1, <4>2, <1>3
    <3> QED BY <3>2, <3>3
  <2>5. ASSUME NEW i \in DOMAIN link.commands PROVE CommandFits(new, i, link.commands[i], after)
    <3>1. CommandFits(conn, i, link.commands[i], k)
      BY <1>2 DEF ConnFollows
    <3>2. link.commands[i] \in CommandType
      BY <1>6
    <3> DEFINE command == link.commands[i]
    <3> HIDE DEF command
    <3>3. command.kind = "attach" => command.since \in Nat
      BY <3>2 DEF CommandType, command
    <3>4. CommandFits(new, i, command, after)
      BY <3>1, <3>3, <1>1, <1>3 DEF CommandFits, command
    <3> QED BY <3>4 DEF command
  <2>6. ASSUME NEW i \in DOMAIN link.frames
        PROVE  /\ Bearing(link.frames[i]) => link.frames[i].seq <= after.seq
               /\ link.frames[i].kind = "attached" /\ ~opened => link.frames[i].seq < after.seq
    <3> DEFINE f == link.frames[i]
    <3>1. /\ Bearing(f) => f.seq <= k.seq
          /\ f.kind = "attached" /\ ~open => f.seq < k.seq
      BY <1>2 DEF ConnFollows
    <3>2. f \in Frame
      BY <1>6
    <3> HIDE DEF f
    <3>3. Bearing(f) => f.seq \in Nat
      BY <3>2, FrameFacts
    <3>4. f.kind = "attached" => Bearing(f)
      BY DEF Bearing
    <3>5. /\ Bearing(f) => f.seq <= after.seq
          /\ f.kind = "attached" /\ ~opened => f.seq < after.seq
      BY <3>1, <3>3, <3>4, <1>1
    <3> QED BY <3>5 DEF f
  <2>7. ASSUME NEW i \in DOMAIN new.answer
        PROVE  new.answer[i].seq <= after.seq /\ (~opened => new.answer[i].seq < after.seq)
    <3>1. i \in DOMAIN conn.answer /\ new.answer[i] = conn.answer[i]
      BY <1>3
    <3>2. conn.answer[i] \in WordType
      BY <3>1, <1>6
    <3>3. conn.answer[i].seq \in Nat
      BY <3>2 DEF WordType
    <3>4. conn.answer[i].seq <= k.seq /\ (~open => conn.answer[i].seq < k.seq)
      BY <3>1, <1>2 DEF ConnFollows
    <3> QED BY <3>1, <3>3, <3>4, <1>1
  <2> QED BY <2>1, <2>2, <2>3, <2>4, <2>5, <2>6, <2>7 DEF ConnFollows
<1>8. ConnMarked(new, link, after.fragments)
  <2>1. ASSUME NEW i \in DOMAIN new.answer PROVE new.answer[i].mark <= after.fragments
    <3>1. i \in DOMAIN conn.answer /\ new.answer[i] = conn.answer[i]
      BY <1>3
    <3>2. conn.answer[i] \in WordType
      BY <3>1, <1>6
    <3>3. conn.answer[i].mark \in Nat
      BY <3>2 DEF WordType
    <3>4. conn.answer[i].mark <= k.fragments
      BY <3>1, <1>2 DEF ConnMarked
    <3> QED BY <3>1, <3>3, <3>4, <1>1
  <2>2. ASSUME NEW i \in DOMAIN new.voice, Telling(new.voice[i]) PROVE new.voice[i].mark <= after.fragments
    <3>1. i \in DOMAIN conn.voice /\ new.voice[i] = conn.voice[i]
      BY <1>3
    <3>2. conn.voice[i] \in VoiceType
      BY <3>1, <1>6
    <3>3. conn.voice[i].mark \in Nat
      BY <3>1, <3>2, <2>2 DEF VoiceType, Telling
    <3>4. conn.voice[i].mark <= k.fragments
      BY <3>1, <2>2, <1>2 DEF ConnMarked
    <3> QED BY <3>1, <3>3, <3>4, <1>1
  <2>3. ASSUME NEW i \in DOMAIN link.frames, SaysHowItStands(link.frames[i])
        PROVE  /\ link.frames[i].mark <= after.fragments
               /\ \A j \in DOMAIN new.events :
                    new.events[j] # Record => new.events[j] > link.frames[i].mark
    <3>1. link.frames[i] \in Frame
      BY <1>6
    <3>2. link.frames[i].mark \in Nat
      BY <3>1, <2>3, FrameFacts
    <3>3. /\ link.frames[i].mark <= k.fragments
          /\ \A j \in DOMAIN conn.events :
               conn.events[j] # Record => conn.events[j] > link.frames[i].mark
      BY <2>3, <1>2 DEF ConnMarked
    <3>4. event = Record \/ event > link.frames[i].mark
      BY <3>2, <3>3, <1>1 DEF Grows
    <3>5. \A j \in DOMAIN new.events :
            new.events[j] = event \/ \E l \in DOMAIN conn.events : new.events[j] = conn.events[l]
      BY <1>3
    <3>6. link.frames[i].mark <= after.fragments
      BY <3>2, <3>3, <1>1
    <3>7. ASSUME NEW j \in DOMAIN new.events, new.events[j] # Record
          PROVE  new.events[j] > link.frames[i].mark
      <4>1. CASE new.events[j] = event
        BY <4>1, <3>4, <3>7
      <4>2. CASE \E l \in DOMAIN conn.events : new.events[j] = conn.events[l]
        BY <4>2, <3>3, <3>7
      <4> QED BY <3>5, <4>1, <4>2
    <3> QED BY <3>6, <3>7
  <2> QED BY <2>1, <2>2, <2>3 DEF ConnMarked
<1> QED BY <1>3, <1>4, <1>5, <1>7, <1>8 DEF Shape, new

\* What its client is owed and will know is no different.
LEMMA EmitsClient ==
  ASSUME NEW conn \in ConnType, NEW link, NEW k, NEW after, NEW client,
         NEW open \in BOOLEAN, NEW opened \in BOOLEAN, NEW event \in Nat,
         after.seq = k.seq \/ open, opened = open \/ open,
         ClientShape(client, conn, link, k, open)
  PROVE  ClientShape(client, Emits(conn, event), link, after, opened)
<1> DEFINE new == Emits(conn, event)
<1>1. new.at = conn.at /\ new.fresh = conn.fresh /\ new.since = conn.since /\ new.last = conn.last
  BY EmitsFields
<1> HIDE DEF new
<1>2. Counted(client, new, link)
  BY <1>1 DEF ClientShape, Counted
<1>3. Follows(client, new, link, after, opened)
  <2>1. Follows(client, conn, link, k, open)
    BY DEF ClientShape
  <2>2. ~opened /\ ~open => after.seq = k.seq
    OBVIOUS
  <2>3. link.up /\ new.at = "closed" =>
          \/ \E i \in DOMAIN link.frames : IsReplaced(link.frames[i])
          \/ ~opened /\ Leads(link.frames, client.last, after.seq)
          \/ ~client.knows /\ \A i \in DOMAIN link.frames : link.frames[i].kind # "attached"
    BY <2>1, <2>2, <1>1 DEF Follows
  <2> QED BY <2>1, <2>3, <1>1 DEF Follows
<1> QED BY <1>2, <1>3 DEF ClientShape, new

\* What the loop says goes behind what it said.
LEMMA SaysFields ==
  ASSUME NEW conn \in ConnType, NEW word \in VoiceType, Len(conn.voice) <= VoiceRoom
  PROVE  /\ Says(conn, word) \in ConnType
         /\ Says(conn, word).at = conn.at /\ Says(conn, word).client = conn.client
         /\ Says(conn, word).last = conn.last /\ Says(conn, word).since = conn.since
         /\ Says(conn, word).fresh = conn.fresh /\ Says(conn, word).hears = conn.hears
         /\ Says(conn, word).events = conn.events /\ Says(conn, word).lagged = conn.lagged
         /\ Says(conn, word).answer = conn.answer
         /\ ~conn.hears => Says(conn, word) = conn
         /\ conn.hears =>
              /\ Len(Says(conn, word).voice) <= VoiceRoom
              /\ \/ /\ Says(conn, word).deaf = conn.deaf
                    /\ Says(conn, word).voice = Append(conn.voice, word)
                 \/ /\ Says(conn, word).deaf /\ conn.voice # <<>>
                    /\ Says(conn, word).voice = Append(Tail(conn.voice), word)
<1>1. conn.voice \in Seq(VoiceType)
  BY DEF ConnType
<1>2. CASE ~conn.hears
  BY <1>2 DEF Says
<1>3. CASE conn.hears /\ Len(conn.voice) < VoiceRoom
  <2> DEFINE vo == Append(conn.voice, word)
             new == [conn EXCEPT !.voice = vo]
  <2>1. Says(conn, word) = new
    BY <1>3 DEF Says
  <2>2. vo \in Seq(VoiceType) /\ Len(vo) <= VoiceRoom /\ vo = Append(conn.voice, word)
    BY <1>1, <1>3, ServingAssumption
  <2> HIDE DEF vo
  <2>3. /\ new \in ConnType /\ new.at = conn.at /\ new.client = conn.client
        /\ new.last = conn.last /\ new.since = conn.since
        /\ new.fresh = conn.fresh /\ new.hears = conn.hears
        /\ new.events = conn.events /\ new.lagged = conn.lagged
        /\ new.answer = conn.answer /\ new.voice = vo /\ new.deaf = conn.deaf
    BY <2>2 DEF ConnType
  <2> HIDE DEF new
  <2> QED BY <2>1, <2>2, <2>3, <1>3
<1>4. CASE conn.hears /\ ~(Len(conn.voice) < VoiceRoom)
  <2> DEFINE vo == Append(Tail(conn.voice), word)
             new == [conn EXCEPT !.voice = vo, !.deaf = TRUE]
  <2>1. Says(conn, word) = new
    BY <1>4 DEF Says
  <2>2. Len(conn.voice) \in Nat /\ Len(conn.voice) >= 1
    BY <1>1, <1>4, ServingAssumption
  <2>3. vo \in Seq(VoiceType) /\ Len(vo) = Len(conn.voice) /\ conn.voice # <<>>
        /\ vo = Append(Tail(conn.voice), word)
    BY <1>1, <2>2
  <2> HIDE DEF vo
  <2>4. /\ new \in ConnType /\ new.at = conn.at /\ new.client = conn.client
        /\ new.last = conn.last /\ new.since = conn.since
        /\ new.fresh = conn.fresh /\ new.hears = conn.hears
        /\ new.events = conn.events /\ new.lagged = conn.lagged
        /\ new.answer = conn.answer /\ new.voice = vo /\ new.deaf = TRUE
    BY <2>3 DEF ConnType
  <2> HIDE DEF new
  <2> QED BY <2>1, <2>3, <2>4, <1>4
<1> QED BY <1>2, <1>3, <1>4

\* So does one that is sent a word of the loop.
LEMMA SaysShape ==
  ASSUME NEW conn \in ConnType, NEW link, NEW k \in KernelType, NEW open, NEW word \in VoiceType,
         Telling(word) => word.mark <= k.fragments, Shape(conn, link, k, open)
  PROVE  Says(conn, word) \in ConnType /\ Shape(Says(conn, word), link, k, open)
<1> DEFINE new == Says(conn, word)
<1>1. ConnPlaced(conn, link) /\ ConnFollows(conn, link, k, open) /\ ConnMarked(conn, link, k.fragments)
      /\ ConnHears(conn) /\ conn.voice \in Seq(VoiceType)
  BY DEF Shape, ConnType
<1>2. /\ new \in ConnType /\ new.at = conn.at /\ new.client = conn.client
      /\ new.last = conn.last /\ new.since = conn.since
      /\ new.fresh = conn.fresh /\ new.hears = conn.hears
      /\ new.events = conn.events /\ new.lagged = conn.lagged
      /\ new.answer = conn.answer
      /\ ~conn.hears => new = conn
      /\ conn.hears =>
              /\ Len(new.voice) <= VoiceRoom
              /\ \/ new.voice = Append(conn.voice, word)
                 \/ conn.voice # <<>> /\ new.voice = Append(Tail(conn.voice), word)
  BY <1>1, SaysFields DEF ConnHears
<1> HIDE DEF new
<1>3. ConnPlaced(new, link) /\ ConnHears(new)
  BY <1>1, <1>2 DEF ConnPlaced, ConnHears
<1>4. ConnFollows(new, link, k, open)
  <2>1. \A i \in DOMAIN link.commands : CommandFits(new, i, link.commands[i], k)
    BY <1>1, <1>2 DEF ConnFollows, CommandFits
  <2> QED BY <2>1, <1>1, <1>2 DEF ConnFollows
<1>5. \A i \in DOMAIN new.voice : new.voice[i] = word
        \/ \E j \in DOMAIN conn.voice : new.voice[i] = conn.voice[j]
  <2>1. CASE ~conn.hears
    BY <2>1, <1>2
  <2>2. CASE new.voice = Append(conn.voice, word)
    <3>1. \A i \in DOMAIN Append(conn.voice, word) : i \in DOMAIN conn.voice \/ i = Len(conn.voice) + 1
      BY <1>1
    <3>2. \A i \in DOMAIN Append(conn.voice, word) :
            Append(conn.voice, word)[i] = IF i = Len(conn.voice) + 1 THEN word ELSE conn.voice[i]
      BY <1>1
    <3> QED BY <2>2, <3>1, <3>2
  <2>3. CASE conn.voice # <<>> /\ new.voice = Append(Tail(conn.voice), word)
    <3> DEFINE rest == Tail(conn.voice)
    <3>1. rest \in Seq(VoiceType) /\ \A i \in DOMAIN rest : i + 1 \in DOMAIN conn.voice
            /\ rest[i] = conn.voice[i + 1]
      BY <1>1, <2>3, Behind
    <3> HIDE DEF rest
    <3>2. \A i \in DOMAIN Append(rest, word) :
            Append(rest, word)[i] = word \/ (i \in DOMAIN rest /\ Append(rest, word)[i] = rest[i])
      BY <3>1
    <3>3. new.voice = Append(rest, word)
      BY <2>3 DEF rest
    <3> QED BY <3>1, <3>2, <3>3
  <2> QED BY <2>1, <2>2, <2>3, <1>2
<1>6. ConnMarked(new, link, k.fragments)
  BY <1>1, <1>2, <1>5 DEF ConnMarked
<1> QED BY <1>2, <1>3, <1>4, <1>6 DEF Shape, new

\* Where the word says whether the session is busy, that is what was last said.
LEMMA SaysBusy ==
  ASSUME NEW conn \in ConnType, NEW b \in BOOLEAN, NEW word \in VoiceType, Telling(word), word.busy = b,
         ConnHears(conn), NEW client, NEW link
  PROVE  ConnTold(Says(conn, word), b) /\ Told(client, Says(conn, word), link, b)
<1> DEFINE new == Says(conn, word)
<1>1. conn.voice \in Seq(VoiceType)
  BY DEF ConnType
<1>2. /\ new.at = conn.at /\ new.answer = conn.answer /\ (~conn.hears => new = conn)
      /\ conn.hears => \/ new.voice = Append(conn.voice, word)
                       \/ conn.voice # <<>> /\ new.voice = Append(Tail(conn.voice), word)
  BY SaysFields DEF ConnHears
<1> HIDE DEF new
<1>3. CASE ~conn.hears
  <2>1. new.voice = <<>> /\ new.answer = <<>> /\ new.at \notin Going
    BY <1>2, <1>3 DEF ConnHears
  <2> QED BY <2>1 DEF ConnTold, TellsLast, Told, Pending, Going, new
<1>4. CASE conn.hears
  <2>1. TellsLast(new.voice, b) /\ ~Silent(new.voice)
    <3>1. CASE new.voice = Append(conn.voice, word)
      BY <3>1, <1>1, TellsAppended
    <3>2. CASE conn.voice # <<>> /\ new.voice = Append(Tail(conn.voice), word)
      <4>1. Tail(conn.voice) \in Seq(VoiceType)
        BY <1>1, <3>2
      <4> QED BY <4>1, <3>2, TellsAppended
    <3> QED BY <1>2, <1>4, <3>1, <3>2
  <2> QED BY <2>1 DEF ConnTold, Told, new
<1> QED BY <1>3, <1>4

\* Where it says something else, nothing of that is lost unless the connection is told so.
LEMMA SaysModel ==
  ASSUME NEW conn \in ConnType, NEW b, NEW word \in VoiceType, ~Telling(word),
         ConnHears(conn), ConnTold(conn, b), NEW client, NEW link
  PROVE  /\ ConnTold(Says(conn, word), b)
         /\ Told(client, conn, link, b) => Told(client, Says(conn, word), link, b)
<1> DEFINE new == Says(conn, word)
<1>1. conn.voice \in Seq(VoiceType)
  BY DEF ConnType
<1>2. /\ new.at = conn.at /\ new.answer = conn.answer /\ (~conn.hears => new = conn)
      /\ conn.hears =>
           \/ new.deaf = conn.deaf /\ new.voice = Append(conn.voice, word)
           \/ new.deaf /\ conn.voice # <<>> /\ new.voice = Append(Tail(conn.voice), word)
  BY SaysFields DEF ConnHears
<1> HIDE DEF new
<1>3. /\ TellsLast(new.voice, b)
      /\ Silent(new.voice) /\ ~new.deaf => Silent(conn.voice) /\ ~conn.deaf
  <2>1. CASE ~conn.hears
    BY <2>1, <1>2 DEF ConnTold
  <2>2. CASE new.deaf = conn.deaf /\ new.voice = Append(conn.voice, word)
    BY <2>2, <1>1, TellsAppended DEF ConnTold
  <2>3. CASE new.deaf /\ conn.voice # <<>> /\ new.voice = Append(Tail(conn.voice), word)
    <3>1. Tail(conn.voice) \in Seq(VoiceType)
      BY <1>1, <2>3
    <3>2. TellsLast(Tail(conn.voice), b)
      BY <1>1, <2>3, TellsTail DEF ConnTold
    <3> QED BY <2>3, <3>1, <3>2, TellsAppended
  <2> QED BY <1>2, <2>1, <2>2, <2>3
<1> QED BY <1>2, <1>3 DEF ConnTold, Told, Pending, new

---------------------------------------------------------------------------
(* An answer of the loop, for one connection.                              *)

\* So does one that is sent an answer.
LEMMA AnswerShape ==
  ASSUME NEW conn \in ConnType, NEW had \in ConnType, NEW link, NEW k \in KernelType, NEW word \in WordType,
         Shape(had, link, k, TRUE), had.at \in Asking1 \cup {"standing"},
         conn.at = had.at, conn.client = had.client, conn.last = had.last, conn.since = had.since,
         conn.fresh = had.fresh, conn.events = had.events, conn.lagged = had.lagged,
         conn.voice = had.voice, conn.deaf = had.deaf, conn.hears, conn.answer = <<word>>,
         AnswerFits(word.about, had.at), word.seq <= k.seq, word.mark <= k.fragments
  PROVE  Shape(conn, link, k, TRUE)
<1>1. ConnPlaced(had, link) /\ ConnFollows(had, link, k, TRUE) /\ ConnMarked(had, link, k.fragments)
      /\ ConnHears(had)
  BY DEF Shape
<1>2. \A i \in DOMAIN conn.answer : conn.answer[i] = word
  OBVIOUS
<1>3. ConnPlaced(conn, link)
  BY <1>1, <1>2 DEF ConnPlaced, Asking1
<1>4. ConnFollows(conn, link, k, TRUE)
  <2>1. \A i \in DOMAIN link.commands : CommandFits(conn, i, link.commands[i], k)
    BY <1>1 DEF ConnFollows, CommandFits
  <2> QED BY <2>1, <1>1, <1>2 DEF ConnFollows
<1>5. ConnMarked(conn, link, k.fragments)
  BY <1>1, <1>2 DEF ConnMarked
<1>6. ConnHears(conn)
  BY <1>1 DEF ConnHears, Asking1
<1> QED BY <1>3, <1>4, <1>5, <1>6 DEF Shape

\* Nothing else of its client's is different.
LEMMA SameClient ==
  ASSUME NEW conn, NEW had, NEW link, NEW k, NEW open, NEW client,
         ClientShape(client, had, link, k, open),
         conn.at = had.at, conn.last = had.last, conn.since = had.since, conn.fresh = had.fresh
  PROVE  ClientShape(client, conn, link, k, open)
BY DEF ClientShape, Counted, Follows

\* An answer that says what is so is as good as a word.
LEMMA AnswerTold ==
  ASSUME NEW conn, NEW had, NEW link, NEW word, NEW b, NEW client,
         ConnTold(had, b), Told(client, had, link, b), had.answer = <<>>,
         conn.at = had.at, conn.voice = had.voice, conn.deaf = had.deaf, conn.answer = <<word>>,
         word.about # "replaced" => word.busy = b
  PROVE  ConnTold(conn, b) /\ Told(client, conn, link, b)
BY DEF ConnTold, Told, Pending

---------------------------------------------------------------------------
(* The loop takes what is asked.                                           *)

\* What the loop takes next was asked by a connection that still waits for it.
LEMMA FirstAsk ==
  ASSUME ServingInv, asks # <<>>
  PROVE  /\ Head(asks).from \in 1..Connections /\ Tail(asks) \in Seq(AskType)
         /\ Head(asks).what \in {"attach", "message", "quit", "standing", "left"}
         /\ AskFits(Head(asks).what, conns[Head(asks).from]) /\ session.open
<1>1. asks \in Seq(AskType)
  BY DEF ServingInv, ServingTypes
<1>2. Head(asks) = asks[1] /\ 1 \in DOMAIN asks /\ asks[1] \in AskType /\ Tail(asks) \in Seq(AskType)
  BY <1>1
<1>3. AskFits(asks[1].what, conns[asks[1].from]) /\ session.open
  BY <1>2 DEF ServingInv, AsksShown
<1> QED BY <1>2, <1>3 DEF AskType

\* What is taken from the queue, and answered, is asked no more.
LEMMA AsksTaken ==
  ASSUME ServingInv, asks # <<>>, asks' = Tail(asks), session'.open = session.open,
         \A d \in 1..Connections : /\ conns'[d].at = conns[d].at
                                   /\ d # Head(asks).from => conns'[d].answer = conns[d].answer
  PROVE  asks' \in Seq(AskType) /\ AsksShown'
<1>1. asks \in Seq(AskType)
  BY DEF ServingInv, ServingTypes
<1>2. /\ Head(asks) = asks[1] /\ 1 \in DOMAIN asks /\ Tail(asks) \in Seq(AskType)
      /\ \A k \in DOMAIN Tail(asks) :
           k \in Nat \ {0} /\ k + 1 \in DOMAIN asks /\ Tail(asks)[k] = asks[k + 1] /\ asks[k + 1] \in AskType
  BY <1>1
<1>3. ASSUME NEW k \in DOMAIN Tail(asks)
      PROVE  AskFits(Tail(asks)[k].what, conns'[Tail(asks)[k].from])
  <2>1. k + 1 \in DOMAIN asks /\ Tail(asks)[k] = asks[k + 1] /\ asks[k + 1].from \in 1..Connections /\ k + 1 # 1
    BY <1>2 DEF AskType
  <2>2. AskFits(asks[k + 1].what, conns[asks[k + 1].from])
    BY <2>1 DEF ServingInv, AsksShown
  <2>3. asks[k + 1].from # Head(asks).from
    BY <2>1, <1>2 DEF ServingInv, AsksShown
  <2> QED BY <2>1, <2>2, <2>3 DEF AskFits
<1>4. ASSUME NEW j \in DOMAIN Tail(asks), NEW k \in DOMAIN Tail(asks), Tail(asks)[j].from = Tail(asks)[k].from
      PROVE  j = k
  <2>1. j + 1 = k + 1
    BY <1>2, <1>4 DEF ServingInv, AsksShown
  <2> QED BY <2>1, <1>2
<1>5. session'.open
  BY FirstAsk
<1> QED BY <1>2, <1>3, <1>4, <1>5 DEF AsksShown

\* The queue is untouched where no connection moves.
LEMMA AsksKept ==
  ASSUME ServingInv, asks' = asks, session'.open = session.open,
         \A d \in 1..Connections : conns'[d].at = conns[d].at /\ conns'[d].answer = conns[d].answer
  PROVE  asks' \in Seq(AskType) /\ AsksShown'
<1>1. asks \in Seq(AskType)
  BY DEF ServingInv, ServingTypes
<1>2. ASSUME NEW k \in DOMAIN asks PROVE AskFits(asks[k].what, conns'[asks[k].from])
  <2>1. asks[k].from \in 1..Connections
    <3>1. asks[k] \in AskType
      BY <1>1
    <3> QED BY <3>1 DEF AskType
  <2> QED BY <2>1 DEF ServingInv, AsksShown, AskFits
<1> QED BY <1>1, <1>2 DEF ServingInv, AsksShown

---------------------------------------------------------------------------
(* The steps of the loop, and of the turn.                                 *)

SessionType ==
  [busy : BOOLEAN, turns : Seq(Client), seated : 1..Connections \cup {Nobody}, leaving : BOOLEAN,
   open : BOOLEAN]

\* The invariant, for every connection and client at once.
LEMMA LoopFacts ==
  ASSUME ServingInv
  PROVE  /\ conns \in [1..Connections -> ConnType] /\ links \in [1..Connections -> LinkType]
         /\ kernel \in KernelType /\ session \in SessionType
         /\ kernel.seq \in Nat \ {0} /\ kernel.fragments \in Nat /\ session.open \in BOOLEAN
         /\ session.busy \in BOOLEAN
         /\ \A c \in 1..Connections :
              /\ conns[c] \in ConnType /\ links[c] \in LinkType
              /\ Shape(conns[c], links[c], kernel, session.open) /\ ConnHears(conns[c])
              /\ session.open => ConnTold(conns[c], session.busy)
         /\ \A cl \in Client : Online(cl) =>
              /\ clients[cl].conn \in 1..Connections
              /\ ClientShape(clients[cl], conns[clients[cl].conn], links[clients[cl].conn],
                             kernel, session.open)
              /\ session.open => Told(clients[cl], conns[clients[cl].conn], links[clients[cl].conn], session.busy)
<1>1. /\ conns \in [1..Connections -> ConnType] /\ links \in [1..Connections -> LinkType]
      /\ kernel \in KernelType /\ session \in SessionType
  BY DEF ServingInv, ServingTypes, KernelType, SessionType
<1>2. kernel.seq \in Nat \ {0} /\ kernel.fragments \in Nat /\ session.open \in BOOLEAN
        /\ session.busy \in BOOLEAN
  BY <1>1 DEF KernelType, SessionType
<1>3. \A c \in 1..Connections :
              /\ Shape(conns[c], links[c], kernel, session.open) /\ ConnHears(conns[c])
              /\ session.open => ConnTold(conns[c], session.busy)
  BY DEF ServingInv, ConnInv, Shape
<1>4. \A cl \in Client : Online(cl) =>
              /\ clients[cl].conn \in 1..Connections
              /\ ClientShape(clients[cl], conns[clients[cl].conn], links[clients[cl].conn],
                             kernel, session.open)
              /\ session.open => Told(clients[cl], conns[clients[cl].conn], links[clients[cl].conn], session.busy)
  BY DEF ServingInv, Attended, ClientInv, ClientShape
<1> QED BY <1>1, <1>2, <1>3, <1>4

\* What each of its steps must show.
LEMMA LoopGoesOn ==
  ASSUME ServingInv, links' = links, clients' = clients,
         kernel' \in KernelType, session' \in SessionType, conns' \in [1..Connections -> ConnType],
         asks' \in Seq(AskType), AsksShown', TurnShown',
         \/ kernel'.seq = kernel.seq /\ session'.open = session.open
         \/ kernel'.seq = kernel.seq + 1 /\ session.open,
         \A c \in 1..Connections :
           /\ conns'[c].at = conns[c].at /\ conns'[c].client = conns[c].client
           /\ Shape(conns'[c], links[c], kernel', session'.open)
           /\ session'.open => ConnTold(conns'[c], session'.busy),
         \A cl \in Client, c \in 1..Connections : Online(cl) /\ clients[cl].conn = c =>
           /\ ClientShape(clients[cl], conns'[c], links[c], kernel', session'.open)
           /\ session'.open => Told(clients[cl], conns'[c], links[c], session'.busy)
  PROVE  ServingInv'
<1>1. ClientsShown'
  <2>1. \A cl \in Client : clients[cl].last \in Nat /\ kernel.seq \in Nat
    BY DEF ServingInv, ServingTypes, ClientType
  <2> QED BY <2>1 DEF ClientsShown, ServingInv
<1>2. \A c \in 1..Connections : ConnInv(conns'[c], links[c], kernel', session')
  BY DEF ConnInv, Shape
<1>3. \A cl \in Client : Online(cl) =>
        ClientInv(clients[cl], conns'[clients[cl].conn], links[clients[cl].conn], kernel', session')
  <2> SUFFICES ASSUME NEW cl \in Client, Online(cl)
               PROVE  ClientInv(clients[cl], conns'[clients[cl].conn], links[clients[cl].conn], kernel', session')
    OBVIOUS
  <2>1. clients[cl].conn \in 1..Connections
    BY DEF ServingInv, Attended
  <2> QED BY <2>1 DEF ClientInv, ClientShape
<1>4. /\ kernel' \in [seq : Nat \ {0}, fragments : 0..MaxFragments]
      /\ session' \in [busy : BOOLEAN, turns : Seq(Client), leaving : BOOLEAN, open : BOOLEAN,
                       seated : 1..Connections \cup {Nobody}]
  BY DEF KernelType, SessionType
<1>5. \A c \in 1..Connections : conns'[c].at = conns[c].at /\ conns'[c].client = conns[c].client
  OBVIOUS
<1> QED BY <1>1, <1>2, <1>3, <1>4, <1>5, LoopStep

\* An event goes to every connection.
LEMMA EmittedFacts ==
  ASSUME ServingInv, NEW cs \in [1..Connections -> ConnType], NEW event
  PROVE  /\ Emitted(cs, event) = [c \in 1..Connections |-> Emits(cs[c], event)]
BY DEF Emitted, Emits

\* A word goes to every connection.
LEMMA SaidFacts ==
  ASSUME NEW cs \in [1..Connections -> ConnType], NEW word
  PROVE  Said(cs, word) = [c \in 1..Connections |-> Says(cs[c], word)]
BY DEF Said, Says

\* The turn writes a fragment, or a record.
LEMMA TurnSaysKeeps ==
  ASSUME ServingInv, TurnSays
  PROVE  ServingInv'
<1> DEFINE event == kernel.fragments + 1
<1>1. /\ session.busy /\ kernel.fragments < MaxFragments /\ conns' = Emitted(conns, event)
      /\ kernel' = [kernel EXCEPT !.fragments = event]
      /\ session' = session /\ asks' = asks /\ links' = links /\ clients' = clients
  BY DEF TurnSays
<1>2. /\ conns \in [1..Connections -> ConnType] /\ kernel \in KernelType /\ session \in SessionType
      /\ kernel.seq \in Nat /\ kernel.fragments \in Nat /\ session.open \in BOOLEAN
  BY LoopFacts
<1>3. kernel' \in KernelType /\ kernel'.seq = kernel.seq /\ kernel'.fragments = event /\ event \in Nat
  BY <1>1, <1>2, ServingAssumption DEF KernelType
<1>4. \A c \in 1..Connections : conns'[c] = Emits(conns[c], event)
  BY <1>1, <1>2, EmittedFacts
<1>5. Grows(event, kernel, kernel')
  BY <1>3 DEF Grows
<1> HIDE DEF event
<1>6. ASSUME NEW c \in 1..Connections
      PROVE  /\ conns'[c] \in ConnType /\ conns'[c].at = conns[c].at /\ conns'[c].client = conns[c].client
             /\ conns'[c].answer = conns[c].answer
             /\ Shape(conns'[c], links[c], kernel', session.open)
             /\ session.open => ConnTold(conns'[c], session.busy)
             /\ \A cl \in Client : Online(cl) /\ clients[cl].conn = c =>
                  /\ ClientShape(clients[cl], conns'[c], links[c], kernel', session.open)
                  /\ session.open => Told(clients[cl], conns'[c], links[c], session.busy)
  <2>1. conns[c] \in ConnType /\ links[c] \in LinkType /\ Shape(conns[c], links[c], kernel, session.open)
        /\ (session.open => ConnTold(conns[c], session.busy))
    BY LoopFacts
  <2>2. Emits(conns[c], event) \in ConnType /\ Shape(Emits(conns[c], event), links[c], kernel', session.open)
    BY <2>1, <1>2, <1>3, <1>5, EmitsShape
  <2>3. /\ conns'[c].at = conns[c].at /\ conns'[c].client = conns[c].client
        /\ conns'[c].answer = conns[c].answer /\ conns'[c].voice = conns[c].voice
        /\ conns'[c].deaf = conns[c].deaf
    BY <2>1, <1>3, <1>4, EmitsFields
  <2>4. session.open => ConnTold(conns'[c], session.busy)
    BY <2>1, <2>3 DEF ConnTold, Pending
  <2>5. ASSUME NEW cl \in Client, Online(cl), clients[cl].conn = c
        PROVE  /\ ClientShape(clients[cl], conns'[c], links[c], kernel', session.open)
               /\ session.open => Told(clients[cl], conns'[c], links[c], session.busy)
    <3>1. /\ ClientShape(clients[cl], conns[c], links[c], kernel, session.open)
          /\ session.open => Told(clients[cl], conns[c], links[c], session.busy)
      BY <2>5, LoopFacts
    <3>2. ClientShape(clients[cl], Emits(conns[c], event), links[c], kernel', session.open)
      BY <3>1, <2>1, <1>2, <1>3, EmitsClient
    <3>3. session.open => Told(clients[cl], conns'[c], links[c], session.busy)
      BY <3>1, <2>3 DEF Told, Pending
    <3> QED BY <3>2, <3>3, <1>4
  <2> QED BY <2>2, <2>3, <2>4, <2>5, <1>4
<1>7. asks' \in Seq(AskType) /\ AsksShown'
  BY <1>1, <1>6, AsksKept
<1>8. TurnShown'
  BY <1>1 DEF ServingInv, TurnShown
<1>9. conns' \in [1..Connections -> ConnType]
  BY <1>1, <1>2, <1>4, <1>6, EmittedFacts
<1> QED BY <1>1, <1>2, <1>3, <1>6, <1>7, <1>8, <1>9, LoopGoesOn

\* A record goes in.
LEMMA RecordGoesIn ==
  ASSUME ServingInv, session.open, kernel' = [kernel EXCEPT !.seq = @ + 1]
  PROVE  /\ kernel' \in KernelType /\ kernel'.seq = kernel.seq + 1 /\ kernel'.fragments = kernel.fragments
         /\ Grows(Record, kernel, kernel') /\ Record \in Nat
<1>1. kernel \in KernelType
  BY LoopFacts
<1>2. kernel' \in KernelType /\ kernel'.seq = kernel.seq + 1 /\ kernel'.fragments = kernel.fragments
  BY <1>1 DEF KernelType
<1> QED BY <1>2 DEF Grows, Record

\* A word of the loop.
LEMMA Words ==
  ASSUME ServingInv
  PROVE  /\ \A b \in BOOLEAN : /\ Busy(b) \in VoiceType /\ Telling(Busy(b)) /\ Busy(b).busy = b
                               /\ Busy(b).mark = kernel.fragments
         /\ Model \in VoiceType /\ ~Telling(Model)
         /\ \A about \in Abouts :
              /\ Word(about) \in WordType /\ Word(about).about = about /\ Word(about).busy = session.busy
              /\ Word(about).mark = kernel.fragments /\ Word(about).seq = kernel.seq
         /\ [Word("submit") EXCEPT !.busy = TRUE] \in WordType
         /\ [Word("submit") EXCEPT !.busy = TRUE].about = "submit"
         /\ [Word("submit") EXCEPT !.busy = TRUE].busy = TRUE
         /\ [Word("submit") EXCEPT !.busy = TRUE].mark = kernel.fragments
         /\ [Word("submit") EXCEPT !.busy = TRUE].seq = kernel.seq
<1>1. kernel.seq \in Nat /\ kernel.fragments \in Nat /\ session.busy \in BOOLEAN
  BY LoopFacts
<1>2. \A b \in BOOLEAN : /\ Busy(b) \in VoiceType /\ Telling(Busy(b)) /\ Busy(b).busy = b
                         /\ Busy(b).mark = kernel.fragments
  BY <1>1 DEF Busy, VoiceType, Telling
<1>3. Model \in VoiceType /\ ~Telling(Model)
  BY DEF Model, VoiceType, Telling
<1>4. \A about \in Abouts :
              /\ Word(about) \in WordType /\ Word(about).about = about /\ Word(about).busy = session.busy
              /\ Word(about).mark = kernel.fragments /\ Word(about).seq = kernel.seq
  BY <1>1 DEF Word, WordType
<1> DEFINE w == Word("submit")
<1>5. w \in WordType /\ w.about = "submit" /\ w.mark = kernel.fragments /\ w.seq = kernel.seq
  BY <1>4 DEF Abouts
<1> HIDE DEF w
<1>6. /\ [w EXCEPT !.busy = TRUE] \in WordType
      /\ [w EXCEPT !.busy = TRUE].about = "submit"
      /\ [w EXCEPT !.busy = TRUE].busy = TRUE
      /\ [w EXCEPT !.busy = TRUE].mark = kernel.fragments
      /\ [w EXCEPT !.busy = TRUE].seq = kernel.seq
  BY <1>5 DEF WordType
<1> QED BY <1>2, <1>3, <1>4, <1>6 DEF w

\* What every connection that is emitted to keeps, where a record goes in and the session stays.
LEMMA RecordKeeps ==
  ASSUME ServingInv, NEW after \in KernelType, NEW opened \in BOOLEAN, session.open,
         after.seq = kernel.seq + 1, after.fragments = kernel.fragments,
         NEW c \in 1..Connections, NEW conn \in ConnType, Shape(conn, links[c], kernel, TRUE)
  PROVE  /\ Emits(conn, Record) \in ConnType /\ Shape(Emits(conn, Record), links[c], after, opened)
         /\ Emits(conn, Record).at = conn.at /\ Emits(conn, Record).client = conn.client
         /\ Emits(conn, Record).answer = conn.answer
         /\ \A b : ConnTold(conn, b) => ConnTold(Emits(conn, Record), b)
         /\ \A cl \in Client : ClientShape(clients[cl], conn, links[c], kernel, TRUE) =>
              ClientShape(clients[cl], Emits(conn, Record), links[c], after, opened)
         /\ \A cl \in Client, b \in BOOLEAN : Told(clients[cl], conn, links[c], b) =>
              Told(clients[cl], Emits(conn, Record), links[c], b)
<1>1. kernel \in KernelType /\ links[c] \in LinkType /\ Record \in Nat /\ Grows(Record, kernel, after)
  BY LoopFacts DEF Grows, Record
<1>2. Emits(conn, Record) \in ConnType /\ Shape(Emits(conn, Record), links[c], after, opened)
  BY <1>1, EmitsShape
<1>3. /\ Emits(conn, Record).at = conn.at /\ Emits(conn, Record).client = conn.client
      /\ Emits(conn, Record).answer = conn.answer /\ Emits(conn, Record).voice = conn.voice
      /\ Emits(conn, Record).deaf = conn.deaf
  BY <1>1, EmitsFields
<1>4. \A b : ConnTold(conn, b) => ConnTold(Emits(conn, Record), b)
  BY <1>3 DEF ConnTold, Pending
<1>5. ASSUME NEW cl \in Client, ClientShape(clients[cl], conn, links[c], kernel, TRUE)
      PROVE  ClientShape(clients[cl], Emits(conn, Record), links[c], after, opened)
  <2> DEFINE open == session.open
  <2>1. open \in BOOLEAN /\ open = TRUE
    BY LoopFacts
  <2> HIDE DEF open
  <2>2. ClientShape(clients[cl], conn, links[c], kernel, open)
    BY <2>1, <1>5
  <2> QED BY <2>1, <2>2, <1>1, EmitsClient
<1>6. \A cl \in Client, b \in BOOLEAN : Told(clients[cl], conn, links[c], b) =>
              Told(clients[cl], Emits(conn, Record), links[c], b)
  BY <1>3 DEF Told, Pending
<1> QED BY <1>2, <1>3, <1>4, <1>5, <1>6

\* The same connection, but for whom it was listed with.
Same(conn, had) ==
  /\ conn.at = had.at /\ conn.client = had.client /\ conn.last = had.last /\ conn.since = had.since
  /\ conn.fresh = had.fresh /\ conn.events = had.events /\ conn.lagged = had.lagged
  /\ conn.voice = had.voice /\ conn.deaf = had.deaf

\* What a connection has noted about its place is nothing the invariant speaks of.
LEMMA SameShape ==
  ASSUME NEW conn, NEW had, NEW link, NEW k, NEW open, Shape(had, link, k, open),
         Same(conn, had), conn.hears = had.hears, conn.answer = had.answer
  PROVE  Shape(conn, link, k, open)
<1>1. ConnPlaced(had, link) /\ ConnFollows(had, link, k, open) /\ ConnMarked(had, link, k.fragments)
      /\ ConnHears(had)
  BY DEF Shape
<1>2. ConnPlaced(conn, link) /\ ConnHears(conn) /\ ConnMarked(conn, link, k.fragments)
  BY <1>1 DEF ConnPlaced, ConnHears, ConnMarked, Same
<1>3. ConnFollows(conn, link, k, open)
  <2>1. \A i \in DOMAIN link.commands : CommandFits(conn, i, link.commands[i], k)
    BY <1>1 DEF ConnFollows, CommandFits, Same
  <2> QED BY <2>1, <1>1 DEF ConnFollows, Same
<1> QED BY <1>2, <1>3 DEF Shape

\* The same, of what it was told.
LEMMA SameTold ==
  ASSUME NEW conn, NEW had, NEW link, NEW client, NEW b,
         Same(conn, had), conn.answer = had.answer
  PROVE  /\ ConnTold(had, b) => ConnTold(conn, b)
         /\ Told(client, had, link, b) => Told(client, conn, link, b)
BY DEF Same, ConnTold, Told, Pending

\* The loop answers one connection.
LEMMA OneAnswered ==
  ASSUME ServingInv, asks # <<>>, NEW word \in WordType,
         conns' \in [1..Connections -> ConnType], session' \in SessionType,
         kernel' = kernel, links' = links, clients' = clients, asks' = Tail(asks),
         session'.open = session.open, session'.busy = session.busy, TurnShown',
         AnswerFits(word.about, conns[Head(asks).from].at), conns[Head(asks).from].answer = <<>>,
         word.seq = kernel.seq, word.mark = kernel.fragments,
         word.about # "replaced" => word.busy = session.busy,
         conns'[Head(asks).from].hears, conns'[Head(asks).from].answer = <<word>>,
         \A d \in 1..Connections :
           /\ Same(conns'[d], conns[d])
           /\ d # Head(asks).from => conns'[d].hears = conns[d].hears /\ conns'[d].answer = conns[d].answer
  PROVE  ServingInv'
<1> DEFINE c == Head(asks).from
<1>1. c \in 1..Connections /\ session.open
  BY FirstAsk
<1>2. /\ conns \in [1..Connections -> ConnType] /\ kernel \in KernelType
      /\ session.open \in BOOLEAN /\ session.open = TRUE
  BY <1>1, LoopFacts
<1>3. conns[c].at \in Asking1 \cup {"standing"}
  BY <1>1 DEF AnswerFits, Asking1
<1>4. word.seq <= kernel.seq /\ word.mark <= kernel.fragments
  BY LoopFacts
<1> HIDE DEF c
<1>5. ASSUME NEW d \in 1..Connections
      PROVE  /\ conns'[d].at = conns[d].at /\ conns'[d].client = conns[d].client
             /\ Shape(conns'[d], links[d], kernel, session.open)
             /\ ConnTold(conns'[d], session.busy)
             /\ \A cl \in Client : Online(cl) /\ clients[cl].conn = d =>
                  /\ ClientShape(clients[cl], conns'[d], links[d], kernel, session.open)
                  /\ Told(clients[cl], conns'[d], links[d], session.busy)
  <2>1. conns[d] \in ConnType /\ conns'[d] \in ConnType /\ Same(conns'[d], conns[d])
        /\ Shape(conns[d], links[d], kernel, session.open)
        /\ ConnTold(conns[d], session.busy)
    BY <1>1, LoopFacts
  <2>2. conns'[d].at = conns[d].at /\ conns'[d].client = conns[d].client
        /\ conns'[d].last = conns[d].last /\ conns'[d].since = conns[d].since
            /\ conns'[d].fresh = conns[d].fresh
    BY <2>1 DEF Same
  <2>3. ASSUME NEW cl \in Client, Online(cl), clients[cl].conn = d
        PROVE  /\ ClientShape(clients[cl], conns'[d], links[d], kernel, session.open)
               /\ Told(clients[cl], conns[d], links[d], session.busy)
    <3>1. /\ ClientShape(clients[cl], conns[d], links[d], kernel, session.open)
          /\ Told(clients[cl], conns[d], links[d], session.busy)
      BY <2>3, <1>1, LoopFacts
    <3> QED BY <3>1, <2>2, SameClient
  <2>4. CASE d # c
    <3>1. conns'[d].hears = conns[d].hears /\ conns'[d].answer = conns[d].answer
      BY <2>4 DEF c
    <3>2. Shape(conns'[d], links[d], kernel, session.open)
      BY <3>1, <2>1, SameShape
    <3>3. ConnTold(conns'[d], session.busy)
          /\ \A cl \in Client : Told(clients[cl], conns[d], links[d], session.busy)
               => Told(clients[cl], conns'[d], links[d], session.busy)
      BY <3>1, <2>1, SameTold
    <3> QED BY <2>2, <2>3, <3>2, <3>3
  <2>5. CASE d = c
    <3>1. /\ conns'[d].hears /\ conns'[d].answer = <<word>> /\ conns[d].answer = <<>>
          /\ AnswerFits(word.about, conns[d].at) /\ conns[d].at \in Asking1 \cup {"standing"}
      BY <2>5, <1>3 DEF c
    <3>2. /\ conns'[d].events = conns[d].events /\ conns'[d].lagged = conns[d].lagged
          /\ conns'[d].voice = conns[d].voice /\ conns'[d].deaf = conns[d].deaf
      BY <2>1 DEF Same
    <3>3. Shape(conns'[d], links[d], kernel, session.open)
      <4>1. Shape(conns[d], links[d], kernel, TRUE)
        BY <2>1, <1>2
      <4>2. Shape(conns'[d], links[d], kernel, TRUE)
        BY <4>1, <3>1, <3>2, <2>1, <2>2, <1>2, <1>4, AnswerShape
      <4> QED BY <4>2, <1>2
    <3>4. ConnTold(conns'[d], session.busy)
      BY <3>1, <3>2, <2>1 DEF ConnTold, Pending
    <3>5. \A cl \in Client : Told(clients[cl], conns[d], links[d], session.busy)
               => Told(clients[cl], conns'[d], links[d], session.busy)
      BY <3>1, <3>2, <2>1, <2>2, AnswerTold
    <3> QED BY <2>2, <2>3, <3>3, <3>4, <3>5
  <2> QED BY <2>4, <2>5
<1>6. asks' \in Seq(AskType) /\ AsksShown'
  BY <1>5, AsksTaken
<1>7. kernel' \in KernelType /\ kernel'.seq = kernel.seq
  BY <1>2
<1> QED BY <1>1, <1>5, <1>6, <1>7, LoopGoesOn

\* The loop forgets a connection that has gone.
LEMMA ForgetKeeps ==
  ASSUME ServingInv, Forget
  PROVE  ServingInv'
<1> DEFINE c == Head(asks).from
<1>1. /\ asks # <<>> /\ conns' = [conns EXCEPT ![c].listed = FALSE]
      /\ session' = [session EXCEPT !.seated = IF @ = c THEN Nobody ELSE @]
      /\ asks' = Tail(asks) /\ kernel' = kernel /\ links' = links /\ clients' = clients
  BY DEF Forget, Asking
<1>2. c \in 1..Connections /\ session.open
  BY <1>1, FirstAsk
<1>3. conns \in [1..Connections -> ConnType] /\ session \in SessionType /\ kernel \in KernelType
      /\ session.open \in BOOLEAN /\ session.open = TRUE
  BY <1>2, LoopFacts
<1> HIDE DEF c
<1>4. session' \in SessionType /\ session'.open = session.open /\ session'.busy = session.busy
      /\ session'.turns = session.turns
  BY <1>1, <1>3 DEF SessionType
<1>5. /\ conns' \in [1..Connections -> ConnType]
      /\ \A d \in 1..Connections :
           Same(conns'[d], conns[d]) /\ conns'[d].hears = conns[d].hears /\ conns'[d].answer = conns[d].answer
  <2> DEFINE had == conns[c]
             conn == [had EXCEPT !.listed = FALSE]
  <2>1. had \in ConnType
    BY <1>2, <1>3
  <2>2. conns' = [conns EXCEPT ![c] = conn]
    BY <1>1, <1>2, <1>3
  <2> HIDE DEF had
  <2>3. conn \in ConnType /\ Same(conn, had) /\ conn.hears = had.hears /\ conn.answer = had.answer
    BY <2>1 DEF ConnType, Same
  <2> HIDE DEF conn
  <2>4. conns' \in [1..Connections -> ConnType] /\ conns'[c] = conn
        /\ \A d \in 1..Connections : d # c => conns'[d] = conns[d]
    BY <2>2, <2>3, <1>2, <1>3
  <2> QED BY <2>3, <2>4 DEF Same, had
<1>6. ASSUME NEW d \in 1..Connections
      PROVE  /\ conns'[d].at = conns[d].at /\ conns'[d].client = conns[d].client
             /\ Shape(conns'[d], links[d], kernel, session.open)
             /\ ConnTold(conns'[d], session.busy)
             /\ \A cl \in Client : Online(cl) /\ clients[cl].conn = d =>
                  /\ ClientShape(clients[cl], conns'[d], links[d], kernel, session.open)
                  /\ Told(clients[cl], conns'[d], links[d], session.busy)
  <2>1. /\ Shape(conns[d], links[d], kernel, session.open)
        /\ ConnTold(conns[d], session.busy)
    BY <1>2, LoopFacts
  <2>2. /\ Shape(conns'[d], links[d], kernel, session.open)
        /\ ConnTold(conns'[d], session.busy)
        /\ \A cl \in Client : Told(clients[cl], conns[d], links[d], session.busy)
               => Told(clients[cl], conns'[d], links[d], session.busy)
    BY <2>1, <1>5, SameShape, SameTold
  <2>3. conns'[d].at = conns[d].at /\ conns'[d].client = conns[d].client
        /\ conns'[d].last = conns[d].last /\ conns'[d].since = conns[d].since
            /\ conns'[d].fresh = conns[d].fresh
    BY <1>5 DEF Same
  <2>4. \A cl \in Client : Online(cl) /\ clients[cl].conn = d =>
                  /\ ClientShape(clients[cl], conns[d], links[d], kernel, session.open)
                  /\ Told(clients[cl], conns[d], links[d], session.busy)
    BY <1>2, LoopFacts
  <2>5. \A cl \in Client : Online(cl) /\ clients[cl].conn = d =>
                  ClientShape(clients[cl], conns'[d], links[d], kernel, session.open)
    BY <2>3, <2>4, SameClient
  <2> QED BY <2>2, <2>3, <2>4, <2>5
<1>7. asks' \in Seq(AskType) /\ AsksShown'
  BY <1>1, <1>4, <1>5, <1>6, AsksTaken
<1>8. TurnShown'
  BY <1>4 DEF ServingInv, TurnShown
<1>9. kernel' \in KernelType /\ kernel'.seq = kernel.seq
  BY <1>1, <1>3, SMTT(30)
<1> QED BY <1>1, <1>4, <1>5, <1>6, <1>7, <1>8, <1>9, LoopGoesOn

\* One connection gets its answer, and no other is touched.
LEMMA AnswerAlone ==
  ASSUME ServingInv, asks # <<>>, NEW word \in WordType, session' \in SessionType,
         conns' = [conns EXCEPT ![Head(asks).from].answer = <<word>>],
         kernel' = kernel, links' = links, clients' = clients, asks' = Tail(asks),
         session'.open = session.open, session'.busy = session.busy, TurnShown',
         AnswerFits(word.about, conns[Head(asks).from].at),
         conns[Head(asks).from].answer = <<>>, conns[Head(asks).from].at \in Going,
         word.seq = kernel.seq, word.mark = kernel.fragments,
         word.about # "replaced" => word.busy = session.busy
  PROVE  ServingInv'
<1> DEFINE c == Head(asks).from
           had == conns[c]
           conn == [had EXCEPT !.answer = <<word>>]
<1>1. c \in 1..Connections /\ conns \in [1..Connections -> ConnType] /\ had \in ConnType /\ ConnHears(had)
  BY FirstAsk, LoopFacts
<1>2. conns' = [conns EXCEPT ![c] = conn] /\ <<word>> \in Seq(WordType) /\ had.hears
  BY <1>1 DEF ConnHears
<1> HIDE DEF had, c
<1>3. conn \in ConnType /\ Same(conn, had) /\ conn.hears = had.hears /\ conn.answer = <<word>>
  BY <1>1, <1>2 DEF ConnType, Same
<1> HIDE DEF conn
<1>4. conns' \in [1..Connections -> ConnType] /\ conns'[c] = conn
      /\ \A d \in 1..Connections : d # c => conns'[d] = conns[d]
  BY <1>1, <1>2, <1>3
<1>5. \A d \in 1..Connections :
        /\ Same(conns'[d], conns[d])
        /\ d # Head(asks).from => conns'[d].hears = conns[d].hears /\ conns'[d].answer = conns[d].answer
  BY <1>3, <1>4 DEF Same, had, c
<1>6. conns'[Head(asks).from].hears /\ conns'[Head(asks).from].answer = <<word>>
  BY <1>2, <1>3, <1>4 DEF c
<1> QED BY <1>4, <1>5, <1>6, OneAnswered

\* The loop answers how things stand.
LEMMA TellStandingKeeps ==
  ASSUME ServingInv, TellStanding
  PROVE  ServingInv'
<1>1. /\ asks # <<>> /\ Head(asks).what = "standing"
      /\ conns' = [conns EXCEPT ![Head(asks).from].answer = <<Word("standing")>>]
      /\ asks' = Tail(asks) /\ kernel' = kernel /\ session' = session /\ links' = links /\ clients' = clients
  BY DEF TellStanding, Asking
<1>2. AskFits("standing", conns[Head(asks).from])
  BY <1>1, FirstAsk
<1>3. /\ conns[Head(asks).from].at = "standing" /\ conns[Head(asks).from].answer = <<>>
      /\ conns[Head(asks).from].at \in Going
  BY <1>2 DEF AskFits, Going
<1> DEFINE word == Word("standing")
<1>4. /\ word \in WordType /\ word.about = "standing" /\ word.busy = session.busy
      /\ word.mark = kernel.fragments /\ word.seq = kernel.seq
  BY Words DEF Abouts
<1>5. AnswerFits(word.about, conns[Head(asks).from].at)
  BY <1>3, <1>4 DEF AnswerFits
<1>6. session' \in SessionType /\ TurnShown'
  BY <1>1, LoopFacts DEF ServingInv, TurnShown
<1>7. conns' = [conns EXCEPT ![Head(asks).from].answer = <<word>>]
  BY <1>1
<1> HIDE DEF word
<1> QED BY <1>1, <1>3, <1>4, <1>5, <1>6, <1>7, AnswerAlone

\* The loop refuses a connection that has not the session.
LEMMA RefuseKeeps ==
  ASSUME ServingInv, Refuse
  PROVE  ServingInv'
<1>1. /\ asks # <<>> /\ Head(asks).what \in {"message", "quit"}
      /\ conns' = [conns EXCEPT ![Head(asks).from].answer = <<Word("replaced")>>]
      /\ asks' = Tail(asks) /\ kernel' = kernel /\ session' = session /\ links' = links /\ clients' = clients
  BY DEF Refuse, Asking
<1>2. AskFits(Head(asks).what, conns[Head(asks).from])
  BY <1>1, FirstAsk
<1>3. /\ conns[Head(asks).from].at = "asking" /\ conns[Head(asks).from].answer = <<>>
      /\ conns[Head(asks).from].at \in Going
  BY <1>1, <1>2 DEF AskFits, Going
<1> DEFINE word == Word("replaced")
<1>4. /\ word \in WordType /\ word.about = "replaced"
      /\ word.mark = kernel.fragments /\ word.seq = kernel.seq
  BY Words DEF Abouts
<1>5. AnswerFits(word.about, conns[Head(asks).from].at)
  BY <1>3, <1>4 DEF AnswerFits
<1>6. session' \in SessionType /\ TurnShown'
  BY <1>1, LoopFacts DEF ServingInv, TurnShown
<1>7. conns' = [conns EXCEPT ![Head(asks).from].answer = <<word>>]
  BY <1>1
<1> HIDE DEF word
<1> QED BY <1>1, <1>3, <1>4, <1>5, <1>6, <1>7, AnswerAlone

\* The loop is told to leave.
LEMMA QuitKeeps ==
  ASSUME ServingInv, Quit
  PROVE  ServingInv'
<1>1. /\ asks # <<>> /\ Head(asks).what = "quit"
      /\ conns' = [conns EXCEPT ![Head(asks).from].answer = <<Word("submit")>>]
      /\ session' = [session EXCEPT !.leaving = TRUE]
      /\ asks' = Tail(asks) /\ kernel' = kernel /\ links' = links /\ clients' = clients
  BY DEF Quit, Seated, Asking
<1>2. AskFits("quit", conns[Head(asks).from])
  BY <1>1, FirstAsk
<1>3. /\ conns[Head(asks).from].at = "asking" /\ conns[Head(asks).from].answer = <<>>
      /\ conns[Head(asks).from].at \in Going
  BY <1>2 DEF AskFits, Going
<1> DEFINE word == Word("submit")
<1>4. /\ word \in WordType /\ word.about = "submit" /\ word.busy = session.busy
      /\ word.mark = kernel.fragments /\ word.seq = kernel.seq
  BY Words DEF Abouts
<1>5. AnswerFits(word.about, conns[Head(asks).from].at)
  BY <1>3, <1>4 DEF AnswerFits
<1>6. session \in SessionType
  BY LoopFacts
<1>7. /\ session' \in SessionType /\ session'.open = session.open /\ session'.busy = session.busy
      /\ session'.turns = session.turns
  BY <1>1, <1>6 DEF SessionType
<1>8. TurnShown'
  BY <1>7 DEF ServingInv, TurnShown
<1>9. conns' = [conns EXCEPT ![Head(asks).from].answer = <<word>>]
  BY <1>1
<1> HIDE DEF word
<1> QED BY <1>1, <1>3, <1>4, <1>5, <1>7, <1>8, <1>9, AnswerAlone

\* The loop gives the session to who attaches, and notes whose it was.
LEMMA AttachKeeps ==
  ASSUME ServingInv, Attach
  PROVE  ServingInv'
<1> DEFINE c == Head(asks).from
           word == Word("attach")
           born == IF conns[c].hears THEN conns ELSE [conns EXCEPT ![c].hears = TRUE]
           had == session.seated
           moved == Unseated(born, c)
<1>1. /\ asks # <<>> /\ Head(asks).what = "attach"
      /\ conns' = [moved EXCEPT ![c].answer = <<word>>]
      /\ session' = [session EXCEPT !.seated = c]
      /\ asks' = Tail(asks) /\ kernel' = kernel /\ links' = links /\ clients' = clients
  BY DEF Attach, Asking
<1>2. c \in 1..Connections /\ AskFits("attach", conns[c])
  BY <1>1, FirstAsk
<1>3. conns[c].at \in {"attaching", "reattaching"} /\ conns[c].answer = <<>>
  BY <1>2 DEF AskFits
<1>4. /\ word \in WordType /\ word.about = "attach" /\ word.busy = session.busy
      /\ word.mark = kernel.fragments /\ word.seq = kernel.seq /\ <<word>> \in Seq(WordType)
  BY Words DEF Abouts
<1>5. conns \in [1..Connections -> ConnType] /\ session \in SessionType
  BY LoopFacts
<1>6. /\ session' \in SessionType /\ session'.open = session.open /\ session'.busy = session.busy
      /\ session'.turns = session.turns
  <2> HIDE DEF c
  <2> QED BY <1>1, <1>2, <1>5 DEF SessionType
<1>7. TurnShown'
  BY <1>6 DEF ServingInv, TurnShown
<1> HIDE DEF word, c
<1>8. /\ born \in [1..Connections -> ConnType] /\ born[c].hears
      /\ \A d \in 1..Connections :
           /\ Same(born[d], conns[d]) /\ born[d].answer = conns[d].answer
           /\ d # c => born[d].hears = conns[d].hears
  <2>1. CASE conns[c].hears
    BY <2>1, <1>5 DEF Same
  <2>2. CASE ~conns[c].hears
    <3> DEFINE one == conns[c]
               new == [one EXCEPT !.hears = TRUE]
    <3>1. one \in ConnType /\ born = [conns EXCEPT ![c] = new]
      BY <2>2, <1>2, <1>5
    <3> HIDE DEF one, born
    <3>2. new \in ConnType /\ Same(new, one) /\ new.answer = one.answer /\ new.hears
      BY <3>1 DEF ConnType, Same
    <3> HIDE DEF new
    <3>3. born \in [1..Connections -> ConnType] /\ born[c] = new
          /\ \A d \in 1..Connections : d # c => born[d] = conns[d]
      BY <3>1, <3>2, <1>2, <1>5
    <3>4. \A d \in 1..Connections : d # c => Same(born[d], conns[d])
      BY <3>3 DEF Same
    <3> QED BY <3>2, <3>3, <3>4 DEF one
  <2> QED BY <2>1, <2>2
<1> HIDE DEF born
<1>9. /\ moved \in [1..Connections -> ConnType] /\ moved[c] = born[c]
      /\ \A d \in 1..Connections :
           Same(moved[d], born[d]) /\ moved[d].answer = born[d].answer /\ moved[d].hears = born[d].hears
  <2>1. CASE had \in {Nobody, c} \/ ~born[had].listed
    <3>1. moved = born
      BY <2>1 DEF Unseated
    <3> QED BY <3>1, <1>2, <1>8 DEF Same
  <2>2. CASE ~(had \in {Nobody, c} \/ ~born[had].listed)
    <3> DEFINE one == born[had]
               new == [one EXCEPT !.notified = TRUE, !.listed = FALSE]
    <3>1. had \in 1..Connections /\ had # c
      BY <2>2, <1>5 DEF SessionType
    <3>2. moved = [born EXCEPT ![had].notified = TRUE, ![had].listed = FALSE]
      BY <2>2 DEF Unseated
    <3> HIDE DEF moved, had
    <3>3. one \in ConnType /\ moved = [born EXCEPT ![had] = new]
      BY <3>1, <3>2, <1>8
    <3> HIDE DEF one
    <3>4. new \in ConnType /\ Same(new, one) /\ new.answer = one.answer /\ new.hears = one.hears
      BY <3>3 DEF ConnType, Same
    <3> HIDE DEF new
    <3>5. moved \in [1..Connections -> ConnType] /\ moved[had] = new
          /\ \A d \in 1..Connections : d # had => moved[d] = born[d]
      BY <3>1, <3>3, <3>4, <1>8
    <3>6. \A d \in 1..Connections : d # had => Same(moved[d], born[d])
      BY <3>5 DEF Same
    <3> QED BY <3>1, <3>4, <3>5, <3>6, <1>2 DEF one
  <2> QED BY <2>1, <2>2
<1> HIDE DEF moved
<1>10. /\ conns' \in [1..Connections -> ConnType] /\ conns'[c].hears /\ conns'[c].answer = <<word>>
       /\ \A d \in 1..Connections :
            /\ Same(conns'[d], moved[d])
            /\ d # c => conns'[d].hears = moved[d].hears /\ conns'[d].answer = moved[d].answer
  <2> DEFINE one == moved[c]
             new == [one EXCEPT !.answer = <<word>>]
  <2>1. one \in ConnType /\ conns' = [moved EXCEPT ![c] = new] /\ one.hears
    BY <1>1, <1>2, <1>8, <1>9
  <2> HIDE DEF one
  <2>2. new \in ConnType /\ Same(new, one) /\ new.answer = <<word>> /\ new.hears = one.hears
    BY <2>1, <1>4 DEF ConnType, Same
  <2> HIDE DEF new
  <2>3. conns' \in [1..Connections -> ConnType] /\ conns'[c] = new
        /\ \A d \in 1..Connections : d # c => conns'[d] = moved[d]
    BY <2>1, <2>2, <1>2, <1>9
  <2>4. \A d \in 1..Connections : d # c => Same(conns'[d], moved[d])
    BY <2>3 DEF Same
  <2> QED BY <2>1, <2>2, <2>3, <2>4 DEF one
<1>11. \A d \in 1..Connections :
         /\ Same(conns'[d], conns[d])
         /\ d # c => conns'[d].hears = conns[d].hears /\ conns'[d].answer = conns[d].answer
  BY <1>8, <1>9, <1>10 DEF Same
<1>12. AnswerFits(word.about, conns[c].at)
  BY <1>3, <1>4 DEF AnswerFits
<1> QED BY <1>1, <1>3, <1>4, <1>6, <1>7, <1>10, <1>11, <1>12, OneAnswered, ZenonT(60) DEF c

\* A message begins a turn, or joins the line behind the one that runs.
LEMMA SubmitKeeps ==
  ASSUME ServingInv, Submit
  PROVE  ServingInv'
<1> DEFINE c == Head(asks).from
           reply == [Word("submit") EXCEPT !.busy = TRUE]
           who == conns[c].client
           turns == Append(session.turns, who)
<1>1. /\ asks # <<>> /\ Head(asks).what = "message" /\ session.open
      /\ asks' = Tail(asks) /\ links' = links /\ clients' = clients
  BY DEF Submit, Seated, Asking, AtTop
<1>2. c \in 1..Connections /\ AskFits("message", conns[c])
  BY <1>1, FirstAsk
<1>3. conns[c].at = "asking" /\ conns[c].answer = <<>> /\ conns[c].at \in Going
  BY <1>2 DEF AskFits, Going
<1>4. /\ reply \in WordType /\ reply.about = "submit" /\ reply.busy = TRUE
      /\ reply.mark = kernel.fragments /\ reply.seq = kernel.seq /\ <<reply>> \in Seq(WordType)
  BY Words
<1>5. /\ conns \in [1..Connections -> ConnType] /\ session \in SessionType /\ kernel \in KernelType
      /\ session.open \in BOOLEAN /\ session.open = TRUE /\ session.busy \in BOOLEAN
      /\ Shape(conns[c], links[c], kernel, session.open)
  BY <1>1, <1>2, LoopFacts
<1>6. who \in Client
  BY <1>3, <1>5 DEF Shape, ConnPlaced
<1> HIDE DEF who
<1>7. session.turns \in Seq(Client) /\ turns \in Seq(Client) /\ turns # <<>>
  BY <1>5, <1>6 DEF SessionType
<1>8. AnswerFits(reply.about, conns[c].at)
  BY <1>3, <1>4 DEF AnswerFits
<1>9. CASE session.busy
  <2>1. /\ session' = [session EXCEPT !.turns = turns]
        /\ conns' = [conns EXCEPT ![c].answer = <<reply>>] /\ kernel' = kernel
    BY <1>9 DEF Submit, who
  <2> HIDE DEF turns, reply, c
  <2>2. /\ session' \in SessionType /\ session'.open = session.open /\ session'.busy = session.busy
        /\ session'.turns = turns
    BY <2>1, <1>5, <1>7 DEF SessionType
  <2>3. TurnShown'
    BY <2>2, <1>7 DEF TurnShown
  <2>4. reply.about # "replaced" => reply.busy = session.busy
    BY <1>4, <1>9
  <2> QED BY <1>1, <1>3, <1>4, <1>8, <2>1, <2>2, <2>3, <2>4, AnswerAlone DEF c
<1>10. CASE ~session.busy
  <2> DEFINE mid == [conns EXCEPT ![c].answer = <<reply>>]
             word == Busy(TRUE)
  <2>1. /\ session' = [[session EXCEPT !.turns = turns] EXCEPT !.busy = TRUE]
        /\ kernel' = [kernel EXCEPT !.seq = @ + 1]
        /\ conns' = Said(Emitted(mid, Record), word)
    <3>1. session' = [[session EXCEPT !.turns = Append(@, conns[Head(asks).from].client)] EXCEPT !.busy = TRUE]
      BY <1>10 DEF Submit
    <3>2. [session EXCEPT !.turns = Append(@, conns[Head(asks).from].client)] = [session EXCEPT !.turns = turns]
      BY DEF who
    <3>3. kernel' = [kernel EXCEPT !.seq = @ + 1] /\ conns' = Said(Emitted(mid, Record), word)
      BY <1>10 DEF Submit
    <3> HIDE DEF turns, mid, word
    <3> QED BY <3>1, <3>2, <3>3
  <2> HIDE DEF turns, reply, c
  <2>2. /\ session' \in SessionType /\ session'.open = TRUE /\ session'.busy = TRUE
        /\ session'.turns = turns
    BY <2>1, <1>5, <1>7 DEF SessionType
  <2>3. TurnShown'
    BY <2>2, <1>7 DEF TurnShown
  <2>4. kernel' \in KernelType /\ kernel'.seq = kernel.seq + 1 /\ kernel'.fragments = kernel.fragments
        /\ Record \in Nat
    BY <2>1, <1>1, RecordGoesIn
  <2>5. word \in VoiceType /\ Telling(word) /\ word.busy = TRUE /\ word.mark = kernel.fragments
    BY Words
  <2> HIDE DEF word
  <2>6. /\ mid \in [1..Connections -> ConnType]
        /\ \A d \in 1..Connections :
             /\ Same(mid[d], conns[d]) /\ mid[d].hears = conns[d].hears
             /\ IF d = c THEN mid[d].answer = <<reply>> ELSE mid[d].answer = conns[d].answer
    <3> DEFINE one == conns[c]
               new == [one EXCEPT !.answer = <<reply>>]
    <3>1. one \in ConnType /\ mid = [conns EXCEPT ![c] = new]
      BY <1>2, <1>5
    <3> HIDE DEF one, mid
    <3>2. new \in ConnType /\ Same(new, one) /\ new.answer = <<reply>> /\ new.hears = one.hears
      BY <3>1, <1>4 DEF ConnType, Same
    <3> HIDE DEF new
    <3>3. mid \in [1..Connections -> ConnType] /\ mid[c] = new
          /\ \A d \in 1..Connections : d # c => mid[d] = conns[d]
      BY <3>1, <3>2, <1>2, <1>5
    <3>4. \A d \in 1..Connections : d # c => Same(mid[d], conns[d])
      BY <3>3 DEF Same
    <3> QED BY <3>2, <3>3, <3>4 DEF one
  <2> HIDE DEF mid
  <2>7. ASSUME NEW d \in 1..Connections
        PROVE  /\ mid[d] \in ConnType /\ Shape(mid[d], links[d], kernel, TRUE)
               /\ \A cl \in Client : Online(cl) /\ clients[cl].conn = d =>
                    ClientShape(clients[cl], mid[d], links[d], kernel, TRUE)
    <3>1. /\ conns[d] \in ConnType /\ Shape(conns[d], links[d], kernel, TRUE) /\ ConnHears(conns[d])
          /\ mid[d] \in ConnType
      BY <1>5, <2>6, LoopFacts
    <3>2. /\ mid[d].at = conns[d].at /\ mid[d].client = conns[d].client /\ mid[d].last = conns[d].last
          /\ mid[d].since = conns[d].since /\ mid[d].fresh = conns[d].fresh
          /\ mid[d].events = conns[d].events /\ mid[d].lagged = conns[d].lagged
          /\ mid[d].voice = conns[d].voice /\ mid[d].deaf = conns[d].deaf /\ mid[d].hears = conns[d].hears
      BY <2>6 DEF Same
    <3>3. Shape(mid[d], links[d], kernel, TRUE)
      <4>1. CASE d = c
        <5>1. conns[d].at \in Asking1 \cup {"standing"} /\ mid[d].hears /\ mid[d].answer = <<reply>>
          BY <4>1, <1>3, <2>6, <3>1, <3>2 DEF Asking1, ConnHears
        <5>2. reply.seq <= kernel.seq /\ reply.mark <= kernel.fragments /\ AnswerFits(reply.about, conns[d].at)
          BY <4>1, <1>4, <1>8, LoopFacts
        <5> QED BY <5>1, <5>2, <3>1, <3>2, <1>4, <1>5, AnswerShape
      <4>2. CASE d # c
        BY <4>2, <2>6, <3>1, SameShape
      <4> QED BY <4>1, <4>2
    <3>4. ASSUME NEW cl \in Client, Online(cl), clients[cl].conn = d
          PROVE  ClientShape(clients[cl], mid[d], links[d], kernel, TRUE)
      <4>1. ClientShape(clients[cl], conns[d], links[d], kernel, TRUE)
        BY <3>4, <1>5, LoopFacts
      <4> QED BY <4>1, <3>2, SameClient
    <3> QED BY <3>1, <3>3, <3>4
  <2> DEFINE emitted == Emitted(mid, Record)
  <2>8. emitted = [d \in 1..Connections |-> Emits(mid[d], Record)]
    BY <2>6, EmittedFacts
  <2>9. ASSUME NEW d \in 1..Connections
        PROVE  /\ emitted[d] \in ConnType /\ Shape(emitted[d], links[d], kernel', TRUE)
               /\ emitted[d].at = conns[d].at /\ emitted[d].client = conns[d].client
               /\ d # c => emitted[d].answer = conns[d].answer
               /\ \A cl \in Client : Online(cl) /\ clients[cl].conn = d =>
                    ClientShape(clients[cl], emitted[d], links[d], kernel', TRUE)
    <3>1. emitted[d] = Emits(mid[d], Record)
      BY <2>8
    <3>2. mid[d].at = conns[d].at /\ mid[d].client = conns[d].client
          /\ (d # c => mid[d].answer = conns[d].answer)
      BY <2>6 DEF Same
    <3> DEFINE opened == session'.open
    <3>3. opened \in BOOLEAN /\ opened = TRUE
      BY <2>2
    <3> HIDE DEF opened, emitted
    <3>4. mid[d] \in ConnType /\ Shape(mid[d], links[d], kernel, TRUE)
      BY <2>7
    <3>5. /\ Emits(mid[d], Record) \in ConnType /\ Shape(Emits(mid[d], Record), links[d], kernel', opened)
          /\ Emits(mid[d], Record).at = mid[d].at /\ Emits(mid[d], Record).client = mid[d].client
          /\ Emits(mid[d], Record).answer = mid[d].answer
          /\ \A cl \in Client : ClientShape(clients[cl], mid[d], links[d], kernel, TRUE) =>
              ClientShape(clients[cl], Emits(mid[d], Record), links[d], kernel', opened)
      BY <3>3, <3>4, <2>4, <1>1, RecordKeeps
    <3> QED BY <3>1, <3>2, <3>3, <3>5, <2>7
  <2>10. emitted \in [1..Connections -> ConnType]
    BY <2>8, <2>9
  <2> HIDE DEF emitted
  <2>11. conns' = [d \in 1..Connections |-> Says(emitted[d], word)]
    BY <2>1, <2>10, SaidFacts DEF emitted
  <2>12. ASSUME NEW d \in 1..Connections
         PROVE  /\ conns'[d] \in ConnType /\ conns'[d].at = conns[d].at /\ conns'[d].client = conns[d].client
                /\ d # c => conns'[d].answer = conns[d].answer
                /\ Shape(conns'[d], links[d], kernel', session'.open)
                /\ ConnTold(conns'[d], session'.busy)
                /\ \A cl \in Client : Online(cl) /\ clients[cl].conn = d =>
                     /\ ClientShape(clients[cl], conns'[d], links[d], kernel', session'.open)
                     /\ Told(clients[cl], conns'[d], links[d], session'.busy)
    <3>1. conns'[d] = Says(emitted[d], word)
      BY <2>11
    <3>2. /\ emitted[d] \in ConnType /\ Shape(emitted[d], links[d], kernel', TRUE)
          /\ ConnHears(emitted[d]) /\ Len(emitted[d].voice) <= VoiceRoom
      BY <2>9 DEF Shape, ConnHears
    <3>3. /\ conns'[d].at = emitted[d].at /\ conns'[d].client = emitted[d].client
          /\ conns'[d].last = emitted[d].last /\ conns'[d].since = emitted[d].since
          /\ conns'[d].fresh = emitted[d].fresh /\ conns'[d].answer = emitted[d].answer
      BY <3>1, <3>2, <2>5, SaysFields
    <3>4. conns'[d] \in ConnType /\ Shape(conns'[d], links[d], kernel', TRUE)
      <4>1. Telling(word) => word.mark <= kernel'.fragments
        BY <2>4, <2>5, LoopFacts
      <4> QED BY <4>1, <3>1, <3>2, <2>4, <2>5, SaysShape
    <3> DEFINE b == session'.busy
    <3>5. b \in BOOLEAN /\ word.busy = b
      BY <2>2, <2>5
    <3> HIDE DEF b
    <3>6. ConnTold(conns'[d], b) /\ \A cl \in Client : Told(clients[cl], conns'[d], links[d], b)
      BY <3>1, <3>2, <3>5, <2>5, SaysBusy
    <3>7. \A cl \in Client : Online(cl) /\ clients[cl].conn = d =>
            ClientShape(clients[cl], conns'[d], links[d], kernel', TRUE)
      BY <3>3, <2>9, SameClient
    <3> QED BY <3>3, <3>4, <3>6, <3>7, <2>2, <2>9 DEF b
  <2>13. asks' \in Seq(AskType) /\ AsksShown'
    <3>1. session'.open = session.open
      BY <2>2, <1>5
    <3>2. \A d \in 1..Connections : /\ conns'[d].at = conns[d].at
                                    /\ d # Head(asks).from => conns'[d].answer = conns[d].answer
      BY <2>12 DEF c
    <3> QED BY <3>1, <3>2, <1>1, AsksTaken
  <2>14. conns' \in [1..Connections -> ConnType]
    BY <2>11, <2>12
  <2> QED BY <1>1, <2>2, <2>3, <2>4, <2>12, <2>13, <2>14, LoopGoesOn
<1> QED BY <1>5, <1>9, <1>10

\* A turn ends: the message that waited longest gets its turn, or the session is at rest.
LEMMA TakeOutcomeKeeps ==
  ASSUME ServingInv, TakeOutcome
  PROVE  ServingInv'
<1> DEFINE waiting == Tail(session.turns)
           ended == [session EXCEPT !.turns = waiting]
<1>1. /\ session.open /\ session.busy /\ asks' = asks /\ links' = links /\ clients' = clients
  BY DEF TakeOutcome, AtTop
<1>2. /\ conns \in [1..Connections -> ConnType] /\ session \in SessionType /\ kernel \in KernelType
      /\ session.open = TRUE /\ session.busy = TRUE
  BY <1>1, LoopFacts
<1>3. session.turns # <<>> /\ session.turns \in Seq(Client) /\ waiting \in Seq(Client)
  BY <1>1, <1>2 DEF ServingInv, TurnShown, SessionType
<1>4. CASE waiting # <<>>
  <2>1. /\ session' = ended /\ kernel' = [kernel EXCEPT !.seq = @ + 1]
        /\ conns' = Emitted(conns, Record)
    BY <1>4 DEF TakeOutcome
  <2> HIDE DEF waiting
  <2>2. /\ session' \in SessionType /\ session'.open = TRUE /\ session'.busy = TRUE
        /\ session'.turns = waiting
    BY <2>1, <1>2, <1>3 DEF SessionType
  <2>3. TurnShown'
    BY <2>2, <1>4 DEF TurnShown
  <2>4. kernel' \in KernelType /\ kernel'.seq = kernel.seq + 1 /\ kernel'.fragments = kernel.fragments
        /\ Record \in Nat
    BY <2>1, <1>1, RecordGoesIn
  <2>5. \A d \in 1..Connections : conns'[d] = Emits(conns[d], Record)
    BY <2>1, <1>2, EmittedFacts
  <2> DEFINE b == session'.busy
             opened == session'.open
  <2>6. b \in BOOLEAN /\ opened \in BOOLEAN /\ b = session.busy /\ opened = session.open
    BY <2>2, <1>2
  <2> HIDE DEF b, opened
  <2>7. ASSUME NEW d \in 1..Connections
        PROVE  /\ conns'[d] \in ConnType /\ conns'[d].at = conns[d].at /\ conns'[d].client = conns[d].client
               /\ conns'[d].answer = conns[d].answer
               /\ Shape(conns'[d], links[d], kernel', opened) /\ ConnTold(conns'[d], b)
               /\ \A cl \in Client : Online(cl) /\ clients[cl].conn = d =>
                    /\ ClientShape(clients[cl], conns'[d], links[d], kernel', opened)
                    /\ Told(clients[cl], conns'[d], links[d], b)
    <3>1. conns[d] \in ConnType /\ Shape(conns[d], links[d], kernel, TRUE) /\ ConnTold(conns[d], b)
      BY <1>1, <1>2, <2>6, LoopFacts
    <3>2. /\ Emits(conns[d], Record) \in ConnType /\ Shape(Emits(conns[d], Record), links[d], kernel', opened)
          /\ Emits(conns[d], Record).at = conns[d].at /\ Emits(conns[d], Record).client = conns[d].client
          /\ Emits(conns[d], Record).answer = conns[d].answer
          /\ ConnTold(conns[d], b) => ConnTold(Emits(conns[d], Record), b)
          /\ \A cl \in Client : ClientShape(clients[cl], conns[d], links[d], kernel, TRUE) =>
               ClientShape(clients[cl], Emits(conns[d], Record), links[d], kernel', opened)
          /\ \A cl \in Client : Told(clients[cl], conns[d], links[d], b) =>
               Told(clients[cl], Emits(conns[d], Record), links[d], b)
      <4>1. conns[d] \in ConnType /\ Shape(conns[d], links[d], kernel, TRUE)
        BY <3>1
      <4>2. /\ kernel' \in KernelType /\ opened \in BOOLEAN /\ session.open
            /\ kernel'.seq = kernel.seq + 1 /\ kernel'.fragments = kernel.fragments
        BY <2>4, <2>6, <1>1
      <4>3. /\ Emits(conns[d], Record) \in ConnType
            /\ Shape(Emits(conns[d], Record), links[d], kernel', opened)
            /\ Emits(conns[d], Record).at = conns[d].at
            /\ Emits(conns[d], Record).client = conns[d].client
            /\ Emits(conns[d], Record).answer = conns[d].answer
        BY <4>1, <4>2, RecordKeeps
      <4>4. ConnTold(conns[d], b) => ConnTold(Emits(conns[d], Record), b)
        BY <4>1, <4>2, RecordKeeps
      <4>5. ASSUME NEW cl \in Client, ClientShape(clients[cl], conns[d], links[d], kernel, TRUE)
            PROVE  ClientShape(clients[cl], Emits(conns[d], Record), links[d], kernel', opened)
        BY <4>1, <4>2, <4>5, RecordKeeps
      <4>6. b \in BOOLEAN
        BY <2>6
      <4>7. ASSUME NEW cl \in Client, Told(clients[cl], conns[d], links[d], b)
            PROVE  Told(clients[cl], Emits(conns[d], Record), links[d], b)
        BY <4>1, <4>2, <4>6, <4>7, RecordKeeps
      <4> QED BY <4>3, <4>4, <4>5, <4>7
    <3>3. \A cl \in Client : Online(cl) /\ clients[cl].conn = d =>
            /\ ClientShape(clients[cl], conns[d], links[d], kernel, TRUE)
            /\ Told(clients[cl], conns[d], links[d], b)
      BY <1>1, <1>2, <2>6, LoopFacts
    <3> QED BY <3>1, <3>2, <3>3, <2>5, <2>6
  <2>8. asks' \in Seq(AskType) /\ AsksShown'
    <3>1. session'.open = session.open
      BY <2>2, <1>2
    <3> QED BY <3>1, <1>1, <2>7, AsksKept
  <2>9. conns' \in [1..Connections -> ConnType]
    BY <2>1, <2>5, <2>7, <1>2, EmittedFacts
  <2> QED BY <1>1, <2>2, <2>3, <2>4, <2>7, <2>8, <2>9, LoopGoesOn DEF b, opened
<1>5. CASE waiting = <<>>
  <2> DEFINE word == Busy(FALSE)
             rested == Said(conns, word)
  <2>1. /\ session' = [ended EXCEPT !.busy = FALSE] /\ kernel' = kernel
        /\ conns' = rested \/ conns' = Said(rested, Model)
    <3>1. session' = [ended EXCEPT !.busy = FALSE] /\ kernel' = kernel
      BY <1>5 DEF TakeOutcome
    <3>2. conns' \in {rested, Said(rested, Model)}
      BY <1>5 DEF TakeOutcome
    <3> HIDE DEF rested, ended
    <3> QED BY <3>1, <3>2
  <2>2. word \in VoiceType /\ Telling(word) /\ word.busy = FALSE /\ word.mark = kernel.fragments
        /\ Model \in VoiceType /\ ~Telling(Model)
    BY Words
  <2> HIDE DEF waiting, word
  <2>3. /\ session' \in SessionType /\ session'.open = TRUE /\ session'.busy = FALSE
    BY <2>1, <1>2, <1>3 DEF SessionType
  <2>4. TurnShown'
    BY <2>3 DEF TurnShown
  <2> DEFINE b == session'.busy
  <2>5. b \in BOOLEAN /\ word.busy = b
    BY <2>2, <2>3
  <2> HIDE DEF b
  <2>6. ASSUME NEW d \in 1..Connections
        PROVE  /\ conns[d] \in ConnType /\ Shape(conns[d], links[d], kernel, TRUE)
               /\ ConnHears(conns[d]) /\ Len(conns[d].voice) <= VoiceRoom
               /\ \A cl \in Client : Online(cl) /\ clients[cl].conn = d =>
                    ClientShape(clients[cl], conns[d], links[d], kernel, TRUE)
    BY <1>1, <1>2, LoopFacts DEF ConnHears
  <2>7. rested = [d \in 1..Connections |-> Says(conns[d], word)]
    BY <1>2, SaidFacts
  <2>8. ASSUME NEW d \in 1..Connections
        PROVE  /\ rested[d] \in ConnType /\ rested[d].at = conns[d].at /\ rested[d].client = conns[d].client
               /\ rested[d].answer = conns[d].answer
               /\ Shape(rested[d], links[d], kernel, TRUE) /\ ConnTold(rested[d], b)
               /\ \A cl \in Client : Online(cl) /\ clients[cl].conn = d =>
                    /\ ClientShape(clients[cl], rested[d], links[d], kernel, TRUE)
                    /\ Told(clients[cl], rested[d], links[d], b)
    <3>1. rested[d] = Says(conns[d], word)
      BY <2>7
    <3> HIDE DEF rested
    <3>2. /\ conns[d] \in ConnType /\ Shape(conns[d], links[d], kernel, TRUE)
          /\ ConnHears(conns[d]) /\ Len(conns[d].voice) <= VoiceRoom
      BY <2>6
    <3>3. /\ rested[d].at = conns[d].at /\ rested[d].client = conns[d].client
          /\ rested[d].last = conns[d].last /\ rested[d].since = conns[d].since
          /\ rested[d].fresh = conns[d].fresh /\ rested[d].answer = conns[d].answer
      BY <3>1, <3>2, <2>2, SaysFields
    <3>4. rested[d] \in ConnType /\ Shape(rested[d], links[d], kernel, TRUE)
      <4>1. Telling(word) => word.mark <= kernel.fragments
        BY <2>2, LoopFacts
      <4>2. word \in VoiceType /\ kernel \in KernelType
        BY <1>2, <2>2
      <4> QED BY <4>1, <4>2, <3>1, <3>2, SaysShape
    <3>5. ConnTold(rested[d], b) /\ \A cl \in Client : Told(clients[cl], rested[d], links[d], b)
      BY <3>1, <3>2, <2>2, <2>5, SaysBusy
    <3>6. \A cl \in Client : Online(cl) /\ clients[cl].conn = d =>
            ClientShape(clients[cl], rested[d], links[d], kernel, TRUE)
      BY <3>3, <2>6, SameClient
    <3> QED BY <3>3, <3>4, <3>5, <3>6
  <2>9. rested \in [1..Connections -> ConnType]
    BY <2>7, <2>8
  <2> HIDE DEF rested
  <2> DEFINE switched == Said(rested, Model)
  <2>10. switched = [d \in 1..Connections |-> Says(rested[d], Model)]
    BY <2>9, SaidFacts
  <2>11. ASSUME NEW d \in 1..Connections
         PROVE  /\ switched[d] \in ConnType /\ switched[d].at = conns[d].at
                /\ switched[d].client = conns[d].client
                /\ switched[d].answer = conns[d].answer
                /\ Shape(switched[d], links[d], kernel, TRUE) /\ ConnTold(switched[d], b)
                /\ \A cl \in Client : Online(cl) /\ clients[cl].conn = d =>
                     /\ ClientShape(clients[cl], switched[d], links[d], kernel, TRUE)
                     /\ Told(clients[cl], switched[d], links[d], b)
    <3>1. switched[d] = Says(rested[d], Model)
      BY <2>10
    <3> HIDE DEF switched
    <3>2. /\ rested[d] \in ConnType /\ Shape(rested[d], links[d], kernel, TRUE)
          /\ ConnHears(rested[d]) /\ Len(rested[d].voice) <= VoiceRoom /\ ConnTold(rested[d], b)
      BY <2>8 DEF Shape, ConnHears
    <3>3. /\ switched[d].at = rested[d].at /\ switched[d].client = rested[d].client
          /\ switched[d].last = rested[d].last /\ switched[d].since = rested[d].since
          /\ switched[d].fresh = rested[d].fresh /\ switched[d].answer = rested[d].answer
      BY <3>1, <3>2, <2>2, SaysFields
    <3>4. switched[d] \in ConnType /\ Shape(switched[d], links[d], kernel, TRUE)
      <4>1. ~Telling(Model) /\ Model \in VoiceType /\ kernel \in KernelType
        BY <1>2, <2>2 DEF Model, Telling, VoiceType
      <4> HIDE DEF rested
      <4> QED BY <4>1, <3>1, <3>2, SaysShape
    <3>5. /\ ConnTold(switched[d], b)
          /\ \A cl \in Client : Told(clients[cl], rested[d], links[d], b)
               => Told(clients[cl], switched[d], links[d], b)
      BY <3>1, <3>2, <2>2, <2>5, SaysModel
    <3>6. \A cl \in Client : Online(cl) /\ clients[cl].conn = d =>
            ClientShape(clients[cl], switched[d], links[d], kernel, TRUE)
      BY <3>3, <2>8, SameClient
    <3> QED BY <3>3, <3>4, <3>5, <3>6, <2>8
  <2>12. switched \in [1..Connections -> ConnType]
    BY <2>10, <2>11
  <2> HIDE DEF switched
  <2>13. /\ conns' \in [1..Connections -> ConnType]
         /\ \A d \in 1..Connections :
              /\ conns'[d].at = conns[d].at /\ conns'[d].client = conns[d].client
              /\ conns'[d].answer = conns[d].answer
              /\ Shape(conns'[d], links[d], kernel, TRUE) /\ ConnTold(conns'[d], b)
              /\ \A cl \in Client : Online(cl) /\ clients[cl].conn = d =>
                   /\ ClientShape(clients[cl], conns'[d], links[d], kernel, TRUE)
                   /\ Told(clients[cl], conns'[d], links[d], b)
    <3>1. CASE conns' = rested
      BY <3>1, <2>8, <2>9
    <3>2. CASE conns' = switched
      BY <3>2, <2>11, <2>12
    <3> QED BY <3>1, <3>2, <2>1 DEF switched
  <2>14. asks' \in Seq(AskType) /\ AsksShown'
    <3>1. session'.open = session.open
      BY <2>3, <1>2
    <3> QED BY <3>1, <1>1, <2>13, AsksKept
  <2>15. session'.open = TRUE /\ session.open = TRUE /\ kernel' = kernel /\ kernel' \in KernelType
    BY <2>1, <2>3, <1>2
  <2> QED BY <1>1, <2>3, <2>4, <2>13, <2>14, <2>15, LoopGoesOn DEF b
<1> QED BY <1>4, <1>5

\* The session ends.
LEMMA EndKeeps ==
  ASSUME ServingInv, End
  PROVE  ServingInv'
<1>1. /\ session.open /\ links' = links /\ clients' = clients /\ asks' = <<>>
      /\ session' = [session EXCEPT !.open = FALSE, !.busy = FALSE, !.turns = <<>>]
      /\ kernel' = [kernel EXCEPT !.seq = @ + 1] /\ conns' = Emitted(conns, Record)
  BY DEF End
<1>2. /\ conns \in [1..Connections -> ConnType] /\ session \in SessionType /\ kernel \in KernelType
      /\ session.open = TRUE
  BY <1>1, LoopFacts
<1>3. session' \in SessionType /\ session'.open = FALSE /\ session'.busy = FALSE
  <2>1. <<>> \in Seq(Client)
    OBVIOUS
  <2> QED BY <2>1, <1>1, <1>2 DEF SessionType
<1>4. TurnShown'
  BY <1>3 DEF TurnShown
<1>5. kernel' \in KernelType /\ kernel'.seq = kernel.seq + 1 /\ kernel'.fragments = kernel.fragments
  BY <1>1, RecordGoesIn
<1>6. \A d \in 1..Connections : conns'[d] = Emits(conns[d], Record)
  BY <1>1, <1>2, EmittedFacts
<1> DEFINE opened == session'.open
<1>7. opened \in BOOLEAN /\ ~opened
  BY <1>3
<1> HIDE DEF opened
<1>8. ASSUME NEW d \in 1..Connections
      PROVE  /\ conns'[d] \in ConnType /\ conns'[d].at = conns[d].at /\ conns'[d].client = conns[d].client
             /\ Shape(conns'[d], links[d], kernel', opened)
             /\ \A cl \in Client : Online(cl) /\ clients[cl].conn = d =>
                  ClientShape(clients[cl], conns'[d], links[d], kernel', opened)
  <2>1. conns[d] \in ConnType /\ Shape(conns[d], links[d], kernel, TRUE)
    BY <1>1, <1>2, LoopFacts
  <2>2. /\ Emits(conns[d], Record) \in ConnType /\ Shape(Emits(conns[d], Record), links[d], kernel', opened)
        /\ Emits(conns[d], Record).at = conns[d].at /\ Emits(conns[d], Record).client = conns[d].client
        /\ \A cl \in Client : ClientShape(clients[cl], conns[d], links[d], kernel, TRUE) =>
             ClientShape(clients[cl], Emits(conns[d], Record), links[d], kernel', opened)
    BY <2>1, <1>1, <1>5, <1>7, RecordKeeps
  <2>3. \A cl \in Client : Online(cl) /\ clients[cl].conn = d =>
          ClientShape(clients[cl], conns[d], links[d], kernel, TRUE)
    BY <1>1, <1>2, LoopFacts
  <2> QED BY <2>1, <2>2, <2>3, <1>6
<1>9. asks' \in Seq(AskType) /\ AsksShown'
  <2>1. asks' = <<>> /\ <<>> \in Seq(AskType)
    BY <1>1
  <2> QED BY <2>1 DEF AsksShown
<1>10. conns' \in [1..Connections -> ConnType]
  BY <1>1, <1>2, <1>6, <1>8, EmittedFacts
<1> QED BY <1>1, <1>3, <1>4, <1>5, <1>7, <1>8, <1>9, <1>10, LoopGoesOn DEF opened

---------------------------------------------------------------------------
(* The steps of a client.                                                  *)

\* What a frame does to a client.
Settles(frame) == frame.kind \in {"attached", "answer", "failed"}

\* What a client notes of a frame.
LEMMA HeardFacts ==
  ASSUME NEW client \in ClientType, NEW frame \in Frame
  PROVE  /\ Heard(client, frame) \in ClientType
         /\ Heard(client, frame).at = client.at /\ Heard(client, frame).conn = client.conn
         /\ Heard(client, frame).detaching = client.detaching
         /\ Heard(client, frame).last = Further(frame, client.last)
         /\ Heard(client, frame).busy = IF Telling(frame) THEN frame.busy ELSE client.busy
         /\ frame.kind # "attached" => Heard(client, frame).knows = client.knows
         /\ Heard(client, frame).out = IF Settles(frame) /\ client.out > 0 THEN client.out - 1 ELSE client.out
         /\ client.over => Heard(client, frame).over
         /\ frame.kind = "record" /\ ~session.open /\ frame.seq = kernel.seq => Heard(client, frame).over
<1> DEFINE owing == Owing(client)
<1>1. /\ owing \in ClientType /\ owing.at = client.at /\ owing.conn = client.conn
      /\ owing.detaching = client.detaching /\ owing.last = client.last /\ owing.busy = client.busy
      /\ owing.knows = client.knows /\ owing.over = client.over
      /\ owing.out = IF client.out > 0 THEN client.out - 1 ELSE client.out
  BY DEF Owing, ClientType
<1> HIDE DEF owing
<1>2. CASE frame.kind = "record"
  <2> DEFINE over == client.over \/ (~session.open /\ frame.seq = kernel.seq)
             seq == frame.seq
             new == [client EXCEPT !.last = seq, !.written = seq, !.over = over]
  <2>1. Heard(client, frame) = new
    BY <1>2 DEF Heard
  <2>2. seq \in Nat /\ over \in BOOLEAN
    BY <1>2, FrameFacts DEF Bearing, ClientType
  <2>3. seq = Further(frame, client.last) /\ ~Telling(frame) /\ ~Settles(frame)
        /\ (client.over => over) /\ (~session.open /\ frame.seq = kernel.seq => over)
    BY <1>2 DEF Further, Bearing, Telling, Settles
  <2> HIDE DEF over, seq
  <2>4. /\ new \in ClientType /\ new.at = client.at /\ new.conn = client.conn
        /\ new.detaching = client.detaching /\ new.last = seq /\ new.busy = client.busy
        /\ new.knows = client.knows /\ new.over = over /\ new.out = client.out
    BY <2>2 DEF ClientType
  <2> HIDE DEF new
  <2> QED BY <2>1, <2>3, <2>4, <1>2
<1>3. CASE frame.kind = "attached"
  <2> DEFINE seq == frame.seq
             busy == frame.busy
             new == [owing EXCEPT !.last = seq, !.knows = TRUE, !.busy = busy]
  <2>1. Heard(client, frame) = new
    BY <1>3 DEF Heard, owing
  <2>2. seq \in Nat /\ busy \in BOOLEAN
    BY <1>3, FrameFacts DEF Bearing, Telling
  <2>3. seq = Further(frame, client.last) /\ Telling(frame) /\ Settles(frame)
    BY <1>3 DEF Further, Bearing, Telling, Settles
  <2> HIDE DEF seq
  <2>4. /\ new \in ClientType /\ new.at = client.at /\ new.conn = client.conn
        /\ new.detaching = client.detaching /\ new.last = seq /\ new.busy = frame.busy
        /\ new.over = client.over /\ new.out = owing.out
    BY <1>1, <2>2 DEF ClientType
  <2> HIDE DEF new
  <2> QED BY <2>1, <2>3, <2>4, <1>1, <1>3
<1>4. CASE frame.kind = "answer"
  <2> DEFINE busy == frame.busy
             new == [owing EXCEPT !.busy = busy]
  <2>1. Heard(client, frame) = new
    BY <1>4 DEF Heard, owing
  <2>2. busy \in BOOLEAN
    BY <1>4, FrameFacts DEF Telling
  <2>3. client.last = Further(frame, client.last) /\ Telling(frame) /\ Settles(frame)
    BY <1>4 DEF Further, Bearing, Telling, Settles
  <2>4. /\ new \in ClientType /\ new.at = client.at /\ new.conn = client.conn
        /\ new.detaching = client.detaching /\ new.last = client.last /\ new.busy = frame.busy
        /\ new.over = client.over /\ new.out = owing.out /\ new.knows = client.knows
    BY <1>1, <2>2 DEF ClientType
  <2> HIDE DEF new
  <2> QED BY <2>1, <2>3, <2>4, <1>1, <1>4
<1>5. CASE frame.kind = "busy"
  <2> DEFINE busy == frame.busy
             new == [client EXCEPT !.busy = busy]
  <2>1. Heard(client, frame) = new
    BY <1>5 DEF Heard
  <2>2. busy \in BOOLEAN
    BY <1>5, FrameFacts DEF Telling
  <2>3. client.last = Further(frame, client.last) /\ Telling(frame) /\ ~Settles(frame)
    BY <1>5 DEF Further, Bearing, Telling, Settles
  <2>4. /\ new \in ClientType /\ new.at = client.at /\ new.conn = client.conn
        /\ new.detaching = client.detaching /\ new.last = client.last /\ new.busy = frame.busy
        /\ new.over = client.over /\ new.out = client.out /\ new.knows = client.knows
    BY <2>2 DEF ClientType
  <2> HIDE DEF new
  <2> QED BY <2>1, <2>3, <2>4, <1>5
<1>6. CASE frame.kind = "failed"
  <2>1. Heard(client, frame) = owing
    BY <1>6 DEF Heard, owing
  <2>2. client.last = Further(frame, client.last) /\ ~Telling(frame) /\ Settles(frame)
    BY <1>6 DEF Further, Bearing, Telling, Settles
  <2> QED BY <2>1, <2>2, <1>1, <1>6
<1>7. CASE frame.kind \notin {"record", "attached", "answer", "busy", "failed"}
  <2>1. Heard(client, frame) = client
    BY <1>7 DEF Heard
  <2>2. client.last = Further(frame, client.last) /\ ~Telling(frame) /\ ~Settles(frame)
    BY <1>7 DEF Further, Bearing, Telling, Settles
  <2> QED BY <2>1, <2>2, <1>7
<1> QED BY <1>2, <1>3, <1>4, <1>5, <1>6, <1>7

\* What a client that is on has, and its connection.
LEMMA OnlineFacts ==
  ASSUME ServingInv, NEW cl \in Client, Online(cl), NEW c, c = clients[cl].conn
  PROVE  /\ c \in 1..Connections /\ conns[c] \in ConnType /\ links[c] \in LinkType
         /\ clients \in [Client -> ClientType] /\ links \in [1..Connections -> LinkType]
         /\ clients[cl] \in ClientType /\ clients[cl].at = "on"
         /\ conns[c].client = cl /\ conns[c].at # "unborn"
         /\ kernel.seq \in Nat /\ session.open \in BOOLEAN /\ session.busy \in BOOLEAN
         /\ clients[cl].last \in Nat /\ clients[cl].last <= kernel.seq
         /\ ~session.open /\ clients[cl].last = kernel.seq => clients[cl].over
         /\ ConnInv(conns[c], links[c], kernel, session)
         /\ ClientInv(clients[cl], conns[c], links[c], kernel, session)
         /\ links[c].frames \in Seq(Frame) /\ links[c].commands \in Seq(CommandType)
         /\ kernel \in KernelType /\ session \in SessionType
<1>1. c \in 1..Connections /\ conns[c].client = cl /\ conns[c].at # "unborn" /\ clients[cl].at = "on"
  BY DEF ServingInv, Attended, Online
<1>2. /\ conns[c] \in ConnType /\ links[c] \in LinkType
      /\ clients \in [Client -> ClientType] /\ links \in [1..Connections -> LinkType]
      /\ clients[cl] \in ClientType
      /\ kernel.seq \in Nat /\ session.open \in BOOLEAN /\ session.busy \in BOOLEAN
  BY <1>1 DEF ServingInv, ServingTypes
<1>3. clients[cl].last \in Nat /\ links[c].frames \in Seq(Frame) /\ links[c].commands \in Seq(CommandType)
  BY <1>2 DEF ClientType, LinkType
<1>4. /\ clients[cl].last <= kernel.seq
      /\ ~session.open /\ clients[cl].last = kernel.seq => clients[cl].over
  BY DEF ServingInv, ClientsShown
<1>5. /\ ConnInv(conns[c], links[c], kernel, session)
      /\ ClientInv(clients[cl], conns[c], links[c], kernel, session)
  BY <1>1 DEF ServingInv
<1> QED BY <1>1, <1>2, <1>3, <1>4, <1>5, LoopFacts

\* A link that holds no more than it held.
LEMMA LessOnTheWay ==
  ASSUME NEW conn \in ConnType, NEW had \in LinkType, NEW link \in LinkType, NEW k \in KernelType,
         NEW s \in SessionType, ConnInv(conn, had, k, s), conn.at # "unborn",
         \A i \in DOMAIN link.frames : \E j \in DOMAIN had.frames : link.frames[i] = had.frames[j],
         link.frames # <<>> => had.frames # <<>>,
         \A i \in DOMAIN link.commands :
           i \in DOMAIN had.commands /\ link.commands[i] = had.commands[i],
         link.commands # <<>> => had.commands # <<>> /\ Head(link.commands) = Head(had.commands),
         link.commands = <<>> => ~link.up \/ (had.commands = <<>> /\ had.up) \/ conn.at # "new"
  PROVE  ConnInv(conn, link, k, s)
<1>1. ConnPlaced(conn, had) /\ ConnFollows(conn, had, k, s.open) /\ ConnMarked(conn, had, k.fragments)
      /\ ConnHears(conn) /\ (s.open => ConnTold(conn, s.busy))
  BY DEF ConnInv
<1>2. ConnPlaced(conn, link)
  BY <1>1 DEF ConnPlaced
<1>3. ConnFollows(conn, link, k, s.open)
  <2>1. \A i \in DOMAIN link.commands : CommandFits(conn, i, link.commands[i], k)
    BY <1>1 DEF ConnFollows
  <2>2. \A i \in DOMAIN link.frames :
          /\ Bearing(link.frames[i]) => link.frames[i].seq <= k.seq
          /\ link.frames[i].kind = "attached" /\ ~s.open => link.frames[i].seq < k.seq
    BY <1>1 DEF ConnFollows
  <2> QED BY <2>1, <2>2, <1>1 DEF ConnFollows
<1>4. ConnMarked(conn, link, k.fragments)
  BY <1>1 DEF ConnMarked
<1> QED BY <1>1, <1>2, <1>3, <1>4 DEF ConnInv

\* A client that has read a frame stands as well as it did.
LEMMA ReadsOn ==
  ASSUME ServingInv, NEW conn \in ConnType, NEW was \in LinkType, NEW link \in LinkType,
         NEW had \in ClientType, was.frames # <<>>, NEW client,
         client = Heard(had, Head(was.frames)),
         link.frames = Tail(was.frames), link.up = was.up, link.commands = was.commands,
         conn.at \notin {"new", "attaching"}, ClientInv(had, conn, was, kernel, session),
         ~IsReplaced(Head(was.frames))
  PROVE  ClientInv(client, conn, link, kernel, session)
<1> DEFINE f == was.frames
<1>1. /\ f \in Seq(Frame) /\ f # <<>> /\ f[1] \in Frame /\ Head(f) = f[1]
      /\ Len(was.commands) \in Nat /\ had.out \in Nat
  <2>1. f \in Seq(Frame) /\ f # <<>> /\ Len(was.commands) \in Nat /\ had.out \in Nat
    BY DEF LinkType, ClientType
  <2> QED BY <2>1, Behind
<1>2. client = Heard(had, f[1])
  BY <1>1
<1>3. /\ client.detaching = had.detaching /\ client.last = Further(f[1], had.last)
      /\ client.busy = IF Telling(f[1]) THEN f[1].busy ELSE had.busy
      /\ f[1].kind # "attached" => client.knows = had.knows
      /\ client.out = IF Settles(f[1]) /\ had.out > 0 THEN had.out - 1 ELSE had.out
  <2> DEFINE e == f[1]
  <2>1. client = Heard(had, e) /\ e \in Frame
    BY <1>1, <1>2
  <2> HIDE DEF e
  <2>2. /\ Heard(had, e).detaching = had.detaching /\ Heard(had, e).last = Further(e, had.last)
        /\ Heard(had, e).busy = IF Telling(e) THEN e.busy ELSE had.busy
        /\ e.kind # "attached" => Heard(had, e).knows = had.knows
        /\ Heard(had, e).out = IF Settles(e) /\ had.out > 0 THEN had.out - 1 ELSE had.out
    BY <2>1, HeardFacts
  <2> QED BY <2>1, <2>2 DEF e
<1>4. link.frames = Tail(f) /\ ~IsReplaced(f[1])
  BY <1>1
<1> HIDE DEF f
<1> DEFINE g == Tail(f)
<1>5. /\ g \in Seq(Frame) /\ f[1] \in Frame /\ 1 \in DOMAIN f
      /\ \A i \in DOMAIN g : i + 1 \in DOMAIN f /\ g[i] = f[i + 1]
      /\ \A i \in DOMAIN f : i = 1 \/ i - 1 \in DOMAIN g
  BY <1>1, Behind
<1>6. /\ Counted(had, conn, was) /\ Follows(had, conn, was, kernel, session.open)
      /\ (session.open => Told(had, conn, was, session.busy))
  BY DEF ClientInv
<1>7. AnswersIn(f) = AnswersIn(g) + (IF Settles(f[1]) THEN 1 ELSE 0)
  BY <1>1, AnswersTail DEF Settles
<1>8. AnswersIn(f) \in Nat /\ AnswersIn(g) \in Nat
  BY <1>1, <1>5, AnswersCount
<1>9. Leads(f, had.last, conn.last) => Leads(g, client.last, conn.last)
  BY <1>1, <1>3, LeadsTail
<1>10. Leads(f, had.last, kernel.seq) => Leads(g, client.last, kernel.seq)
  BY <1>1, <1>3, LeadsTail
<1>11. InTurn(f, had.last) => InTurn(g, client.last)
  BY <1>1, <1>3, InTurnTail
<1>12. Leaves(f, had.busy, session.busy) => Leaves(g, client.busy, session.busy)
  <2> DEFINE x == IF Telling(f[1]) THEN f[1].busy ELSE had.busy
  <2>1. Leaves(f, had.busy, session.busy) => Leaves(Tail(f), x, session.busy)
    BY <1>1, LeavesTail
  <2>2. client.busy = x
    BY <1>3
  <2> QED BY <2>1, <2>2
<1>13. Counted(client, conn, link)
  <2> DEFINE n == AnswersIn(f)
             m == AnswersIn(g)
             l == Len(was.commands)
             w == IF conn.at \in Asking1 THEN 1 ELSE 0
             d == IF Settles(f[1]) THEN 1 ELSE 0
  <2>1. w \in Nat /\ n = m + d /\ n \in Nat /\ m \in Nat /\ l \in Nat
    BY <1>7, <1>8, <1>1
  <2>2. was.up /\ conn.at # "closed" => had.out = l + n + w
    BY <1>6 DEF Counted, AnswersIn, f
  <2>3. d = 0 \/ d = 1
    OBVIOUS
  <2>4. client.out = IF d = 1 /\ had.out > 0 THEN had.out - 1 ELSE had.out
    <3>1. d = 1 <=> Settles(f[1])
      OBVIOUS
    <3> HIDE DEF d
    <3> QED BY <3>1, <1>3
  <2> HIDE DEF n, m, l, w, d
  <2>5. was.up /\ conn.at # "closed" => client.out = l + m + w
    <3>1. had.out \in Nat
      BY <1>1
    <3> QED BY <3>1, <2>1, <2>2, <2>3, <2>4
  <2> QED BY <2>5, <1>4 DEF Counted, l, m, w, AnswersIn
<1> HIDE DEF g
<1>14. link.frames = g
  BY <1>4 DEF g
<1>15. ~client.detaching => InTurn(link.frames, client.last)
  BY <1>6, <1>11, <1>14, <1>3 DEF Follows, f
<1>16. link.up /\ conn.at \in Going => Leads(link.frames, client.last, conn.last)
  BY <1>6, <1>9, <1>14 DEF Follows, f
<1>17. ASSUME NEW i \in DOMAIN f, IsReplaced(f[i])
       PROVE  \E j \in DOMAIN g : IsReplaced(g[j])
  <2>1. i # 1 /\ i \in Nat
    BY <1>17, <1>1, <1>4, Ordered
  <2>2. i - 1 \in DOMAIN g /\ (i - 1) + 1 = i
    BY <2>1, <1>5
  <2>3. g[i - 1] = f[i]
    BY <2>2, <1>5
  <2> QED BY <2>2, <2>3, <1>17
<1>18. ASSUME ~had.knows, \A i \in DOMAIN f : f[i].kind # "attached"
       PROVE  ~client.knows /\ \A i \in DOMAIN g : g[i].kind # "attached"
  <2>1. f[1].kind # "attached"
    BY <1>5, <1>18
  <2>2. ~client.knows
    BY <2>1, <1>18, <1>3
  <2>3. \A i \in DOMAIN g : g[i].kind # "attached"
    BY <1>5, <1>18
  <2> QED BY <2>2, <2>3
<1>19. link.up /\ conn.at = "closed" =>
             \/ \E i \in DOMAIN link.frames : IsReplaced(link.frames[i])
             \/ ~session.open /\ Leads(link.frames, client.last, kernel.seq)
             \/ ~client.knows /\ \A i \in DOMAIN link.frames : link.frames[i].kind # "attached"
  <2> SUFFICES ASSUME was.up, conn.at = "closed"
               PROVE  \/ \E i \in DOMAIN g : IsReplaced(g[i])
                      \/ ~session.open /\ Leads(g, client.last, kernel.seq)
                      \/ ~client.knows /\ \A i \in DOMAIN g : g[i].kind # "attached"
    BY <1>14
  <2>1. \/ \E i \in DOMAIN f : IsReplaced(f[i])
        \/ ~session.open /\ Leads(f, had.last, kernel.seq)
        \/ ~had.knows /\ \A i \in DOMAIN f : f[i].kind # "attached"
    BY <1>6 DEF Follows, f
  <2> QED BY <2>1, <1>10, <1>17, <1>18
<1>20. Follows(client, conn, link, kernel, session.open)
  <2>1. /\ conn.at = "reattaching" => client.detaching
        /\ \A i \in DOMAIN link.commands :
             link.commands[i].kind = "attach" /\ ~(conn.at = "new" /\ i = 1) => client.detaching
    BY <1>6, <1>3 DEF Follows
  <2> QED BY <2>1, <1>15, <1>16, <1>19 DEF Follows
<1>21. session.open => Told(client, conn, link, session.busy)
  BY <1>6, <1>12, <1>14, SMTT(30) DEF Told, f
<1> QED BY <1>13, <1>20, <1>21 DEF ClientInv

\* A client reads a frame, and goes on.
LEMMA FrameRead ==
  ASSUME ServingInv, NEW cl \in Client, Online(cl), NEW c, c = clients[cl].conn,
         links[c].frames # <<>>, NEW link, link = [links[c] EXCEPT !.frames = Tail(@)],
         NEW client, client = Heard(clients[cl], Head(links[c].frames))
  PROVE  /\ link \in LinkType /\ link.up = links[c].up /\ link.commands = links[c].commands
         /\ link.frames = Tail(links[c].frames)
         /\ client \in ClientType /\ client.at = "on" /\ client.conn = c
         /\ client.last \in Nat /\ client.last <= kernel.seq
         /\ ~session.open /\ client.last = kernel.seq => client.over
         /\ ConnInv(conns[c], link, kernel, session)
         /\ conns[c].at \notin {"new", "attaching"}
         /\ ~Ends(clients[cl], Head(links[c].frames)) => ClientInv(client, conns[c], link, kernel, session)
<1> DEFINE f == links[c].frames
           frame == Head(f)
           had == clients[cl]
           conn == conns[c]
           open == session.open
<1>1. /\ c \in 1..Connections /\ conn \in ConnType /\ links[c] \in LinkType
      /\ had \in ClientType /\ had.at = "on" /\ had.conn = c /\ conn.at # "unborn"
      /\ kernel.seq \in Nat /\ had.last \in Nat /\ had.last <= kernel.seq
      /\ ~open /\ had.last = kernel.seq => had.over
      /\ ConnInv(conn, links[c], kernel, session)
      /\ ClientInv(had, conn, links[c], kernel, session)
      /\ f \in Seq(Frame) /\ kernel \in KernelType /\ session \in SessionType
  BY OnlineFacts
<1>2. /\ Tail(f) \in Seq(Frame) /\ Len(Tail(f)) = Len(f) - 1 /\ frame = f[1] /\ f[1] \in Frame /\ 1 \in DOMAIN f
      /\ \A i \in DOMAIN Tail(f) : i + 1 \in DOMAIN f /\ Tail(f)[i] = f[i + 1]
      /\ \A i \in DOMAIN f : i = 1 \/ i - 1 \in DOMAIN Tail(f)
      /\ f # <<>>
  BY <1>1, Behind, SMTT(30)
<1>3. /\ client \in ClientType /\ client.at = "on" /\ client.conn = c
      /\ client.detaching = had.detaching
      /\ client.last = Further(frame, had.last)
      /\ client.busy = IF Telling(frame) THEN frame.busy ELSE had.busy
      /\ frame.kind # "attached" => client.knows = had.knows
      /\ client.out = IF Settles(frame) /\ had.out > 0 THEN had.out - 1 ELSE had.out
      /\ had.over => client.over
      /\ frame.kind = "record" /\ ~open /\ frame.seq = kernel.seq => client.over
  <2>1. client = Heard(had, frame) /\ had \in ClientType /\ frame \in Frame
    BY <1>1, <1>2
  <2> HIDE DEF had, frame
  <2>2. /\ Heard(had, frame) \in ClientType
        /\ Heard(had, frame).at = had.at /\ Heard(had, frame).conn = had.conn
        /\ Heard(had, frame).detaching = had.detaching
        /\ Heard(had, frame).last = Further(frame, had.last)
        /\ Heard(had, frame).busy = IF Telling(frame) THEN frame.busy ELSE had.busy
        /\ frame.kind # "attached" => Heard(had, frame).knows = had.knows
        /\ Heard(had, frame).out = IF Settles(frame) /\ had.out > 0 THEN had.out - 1 ELSE had.out
        /\ had.over => Heard(had, frame).over
        /\ frame.kind = "record" /\ ~session.open /\ frame.seq = kernel.seq => Heard(had, frame).over
    BY <2>1, HeardFacts
  <2> QED BY <2>1, <2>2, <1>1
<1>4. /\ ConnPlaced(conn, links[c]) /\ ConnFollows(conn, links[c], kernel, open)
      /\ Counted(had, conn, links[c]) /\ Follows(had, conn, links[c], kernel, open)
      /\ (open => Told(had, conn, links[c], session.busy))
  BY <1>1 DEF ConnInv, ClientInv
<1>5. link \in LinkType /\ link.up = links[c].up /\ link.commands = links[c].commands
      /\ link.frames = Tail(f)
  <2> DEFINE rest == Tail(f)
             one == links[c]
  <2>1. rest \in Seq(Frame) /\ link = [one EXCEPT !.frames = rest] /\ one \in LinkType
    BY <1>1, <1>2
  <2> HIDE DEF rest, one
  <2>2. link \in LinkType /\ link.up = one.up /\ link.commands = one.commands /\ link.frames = rest
    BY <2>1 DEF LinkType
  <2> QED BY <2>2 DEF rest, one
<1>6. conn.at \notin {"new", "attaching"}
  BY <1>4 DEF ConnPlaced
<1>7. /\ client.last \in Nat /\ client.last <= kernel.seq
      /\ ~open /\ client.last = kernel.seq => client.over
  <2>1. CASE Bearing(frame)
    <3>1. frame.seq \in Nat /\ frame.seq <= kernel.seq
          /\ (frame.kind = "attached" /\ ~open => frame.seq < kernel.seq)
      BY <2>1, <1>2, <1>4, FrameFacts, ZenonT(60) DEF ConnFollows
    <3>2. client.last = frame.seq
      BY <2>1, <1>3 DEF Further
    <3>3. frame.kind = "record" \/ frame.kind = "attached"
      BY <2>1 DEF Bearing
    <3>4. frame.kind = "attached" /\ ~open => frame.seq # kernel.seq
      <4>1. kernel.seq \in Nat
        BY <1>1, SMTT(30)
      <4> HIDE DEF frame, open
      <4> QED BY <4>1, <3>1
    <3> HIDE DEF frame, open
    <3> QED BY <3>1, <3>2, <3>3, <3>4, <1>3, ZenonT(60)
  <2>2. CASE ~Bearing(frame)
    <3>1. client.last = had.last
      BY <2>2, <1>3 DEF Further
    <3> QED BY <3>1, <1>1, <1>3
  <2> QED BY <2>1, <2>2, SMTT(30)
<1>8. ConnInv(conn, link, kernel, session)
  <2> DEFINE was == links[c]
  <2>1. \A i \in DOMAIN link.frames : \E j \in DOMAIN was.frames : link.frames[i] = was.frames[j]
    <3> DEFINE g == Tail(f)
    <3>1. link.frames = g /\ was.frames = f
      BY <1>5
    <3>2. \A i \in DOMAIN g : i + 1 \in DOMAIN f /\ g[i] = f[i + 1]
      BY <1>2, SMTT(30)
    <3> HIDE DEF f, g, was
    <3> QED BY <3>1, <3>2
  <2>2. /\ link.frames # <<>> => was.frames # <<>>
        /\ \A i \in DOMAIN link.commands : i \in DOMAIN was.commands /\ link.commands[i] = was.commands[i]
        /\ link.commands # <<>> => was.commands # <<>> /\ Head(link.commands) = Head(was.commands)
        /\ link.commands = <<>> => ~link.up \/ (was.commands = <<>> /\ was.up) \/ conn.at # "new"
    BY <1>2, <1>5, <1>6
  <2>3. ConnInv(conn, was, kernel, session) /\ conn.at # "unborn" /\ conn.at # "new"
    BY <1>1, <1>6
  <2>4. /\ was \in LinkType /\ link \in LinkType /\ conn \in ConnType
        /\ kernel \in KernelType /\ session \in SessionType
    BY <1>1, <1>5
  <2> HIDE DEF was, conn
  <2> QED BY <2>1, <2>2, <2>3, <2>4, LessOnTheWay
<1>9. ASSUME ~Ends(had, frame) PROVE ClientInv(client, conn, link, kernel, session)
  <2> DEFINE was == links[c]
  <2>1. ~IsReplaced(Head(was.frames)) /\ was.frames # <<>>
    BY <1>9 DEF Ends, IsReplaced
  <2>2. /\ client = Heard(had, Head(was.frames)) /\ link.frames = Tail(was.frames)
        /\ link.up = was.up /\ link.commands = was.commands
    BY <1>5
  <2>3. ClientInv(had, conn, was, kernel, session) /\ conn.at \notin {"new", "attaching"}
    BY <1>1, <1>6
  <2>4. /\ was \in LinkType /\ link \in LinkType /\ conn \in ConnType /\ had \in ClientType
    BY <1>1, <1>5
  <2> HIDE DEF was, conn, had, f, frame, open
  <2> QED BY <2>1, <2>2, <2>3, <2>4, ReadsOn
<1> QED BY <1>1, <1>3, <1>5, <1>6, <1>7, <1>8, <1>9

\* A client that goes takes its link down with it.
LEMMA LinkDown ==
  ASSUME NEW conn \in ConnType, NEW had \in LinkType, NEW k \in KernelType, NEW s \in SessionType,
         ConnInv(conn, had, k, s), conn.at # "unborn",
         NEW link, link = [had EXCEPT !.up = FALSE, !.frames = <<>>]
  PROVE  link \in LinkType /\ ConnInv(conn, link, k, s)
<1>1. link \in LinkType /\ link.up = FALSE /\ link.commands = had.commands /\ link.frames = <<>>
  BY EmptyFrames DEF LinkType
<1>2. \A i \in DOMAIN link.frames : \E j \in DOMAIN had.frames : link.frames[i] = had.frames[j]
  BY <1>1, EmptyFrames
<1>3. /\ link.frames # <<>> => had.frames # <<>>
      /\ \A i \in DOMAIN link.commands : i \in DOMAIN had.commands /\ link.commands[i] = had.commands[i]
      /\ link.commands # <<>> => had.commands # <<>> /\ Head(link.commands) = Head(had.commands)
      /\ link.commands = <<>> => ~link.up \/ (had.commands = <<>> /\ had.up) \/ conn.at # "new"
  BY <1>1
<1>4. ConnInv(conn, had, k, s) /\ conn.at # "unborn"
  OBVIOUS
<1>5. ConnInv(conn, link, k, s)
  BY <1>1, <1>2, <1>3, <1>4, LessOnTheWay
<1> QED BY <1>1, <1>5

\* A list with one more at its end.
LEMMA OneMore ==
  ASSUME NEW S, NEW f \in Seq(S), NEW e \in S
  PROVE  /\ Append(f, e) \in Seq(S) /\ Len(Append(f, e)) = Len(f) + 1 /\ Append(f, e) # <<>>
         /\ \A i \in DOMAIN Append(f, e) :
              \/ i \in DOMAIN f /\ Append(f, e)[i] = f[i]
              \/ i = Len(f) + 1 /\ Append(f, e)[i] = e
         /\ f # <<>> => Head(Append(f, e)) = Head(f)
<1> DEFINE q == Append(f, e)
<1>1. DOMAIN q = 1..(Len(f) + 1) /\ DOMAIN f = 1..Len(f) /\ Len(f) \in Nat /\ q \in Seq(S)
        /\ Len(q) = Len(f) + 1
  OBVIOUS
<1>2. \A i \in 1..(Len(f) + 1) : q[i] = IF i = Len(f) + 1 THEN e ELSE f[i]
  OBVIOUS
<1>3. Head(f) = f[1]
  OBVIOUS
<1> HIDE DEF q
<1>4. q # <<>> /\ Head(q) = q[1]
  BY <1>1
<1>5. f # <<>> => Len(f) # 0
  OBVIOUS
<1>6. f # <<>> => Head(q) = Head(f)
  BY <1>1, <1>2, <1>3, <1>4, <1>5
<1>7. \A i \in DOMAIN q : \/ i \in DOMAIN f /\ q[i] = f[i]
                          \/ i = Len(f) + 1 /\ q[i] = e
  BY <1>1, <1>2
<1>8. q \in Seq(S) /\ Len(q) = Len(f) + 1 /\ q # <<>>
  BY <1>1, <1>4
<1> QED BY <1>6, <1>7, <1>8, Zenon DEF q

\* A client sends a command.
LEMMA Sent ==
  ASSUME NEW was \in LinkType, NEW command \in CommandType
  PROVE  /\ [was EXCEPT !.commands = Append(@, command)] \in LinkType
         /\ [was EXCEPT !.commands = Append(@, command)].up = was.up
         /\ [was EXCEPT !.commands = Append(@, command)].frames = was.frames
         /\ [was EXCEPT !.commands = Append(@, command)].commands = Append(was.commands, command)
<1> DEFINE q == Append(was.commands, command)
<1>1. q \in Seq(CommandType)
  BY DEF LinkType
<1> HIDE DEF q
<1>2. /\ [was EXCEPT !.commands = q] \in LinkType /\ [was EXCEPT !.commands = q].up = was.up
      /\ [was EXCEPT !.commands = q].frames = was.frames /\ [was EXCEPT !.commands = q].commands = q
  BY <1>1 DEF LinkType
<1> QED BY <1>2 DEF q

\* A command that a client sends keeps the connection's half.
LEMMA CommandSent ==
  ASSUME NEW conn \in ConnType, NEW was \in LinkType, NEW link \in LinkType, NEW command \in CommandType,
         NEW k \in KernelType, NEW s \in SessionType,
         ConnInv(conn, was, k, s), conn.at # "unborn", was.up,
         CommandFits(conn, Len(was.commands) + 1, command, k),
         link.up = was.up, link.frames = was.frames, link.commands = Append(was.commands, command)
  PROVE  ConnInv(conn, link, k, s)
<1> DEFINE q == Append(was.commands, command)
<1>1. was.commands \in Seq(CommandType) /\ was.frames \in Seq(Frame)
  BY DEF LinkType
<1>2. /\ q \in Seq(CommandType) /\ Len(q) = Len(was.commands) + 1 /\ q # <<>>
      /\ \A i \in DOMAIN q : \/ i \in DOMAIN was.commands /\ q[i] = was.commands[i]
                             \/ i = Len(was.commands) + 1 /\ q[i] = command
      /\ was.commands # <<>> => Head(q) = Head(was.commands)
  BY <1>1, OneMore
<1>3. link.commands = q
  OBVIOUS
<1> HIDE DEF q
<1>4. link.up = was.up /\ link.frames = was.frames /\ link.commands = q
  BY <1>3
<1>5. ConnPlaced(conn, was) /\ ConnFollows(conn, was, k, s.open) /\ ConnMarked(conn, was, k.fragments)
      /\ ConnHears(conn) /\ (s.open => ConnTold(conn, s.busy))
  BY DEF ConnInv
<1>6. ConnPlaced(conn, link)
  BY <1>2, <1>4, <1>5 DEF ConnPlaced
<1>7. \A i \in DOMAIN q : CommandFits(conn, i, q[i], k)
  <2>1. CommandFits(conn, Len(was.commands) + 1, command, k)
    OBVIOUS
  <2>2. \A i \in DOMAIN was.commands : CommandFits(conn, i, was.commands[i], k)
    BY <1>5 DEF ConnFollows
  <2> QED BY <2>1, <2>2, <1>2
<1>8. ConnFollows(conn, link, k, s.open)
  BY <1>4, <1>5, <1>7 DEF ConnFollows
<1>9. ConnMarked(conn, link, k.fragments)
  BY <1>4, <1>5 DEF ConnMarked
<1> QED BY <1>5, <1>6, <1>8, <1>9 DEF ConnInv

\* A client reads a frame.
LEMMA HearsKeeps ==
  ASSUME ServingInv, NEW cl \in Client, Hears(cl)
  PROVE  ServingInv'
<1> DEFINE c == clients[cl].conn
           frame == Head(links[c].frames)
           client == Heard(clients[cl], frame)
           conn == conns[c]
           link == [links[c] EXCEPT !.frames = Tail(@)]
<1>1. /\ Online(cl) /\ links[c].frames # <<>>
      /\ kernel' = kernel /\ session' = session /\ asks' = asks /\ conns' = conns
  BY DEF Hears
<1>2. /\ c \in 1..Connections /\ conn \in ConnType /\ links[c] \in LinkType
      /\ links \in [1..Connections -> LinkType] /\ conn.at # "unborn"
      /\ ConnInv(conn, links[c], kernel, session) /\ kernel \in KernelType /\ session \in SessionType
      /\ links[c].frames \in Seq(Frame) /\ links[c].commands \in Seq(CommandType)
  BY <1>1, OnlineFacts
<1>3. /\ link \in LinkType /\ link.up = links[c].up /\ link.commands = links[c].commands
      /\ link.frames = Tail(links[c].frames)
      /\ client \in ClientType /\ client.at = "on" /\ client.conn = c
      /\ client.last \in Nat /\ client.last <= kernel.seq
      /\ ~session.open /\ client.last = kernel.seq => client.over
      /\ ConnInv(conn, link, kernel, session)
      /\ conn.at \notin {"new", "attaching"}
      /\ ~Ends(clients[cl], frame) => ClientInv(client, conn, link, kernel, session)
  BY <1>1, FrameRead
<1> DEFINE down == [links[c] EXCEPT !.up = FALSE, !.frames = <<>>]
<1>4. down \in LinkType /\ ConnInv(conn, down, kernel, session)
  <2> DEFINE was == links[c]
  <2>1. was \in LinkType /\ ConnInv(conn, was, kernel, session)
    BY <1>2
  <2> HIDE DEF was, conn
  <2>2. [was EXCEPT !.up = FALSE, !.frames = <<>>] \in LinkType
        /\ ConnInv(conn, [was EXCEPT !.up = FALSE, !.frames = <<>>], kernel, session)
    BY <2>1, <1>2, LinkDown
  <2> QED BY <2>2 DEF was
<1>5. HangsUp(c) = [links EXCEPT ![c] = down]
  BY <1>2 DEF HangsUp
<1>6. CASE Ends(clients[cl], frame)
  <2> DEFINE gone == [client EXCEPT !.at = "refused"]
  <2>1. /\ clients' = [clients EXCEPT ![cl] = gone] /\ links' = [links EXCEPT ![c] = down]
    BY <1>5, <1>6 DEF Hears
  <2> HIDE DEF client, down, conn
  <2>2. /\ gone \in ClientType /\ gone.conn = c /\ gone.last = client.last /\ gone.over = client.over
        /\ gone.at = "refused"
    BY <1>3 DEF ClientType
  <2> HIDE DEF gone, frame
  <2>3. gone.last <= kernel.seq /\ (~session.open /\ gone.last = kernel.seq => gone.over)
    BY <1>3, <2>2
  <2> QED BY <1>1, <1>4, <2>1, <2>2, <2>3, ClientStep DEF conn
<1>7. CASE ~Ends(clients[cl], frame) /\ CatchesUp(client)
  <2> DEFINE since == client.written
             command == [kind |-> "attach", fresh |-> FALSE, since |-> since]
             asking == [client EXCEPT !.out = 1]
  <2>1. /\ clients' = [clients EXCEPT ![cl] = asking]
        /\ links' = [Sends(c, command) EXCEPT ![c].frames = Tail(@)]
    BY <1>7, ZenonT(60) DEF Hears
  <2>2. client.detaching /\ client.written < client.last /\ client.out = 0 /\ client.written \in Nat
    BY <1>3, <1>7 DEF CatchesUp, ClientType
  <2>3. command \in CommandType /\ command.kind = "attach" /\ ~command.fresh /\ command.since < kernel.seq
    <3>1. since \in Nat /\ since < kernel.seq
      <4> HIDE DEF client
      <4>1. client.last \in Nat /\ client.last <= kernel.seq /\ kernel.seq \in Nat
        BY <1>3, LoopFacts, SMTT(30)
      <4> QED BY <4>1, <2>2
    <3> HIDE DEF since
    <3> QED BY <3>1 DEF CommandType
  <2>4. ClientInv(client, conn, link, kernel, session)
    BY <1>3, <1>7
  <2> HIDE DEF client, command
  <2>5. /\ asking \in ClientType /\ asking.conn = c /\ asking.last = client.last /\ asking.at = "on"
        /\ asking.over = client.over /\ asking.knows = client.knows /\ asking.busy = client.busy
        /\ asking.detaching /\ asking.out = 1
    BY <1>3, <2>2 DEF ClientType
  <2> HIDE DEF asking
  <2>6. /\ Counted(client, conn, link) /\ Follows(client, conn, link, kernel, session.open)
        /\ (session.open => Told(client, conn, link, session.busy))
    BY <2>4 DEF ClientInv
  <2>7. asking.last <= kernel.seq /\ (~session.open /\ asking.last = kernel.seq => asking.over)
    BY <1>3, <2>5
  <2>8. CASE link.up /\ conn.at # "closed"
    <3> DEFINE full == [link EXCEPT !.commands = Append(@, command)]
    <3>1. links' = [links EXCEPT ![c] = full]
      <4>1. Sends(c, command) = [links EXCEPT ![c].commands = Append(@, command)]
        BY <2>8, <1>3 DEF Sends
      <4> DEFINE was == links[c]
                 sent == [was EXCEPT !.commands = Append(@, command)]
      <4>2. links' = [[links EXCEPT ![c] = sent] EXCEPT ![c].frames = Tail(@)]
        BY <4>1, <2>1
      <4>3. links' = [links EXCEPT ![c] = [sent EXCEPT !.frames = Tail(@)]]
        <5> HIDE DEF sent, c
        <5> QED BY <4>2, <1>2
      <4>4. [sent EXCEPT !.frames = Tail(@)] = full
        <5>1. was \in LinkType
          BY <1>2
        <5> HIDE DEF was
        <5>2. [[was EXCEPT !.commands = Append(@, command)] EXCEPT !.frames = Tail(@)]
                = [[was EXCEPT !.frames = Tail(@)] EXCEPT !.commands = Append(@, command)]
          BY <5>1 DEF LinkType
        <5> QED BY <5>2 DEF was
      <4> QED BY <4>3, <4>4
    <3> HIDE DEF link, conn
    <3>2. /\ full \in LinkType /\ full.up = link.up /\ full.frames = link.frames
          /\ full.commands = Append(link.commands, command)
      BY <1>3, <2>3, Sent
    <3> HIDE DEF full
    <3>3. /\ conn \in ConnType /\ link \in LinkType /\ command \in CommandType
          /\ kernel \in KernelType /\ session \in SessionType
      BY <1>2, <1>3, <2>3
    <3>4. ConnInv(conn, link, kernel, session) /\ conn.at # "unborn" /\ link.up
      BY <1>2, <1>3, <2>8
    <3>5. CommandFits(conn, Len(link.commands) + 1, command, kernel)
      BY <1>3, <2>3 DEF CommandFits
    <3>6. ConnInv(conn, full, kernel, session)
      BY <3>3, <3>4, <3>5, <3>2, CommandSent
    <3>7. link.commands \in Seq(CommandType)
      BY <3>3 DEF LinkType
    <3>8. /\ \A i \in DOMAIN full.commands :
               \/ i \in DOMAIN link.commands /\ full.commands[i] = link.commands[i]
               \/ i = Len(link.commands) + 1 /\ full.commands[i] = command
          /\ Len(full.commands) = Len(link.commands) + 1
      BY <2>3, <3>2, <3>7, OneMore
    <3>9. ClientInv(asking, conn, full, kernel, session)
      <4>1. Counted(asking, conn, full)
        <5>1. Len(link.commands) \in Nat /\ AnswersIn(link.frames) \in Nat
          <6>1. link.frames \in Seq(Frame) /\ link.commands \in Seq(CommandType)
            BY <1>3 DEF LinkType
          <6> QED BY <6>1, AnswersCount
        <5>2. client.out = Len(link.commands) + AnswersIn(link.frames)
                            + (IF conn.at \in Asking1 THEN 1 ELSE 0)
          BY <2>6, <2>8 DEF Counted, AnswersIn
        <5>3. asking.out = Len(full.commands) + AnswersIn(full.frames)
                            + (IF conn.at \in Asking1 THEN 1 ELSE 0)
          BY <5>1, <5>2, <2>2, <2>5, <3>8, <3>2, SMTT(30)
        <5> QED BY <5>3 DEF Counted, AnswersIn
      <4>2. Follows(asking, conn, full, kernel, session.open)
        BY <2>5, <2>6, <2>8, <3>8, <3>2, <1>3 DEF Follows
      <4>3. session.open => Told(asking, conn, full, session.busy)
        BY <2>5, <2>6, <3>2 DEF Told
      <4> QED BY <4>1, <4>2, <4>3 DEF ClientInv
    <3> QED BY <1>1, <2>1, <2>5, <2>7, <3>1, <3>9, <3>2, <3>6, ClientStep DEF conn
  <2>9. CASE ~(link.up /\ conn.at # "closed")
    <3>1. links' = [links EXCEPT ![c] = link]
      <4>1. Sends(c, command) = links
        BY <2>9, <1>3 DEF Sends
      <4> QED BY <4>1, <2>1
    <3> HIDE DEF link, conn
    <3>2. ClientInv(asking, conn, link, kernel, session)
      <4>1. Counted(asking, conn, link)
        BY <2>9 DEF Counted
      <4>2. Follows(asking, conn, link, kernel, session.open)
        BY <2>5, <2>6, <2>2, <1>3 DEF Follows
      <4>3. session.open => Told(asking, conn, link, session.busy)
        BY <2>5, <2>6 DEF Told
      <4> QED BY <4>1, <4>2, <4>3 DEF ClientInv
    <3> QED BY <1>1, <1>3, <2>1, <2>5, <2>7, <3>1, <3>2, ClientStep DEF conn
  <2> QED BY <2>8, <2>9, SMTT(30)
<1>8. CASE ~Ends(clients[cl], frame) /\ ~CatchesUp(client) /\ client.detaching /\ Resting(client)
  <2> DEFINE gone == [client EXCEPT !.at = "done"]
  <2>1. /\ clients' = [clients EXCEPT ![cl] = gone] /\ links' = [links EXCEPT ![c] = down]
    BY <1>5, <1>8 DEF Hears
  <2> HIDE DEF client, down, conn
  <2>2. /\ gone \in ClientType /\ gone.conn = c /\ gone.last = client.last /\ gone.over = client.over
        /\ gone.at = "done"
    BY <1>3 DEF ClientType
  <2> HIDE DEF gone, frame
  <2>3. gone.last <= kernel.seq /\ (~session.open /\ gone.last = kernel.seq => gone.over)
    BY <1>3, <2>2
  <2> QED BY <1>1, <1>4, <2>1, <2>2, <2>3, ClientStep DEF conn
<1>9. CASE ~Ends(clients[cl], frame) /\ ~CatchesUp(client) /\ ~(client.detaching /\ Resting(client))
  <2>1. /\ clients' = [clients EXCEPT ![cl] = client] /\ links' = [links EXCEPT ![c] = link]
    BY <1>9 DEF Hears
  <2>2. ClientInv(client, conn, link, kernel, session)
    BY <1>3, <1>9
  <2> HIDE DEF client, link, frame, conn
  <2> QED BY <1>1, <1>3, <2>1, <2>2, ClientStep DEF conn
<1> QED BY <1>6, <1>7, <1>8, <1>9, SMTT(30)

\* A client that reads nothing more.
LEMMA HearsNothingKeeps ==
  ASSUME ServingInv, NEW cl \in Client, HearsNothing(cl)
  PROVE  ServingInv'
<1> DEFINE c == clients[cl].conn
           had == clients[cl]
           at == IF had.over THEN "done" ELSE "away"
           client == [had EXCEPT !.at = at]
           was == links[c]
           link == [was EXCEPT !.up = FALSE]
           conn == conns[c]
<1>1. /\ Online(cl) /\ clients' = [clients EXCEPT ![cl] = client]
      /\ links' = [links EXCEPT ![c] = link] /\ links[c].frames = <<>>
      /\ kernel' = kernel /\ session' = session /\ asks' = asks /\ conns' = conns
  BY DEF HearsNothing
<1>2. /\ c \in 1..Connections /\ conn \in ConnType /\ was \in LinkType /\ had \in ClientType
      /\ conn.at # "unborn" /\ had.conn = c
      /\ had.last <= kernel.seq /\ (~session.open /\ had.last = kernel.seq => had.over)
      /\ ConnInv(conn, was, kernel, session) /\ kernel \in KernelType /\ session \in SessionType
  BY <1>1, OnlineFacts
<1>3. at \in {"done", "away"}
  OBVIOUS
<1> HIDE DEF at, had, was, conn
<1>4. /\ client \in ClientType /\ client.conn = c /\ client.last = had.last /\ client.over = had.over
      /\ client.at = at
  BY <1>2, <1>3 DEF ClientType
<1>5. link \in LinkType /\ link.up = FALSE /\ link.frames = was.frames /\ link.commands = was.commands
  BY <1>2 DEF LinkType
<1> HIDE DEF client, link
<1>6. ConnInv(conn, link, kernel, session)
  <2>1. /\ \A i \in DOMAIN link.frames : \E j \in DOMAIN was.frames : link.frames[i] = was.frames[j]
        /\ link.frames # <<>> => was.frames # <<>>
        /\ \A i \in DOMAIN link.commands : i \in DOMAIN was.commands /\ link.commands[i] = was.commands[i]
        /\ link.commands # <<>> => was.commands # <<>> /\ Head(link.commands) = Head(was.commands)
        /\ link.commands = <<>> => ~link.up \/ (was.commands = <<>> /\ was.up) \/ conn.at # "new"
    BY <1>5
  <2> QED BY <2>1, <1>2, <1>5, LessOnTheWay
<1>7. /\ client.last <= kernel.seq /\ (~session.open /\ client.last = kernel.seq => client.over)
      /\ client.at # "on"
  BY <1>2, <1>3, <1>4
<1> QED BY <1>1, <1>4, <1>5, <1>6, <1>7, ClientStep DEF conn

\* A client reads a line, and sends it.
LEMMA TypesKeeps ==
  ASSUME ServingInv, NEW cl \in Client, Types(cl)
  PROVE  ServingInv'
<1> DEFINE c == clients[cl].conn
           had == clients[cl]
           n == had.typed + 1
           out == had.out + 1
           client == [had EXCEPT !.typed = n, !.out = out]
           was == links[c]
           conn == conns[c]
<1>1. /\ Online(cl) /\ clients' = [clients EXCEPT ![cl] = client] /\ n <= Len(Script[cl])
      /\ \E kind \in Script[cl][n] : links' = Sends(c, [kind |-> kind])
      /\ kernel' = kernel /\ session' = session /\ asks' = asks /\ conns' = conns
  BY DEF Types, Reading
<1>2. /\ c \in 1..Connections /\ conn \in ConnType /\ was \in LinkType /\ had \in ClientType
      /\ conn.at # "unborn" /\ had.conn = c /\ had.at = "on"
      /\ links \in [1..Connections -> LinkType]
      /\ had.last <= kernel.seq /\ (~session.open /\ had.last = kernel.seq => had.over)
      /\ ConnInv(conn, was, kernel, session) /\ kernel \in KernelType /\ session \in SessionType
      /\ ClientInv(had, conn, was, kernel, session)
      /\ was.frames \in Seq(Frame) /\ was.commands \in Seq(CommandType)
  BY <1>1, OnlineFacts
<1>3. had.typed \in Nat /\ had.out \in Nat /\ n \in Nat \ {0} /\ out \in Nat /\ out = had.out + 1
  BY <1>2 DEF ClientType
<1>4. PICK kind \in Script[cl][n] : links' = Sends(c, [kind |-> kind])
  BY <1>1
<1>5. kind \in {"message", "quit"}
  <2>1. Script[cl] \in Seq(SUBSET {"message", "quit"})
    BY ServingAssumption
  <2>2. n \in 1..Len(Script[cl])
    BY <1>1, <1>3, <2>1
  <2> QED BY <2>1, <2>2
<1> DEFINE command == [kind |-> kind]
<1>6. command \in CommandType /\ command.kind # "attach" /\ links' = Sends(c, command)
  BY <1>4, <1>5 DEF CommandType
<1> HIDE DEF command, conn, was, n, out, had
<1>7. /\ client \in ClientType /\ client.conn = c /\ client.last = had.last /\ client.over = had.over
      /\ client.at = "on" /\ client.out = out /\ client.knows = had.knows /\ client.busy = had.busy
      /\ client.detaching = had.detaching
  BY <1>2, <1>3 DEF ClientType
<1> HIDE DEF client
<1>8. client.last <= kernel.seq /\ (~session.open /\ client.last = kernel.seq => client.over)
  BY <1>2, <1>7
<1>9. /\ Counted(had, conn, was) /\ Follows(had, conn, was, kernel, session.open)
      /\ (session.open => Told(had, conn, was, session.busy))
  BY <1>2 DEF ClientInv
<1>10. CASE was.up /\ conn.at # "closed"
  <2> DEFINE link == [was EXCEPT !.commands = Append(@, command)]
  <2>1. links' = [links EXCEPT ![c] = link]
    BY <1>6, <1>10 DEF Sends, was, conn
  <2>2. /\ link \in LinkType /\ link.up = was.up /\ link.frames = was.frames
        /\ link.commands = Append(was.commands, command)
    BY <1>2, <1>6, Sent
  <2> HIDE DEF link
  <2>3. CommandFits(conn, Len(was.commands) + 1, command, kernel)
    BY <1>6 DEF CommandFits
  <2>4. ConnInv(conn, link, kernel, session)
    BY <1>2, <1>6, <1>10, <2>2, <2>3, CommandSent
  <2>5. /\ \A i \in DOMAIN link.commands :
             \/ i \in DOMAIN was.commands /\ link.commands[i] = was.commands[i]
             \/ i = Len(was.commands) + 1 /\ link.commands[i] = command
        /\ Len(link.commands) = Len(was.commands) + 1
        /\ was.commands # <<>> => Head(link.commands) = Head(was.commands)
    BY <1>2, <1>6, <2>2, OneMore
  <2>6. Counted(client, conn, link)
    <3>1. Len(was.commands) \in Nat /\ AnswersIn(was.frames) \in Nat
      BY <1>2, AnswersCount
    <3>2. had.out = Len(was.commands) + AnswersIn(was.frames) + (IF conn.at \in Asking1 THEN 1 ELSE 0)
      BY <1>9, <1>10 DEF Counted, AnswersIn
    <3>3. client.out = Len(link.commands) + AnswersIn(link.frames) + (IF conn.at \in Asking1 THEN 1 ELSE 0)
      BY <3>1, <3>2, <1>3, <1>7, <2>2, <2>5
    <3> QED BY <3>3 DEF Counted, AnswersIn
  <2>7. Follows(client, conn, link, kernel, session.open)
    <3>1. conn.at = "new" => was.commands # <<>>
      BY <1>2, <1>10 DEF ConnInv, ConnPlaced
    <3>2. conn.at = "new" /\ link.commands # <<>> =>
            /\ Head(link.commands).fresh = ~client.knows
            /\ Head(link.commands).since = client.last
      BY <3>1, <2>5, <1>7, <1>9 DEF Follows
    <3>3. \A i \in DOMAIN link.commands :
            link.commands[i].kind = "attach" /\ ~(conn.at = "new" /\ i = 1) => client.detaching
      BY <2>5, <1>6, <1>7, <1>9 DEF Follows
    <3> QED BY <3>2, <3>3, <2>2, <1>7, <1>9, <1>10 DEF Follows
  <2>8. session.open => Told(client, conn, link, session.busy)
    BY <1>7, <1>9, <2>2 DEF Told
  <2>9. ClientInv(client, conn, link, kernel, session)
    BY <2>6, <2>7, <2>8 DEF ClientInv
  <2> QED BY <1>1, <1>7, <1>8, <2>1, <2>2, <2>4, <2>9, ClientStep DEF conn
<1>11. CASE ~(was.up /\ conn.at # "closed")
  <2>1. links' = [links EXCEPT ![c] = was]
    <3>1. links' = links
      BY <1>6, <1>11 DEF Sends, was, conn
    <3> QED BY <3>1, <1>2 DEF was
  <2>2. Counted(client, conn, was)
    BY <1>11 DEF Counted
  <2>3. Follows(client, conn, was, kernel, session.open)
    BY <1>7, <1>9 DEF Follows
  <2>4. session.open => Told(client, conn, was, session.busy)
    BY <1>7, <1>9 DEF Told
  <2>5. ClientInv(client, conn, was, kernel, session)
    BY <2>2, <2>3, <2>4 DEF ClientInv
  <2> QED BY <1>1, <1>2, <1>7, <1>8, <2>1, <2>5, ClientStep DEF conn
<1> QED BY <1>10, <1>11

\* Its input closes.
LEMMA ClosedKeeps ==
  ASSUME ServingInv, NEW cl \in Client, Closed(cl)
  PROVE  ServingInv'
<1> DEFINE c == clients[cl].conn
           had == clients[cl]
           at == IF Resting(had) THEN "done" ELSE had.at
           client == [had EXCEPT !.detaching = TRUE, !.at = at]
           was == links[c]
           down == [was EXCEPT !.up = FALSE, !.frames = <<>>]
           conn == conns[c]
<1>1. /\ Online(cl) /\ clients' = [clients EXCEPT ![cl] = client]
      /\ links' = IF Resting(had) THEN HangsUp(c) ELSE links
      /\ kernel' = kernel /\ session' = session /\ asks' = asks /\ conns' = conns
  BY DEF Closed, Reading
<1>2. /\ c \in 1..Connections /\ conn \in ConnType /\ was \in LinkType /\ had \in ClientType
      /\ conn.at # "unborn" /\ had.conn = c /\ had.at = "on"
      /\ links \in [1..Connections -> LinkType]
      /\ had.last <= kernel.seq /\ (~session.open /\ had.last = kernel.seq => had.over)
      /\ ConnInv(conn, was, kernel, session) /\ kernel \in KernelType /\ session \in SessionType
      /\ ClientInv(had, conn, was, kernel, session)
  BY <1>1, OnlineFacts
<1>3. at = "done" \/ at = "on"
  BY <1>2
<1>4. HangsUp(c) = [links EXCEPT ![c] = down] /\ links = [links EXCEPT ![c] = was]
  BY <1>2 DEF HangsUp
<1>5. Resting(had) => at = "done"
  OBVIOUS
<1> HIDE DEF at, had, conn, was
<1>6. /\ client \in ClientType /\ client.conn = c /\ client.last = had.last /\ client.over = had.over
      /\ client.at = at /\ client.out = had.out /\ client.knows = had.knows /\ client.busy = had.busy
      /\ client.detaching
  BY <1>2, <1>3 DEF ClientType
<1> HIDE DEF client
<1>7. client.last <= kernel.seq /\ (~session.open /\ client.last = kernel.seq => client.over)
  BY <1>2, <1>6
<1>8. CASE Resting(had)
  <2>1. down \in LinkType /\ ConnInv(conn, down, kernel, session)
    BY <1>2, LinkDown
  <2>2. links' = [links EXCEPT ![c] = down] /\ client.at # "on"
    BY <1>1, <1>4, <1>5, <1>6, <1>8
  <2> HIDE DEF down
  <2> QED BY <1>1, <1>6, <1>7, <2>1, <2>2, ClientStep DEF conn
<1>9. CASE ~Resting(had)
  <2>1. links' = [links EXCEPT ![c] = was]
    BY <1>1, <1>4, <1>9
  <2>2. /\ Counted(had, conn, was) /\ Follows(had, conn, was, kernel, session.open)
        /\ (session.open => Told(had, conn, was, session.busy))
    BY <1>2 DEF ClientInv
  <2>3. Counted(client, conn, was)
    BY <2>2, <1>6 DEF Counted
  <2>4. Follows(client, conn, was, kernel, session.open)
    BY <2>2, <1>6 DEF Follows
  <2>5. session.open => Told(client, conn, was, session.busy)
    BY <2>2, <1>6 DEF Told
  <2>6. ClientInv(client, conn, was, kernel, session)
    BY <2>3, <2>4, <2>5 DEF ClientInv
  <2> QED BY <1>1, <1>2, <1>6, <1>7, <2>1, <2>6, ClientStep DEF conn
<1> QED BY <1>8, <1>9

---------------------------------------------------------------------------
(* Connections come and go.                                                *)

\* A step of one link, and of nobody.
LEMMA LinkStep ==
  ASSUME ServingInv, NEW c \in 1..Connections, NEW link \in LinkType,
         links' = [links EXCEPT ![c] = link],
         kernel' = kernel, session' = session, asks' = asks, conns' = conns, clients' = clients,
         ConnInv(conns[c], link, kernel, session),
         \A cl \in Client : Online(cl) /\ clients[cl].conn = c
           => ClientInv(clients[cl], conns[c], link, kernel, session)
  PROVE  ServingInv'
<1>1. links \in [1..Connections -> LinkType]
  BY DEF ServingInv, ServingTypes
<1>2. /\ links' \in [1..Connections -> LinkType] /\ links'[c] = link
      /\ \A d \in 1..Connections : d # c => links'[d] = links[d]
  BY <1>1
<1>3. ServingTypes' /\ AsksShown' /\ BornInOrder' /\ Attended' /\ TurnShown' /\ ClientsShown'
  BY <1>2 DEF ServingInv, ServingTypes, AsksShown, BornInOrder, Attended, TurnShown, ClientsShown, Online
<1>4. \A d \in 1..Connections : ConnInv(conns'[d], links'[d], kernel', session')
  BY <1>2 DEF ServingInv
<1>5. ASSUME NEW cl \in Client, clients'[cl].at = "on"
      PROVE  ClientInv(clients'[cl], conns'[clients'[cl].conn], links'[clients'[cl].conn],
                       kernel', session')
  <2>1. Online(cl) /\ clients[cl].conn \in 1..Connections
    BY <1>5 DEF Online, ServingInv, Attended
  <2>2. CASE clients[cl].conn = c
    BY <2>1, <2>2, <1>2
  <2>3. CASE clients[cl].conn # c
    BY <2>1, <2>3, <1>2 DEF ServingInv
  <2> QED BY <2>2, <2>3
<1> QED BY <1>3, <1>4, <1>5 DEF ServingInv, Online

\* The network takes a connection, and the end of what was on the way.
LEMMA CutoffKeeps ==
  ASSUME ServingInv, NEW c \in 1..Connections, Cutoff(c)
  PROVE  ServingInv'
<1> DEFINE was == links[c]
           conn == conns[c]
<1>1. /\ was.up /\ kernel' = kernel /\ session' = session /\ asks' = asks
      /\ conns' = conns /\ clients' = clients
      /\ \E f \in 0..Len(was.frames), k \in 0..Len(was.commands) :
           links' = [links EXCEPT ![c] = [up |-> FALSE, frames |-> SubSeq(was.frames, 1, f),
                                          commands |-> SubSeq(was.commands, 1, k)]]
  BY DEF Cutoff
<1>2. /\ conn \in ConnType /\ was \in LinkType /\ kernel \in KernelType /\ session \in SessionType
      /\ ConnInv(conn, was, kernel, session)
  BY LoopFacts DEF ServingInv
<1>3. was.frames \in Seq(Frame) /\ was.commands \in Seq(CommandType)
  BY <1>2 DEF LinkType
<1>4. PICK f \in 0..Len(was.frames), k \in 0..Len(was.commands) :
        links' = [links EXCEPT ![c] = [up |-> FALSE, frames |-> SubSeq(was.frames, 1, f),
                                       commands |-> SubSeq(was.commands, 1, k)]]
  BY <1>1
<1> DEFINE frames == SubSeq(was.frames, 1, f)
           commands == SubSeq(was.commands, 1, k)
           link == [up |-> FALSE, frames |-> frames, commands |-> commands]
<1>5. links' = [links EXCEPT ![c] = link]
  BY <1>4
<1>6. /\ frames \in Seq(Frame) /\ commands \in Seq(CommandType)
      /\ \A i \in DOMAIN frames : i \in DOMAIN was.frames /\ frames[i] = was.frames[i]
      /\ \A i \in DOMAIN commands : i \in DOMAIN was.commands /\ commands[i] = was.commands[i]
  BY <1>3
<1>7. frames # <<>> => was.frames # <<>>
  <2>1. \A g \in Seq(Frame) : g # <<>> => 1 \in DOMAIN g
    OBVIOUS
  <2> HIDE DEF frames, was
  <2> QED BY <2>1, <1>3, <1>6
<1>8. commands # <<>> => was.commands # <<>> /\ Head(commands) = Head(was.commands)
  <2>1. \A g \in Seq(CommandType) : g # <<>> => 1 \in DOMAIN g /\ Head(g) = g[1]
    OBVIOUS
  <2> HIDE DEF commands, was
  <2> QED BY <2>1, <1>3, <1>6
<1>9. ~was.up => FALSE
  BY <1>1
<1>10. \A a : InTurn(was.frames, a) => InTurn(frames, a)
  BY <1>3, InTurnCut
<1> HIDE DEF frames, commands
<1>11. /\ link \in LinkType /\ link.up = FALSE /\ link.frames = frames /\ link.commands = commands
  BY <1>6 DEF LinkType
<1> HIDE DEF link, was, conn
<1>12. ConnInv(conn, link, kernel, session)
  <2>1. CASE conn.at = "unborn"
    <3>1. ~was.up
      BY <2>1, <1>2 DEF ConnInv, ConnPlaced
    <3> QED BY <3>1, <1>1 DEF was
  <2>2. CASE conn.at # "unborn"
    <3>1. /\ \A i \in DOMAIN link.frames : \E j \in DOMAIN was.frames : link.frames[i] = was.frames[j]
          /\ link.frames # <<>> => was.frames # <<>>
          /\ \A i \in DOMAIN link.commands : i \in DOMAIN was.commands /\ link.commands[i] = was.commands[i]
          /\ link.commands # <<>> => was.commands # <<>> /\ Head(link.commands) = Head(was.commands)
          /\ link.commands = <<>> => ~link.up \/ (was.commands = <<>> /\ was.up) \/ conn.at # "new"
      BY <1>6, <1>7, <1>8, <1>11
    <3> QED BY <3>1, <2>2, <1>2, <1>11, LessOnTheWay
  <2> QED BY <2>1, <2>2
<1>13. ASSUME NEW cl \in Client, Online(cl), clients[cl].conn = c
       PROVE  ClientInv(clients[cl], conn, link, kernel, session)
  <2> DEFINE had == clients[cl]
  <2>1. Follows(had, conn, was, kernel, session.open)
    BY <1>13 DEF ServingInv, ClientInv, was, conn
  <2> HIDE DEF had
  <2>2. Counted(had, conn, link)
    BY <1>11 DEF Counted
  <2>3. Follows(had, conn, link, kernel, session.open)
    BY <2>1, <1>6, <1>8, <1>10, <1>11 DEF Follows
  <2>4. Told(had, conn, link, session.busy)
    BY <1>11 DEF Told
  <2> QED BY <2>2, <2>3, <2>4 DEF ClientInv, had
<1> QED BY <1>1, <1>5, <1>11, <1>12, <1>13, LinkStep DEF conn

\* Who is born is born behind the others.
LEMMA NextUnborn ==
  ASSUME ServingInv, Used < Connections
  PROVE  /\ Used + 1 \in 1..Connections
         /\ \A c \in 1..Connections : conns[c].at # "unborn" <=> c <= Used
         /\ Used \in Nat
<1>1. PICK n \in 0..Connections : \A c \in 1..Connections : conns[c].at # "unborn" <=> c <= n
  BY DEF ServingInv, BornInOrder
<1>2. conns \in [1..Connections -> ConnType] /\ Connections \in Nat
  BY LoopFacts, ServingAssumption
<1>3. {c \in DOMAIN conns : conns[c].at # "unborn"} = 1..n
  BY <1>1, <1>2
<1>4. n \in Nat /\ Cardinality(1..n) = n
  <2>1. 1 \in Int /\ n \in Int /\ 1 <= n + 1
    BY <1>2
  <2>2. Cardinality(1..n) = IF 1 > n THEN 0 ELSE n - 1 + 1
    BY <2>1, FS_Interval
  <2> QED BY <2>1, <2>2, <1>2
<1>5. Used = n
  BY <1>3, <1>4 DEF Used
<1> QED BY <1>1, <1>2, <1>4, <1>5

\* A client connects.
LEMMA ConnectKeeps ==
  ASSUME ServingInv, NEW cl \in Client, Connect(cl)
  PROVE  ServingInv'
<1> DEFINE c == Used + 1
           had == clients[cl]
           conn == [Unborn EXCEPT !.client = cl, !.at = "new", !.listed = TRUE]
           command == [kind |-> "attach", fresh |-> ~had.knows, since |-> had.last]
           link == [up |-> TRUE, frames |-> <<>>, commands |-> <<command>>]
           client == [had EXCEPT !.at = "on", !.conn = c, !.out = 1]
<1>1. /\ session.open /\ Used < Connections /\ had.at \in {"off", "away"}
      /\ conns' = [conns EXCEPT ![c] = conn]
      /\ links' = [links EXCEPT ![c] = link]
      /\ clients' = [clients EXCEPT ![cl].at = "on", ![cl].conn = c, ![cl].out = 1]
      /\ kernel' = kernel /\ session' = session /\ asks' = asks
  BY DEF Connect
<1>2. /\ c \in 1..Connections /\ \A d \in 1..Connections : conns[d].at # "unborn" <=> d <= Used
      /\ Used \in Nat
  BY <1>1, NextUnborn
<1>3. conns[c].at = "unborn" /\ \A d \in 1..Connections : d < c <=> conns[d].at # "unborn"
  BY <1>2
<1>4. /\ conns \in [1..Connections -> ConnType] /\ links \in [1..Connections -> LinkType]
      /\ clients \in [Client -> ClientType] /\ had \in ClientType
      /\ kernel.seq \in Nat /\ kernel.fragments \in Nat
      /\ asks \in Seq(AskType) /\ session.open = TRUE
  BY <1>1, LoopFacts DEF ServingInv, ServingTypes
<1>5. had.last \in Nat /\ had.last <= kernel.seq /\ had.knows \in BOOLEAN
  BY <1>4 DEF ClientType, ServingInv, ClientsShown
<1>6. c \in Nat
  BY <1>2
<1>7. clients' = [clients EXCEPT ![cl] = client]
  <2> HIDE DEF c
  <2> QED BY <1>1, <1>4
<1> HIDE DEF c, had
<1>8. /\ client \in ClientType /\ client.at = "on" /\ client.conn = c /\ client.out = 1
      /\ client.last = had.last /\ client.knows = had.knows /\ client.over = had.over
      /\ client.detaching = had.detaching
  BY <1>4, <1>6 DEF ClientType
<1> HIDE DEF client
<1>9. /\ conn \in ConnType /\ conn.client = cl /\ conn.at = "new" /\ conn.last = 0
      /\ conn.events = <<>> /\ conn.voice = <<>> /\ conn.answer = <<>>
      /\ conn.hears = FALSE /\ conn.deaf = FALSE
  BY EmptyLists DEF Unborn, ConnType
<1> HIDE DEF conn
<1>10. command \in CommandType /\ command.kind = "attach" /\ command.fresh = ~had.knows
       /\ command.since = had.last
  BY <1>5 DEF CommandType
<1> HIDE DEF command
<1>11. /\ link \in LinkType /\ link.up = TRUE /\ link.frames = <<>> /\ link.commands = <<command>>
  <2>1. <<command>> \in Seq(CommandType) /\ <<>> \in Seq(Frame)
    BY <1>10, EmptyFrames
  <2> DEFINE commands == <<command>>
             frames == <<>>
  <2> HIDE DEF commands, frames
  <2>2. commands \in Seq(CommandType) /\ frames \in Seq(Frame)
    BY <2>1 DEF commands, frames
  <2>3. [up |-> TRUE, frames |-> frames, commands |-> commands] \in LinkType
    BY <2>2 DEF LinkType
  <2> QED BY <2>3 DEF commands, frames
<1> HIDE DEF link
<1>12. link.commands # <<>> /\ Head(link.commands) = command /\ Len(link.commands) = 1
       /\ DOMAIN link.commands = {1} /\ link.commands[1] = command /\ DOMAIN link.frames = {}
  BY <1>11, <1>10, OneOf, EmptyFrames
<1>13. ConnInv(conn, link, kernel, session)
  <2>1. ConnPlaced(conn, link)
    BY <1>9, <1>10, <1>11, <1>12, EmptyFrames DEF ConnPlaced
  <2>2. ConnFollows(conn, link, kernel, session.open)
    <3>1. \A i \in DOMAIN link.commands : CommandFits(conn, i, link.commands[i], kernel)
      BY <1>5, <1>9, <1>10, <1>12 DEF CommandFits
    <3>2. Len(conn.events) <= EventRoom
      BY <1>9, ServingAssumption
    <3> QED BY <3>1, <3>2, <1>4, <1>9, <1>12, EmptyFrames DEF ConnFollows, Going
  <2>3. ConnMarked(conn, link, kernel.fragments)
    BY <1>9, <1>12, EmptyFrames DEF ConnMarked
  <2>4. ConnHears(conn)
    <3>1. Len(conn.voice) <= VoiceRoom
      BY <1>9, ServingAssumption
    <3> QED BY <3>1, <1>9 DEF ConnHears, Going
  <2>5. ConnTold(conn, session.busy)
    BY <1>9, EmptyFrames DEF ConnTold, TellsLast, Pending
  <2> QED BY <2>1, <2>2, <2>3, <2>4, <2>5 DEF ConnInv
<1>14. ClientInv(client, conn, link, kernel, session)
  <2>1. Counted(client, conn, link)
    <3>1. AnswersIn(link.frames) = 0
      BY <1>11, <1>12, EmptyFrames, AnswersNone
    <3> QED BY <3>1, <1>8, <1>9, <1>12 DEF Counted, Asking1, AnswersIn
  <2>2. InTurn(link.frames, client.last)
    BY <1>12 DEF InTurn
  <2>3. Follows(client, conn, link, kernel, session.open)
    BY <2>2, <1>8, <1>9, <1>10, <1>12 DEF Follows, Going
  <2>4. Told(client, conn, link, session.busy)
    BY <1>9 DEF Told
  <2> QED BY <2>1, <2>3, <2>4 DEF ClientInv
<1>15. /\ conns' \in [1..Connections -> ConnType] /\ links' \in [1..Connections -> LinkType]
       /\ clients' \in [Client -> ClientType]
       /\ conns'[c] = conn /\ links'[c] = link /\ clients'[cl] = client
       /\ \A d \in 1..Connections : d # c => conns'[d] = conns[d] /\ links'[d] = links[d]
       /\ \A other \in Client : other # cl => clients'[other] = clients[other]
  <2> USE DEF c
  <2> HIDE DEF c
  <2>1. c \in 1..Connections
    BY <1>2 DEF c
  <2>2. conns' = [conns EXCEPT ![c] = conn] /\ links' = [links EXCEPT ![c] = link]
    BY <1>1 DEF c, conn, link, command, had
  <2> QED BY <2>1, <2>2, <1>4, <1>7, <1>8, <1>9, <1>11
<1>16. ServingTypes'
  BY <1>1, <1>15 DEF ServingInv, ServingTypes
<1>17. AsksShown'
  <2>1. \A k \in DOMAIN asks : asks[k].from \in 1..Connections
    <3>1. \A k \in DOMAIN asks : asks[k] \in AskType
      BY <1>4
    <3> QED BY <3>1 DEF AskType
  <2>2. \A k \in DOMAIN asks : asks[k].from # c
    BY <1>3 DEF ServingInv, AsksShown, AskFits
  <2>3. \A k \in DOMAIN asks : AskFits(asks[k].what, conns'[asks[k].from])
    BY <2>1, <2>2, <1>15 DEF ServingInv, AsksShown
  <2> QED BY <2>3, <1>1 DEF ServingInv, AsksShown
<1>18. BornInOrder'
  <2>1. c \in 0..Connections /\ Connections \in Nat
    BY <1>2, <1>6, ServingAssumption DEF c
  <2>2. \A d \in 1..Connections : conns'[d].at # "unborn" <=> d <= c
    BY <1>3, <1>6, <1>9, <1>15
  <2> QED BY <2>1, <2>2 DEF BornInOrder
<1>19. Attended'
  <2>1. ASSUME NEW other \in Client, clients'[other].at = "on"
        PROVE  /\ clients'[other].conn \in 1..Connections
               /\ conns'[clients'[other].conn].client = other
               /\ conns'[clients'[other].conn].at # "unborn"
    <3>1. CASE other = cl
      BY <3>1, <1>2, <1>8, <1>9, <1>15 DEF c
    <3>2. CASE other # cl
      <4>1. clients'[other] = clients[other] /\ Online(other)
        BY <3>2, <2>1, <1>15 DEF Online
      <4>2. /\ clients[other].conn \in 1..Connections
            /\ conns[clients[other].conn].client = other
            /\ conns[clients[other].conn].at # "unborn"
        BY <4>1 DEF ServingInv, Attended
      <4> QED BY <4>1, <4>2, <1>3, <1>15
    <3> QED BY <3>1, <3>2
  <2> QED BY <2>1 DEF Attended, Online
<1>20. TurnShown' /\ ClientsShown'
  <2>1. TurnShown'
    BY <1>1 DEF ServingInv, TurnShown
  <2>2. \A other \in Client : clients'[other].last = clients[other].last
          /\ clients'[other].over = clients[other].over
    BY <1>8, <1>15 DEF had
  <2> QED BY <2>1, <2>2, <1>1 DEF ServingInv, ClientsShown
<1>21. \A d \in 1..Connections : ConnInv(conns'[d], links'[d], kernel', session')
  BY <1>1, <1>13, <1>15 DEF ServingInv
<1>22. ASSUME NEW other \in Client, clients'[other].at = "on"
       PROVE  ClientInv(clients'[other], conns'[clients'[other].conn], links'[clients'[other].conn],
                        kernel', session')
  <2>1. CASE other = cl
    BY <2>1, <1>1, <1>8, <1>14, <1>15
  <2>2. CASE other # cl
    <3>1. clients'[other] = clients[other] /\ Online(other)
      BY <2>2, <1>22, <1>15 DEF Online
    <3>2. /\ clients[other].conn \in 1..Connections /\ conns[clients[other].conn].at # "unborn"
          /\ ClientInv(clients[other], conns[clients[other].conn], links[clients[other].conn], kernel, session)
      BY <3>1 DEF ServingInv, Attended
    <3> QED BY <3>1, <3>2, <1>1, <1>3, <1>15
  <2> QED BY <2>1, <2>2
<1> QED BY <1>16, <1>17, <1>18, <1>19, <1>20, <1>21, <1>22 DEF ServingInv, Online

---------------------------------------------------------------------------
(* The invariant holds.                                                    *)

\* Nobody has connected yet.
LEMMA InitHolds == Init => ServingInv
<1> SUFFICES ASSUME Init PROVE ServingInv
  OBVIOUS
<1> DEFINE empty == [up |-> FALSE, commands |-> <<>>, frames |-> <<>>]
           off == [at |-> "off", conn |-> 0, knows |-> FALSE, last |-> 0, written |-> 0,
                   out |-> 0, busy |-> FALSE, typed |-> 0, detaching |-> FALSE, over |-> FALSE]
<1>1. /\ kernel = [seq |-> 1, fragments |-> 0]
      /\ session = [busy |-> FALSE, turns |-> <<>>, seated |-> Nobody, leaving |-> FALSE, open |-> TRUE]
      /\ asks = <<>> /\ conns = [c \in 1..Connections |-> Unborn]
      /\ clients = [cl \in Client |-> off]
  BY DEF Init
<1>2. links = [c \in 1..Connections |-> empty]
  <2>1. links = [c \in 1..Connections |-> [up |-> FALSE, commands |-> <<>>, frames |-> <<>>]]
    BY DEF Init
  <2> QED BY <2>1
<1>3. MaxFragments \in Nat /\ EventRoom \in Nat /\ VoiceRoom \in Nat /\ Connections \in Nat
  BY ServingAssumption
<1>4. /\ Unborn \in ConnType /\ Unborn.at = "unborn" /\ Unborn.last = 0 /\ Unborn.events = <<>>
      /\ Unborn.voice = <<>> /\ Unborn.answer = <<>> /\ Unborn.hears = FALSE
  BY EmptyLists DEF Unborn, ConnType
<1>5. empty \in LinkType /\ empty.up = FALSE /\ empty.commands = <<>> /\ empty.frames = <<>>
  <2> DEFINE none == <<>>
  <2>1. none \in Seq(Frame) /\ none \in Seq(CommandType)
    OBVIOUS
  <2>2. empty = [up |-> FALSE, commands |-> none, frames |-> none]
    OBVIOUS
  <2> HIDE DEF none
  <2>3. [up |-> FALSE, commands |-> none, frames |-> none] \in LinkType
    BY <2>1 DEF LinkType
  <2> QED BY <2>2, <2>3
<1>6. off \in ClientType /\ off.at = "off" /\ off.last = 0
  BY DEF ClientType
<1> HIDE DEF off
<1>7. ServingTypes
  <2>1. kernel \in [seq : Nat \ {0}, fragments : 0..MaxFragments]
    BY <1>1, <1>3
  <2>2. session \in [busy : BOOLEAN, turns : Seq(Client), seated : 1..Connections \cup {Nobody},
                     leaving : BOOLEAN, open : BOOLEAN]
    <3> DEFINE none == <<>>
    <3>1. none \in Seq(Client)
      OBVIOUS
    <3>2. session = [busy |-> FALSE, turns |-> none, seated |-> Nobody, leaving |-> FALSE, open |-> TRUE]
      BY <1>1
    <3> HIDE DEF none
    <3> QED BY <3>1, <3>2
  <2>3. asks \in Seq(AskType)
    BY <1>1
  <2> HIDE DEF empty
  <2> QED BY <2>1, <2>2, <2>3, <1>1, <1>2, <1>4, <1>5, <1>6 DEF ServingTypes
<1>8. AsksShown
  <2>1. DOMAIN asks = {} /\ session.open
    BY <1>1, EmptyFrames
  <2> QED BY <2>1 DEF AsksShown
<1>9. BornInOrder
  <2>1. 0 \in 0..Connections
    BY <1>3
  <2>2. \A c \in 1..Connections : conns[c].at # "unborn" <=> c <= 0
    BY <1>1, <1>4
  <2> QED BY <2>1, <2>2 DEF BornInOrder
<1>10. \A cl \in Client : ~Online(cl)
  BY <1>1, <1>6 DEF Online
<1>11. Attended /\ TurnShown
  BY <1>1, <1>10 DEF Attended, TurnShown
<1>12. ClientsShown
  BY <1>1, <1>6 DEF ClientsShown
<1>13. ConnInv(Unborn, empty, kernel, session)
  <2>1. ConnPlaced(Unborn, empty)
    BY <1>4, EmptyFrames DEF ConnPlaced
  <2> HIDE DEF empty
  <2>2. ConnFollows(Unborn, empty, kernel, session.open)
    BY <1>1, <1>3, <1>4, <1>5, EmptyFrames DEF ConnFollows, Going
  <2>3. ConnMarked(Unborn, empty, kernel.fragments)
    BY <1>4, <1>5, EmptyFrames DEF ConnMarked
  <2>4. ConnHears(Unborn)
    BY <1>3, <1>4 DEF ConnHears, Going
  <2>5. ConnTold(Unborn, session.busy)
    BY <1>4, EmptyFrames DEF ConnTold, TellsLast, Pending
  <2> QED BY <2>1, <2>2, <2>3, <2>4, <2>5 DEF ConnInv
<1>14. \A c \in 1..Connections : ConnInv(conns[c], links[c], kernel, session)
  BY <1>1, <1>2, <1>13
<1> QED BY <1>7, <1>8, <1>9, <1>10, <1>11, <1>12, <1>14 DEF ServingInv

\* Whatever a connection does keeps the invariant.
LEMMA ConnectionKeeps ==
  ASSUME ServingInv, NEW c \in 1..Connections, Connection(c)
  PROVE  ServingInv'
BY ReadAttachKeeps, ReadReattachKeeps, ReadCommandKeeps, ReadTooLateKeeps, SettleKeeps, UnsettledKeeps,
   DoneKeeps, UndoneKeeps, ReplacedKeeps, HangupKeeps, HearKeeps, HearVoiceKeeps, DeafKeeps, StandsKeeps,
   LastWordKeeps DEF Connection

\* So does whatever happens.
LEMMA NextKeeps == ServingInv /\ [Next]_vars => ServingInv'
<1> SUFFICES ASSUME ServingInv, [Next]_vars PROVE ServingInv'
  OBVIOUS
<1>1. CASE Loop
  BY <1>1, TakeOutcomeKeeps, ForgetKeeps, TellStandingKeeps, AttachKeeps, RefuseKeeps, SubmitKeeps,
     QuitKeeps, EndKeeps DEF Loop
<1>2. CASE TurnSays
  BY <1>2, TurnSaysKeeps
<1>3. ASSUME NEW c \in DOMAIN conns, Connection(c) \/ Cutoff(c) PROVE ServingInv'
  <2>1. c \in 1..Connections
    BY LoopFacts
  <2> QED BY <2>1, <1>3, ConnectionKeeps, CutoffKeeps
<1>4. ASSUME NEW cl \in Client, Outside(cl) PROVE ServingInv'
  BY <1>4, ConnectKeeps, HearsKeeps, HearsNothingKeeps, TypesKeeps, ClosedKeeps DEF Outside
<1>5. CASE UNCHANGED vars
  BY <1>5 DEF vars, ServingInv, ServingTypes, AsksShown, BornInOrder, Attended, TurnShown, ClientsShown, Online
<1> QED BY <1>1, <1>2, <1>3, <1>4, <1>5 DEF Next

\* The inductive invariant holds, of any number of connections, clients and turns and
\* with inboxes of any room: connections, the loop and the links between them never
\* disagree about who waits for what, which records are on the way and what was said.
THEOREM ServingInvariant == Spec => []ServingInv
  BY InitHolds, NextKeeps, PTL DEF Spec

---------------------------------------------------------------------------
(* What follows.                                                           *)

\* A client counts what it is owed (Client::outstanding): commands not yet read, the
\* one being dealt with, and answers on the way.  So it neither waits for an answer that
\* nobody will write nor leaves before the last one.
THEOREM OwedAnswersAreCounted == Spec => []OwedAnswers
<1>1. ASSUME ServingInv PROVE OwedAnswers
  <2>1. TypeOK
    <3>1. /\ kernel.seq \in Nat \ {0} /\ kernel.fragments \in 0..MaxFragments
          /\ session.seated \in DOMAIN conns \cup {Nobody} /\ session.turns \in Seq(Client)
      BY <1>1, LoopFacts DEF KernelType, SessionType
    <3>2. ASSUME NEW c \in DOMAIN conns
          PROVE  /\ conns[c].at \in {"unborn", "new", "attaching", "loop", "asking", "reattaching",
                                     "standing", "closed"}
                 /\ Len(conns[c].events) <= EventRoom /\ Len(conns[c].voice) <= VoiceRoom
                 /\ conns[c].last \in 0..kernel.seq
      <4>1. c \in 1..Connections /\ conns[c] \in ConnType /\ kernel.seq \in Nat
        BY <1>1, LoopFacts
      <4>2. ConnFollows(conns[c], links[c], kernel, session.open) /\ ConnHears(conns[c])
        BY <1>1, <4>1, LoopFacts DEF Shape
      <4>3. conns[c].last \in Nat /\ conns[c].last <= kernel.seq
        BY <4>1, <4>2 DEF ConnType, ConnFollows
      <4> QED BY <4>1, <4>2, <4>3 DEF ConnType, ConnFollows, ConnHears
    <3>3. ASSUME NEW cl \in Client
          PROVE  /\ clients[cl].at \in {"off", "on", "away", "refused", "done"}
                 /\ clients[cl].last \in 0..kernel.seq /\ clients[cl].out \in Nat
      <4>1. clients[cl] \in ClientType /\ kernel.seq \in Nat
        BY <1>1, LoopFacts DEF ServingInv, ServingTypes
      <4>2. clients[cl].last <= kernel.seq
        BY <1>1 DEF ServingInv, ClientsShown
      <4> QED BY <4>1, <4>2 DEF ClientType
    <3> QED BY <3>1, <3>2, <3>3 DEF TypeOK
  <2>2. ASSUME NEW cl \in Client, Online(cl)
               PROVE Counted(clients[cl], conns[clients[cl].conn], links[clients[cl].conn])
    BY <1>1, <2>2 DEF ServingInv, ClientInv
  <2> QED BY <2>1, <2>2 DEF OwedAnswers, Counted, Asking1
<1> QED BY <1>1, ServingInvariant, PTL

\* No word that the turn is over is on the way to a client while its connection still has
\* fragments of that turn to write: `caught_up` comes before it.
THEOREM TheWordComesLast == Spec => []WordComesLast
<1>1. ASSUME ServingInv PROVE WordComesLast
  <2> SUFFICES ASSUME NEW c \in DOMAIN conns, NEW i \in DOMAIN links[c].frames,
                      SaysHowItStands(links[c].frames[i]),
                      NEW j \in DOMAIN conns[c].events, conns[c].events[j] \in 1..links[c].frames[i].mark
               PROVE  FALSE
    BY DEF WordComesLast, Overtaken
  <2>1. c \in 1..Connections /\ conns[c] \in ConnType /\ links[c] \in LinkType
    BY <1>1, LoopFacts
  <2>2. ConnMarked(conns[c], links[c], kernel.fragments)
    BY <1>1, <2>1 DEF ServingInv, ConnInv
  <2>3. conns[c].events[j] # Record => conns[c].events[j] > links[c].frames[i].mark
    BY <2>2 DEF ConnMarked
  <2>4. links[c].frames[i].mark \in Nat
    <3>1. links[c].frames[i] \in Frame
      BY <2>1 DEF LinkType
    <3> QED BY <3>1, FrameFacts
  <2>5. conns[c].events[j] \in Nat
    BY <2>1 DEF ConnType
  <2> QED BY <2>3, <2>4, <2>5 DEF Record
<1> QED BY <1>1, ServingInvariant, PTL

\* A client whose connection has nothing left to do knows every record and whether the
\* session is busy, whatever was dropped from a full inbox on the way.
THEOREM AllIsKnownAtRest == Spec => []AtRestTheyAgree
<1>1. ASSUME ServingInv PROVE AtRestTheyAgree
  <2> SUFFICES ASSUME NEW cl \in Client, Online(cl), Quiet(clients[cl].conn), session.open
               PROVE  clients[cl].last = kernel.seq /\ clients[cl].busy = session.busy
    BY DEF AtRestTheyAgree
  <2> DEFINE c == clients[cl].conn
  <2>1. /\ c \in 1..Connections /\ conns[c] \in ConnType /\ kernel.seq \in Nat
        /\ ConnInv(conns[c], links[c], kernel, session)
        /\ ClientInv(clients[cl], conns[c], links[c], kernel, session)
    BY <1>1, OnlineFacts
  <2>2. /\ conns[c].at = "loop" /\ links[c].up /\ links[c].frames = <<>>
        /\ conns[c].events = <<>> /\ conns[c].voice = <<>> /\ ~conns[c].lagged /\ ~conns[c].deaf
    BY DEF Quiet
  <2> HIDE DEF c
  <2>3. DOMAIN conns[c].events = {} /\ DOMAIN links[c].frames = {} /\ DOMAIN conns[c].voice = {}
    BY <2>2, EmptyFrames
  <2>4. conns[c].last = kernel.seq
    <3>1. conns[c].last \in Nat /\ conns[c].last <= kernel.seq /\ ~(conns[c].last < kernel.seq)
      BY <2>1, <2>2, <2>3 DEF ConnType, ConnInv, ConnFollows, Going
    <3> QED BY <3>1, <2>1
  <2>5. clients[cl].last = conns[c].last
    BY <2>1, <2>2, <2>3 DEF ClientInv, Follows, Leads, Going
  <2>6. conns[c].answer = <<>>
    <3> SUFFICES ASSUME conns[c].answer # <<>> PROVE FALSE
      OBVIOUS
    <3>1. AnswerFits(Head(conns[c].answer).about, "loop")
      BY <1>1, <2>1, <2>2, WordFacts
    <3> QED BY <3>1 DEF AnswerFits
  <2>7. Leaves(links[c].frames, clients[cl].busy, session.busy)
    BY <2>1, <2>2, <2>3, <2>6 DEF ClientInv, Told, Silent, Pending
  <2>8. clients[cl].busy = session.busy
    BY <2>3, <2>7 DEF Leaves, Silent
  <2> QED BY <2>4, <2>5, <2>8
<1> QED BY <1>1, ServingInvariant, PTL

\* Nobody but a client changes what it knows.
LEMMA OthersLeaveIt ==
  ASSUME [Next]_vars
  PROVE  clients' = clients \/ \E cl \in Client : Outside(cl)
<1>1. Loop \/ TurnSays => clients' = clients
  BY ZenonT(60) DEF Loop, TurnSays, TakeOutcome, Forget, TellStanding, Attach, Refuse, Submit, Quit, End
<1>2. ASSUME NEW c \in DOMAIN conns, Connection(c) PROVE clients' = clients
  BY <1>2 DEF Connection, ReadAttach, ReadReattach, ReadCommand, ReadTooLate, Settle, Unsettled, Done, Undone,
    Replaced, Hangup, Hear, HearVoice, Deaf, Stands, LastWord, Forwards, Closes, Goes
<1>3. ASSUME NEW c \in DOMAIN conns, Cutoff(c) PROVE clients' = clients
  BY <1>3 DEF Cutoff
<1> QED BY <1>1, <1>2, <1>3, SMTT(30) DEF Next, vars

\* The record that a client reads is the next one it needs.
LEMMA WhatItReads ==
  ASSUME ServingInv, [Next]_vars, NEW cl \in Client, Online(cl), ~clients[cl].detaching,
         clients'[cl].last # clients[cl].last, Head(links[clients[cl].conn].frames).kind = "record"
  PROVE  clients'[cl].last = clients[cl].last + 1
<1> DEFINE c == clients[cl].conn
<1>1. clients \in [Client -> ClientType]
  BY DEF ServingInv, ServingTypes
<1>2. Hears(cl)
  <2>1. PICK other \in Client : Outside(other)
    BY OthersLeaveIt
  <2>2. CASE Connect(other)
    <3>1. clients'[cl].last = clients[cl].last
      BY <2>2, <1>1 DEF Connect
    <3> QED BY <3>1
  <2>3. CASE HearsNothing(other)
    BY <2>3, <1>1 DEF HearsNothing
  <2>4. CASE Types(other)
    BY <2>4, <1>1 DEF Types
  <2>5. CASE Closed(other)
    BY <2>5, <1>1 DEF Closed
  <2>6. CASE Hears(other) /\ other # cl
    <3>1. \E client : clients' = [clients EXCEPT ![other] = client]
      BY <2>6, ZenonT(60) DEF Hears
    <3> QED BY <3>1, <2>6, <1>1, SMTT(30)
  <2> QED BY <2>1, <2>2, <2>3, <2>4, <2>5, <2>6 DEF Outside
<1>3. links[c].frames # <<>>
  BY <1>2 DEF Hears
<1> DEFINE frame == Head(links[c].frames)
           client == Heard(clients[cl], frame)
<1>4. clients'[cl].last = client.last
  <2>1. \/ clients' = [clients EXCEPT ![cl] = [client EXCEPT !.at = "refused"]]
        \/ clients' = [clients EXCEPT ![cl] = [client EXCEPT !.out = 1]]
        \/ clients' = [clients EXCEPT ![cl] = [client EXCEPT !.at = "done"]]
        \/ clients' = [clients EXCEPT ![cl] = client]
    BY <1>2 DEF Hears
  <2>2. client \in ClientType
    <3>1. frame \in Frame
      BY <1>3, OnlineFacts, Behind
    <3> QED BY <3>1, <1>1, HeardFacts
  <2> HIDE DEF client
  <2>3. /\ [client EXCEPT !.at = "refused"].last = client.last
        /\ [client EXCEPT !.out = 1].last = client.last
        /\ [client EXCEPT !.at = "done"].last = client.last
    BY <2>2 DEF ClientType
  <2> QED BY <2>1, <2>3, <1>1
<1>5. links[c].frames \in Seq(Frame) /\ InTurn(links[c].frames, clients[cl].last)
  BY OnlineFacts DEF ClientInv, Follows
<1>6. frame = links[c].frames[1] /\ frame \in Frame
  BY <1>3, <1>5, Behind
<1>7. frame.seq = clients[cl].last + 1
  BY <1>3, <1>5, <1>6, InTurnTail
<1>8. client.last = frame.seq
  BY <1>1, <1>6, HeardFacts DEF Further, Bearing
<1> QED BY <1>4, <1>7, <1>8

\* No record is left out and none comes twice, whatever was cut, resumed or lagged behind.
THEOREM RecordsComeInOrder == Spec => NoHoles
<1>1. ServingInv /\ [Next]_vars =>
        [\A cl \in Client :
           LET c == clients[cl].conn
           IN  Online(cl) /\ ~clients[cl].detaching /\ clients'[cl].last # clients[cl].last
                 /\ Head(links[c].frames).kind = "record"
                 => clients'[cl].last = clients[cl].last + 1]_vars
  BY WhatItReads
<1> QED BY <1>1, ServingInvariant, PTL DEF Spec, NoHoles

\* What makes a client take its connection for dropped.
LEMMA WhyItGoes ==
  ASSUME ServingInv, [Next]_vars, NEW cl \in Client, Online(cl), clients'[cl].at = "away"
  PROVE  ~links[clients[cl].conn].up \/ ~clients[cl].knows
<1> DEFINE c == clients[cl].conn
<1>1. clients \in [Client -> ClientType] /\ clients[cl].at = "on"
  BY DEF ServingInv, ServingTypes, Online
<1>2. HearsNothing(cl)
  <2>1. PICK other \in Client : Outside(other)
    BY <1>1, OthersLeaveIt
  <2>2. CASE Connect(other)
    BY <2>2, <1>1 DEF Connect
  <2>3. CASE HearsNothing(other) /\ other # cl
    BY <2>3, <1>1 DEF HearsNothing
  <2>4. CASE Types(other)
    BY <2>4, <1>1 DEF Types
  <2>5. CASE Closed(other)
    BY <2>5, <1>1 DEF Closed
  <2>6. CASE Hears(other) /\ other # cl
    <3>1. \E client : clients' = [clients EXCEPT ![other] = client]
      BY <2>6 DEF Hears
    <3> QED BY <3>1, <2>6, <1>1, SMTT(30)
  <2>7. CASE Hears(cl)
    <3> DEFINE frame == Head(links[c].frames)
               client == Heard(clients[cl], frame)
    <3>1. \/ clients' = [clients EXCEPT ![cl] = [client EXCEPT !.at = "refused"]]
          \/ clients' = [clients EXCEPT ![cl] = [client EXCEPT !.out = 1]]
          \/ clients' = [clients EXCEPT ![cl] = [client EXCEPT !.at = "done"]]
          \/ clients' = [clients EXCEPT ![cl] = client]
      BY <2>7 DEF Hears
    <3>2. client \in ClientType /\ client.at = "on"
      <4>1. links[c].frames # <<>>
        BY <2>7 DEF Hears
      <4>2. frame \in Frame
        BY <4>1, OnlineFacts, Behind
      <4> QED BY <4>2, <1>1, HeardFacts, SMTT(30)
    <3> HIDE DEF client
    <3>3. /\ [client EXCEPT !.at = "refused"].at = "refused"
          /\ [client EXCEPT !.out = 1].at = "on"
          /\ [client EXCEPT !.at = "done"].at = "done"
      BY <3>2 DEF ClientType
    <3> QED BY <3>1, <3>2, <3>3, <1>1
  <2> QED BY <2>1, <2>2, <2>3, <2>4, <2>5, <2>6, <2>7 DEF Outside
<1>3. links[c].frames = <<>> /\ (conns[c].at = "closed" \/ ~links[c].up)
  BY <1>2 DEF HearsNothing
<1>4. ~clients[cl].over
  <2>1. clients'[cl].at = IF clients[cl].over THEN "done" ELSE "away"
    BY <1>1, <1>2 DEF HearsNothing, ClientType
  <2> QED BY <2>1
<1>5. Follows(clients[cl], conns[c], links[c], kernel, session.open)
      /\ (~session.open /\ clients[cl].last = kernel.seq => clients[cl].over)
  BY OnlineFacts DEF ClientInv
<1>6. DOMAIN links[c].frames = {}
  BY <1>3, EmptyFrames
<1>7. links[c].up /\ conns[c].at = "closed" =>
        \/ ~session.open /\ clients[cl].last = kernel.seq
        \/ ~clients[cl].knows
  BY <1>5, <1>6 DEF Follows, Leads
<1> QED BY <1>3, <1>4, <1>5, <1>7

\* A client that has attached does so only where the connection was cut: a session that
\* ends, and one that is taken over, say so first.
THEOREM DroppedIfCut == Spec => DroppedOnlyIfCut
<1>1. ServingInv /\ [Next]_vars =>
        [\A cl \in Client :
           Online(cl) /\ clients'[cl].at = "away"
             => ~links[clients[cl].conn].up \/ ~clients[cl].knows]_vars
  BY WhyItGoes
<1> QED BY <1>1, ServingInvariant, PTL DEF Spec, DroppedOnlyIfCut
=============================================================================
