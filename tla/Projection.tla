----------------------------- MODULE Projection -----------------------------
(***************************************************************************)
(* The default projector (nachalnik/src/projection.rs, LinearProjector):   *)
(* the messages of a request, made from the items of a context.            *)
(*                                                                         *)
(* Three passes, as in the code: `Pairings` counts how many calls and how  *)
(* many results the projected items hold, `Build` decides about each item  *)
(* in order while consuming those counts, `WireOrder` moves every result   *)
(* behind the call it answers.  A message keeps what the properties tell   *)
(* apart: whose item it is, whether it shows the item's words, a marker or *)
(* nothing, the calls it makes and the call it answers.  Reasoning, labels *)
(* and the choice between ordered blocks and three slots are left out.     *)
(***************************************************************************)
EXTENDS Context

CONSTANTS
  RepairOrphans,  \* LinearProjector::repair_orphans
  EmptyText       \* the text that is no text at all

ASSUME ProjectionAssumption ==
  RepairOrphans \in BOOLEAN /\ EmptyText \in Texts /\ NoCall \notin Calls

Projected(items) == {k \in DOMAIN items : IsProjected(items[k].state)}

\* ContextItem::calls: only an assistant turn makes calls.
CallsOf(item) == IF item.kind = "assistant" THEN item.calls ELSE <<>>

\* session::named_calls: the calls a turn makes, or the one a result answers.
NamedCalls(item) ==
  ToSet(CallsOf(item)) \cup (IF item.kind = "result" THEN {item.answers} ELSE {})

\* Where a call is made among the projected items, and which of them are its results.
Asking(items, call) ==
  UNION {{k} \X {j \in DOMAIN CallsOf(items[k]) : CallsOf(items[k])[j] = call} :
           k \in Projected(items)}
Answering(items, call) ==
  {k \in Projected(items) : items[k].kind = "result" /\ items[k].answers = call}

\* pairings: how many results can answer each call, and how many times each
\* call is made, among the projected items.
Pairings(items) ==
  [answers |-> [c \in Calls |-> Cardinality(Answering(items, c))],
   calls   |-> [c \in Calls |-> Cardinality(Asking(items, c))]]

\* The calls of one turn that still have a result to claim, in order, and what
\* is left to claim; `turn` with `claim`.
ClaimCalls(calls, left) ==
  FoldLeft(LAMBDA acc, c :
             IF ~RepairOrphans THEN [acc EXCEPT !.kept = Append(@, c)]
             ELSE IF acc.left[c] = 0 THEN acc
             ELSE [kept |-> Append(acc.kept, c), left |-> [acc.left EXCEPT ![c] = @ - 1]],
           [kept |-> <<>>, left |-> left], calls)

Says(item) == IF item.state = "Elided" THEN "marker"
              ELSE IF item.kind = "assistant" /\ item.text = EmptyText THEN "nothing"
              ELSE "words"

Message(item, calls) ==
  [id |-> item.id, says |-> Says(item), calls |-> calls,
   answers |-> IF item.kind = "result" THEN item.answers ELSE NoCall]

\* Wrong form of BuildItem: a turn that is elided and has no call left is skipped
\* like one that says nothing, so that eliding it costs its place.
BuildItemLosingMarkers(acc, item) ==
  LET turn == ClaimCalls(item.calls, acc.answers) IN
  IF ~IsProjected(item.state) \/ (item.kind = "result" /\ acc.calls[item.answers] = 0)
  THEN [acc EXCEPT !.skipped = @ \cup {item.id}]
  ELSE IF item.kind = "result"
  THEN [acc EXCEPT !.built = Append(@, Message(item, <<>>)), !.calls[item.answers] = @ - 1]
  ELSE IF item.kind = "plain"
  THEN [acc EXCEPT !.built = Append(@, Message(item, <<>>))]
  ELSE IF turn.kept = <<>> /\ (item.text = EmptyText \/ item.state = "Elided")
  THEN [acc EXCEPT !.skipped = @ \cup {item.id}, !.answers = turn.left]
  ELSE [acc EXCEPT !.built = Append(@, Message(item, turn.kept)), !.answers = turn.left]

\* Wrong form of BuildItem: an orphaned result is dropped and not listed.
BuildItemSilently(acc, item) ==
  IF item.kind = "result" /\ IsProjected(item.state)
  THEN IF acc.calls[item.answers] = 0 THEN acc
       ELSE [acc EXCEPT !.built = Append(@, Message(item, <<>>)),
                        !.calls[item.answers] = @ - 1]
  ELSE BuildItemLosingMarkers(acc, item)

\* Wrong form of BuildItem: any result uses up any call, its own or another.
BuildItemSharingCounts(acc, item) ==
  LET left == {c \in Calls : acc.calls[c] > 0} IN
  IF item.kind # "result" THEN BuildItemLosingMarkers(acc, item)
  ELSE IF left = {} \/ ~IsProjected(item.state)
  THEN [acc EXCEPT !.skipped = @ \cup {item.id}]
  ELSE [acc EXCEPT !.built = Append(@, Message(item, <<>>)),
                   !.calls[CHOOSE c \in left : TRUE] = @ - 1]

\* One item of LinearProjector::build.  `acc` holds the counts still to be
\* claimed, the messages built and the items skipped.
BuildItem(acc, item) ==
  LET turn == ClaimCalls(item.calls, acc.answers)
      skip == [acc EXCEPT !.skipped = @ \cup {item.id}]
  IN  IF ~IsProjected(item.state) THEN skip
      ELSE CASE item.kind = "plain" ->
                  [acc EXCEPT !.built = Append(@, Message(item, <<>>))]
             [] item.kind = "assistant" ->
                  IF Says(item) = "nothing" /\ turn.kept = <<>>
                  THEN [skip EXCEPT !.answers = turn.left]
                  ELSE [acc EXCEPT !.built = Append(@, Message(item, turn.kept)),
                                   !.answers = turn.left]
             [] item.kind = "result" ->
                  IF RepairOrphans /\ acc.calls[item.answers] = 0 THEN skip
                  ELSE [acc EXCEPT !.built = Append(@, Message(item, <<>>)),
                                   !.calls[item.answers] =
                                     IF RepairOrphans THEN @ - 1 ELSE @]

Build(items) ==
  LET counted == Pairings(items)
  IN  FoldLeft(BuildItem,
               [answers |-> counted.answers, calls |-> counted.calls,
                built |-> <<>>, skipped |-> {}],
               items)

Asked(built) == UNION {ToSet(built[k].calls) : k \in DOMAIN built}

\* The first message answering this call that has no place yet, or 0.
NextAnswer(built, placed, call) ==
  LET open == {k \in DOMAIN built : built[k].answers = call /\ k \notin placed}
  IN  IF open = {} THEN 0 ELSE Min(open)

\* Wrong form of PlaceAnswer: every result with the call's identifier is taken.
PlaceEveryAnswer(built, acc, call) ==
  LET open == Ascending({k \in DOMAIN built :
                           built[k].answers = call /\ k \notin ToSet(acc.order)})
  IN  IF open = <<>> THEN acc
      ELSE [order |-> acc.order \o open, adjacent |-> acc.adjacent + Len(open),
            moved |-> acc.moved \cup (IF open[1] = acc.adjacent THEN {}
                                      ELSE {built[open[1]].id})]

\* Wrong form of PlaceAnswer: the place behind the turn is not moved on as
\* answers fill it.
PlaceAnswerStandingStill(built, acc, call) ==
  LET answer == NextAnswer(built, ToSet(acc.order), call)
  IN  IF answer = 0 THEN acc
      ELSE [acc EXCEPT !.order = Append(@, answer),
                       !.moved = @ \cup (IF answer = acc.adjacent THEN {}
                                         ELSE {built[answer].id})]

\* One call of a placed turn: its answer goes directly behind, and is reported
\* as moved unless it was there already.
PlaceAnswer(built, acc, call) ==
  LET answer == NextAnswer(built, ToSet(acc.order), call)
  IN  IF answer = 0 THEN acc
      ELSE [order    |-> Append(acc.order, answer),
            adjacent |-> acc.adjacent + 1,
            moved    |-> acc.moved \cup
                           (IF answer = acc.adjacent THEN {} ELSE {built[answer].id})]

\* One message of in_wire_order: a result waits for its call to place it,
\* unless nothing in the request asks for it.
PlaceMessage(built, acc, at) ==
  IF at \in ToSet(acc.order) \/ built[at].answers \in Asked(built) THEN acc
  ELSE FoldLeft(LAMBDA a, call : PlaceAnswer(built, a, call),
                [order |-> Append(acc.order, at), adjacent |-> at + 1, moved |-> acc.moved],
                built[at].calls)

\* in_wire_order: positions of `built` in the order of the request, and the
\* items reported as moved.  Whatever no call placed goes last.
WireOrder(built) ==
  LET placed == FoldLeft(LAMBDA acc, at : PlaceMessage(built, acc, at),
                         [order |-> <<>>, adjacent |-> 0, moved |-> {}],
                         [k \in DOMAIN built |-> k])
      rest   == Ascending(DOMAIN built \ ToSet(placed.order))
  IN  [order |-> placed.order \o rest, moved |-> placed.moved]

\* LinearProjector::project.
Project(items) ==
  LET built == Build(items)
      wire  == WireOrder(built.built)
  IN  [messages  |-> [k \in DOMAIN wire.order |-> built.built[wire.order[k]]],
       skipped   |-> built.skipped,
       reordered |-> wire.moved]

\* Projection::included, as a set.
Carrying(items) ==
  LET sent == Project(items).messages IN {sent[k].id : k \in DOMAIN sent}
=============================================================================
