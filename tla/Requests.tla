------------------------------ MODULE Requests ------------------------------
(***************************************************************************)
(* A request and what comes before it (nachalnik/src/kernel/request.rs):   *)
(* the compactor's pass, the notice that the context is full, the request  *)
(* that follows, and the answer's first item; and kamchatka rewriting the  *)
(* notice (`refresh_full_notice` of app/mod.rs).                           *)
(*                                                                         *)
(* The context and what clients do to it are KernelContext's.  A request   *)
(* reads and changes it many times, one hold of the lock after another,    *)
(* and clients get in between: while the compactor plans, while the notice *)
(* is weighed, while the provider answers.  Each action is one hold.       *)
(*                                                                         *)
(* A message costs two tokens, a marker or a turn that says nothing one.   *)
(* The compactor wants room from FullAt tokens on; whether it looks, and   *)
(* what it plans, is anything.                                             *)
(***************************************************************************)
EXTENDS KernelContext

CONSTANTS
  Wordings,    \* what the full notice may say
  NoticeItem,  \* the item it is, in any words
  Limit,       \* the model's context_limit, or 0 where it is not known
  FullAt,      \* Compactor::wants_room
  Summaries,   \* what a plan may bring: at most one item
  MidRequest,  \* bound: whether the notice is rewritten while a request is made
  MaxRewrites  \* bound: how often it is

\* The notice is a reference, as kamchatka makes it: plain, and in the request.
ASSUME RequestsAssumption ==
  /\ Wordings \subseteq Texts /\ NoticeItem \in Item /\ NoticeItem.text \in Wordings
  /\ NoticeItem.kind = "plain" /\ NoticeItem.state = "Active"
  /\ Summaries \subseteq {<<>>} \cup {<<item>> : item \in Pushable}
  /\ {Limit, FullAt, MaxRewrites} \subseteq Nat
  /\ MidRequest \in BOOLEAN

VARIABLES
  req,      \* the request being made, and how far it is
  full,     \* InnerKernel::full
  notice,   \* InnerKernel::full_notice: its words
  given,    \* the words mark_full read, while it is at work
  rewrite,  \* App::refresh_full_notice: the words it goes to, and the items left
  walked    \* history: somebody undid or redid, and what that may have brought back still stands

requests == <<req, full, notice, given, rewrite, walked>>
rest == <<full, notice, given, rewrite, walked>>

\* No request.  While one is built, `placed` and `taken` are the items the kernel itself
\* put in and took out and nobody moved since, and `touched` says that a client has changed
\* the context since the notice was weighed.
NoRequest ==
  [at |-> "no", carried |-> {}, cost |-> 0, full |-> FALSE,
   retiring |-> {}, placed |-> {}, taken |-> {}, touched |-> FALSE]

NoRewrite == [at |-> "no", to |-> NoticeItem.text, left |-> {}, done |-> 0]

RequestsInit ==
  /\ Init
  /\ req = NoRequest /\ full = FALSE /\ notice = NoticeItem.text /\ given = NoticeItem.text
  /\ rewrite = NoRewrite
  /\ walked = FALSE

---------------------------------------------------------------------------
(* Building.                                                               *)

\* projection_cost.
Cost(items) ==
  LET sent == Project(items).messages
  IN  Len(sent) + Cardinality({k \in DOMAIN sent : sent[k].says = "words"})

\* build_request, with the cost of what it built.
Built(r, items) == [r EXCEPT !.carried = Carrying(items), !.cost = Cost(items)]

\* Kernel::oversized.
Oversized(cost) == Limit # 0 /\ cost > Limit

\* The copies of the notice, in these words, that send them.
Copies(items, words) ==
  {k \in DOMAIN items : /\ items[k].kind = NoticeItem.kind /\ items[k].text = words
                        /\ SendsContent(items[k].state)}

\* Those nobody decided to keep: in other words than the notice's they are stale.
Active(items, words) == {k \in Copies(items, words) : items[k].state = "Active"}
Stale == UNION {Active(ctx.items, words) : words \in Wordings \ {notice}}

\* carries.
Fits(items, words) ==
  ~Oversized(Cost(Append(items, [NoticeItem EXCEPT !.id = ctx.next, !.text = words])))

At(place) == req.at = place
Goes(place) == req' = [req EXCEPT !.at = place]

---------------------------------------------------------------------------
(* compacted.                                                              *)

\* The step claims the machine and builds; nothing happens to the context between.
Ask ==
  /\ At("no") /\ Claim /\ (MidRequest \/ rewrite.at = "no")
  /\ req' = [Built(NoRequest, ctx.items) EXCEPT !.at = "built"]
  /\ UNCHANGED rest

\* There is no compactor now - set_compactor may come at any time - or it does not want a
\* look at a request of this cost.
LeaveBe ==
  /\ At("built")
  /\ req' = [req EXCEPT !.at = "marking", !.full = FALSE]
  /\ UNCHANGED <<vars, rest>>

Consult ==
  /\ At("built")
  /\ req' = [NoRequest EXCEPT !.at = "planning"] /\ UNCHANGED <<vars, rest>>

\* Its plan is applied to the context as it is by then.
ApplyPlan(plan) ==
  /\ At("planning") /\ ApplyCompaction(plan)
  /\ req' = [req EXCEPT !.at = "planned", !.taken = Removing(ctx.items, plan, Carrying(ctx.items))]
  /\ UNCHANGED rest

\* It has none, or one that moves nothing.
NoPlan ==
  /\ At("planning") /\ Goes("planned") /\ UNCHANGED <<vars, rest>>

\* The request is built again, and measured.
BuildAgain ==
  /\ At("planned")
  /\ req' = [Built(req, ctx.items) EXCEPT !.at = "marking", !.full = Cost(ctx.items) >= FullAt]
  /\ UNCHANGED <<vars, rest>>

---------------------------------------------------------------------------
(* mark_full.                                                              *)

\* Nothing to say: the request stands as it was built.
AsBefore ==
  /\ At("marking") /\ req.full = full
  /\ Goes("ready") /\ UNCHANGED <<vars, rest>>

\* It is said, and the notice is read.
Mark ==
  /\ At("marking") /\ req.full # full
  /\ full' = req.full /\ walked' = (walked /\ (req.full \/ Stale # {}))
  /\ Goes("looking") /\ given' = notice
  /\ UNCHANGED <<vars, notice, rewrite>>

\* The items are read: a copy that stands is the notice already given; and with room
\* again, those that are nobody's decision to keep are to go.
Look ==
  /\ At("looking")
  /\ LET copies == Copies(ctx.items, given)
         active == {k \in copies : ctx.items[k].state = "Active"}
     IN  req' = IF ~full
                THEN [req EXCEPT !.at = "retiring", !.retiring = {ctx.items[k].id : k \in active}]
                ELSE [req EXCEPT !.at = IF copies = {} THEN "weighing" ELSE "marked"]
  /\ UNCHANGED <<vars, rest>>

\* Wrong form of Weigh: whether it fits is not asked.
WeighNothing ==
  /\ At("weighing")
  /\ req' = [req EXCEPT !.at = "placing", !.touched = FALSE]
  /\ UNCHANGED <<vars, rest>>

\* Whether the request would still be under the limit with it.
Weigh ==
  /\ At("weighing")
  /\ req' = [req EXCEPT !.at = IF Fits(ctx.items, given) THEN "placing" ELSE "marked",
                        !.touched = FALSE]
  /\ UNCHANGED <<vars, rest>>

Place ==
  /\ At("placing") /\ Push([NoticeItem EXCEPT !.text = given])
  /\ req' = [req EXCEPT !.at = "marked", !.placed = {ctx.next}]
  /\ UNCHANGED rest

\* The changes that exclude these items, in the order of their ids.
Excluding(ids) ==
  [k \in DOMAIN Ascending(ids) |-> [id |-> Ascending(ids)[k], state |-> "Excluded", note |-> NoNote]]

\* Wrong form of Retire: the notice stays.
RetireNothing ==
  /\ At("retiring") /\ Goes("marked") /\ UNCHANGED <<vars, rest>>

Retire ==
  /\ At("retiring")
  /\ LET changes == Excluding(req.retiring)
     IN  IF Targets(changes) = {} THEN UNCHANGED vars ELSE SetStates(changes)
  /\ req' = [req EXCEPT !.at = "marked", !.taken = @ \cup req.retiring]
  /\ UNCHANGED rest

\* Wrong form of BuildLast: what was built before the notice is what is sent.
BuildNoMore ==
  /\ At("marked") /\ Goes("ready") /\ given' = NoticeItem.text
  /\ UNCHANGED <<vars, full, notice, rewrite, walked>>

\* compacted ends: the notice may have changed the request, so it is built once more.
BuildLast ==
  /\ At("marked")
  /\ req' = [Built(req, ctx.items) EXCEPT !.at = "ready"] /\ given' = NoticeItem.text
  /\ UNCHANGED <<vars, full, notice, rewrite, walked>>

---------------------------------------------------------------------------
(* request.                                                                *)

\* The step fails: there is nothing to send, or more than the model reads.
Refuse ==
  /\ At("ready") /\ (req.carried = {} \/ Oversized(req.cost))
  /\ Abandon /\ req' = NoRequest /\ UNCHANGED rest

Send ==
  /\ At("ready") /\ req.carried # {} /\ ~Oversized(req.cost)
  /\ req' = [NoRequest EXCEPT !.at = "out"] /\ UNCHANGED <<vars, rest>>

\* The provider fails, or the future is dropped: here, or while the compactor plans.
GiveUp ==
  /\ req.at \in {"planning", "out"}
  /\ Abandon /\ req' = NoRequest /\ UNCHANGED rest

\* The answer is recorded.
Record(item) ==
  /\ At("out") /\ RecordFirst(item)
  /\ req' = [NoRequest EXCEPT !.at = "recorded"] /\ UNCHANGED rest

\* The rest of the step, and of those that run its calls, is Machine's.
Further ==
  /\ At("recorded")
  /\ CloseBatch \/ \E item \in Recordable : RecordFirst(item) \/ RecordNext(item)
  /\ UNCHANGED requests

Conclude ==
  /\ At("recorded")
  /\ Release \/ Abandon \/ \E answer \in batch.ids : Finish(answer)
  /\ req' = NoRequest /\ UNCHANGED rest

---------------------------------------------------------------------------
(* Clients.                                                                *)

\* A client has moved these items, or changed what there is.
Touched(ids) ==
  IF req.at \in {"no", "built", "planning", "ready", "out", "recorded"} THEN req
  ELSE [req EXCEPT !.placed = @ \ ids, !.taken = @ \ ids, !.touched = TRUE]

ClientPush(item) ==
  /\ Push(item) /\ req' = Touched({}) /\ UNCHANGED rest

ClientMoves(change) ==
  /\ change.note = NoNote /\ SetStates(<<change>>) /\ req' = Touched({change.id}) /\ UNCHANGED rest

\* An undo or a redo may bring an older notice back.
Walk ==
  /\ Undo \/ Redo
  /\ walked' = TRUE
  /\ UNCHANGED <<req, full, notice, given, rewrite>>

\* Kamchatka has other words for the notice: the copies that stand are read.
Reword(words) ==
  /\ rewrite.at = "no" /\ words # notice /\ rewrite.done < MaxRewrites
  /\ MidRequest \/ At("no")
  /\ rewrite' = [rewrite EXCEPT !.at = "replacing", !.to = words,
                   !.left = {ctx.items[k].id : k \in Copies(ctx.items, notice)}]
  /\ UNCHANGED <<vars, req, full, notice, given, walked>>

\* Each is rewritten where it stands.
RewordOne(id) ==
  /\ rewrite.at = "replacing" /\ id \in rewrite.left
  /\ IF id \in Listed /\ ItemOf(ctx.items, id).text # rewrite.to
     THEN ReplaceItem(id, rewrite.to) ELSE UNCHANGED vars
  /\ rewrite' = [rewrite EXCEPT !.left = @ \ {id}]
  /\ req' = Touched({}) /\ UNCHANGED <<full, notice, given, walked>>

\* And set_full_notice.
Reworded ==
  /\ rewrite.at = "replacing" /\ rewrite.left = {}
  /\ notice' = rewrite.to
  /\ rewrite' = [rewrite EXCEPT !.at = "no", !.done = @ + 1]
  /\ UNCHANGED <<vars, req, full, given, walked>>

---------------------------------------------------------------------------
Brought == [remove : SUBSET Planned, elide : SUBSET Planned, summary : Summaries]

Kernel ==
  \/ Ask \/ LeaveBe \/ Consult \/ (\E plan \in Brought : ApplyPlan(plan)) \/ NoPlan \/ BuildAgain
  \/ AsBefore \/ Mark \/ Look \/ Weigh \/ Place \/ Retire \/ BuildLast
  \/ Refuse \/ Send \/ GiveUp \/ Conclude
  \/ Further \/ \E item \in Recordable : Record(item)

Client ==
  \/ \E item \in Pushable : ClientPush(item)
  \/ \E change \in Change : ClientMoves(change)
  \/ Walk
  \/ (\E words \in Wordings : Reword(words)) \/ (\E id \in rewrite.left : RewordOne(id)) \/ Reworded

RequestsNext == Kernel \/ Client

RequestsSpec == RequestsInit /\ [][RequestsNext]_<<vars, requests>>

---------------------------------------------------------------------------
(* What must hold.                                                         *)

Places == {"no", "built", "planning", "planned", "marking", "looking", "weighing", "placing",
           "retiring", "marked", "ready", "out", "recorded"}

RequestsTypeOK ==
  /\ req.at \in Places /\ req.cost \in Nat /\ {req.full, req.touched} \subseteq BOOLEAN
  /\ \A ids \in {req.carried, req.placed, req.taken, req.retiring} : ids \subseteq 1..TopId
  /\ {full, walked} \subseteq BOOLEAN /\ {notice, given, rewrite.to} \subseteq Wordings
  /\ rewrite.at \in {"no", "replacing"}

\* What goes out is the context as the kernel itself left it: it carries the notice just
\* placed, and nothing the pass or the notice's end just took out, wherever clients got
\* in between; what they moved is theirs.  And the notice is never why it is too long, as
\* long as no client changed the context after the notice was weighed.
SentAsLeft ==
  /\ RequestsTypeOK
  /\ At("ready") =>
       /\ req.placed \subseteq req.carried /\ req.taken \cap req.carried = {}
       /\ req.placed # {} /\ ~req.touched => ~Oversized(req.cost)

\* A plan made about another context takes no pinned item out of the request.
PlansSparePins ==
  [][At("planning") /\ req'.at = "planned" =>
       LET left == Carrying(ctx'.items)
       IN  \A k \in DOMAIN ctx.items :
             ctx.items[k].state = "Pinned" /\ ctx.items[k].id \in Carrying(ctx.items)
               => ctx.items[k].id \in left]_<<vars, requests>>

\* Between requests there is at most one notice that nobody pinned, and it stands only
\* while the context is full - unless an older one was brought back.
Settled == req.at \in {"no", "ready", "out", "recorded"} /\ rewrite.at = "no"

NoticeFollows ==
  Settled /\ ~walked =>
    LET all == UNION {Active(ctx.items, words) : words \in Wordings}
    IN  Cardinality(all) <= (IF full THEN 1 ELSE 0)

\* "a copy in the old words would never be taken out again", so there is none (the comment
\* on refresh_full_notice).
OldWordsGo ==
  Settled /\ ~walked => Stale = {}
=============================================================================
