------------------------------- MODULE Machine -------------------------------
(***************************************************************************)
(* The state machine of a kernel and everybody who drives it               *)
(* (nachalnik/src/kernel/machine.rs, calls.rs, and the frame of            *)
(* request.rs).                                                            *)
(*                                                                         *)
(* A driver is a task in `turn`, `step` or `cancel_pending_calls`.  Any    *)
(* number of them work on one kernel; each hold of the machine's lock is   *)
(* one action, and whatever lies between two holds or behind an await is   *)
(* where the others get in.  Interrupts, decisions and the undo of an      *)
(* answer come from anywhere, each under the lock.                         *)
(*                                                                         *)
(* The calls of the last answer are numbered in the order asked, which is  *)
(* also how their permissions are told apart; `repair_call_ids` keeps the  *)
(* identifiers of one kernel distinct, and a decision about an earlier     *)
(* answer's permission finds nothing.  What a call says or returns, and    *)
(* the context it is recorded in, are KernelContext's.                     *)
(***************************************************************************)
EXTENDS Integers, SequencesExt

CONSTANTS
  Drivers,      \* the tasks that drive the kernel
  MaxBatch,     \* bound: how many calls one answer asks for
  Ceiling,      \* Kernel::call_ceiling
  MaxRequests,  \* Kernel::max_requests_per_turn, where there is one
  Parallel      \* Config::parallel_tool_calls

ASSUME MachineAssumption ==
  /\ MaxBatch \in Nat /\ Ceiling \in Nat /\ MaxRequests \in Nat
  /\ Parallel \in BOOLEAN

VARIABLES
  state,        \* Machine::state, without what it names
  pending,      \* Machine::pending: calls with their grants, in order
  turnRequests, \* Machine::turn_requests
  interrupted,  \* the interrupt flag
  pc,           \* where each driver is
  turning,      \* whether it is in `turn`
  requests,     \* turn's local count
  counted,      \* what step_once is given: a count, or 0 for None
  hands,        \* the prepared calls it holds and has not recorded
  asked,        \* how many calls the last answer asked for
  next,         \* the call the driver in prepare_calls is at
  answered,     \* history: the calls with a result, in the order recorded
  lost          \* history: the calls a failed or dropped future took with it

machine == <<state, pending, turnRequests>>
loop == <<turning, requests, counted>>
calls == <<asked, next, answered, lost>>
vars == <<machine, interrupted, pc, loop, hands, calls>>

CallIds == 1..MaxBatch
Prepared == [call : CallIds, grant : {"allow", "deny", "ask"},
             run : {"no", "running", "returned", "skipped"}]
Resting == {"Idle", "Finished", "Deciding", "Ready"}
Names(held) == {held[k].call : k \in DOMAIN held}

\* Kernel::state_for.
StateFor(prepared) ==
  IF prepared = <<>> THEN "Idle"
  ELSE IF \E k \in DOMAIN prepared : prepared[k].grant = "ask" THEN "Deciding"
  ELSE "Ready"

Init ==
  /\ state = "Idle" /\ pending = <<>> /\ turnRequests = 0 /\ interrupted = FALSE
  /\ pc = [d \in Drivers |-> "away"]
  /\ turning = [d \in Drivers |-> FALSE]
  /\ requests = [d \in Drivers |-> 0]
  /\ counted = [d \in Drivers |-> 0]
  /\ hands = [d \in Drivers |-> <<>>]
  /\ asked = 0 /\ next = 0
  /\ answered = <<>> /\ lost = {}

\* Where a driver goes when its step has left the machine in this state: `turn`
\* repeats, unless the turn is over or somebody has to decide.
Onward(d, to) ==
  IF turning[d] /\ to \notin {"Finished", "Deciding"} THEN "looking" ELSE "away"

---------------------------------------------------------------------------
(* turn and step.                                                          *)

\* Wrong form of TurnStart: every call of `turn` has a fresh budget.
TurnStartAfresh(d) ==
  /\ pc[d] = "away"
  /\ pc' = [pc EXCEPT ![d] = "looking"]
  /\ turning' = [turning EXCEPT ![d] = TRUE]
  /\ requests' = [requests EXCEPT ![d] = 0]
  /\ UNCHANGED <<machine, interrupted, counted, hands, calls>>

\* Kernel::turn, before its loop: from Deciding or Ready it carries on counting.
TurnStart(d) ==
  /\ pc[d] = "away"
  /\ pc' = [pc EXCEPT ![d] = "looking"]
  /\ turning' = [turning EXCEPT ![d] = TRUE]
  /\ requests' = [requests EXCEPT ![d] =
                    IF state \in {"Deciding", "Ready"} THEN turnRequests ELSE 0]
  /\ UNCHANGED <<machine, interrupted, counted, hands, calls>>

\* Wrong form of TurnLook: the request to come is not counted.
TurnLookUncounted(d) ==
  /\ pc[d] = "looking"
  /\ pc' = [pc EXCEPT ![d] = IF /\ state \in {"Idle", "Finished"}
                                /\ requests[d] >= MaxRequests
                             THEN "away" ELSE "stepping"]
  /\ counted' = [counted EXCEPT ![d] = 0]
  /\ UNCHANGED <<machine, interrupted, turning, requests, hands, calls>>

\* The head of the loop: the state is read, and let go of, before the step.
TurnLook(d) ==
  /\ pc[d] = "looking"
  /\ IF state \notin {"Idle", "Finished"}
     THEN /\ counted' = [counted EXCEPT ![d] = 0]
          /\ pc' = [pc EXCEPT ![d] = "stepping"]
          /\ UNCHANGED <<turning, requests>>
     ELSE IF requests[d] >= MaxRequests
     THEN /\ pc' = [pc EXCEPT ![d] = "away"]
          /\ UNCHANGED <<turning, requests, counted>>
     ELSE /\ requests' = [requests EXCEPT ![d] = @ + 1]
          /\ counted' = [counted EXCEPT ![d] = requests[d] + 1]
          /\ pc' = [pc EXCEPT ![d] = "stepping"]
          /\ UNCHANGED turning
  /\ UNCHANGED <<machine, interrupted, hands, calls>>

\* Kernel::step called by a client.
StepStart(d) ==
  /\ pc[d] = "away"
  /\ pc' = [pc EXCEPT ![d] = "stepping"]
  /\ turning' = [turning EXCEPT ![d] = FALSE]
  /\ counted' = [counted EXCEPT ![d] = 0]
  /\ UNCHANGED <<machine, interrupted, requests, hands, calls>>

\* step_once: somebody else is driving.  The flag stays theirs.
StepBusy(d) ==
  /\ pc[d] = "stepping" /\ state \notin Resting
  /\ pc' = [pc EXCEPT ![d] = "away"]
  /\ UNCHANGED <<machine, interrupted, loop, hands, calls>>

\* Wrong form of StepAcknowledge: the loop takes the state for one to go on from.
StepAcknowledgeAndGoOn(d) ==
  /\ pc[d] = "stepping" /\ state \in Resting /\ interrupted
  /\ interrupted' = FALSE
  /\ pc' = [pc EXCEPT ![d] = Onward(d, state)]
  /\ UNCHANGED <<machine, loop, hands, calls>>

\* step_once spends the interrupt, and `turn` returns.
StepAcknowledge(d) ==
  /\ pc[d] = "stepping" /\ state \in Resting /\ interrupted
  /\ interrupted' = FALSE
  /\ pc' = [pc EXCEPT ![d] = "away"]
  /\ UNCHANGED <<machine, loop, hands, calls>>

\* step_once finds a question open, or no provider.
StepNothing(d) ==
  /\ pc[d] = "stepping" /\ state \in {"Deciding", "Idle", "Finished"} /\ ~interrupted
  /\ pc' = [pc EXCEPT ![d] = "away"]
  /\ UNCHANGED <<machine, interrupted, loop, hands, calls>>

\* Wrong form of ClaimCalls: the calls stay queued while they run.
ClaimCallsInPlace(d) ==
  /\ pc[d] = "stepping" /\ state = "Ready" /\ ~interrupted
  /\ hands' = [hands EXCEPT ![d] = pending]
  /\ state' = "Executing"
  /\ pc' = [pc EXCEPT ![d] = "executing"]
  /\ UNCHANGED <<pending, turnRequests, interrupted, loop, calls>>

\* step_once claims the calls that are ready.
ClaimCalls(d) ==
  /\ pc[d] = "stepping" /\ state = "Ready" /\ ~interrupted
  /\ hands' = [hands EXCEPT ![d] = pending]
  /\ pending' = <<>>
  /\ state' = "Executing"
  /\ pc' = [pc EXCEPT ![d] = "executing"]
  /\ UNCHANGED <<turnRequests, interrupted, loop, calls>>

\* step_once claims a request, and stores the count it was given.
ClaimRequest(d) ==
  /\ pc[d] = "stepping" /\ state \in {"Idle", "Finished"} /\ ~interrupted
  /\ state' = "Requesting"
  /\ turnRequests' = counted[d]
  /\ pc' = [pc EXCEPT ![d] = "requesting"]
  /\ UNCHANGED <<pending, interrupted, loop, hands, calls>>

---------------------------------------------------------------------------
(* request and prepare_calls.                                              *)

\* The provider answers, asking for n calls; the turn is recorded.
Respond(d, n) ==
  /\ pc[d] = "requesting"
  /\ asked' = n /\ next' = 1
  /\ answered' = <<>> /\ lost' = {}
  /\ pc' = [pc EXCEPT ![d] = IF n = 0 THEN "concluding" ELSE "preparing"]
  /\ UNCHANGED <<machine, interrupted, loop, hands>>

\* An answer that asks for nothing ends the turn, and with it any interrupt.
Conclude(d) ==
  /\ pc[d] = "concluding"
  /\ state' = "Finished"
  /\ interrupted' = FALSE
  /\ pc' = [pc EXCEPT ![d] = Onward(d, "Finished")]
  /\ UNCHANGED <<pending, turnRequests, loop, hands, calls>>

\* prepare_calls: past the ceiling, unknown, unparsed, malformed, or the tool
\* panicked over it: answered at once.
Refuse(d) ==
  /\ pc[d] = "preparing" /\ next <= asked
  /\ answered' = Append(answered, next)
  /\ next' = next + 1
  /\ UNCHANGED <<machine, interrupted, pc, loop, hands, asked, lost>>

\* prepare_calls: the policy was asked, and awaited.
Evaluate(d, grant) ==
  /\ pc[d] = "preparing" /\ next <= asked /\ next <= Ceiling
  /\ hands' = [hands EXCEPT ![d] = Append(@, [call |-> next, grant |-> grant, run |-> "no"])]
  /\ next' = next + 1
  /\ UNCHANGED <<machine, interrupted, pc, loop, asked, answered, lost>>

\* Wrong form of Queue: a batch with a question left in it is taken to be ready.
QueueUndecided(d) ==
  /\ pc[d] = "preparing" /\ next > asked
  /\ pending' = hands[d]
  /\ hands' = [hands EXCEPT ![d] = <<>>]
  /\ state' = IF hands[d] = <<>> THEN "Idle" ELSE "Ready"
  /\ pc' = [pc EXCEPT ![d] = Onward(d, state')]
  /\ UNCHANGED <<turnRequests, interrupted, loop, calls>>

\* prepare_calls, at its end: the calls are queued, announced, and the machine
\* moved in one hold.
Queue(d) ==
  /\ pc[d] = "preparing" /\ next > asked
  /\ pending' = hands[d]
  /\ hands' = [hands EXCEPT ![d] = <<>>]
  /\ state' = StateFor(hands[d])
  /\ pc' = [pc EXCEPT ![d] = Onward(d, state')]
  /\ UNCHANGED <<turnRequests, interrupted, loop, calls>>

---------------------------------------------------------------------------
(* execute.                                                                *)

Back(held) == \A k \in DOMAIN held : held[k].run \in {"returned", "skipped"}

\* invoke: the flag is read and the start announced in one hold.  Run one at a
\* time, a call begins when the one before is recorded; together, whenever its
\* task is scheduled.
Invoke(d, k) ==
  /\ pc[d] = "executing" /\ hands[d][k].run = "no" /\ (Parallel \/ k = 1)
  /\ hands' = [hands EXCEPT ![d][k].run =
                 IF (~Parallel /\ interrupted) \/ hands[d][k].grant = "deny"
                 THEN "skipped" ELSE "running"]
  /\ UNCHANGED <<machine, interrupted, pc, loop, calls>>

\* run: the tool answers, fails or panics.
ToolReturns(d, k) ==
  /\ pc[d] = "executing" /\ hands[d][k].run = "running"
  /\ hands' = [hands EXCEPT ![d][k].run = "returned"]
  /\ UNCHANGED <<machine, interrupted, pc, loop, calls>>

\* Wrong form of RecordOutput: the last of what came back is recorded first.
RecordLastOutput(d) ==
  /\ pc[d] = "executing" /\ hands[d] # <<>> /\ Back(hands[d])
  /\ answered' = Append(answered, Last(hands[d]).call)
  /\ hands' = [hands EXCEPT ![d] = Front(@)]
  /\ UNCHANGED <<machine, interrupted, pc, loop, asked, next, lost>>

\* execute records what came back: in the order asked, and together only once
\* every call is back.
RecordOutput(d) ==
  /\ pc[d] = "executing" /\ hands[d] # <<>>
  /\ Back(IF Parallel THEN hands[d] ELSE <<Head(hands[d])>>)
  /\ answered' = Append(answered, Head(hands[d]).call)
  /\ hands' = [hands EXCEPT ![d] = Tail(@)]
  /\ UNCHANGED <<machine, interrupted, pc, loop, asked, next, lost>>

\* execute, at its end; an interrupt stays for the next step.
EndCalls(d) ==
  /\ pc[d] = "executing" /\ hands[d] = <<>>
  /\ state' = "Idle"
  /\ pc' = [pc EXCEPT ![d] = Onward(d, "Idle")]
  /\ UNCHANGED <<pending, turnRequests, interrupted, loop, hands, calls>>

---------------------------------------------------------------------------
(* cancel_pending_calls.                                                   *)

\* Wrong form of CancelStart: the machine is left at rest while the refusals are
\* recorded.
CancelStartAtRest(d) ==
  /\ pc[d] = "away" /\ pending # <<>>
  /\ hands' = [hands EXCEPT ![d] = pending]
  /\ pending' = <<>>
  /\ state' = "Idle"
  /\ pc' = [pc EXCEPT ![d] = "cancelling"]
  /\ turning' = [turning EXCEPT ![d] = FALSE]
  /\ UNCHANGED <<turnRequests, interrupted, requests, counted, calls>>

CancelStart(d) ==
  /\ pc[d] = "away" /\ pending # <<>>
  /\ hands' = [hands EXCEPT ![d] = pending]
  /\ pending' = <<>>
  /\ state' = "Executing"
  /\ pc' = [pc EXCEPT ![d] = "cancelling"]
  /\ turning' = [turning EXCEPT ![d] = FALSE]
  /\ UNCHANGED <<turnRequests, interrupted, requests, counted, calls>>

\* Each call is recorded as refused, outside the lock.
CancelRecord(d) ==
  /\ pc[d] = "cancelling" /\ hands[d] # <<>>
  /\ answered' = Append(answered, Head(hands[d]).call)
  /\ hands' = [hands EXCEPT ![d] = Tail(@)]
  /\ UNCHANGED <<machine, interrupted, pc, loop, asked, next, lost>>

CancelEnd(d) ==
  /\ pc[d] = "cancelling" /\ hands[d] = <<>>
  /\ state' = "Idle"
  /\ pc' = [pc EXCEPT ![d] = "away"]
  /\ UNCHANGED <<pending, turnRequests, interrupted, loop, hands, calls>>

---------------------------------------------------------------------------
(* What can happen to a driver, and what anybody may do.                   *)

\* The future waits for a compactor, a provider, a policy or a tool: the only
\* places where it can be dropped, and in `request` where it can fail.
Awaiting(d) ==
  \/ pc[d] = "requesting"
  \/ pc[d] = "preparing" /\ next <= asked /\ next <= Ceiling
  \/ pc[d] = "executing" /\ \E k \in DOMAIN hands[d] :
       hands[d][k].run = "running" \/ (Parallel /\ hands[d][k].run = "no")

\* The calls that go with it: those in its hands, and those not prepared yet.
Takes(d) ==
  Names(hands[d]) \cup (IF pc[d] = "preparing" THEN next..asked ELSE {})

\* Wrong form of Abandon: the state is left as it was.
AbandonWedged(d) ==
  /\ Awaiting(d)
  /\ interrupted' = FALSE
  /\ lost' = lost \cup Takes(d)
  /\ hands' = [hands EXCEPT ![d] = <<>>]
  /\ pc' = [pc EXCEPT ![d] = "away"]
  /\ UNCHANGED <<machine, loop, asked, next, answered>>

\* `Restore`: the step failed, or the future driving it was dropped.
Abandon(d) ==
  /\ Awaiting(d)
  /\ interrupted' = FALSE
  /\ state' = "Idle"
  /\ lost' = lost \cup Takes(d)
  /\ hands' = [hands EXCEPT ![d] = <<>>]
  /\ pc' = [pc EXCEPT ![d] = "away"]
  /\ UNCHANGED <<pending, turnRequests, loop, asked, next, answered>>

\* Kernel::interrupt.
Interrupt ==
  /\ interrupted' = TRUE
  /\ UNCHANGED <<machine, pc, loop, hands, calls>>

\* Kernel::decide.
Decide(k, grant) ==
  /\ k \in DOMAIN pending /\ pending[k].grant = "ask"
  /\ pending' = [pending EXCEPT ![k].grant = grant]
  /\ state' = StateFor(pending')
  /\ UNCHANGED <<turnRequests, interrupted, pc, loop, hands, calls>>

\* Kernel::undo takes away the answer State::Finished names.
AnswerUndone ==
  /\ state = "Finished"
  /\ state' = "Idle"
  /\ UNCHANGED <<pending, turnRequests, interrupted, pc, loop, hands, calls>>

---------------------------------------------------------------------------
Request(d) ==
  \/ ClaimRequest(d)
  \/ \E n \in 0..MaxBatch : Respond(d, n)
  \/ Conclude(d) \/ Refuse(d) \/ Queue(d)
  \/ \E grant \in {"allow", "deny", "ask"} : Evaluate(d, grant)

Execute(d) ==
  \/ ClaimCalls(d)
  \/ \E k \in DOMAIN hands[d] : Invoke(d, k) \/ ToolReturns(d, k)
  \/ RecordOutput(d)
  \/ EndCalls(d)

Cancelling(d) == CancelRecord(d) \/ CancelEnd(d)

\* Whatever a driver does once it is called, to the end.
GoesOn(d) ==
  \/ TurnLook(d) \/ StepBusy(d) \/ StepAcknowledge(d) \/ StepNothing(d)
  \/ Request(d) \/ Execute(d) \/ Cancelling(d) \/ Abandon(d)

Called(d) == TurnStart(d) \/ StepStart(d) \/ CancelStart(d)

Anybody ==
  \/ Interrupt
  \/ \E k \in DOMAIN pending, grant \in {"allow", "deny"} : Decide(k, grant)
  \/ AnswerUndone

Next == (\E d \in Drivers : Called(d) \/ GoesOn(d)) \/ Anybody

Spec == Init /\ [][Next]_vars

\* A task that has something to do is scheduled, and what it waits for - provider,
\* policy, tool - ends, with an answer or without.  Nobody has to call, to decide
\* or to interrupt.
FairSpec == Spec /\ \A d \in Drivers : WF_vars(GoesOn(d))

---------------------------------------------------------------------------
(* What must hold.                                                         *)

Owning == {"requesting", "concluding", "preparing", "executing", "cancelling"}
Owns(d) == pc[d] \in Owning

TypeOK ==
  /\ state \in Resting \cup {"Requesting", "Executing"}
  /\ pending \in Seq(Prepared) /\ turnRequests \in 0..MaxRequests
  /\ interrupted \in BOOLEAN
  /\ pc \in [Drivers -> Owning \cup {"away", "looking", "stepping"}]
  /\ turning \in [Drivers -> BOOLEAN]
  /\ requests \in [Drivers -> 0..MaxRequests] /\ counted \in [Drivers -> 0..MaxRequests]
  /\ hands \in [Drivers -> Seq(Prepared)]
  /\ asked \in 0..MaxBatch /\ next \in 0..(MaxBatch + 1)
  /\ answered \in Seq(CallIds) /\ lost \subseteq CallIds

\* The machine is busy exactly while one driver is at work, and it is never two:
\* no second request goes out, and no call is run twice.
OneDriver ==
  /\ \A d, e \in Drivers : Owns(d) /\ Owns(e) => d = e
  /\ \A d \in Drivers :
       /\ pc[d] \in {"requesting", "concluding", "preparing"} => state = "Requesting"
       /\ pc[d] \in {"executing", "cancelling"} => state = "Executing"
  /\ state \notin Resting => \E d \in Drivers : Owns(d)

\* Calls are queued exactly while the machine says so, and it says Deciding
\* exactly while one of them has no answer.
QueueAsShown ==
  state \in Resting => (state = "Finished" /\ pending = <<>>) \/ state = StateFor(pending)

\* A request only ever goes out when every call of the last answer has its result,
\* unless the future that was working on them is gone.
RequestsLeaveNothingOpen ==
  (\E d \in Drivers : pc[d] = "requesting")
    => 1..asked \subseteq ToSet(answered) \cup lost

\* No call has two results, and none that was lost has one.
AnsweredOnce == IsInjective(answered) /\ ToSet(answered) \cap lost = {}

\* Whoever claims the machine lets it go again.
BusyEnds == state \notin Resting ~> state \in Resting

---------------------------------------------------------------------------
(* The inductive invariant.                                                *)

\* Calls are in the hands of drivers that work on them, and queued where the
\* machine waits for somebody.
CallsInPlace ==
  /\ \A d \in Drivers :
       hands[d] # <<>> => pc[d] \in {"preparing", "executing", "cancelling"}
  /\ pending # <<>> => state \in {"Deciding", "Ready"}
  /\ state \in {"Deciding", "Ready"} => state = StateFor(pending)

\* Every call asked for is answered, lost, queued, in somebody's hands, or still
\* to be prepared.
CallsAccounted ==
  \A c \in 1..asked :
    \/ c \in ToSet(answered) \cup lost \cup Names(pending)
    \/ \E d \in Drivers : c \in Names(hands[d]) \/ (pc[d] = "preparing" /\ next <= c)

\* What is held is in the order asked, is not answered, and is held once.
Ascending(held) == \A j, k \in DOMAIN held : j < k => held[j].call < held[k].call

CallsHeldOnce ==
  /\ Ascending(pending) /\ Names(pending) \cap ToSet(answered) = {}
  /\ \A d \in Drivers :
       Ascending(hands[d]) /\ Names(hands[d]) \cap ToSet(answered) = {}

\* What was lost was lost whole; what is being prepared is prepared in order.
CallsInOrder ==
  /\ lost # {} =>
       /\ pending = <<>>
       /\ \A d \in Drivers : pc[d] \notin {"preparing", "executing", "cancelling"}
  /\ \A d \in Drivers : pc[d] = "preparing" =>
       next >= 1 /\ \A c \in ToSet(answered) \cup Names(hands[d]) : c < next

CallsKept ==
  /\ TypeOK /\ OneDriver /\ AnsweredOnce
  /\ CallsInPlace /\ CallsAccounted /\ CallsHeldOnce /\ CallsInOrder

\* What is held was asked for; only a call that was allowed has been started, only
\* where calls are executed, and none is executed undecided.
AsGranted(held, place) ==
  \A k \in DOMAIN held :
    /\ held[k].run # "no" => place = "executing"
    /\ held[k].run \in {"running", "returned"} => held[k].grant = "allow"
    /\ place = "executing" => held[k].grant # "ask"

CallsAsGranted ==
  /\ Names(pending) \subseteq 1..asked /\ AsGranted(pending, "queue")
  /\ \A d \in Drivers :
       Names(hands[d]) \subseteq 1..asked /\ AsGranted(hands[d], pc[d])

IInv == CallsKept /\ CallsAsGranted

---------------------------------------------------------------------------
(* The calls of an answer, as CallLife tells it.                           *)

Stage ==
  CASE state \in {"Deciding", "Ready"} -> "waiting"
    [] state = "Executing" -> "working"
    [] state = "Requesting" /\ (\E d \in Drivers : pc[d] = "preparing") -> "preparing"
    [] OTHER -> "done"

Granted == [allow |-> "allowed", deny |-> "denied", ask |-> "undecided"]

\* The life of a call that is held, by what is known of it and where its holder is.
LifeOf(entry, place) ==
  IF place = "cancelling" THEN "cancelled"
  ELSE IF entry.run \in {"running", "returned"} THEN "running"
  ELSE Granted[entry.grant]

Fates(held, place, c) ==
  {LifeOf(held[k], place) : k \in {j \in DOMAIN held : held[j].call = c}}

FatesOf(c) ==
  Fates(pending, "queue", c) \cup UNION {Fates(hands[d], pc[d], c) : d \in Drivers}

Life(c) ==
  IF c \in ToSet(answered) THEN "answered"
  ELSE IF c \in lost THEN "lost"
  ELSE IF FatesOf(c) = {} THEN "asked"
  ELSE CHOOSE fate \in FatesOf(c) : TRUE

Promise == INSTANCE CallLife WITH life <- [c \in 1..asked |-> Life(c)], stage <- Stage

KeepsItsPromise == Promise!Spec
=============================================================================
