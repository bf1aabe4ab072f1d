----------------------------- MODULE Application -----------------------------
(***************************************************************************)
(* kamchatka's App and the turn it runs in the background                  *)
(* (kamchatka/src/app/turn.rs, questions.rs, spend.rs, app/mod.rs,         *)
(* app/command/mod.rs), driven by the loop of a served session             *)
(* (remote/server/mod.rs, `run`).                                          *)
(*                                                                         *)
(* The loop owns the App.  A turn is a task of its own that drives the     *)
(* kernel, and its end comes back over a channel the loop reads when it    *)
(* gets to it: between the two, the kernel is ahead of what the App knows. *)
(* The kernel is Machine's, with two drivers: the turn's task, and the     *)
(* loop itself, which drops the calls that wait.                           *)
(*                                                                         *)
(* One action is one branch of the loop, or one step of the kernel.  A     *)
(* response costs one token.  Lines are numbered as they are handed in,    *)
(* and a line stands for what it asks for: a message, a switch of the      *)
(* model, an errand (a request a command sends out, as `/models` does), a  *)
(* step with or without a message, `/continue`.                            *)
(***************************************************************************)
EXTENDS Machine

CONSTANTS
  Task,      \* the driver a turn is
  Desk,      \* the driver the loop is
  Scripts,   \* bound: what is handed in, as sequences of kinds of lines
  Limit,     \* App::spend, or 0 where there is no ceiling
  Behind     \* bound: how many events the App's subscription holds

Kinds == {"message", "switch", "errand", "step", "step message", "continue"}

ASSUME ApplicationAssumption ==
  /\ Drivers = {Task, Desk} /\ Task # Desk
  /\ Scripts \subseteq Seq(Kinds)
  /\ Limit \in Nat /\ Behind \in Nat \ {0}

VARIABLES
  app,        \* App, with what it spawned (`task` for the turn, `away` for the
              \* errands and switches still out, by their lines) and the
              \* messages it put into the context
  outcomes,   \* what the loop has not read of `finished`
  unread,     \* how many events it has not read of its subscription
  lines,      \* history: the kinds of the lines handed in
  responses,  \* history: the responses in the session log
  stopped     \* history: a stop was asked for since work was last claimed

application == <<app, outcomes, unread, lines, responses, stopped>>

AppInit ==
  /\ Init
  /\ app = [busy |-> FALSE, stepping |-> FALSE, interrupting |-> FALSE, task |-> "none",
            ahead |-> <<>>, held |-> <<>>, entered |-> <<>>, unsent |-> <<>>,
            errand |-> 0, settling |-> FALSE, away |-> {},
            spent |-> 0, charged |-> 0, limit |-> Limit, overspent |-> FALSE,
            leaving |-> "no", phase |-> "open"]
  /\ outcomes = <<>> /\ unread = 0
  /\ lines = <<>> /\ responses = 0 /\ stopped = FALSE

---------------------------------------------------------------------------
(* What the App's methods make of it: each takes the App, and gives it back *)
(* changed.                                                                *)

InFlight(a) == a.settling \/ a.errand # 0
Open(queue) == \E k \in DOMAIN queue : queue[k].grant = "ask"
HeldSwitch(a) == \E k \in DOMAIN a.held : lines[a.held[k]] = "switch"

\* Wrong form of MidTurn: a turn that rests on its calls is taken to be over.
MidTurnRunning(a) == a.busy

MidTurn(a) == a.busy \/ pending # <<>>

\* Wrong form of Launch: a turn that runs is not looked for.
LaunchAgain(a, stepping) ==
  IF a.overspent THEN a
  ELSE [a EXCEPT !.busy = TRUE, !.stepping = stepping, !.interrupting = FALSE,
                 !.task = "spawned"]

\* Wrong form of Launch: the ceiling is not looked at.
LaunchBroke(a, stepping) ==
  IF a.busy THEN a
  ELSE [a EXCEPT !.busy = TRUE, !.stepping = stepping, !.interrupting = FALSE,
                 !.task = "spawned"]

\* App::launch.  What it spawns runs when it is scheduled.
Launch(a, stepping) ==
  IF a.busy \/ a.overspent THEN a
  ELSE [a EXCEPT !.busy = TRUE, !.stepping = stepping, !.interrupting = FALSE,
                 !.task = "spawned"]

\* App::interrupt: an errand is let go of, and a turn is asked to stop.
LetGo(a) ==
  [a EXCEPT !.away = @ \ {a.errand}, !.errand = 0, !.interrupting = @ \/ a.busy]

\* App::count crosses the ceiling.
Crosses(a, spent) == a.limit # 0 /\ spent >= a.limit /\ ~a.overspent

\* Wrong form of Charged: whatever is new in the log is taken for one response.
ChargedOnce(a) ==
  LET spent == a.spent + (IF responses > a.charged THEN 1 ELSE 0)
      b     == [a EXCEPT !.spent = spent, !.charged = responses]
  IN  IF Crosses(a, spent) THEN LetGo([b EXCEPT !.overspent = TRUE]) ELSE b

\* App::charge_since, and the count each response comes to.
Charged(a) ==
  LET spent == a.spent + (responses - a.charged)
      b     == [a EXCEPT !.spent = spent, !.charged = responses]
  IN  IF Crosses(a, spent) THEN LetGo([b EXCEPT !.overspent = TRUE]) ELSE b

\* A message goes into the context.
Enter(a, n) == [a EXCEPT !.entered = Append(@, n)]

\* Wrong form of Message: it goes in ahead of those that wait.
MessageOvertakes(a, n) ==
  IF MidTurn(a) THEN [a EXCEPT !.ahead = Append(@, n)]
  ELSE Launch(Enter(a, n), FALSE)

\* submitted, for a message.
Message(a, n) ==
  IF MidTurn(a) THEN [a EXCEPT !.ahead = Append(@, n)]
  ELSE IF a.ahead # <<>>
  THEN Launch(Enter([a EXCEPT !.ahead = Append(Tail(@), n)], Head(a.ahead)), FALSE)
  ELSE Launch(Enter(a, n), FALSE)

\* What a line comes to once it is acted on.  A turn started without a message may
\* find nothing to answer where no call waits.
Acted(a, n, kind) ==
  CASE kind = "message" -> {Message(a, n)}
    [] kind = "switch" -> {[a EXCEPT !.settling = TRUE, !.away = @ \cup {n}]}
    [] kind = "errand" -> {[a EXCEPT !.errand = n, !.away = @ \cup {n}]}
    [] kind = "step message" ->
         {IF a.busy \/ Open(pending) THEN a ELSE Launch(Enter(a, n), TRUE)}
    [] kind \in {"step", "continue"} ->
         {Launch(a, kind = "step")} \cup
         (IF pending = <<>> THEN {a} ELSE {})

\* submitted: a line waits for the command that is out, and a switch for the end of
\* the turn, with whatever comes after it.
Submitted(a, n, kind, released) ==
  IF InFlight(a) \/ (~released /\ (HeldSwitch(a) \/ (kind = "switch" /\ MidTurn(a))))
  THEN {[a EXCEPT !.held = Append(@, n)]}
  ELSE Acted(a, n, kind)

\* Wrong form of TurnOver: nobody looks whether the questions were answered meanwhile.
TurnOverUnanswered(a, outcome) ==
  LET ended    == \/ outcome.how = "failed"
                  \/ outcome.state = "Finished" \/ outcome.state = "Idle"
      b        == [a EXCEPT !.busy = FALSE, !.interrupting = FALSE]
      entering == [Enter(b, Head(a.ahead)) EXCEPT !.ahead = Tail(@)]
  IN  IF ~ended \/ a.ahead = <<>> THEN b
      ELSE IF a.interrupting \/ outcome.how # "stopped" THEN entering
      ELSE Launch(entering, FALSE)

\* on_outcome, for the end of a turn or of a step.
TurnOver(a, outcome) ==
  LET ended    == \/ outcome.how = "failed"
                  \/ outcome.state = "Finished" \/ outcome.state = "Idle"
      b        == [a EXCEPT !.busy = FALSE, !.interrupting = FALSE]
      resuming == /\ outcome.how = "stopped" /\ outcome.state = "Deciding"
                  /\ ~a.stepping /\ ~Open(pending)
      entering == [Enter(b, Head(a.ahead)) EXCEPT !.ahead = Tail(@)]
  IN  IF resuming THEN [Launch(b, FALSE) EXCEPT !.interrupting = a.interrupting]
      ELSE IF ~ended \/ a.ahead = <<>> THEN b
      ELSE IF a.interrupting \/ outcome.how # "stopped" THEN entering
      ELSE Launch(entering, FALSE)

\* Wrong form of Returned: whatever errand comes back is taken for the one awaited.
ReturnedAny(a, n) ==
  IF lines[n] = "switch" THEN [a EXCEPT !.settling = FALSE] ELSE [a EXCEPT !.errand = 0]

\* returned: a command comes back, unless it was let go of.
Returned(a, n) ==
  IF lines[n] = "switch" THEN [a EXCEPT !.settling = FALSE]
  ELSE IF n = a.errand THEN [a EXCEPT !.errand = 0] ELSE a

\* on_outcome, after the events still queued ahead of the outcome.
OnOutcome(a, outcome) ==
  LET b == IF unread > 0 THEN Charged(a) ELSE a
  IN  IF outcome.how = "returned" THEN Returned(b, outcome.line) ELSE TurnOver(b, outcome)

\* unsent.
Gone(a) ==
  [a EXCEPT !.phase = "left", !.unsent = a.ahead \o a.held, !.ahead = <<>>, !.held = <<>>]

---------------------------------------------------------------------------
(* The loop.                                                               *)

CanRelease ==
  /\ app.held # <<>> /\ ~InFlight(app)
  /\ ~(MidTurn(app) /\ lines[Head(app.held)] = "switch")

\* At the top of the loop, the lines that can be released are released, and a
\* session that is left is left; then one branch is taken.
AtTop == pc[Desk] = "away" /\ app.phase = "open"
MustLeave == app.leaving \in {"quit", "now"} \/ (app.leaving = "pressed" /\ ~app.busy)
Selecting == AtTop /\ ~CanRelease /\ ~MustLeave

\* The kernel as it is, but for a stop it is asked for.
Kernel(asks) ==
  /\ interrupted' = IF asks THEN TRUE ELSE interrupted
  /\ stopped' = IF asks THEN TRUE ELSE stopped
  /\ UNCHANGED <<machine, pc, loop, hands, calls>>

\* Charging may cross the ceiling, and stops the turn if it does.
Stops(charges) == charges /\ app.busy /\ Charged(app).overspent /\ ~app.overspent

\* App::release, one line of it.
Release ==
  /\ AtTop /\ CanRelease
  /\ app' \in Submitted([app EXCEPT !.held = Tail(@)], Head(app.held),
                        lines[Head(app.held)], TRUE)
  /\ Kernel(FALSE) /\ UNCHANGED <<outcomes, unread, lines, responses>>

\* Somebody hands a line in.
HandIn ==
  /\ Selecting
  /\ \E script \in Scripts :
       /\ IsStrictPrefix(lines, script)
       /\ lines' = Append(lines, script[Len(lines) + 1])
       /\ app' \in Submitted(app, Len(lines'), script[Len(lines')], FALSE)
  /\ Kernel(FALSE) /\ UNCHANGED <<outcomes, unread, responses>>

\* An interrupt, `/stop` where something is out or running among them.
Stop ==
  /\ Selecting /\ (app.busy \/ app.errand # 0)
  /\ app' = LetGo(app)
  /\ Kernel(app.busy) /\ UNCHANGED <<outcomes, unread, lines, responses>>

\* Wrong form of DropCalls: the queue is emptied where it stands.
DropCallsAtOnce ==
  /\ Selecting /\ ~app.busy /\ app.errand = 0
  /\ pending # <<>> /\ pending' = <<>> /\ state' = "Idle"
  /\ UNCHANGED <<turnRequests, interrupted, pc, loop, hands, calls>>
  /\ UNCHANGED <<app, outcomes, lines, responses, stopped>>
  /\ unread' = Min({Behind, unread + 1})

\* `/stop` where calls wait: stop_pending and drop_decided.
DropCalls ==
  /\ Selecting /\ ~app.busy /\ app.errand = 0
  /\ CancelStart(Desk)
  /\ UNCHANGED <<app, outcomes, lines, responses, stopped>>
  /\ unread' = Min({Behind, unread + 1})

\* App::decide: the last answer carries the turn on.
Answer(k, grant) ==
  /\ Selecting /\ Decide(k, grant)
  /\ app' = IF Open(pending') \/ app.stepping THEN app ELSE Launch(app, FALSE)
  /\ unread' = Min({Behind, unread + 1})
  /\ UNCHANGED <<outcomes, lines, responses, stopped>>

\* App::set_spend takes the ceiling away.
RaiseCeiling ==
  /\ Selecting /\ app.limit # 0
  /\ app' = [app EXCEPT !.limit = 0, !.overspent = FALSE]
  /\ Kernel(FALSE) /\ UNCHANGED <<outcomes, unread, lines, responses>>

\* on_event, at the top of the loop or waiting for the turn.
Hear ==
  /\ Selecting \/ app.phase = "waiting"
  /\ unread > 0 /\ unread' = unread - 1
  /\ app' = Charged(app)
  /\ Kernel(Stops(TRUE)) /\ UNCHANGED <<outcomes, lines, responses>>

\* apply_outcome.
TakeOutcome ==
  /\ Selecting /\ outcomes # <<>>
  /\ outcomes' = Tail(outcomes) /\ unread' = 0
  /\ app' = OnOutcome(app, Head(outcomes))
  /\ Kernel(Stops(unread > 0)) /\ UNCHANGED <<lines, responses>>

---------------------------------------------------------------------------
(* Leaving.                                                                *)

\* The first ctrl+c stops what is out or running; the second leaves.
Press ==
  /\ Selecting /\ app.leaving \in {"no", "pressed"}
  /\ app' = IF app.leaving = "no" THEN [LetGo(app) EXCEPT !.leaving = "pressed"]
            ELSE [app EXCEPT !.leaving = "now"]
  /\ Kernel(app.leaving = "no" /\ app.busy)
  /\ UNCHANGED <<outcomes, unread, lines, responses>>

\* `/quit`, or a signal that ends the program.
Quit ==
  /\ Selecting /\ app' = [app EXCEPT !.leaving = "quit"]
  /\ Kernel(FALSE) /\ UNCHANGED <<outcomes, unread, lines, responses>>

\* Wrong form of Leave: the turn is left to itself.
LeaveAtOnce ==
  /\ AtTop /\ ~CanRelease /\ MustLeave
  /\ app' = Gone([app EXCEPT !.settling = FALSE])
  /\ Kernel(FALSE)
  /\ UNCHANGED <<outcomes, unread, lines, responses>>

\* wait_for_turn settles the switch and stops the turn; without one there is
\* nothing to wait for, and the second ctrl+c does not.
Leave ==
  /\ AtTop /\ ~CanRelease /\ MustLeave
  /\ LET waits == app.busy /\ app.leaving = "quit"
     IN  /\ app' = IF waits THEN [LetGo(app) EXCEPT !.settling = FALSE, !.phase = "waiting"]
                   ELSE Gone([app EXCEPT !.settling = FALSE])
         /\ Kernel(waits)
  /\ UNCHANGED <<outcomes, unread, lines, responses>>

\* waited_for_turn takes the turn's outcome and is done, or a command's and goes on.
WaitOutcome ==
  /\ app.phase = "waiting" /\ outcomes # <<>>
  /\ outcomes' = Tail(outcomes) /\ unread' = 0
  /\ LET b == OnOutcome(app, Head(outcomes))
     IN  app' = IF Head(outcomes).how = "returned" THEN b ELSE Gone(b)
  /\ Kernel(Stops(unread > 0)) /\ UNCHANGED <<lines, responses>>

\* The turn is not waited for any longer.
Deadline ==
  /\ app.phase = "waiting" /\ outcomes = <<>>
  /\ app' = [Gone(app) EXCEPT !.leaving = "late"]
  /\ Kernel(FALSE) /\ UNCHANGED <<outcomes, unread, lines, responses>>

---------------------------------------------------------------------------
(* The tasks.                                                              *)

\* The turn's task begins.  A stop that was left standing at a finished turn is
\* spent first.
TaskStarts ==
  /\ app.task = "spawned" \/ (app.task = "spending" /\ pc[Task] = "away")
  /\ IF app.task = "spawned" /\ interrupted /\ state = "Finished"
     THEN StepStart(Task) /\ app' = [app EXCEPT !.task = "spending"]
     ELSE /\ IF app.stepping THEN StepStart(Task) ELSE TurnStart(Task)
          /\ app' = [app EXCEPT !.task = "driving"]
  /\ UNCHANGED <<outcomes, unread, lines, responses, stopped>>

Claims == pc[Task] = "stepping" /\ pc'[Task] \in {"requesting", "executing"}
Answers == pc[Task] = "requesting" /\ pc'[Task] \in {"concluding", "preparing"}
Failed == Awaiting(Task) /\ pc'[Task] = "away"

\* The kernel goes on under the task, and the task ends with it.  There is a
\* provider: launch looked.  What a session left in a hurry still does is not
\* followed.
TaskGoes ==
  /\ ~(app.phase = "left" /\ app.leaving \in {"now", "late"})
  /\ app.task \in {"spending", "driving"} /\ GoesOn(Task)
  /\ ~(pc[Task] = "stepping" /\ pc'[Task] = "away" /\ ~interrupted /\ state # "Deciding")
  /\ unread' = IF state' # state \/ Answers THEN Min({Behind, unread + 1}) ELSE unread
  /\ responses' = IF Answers THEN responses + 1 ELSE responses
  /\ stopped' = (stopped /\ ~Claims)
  /\ IF pc'[Task] = "away" /\ app.task = "driving"
     THEN /\ app' = [app EXCEPT !.task = "none"]
          /\ outcomes' = Append(outcomes,
               [how |-> IF Failed THEN "failed" ELSE IF turning[Task] THEN "stopped"
                        ELSE "stepped", state |-> state'])
     ELSE UNCHANGED <<app, outcomes>>
  /\ UNCHANGED lines

\* The loop goes on dropping calls.
DeskGoes ==
  /\ Cancelling(Desk)
  /\ unread' = IF state' # state THEN Min({Behind, unread + 1}) ELSE unread
  /\ UNCHANGED <<app, outcomes, lines, responses, stopped>>

\* send_out: a command's request comes back, however it ended.
Return(n) ==
  /\ n \in app.away
  /\ app' = [app EXCEPT !.away = @ \ {n}]
  /\ outcomes' = Append(outcomes, [how |-> "returned", line |-> n])
  /\ Kernel(FALSE) /\ UNCHANGED <<unread, lines, responses>>

---------------------------------------------------------------------------
Loop ==
  \/ Release \/ HandIn
  \/ Stop \/ DropCalls \/ (\E k \in DOMAIN pending, g \in {"allow", "deny"} : Answer(k, g))
  \/ RaiseCeiling \/ Hear \/ TakeOutcome
  \/ Press \/ Quit \/ Leave \/ WaitOutcome \/ Deadline

Tasks == TaskStarts \/ TaskGoes \/ DeskGoes \/ (\E n \in app.away : Return(n))

AppNext == Loop \/ Tasks

AppSpec == AppInit /\ [][AppNext]_<<vars, application>>

---------------------------------------------------------------------------
(* What must hold.                                                         *)

\* The outcomes, and the Apps, of a session the lines ns were handed in to.
Outcomes(ns) ==
  [how : {"failed", "stopped", "stepped"}, state : Resting] \cup [how : {"returned"}, line : ns]

Apps(ns) ==
  [busy : BOOLEAN, stepping : BOOLEAN, interrupting : BOOLEAN,
   task : {"none", "spawned", "spending", "driving"},
   ahead : Seq(ns), held : Seq(ns), entered : Seq(ns), unsent : Seq(ns),
   errand : {0} \cup ns, settling : BOOLEAN, away : SUBSET ns,
   spent : Nat, charged : Nat, limit : Nat, overspent : BOOLEAN,
   leaving : {"no", "pressed", "quit", "now", "late"},
   phase : {"open", "waiting", "left"}]

AppTypeOK ==
  /\ lines \in Seq(Kinds)
  /\ app \in Apps(DOMAIN lines) /\ outcomes \in Seq(Outcomes(DOMAIN lines))
  /\ unread \in 0..Behind /\ responses \in Nat /\ stopped \in BOOLEAN

\* What runs, the App knows of.  A turn is marked as running exactly while it runs or its
\* one outcome has not been read: marked for longer, the loop would wait for ever; for
\* less, two would run.  Every request and switch a command sent out is there to be stopped
\* and to be waited for by lines; and no turn runs while the model is being switched.
Ends == {k \in DOMAIN outcomes : outcomes[k].how # "returned"}

BusyAsShown ==
  /\ AppTypeOK
  /\ app.phase # "left" =>
       Cardinality(Ends) + (IF app.task = "none" THEN 0 ELSE 1) = (IF app.busy THEN 1 ELSE 0)
  /\ app.phase = "open" =>
       /\ \A n \in app.away : n = app.errand \/ (app.settling /\ lines[n] = "switch")
       /\ app.settling => app.task = "none"

\* Every message somebody sent is in the context, waiting or said to be unsent; each
\* once, and in the order they were sent, whatever it waited for: a turn, an errand,
\* a switch, a stop.
Sent == app.entered \o app.ahead \o app.held \o app.unsent

Messages == {n \in DOMAIN lines : lines[n] = "message"}

\* Those of ns stand in the queue in their order, each once.
Orderly(queue, ns) ==
  \A j, k \in DOMAIN queue :
    j < k /\ queue[j] \in ns /\ queue[k] \in ns => queue[j] < queue[k]

MessagesInOrder == Messages \subseteq ToSet(Sent) /\ Orderly(Sent, Messages)

\* No message goes in between a call and its result.
NothingBetween ==
  [][\A n \in Messages' \cap ToSet(app'.entered) :
       n \in ToSet(app.entered) \/ (state \in {"Idle", "Finished"} /\ pending = <<>>)
    ]_<<vars, application>>

\* A turn whose questions are all answered is carried on, however the last answer
\* and the turn's own end fell: calls that are decided and not run are left lying
\* only where somebody steps, asked for a stop, or the money is gone.
CarriedOn ==
  state = "Ready" /\ ~app.busy /\ app.phase = "open"
    => app.stepping \/ stopped \/ app.overspent

\* Whatever went by too fast, once a turn is over it has been charged in full.
ChargedInFull == ~app.busy /\ app.phase # "left" => app.spent = responses

\* Nobody's turn goes on unwanted: no request is claimed once the App knows that the
\* ceiling is reached, and nothing at all in a session that was left, and not in a hurry.
ClaimsAreWanted ==
  [][Claims => app.phase # "left" /\ (pc'[Task] = "requesting" => ~app.overspent)]_<<vars, application>>

\* The App is one of the kernel's drivers, and drives it as any of them may.
DrivesTheKernel == Spec

\* What the doc comment of App::interrupt says: a running turn that is asked to stop
\* claims nothing more.
StopReachesTurn == [][Claims => ~app.interrupting]_<<vars, application>>

\* What the comment on `/step` says of a message given to it.
StepsBetweenNothing ==
  [][app'.entered # app.entered
       => state \in {"Idle", "Finished"} /\ pending = <<>>]_<<vars, application>>

---------------------------------------------------------------------------
(* The inductive invariant.                                                *)

\* What the kernel's two drivers are at, by what the App knows of them.
TaskShown ==
  /\ pc[Task] # "cancelling" /\ pc[Desk] \in {"away", "cancelling"}
  /\ pc[Desk] # "away" => ~app.busy /\ app.phase = "open"
  /\ app.task \in {"none", "spawned"} => pc[Task] = "away"
  /\ app.task = "spending" =>
       /\ pc[Task] \in {"away", "stepping"} /\ state = "Finished"
       /\ pc[Task] = "stepping" => interrupted
  /\ app.task = "driving" => pc[Task] # "away" /\ (turning[Task] <=> ~app.stepping)

\* A turn runs, or its one outcome waits, exactly while the App is busy.
EndShown ==
  /\ app.busy <=> app.task # "none" \/ Ends # {}
  /\ app.task # "none" => Ends = {}
  /\ \A j, k \in Ends : j = k

\* What the log has that is not charged is still announced, and of the turn that runs
\* or has just ended.
ChargesShown ==
  /\ app.charged # responses =>
       unread > 0 /\ app.busy /\ app.task \notin {"spawned", "spending"}
  /\ app.spent = app.charged /\ app.charged <= responses
  /\ app.limit # 0 /\ app.spent >= app.limit => app.overspent

\* A kernel asked to stop was asked by the App; past the ceiling it is, while the turn
\* still runs.
StopsShown ==
  app.overspent => stopped /\ (app.task = "none" \/ (app.task = "driving" /\ interrupted))

\* What the outcome of a turn says of the kernel holds until it is read, but for the
\* questions that are answered meanwhile.
OutcomeShown ==
  \A k \in Ends :
    /\ outcomes[k].how = "failed" => outcomes[k].state = "Idle"
    /\ outcomes[k].how = "stepped" => app.stepping
    /\ outcomes[k].how = "stopped" => ~app.stepping
    /\ outcomes[k].state \in {"Idle", "Finished"} => state \in {"Idle", "Finished"}
    /\ outcomes[k].state \in {"Deciding", "Ready"} => state \in {"Deciding", "Ready"}
    /\ state = "Deciding" => outcomes[k].state = "Deciding"
    /\ state = "Ready" => outcomes[k].state = "Deciding" \/ app.stepping \/ stopped

\* A session that waits for its turn has asked it to stop, and a turn that is carried
\* on then stops before it claims anything.
WaitShown ==
  app.phase = "waiting" =>
    /\ app.busy /\ app.interrupting /\ app.leaving = "quit"
    /\ \A k \in Ends :
         outcomes[k].state = "Deciding" /\ state = "Ready" => interrupted

\* What is left of a turn in a session that was left stops before it claims anything.
LeftShown ==
  app.phase = "left" /\ app.leaving \notin {"now", "late"} /\ app.task # "none" =>
    /\ app.task \in {"spawned", "driving"} /\ pc[Task] \in {"away", "looking", "stepping"}
    /\ interrupted /\ state = "Ready"

\* What a command sent out is known until it is back, and no turn runs beside a switch.
Returns == DOMAIN outcomes \ Ends
Switches(ns) == {n \in ns : lines[n] = "switch"}

OutShown ==
  /\ \A n \in app.away : n = app.errand \/ (app.settling /\ lines[n] = "switch")
  /\ app.settling => ~app.busy /\ pending = <<>>
  /\ app.errand # 0 => lines[app.errand] = "errand"
  /\ \A m, n \in Switches(app.away) : m = n
  /\ \A k \in Returns :
       /\ outcomes[k].line \notin app.away
       /\ lines[outcomes[k].line] = "switch" => app.settling /\ Switches(app.away) = {}
       /\ \A j \in Returns : lines[outcomes[j].line] = "switch" /\ lines[outcomes[k].line] = "switch" => j = k

\* Lines that are held came after all that are out.
Before(ms, ns) == \A m \in ms, n \in ns : m < n

HeldShown ==
  /\ Orderly(app.held, DOMAIN lines) /\ Before(app.away, ToSet(app.held))
  /\ \A k \in Returns : Before({outcomes[k].line}, ToSet(app.held))

\* Each of ns is in one of the places a message may be in, and each place has those that
\* came before the next one's.
Placed(entered, ahead, held, unsent, ns) ==
  /\ ns \subseteq ToSet(entered) \cup ToSet(ahead) \cup ToSet(held) \cup ToSet(unsent)
  /\ Orderly(entered, ns) /\ Orderly(ahead, ns) /\ Orderly(held, ns) /\ Orderly(unsent, ns)
  /\ Before(ToSet(entered) \cap ns, (ToSet(ahead) \cup ToSet(held) \cup ToSet(unsent)) \cap ns)
  /\ Before(ToSet(ahead) \cap ns, (ToSet(held) \cup ToSet(unsent)) \cap ns)
  /\ Before(ToSet(held) \cap ns, ToSet(unsent) \cap ns)

PlacesShown ==
  /\ Placed(app.entered, app.ahead, app.held, app.unsent, Messages)
  /\ app.phase # "left" => app.unsent = <<>>

TurnInv ==
  /\ TaskShown /\ LeftShown /\ (interrupted => stopped)
  /\ app.phase # "left" => EndShown /\ ChargesShown /\ StopsShown /\ OutcomeShown /\ WaitShown
  /\ app.phase = "open" => CarriedOn

LinesInv == PlacesShown /\ (app.phase = "open" => OutShown /\ HeldShown)

AppInv == IInv /\ AppTypeOK /\ TurnInv /\ LinesInv
=============================================================================
