-------------------------- MODULE ApplicationProofs --------------------------
(***************************************************************************)
(* The App is one of the kernel's drivers: whatever it does is what a      *)
(* driver of Machine may do, or nothing to the kernel.  Everything proved  *)
(* of the kernel for any drivers then holds under the App.                 *)
(*                                                                         *)
(* On top of the kernel's invariant, AppInv says how what the App knows    *)
(* and what is so hang together: the turn (TurnInv) and the lines that     *)
(* were handed in (LinesInv).  First what the App's methods make of it,    *)
(* as relations between the App before and after; then what a step of any  *)
(* kind must leave alone to keep either half; then one lemma for each      *)
(* action, and from AppInv the properties.                                 *)
(***************************************************************************)
EXTENDS Application, MachineProofs, FiniteSetTheorems

---------------------------------------------------------------------------
(* The App drives the kernel.                                              *)

\* A branch of the loop that asks the kernel for a stop, or for nothing.
LEMMA KernelStep ==
  ASSUME NEW asks, Kernel(asks)
  PROVE  [Next]_vars
<1>1. CASE asks
  BY <1>1 DEF Kernel, Next, Anybody, Interrupt
<1>2. CASE ~asks
  BY <1>2 DEF Kernel, vars
<1> QED
  BY <1>1, <1>2

\* A driver's step is a step of the kernel.
LEMMA DriverStep ==
  ASSUME NEW d \in Drivers, Called(d) \/ GoesOn(d)
  PROVE  Next
  BY DEF Next

\* Every step of the application is a step of the kernel, or leaves it alone: the
\* task steps as `turn` and `step` do, the loop drops calls, answers and interrupts.
LEMMA ApplicationStep ==
  ASSUME [AppNext]_<<vars, application>>
  PROVE  [Next]_vars
<1>0. Task \in Drivers /\ Desk \in Drivers
  BY ApplicationAssumption
<1>1. CASE Release
  BY <1>1, KernelStep DEF Release
<1>2. CASE HandIn
  BY <1>2, KernelStep DEF HandIn
<1>3. CASE Stop
  BY <1>3, KernelStep DEF Stop
<1>4. CASE DropCalls
  BY <1>0, <1>4, DriverStep DEF DropCalls, Called
<1>5. CASE \E k \in DOMAIN pending, g \in {"allow", "deny"} : Answer(k, g)
  BY <1>5 DEF Answer, Next, Anybody
<1>6. CASE RaiseCeiling
  BY <1>6, KernelStep DEF RaiseCeiling
<1>7. CASE Hear
  BY <1>7, KernelStep DEF Hear
<1>8. CASE TakeOutcome
  BY <1>8, KernelStep DEF TakeOutcome
<1>9. CASE Press
  BY <1>9, KernelStep DEF Press
<1>10. CASE Quit
  BY <1>10, KernelStep DEF Quit
<1>11. CASE Leave
  BY <1>11, KernelStep DEF Leave
<1>12. CASE WaitOutcome
  BY <1>12, KernelStep DEF WaitOutcome
<1>13. CASE Deadline
  BY <1>13, KernelStep DEF Deadline
<1>14. CASE TaskStarts
  BY <1>0, <1>14, DriverStep DEF TaskStarts, Called
<1>15. CASE TaskGoes
  BY <1>0, <1>15, DriverStep DEF TaskGoes
<1>16. CASE DeskGoes
  BY <1>0, <1>16, DriverStep DEF DeskGoes, GoesOn
<1>17. CASE \E n \in app.away : Return(n)
  BY <1>17, KernelStep DEF Return
<1>18. CASE UNCHANGED <<vars, application>>
  BY <1>18
<1> QED
  BY <1>1, <1>2, <1>3, <1>4, <1>5, <1>6, <1>7, <1>8, <1>9, <1>10, <1>11, <1>12,
     <1>13, <1>14, <1>15, <1>16, <1>17, <1>18 DEF AppNext, Loop, Tasks

\* The application implements the kernel's specification, for every script of lines,
\* size of answers, budget and ceiling.
THEOREM AppDrivesTheKernel == AppSpec => DrivesTheKernel
<1>1. AppInit => Init
  BY DEF AppInit
<1> QED
  BY <1>1, ApplicationStep, PTL DEF AppSpec, Spec, DrivesTheKernel

\* Under the App no request goes out with a call of the last answer open.
THEOREM NothingOpenUnderTheApp == AppSpec => []RequestsLeaveNothingOpen
  BY AppDrivesTheKernel, NothingOpenInARequest, PTL DEF DrivesTheKernel

\* Under the App no call has two results, and none that was lost has one.
THEOREM CallsAnsweredOnceUnderTheApp == AppSpec => []AnsweredOnce
  BY AppDrivesTheKernel, CallsAnsweredOnce, PTL DEF DrivesTheKernel

---------------------------------------------------------------------------
(* What the App's methods do to it: an App again, and which of its parts   *)
(* they leave alone.                                                       *)

SameTurn(a, b) ==
  /\ b.busy = a.busy /\ b.stepping = a.stepping /\ b.interrupting = a.interrupting
  /\ b.task = a.task
SameText(a, b) ==
  b.entered = a.entered /\ b.ahead = a.ahead /\ b.held = a.held /\ b.unsent = a.unsent
SameOut(a, b) == b.errand = a.errand /\ b.settling = a.settling /\ b.away = a.away
SameMoney(a, b) ==
  /\ b.spent = a.spent /\ b.charged = a.charged /\ b.limit = a.limit
  /\ b.overspent = a.overspent
SameLeaving(a, b) == b.leaving = a.leaving /\ b.phase = a.phase

\* A turn is started where none runs and there is money.
Launched(a, b) ==
  ~a.busy /\ ~a.overspent /\ b.busy /\ ~b.interrupting /\ b.task = "spawned"

\* A turn may be asked to stop.
Asked(a, b, asks) ==
  /\ b.busy = a.busy /\ b.stepping = a.stepping /\ b.task = a.task
  /\ b.interrupting = (a.interrupting \/ asks)

\* A message goes in after those that are ahead of it.
Queued(a, b, n) ==
  /\ b.entered = Append(a.entered, Head(Append(a.ahead, n)))
  /\ b.ahead = Tail(Append(a.ahead, n))

\* A place of the App is given other lines.
LEMMA TextApp ==
  ASSUME NEW ns, NEW a \in Apps(ns), NEW queue \in Seq(ns)
  PROVE  /\ [a EXCEPT !.entered = queue] \in Apps(ns)
         /\ [a EXCEPT !.ahead = queue] \in Apps(ns)
         /\ [a EXCEPT !.held = queue] \in Apps(ns)
  BY DEF Apps

\* App::launch gives an App.
LEMMA LaunchApp ==
  ASSUME NEW ns, NEW a \in Apps(ns), NEW stepping \in BOOLEAN
  PROVE  Launch(a, stepping) \in Apps(ns)
<1>1. [a EXCEPT !.busy = TRUE, !.stepping = stepping, !.interrupting = FALSE,
                !.task = "spawned"] \in Apps(ns)
  BY DEF Apps
<1> QED
  BY <1>1 DEF Launch

\* It starts a turn where none runs and there is money, and leaves the rest alone.
LEMMA LaunchShown ==
  ASSUME NEW ns, NEW a \in Apps(ns), NEW stepping \in BOOLEAN, NEW b, b = Launch(a, stepping)
  PROVE  /\ SameText(a, b) /\ SameOut(a, b) /\ SameMoney(a, b) /\ SameLeaving(a, b)
         /\ IF a.busy \/ a.overspent THEN SameTurn(a, b) ELSE Launched(a, b)
  BY DEF Apps, Launch, SameText, SameOut, SameMoney, SameLeaving, SameTurn, Launched

\* App::interrupt gives an App.
LEMMA LetGoApp ==
  ASSUME NEW ns, NEW a \in Apps(ns)
  PROVE  LetGo(a) \in Apps(ns)
  BY DEF Apps, LetGo

\* It asks the turn to stop, and lets go of what is out.
LEMMA LetGoShown ==
  ASSUME NEW ns, NEW a \in Apps(ns), NEW b, b = LetGo(a)
  PROVE  /\ SameText(a, b) /\ SameMoney(a, b) /\ SameLeaving(a, b)
         /\ Asked(a, b, a.busy)
         /\ b.errand = 0 /\ b.settling = a.settling /\ b.away = a.away \ {a.errand}
  BY DEF Apps, LetGo, SameText, SameMoney, SameLeaving, Asked

\* An App that took a message in is one.
LEMMA EnterApp ==
  ASSUME NEW ns, NEW a \in Apps(ns), NEW n \in ns
  PROVE  Enter(a, n) \in Apps(ns)
<1>1. a.entered \in Seq(ns)
  BY DEF Apps
<1>2. Append(a.entered, n) \in Seq(ns)
  BY <1>1
<1> QED
  BY <1>2, TextApp DEF Enter

\* It has one line more in the context, and that is all.
LEMMA EnterShown ==
  ASSUME NEW ns, NEW a \in Apps(ns), NEW n \in ns, NEW b, b = Enter(a, n)
  PROVE  /\ b.entered = Append(a.entered, n) /\ b.ahead = a.ahead /\ b.held = a.held
         /\ b.unsent = a.unsent
         /\ SameTurn(a, b) /\ SameOut(a, b) /\ SameMoney(a, b) /\ SameLeaving(a, b)
  BY DEF Apps, Enter, SameTurn, SameOut, SameMoney, SameLeaving

\* What is new in the log is charged, and a turn that runs into the ceiling is asked to
\* stop.
LEMMA ChargedApp ==
  ASSUME NEW ns, NEW a \in Apps(ns), responses \in Nat, a.charged <= responses
  PROVE  Charged(a) \in Apps(ns)
<1> DEFINE spent == a.spent + (responses - a.charged)
           b == [a EXCEPT !.spent = spent, !.charged = responses]
<1>1. spent \in Nat
  BY DEF Apps
<1>2. b \in Apps(ns)
  BY <1>1 DEF Apps
<1>3. [b EXCEPT !.overspent = TRUE] \in Apps(ns)
  BY <1>2 DEF Apps
<1> QED
  BY <1>2, <1>3, LetGoApp DEF Charged

\* Charging leaves the lines alone, and asks for a stop where it crosses the ceiling.
LEMMA ChargedShown ==
  ASSUME NEW ns, NEW a \in Apps(ns), responses \in Nat, a.charged <= responses,
         NEW b, b = Charged(a)
  PROVE  /\ SameText(a, b) /\ SameLeaving(a, b)
         /\ b.settling = a.settling
         /\ \/ b.errand = a.errand /\ b.away = a.away
            \/ b.errand = 0 /\ b.away = a.away \ {a.errand}
         /\ b.charged = responses /\ b.limit = a.limit
         /\ b.spent = a.spent + (responses - a.charged)
         /\ b.overspent = (a.overspent \/ Crosses(a, b.spent))
         /\ Asked(a, b, a.busy /\ Crosses(a, b.spent))
<1> DEFINE spent == a.spent + (responses - a.charged)
           c == [a EXCEPT !.spent = spent, !.charged = responses]
           d == [c EXCEPT !.overspent = TRUE]
<1>1. spent \in Nat
  BY DEF Apps
<1> HIDE DEF spent
<1>2. c \in Apps(ns) /\ d \in Apps(ns)
  BY <1>1 DEF Apps
<1>3. /\ SameText(a, c) /\ SameLeaving(a, c) /\ SameTurn(a, c) /\ SameOut(a, c)
      /\ c.charged = responses /\ c.spent = spent /\ c.limit = a.limit
      /\ c.overspent = a.overspent
  BY <1>1 DEF Apps, SameText, SameLeaving, SameTurn, SameOut
<1>4. /\ SameText(a, d) /\ SameLeaving(a, d) /\ SameTurn(a, d) /\ SameOut(a, d)
      /\ d.charged = responses /\ d.spent = spent /\ d.limit = a.limit
      /\ d.overspent = TRUE
  BY <1>1 DEF Apps, SameText, SameLeaving, SameTurn, SameOut
<1>5. b = IF Crosses(a, spent) THEN LetGo(d) ELSE c
  BY DEF Charged, spent
<1> HIDE DEF c, d
<1>6. CASE Crosses(a, spent)
  <2>1. b = LetGo(d)
    BY <1>5, <1>6
  <2>2. /\ SameText(d, b) /\ SameMoney(d, b) /\ SameLeaving(d, b) /\ Asked(d, b, d.busy)
        /\ b.errand = 0 /\ b.settling = d.settling /\ b.away = d.away \ {d.errand}
    BY <2>1, <1>2, LetGoShown
  <2> QED
    BY <1>4, <1>6, <2>2
    DEF SameText, SameMoney, SameLeaving, SameTurn, SameOut, Asked, spent
<1>7. CASE ~Crosses(a, spent)
  <2>1. b = c
    BY <1>5, <1>7
  <2>2. a.interrupting \in BOOLEAN /\ a.overspent \in BOOLEAN
    BY DEF Apps
  <2> QED
    BY <1>3, <1>7, <2>1, <2>2
    DEF SameText, SameMoney, SameLeaving, SameTurn, SameOut, Asked, spent
<1> QED
  BY <1>6, <1>7

\* A message waits behind the turn, or goes in and starts one.
LEMMA MessageApp ==
  ASSUME NEW ns, NEW a \in Apps(ns), NEW n \in ns
  PROVE  Message(a, n) \in Apps(ns)
<1>1. a.ahead \in Seq(ns)
  BY DEF Apps
<1>2. CASE MidTurn(a)
  <2>1. Append(a.ahead, n) \in Seq(ns)
    BY <1>1
  <2> QED
    BY <1>2, <2>1, TextApp DEF Message
<1>3. CASE ~MidTurn(a) /\ a.ahead = <<>>
  BY <1>3, EnterApp, LaunchApp DEF Message
<1>4. CASE ~MidTurn(a) /\ a.ahead # <<>>
  <2> DEFINE c == [a EXCEPT !.ahead = Append(Tail(@), n)]
  <2>1. Append(Tail(a.ahead), n) \in Seq(ns) /\ Head(a.ahead) \in ns
    BY <1>1, <1>4
  <2>2. c \in Apps(ns)
    BY <2>1, TextApp
  <2> HIDE DEF c
  <2>3. Enter(c, Head(a.ahead)) \in Apps(ns)
    BY <2>1, <2>2, EnterApp
  <2> QED
    BY <1>4, <2>3, LaunchApp DEF Message, c
<1> QED
  BY <1>2, <1>3, <1>4

\* Taking the head of a queue that has something behind it.
LEMMA HeadBeforeTail ==
  ASSUME NEW S, NEW queue \in Seq(S), NEW n \in S
  PROVE  /\ queue = <<>> => Head(Append(queue, n)) = n /\ Tail(Append(queue, n)) = <<>>
         /\ queue # <<>> => /\ Head(Append(queue, n)) = Head(queue)
                            /\ Tail(Append(queue, n)) = Append(Tail(queue), n)
<1>1. CASE queue = <<>>
  BY <1>1
<1>2. CASE queue # <<>>
  <2>1. Len(queue) \in Nat \ {0}
    BY <1>2
  <2>2. Head(Append(queue, n)) = Head(queue)
    BY <2>1
  <2>3. Tail(Append(queue, n)) = Append(Tail(queue), n)
    <3>1. Len(Tail(Append(queue, n))) = Len(Append(Tail(queue), n))
      BY <1>2, <2>1
    <3>2. ASSUME NEW i \in 1..Len(queue)
          PROVE  Tail(Append(queue, n))[i] = Append(Tail(queue), n)[i]
      BY <1>2, <2>1
    <3> QED
      BY <1>2, <2>1, <3>1, <3>2
  <2> QED
    BY <1>2, <2>2, <2>3
<1> QED
  BY <1>1, <1>2

\* A message waits while a turn is on, or goes in after those ahead of it.
LEMMA MessageShown ==
  ASSUME NEW ns, NEW a \in Apps(ns), NEW n \in ns, NEW b, b = Message(a, n)
  PROVE  /\ SameOut(a, b) /\ SameMoney(a, b) /\ SameLeaving(a, b)
         /\ b.held = a.held /\ b.unsent = a.unsent
         /\ SameTurn(a, b) \/ (Launched(a, b) /\ ~MidTurn(a))
         /\ IF MidTurn(a) THEN b.entered = a.entered /\ b.ahead = Append(a.ahead, n)
            ELSE Queued(a, b, n)
<1>1. a.ahead \in Seq(ns)
  BY DEF Apps
<1>2. CASE MidTurn(a)
  <2>1. b = [a EXCEPT !.ahead = Append(@, n)]
    BY <1>2 DEF Message
  <2> QED
    BY <1>2, <2>1 DEF Apps, SameTurn, SameOut, SameMoney, SameLeaving
<1>3. CASE ~MidTurn(a)
  <2> DEFINE c == IF a.ahead # <<>> THEN [a EXCEPT !.ahead = Append(Tail(@), n)] ELSE a
             m == IF a.ahead # <<>> THEN Head(a.ahead) ELSE n
             d == Enter(c, m)
  <2>1. b = Launch(d, FALSE)
    BY <1>3 DEF Message
  <2>2. c \in Apps(ns) /\ m \in ns
    <3>1. a.ahead # <<>> => Append(Tail(a.ahead), n) \in Seq(ns) /\ Head(a.ahead) \in ns
      BY <1>1
    <3> QED
      BY <3>1, TextApp
  <2>3. /\ SameTurn(a, c) /\ SameOut(a, c) /\ SameMoney(a, c) /\ SameLeaving(a, c)
        /\ c.entered = a.entered /\ c.held = a.held /\ c.unsent = a.unsent
        /\ c.ahead = IF a.ahead # <<>> THEN Append(Tail(a.ahead), n) ELSE <<>>
    BY DEF Apps, SameTurn, SameOut, SameMoney, SameLeaving
  <2>4. c.ahead = Tail(Append(a.ahead, n)) /\ m = Head(Append(a.ahead, n))
    BY <1>1, <2>3, HeadBeforeTail
  <2> HIDE DEF c, m
  <2>5. d \in Apps(ns)
    BY <2>2, EnterApp
  <2>6. /\ d.entered = Append(c.entered, m) /\ d.ahead = c.ahead /\ d.held = c.held
        /\ d.unsent = c.unsent
        /\ SameTurn(c, d) /\ SameOut(c, d) /\ SameMoney(c, d) /\ SameLeaving(c, d)
    BY <2>2, EnterShown
  <2> HIDE DEF d
  <2>7. /\ SameText(d, b) /\ SameOut(d, b) /\ SameMoney(d, b) /\ SameLeaving(d, b)
        /\ IF d.busy \/ d.overspent THEN SameTurn(d, b) ELSE Launched(d, b)
    BY <2>1, <2>5, LaunchShown
  <2>8. Queued(a, b, n)
    BY <2>3, <2>4, <2>6, <2>7 DEF Queued, SameText
  <2>9. SameTurn(a, b) \/ Launched(a, b)
    BY <2>3, <2>6, <2>7 DEF SameTurn, Launched, SameMoney
  <2> QED
    BY <1>3, <2>3, <2>6, <2>7, <2>8, <2>9
    DEF SameText, SameOut, SameMoney, SameLeaving
<1> QED
  BY <1>2, <1>3

\* What a line that is acted on leaves alone; a turn it starts, it starts where none ran,
\* and a message goes in only between turns.
ActedOn(a, b, n, kind) ==
  /\ SameMoney(a, b) /\ SameLeaving(a, b) /\ b.held = a.held /\ b.unsent = a.unsent
  /\ SameTurn(a, b) \/ (Launched(a, b) /\ SameOut(a, b))
  /\ \/ SameOut(a, b)
     \/ /\ kind = "switch" /\ ~MidTurn(a)
        /\ b.settling /\ b.errand = a.errand /\ b.away = a.away \cup {n}
     \/ kind = "errand" /\ b.errand = n /\ b.settling = a.settling /\ b.away = a.away \cup {n}
  /\ IF kind = "message"
     THEN IF MidTurn(a) THEN b.entered = a.entered /\ b.ahead = Append(a.ahead, n)
          ELSE Queued(a, b, n)
     ELSE b.ahead = a.ahead /\ b.entered \in {a.entered, Append(a.entered, n)}

\* Whatever a line comes to, it is acted on.
LEMMA ActedShown ==
  ASSUME NEW ns, NEW a \in Apps(ns), NEW n \in ns, NEW kind \in Kinds,
         kind = "switch" => ~MidTurn(a),
         NEW b \in Acted(a, n, kind)
  PROVE  b \in Apps(ns) /\ ActedOn(a, b, n, kind)
<1>1. CASE kind = "message"
  <2>1. b = Message(a, n)
    BY <1>1 DEF Acted
  <2>2. b \in Apps(ns)
    BY <2>1, MessageApp
  <2>3. /\ SameOut(a, b) /\ SameMoney(a, b) /\ SameLeaving(a, b)
        /\ b.held = a.held /\ b.unsent = a.unsent
        /\ SameTurn(a, b) \/ (Launched(a, b) /\ ~MidTurn(a))
        /\ IF MidTurn(a) THEN b.entered = a.entered /\ b.ahead = Append(a.ahead, n)
           ELSE Queued(a, b, n)
    BY <2>1, MessageShown
  <2> QED
    BY <1>1, <2>2, <2>3 DEF ActedOn
<1>2. CASE kind = "switch"
  <2>1. b = [a EXCEPT !.settling = TRUE, !.away = @ \cup {n}]
    BY <1>2 DEF Acted
  <2>2. b \in Apps(ns)
    BY <2>1 DEF Apps
  <2> QED
    BY <1>2, <2>1, <2>2
    DEF Apps, ActedOn, SameMoney, SameLeaving, SameTurn
<1>3. CASE kind = "errand"
  <2>1. b = [a EXCEPT !.errand = n, !.away = @ \cup {n}]
    BY <1>3 DEF Acted
  <2>2. b \in Apps(ns)
    BY <2>1 DEF Apps
  <2> QED
    BY <1>3, <2>1, <2>2
    DEF Apps, ActedOn, SameMoney, SameLeaving, SameTurn
<1>4. CASE kind = "step message"
  <2>1. CASE b = a
    BY <1>4, <2>1 DEF ActedOn, SameMoney, SameLeaving, SameTurn, SameOut
  <2>2. CASE b # a
    <3> DEFINE c == Enter(a, n)
    <3>1. b = Launch(c, TRUE)
      BY <1>4, <2>2 DEF Acted
    <3>2. c \in Apps(ns)
      BY EnterApp
    <3>3. /\ c.entered = Append(a.entered, n) /\ c.ahead = a.ahead /\ c.held = a.held
          /\ c.unsent = a.unsent
          /\ SameTurn(a, c) /\ SameOut(a, c) /\ SameMoney(a, c) /\ SameLeaving(a, c)
      BY EnterShown
    <3> HIDE DEF c
    <3>4. /\ SameText(c, b) /\ SameOut(c, b) /\ SameMoney(c, b) /\ SameLeaving(c, b)
          /\ IF c.busy \/ c.overspent THEN SameTurn(c, b) ELSE Launched(c, b)
      BY <3>1, <3>2, LaunchShown
    <3>5. b \in Apps(ns)
      BY <3>1, <3>2, LaunchApp
    <3>6. SameTurn(a, b) \/ Launched(a, b)
      BY <3>3, <3>4 DEF SameTurn, Launched, SameMoney
    <3>7. SameOut(a, b) /\ SameMoney(a, b) /\ SameLeaving(a, b)
      BY <3>3, <3>4 DEF SameOut, SameMoney, SameLeaving
    <3> QED
      BY <1>4, <3>3, <3>4, <3>5, <3>6, <3>7 DEF ActedOn, SameText
  <2> QED
    BY <2>1, <2>2
<1>5. CASE kind \in {"step", "continue"}
  <2>1. CASE b = a
    BY <1>5, <2>1 DEF ActedOn, SameMoney, SameLeaving, SameTurn, SameOut
  <2>2. CASE b # a
    <3>1. b = Launch(a, kind = "step")
      BY <1>5, <2>2 DEF Acted
    <3>2. b \in Apps(ns)
      BY <3>1, LaunchApp
    <3>3. /\ SameText(a, b) /\ SameOut(a, b) /\ SameMoney(a, b) /\ SameLeaving(a, b)
          /\ IF a.busy \/ a.overspent THEN SameTurn(a, b) ELSE Launched(a, b)
      BY <3>1, LaunchShown
    <3> QED
      BY <1>5, <3>2, <3>3 DEF ActedOn, SameText
  <2> QED
    BY <2>1, <2>2
<1> QED
  BY <1>1, <1>2, <1>3, <1>4, <1>5 DEF Kinds

\* A line that is handed in waits, or is acted on with nothing out and nothing that waits.
LEMMA SubmittedShown ==
  ASSUME NEW ns, NEW a \in Apps(ns), NEW n \in ns, NEW kind \in Kinds,
         NEW released \in BOOLEAN, released /\ kind = "switch" => ~MidTurn(a),
         NEW b \in Submitted(a, n, kind, released)
  PROVE  /\ b \in Apps(ns)
         /\ \/ /\ InFlight(a) \/ ~released
               /\ SameTurn(a, b) /\ SameOut(a, b) /\ SameMoney(a, b) /\ SameLeaving(a, b)
               /\ b.entered = a.entered /\ b.ahead = a.ahead /\ b.unsent = a.unsent
               /\ b.held = Append(a.held, n)
            \/ /\ ~InFlight(a) /\ (released \/ ~HeldSwitch(a))
               /\ ActedOn(a, b, n, kind)
<1>1. CASE /\ InFlight(a) \/ (~released /\ (HeldSwitch(a) \/ (kind = "switch" /\ MidTurn(a))))
           /\ b = [a EXCEPT !.held = Append(@, n)]
  <2>1. Append(a.held, n) \in Seq(ns)
    BY DEF Apps
  <2>2. b \in Apps(ns)
    BY <1>1, <2>1, TextApp
  <2> QED
    BY <1>1, <2>2 DEF Apps, SameTurn, SameOut, SameMoney, SameLeaving
<1>2. CASE /\ ~(InFlight(a) \/ (~released /\ (HeldSwitch(a) \/ (kind = "switch" /\ MidTurn(a)))))
           /\ b \in Acted(a, n, kind)
  BY <1>2, ActedShown
<1> QED
  BY <1>1, <1>2 DEF Submitted

\* What is done with the end of a turn: it is over, or carried on where its questions
\* were answered meanwhile, or answered by the next message, which goes in first.
Resuming(a, outcome) ==
  /\ outcome.how = "stopped" /\ outcome.state = "Deciding" /\ ~a.stepping /\ ~Open(pending)
Ended(outcome) == outcome.how = "failed" \/ outcome.state = "Finished" \/ outcome.state = "Idle"

\* What becomes of the App at the end of a turn.
LEMMA TurnOverShown ==
  ASSUME NEW ns, NEW a \in Apps(ns), NEW outcome, NEW b, b = TurnOver(a, outcome)
  PROVE  /\ b \in Apps(ns)
         /\ SameOut(a, b) /\ SameMoney(a, b) /\ SameLeaving(a, b)
         /\ b.held = a.held /\ b.unsent = a.unsent
         /\ \/ ~b.busy /\ b.task = a.task /\ b.stepping = a.stepping
            \/ /\ b.busy /\ b.task = "spawned" /\ ~a.overspent
               /\ Resuming(a, outcome) \/ ~a.interrupting
         /\ Resuming(a, outcome) => b.busy \/ a.overspent
         /\ \/ b.entered = a.entered /\ b.ahead = a.ahead
            \/ /\ Ended(outcome) /\ a.ahead # <<>>
               /\ b.entered = Append(a.entered, Head(a.ahead)) /\ b.ahead = Tail(a.ahead)
<1> DEFINE c == [a EXCEPT !.busy = FALSE, !.interrupting = FALSE]
           d == Enter(c, Head(a.ahead))
           entering == [d EXCEPT !.ahead = Tail(@)]
<1>1. /\ c \in Apps(ns) /\ SameText(a, c) /\ SameOut(a, c) /\ SameMoney(a, c)
      /\ SameLeaving(a, c) /\ ~c.busy /\ ~c.interrupting /\ c.task = a.task
      /\ c.stepping = a.stepping
  BY DEF Apps, SameText, SameOut, SameMoney, SameLeaving
<1>2. /\ SameOut(a, entering) /\ SameMoney(a, entering) /\ SameLeaving(a, entering)
      /\ entering.held = a.held /\ entering.unsent = a.unsent
      /\ entering.entered = Append(a.entered, Head(a.ahead)) /\ entering.ahead = Tail(a.ahead)
      /\ ~entering.busy /\ entering.task = a.task /\ entering.stepping = a.stepping
      /\ a.ahead # <<>> => entering \in Apps(ns)
  <2> HIDE DEF c
  <2>1. a.ahead # <<>> => Head(a.ahead) \in ns /\ Tail(a.ahead) \in Seq(ns)
    <3>1. a.ahead \in Seq(ns)
      BY DEF Apps
    <3> QED
      BY <3>1
  <2>2. /\ d.entered = Append(c.entered, Head(a.ahead)) /\ d.ahead = c.ahead
        /\ d.held = c.held /\ d.unsent = c.unsent
        /\ SameTurn(c, d) /\ SameOut(c, d) /\ SameMoney(c, d) /\ SameLeaving(c, d)
        /\ entering.ahead = Tail(d.ahead) /\ entering.entered = d.entered
        /\ entering.held = d.held /\ entering.unsent = d.unsent
        /\ SameTurn(d, entering) /\ SameOut(d, entering) /\ SameMoney(d, entering)
        /\ SameLeaving(d, entering)
    BY <1>1 DEF Enter, Apps, SameTurn, SameOut, SameMoney, SameLeaving
  <2>3. a.ahead # <<>> => entering \in Apps(ns)
    <3>1. a.ahead # <<>> => d \in Apps(ns)
      BY <1>1, <2>1, EnterApp
    <3>2. d.ahead = a.ahead
      BY <1>1, <2>2 DEF SameText
    <3> HIDE DEF d
    <3> QED
      BY <2>1, <3>1, <3>2, TextApp
  <2> HIDE DEF d, entering
  <2>4. /\ SameOut(a, entering) /\ SameMoney(a, entering) /\ SameLeaving(a, entering)
    BY <1>1, <2>2 DEF SameOut, SameMoney, SameLeaving
  <2> QED
    BY <1>1, <2>2, <2>3, <2>4 DEF SameText, SameTurn
<1> HIDE DEF c, entering
<1>3. CASE Resuming(a, outcome)
  <2> DEFINE e == Launch(c, FALSE)
  <2>1. b = [e EXCEPT !.interrupting = a.interrupting]
    BY <1>3 DEF TurnOver, Resuming, c
  <2>2. e \in Apps(ns)
    BY <1>1, LaunchApp
  <2>3. /\ SameText(c, e) /\ SameOut(c, e) /\ SameMoney(c, e) /\ SameLeaving(c, e)
        /\ IF c.busy \/ c.overspent THEN SameTurn(c, e) ELSE Launched(c, e)
    BY <1>1, LaunchShown
  <2> HIDE DEF e
  <2>4. /\ b \in Apps(ns) /\ SameText(e, b) /\ SameOut(e, b) /\ SameMoney(e, b)
        /\ SameLeaving(e, b) /\ b.busy = e.busy /\ b.task = e.task /\ b.stepping = e.stepping
    BY <2>1, <2>2 DEF Apps, SameText, SameOut, SameMoney, SameLeaving
  <2>5. SameText(a, b) /\ SameOut(a, b) /\ SameMoney(a, b) /\ SameLeaving(a, b)
    BY <1>1, <2>3, <2>4 DEF SameText, SameOut, SameMoney, SameLeaving
  <2>6. IF a.overspent THEN ~b.busy /\ b.task = a.task /\ b.stepping = a.stepping
        ELSE b.busy /\ b.task = "spawned"
    BY <1>1, <2>3, <2>4 DEF SameTurn, Launched, SameMoney
  <2> QED
    BY <1>3, <2>4, <2>5, <2>6 DEF SameText
<1>4. CASE ~Resuming(a, outcome) /\ (~Ended(outcome) \/ a.ahead = <<>>)
  <2>1. b = c
    BY <1>4 DEF TurnOver, Resuming, Ended, c
  <2> QED
    BY <1>1, <1>4, <2>1 DEF SameText
<1>5. CASE /\ ~Resuming(a, outcome) /\ Ended(outcome) /\ a.ahead # <<>>
           /\ a.interrupting \/ outcome.how # "stopped"
  <2>1. b = entering
    BY <1>5 DEF TurnOver, Resuming, Ended, c, entering
  <2> QED
    BY <1>2, <1>5, <2>1
<1>6. CASE /\ ~Resuming(a, outcome) /\ Ended(outcome) /\ a.ahead # <<>>
           /\ ~(a.interrupting \/ outcome.how # "stopped")
  <2>1. b = Launch(entering, FALSE)
    BY <1>6 DEF TurnOver, Resuming, Ended, c, entering
  <2>2. b \in Apps(ns)
    BY <1>2, <1>6, <2>1, LaunchApp
  <2>3. /\ SameText(entering, b) /\ SameOut(entering, b) /\ SameMoney(entering, b)
        /\ SameLeaving(entering, b)
        /\ IF entering.busy \/ entering.overspent THEN SameTurn(entering, b)
           ELSE Launched(entering, b)
    BY <1>2, <1>6, <2>1, LaunchShown
  <2>4. SameOut(a, b) /\ SameMoney(a, b) /\ SameLeaving(a, b)
    BY <1>2, <2>3 DEF SameOut, SameMoney, SameLeaving
  <2>5. IF a.overspent THEN ~b.busy /\ b.task = a.task /\ b.stepping = a.stepping
        ELSE b.busy /\ b.task = "spawned"
    BY <1>2, <2>3 DEF SameTurn, Launched, SameMoney
  <2> QED
    BY <1>2, <1>6, <2>2, <2>3, <2>4, <2>5 DEF SameText
<1> QED
  BY <1>3, <1>4, <1>5, <1>6

---------------------------------------------------------------------------
(* Messages and the places they are in.                                    *)

\* The head and the tail of a queue are of its kind, and so is a longer queue.
LEMMA QueueEnds ==
  ASSUME NEW S, NEW queue \in Seq(S)
  PROVE  /\ queue # <<>> => Head(queue) \in S /\ Tail(queue) \in Seq(S)
         /\ \A n \in S : Append(queue, n) \in Seq(S) /\ Append(queue, n) # <<>>
  OBVIOUS

\* What is left of a queue without its head.
LEMMA TailTaken ==
  ASSUME NEW S, NEW queue \in Seq(S), queue # <<>>, NEW rest, rest = Tail(queue)
  PROVE  /\ 1 \in DOMAIN queue /\ Head(queue) = queue[1] /\ rest \in Seq(S)
         /\ \A k \in DOMAIN rest :
              k \in Nat \ {0} /\ k + 1 \in DOMAIN queue /\ rest[k] = queue[k + 1]
         /\ \A k \in DOMAIN queue :
              k = 1 \/ (/\ k - 1 \in DOMAIN rest /\ k \in Nat
                        /\ rest[k - 1] = queue[k])
<1>1. /\ Len(queue) \in Nat \ {0} /\ DOMAIN rest = 1..(Len(queue) - 1)
      /\ DOMAIN queue = 1..Len(queue) /\ Head(queue) = queue[1] /\ rest \in Seq(S)
      /\ \A k \in 1..(Len(queue) - 1) : rest[k] = queue[k + 1]
  OBVIOUS
<1>2. ASSUME NEW k \in DOMAIN queue, k # 1
      PROVE  k - 1 \in DOMAIN rest /\ k \in Nat /\ rest[k - 1] = queue[k]
  <2>1. k - 1 \in 1..(Len(queue) - 1) /\ (k - 1) + 1 = k
    BY <1>1, <1>2
  <2> QED
    BY <1>1, <2>1
<1> QED
  BY <1>1, <1>2

\* A queue of few lines is one of more.
LEMMA LongerLine ==
  ASSUME NEW S, NEW T, S \subseteq T, NEW queue \in Seq(S)
  PROVE  queue \in Seq(T)
<1>1. queue \in [1..Len(queue) -> S] /\ Len(queue) \in Nat
  OBVIOUS
<1>2. queue \in [1..Len(queue) -> T]
  BY <1>1
<1> QED
  BY <1>1, <1>2

\* What is in a queue is its head and what is in the rest.
LEMMA SetOfTail ==
  ASSUME NEW S, NEW queue \in Seq(S), queue # <<>>
  PROVE  ToSet(queue) = {Head(queue)} \cup ToSet(Tail(queue))
<1> DEFINE rest == Tail(queue)
<1>1. /\ Len(queue) \in Nat \ {0} /\ DOMAIN rest = 1..(Len(queue) - 1)
      /\ DOMAIN queue = 1..Len(queue) /\ Head(queue) = queue[1]
      /\ \A k \in 1..(Len(queue) - 1) : rest[k] = queue[k + 1]
  OBVIOUS
<1> HIDE DEF rest
<1>2. ASSUME NEW k \in DOMAIN queue, k # 1
      PROVE  queue[k] \in ToSet(rest)
  <2>1. k - 1 \in 1..(Len(queue) - 1) /\ (k - 1) + 1 = k
    BY <1>1, <1>2
  <2>2. rest[k - 1] = queue[k]
    BY <1>1, <2>1
  <2> QED
    BY <1>1, <2>1, <2>2 DEF ToSet
<1>3. ASSUME NEW k \in DOMAIN rest
      PROVE  rest[k] \in ToSet(queue)
  <2>1. k + 1 \in DOMAIN queue /\ rest[k] = queue[k + 1]
    BY <1>1
  <2> QED
    BY <2>1 DEF ToSet
<1>4. queue[1] \in ToSet(queue)
  BY <1>1 DEF ToSet
<1>5. ToSet(queue) \subseteq {Head(queue)} \cup ToSet(rest)
  BY <1>1, <1>2 DEF ToSet
<1>6. ToSet(rest) \subseteq ToSet(queue)
  BY <1>3 DEF ToSet
<1> QED
  BY <1>1, <1>4, <1>5, <1>6 DEF rest

\* A queue stays in order with one behind it that came later.
LEMMA OrderlyAppend ==
  ASSUME NEW S, NEW queue \in Seq(S), NEW n \in S, NEW ns, Orderly(queue, ns),
         n \in ns => Before(ToSet(queue) \cap ns, {n})
  PROVE  Orderly(Append(queue, n), ns)
<1> DEFINE longer == Append(queue, n)
<1>1. /\ Len(queue) \in Nat /\ DOMAIN longer = 1..(Len(queue) + 1)
      /\ longer[Len(queue) + 1] = n /\ \A k \in 1..Len(queue) : longer[k] = queue[k]
      /\ DOMAIN queue = 1..Len(queue)
  OBVIOUS
<1> HIDE DEF longer
<1>2. ASSUME NEW j \in DOMAIN longer, NEW k \in DOMAIN longer,
             j < k, longer[j] \in ns, longer[k] \in ns
      PROVE  longer[j] < longer[k]
  <2>1. j \in DOMAIN queue /\ longer[j] = queue[j]
    BY <1>1, <1>2
  <2>2. CASE k \in DOMAIN queue
    BY <1>1, <1>2, <2>1, <2>2 DEF Orderly
  <2>3. CASE k \notin DOMAIN queue
    <3>1. longer[k] = n
      BY <1>1, <2>3
    <3>2. queue[j] \in ToSet(queue)
      BY <2>1 DEF ToSet
    <3> QED
      BY <1>2, <2>1, <3>1, <3>2 DEF Before
  <2> QED
    BY <2>2, <2>3
<1> QED
  BY <1>2 DEF Orderly, longer

\* A queue stays in order without its head, which came before the rest.
LEMMA OrderlyTail ==
  ASSUME NEW S, NEW queue \in Seq(S), queue # <<>>, NEW ns, Orderly(queue, ns)
  PROVE  /\ Orderly(Tail(queue), ns)
         /\ Head(queue) \in ns => Before({Head(queue)}, ToSet(Tail(queue)) \cap ns)
<1> DEFINE rest == Tail(queue)
<1>1. /\ Len(queue) \in Nat \ {0} /\ DOMAIN rest = 1..(Len(queue) - 1)
      /\ \A k \in DOMAIN rest : rest[k] = queue[k + 1]
      /\ DOMAIN queue = 1..Len(queue) /\ Head(queue) = queue[1]
  OBVIOUS
<1> HIDE DEF rest
<1>2. ASSUME NEW j \in DOMAIN rest, NEW k \in DOMAIN rest,
             j < k, rest[j] \in ns, rest[k] \in ns
      PROVE  rest[j] < rest[k]
  <2>1. /\ j + 1 \in DOMAIN queue /\ k + 1 \in DOMAIN queue /\ j + 1 < k + 1
        /\ rest[j] = queue[j + 1] /\ rest[k] = queue[k + 1]
    BY <1>1, <1>2
  <2> QED
    BY <1>2, <2>1 DEF Orderly
<1>3. ASSUME Head(queue) \in ns, NEW n \in ToSet(rest) \cap ns
      PROVE  Head(queue) < n
  <2>1. PICK k \in DOMAIN rest : n = rest[k]
    BY <1>3 DEF ToSet
  <2>2. 1 \in DOMAIN queue /\ k + 1 \in DOMAIN queue /\ 1 < k + 1 /\ n = queue[k + 1]
    BY <1>1, <2>1
  <2> QED
    BY <1>1, <1>3, <2>2 DEF Orderly
<1> QED
  BY <1>2, <1>3 DEF Orderly, Before, rest

\* Two queues in order are one, where all of the first came before the second.
LEMMA OrderlyConcat ==
  ASSUME NEW S, NEW s \in Seq(S), NEW t \in Seq(S), NEW ns, Orderly(s, ns), Orderly(t, ns),
         Before(ToSet(s) \cap ns, ToSet(t) \cap ns)
  PROVE  Orderly(s \o t, ns)
<1> DEFINE u == s \o t
<1>1. /\ Len(s) \in Nat /\ Len(t) \in Nat /\ DOMAIN u = 1..(Len(s) + Len(t))
      /\ DOMAIN s = 1..Len(s) /\ DOMAIN t = 1..Len(t)
      /\ \A k \in DOMAIN u : u[k] = IF k <= Len(s) THEN s[k] ELSE t[k - Len(s)]
  OBVIOUS
<1> HIDE DEF u
<1>2. ASSUME NEW j \in DOMAIN u, NEW k \in DOMAIN u, j < k, u[j] \in ns, u[k] \in ns
      PROVE  u[j] < u[k]
  <2>1. CASE k <= Len(s)
    <3>1. j \in DOMAIN s /\ k \in DOMAIN s /\ u[j] = s[j] /\ u[k] = s[k]
      BY <1>1, <1>2, <2>1
    <3> QED
      BY <1>2, <3>1 DEF Orderly
  <2>2. CASE j > Len(s)
    <3>1. /\ j - Len(s) \in DOMAIN t /\ k - Len(s) \in DOMAIN t /\ j - Len(s) < k - Len(s)
          /\ u[j] = t[j - Len(s)] /\ u[k] = t[k - Len(s)]
      BY <1>1, <1>2, <2>2
    <3> QED
      BY <1>2, <3>1 DEF Orderly
  <2>3. CASE j <= Len(s) /\ k > Len(s)
    <3>1. /\ j \in DOMAIN s /\ k - Len(s) \in DOMAIN t
          /\ u[j] = s[j] /\ u[k] = t[k - Len(s)]
      BY <1>1, <1>2, <2>3
    <3>2. u[j] \in ToSet(s) /\ u[k] \in ToSet(t)
      BY <3>1 DEF ToSet
    <3> QED
      BY <1>2, <3>2 DEF Before
  <2> QED
    BY <1>1, <2>1, <2>2, <2>3
<1> QED
  BY <1>2 DEF Orderly, u

\* What is in two queues one after the other.
LEMMA SetOfConcat ==
  ASSUME NEW S, NEW s \in Seq(S), NEW t \in Seq(S)
  PROVE  ToSet(s \o t) = ToSet(s) \cup ToSet(t)
<1>1. /\ Len(s) \in Nat /\ Len(t) \in Nat /\ DOMAIN (s \o t) = 1..(Len(s) + Len(t))
      /\ DOMAIN s = 1..Len(s) /\ DOMAIN t = 1..Len(t)
      /\ \A k \in 1..(Len(s) + Len(t)) :
           (s \o t)[k] = IF k <= Len(s) THEN s[k] ELSE t[k - Len(s)]
  OBVIOUS
<1>2. ASSUME NEW k \in DOMAIN t
      PROVE  Len(s) + k \in DOMAIN (s \o t) /\ (s \o t)[Len(s) + k] = t[k]
  BY <1>1
<1>3. ASSUME NEW k \in DOMAIN s
      PROVE  k \in DOMAIN (s \o t) /\ (s \o t)[k] = s[k]
  BY <1>1
<1>4. ToSet(s \o t) \subseteq ToSet(s) \cup ToSet(t)
  <2>1. SUFFICES ASSUME NEW k \in DOMAIN (s \o t)
                 PROVE  (s \o t)[k] \in ToSet(s) \cup ToSet(t)
    BY DEF ToSet
  <2>2. CASE k <= Len(s)
    <3>1. k \in DOMAIN s /\ (s \o t)[k] = s[k]
      BY <1>1, <2>2
    <3> QED
      BY <3>1 DEF ToSet
  <2>3. CASE k > Len(s)
    <3>1. k - Len(s) \in DOMAIN t /\ (s \o t)[k] = t[k - Len(s)]
      BY <1>1, <2>3
    <3> QED
      BY <3>1 DEF ToSet
  <2> QED
    BY <1>1, <2>2, <2>3
<1>5. ToSet(s) \subseteq ToSet(s \o t)
  BY <1>3 DEF ToSet
<1>6. ToSet(t) \subseteq ToSet(s \o t)
  BY <1>2 DEF ToSet
<1> QED
  BY <1>4, <1>5, <1>6

\* The first of those that wait goes in.
LEMMA FirstGoesIn ==
  ASSUME NEW S, NEW e \in Seq(S), NEW a \in Seq(S), NEW h \in Seq(S), NEW u \in Seq(S), NEW ns,
         Placed(e, a, h, u, ns), a # <<>>
  PROVE  Placed(Append(e, Head(a)), Tail(a), h, u, ns)
<1>1. Head(a) \in S
  OBVIOUS
<1>2. ToSet(Append(e, Head(a))) = ToSet(e) \cup {Head(a)}
  BY <1>1, AppendedSet
<1>3. ToSet(a) = {Head(a)} \cup ToSet(Tail(a))
  BY SetOfTail
<1>4. /\ Orderly(Tail(a), ns)
      /\ Head(a) \in ns => Before({Head(a)}, ToSet(Tail(a)) \cap ns)
  BY OrderlyTail DEF Placed
<1>5. Orderly(Append(e, Head(a)), ns)
  <2>1. Head(a) \in ns => Before(ToSet(e) \cap ns, {Head(a)})
    BY <1>3 DEF Placed, Before
  <2> QED
    BY <1>1, <2>1, OrderlyAppend DEF Placed
<1> QED
  BY <1>2, <1>3, <1>4, <1>5 DEF Placed, Before

\* The first of those that are held is let go on to wait.
LEMMA FirstGoesOn ==
  ASSUME NEW S, NEW e \in Seq(S), NEW a \in Seq(S), NEW h \in Seq(S), NEW u \in Seq(S), NEW ns,
         Placed(e, a, h, u, ns), h # <<>>
  PROVE  Placed(e, Append(a, Head(h)), Tail(h), u, ns)
<1>1. Head(h) \in S
  OBVIOUS
<1>2. ToSet(Append(a, Head(h))) = ToSet(a) \cup {Head(h)}
  BY <1>1, AppendedSet
<1>3. ToSet(h) = {Head(h)} \cup ToSet(Tail(h))
  BY SetOfTail
<1>4. /\ Orderly(Tail(h), ns)
      /\ Head(h) \in ns => Before({Head(h)}, ToSet(Tail(h)) \cap ns)
  BY OrderlyTail DEF Placed
<1>5. Orderly(Append(a, Head(h)), ns)
  <2>1. Head(h) \in ns => Before(ToSet(a) \cap ns, {Head(h)})
    BY <1>3 DEF Placed, Before
  <2> QED
    BY <1>1, <2>1, OrderlyAppend DEF Placed
<1> QED
  BY <1>2, <1>3, <1>4, <1>5 DEF Placed, Before

\* A line that asks for no message may leave the places, or come into one.
LEMMA OtherGoes ==
  ASSUME NEW S, NEW e \in Seq(S), NEW a \in Seq(S), NEW h \in Seq(S), NEW u \in Seq(S), NEW ns,
         Placed(e, a, h, u, ns), h # <<>>, Head(h) \notin ns
  PROVE  Placed(e, a, Tail(h), u, ns)
<1>1. ToSet(h) = {Head(h)} \cup ToSet(Tail(h))
  BY SetOfTail
<1>2. Orderly(Tail(h), ns)
  BY OrderlyTail DEF Placed
<1> QED
  BY <1>1, <1>2 DEF Placed, Before

\* A line that is no message goes in beside them.
LEMMA OtherGoesIn ==
  ASSUME NEW S, NEW e \in Seq(S), NEW a \in Seq(S), NEW h \in Seq(S), NEW u \in Seq(S), NEW ns,
         Placed(e, a, h, u, ns), NEW n \in S, n \notin ns
  PROVE  Placed(Append(e, n), a, h, u, ns)
<1>1. ToSet(Append(e, n)) = ToSet(e) \cup {n}
  BY AppendedSet
<1>2. Orderly(Append(e, n), ns)
  BY OrderlyAppend DEF Placed
<1> QED
  BY <1>1, <1>2 DEF Placed, Before

\* A line handed in comes after all there are.
LEMMA NewIsHeld ==
  ASSUME NEW S \in SUBSET Nat, NEW e \in Seq(S), NEW a \in Seq(S), NEW h \in Seq(S), NEW ns,
         Placed(e, a, h, <<>>, ns), NEW n \in Nat, \A m \in S : m < n,
         NEW ms, ms = ns \/ ms = ns \cup {n}
  PROVE  Placed(e, a, Append(h, n), <<>>, ms)
<1>1. ToSet(e) \subseteq S /\ ToSet(a) \subseteq S /\ ToSet(h) \subseteq S
  BY Elements
<1>2. /\ e \in Seq(Nat) /\ a \in Seq(Nat) /\ h \in Seq(Nat)
      /\ n \notin S /\ ToSet(<<>>) = {}
  <2>1. \A queue \in Seq(S) : queue \in Seq(Nat)
    BY LongerLine
  <2>2. n \notin S
    OBVIOUS
  <2> QED
    BY <2>1, <2>2, NothingAnswered
<1>3. ToSet(Append(h, n)) = ToSet(h) \cup {n}
  BY <1>2, AppendedSet
<1>4. ASSUME NEW queue \in Seq(Nat), ToSet(queue) \subseteq S, Orderly(queue, ns)
      PROVE  Orderly(queue, ms)
  <2>1. \A k \in DOMAIN queue : queue[k] # n
    BY <1>2, <1>4 DEF ToSet
  <2> QED
    BY <1>4, <2>1 DEF Orderly
<1>5. Orderly(e, ms) /\ Orderly(a, ms) /\ Orderly(h, ms)
  BY <1>1, <1>2, <1>4 DEF Placed
<1>6. Orderly(Append(h, n), ms)
  <2>1. Before(ToSet(h) \cap ms, {n})
    BY <1>1 DEF Before
  <2> QED
    BY <1>2, <1>5, <2>1, OrderlyAppend
<1>7. Orderly(<<>>, ms)
  BY DEF Orderly
<1>8. ms \subseteq ToSet(e) \cup ToSet(a) \cup ToSet(Append(h, n)) \cup ToSet(<<>>)
  BY <1>3 DEF Placed
<1>9. /\ Before(ToSet(e) \cap ms, (ToSet(a) \cup ToSet(Append(h, n)) \cup ToSet(<<>>)) \cap ms)
      /\ Before(ToSet(a) \cap ms, (ToSet(Append(h, n)) \cup ToSet(<<>>)) \cap ms)
      /\ Before(ToSet(Append(h, n)) \cap ms, ToSet(<<>>) \cap ms)
  <2>1. \A k \in S : k \in ms => k \in ns /\ k < n
    BY <1>2
  <2> QED
    BY <1>1, <1>2, <1>3, <2>1 DEF Placed, Before
<1> QED
  BY <1>5, <1>6, <1>7, <1>8, <1>9 DEF Placed

\* Where the session is left, what waits and what is held is said to be unsent.
LEMMA RestIsUnsent ==
  ASSUME NEW S, NEW e \in Seq(S), NEW a \in Seq(S), NEW h \in Seq(S), NEW ns,
         Placed(e, a, h, <<>>, ns)
  PROVE  Placed(e, <<>>, <<>>, a \o h, ns)
<1>1. ToSet(a \o h) = ToSet(a) \cup ToSet(h) /\ ToSet(<<>>) = {}
  BY SetOfConcat, NothingAnswered
<1>2. Orderly(a \o h, ns)
  <2>1. Orderly(a, ns) /\ Orderly(h, ns) /\ Before(ToSet(a) \cap ns, ToSet(h) \cap ns)
    BY <1>1 DEF Placed, Before
  <2> QED
    BY <2>1, OrderlyConcat
<1>3. Orderly(<<>>, ns)
  BY DEF Orderly
<1> QED
  BY <1>1, <1>2, <1>3 DEF Placed, Before

\* One place after the other, the messages are in the order they were sent.
LEMMA PlacedInOrder ==
  ASSUME NEW S, NEW e \in Seq(S), NEW a \in Seq(S), NEW h \in Seq(S), NEW u \in Seq(S), NEW ns,
         Placed(e, a, h, u, ns)
  PROVE  /\ ns \subseteq ToSet(e \o a \o h \o u)
         /\ Orderly(e \o a \o h \o u, ns)
<1>1. e \o a \in Seq(S) /\ e \o a \o h \in Seq(S)
  OBVIOUS
<1>2. /\ ToSet(e \o a) = ToSet(e) \cup ToSet(a)
      /\ ToSet(e \o a \o h) = ToSet(e \o a) \cup ToSet(h)
      /\ ToSet(e \o a \o h \o u) = ToSet(e \o a \o h) \cup ToSet(u)
  <2>1. ToSet(e \o a) = ToSet(e) \cup ToSet(a)
    BY SetOfConcat
  <2>2. ToSet((e \o a) \o h) = ToSet(e \o a) \cup ToSet(h)
    BY <1>1, SetOfConcat, ZenonT(60)
  <2>3. ToSet((e \o a \o h) \o u) = ToSet(e \o a \o h) \cup ToSet(u)
    BY <1>1, SetOfConcat, ZenonT(60)
  <2> QED
    BY <2>1, <2>2, <2>3
<1>3. Orderly(e \o a, ns)
  <2>1. Before(ToSet(e) \cap ns, ToSet(a) \cap ns)
    BY DEF Placed, Before
  <2> QED
    BY <2>1, OrderlyConcat DEF Placed
<1>4. Orderly(e \o a \o h, ns)
  <2>1. Before(ToSet(e \o a) \cap ns, ToSet(h) \cap ns)
    BY <1>2 DEF Placed, Before
  <2> QED
    BY <1>1, <1>3, <2>1, OrderlyConcat DEF Placed
<1>5. Orderly(e \o a \o h \o u, ns)
  <2>1. Before(ToSet(e \o a \o h) \cap ns, ToSet(u) \cap ns)
    BY <1>2 DEF Placed, Before
  <2> QED
    BY <1>1, <1>4, <2>1, OrderlyConcat DEF Placed
<1> QED
  BY <1>2, <1>5 DEF Placed

---------------------------------------------------------------------------
(* The turn.                                                               *)

\* What the kernel's invariant says of it to the App.
LEMMA KernelShown ==
  ASSUME IInv
  PROVE  /\ Task \in Drivers /\ Desk \in Drivers /\ Task # Desk
         /\ interrupted \in BOOLEAN /\ pending \in Seq(Prepared)
         /\ pc \in [Drivers -> Places] /\ turning \in [Drivers -> BOOLEAN]
         /\ state \in Resting \cup {"Requesting", "Executing"}
         /\ pending # <<>> => state \in {"Deciding", "Ready"}
         /\ state = "Deciding" => Open(pending) /\ pending # <<>>
         /\ state = "Ready" => ~Open(pending) /\ pending # <<>>
         /\ pc[Task] \notin Owning /\ pc[Desk] \notin Owning => state \in Resting
<1>1. Task \in Drivers /\ Desk \in Drivers /\ Task # Desk
  BY ApplicationAssumption
<1>2. /\ interrupted \in BOOLEAN /\ pending \in Seq(Prepared)
      /\ pc \in [Drivers -> Places] /\ turning \in [Drivers -> BOOLEAN]
      /\ state \in Resting \cup {"Requesting", "Executing"}
  BY DEF IInv, CallsKept, TypeOK, Places
<1>3. /\ pending # <<>> => state \in {"Deciding", "Ready"}
      /\ state \in {"Deciding", "Ready"} => state = StateFor(pending)
  BY DEF IInv, CallsKept, CallsInPlace
<1>4. /\ state = "Deciding" => Open(pending) /\ pending # <<>>
      /\ state = "Ready" => ~Open(pending) /\ pending # <<>>
  BY <1>3 DEF StateFor, Open
<1>5. ASSUME pc[Task] \notin Owning, pc[Desk] \notin Owning
      PROVE  state \in Resting
  BY <1>5, ApplicationAssumption DEF IInv, CallsKept, OneDriver, Owns
<1> QED
  BY <1>1, <1>2, <1>3, <1>4, <1>5

\* The parts of an App, one by one.
LEMMA AppTypes ==
  ASSUME AppTypeOK
  PROVE  /\ app.busy \in BOOLEAN /\ app.stepping \in BOOLEAN /\ app.interrupting \in BOOLEAN
         /\ app.task \in {"none", "spawned", "spending", "driving"}
         /\ app.settling \in BOOLEAN /\ app.overspent \in BOOLEAN
         /\ app.spent \in Nat /\ app.charged \in Nat /\ app.limit \in Nat /\ responses \in Nat
         /\ app.leaving \in {"no", "pressed", "quit", "now", "late"}
         /\ app.phase \in {"open", "waiting", "left"}
         /\ unread \in 0..Behind /\ stopped \in BOOLEAN
  BY DEF AppTypeOK, Apps

\* Between turns nobody drives the kernel.
LEMMA BetweenTurns ==
  ASSUME AppInv, app.phase # "left", ~app.busy, pc[Desk] = "away"
  PROVE  /\ app.task = "none" /\ Ends = {} /\ pc[Task] = "away" /\ state \in Resting
         /\ pending = <<>> => state \in {"Idle", "Finished"}
<1>1. app.task = "none" /\ Ends = {} /\ pc[Task] = "away"
  BY DEF AppInv, TurnInv, EndShown, TaskShown
<1>2. state \in Resting
  BY <1>1, KernelShown DEF AppInv, Owning
<1> QED
  BY <1>1, <1>2, KernelShown DEF AppInv, Resting

\* The outcomes that are unread are those there were, but for those read meanwhile.
EndsKept(by) ==
  \A k \in Ends' : k \in Int /\ k + by \in Ends /\ outcomes'[k] = outcomes[k + by]
ReturnsKept(by) ==
  \A k \in Returns' : k \in Int /\ k + by \in Returns /\ outcomes'[k] = outcomes[k + by]

\* Where no outcome is sent or read, they are what they were.
LEMMA OutcomesKept ==
  ASSUME AppTypeOK, UNCHANGED outcomes
  PROVE  EndsKept(0) /\ ReturnsKept(0) /\ Ends' = Ends /\ Returns' = Returns
<1>1. DOMAIN outcomes \subseteq Int
  BY DEF AppTypeOK
<1>2. Ends' = Ends /\ Returns' = Returns
  BY DEF Ends, Returns
<1>3. Ends \subseteq Int /\ Returns \subseteq Int
  BY <1>1 DEF Ends, Returns
<1>4. \A k \in Int : k + 0 = k
  OBVIOUS
<1> QED
  BY <1>2, <1>3, <1>4 DEF EndsKept, ReturnsKept

\* A step that leaves the kernel alone, but for the stop it asks for where it asks the
\* turn to stop, and reads no turn's end: the turn goes on, or one is started where none
\* runs.
LEMMA TurnKept ==
  ASSUME AppInv, NEW asks \in BOOLEAN, Kernel(asks), UNCHANGED responses,
         NEW by \in Int, EndsKept(by), Ends # {} => Ends' # {},
         app.phase # "left",
         \/ app'.phase = app.phase
         \/ app'.phase = "waiting" /\ asks /\ app.busy /\ pc[Desk] = "away",
         app'.phase = "waiting" => app'.leaving = "quit",
         \/ Asked(app, app', asks)
         \/ Launched(app, app') /\ ~asks /\ app.phase = "open" /\ pc[Desk] = "away",
         app.overspent => app'.overspent \/ app'.phase = "waiting" \/ stopped,
         ChargesShown', StopsShown'
  PROVE  TurnInv'
<1>1. /\ UNCHANGED <<state, pc, turning>>
      /\ interrupted' = (interrupted \/ asks) /\ stopped' = (stopped \/ asks)
  BY AppTypes, KernelShown DEF Kernel, machine, loop, AppInv
<1>2. Ends = {} => Ends' = {}
  BY DEF EndsKept
<1>3. TaskShown'
  <2>1. CASE Asked(app, app', asks)
    BY <1>1, <2>1 DEF AppInv, TurnInv, TaskShown, Asked
  <2>2. CASE Launched(app, app') /\ app.phase = "open" /\ pc[Desk] = "away"
    BY <1>1, <2>2, BetweenTurns DEF TaskShown, Launched
  <2> QED
    BY <2>1, <2>2
<1>4. EndShown'
  <2>1. CASE Asked(app, app', asks)
    <3>1. \A j, k \in Ends' : j = k
      <4>1. \A j, k \in Ends : j = k
        BY DEF AppInv, TurnInv, EndShown
      <4> SUFFICES ASSUME NEW j \in Ends', NEW k \in Ends'  PROVE j = k
        OBVIOUS
      <4>2. j \in Int /\ k \in Int /\ j + by = k + by
        BY <4>1 DEF EndsKept
      <4> QED
        BY <4>2
    <3> QED
      BY <1>2, <2>1, <3>1 DEF AppInv, TurnInv, EndShown, Asked
  <2>2. CASE Launched(app, app') /\ app.phase = "open" /\ pc[Desk] = "away"
    BY <1>2, <2>2, BetweenTurns DEF EndShown, Launched
  <2> QED
    BY <2>1, <2>2
<1>5. OutcomeShown'
  <2>1. CASE Asked(app, app', asks)
    <3>1. OutcomeShown
      BY DEF AppInv, TurnInv
    <3> SUFFICES ASSUME NEW k \in Ends'
                 PROVE  /\ outcomes'[k].how = "failed" => outcomes'[k].state = "Idle"
                        /\ outcomes'[k].how = "stepped" => app'.stepping
                        /\ outcomes'[k].how = "stopped" => ~app'.stepping
                        /\ outcomes'[k].state \in {"Idle", "Finished"}
                             => state' \in {"Idle", "Finished"}
                        /\ outcomes'[k].state \in {"Deciding", "Ready"}
                             => state' \in {"Deciding", "Ready"}
                        /\ state' = "Deciding" => outcomes'[k].state = "Deciding"
                        /\ state' = "Ready" =>
                             outcomes'[k].state = "Deciding" \/ app'.stepping \/ stopped'
      BY DEF OutcomeShown
    <3>2. PICK j \in Ends : outcomes'[k] = outcomes[j]
      BY DEF EndsKept
    <3> QED
      BY <1>1, <2>1, <3>1, <3>2 DEF OutcomeShown, Asked
  <2>2. CASE Launched(app, app') /\ app.phase = "open" /\ pc[Desk] = "away"
    BY <1>2, <2>2, BetweenTurns DEF OutcomeShown, Launched
  <2> QED
    BY <2>1, <2>2
<1>6. WaitShown'
  <2>1. CASE Asked(app, app', asks)
    <3>1. \A k \in Ends' : \E j \in Ends : outcomes'[k] = outcomes[j]
      BY DEF EndsKept
    <3> QED
      BY <1>1, <2>1, <3>1 DEF AppInv, TurnInv, WaitShown, Asked
  <2>2. CASE Launched(app, app') /\ ~asks /\ app.phase = "open"
    BY <2>2 DEF WaitShown
  <2> QED
    BY <2>1, <2>2
<1>7. app'.phase = "open" => CarriedOn'
  <2>1. CASE Asked(app, app', asks)
    BY <1>1, <2>1 DEF AppInv, TurnInv, CarriedOn, Asked
  <2>2. CASE Launched(app, app')
    BY <2>2 DEF CarriedOn, Launched
  <2> QED
    BY <2>1, <2>2
<1>8. LeftShown' /\ (interrupted' => stopped')
  BY <1>1 DEF AppInv, TurnInv, LeftShown
<1> QED
  BY <1>3, <1>4, <1>5, <1>6, <1>7, <1>8 DEF TurnInv

\* A branch of the loop that reads no outcome.
LEMMA LoopKeepsTurn ==
  ASSUME AppInv, NEW asks \in BOOLEAN, Kernel(asks), UNCHANGED <<outcomes, responses>>,
         app.phase # "left",
         \/ app'.phase = app.phase
         \/ app'.phase = "waiting" /\ asks /\ app.busy /\ pc[Desk] = "away",
         app'.phase = "waiting" => app'.leaving = "quit",
         \/ Asked(app, app', asks)
         \/ Launched(app, app') /\ ~asks /\ app.phase = "open" /\ pc[Desk] = "away",
         app.overspent => app'.overspent \/ app'.phase = "waiting" \/ stopped,
         ChargesShown', StopsShown'
  PROVE  TurnInv'
<1>1. EndsKept(0) /\ Ends' = Ends
  BY OutcomesKept DEF AppInv
<1> QED
  BY <1>1, TurnKept

\* The same, where nothing is charged either.
LEMMA LoopKeepsTurnAndMoney ==
  ASSUME AppInv, NEW asks \in BOOLEAN, Kernel(asks), UNCHANGED <<outcomes, responses, unread>>,
         app.phase = "open", app'.phase = "open", pc[Desk] = "away", SameMoney(app, app'),
         Asked(app, app', asks) \/ (Launched(app, app') /\ ~asks)
  PROVE  TurnInv'
<1>1. interrupted' = (interrupted \/ asks) /\ stopped' = (stopped \/ asks)
  BY AppTypes, KernelShown DEF Kernel, AppInv
<1>2. CASE Asked(app, app', asks)
  <2>1. ChargesShown'
    BY <1>2 DEF AppInv, TurnInv, ChargesShown, SameMoney, Asked
  <2>2. StopsShown'
    BY <1>1, <1>2 DEF AppInv, TurnInv, StopsShown, SameMoney, Asked
  <2> QED
    BY <1>2, <2>1, <2>2, LoopKeepsTurn DEF SameMoney
<1>3. CASE Launched(app, app') /\ ~asks
  <2>1. ChargesShown'
    BY <1>3 DEF AppInv, TurnInv, ChargesShown, SameMoney, Launched
  <2>2. StopsShown'
    BY <1>3 DEF StopsShown, SameMoney, Launched
  <2> QED
    BY <1>3, <2>1, <2>2, LoopKeepsTurn DEF SameMoney
<1> QED
  BY <1>2, <1>3

\* An App that charges where it is told to, or already has.
LEMMA ChargingKeepsMoney ==
  ASSUME AppInv, app.phase # "left", NEW b,
         (b = app /\ app.charged = responses) \/ b = Charged(app)
  PROVE  /\ b \in Apps(DOMAIN lines) /\ SameText(app, b) /\ SameLeaving(app, b)
         /\ b.settling = app.settling
         /\ \/ b.errand = app.errand /\ b.away = app.away
            \/ b.errand = 0 /\ b.away = app.away \ {app.errand}
         /\ Asked(app, b, app.busy /\ b.overspent /\ ~app.overspent)
         /\ b.charged = responses /\ b.spent = responses /\ b.overspent \in BOOLEAN
         /\ app.overspent => b.overspent
         /\ b.overspent /\ ~app.overspent => app.busy /\ app.task \in {"none", "driving"}
         /\ b.limit # 0 /\ b.spent >= b.limit => b.overspent
<1>1. /\ app \in Apps(DOMAIN lines) /\ responses \in Nat /\ app.charged \in Nat
      /\ app.spent = app.charged /\ app.charged <= responses
      /\ app.limit # 0 /\ app.spent >= app.limit => app.overspent
      /\ app.charged # responses => app.busy /\ app.task \in {"none", "driving"}
  BY AppTypes DEF AppInv, AppTypeOK, TurnInv, ChargesShown
<1>2. CASE b = app /\ app.charged = responses
  BY <1>1, <1>2, AppTypes DEF AppInv, SameText, SameLeaving, Asked
<1>3. CASE b = Charged(app)
  <2>1. /\ SameText(app, b) /\ SameLeaving(app, b) /\ b.settling = app.settling
        /\ \/ b.errand = app.errand /\ b.away = app.away
           \/ b.errand = 0 /\ b.away = app.away \ {app.errand}
        /\ b.charged = responses /\ b.limit = app.limit
        /\ b.spent = app.spent + (responses - app.charged)
        /\ b.overspent = (app.overspent \/ Crosses(app, b.spent))
        /\ Asked(app, b, app.busy /\ Crosses(app, b.spent))
    BY <1>1, <1>3, ChargedShown
  <2>2. b.spent = responses
    BY <1>1, <2>1
  <2>3. b \in Apps(DOMAIN lines)
    BY <1>1, <1>3, ChargedApp
  <2>4. Crosses(app, b.spent) \in BOOLEAN /\ app.overspent \in BOOLEAN
    BY AppTypes DEF Crosses, AppInv
  <2>5. Crosses(app, b.spent) =>
          ~app.overspent /\ app.busy /\ app.task \in {"none", "driving"}
    <3>1. ASSUME Crosses(app, b.spent), app.charged = responses
          PROVE  FALSE
      <4>1. app.spent = responses /\ app.limit # 0 /\ responses >= app.limit /\ ~app.overspent
        BY <1>1, <2>2, <3>1 DEF Crosses
      <4> QED
        BY <1>1, <4>1
    <3> QED
      BY <1>1, <3>1 DEF Crosses
  <2>6. b.limit # 0 /\ b.spent >= b.limit => b.overspent
    BY <2>1, <2>4 DEF Crosses
  <2>7. Crosses(app, b.spent) = (b.overspent /\ ~app.overspent)
    BY <2>1, <2>4, <2>5
  <2> QED
    BY <2>1, <2>2, <2>3, <2>4, <2>5, <2>6, <2>7
<1> QED
  BY <1>2, <1>3

\* The kernel was asked to stop if that took the last of the money.
LEMMA StoppedWhereSpent ==
  ASSUME AppInv, app.phase # "left", NEW b,
         (b = app /\ app.charged = responses) \/ b = Charged(app),
         Kernel(app.busy /\ b.overspent /\ ~app.overspent), UNCHANGED responses,
         SameMoney(b, app')
  PROVE  /\ ChargesShown'
         /\ app'.overspent =>
              stopped' /\ (app.task = "none" \/ (app.task = "driving" /\ interrupted'))
         /\ app.overspent => app'.overspent
<1>1. /\ b.charged = responses /\ b.spent = responses /\ b.overspent \in BOOLEAN
      /\ app.overspent => b.overspent
      /\ b.overspent /\ ~app.overspent => app.busy /\ app.task \in {"none", "driving"}
      /\ b.limit # 0 /\ b.spent >= b.limit => b.overspent
  BY ChargingKeepsMoney
<1>2. responses \in Nat
  BY AppTypes DEF AppInv
<1>3. ChargesShown'
  BY <1>1, <1>2 DEF ChargesShown, SameMoney
<1>4. CASE app.overspent
  BY <1>1, <1>3, <1>4 DEF AppInv, TurnInv, StopsShown, Kernel, SameMoney
<1>5. CASE ~app.overspent
  BY <1>1, <1>3, <1>5 DEF Kernel, SameMoney
<1> QED
  BY <1>4, <1>5

---------------------------------------------------------------------------
(* The lines.                                                              *)

\* The lines, and where they are kept, one by one.
LEMMA LineTypes ==
  ASSUME AppTypeOK
  PROVE  /\ DOMAIN lines = 1..Len(lines) /\ Len(lines) \in Nat /\ DOMAIN lines \subseteq Nat
         /\ \A n \in DOMAIN lines : lines[n] \in Kinds
         /\ app.entered \in Seq(DOMAIN lines) /\ app.ahead \in Seq(DOMAIN lines)
         /\ app.held \in Seq(DOMAIN lines) /\ app.unsent \in Seq(DOMAIN lines)
         /\ ToSet(app.held) \subseteq DOMAIN lines
         /\ app.away \subseteq DOMAIN lines /\ app.errand \in {0} \cup DOMAIN lines
         /\ \A k \in DOMAIN outcomes : outcomes[k] \in Outcomes(DOMAIN lines)
         /\ \A k \in Returns : outcomes[k].line \in DOMAIN lines
<1>1. /\ lines \in Seq(Kinds) /\ app \in Apps(DOMAIN lines)
      /\ outcomes \in Seq(Outcomes(DOMAIN lines))
  BY DEF AppTypeOK
<1>2. /\ app.entered \in Seq(DOMAIN lines) /\ app.ahead \in Seq(DOMAIN lines)
      /\ app.held \in Seq(DOMAIN lines) /\ app.unsent \in Seq(DOMAIN lines)
      /\ app.away \subseteq DOMAIN lines /\ app.errand \in {0} \cup DOMAIN lines
  BY <1>1 DEF Apps
<1>3. ToSet(app.held) \subseteq DOMAIN lines
  BY <1>2, Elements
<1>4. /\ DOMAIN lines = 1..Len(lines) /\ Len(lines) \in Nat /\ DOMAIN lines \subseteq Nat
      /\ \A n \in DOMAIN lines : lines[n] \in Kinds
  BY <1>1
<1>5. \A k \in DOMAIN outcomes : outcomes[k] \in Outcomes(DOMAIN lines)
  BY <1>1
<1>6. \A k \in Returns : outcomes[k].line \in DOMAIN lines
  BY <1>5 DEF Returns, Ends, Outcomes
<1> QED
  BY <1>2, <1>3, <1>4, <1>5, <1>6

\* What is out stays out, or is let go of.
LEMMA LinesStayOut ==
  ASSUME AppInv, UNCHANGED lines, NEW by \in Int, ReturnsKept(by),
         app.phase = "open", app'.held = app.held,
         app'.settling = app.settling, app.settling => ~app'.busy /\ pending' = <<>>,
         \/ app'.errand = app.errand /\ app'.away = app.away
         \/ app'.errand = 0 /\ app'.away = app.away \ {app.errand}
  PROVE  OutShown' /\ HeldShown'
<1>1. \A k \in Returns' : \E j \in Returns : outcomes'[k] = outcomes[j]
  BY DEF ReturnsKept
<1>2. OutShown /\ HeldShown
  BY DEF AppInv, LinesInv
<1>3. OutShown'
  <2>1. ASSUME NEW j \in Returns', NEW k \in Returns',
               lines'[outcomes'[j].line] = "switch", lines'[outcomes'[k].line] = "switch"
        PROVE  j = k
    <3>1. j \in Int /\ k \in Int /\ j + by = k + by
      BY <1>2, <2>1 DEF ReturnsKept, OutShown
    <3> QED
      BY <3>1
  <2>2. Switches(app.away)' \subseteq Switches(app.away)
    BY DEF Switches
  <2>3. ASSUME NEW k \in Returns'
        PROVE  /\ outcomes'[k].line \notin app'.away
               /\ lines'[outcomes'[k].line] = "switch"
                    => app'.settling /\ Switches(app.away)' = {}
    BY <1>1, <1>2, <2>2 DEF OutShown
  <2> QED
    BY <1>2, <2>1, <2>2, <2>3 DEF OutShown
<1>4. HeldShown'
  BY <1>1, <1>2 DEF HeldShown, Before
<1> QED
  BY <1>3, <1>4

\* Lines that stay where they are.
LEMMA LinesKept ==
  ASSUME AppInv, UNCHANGED lines, SameText(app, app'), NEW by \in Int, ReturnsKept(by),
         app.phase = "left" => app'.phase = "left",
         app'.phase = "open" =>
           /\ app.phase = "open"
           /\ app'.settling = app.settling
           /\ app.settling => ~app'.busy /\ pending' = <<>>
           /\ \/ app'.errand = app.errand /\ app'.away = app.away
              \/ app'.errand = 0 /\ app'.away = app.away \ {app.errand}
  PROVE  LinesInv'
<1>1. Messages' = Messages
  BY DEF Messages
<1>2. PlacesShown'
  BY <1>1 DEF AppInv, LinesInv, PlacesShown, SameText
<1> QED
  BY <1>2, LinesStayOut DEF LinesInv, SameText

\* The same, where no outcome is sent or read.
LEMMA LinesStay ==
  ASSUME AppInv, UNCHANGED <<outcomes, lines>>, SameText(app, app'),
         app.phase = "left" => app'.phase = "left",
         app'.phase = "open" =>
           /\ app.phase = "open"
           /\ app'.settling = app.settling
           /\ app.settling => ~app'.busy /\ pending' = <<>>
           /\ \/ app'.errand = app.errand /\ app'.away = app.away
              \/ app'.errand = 0 /\ app'.away = app.away \ {app.errand}
  PROVE  LinesInv'
<1>1. ReturnsKept(0)
  BY OutcomesKept DEF AppInv
<1> QED
  BY <1>1, LinesKept

\* A line that is acted on with nothing out is then all there is out.
LEMMA ActedKeepsOut ==
  ASSUME AppInv, app.phase = "open", UNCHANGED <<outcomes, pending>>,
         NEW c, SameOut(app, c), SameTurn(app, c), ~InFlight(c),
         NEW n, NEW kind, ActedOn(c, app', n, kind), n # 0, lines'[n] = kind,
         \A m \in DOMAIN lines : lines'[m] = lines[m],
         \A k \in Returns : outcomes[k].line # n
  PROVE  OutShown' /\ app'.away \subseteq {n}
<1>1. OutShown /\ app.away \subseteq DOMAIN lines /\ DOMAIN lines \subseteq Nat \ {0}
  BY LineTypes DEF AppInv, LinesInv
<1>2. ~app.settling /\ app.errand = 0 /\ app.away = {}
  BY <1>1 DEF OutShown, InFlight, SameOut
<1>3. Returns' = Returns /\ \A k \in Returns : lines'[outcomes[k].line] # "switch"
  <2>1. Returns' = Returns
    BY DEF Returns, Ends
  <2>2. \A k \in Returns : lines[outcomes[k].line] # "switch"
    BY <1>1, <1>2 DEF OutShown
  <2> QED
    BY <2>1, <2>2, LineTypes DEF AppInv
<1>4. CASE SameOut(c, app')
  BY <1>2, <1>3, <1>4 DEF OutShown, SameOut, Switches
<1>5. CASE /\ kind = "switch" /\ ~MidTurn(c) /\ SameTurn(c, app')
           /\ app'.settling /\ app'.errand = c.errand /\ app'.away = c.away \cup {n}
  <2>1. ~app'.busy /\ pending' = <<>>
    BY <1>5 DEF MidTurn, SameTurn
  <2> QED
    BY <1>2, <1>3, <1>5, <2>1 DEF OutShown, SameOut, Switches
<1>6. CASE /\ kind = "errand" /\ app'.errand = n /\ app'.settling = c.settling
           /\ app'.away = c.away \cup {n}
  BY <1>2, <1>3, <1>6 DEF OutShown, SameOut, Switches
<1> QED
  BY <1>2, <1>4, <1>5, <1>6 DEF ActedOn, InFlight, SameOut

---------------------------------------------------------------------------
(* The loop's branches.                                                    *)

\* A line that is released is acted on, with nothing out.
LEMMA Released ==
  ASSUME AppInv, Release, NEW c, c = [app EXCEPT !.held = Tail(@)],
         NEW n, n = Head(app.held), NEW kind, kind = lines[n]
  PROVE  /\ app.phase = "open" /\ pc[Desk] = "away" /\ app.held # <<>> /\ ~InFlight(app)
         /\ Kernel(FALSE) /\ UNCHANGED <<outcomes, unread, lines, responses, pending>>
         /\ app \in Apps(DOMAIN lines) /\ app.held \in Seq(DOMAIN lines)
         /\ DOMAIN lines \subseteq Nat \ {0}
         /\ n \in DOMAIN lines /\ kind \in Kinds /\ Tail(app.held) \in Seq(DOMAIN lines)
         /\ c \in Apps(DOMAIN lines)
         /\ SameTurn(app, c) /\ SameOut(app, c) /\ SameMoney(app, c) /\ SameLeaving(app, c)
         /\ c.entered = app.entered /\ c.ahead = app.ahead /\ c.unsent = app.unsent
         /\ c.held = Tail(app.held)
         /\ ~InFlight(c) /\ (MidTurn(c) <=> MidTurn(app))
         /\ app' \in Apps(DOMAIN lines) /\ ActedOn(c, app', n, kind)
<1>1. /\ app.phase = "open" /\ pc[Desk] = "away" /\ app.held # <<>> /\ ~InFlight(app)
      /\ ~(MidTurn(app) /\ kind = "switch")
      /\ app' \in Submitted(c, n, kind, TRUE)
      /\ Kernel(FALSE) /\ UNCHANGED <<outcomes, unread, lines, responses, pending>>
  BY DEF Release, AtTop, CanRelease, Kernel, machine
<1>2. /\ app \in Apps(DOMAIN lines) /\ app.held \in Seq(DOMAIN lines)
      /\ DOMAIN lines \subseteq Nat \ {0}
      /\ n \in DOMAIN lines /\ kind \in Kinds /\ Tail(app.held) \in Seq(DOMAIN lines)
  <2>1. /\ app \in Apps(DOMAIN lines) /\ app.held \in Seq(DOMAIN lines)
        /\ DOMAIN lines \subseteq Nat \ {0} /\ \A m \in DOMAIN lines : lines[m] \in Kinds
    BY LineTypes DEF AppInv, AppTypeOK
  <2>2. n \in DOMAIN lines /\ Tail(app.held) \in Seq(DOMAIN lines)
    BY <1>1, <2>1, QueueEnds
  <2> QED
    BY <2>1, <2>2
<1>3. /\ c \in Apps(DOMAIN lines)
      /\ SameTurn(app, c) /\ SameOut(app, c) /\ SameMoney(app, c) /\ SameLeaving(app, c)
      /\ c.entered = app.entered /\ c.ahead = app.ahead /\ c.unsent = app.unsent
      /\ c.held = Tail(app.held)
  BY <1>2, TextApp, ZenonT(60) DEF Apps, SameTurn, SameOut, SameMoney, SameLeaving
<1>4. ~InFlight(c) /\ (MidTurn(c) <=> MidTurn(app))
  BY <1>1, <1>3 DEF InFlight, MidTurn, SameOut, SameTurn
<1>5. app' \in Apps(DOMAIN lines) /\ ActedOn(c, app', n, kind)
  BY <1>1, <1>2, <1>3, <1>4, SubmittedShown, ZenonT(60)
<1> QED
  BY <1>1, <1>2, <1>3, <1>4, <1>5

\* A line that is released leaves those behind it in their places.
LEMMA ReleaseKeeps ==
  ASSUME AppInv, IInv', Release
  PROVE  AppInv'
<1> DEFINE c == [app EXCEPT !.held = Tail(@)]
           n == Head(app.held)
           kind == lines[n]
<1>1. /\ app.phase = "open" /\ pc[Desk] = "away" /\ app.held # <<>> /\ ~InFlight(app)
      /\ Kernel(FALSE) /\ UNCHANGED <<outcomes, unread, lines, responses, pending>>
  BY Released
<1>2. /\ app \in Apps(DOMAIN lines) /\ app.held \in Seq(DOMAIN lines)
      /\ DOMAIN lines \subseteq Nat \ {0}
      /\ n \in DOMAIN lines /\ kind \in Kinds /\ Tail(app.held) \in Seq(DOMAIN lines)
  BY Released
<1>3. /\ c \in Apps(DOMAIN lines)
      /\ SameTurn(app, c) /\ SameOut(app, c) /\ SameMoney(app, c) /\ SameLeaving(app, c)
      /\ c.entered = app.entered /\ c.ahead = app.ahead /\ c.unsent = app.unsent
      /\ c.held = Tail(app.held)
  BY Released
<1>4. ~InFlight(c) /\ (MidTurn(c) <=> MidTurn(app))
  BY Released
<1>5. app' \in Apps(DOMAIN lines) /\ ActedOn(c, app', n, kind)
  BY Released
<1> HIDE DEF c, n, kind
<1>6. AppTypeOK'
  BY <1>1, <1>5 DEF AppInv, AppTypeOK, Kernel
<1>7. TurnInv'
  <2>1. SameTurn(app, app') \/ Launched(app, app')
    BY <1>3, <1>5 DEF ActedOn, SameTurn, SameMoney, Launched
  <2>2. SameTurn(app, app') => Asked(app, app', FALSE)
    BY AppTypes DEF SameTurn, Asked, AppInv
  <2>3. SameMoney(app, app') /\ app'.phase = "open"
    BY <1>1, <1>3, <1>5 DEF ActedOn, SameMoney, SameLeaving
  <2> QED
    BY <1>1, <2>1, <2>2, <2>3, LoopKeepsTurnAndMoney
<1>8. PlacesShown'
  <2>1. app.unsent = <<>> /\ app'.unsent = <<>> /\ app'.held = Tail(app.held)
    BY <1>1, <1>3, <1>5 DEF AppInv, LinesInv, PlacesShown, ActedOn
  <2>2. Placed(app.entered, app.ahead, app.held, app.unsent, Messages)
    BY DEF AppInv, LinesInv, PlacesShown
  <2>3. Messages' = Messages
    BY <1>1 DEF Messages
  <2>4. /\ app.entered \in Seq(DOMAIN lines) /\ app.ahead \in Seq(DOMAIN lines)
        /\ app.unsent \in Seq(DOMAIN lines)
    BY LineTypes DEF AppInv
  <2>5. CASE kind = "message"
    <3>1. Placed(app.entered, Append(app.ahead, n), Tail(app.held), app.unsent, Messages)
      BY <1>1, <1>2, <2>2, <2>4, FirstGoesOn DEF n
    <3>2. CASE MidTurn(c)
      BY <1>3, <1>5, <2>1, <2>3, <2>5, <3>1, <3>2 DEF PlacesShown, ActedOn
    <3>3. CASE ~MidTurn(c)
      <4>1. Append(app.ahead, n) \in Seq(DOMAIN lines) /\ Append(app.ahead, n) # <<>>
        BY <1>2, <2>4, QueueEnds
      <4>2. Placed(Append(app.entered, Head(Append(app.ahead, n))), Tail(Append(app.ahead, n)),
                   Tail(app.held), app.unsent, Messages)
        BY <1>2, <2>4, <3>1, <4>1, FirstGoesIn
      <4>3. Queued(c, app', n)
        BY <1>5, <2>5, <3>3 DEF ActedOn
      <4> QED
        BY <1>3, <2>1, <2>3, <4>2, <4>3 DEF PlacesShown, Queued
    <3> QED
      BY <3>2, <3>3
  <2>6. CASE kind # "message"
    <3>1. n \notin Messages
      BY <1>2, <2>6 DEF Messages, kind
    <3>2. Placed(app.entered, app.ahead, Tail(app.held), app.unsent, Messages)
      BY <1>1, <1>2, <2>2, <2>4, <3>1, OtherGoes DEF n
    <3>3. Placed(Append(app.entered, n), app.ahead, Tail(app.held), app.unsent, Messages)
      BY <1>2, <2>4, <3>1, <3>2, OtherGoesIn
    <3>4. app'.ahead = app.ahead /\ app'.entered \in {app.entered, Append(app.entered, n)}
      BY <1>3, <1>5, <2>6 DEF ActedOn
    <3> QED
      BY <2>1, <2>3, <3>2, <3>3, <3>4 DEF PlacesShown
  <2> QED
    BY <2>5, <2>6
<1>9. OutShown' /\ HeldShown'
  <2>1. HeldShown /\ ToSet(app.held) \subseteq DOMAIN lines
    BY <1>1, LineTypes DEF AppInv, LinesInv
  <2>2. ToSet(app.held) = {n} \cup ToSet(Tail(app.held))
    BY <1>1, <1>2, SetOfTail DEF n
  <2>3. /\ Orderly(Tail(app.held), DOMAIN lines)
        /\ Before({n}, ToSet(Tail(app.held)) \cap DOMAIN lines)
    BY <1>1, <1>2, <2>1, OrderlyTail DEF HeldShown, n
  <2>4. \A k \in Returns : outcomes[k].line # n
    <3>1. n \in ToSet(app.held)
      BY <2>2
    <3>2. ASSUME NEW k \in Returns
          PROVE  outcomes[k].line < n /\ outcomes[k].line \in Nat
      BY <1>2, <2>1, <3>1, LineTypes DEF HeldShown, Before, AppInv
    <3> QED
      BY <1>2, <3>2
  <2>5. OutShown' /\ app'.away \subseteq {n}
    BY <1>1, <1>2, <1>3, <1>4, <1>5, <2>4, ActedKeepsOut DEF kind
  <2>6. app'.held = Tail(app.held) /\ Returns' = Returns
    BY <1>1, <1>3, <1>5 DEF ActedOn, Returns, Ends
  <2>7. HeldShown'
    BY <1>1, <2>1, <2>2, <2>3, <2>5, <2>6 DEF HeldShown, Before
  <2> QED
    BY <2>5, <2>7
<1> QED
  BY <1>6, <1>7, <1>8, <1>9 DEF AppInv, LinesInv

\* One line more.
LEMMA OneLineMore ==
  ASSUME NEW ls \in Seq(Kinds), NEW kind \in Kinds, NEW ms, ms = Append(ls, kind)
  PROVE  /\ ms \in Seq(Kinds) /\ Len(ms) = Len(ls) + 1 /\ Len(ms) \in Nat \ {0}
         /\ DOMAIN ms = DOMAIN ls \cup {Len(ms)} /\ ms[Len(ms)] = kind
         /\ \A m \in DOMAIN ls : ms[m] = ls[m] /\ m < Len(ms)
<1>1. /\ DOMAIN ls = 1..Len(ls) /\ Len(ls) \in Nat
      /\ ms \in Seq(Kinds) /\ Len(ms) = Len(ls) + 1 /\ DOMAIN ms = 1..(Len(ls) + 1)
      /\ ms[Len(ls) + 1] = kind /\ \A m \in 1..Len(ls) : ms[m] = ls[m]
  OBVIOUS
<1> QED
  BY <1>1

\* An App is one of a longer session too.
LEMMA AppsGrow ==
  ASSUME NEW ns, NEW ms, ns \subseteq ms
  PROVE  /\ \A a \in Apps(ns) : a \in Apps(ms)
         /\ \A s \in Seq(Outcomes(ns)) : s \in Seq(Outcomes(ms))
<1>1. \A s \in Seq(ns) : s \in Seq(ms)
  BY LongerLine
<1>2. \A a \in Apps(ns) : a \in Apps(ms)
  BY <1>1 DEF Apps
<1>3. Outcomes(ns) \subseteq Outcomes(ms)
  BY DEF Outcomes
<1>4. \A s \in Seq(Outcomes(ns)) : s \in Seq(Outcomes(ms))
  BY <1>3, LongerLine
<1> QED
  BY <1>2, <1>4

\* A script that is not at its end has a next line.
LEMMA ScriptGoesOn ==
  ASSUME NEW S, NEW s \in Seq(S), NEW t \in Seq(S), IsStrictPrefix(s, t)
  PROVE  Len(s) + 1 \in DOMAIN t /\ t[Len(s) + 1] \in S
<1>1. Len(s) \in Nat /\ Len(t) \in Nat /\ Len(s) <= Len(t)
  BY DEF IsStrictPrefix, IsPrefix
<1>2. ASSUME Len(s) = Len(t)
      PROVE  FALSE
  <2>1. \A k \in 1..Len(s) : SubSeq(s, 1, Len(s))[k] = s[k]
    BY <1>1
  <2>2. \A k \in 1..Len(s) : SubSeq(t, 1, Len(s))[k] = t[k]
    BY <1>1, <1>2
  <2>3. \A k \in 1..Len(s) : s[k] = t[k]
    BY <2>1, <2>2 DEF IsStrictPrefix, IsPrefix
  <2>4. s = t
    BY <1>1, <1>2, <2>3
  <2> QED
    BY <2>4 DEF IsStrictPrefix
<1>3. Len(s) < Len(t)
  BY <1>1, <1>2
<1> QED
  BY <1>1, <1>3

\* A line that is handed in is held, or acted on, with nothing out.
LEMMA HandedIn ==
  ASSUME AppInv, HandIn, NEW n, n = Len(lines'), NEW kind, kind = lines'[n]
  PROVE  /\ app.phase = "open" /\ pc[Desk] = "away" /\ ~CanRelease
         /\ Kernel(FALSE) /\ UNCHANGED <<outcomes, unread, responses, pending>>
         /\ lines' \in Seq(Kinds) /\ n \in Nat \ {0} /\ kind \in Kinds
         /\ DOMAIN lines' = DOMAIN lines \cup {n}
         /\ \A m \in DOMAIN lines : lines'[m] = lines[m] /\ m < n
         /\ app \in Apps(DOMAIN lines') /\ outcomes \in Seq(Outcomes(DOMAIN lines'))
         /\ app' \in Apps(DOMAIN lines')
         /\ \/ /\ SameTurn(app, app') /\ SameOut(app, app') /\ SameMoney(app, app')
               /\ SameLeaving(app, app')
               /\ app'.entered = app.entered /\ app'.ahead = app.ahead
               /\ app'.unsent = app.unsent /\ app'.held = Append(app.held, n)
            \/ /\ ~InFlight(app) /\ ~HeldSwitch(app)
               /\ ActedOn(app, app', n, kind)
<1>1. PICK script \in Scripts :
        /\ IsStrictPrefix(lines, script)
        /\ lines' = Append(lines, script[Len(lines) + 1])
        /\ app' \in Submitted(app, Len(lines'), script[Len(lines')], FALSE)
  BY DEF HandIn
<1>2. /\ app.phase = "open" /\ pc[Desk] = "away" /\ ~CanRelease
      /\ Kernel(FALSE) /\ UNCHANGED <<outcomes, unread, responses, pending>>
  BY DEF HandIn, Selecting, AtTop, Kernel, machine
<1>3. /\ lines \in Seq(Kinds) /\ app \in Apps(DOMAIN lines) /\ DOMAIN lines \subseteq Nat
      /\ outcomes \in Seq(Outcomes(DOMAIN lines)) /\ Len(lines) \in Nat
  BY LineTypes DEF AppInv, AppTypeOK
<1>4. script[Len(lines) + 1] \in Kinds
  BY <1>1, <1>3, ScriptGoesOn, ApplicationAssumption
<1>5. /\ lines' \in Seq(Kinds) /\ n \in Nat \ {0} /\ kind \in Kinds /\ kind = script[n]
      /\ DOMAIN lines' = DOMAIN lines \cup {n}
      /\ \A m \in DOMAIN lines : lines'[m] = lines[m] /\ m < n
  <2>1. /\ lines' \in Seq(Kinds) /\ n = Len(lines) + 1 /\ n \in Nat \ {0}
        /\ DOMAIN lines' = DOMAIN lines \cup {n} /\ lines'[n] = script[Len(lines) + 1]
        /\ \A m \in DOMAIN lines : lines'[m] = lines[m] /\ m < n
    BY <1>1, <1>3, <1>4, OneLineMore
  <2> QED
    BY <1>4, <2>1
<1>6. app' \in Submitted(app, n, kind, FALSE)
  BY <1>1, <1>5
<1>7. app \in Apps(DOMAIN lines') /\ outcomes \in Seq(Outcomes(DOMAIN lines'))
  BY <1>3, <1>5, AppsGrow
<1>8. /\ app' \in Apps(DOMAIN lines')
      /\ \/ /\ SameTurn(app, app') /\ SameOut(app, app') /\ SameMoney(app, app')
            /\ SameLeaving(app, app')
            /\ app'.entered = app.entered /\ app'.ahead = app.ahead
            /\ app'.unsent = app.unsent /\ app'.held = Append(app.held, n)
         \/ /\ ~InFlight(app) /\ ~HeldSwitch(app)
            /\ ActedOn(app, app', n, kind)
  <2> DEFINE ns == DOMAIN lines'
             released == FALSE
  <2>1. /\ app \in Apps(ns) /\ n \in ns /\ released \in BOOLEAN /\ ~released
        /\ app' \in Submitted(app, n, kind, released)
    BY <1>5, <1>6, <1>7
  <2> HIDE DEF ns, released
  <2>2. /\ app' \in Apps(ns)
        /\ \/ /\ SameTurn(app, app') /\ SameOut(app, app') /\ SameMoney(app, app')
              /\ SameLeaving(app, app')
              /\ app'.entered = app.entered /\ app'.ahead = app.ahead
              /\ app'.unsent = app.unsent /\ app'.held = Append(app.held, n)
           \/ /\ ~InFlight(app) /\ ~HeldSwitch(app)
              /\ ActedOn(app, app', n, kind)
    BY <1>5, <2>1, SubmittedShown
  <2> QED
    BY <2>2 DEF ns
<1> QED
  BY <1>2, <1>5, <1>7, <1>8

\* A line that is handed in is the last of all.
LEMMA HandInKeeps ==
  ASSUME AppInv, IInv', HandIn
  PROVE  AppInv'
<1> DEFINE n == Len(lines')
           kind == lines'[n]
<1>1. /\ app.phase = "open" /\ pc[Desk] = "away" /\ ~CanRelease
      /\ Kernel(FALSE) /\ UNCHANGED <<outcomes, unread, responses, pending>>
  BY HandedIn
<1>2. /\ lines \in Seq(Kinds) /\ app \in Apps(DOMAIN lines) /\ DOMAIN lines \subseteq Nat
      /\ outcomes \in Seq(Outcomes(DOMAIN lines)) /\ Len(lines) \in Nat
  BY LineTypes DEF AppInv, AppTypeOK
<1>3. /\ lines' \in Seq(Kinds) /\ n \in Nat \ {0} /\ kind \in Kinds /\ lines'[n] = kind
      /\ DOMAIN lines' = DOMAIN lines \cup {n}
      /\ \A m \in DOMAIN lines : lines'[m] = lines[m] /\ m < n
  BY HandedIn
<1>4. app \in Apps(DOMAIN lines') /\ outcomes \in Seq(Outcomes(DOMAIN lines'))
  BY HandedIn
<1>5. /\ app' \in Apps(DOMAIN lines')
      /\ \/ /\ SameTurn(app, app') /\ SameOut(app, app') /\ SameMoney(app, app')
            /\ SameLeaving(app, app')
            /\ app'.entered = app.entered /\ app'.ahead = app.ahead
            /\ app'.unsent = app.unsent /\ app'.held = Append(app.held, n)
         \/ /\ ~InFlight(app) /\ ~HeldSwitch(app)
            /\ ActedOn(app, app', n, kind)
  BY HandedIn
<1> HIDE DEF n, kind
<1>6. AppTypeOK'
  BY <1>1, <1>3, <1>4, <1>5 DEF AppInv, AppTypeOK, Kernel
<1>7. TurnInv'
  <2>1. SameTurn(app, app') \/ Launched(app, app')
    BY <1>5 DEF ActedOn
  <2>2. SameTurn(app, app') => Asked(app, app', FALSE)
    BY AppTypes DEF SameTurn, Asked, AppInv
  <2>3. SameMoney(app, app') /\ app'.phase = "open"
    BY <1>1, <1>5 DEF ActedOn, SameLeaving
  <2> QED
    BY <1>1, <2>1, <2>2, <2>3, LoopKeepsTurnAndMoney
<1>8. Messages' = Messages \/ (kind = "message" /\ Messages' = Messages \cup {n})
  <2>1. CASE kind = "message"
    BY <1>3, <2>1 DEF Messages
  <2>2. CASE kind # "message"
    BY <1>3, <2>2 DEF Messages
  <2> QED
    BY <2>1, <2>2
<1>9. /\ app.entered \in Seq(DOMAIN lines) /\ app.ahead \in Seq(DOMAIN lines)
       /\ app.held \in Seq(DOMAIN lines) /\ app.unsent = <<>>
       /\ app.entered \in Seq(Nat) /\ app.ahead \in Seq(Nat) /\ app.held \in Seq(Nat)
       /\ <<>> \in Seq(Nat)
  <2>1. /\ app.entered \in Seq(DOMAIN lines) /\ app.ahead \in Seq(DOMAIN lines)
        /\ app.held \in Seq(DOMAIN lines) /\ DOMAIN lines \subseteq Nat
    BY LineTypes DEF AppInv
  <2>2. app.entered \in Seq(Nat) /\ app.ahead \in Seq(Nat) /\ app.held \in Seq(Nat)
    BY <2>1, LongerLine
  <2> QED
    BY <1>1, <2>1, <2>2 DEF AppInv, LinesInv, PlacesShown
<1>10. Placed(app.entered, app.ahead, Append(app.held, n), <<>>, Messages')
  <2>1. Placed(app.entered, app.ahead, app.held, <<>>, Messages)
    BY <1>9 DEF AppInv, LinesInv, PlacesShown
  <2> QED
    BY <1>2, <1>3, <1>8, <1>9, <2>1, NewIsHeld
\* Acted on, it is the only line that was not.
<1>11. ~InFlight(app) /\ ~HeldSwitch(app) => app.held = <<>>
  BY <1>1, <1>9 DEF CanRelease, HeldSwitch
<1>12. CASE app'.held = Append(app.held, n) /\ app'.entered = app.entered /\ app'.ahead = app.ahead
            /\ app'.unsent = app.unsent /\ SameOut(app, app') /\ SameTurn(app, app')
            /\ SameLeaving(app, app')
  <2>1. PlacesShown'
    BY <1>9, <1>10, <1>12 DEF PlacesShown
  <2>2. Returns' = Returns /\ \A k \in Returns : outcomes[k].line \in DOMAIN lines
    BY <1>1, LineTypes DEF AppInv, Returns, Ends
  <2>3. OutShown /\ HeldShown /\ app.away \subseteq DOMAIN lines
        /\ app.errand \in {0} \cup DOMAIN lines
    BY <1>1, LineTypes DEF AppInv, LinesInv
  <2>4. Switches(app.away)' = Switches(app.away)
    BY <1>3, <1>12, <2>3 DEF Switches, SameOut
  <2>5. OutShown'
    BY <1>1, <1>3, <1>12, <2>2, <2>3, <2>4 DEF OutShown, SameOut, SameTurn
  <2>6. HeldShown'
    <3>1. ToSet(app.held) \subseteq DOMAIN lines
      BY LineTypes DEF AppInv
    <3>2. ToSet(app'.held) = ToSet(app.held) \cup {n}
      BY <1>3, <1>9, <1>12, AppendedSet
    <3>3. Orderly(app'.held, DOMAIN lines')
      <4>1. Orderly(app.held, DOMAIN lines')
        BY <1>3, <2>3, <3>1 DEF HeldShown, Orderly, ToSet
      <4>2. Before(ToSet(app.held) \cap DOMAIN lines', {n})
        BY <1>3, <3>1 DEF Before
      <4>3. Orderly(Append(app.held, n), DOMAIN lines')
        BY <1>3, <1>9, <4>1, <4>2, OrderlyAppend
      <4> QED
        BY <1>12, <4>3
    <3>4. Before(app'.away, ToSet(app'.held))
      BY <1>3, <1>12, <2>3, <3>2 DEF HeldShown, Before, SameOut
    <3>5. ASSUME NEW k \in Returns
          PROVE  Before({outcomes[k].line}, ToSet(app'.held))
      BY <1>3, <2>2, <2>3, <3>2 DEF HeldShown, Before
    <3> QED
      BY <1>1, <2>2, <3>3, <3>4, <3>5 DEF HeldShown
  <2> QED
    BY <1>6, <1>7, <2>1, <2>5, <2>6 DEF AppInv, LinesInv
<1>13. CASE ~InFlight(app) /\ ~HeldSwitch(app) /\ ActedOn(app, app', n, kind)
  <2>1. app.held = <<>> /\ app'.held = <<>> /\ app'.unsent = <<>>
    BY <1>9, <1>11, <1>13 DEF ActedOn
  <2>2. PlacesShown'
    <3>1. CASE kind = "message"
      <4>1. Head(Append(app.held, n)) = n /\ Tail(Append(app.held, n)) = <<>>
            /\ Append(app.held, n) \in Seq(Nat) /\ Append(app.held, n) # <<>>
        BY <1>3, <1>9, <2>1, HeadBeforeTail, QueueEnds
      <4>2. Placed(app.entered, Append(app.ahead, n), <<>>, <<>>, Messages')
        BY <1>9, <1>10, <4>1, FirstGoesOn
      <4>3. CASE MidTurn(app)
        BY <1>13, <2>1, <3>1, <4>2, <4>3 DEF PlacesShown, ActedOn
      <4>4. CASE ~MidTurn(app)
        <5>1. Append(app.ahead, n) \in Seq(Nat) /\ Append(app.ahead, n) # <<>>
          BY <1>3, <1>9, QueueEnds
        <5>2. Placed(Append(app.entered, Head(Append(app.ahead, n))),
                     Tail(Append(app.ahead, n)), <<>>, <<>>, Messages')
          BY <1>9, <4>2, <5>1, FirstGoesIn
        <5>3. Queued(app, app', n)
          BY <1>13, <3>1, <4>4 DEF ActedOn
        <5> QED
          BY <2>1, <5>2, <5>3 DEF PlacesShown, Queued
      <4> QED
        BY <4>3, <4>4
    <3>2. CASE kind # "message"
      <4>1. n \notin Messages /\ Messages' = Messages
        BY <1>3, <1>8, <3>2 DEF Messages
      <4>2. Placed(app.entered, app.ahead, <<>>, <<>>, Messages)
        BY <1>9, <2>1 DEF AppInv, LinesInv, PlacesShown
      <4>3. Placed(Append(app.entered, n), app.ahead, <<>>, <<>>, Messages)
        BY <1>3, <1>9, <4>1, <4>2, OtherGoesIn
      <4>4. app'.ahead = app.ahead /\ app'.entered \in {app.entered, Append(app.entered, n)}
        BY <1>13, <3>2 DEF ActedOn
      <4> QED
        BY <2>1, <4>1, <4>2, <4>3, <4>4 DEF PlacesShown
    <3> QED
      BY <3>1, <3>2
  <2>3. OutShown'
    <3>1. \A k \in Returns : outcomes[k].line # n
      BY <1>3, <1>2, LineTypes DEF AppInv
    <3>2. SameOut(app, app) /\ SameTurn(app, app)
      BY DEF SameOut, SameTurn
    <3> QED
      BY <1>1, <1>3, <1>13, <3>1, <3>2, ActedKeepsOut
  <2>4. HeldShown'
    BY <2>1, NothingAnswered DEF HeldShown, Before, Orderly
  <2> QED
    BY <1>6, <1>7, <2>2, <2>3, <2>4 DEF AppInv, LinesInv
<1> QED
  BY <1>5, <1>12, <1>13

\* Lines that nobody touches, where no turn is started.
LEMMA SettledStays ==
  ASSUME AppInv, app.phase = "open", app.settling, app'.busy = app.busy, UNCHANGED pending
  PROVE  ~app'.busy /\ pending' = <<>>
  BY DEF AppInv, LinesInv, OutShown

\* A stop is asked of a turn that runs.
LEMMA StopKeeps ==
  ASSUME AppInv, IInv', Stop
  PROVE  AppInv'
<1>1. /\ app.phase = "open" /\ pc[Desk] = "away" /\ app' = LetGo(app) /\ Kernel(app.busy)
      /\ UNCHANGED <<outcomes, unread, lines, responses, pending>>
  BY DEF Stop, Selecting, AtTop, Kernel, machine
<1>2. app \in Apps(DOMAIN lines) /\ app.busy \in BOOLEAN
  BY AppTypes DEF AppInv, AppTypeOK
<1>3. /\ app' \in Apps(DOMAIN lines)
      /\ SameText(app, app') /\ SameMoney(app, app') /\ SameLeaving(app, app')
      /\ Asked(app, app', app.busy)
      /\ app'.errand = 0 /\ app'.settling = app.settling
      /\ app'.away = app.away \ {app.errand}
  BY <1>1, <1>2, LetGoApp, LetGoShown
<1>4. AppTypeOK'
  BY <1>1, <1>3 DEF AppInv, AppTypeOK, Kernel
<1>5. TurnInv'
  BY <1>1, <1>2, <1>3, LoopKeepsTurnAndMoney DEF SameLeaving
<1>6. LinesInv'
  <2>1. app.settling => ~app'.busy /\ pending' = <<>>
    BY <1>1, <1>3, SettledStays DEF Asked
  <2> QED
    BY <1>1, <1>3, <2>1, LinesStay DEF SameLeaving
<1> QED
  BY <1>4, <1>5, <1>6 DEF AppInv

\* So it is by the first ctrl+c; the second leaves.
LEMMA PressKeeps ==
  ASSUME AppInv, IInv', Press
  PROVE  AppInv'
<1> DEFINE asks == app.leaving = "no" /\ app.busy
<1>1. /\ app.phase = "open" /\ pc[Desk] = "away" /\ Kernel(asks)
      /\ UNCHANGED <<outcomes, unread, lines, responses, pending>>
      /\ app' = IF app.leaving = "no" THEN [LetGo(app) EXCEPT !.leaving = "pressed"]
                ELSE [app EXCEPT !.leaving = "now"]
  BY DEF Press, Selecting, AtTop, Kernel, machine
<1>2. app \in Apps(DOMAIN lines) /\ app.busy \in BOOLEAN /\ app.interrupting \in BOOLEAN
  BY AppTypes DEF AppInv, AppTypeOK
<1>3. /\ app' \in Apps(DOMAIN lines)
      /\ SameText(app, app') /\ SameMoney(app, app') /\ app'.phase = app.phase
      /\ Asked(app, app', asks) /\ app'.settling = app.settling
      /\ \/ app'.errand = app.errand /\ app'.away = app.away
         \/ app'.errand = 0 /\ app'.away = app.away \ {app.errand}
  <2>1. CASE app.leaving = "no"
    <3> DEFINE c == LetGo(app)
    <3>1. /\ c \in Apps(DOMAIN lines)
          /\ SameText(app, c) /\ SameMoney(app, c) /\ SameLeaving(app, c)
          /\ Asked(app, c, app.busy)
          /\ c.errand = 0 /\ c.settling = app.settling /\ c.away = app.away \ {app.errand}
      BY <1>2, LetGoApp, LetGoShown
    <3>2. app' = [c EXCEPT !.leaving = "pressed"]
      BY <1>1, <2>1
    <3> HIDE DEF c
    <3>3. /\ app' \in Apps(DOMAIN lines) /\ SameText(c, app') /\ SameMoney(c, app')
          /\ app'.phase = c.phase /\ SameTurn(c, app') /\ SameOut(c, app')
      BY <3>1, <3>2 DEF Apps, SameText, SameMoney, SameTurn, SameOut
    <3> QED
      BY <2>1, <3>1, <3>3 DEF SameText, SameMoney, SameLeaving, SameTurn, SameOut, Asked
  <2>2. CASE app.leaving # "no"
    BY <1>1, <1>2, <2>2 DEF Apps, SameText, SameMoney, Asked
  <2> QED
    BY <2>1, <2>2
<1>4. AppTypeOK'
  BY <1>1, <1>3 DEF AppInv, AppTypeOK, Kernel
<1>5. TurnInv'
  <2>1. asks \in BOOLEAN
    OBVIOUS
  <2> HIDE DEF asks
  <2> QED
    BY <1>1, <1>3, <2>1, LoopKeepsTurnAndMoney
<1>6. LinesInv'
  <2>1. app.settling => ~app'.busy /\ pending' = <<>>
    BY <1>1, <1>3, SettledStays DEF Asked
  <2> QED
    BY <1>1, <1>3, <2>1, LinesStay
<1> QED
  BY <1>4, <1>5, <1>6 DEF AppInv

\* Leaving is only noted, until the top of the loop.
LEMMA QuitKeeps ==
  ASSUME AppInv, IInv', Quit
  PROVE  AppInv'
<1>1. /\ app.phase = "open" /\ pc[Desk] = "away" /\ Kernel(FALSE)
      /\ app' = [app EXCEPT !.leaving = "quit"]
      /\ UNCHANGED <<outcomes, unread, lines, responses, pending>>
  BY DEF Quit, Selecting, AtTop, Kernel, machine
<1>2. app \in Apps(DOMAIN lines) /\ app.interrupting \in BOOLEAN
  BY AppTypes DEF AppInv, AppTypeOK
<1>3. /\ app' \in Apps(DOMAIN lines)
      /\ SameText(app, app') /\ SameMoney(app, app') /\ app'.phase = app.phase
      /\ Asked(app, app', FALSE) /\ SameOut(app, app')
  BY <1>1, <1>2 DEF Apps, SameText, SameMoney, Asked, SameOut
<1>4. AppTypeOK'
  BY <1>1, <1>3 DEF AppInv, AppTypeOK, Kernel
<1>5. TurnInv'
  BY <1>1, <1>3, LoopKeepsTurnAndMoney
<1>6. LinesInv'
  <2>1. app.settling => ~app'.busy /\ pending' = <<>>
    BY <1>1, <1>3, SettledStays DEF Asked
  <2> QED
    BY <1>1, <1>3, <2>1, LinesStay DEF SameOut
<1> QED
  BY <1>4, <1>5, <1>6 DEF AppInv

\* Without a ceiling there is money again.
LEMMA RaiseCeilingKeeps ==
  ASSUME AppInv, IInv', RaiseCeiling
  PROVE  AppInv'
<1>1. /\ app.phase = "open" /\ pc[Desk] = "away" /\ Kernel(FALSE)
      /\ app' = [app EXCEPT !.limit = 0, !.overspent = FALSE]
      /\ UNCHANGED <<outcomes, unread, lines, responses, pending>>
  BY DEF RaiseCeiling, Selecting, AtTop, Kernel, machine
<1>2. app \in Apps(DOMAIN lines) /\ app.interrupting \in BOOLEAN
  BY AppTypes DEF AppInv, AppTypeOK
<1>3. /\ app' \in Apps(DOMAIN lines)
      /\ SameText(app, app') /\ SameLeaving(app, app') /\ Asked(app, app', FALSE)
      /\ SameOut(app, app') /\ app'.spent = app.spent /\ app'.charged = app.charged
      /\ app'.limit = 0 /\ ~app'.overspent
  BY <1>1, <1>2 DEF Apps, SameText, SameLeaving, Asked, SameOut
<1>4. AppTypeOK'
  BY <1>1, <1>3 DEF AppInv, AppTypeOK, Kernel
<1>5. TurnInv'
  <2>1. ChargesShown'
    BY <1>1, <1>3 DEF AppInv, TurnInv, ChargesShown, Asked
  <2>2. StopsShown'
    BY <1>3 DEF StopsShown
  <2>3. app.overspent => stopped
    BY <1>1 DEF AppInv, TurnInv, StopsShown
  <2> QED
    BY <1>1, <1>3, <2>1, <2>2, <2>3, LoopKeepsTurn DEF SameLeaving
<1>6. LinesInv'
  <2>1. app.settling => ~app'.busy /\ pending' = <<>>
    BY <1>1, <1>3, SettledStays DEF Asked
  <2> QED
    BY <1>1, <1>3, <2>1, LinesStay DEF SameOut, SameLeaving
<1> QED
  BY <1>4, <1>5, <1>6 DEF AppInv

\* An event that is heard charges what is new in the log.
LEMMA HearKeeps ==
  ASSUME AppInv, IInv', Hear
  PROVE  AppInv'
<1> DEFINE asks == app.busy /\ app'.overspent /\ ~app.overspent
<1>1. /\ app.phase # "left" /\ app' = Charged(app)
      /\ unread > 0 /\ unread' = unread - 1 /\ Kernel(Stops(TRUE))
      /\ UNCHANGED <<outcomes, lines, responses, pending>>
  BY DEF Hear, Selecting, AtTop, Kernel, machine
<1>2. /\ app' \in Apps(DOMAIN lines) /\ SameText(app, app') /\ SameLeaving(app, app')
      /\ app'.settling = app.settling
      /\ \/ app'.errand = app.errand /\ app'.away = app.away
         \/ app'.errand = 0 /\ app'.away = app.away \ {app.errand}
      /\ Asked(app, app', asks)
  <2> DEFINE b == Charged(app)
  <2>1. /\ b \in Apps(DOMAIN lines) /\ SameText(app, b) /\ SameLeaving(app, b)
        /\ b.settling = app.settling
        /\ \/ b.errand = app.errand /\ b.away = app.away
           \/ b.errand = 0 /\ b.away = app.away \ {app.errand}
        /\ Asked(app, b, app.busy /\ b.overspent /\ ~app.overspent)
    BY <1>1, ChargingKeepsMoney
  <2> QED
    BY <1>1, <2>1
<1>3. Kernel(asks)
  <2>1. Stops(TRUE) = asks
    BY <1>1 DEF Stops
  <2> QED
    BY <1>1, <2>1
<1>4. AppTypeOK'
  <2>1. unread' \in 0..Behind
    BY <1>1, AppTypes, ApplicationAssumption DEF AppInv
  <2> QED
    BY <1>1, <1>2, <1>3, <2>1 DEF AppInv, AppTypeOK, Kernel
<1>5. TurnInv'
  <2>1. /\ ChargesShown'
        /\ app'.overspent =>
             stopped' /\ (app.task = "none" \/ (app.task = "driving" /\ interrupted'))
        /\ app.overspent => app'.overspent
    <3>1. SameMoney(app', app')
      BY DEF SameMoney
    <3> QED
      BY <1>1, <1>3, <3>1, StoppedWhereSpent
  <2>2. StopsShown'
    BY <1>2, <2>1 DEF StopsShown, Asked
  <2>3. asks \in BOOLEAN
    OBVIOUS
  <2>4. app'.phase = app.phase /\ (app'.phase = "waiting" => app'.leaving = "quit")
    BY <1>1, <1>2 DEF SameLeaving, AppInv, TurnInv, WaitShown
  <2> HIDE DEF asks
  <2> QED
    BY <1>1, <1>2, <1>3, <2>1, <2>2, <2>3, <2>4, LoopKeepsTurn
<1>6. LinesInv'
  <2>1. app.phase = "open" /\ app.settling => ~app'.busy /\ pending' = <<>>
    BY <1>1, <1>2, SettledStays DEF Asked
  <2> QED
    BY <1>1, <1>2, <2>1, LinesStay DEF SameLeaving
<1> QED
  BY <1>4, <1>5, <1>6 DEF AppInv

---------------------------------------------------------------------------
(* Leaving.                                                                *)

GoneFrom(a, b) ==
  /\ SameTurn(a, b) /\ SameMoney(a, b) /\ b.leaving = a.leaving /\ b.phase = "left"
  /\ b.entered = a.entered /\ b.ahead = <<>> /\ b.held = <<>>
  /\ b.unsent = a.ahead \o a.held

\* What a session that is left leaves.
LEMMA GoneShown ==
  ASSUME NEW ns, NEW a \in Apps(ns)
  PROVE  Gone(a) \in Apps(ns) /\ GoneFrom(a, Gone(a))
<1> DEFINE b == Gone(a)
<1>1. a.ahead \o a.held \in Seq(ns)
  <2>1. a.ahead \in Seq(ns) /\ a.held \in Seq(ns)
    BY DEF Apps
  <2> QED
    BY <2>1
<1>2. <<>> \in Seq(ns)
  OBVIOUS
<1>3. b \in Apps(ns)
  BY <1>1, <1>2 DEF Gone, Apps
<1> QED
  BY <1>3 DEF Gone, Apps, SameTurn, SameMoney, GoneFrom

\* What waited is said to be unsent.
LEMMA GoneKeepsLines ==
  ASSUME UNCHANGED lines, NEW c \in Apps(DOMAIN lines), c.unsent = <<>>,
         Placed(c.entered, c.ahead, c.held, c.unsent, Messages),
         NEW b, GoneFrom(c, b), SameText(b, app'), app'.phase = "left"
  PROVE  LinesInv'
<1>1. /\ c.entered \in Seq(DOMAIN lines) /\ c.ahead \in Seq(DOMAIN lines)
      /\ c.held \in Seq(DOMAIN lines)
  BY DEF Apps
<1>2. Placed(c.entered, <<>>, <<>>, c.ahead \o c.held, Messages)
  BY <1>1, RestIsUnsent
<1>3. Messages' = Messages
  BY DEF Messages
<1> QED
  BY <1>2, <1>3 DEF LinesInv, PlacesShown, SameText, GoneFrom

\* The places are as they were where the text is.
LEMMA SamePlaces ==
  ASSUME AppInv, app.phase # "left", NEW c, SameText(app, c)
  PROVE  Placed(c.entered, c.ahead, c.held, c.unsent, Messages) /\ c.unsent = <<>>
  BY DEF AppInv, LinesInv, PlacesShown, SameText

\* No turn is left behind, unless the session was left in a hurry.
LEMMA GoneKeepsTurn ==
  ASSUME AppInv, app.phase # "left", pc[Desk] = "away", Kernel(FALSE), SameTurn(app, app'),
         app'.phase = "left", ~app.busy \/ app'.leaving \in {"now", "late"}
  PROVE  TurnInv'
<1>1. UNCHANGED <<state, pc, turning, interrupted, stopped>>
  BY DEF Kernel, machine, loop
<1>2. TaskShown'
  BY <1>1 DEF AppInv, TurnInv, TaskShown, SameTurn
<1>3. LeftShown'
  BY <1>1 DEF AppInv, TurnInv, EndShown, LeftShown, SameTurn
<1> QED
  BY <1>1, <1>2, <1>3 DEF AppInv, TurnInv

\* A session that is left waits for its turn, or has none, or does not care.
LEMMA LeaveKeeps ==
  ASSUME AppInv, IInv', Leave
  PROVE  AppInv'
<1> DEFINE waits == app.busy /\ app.leaving = "quit"
<1>1. /\ app.phase = "open" /\ pc[Desk] = "away" /\ Kernel(waits) /\ MustLeave
      /\ UNCHANGED <<outcomes, unread, lines, responses, pending>>
      /\ app' = IF waits THEN [LetGo(app) EXCEPT !.settling = FALSE, !.phase = "waiting"]
                ELSE Gone([app EXCEPT !.settling = FALSE])
  BY DEF Leave, AtTop, Kernel, machine
<1>2. app \in Apps(DOMAIN lines) /\ app.busy \in BOOLEAN /\ app.interrupting \in BOOLEAN
  BY AppTypes DEF AppInv, AppTypeOK
<1>3. CASE waits
  <2> DEFINE c == LetGo(app)
  <2>1. /\ c \in Apps(DOMAIN lines)
        /\ SameText(app, c) /\ SameMoney(app, c) /\ SameLeaving(app, c)
        /\ Asked(app, c, app.busy)
    BY <1>2, LetGoApp, LetGoShown
  <2>2. app' = [c EXCEPT !.settling = FALSE, !.phase = "waiting"]
    BY <1>1, <1>3
  <2> HIDE DEF c
  <2>3. /\ app' \in Apps(DOMAIN lines) /\ SameText(c, app') /\ SameMoney(c, app')
        /\ app'.phase = "waiting" /\ app'.leaving = c.leaving /\ SameTurn(c, app')
    BY <2>1, <2>2 DEF Apps, SameText, SameMoney, SameTurn
  <2>4. /\ SameText(app, app') /\ SameMoney(app, app') /\ app'.leaving = "quit"
        /\ Asked(app, app', TRUE)
    BY <1>3, <2>1, <2>3 DEF SameText, SameMoney, SameLeaving, SameTurn, Asked
  <2>5. AppTypeOK'
    BY <1>1, <2>3 DEF AppInv, AppTypeOK, Kernel
  <2>6. Kernel(TRUE)
    BY <1>1, <1>3 DEF Kernel
  <2>7. ChargesShown'
    BY <1>1, <2>4 DEF AppInv, TurnInv, ChargesShown, SameMoney, Asked
  <2>8. StopsShown'
    BY <1>1, <2>4, <2>6 DEF AppInv, TurnInv, StopsShown, SameMoney, Asked, Kernel
  <2>9. TurnInv'
    BY <1>1, <1>3, <2>3, <2>4, <2>6, <2>7, <2>8, LoopKeepsTurn
  <2>10. LinesInv'
    BY <1>1, <2>3, <2>4, LinesStay
  <2> QED
    BY <2>5, <2>9, <2>10 DEF AppInv
<1>4. CASE ~waits
  <2> DEFINE c == [app EXCEPT !.settling = FALSE]
  <2>1. c \in Apps(DOMAIN lines) /\ SameText(app, c) /\ SameTurn(app, c) /\ SameLeaving(app, c)
    BY <1>2 DEF Apps, SameText, SameTurn, SameLeaving
  <2>2. app' = Gone(c)
    BY <1>1, <1>4
  <2> HIDE DEF c
  <2>3. app' \in Apps(DOMAIN lines) /\ GoneFrom(c, app')
    BY <2>1, <2>2, GoneShown
  <2>4. AppTypeOK'
    BY <1>1, <2>3 DEF AppInv, AppTypeOK, Kernel
  <2>5. SameTurn(app, app') /\ (~app.busy \/ app'.leaving \in {"now", "late"})
    BY <1>1, <1>4, <2>1, <2>3 DEF SameTurn, SameLeaving, MustLeave, GoneFrom
  <2>6. Kernel(FALSE)
    BY <1>1, <1>4 DEF Kernel
  <2>7. app'.phase = "left" /\ SameText(app', app')
    BY <2>3 DEF GoneFrom, SameText
  <2>8. TurnInv'
    BY <1>1, <2>5, <2>6, <2>7, GoneKeepsTurn
  <2>9. LinesInv'
    BY <1>1, <2>1, <2>3, <2>7, SamePlaces, GoneKeepsLines
  <2> QED
    BY <2>4, <2>8, <2>9 DEF AppInv
<1> QED
  BY <1>3, <1>4

\* A turn that did not end in time is left to itself.
LEMMA DeadlineKeeps ==
  ASSUME AppInv, IInv', Deadline
  PROVE  AppInv'
<1> DEFINE c == Gone(app)
<1>1. /\ app.phase = "waiting" /\ Kernel(FALSE) /\ app' = [c EXCEPT !.leaving = "late"]
      /\ UNCHANGED <<outcomes, unread, lines, responses>>
  BY DEF Deadline
<1>2. app \in Apps(DOMAIN lines) /\ pc[Desk] = "away"
  BY <1>1 DEF AppInv, AppTypeOK, TurnInv, TaskShown
<1>3. c \in Apps(DOMAIN lines) /\ GoneFrom(app, c)
  BY <1>2, GoneShown
<1> HIDE DEF c
<1>4. /\ app' \in Apps(DOMAIN lines) /\ SameTurn(c, app') /\ SameText(c, app')
      /\ app'.phase = "left" /\ app'.leaving = "late"
  BY <1>1, <1>3 DEF Apps, SameTurn, SameText, GoneFrom
<1>5. AppTypeOK'
  BY <1>1, <1>4 DEF AppInv, AppTypeOK, Kernel
<1>6. TurnInv'
  <2>1. SameTurn(app, app')
    BY <1>3, <1>4 DEF SameTurn, GoneFrom
  <2> QED
    BY <1>1, <1>2, <1>4, <2>1, GoneKeepsTurn
<1>7. LinesInv'
  <2>1. SameText(app, app)
    BY DEF SameText
  <2> QED
    BY <1>1, <1>2, <1>3, <1>4, <2>1, SamePlaces, GoneKeepsLines
<1> QED
  BY <1>5, <1>6, <1>7 DEF AppInv

---------------------------------------------------------------------------
(* Outcomes.                                                               *)

\* One outcome is read, and the others move up.
LEMMA OutcomeTaken ==
  ASSUME AppTypeOK, outcomes # <<>>, outcomes' = Tail(outcomes)
  PROVE  /\ 1 \in DOMAIN outcomes /\ Head(outcomes) = outcomes[1]
         /\ outcomes' \in Seq(Outcomes(DOMAIN lines))
         /\ EndsKept(1) /\ ReturnsKept(1) /\ \A k \in DOMAIN outcomes' : k + 1 # 1
         /\ \A k \in Ends : k = 1 \/ k - 1 \in Ends'
<1>1. outcomes \in Seq(Outcomes(DOMAIN lines))
  BY DEF AppTypeOK
<1>2. /\ 1 \in DOMAIN outcomes /\ Head(outcomes) = outcomes[1]
      /\ outcomes' \in Seq(Outcomes(DOMAIN lines))
      /\ \A k \in DOMAIN outcomes' :
           k \in Nat \ {0} /\ k + 1 \in DOMAIN outcomes /\ outcomes'[k] = outcomes[k + 1]
      /\ \A k \in DOMAIN outcomes :
           k = 1 \/ (/\ k - 1 \in DOMAIN outcomes' /\ k \in Nat
                     /\ outcomes'[k - 1] = outcomes[k])
  BY <1>1, TailTaken
<1>3. EndsKept(1) /\ ReturnsKept(1)
  BY <1>2 DEF EndsKept, ReturnsKept, Ends, Returns
<1>4. \A k \in DOMAIN outcomes' : k + 1 # 1
  BY <1>2
<1>5. \A k \in Ends : k = 1 \/ k - 1 \in Ends'
  BY <1>2 DEF Ends
<1> QED
  BY <1>2, <1>3, <1>4, <1>5

\* What is charged before the outcome is looked at.
LEMMA ChargedFirst ==
  ASSUME AppInv, app.phase # "left", NEW b, b = IF unread > 0 THEN Charged(app) ELSE app
  PROVE  /\ (b = app /\ app.charged = responses) \/ b = Charged(app)
         /\ Stops(unread > 0) = (app.busy /\ b.overspent /\ ~app.overspent)
<1>1. app.charged # responses => unread > 0
  BY DEF AppInv, TurnInv, ChargesShown
<1>2. CASE unread > 0
  BY <1>2 DEF Stops
<1>3. CASE ~(unread > 0)
  BY <1>1, <1>3 DEF Stops
<1> QED
  BY <1>2, <1>3

\* A command comes back.
LEMMA ReturnedKeeps ==
  ASSUME AppInv, app.phase # "left", outcomes # <<>>, outcomes' = Tail(outcomes), unread' = 0,
         Head(outcomes).how = "returned", app' = OnOutcome(app, Head(outcomes)),
         Kernel(Stops(unread > 0)), UNCHANGED <<lines, responses>>, IInv'
  PROVE  AppInv'
<1> DEFINE n == Head(outcomes).line
           b == IF unread > 0 THEN Charged(app) ELSE app
           asks == app.busy /\ b.overspent /\ ~app.overspent
<1>1. /\ (b = app /\ app.charged = responses) \/ b = Charged(app)
      /\ Stops(unread > 0) = asks
  BY ChargedFirst
<1>2. /\ b \in Apps(DOMAIN lines) /\ SameText(app, b) /\ SameLeaving(app, b)
      /\ b.settling = app.settling
      /\ \/ b.errand = app.errand /\ b.away = app.away
         \/ b.errand = 0 /\ b.away = app.away \ {app.errand}
      /\ Asked(app, b, asks)
  BY <1>1, ChargingKeepsMoney
<1>3. /\ 1 \in DOMAIN outcomes /\ Head(outcomes) = outcomes[1]
      /\ outcomes' \in Seq(Outcomes(DOMAIN lines))
      /\ EndsKept(1) /\ ReturnsKept(1) /\ \A k \in DOMAIN outcomes' : k + 1 # 1
      /\ \A k \in Ends : k = 1 \/ k - 1 \in Ends'
  BY OutcomeTaken DEF AppInv
<1>4. 1 \in Returns /\ 1 \notin Ends /\ n = outcomes[1].line /\ n \in DOMAIN lines /\ n # 0
  BY <1>3, LineTypes DEF Returns, Ends, AppInv
<1>5. app' = Returned(b, n)
  BY DEF OnOutcome
<1>6. Kernel(asks) /\ asks \in BOOLEAN /\ UNCHANGED pending
  BY <1>1 DEF Kernel, machine
<1> HIDE DEF b, n, asks
<1>7. /\ app' \in Apps(DOMAIN lines) /\ SameText(b, app') /\ SameLeaving(b, app')
      /\ SameTurn(b, app') /\ SameMoney(b, app') /\ app'.away = b.away
      /\ app'.settling = (b.settling /\ lines[n] # "switch")
      /\ app'.errand = IF lines[n] # "switch" /\ n = b.errand THEN 0 ELSE b.errand
  <2> DEFINE ns == DOMAIN lines
             other == app'
  <2>1. b \in Apps(ns)
    BY <1>2
  <2>2. CASE lines[n] = "switch"
    <3>1. other = [b EXCEPT !.settling = FALSE]
      BY <1>5, <2>2 DEF Returned
    <3> HIDE DEF ns, other
    <3>2. other \in Apps(ns)
      BY <2>1, <3>1 DEF Apps
    <3>3. other.settling = FALSE /\ other.errand = b.errand /\ other.away = b.away
      BY <2>1, <3>1 DEF Apps
    <3>4. SameText(b, other) /\ SameLeaving(b, other)
      BY <2>1, <3>1 DEF Apps, SameText, SameLeaving
    <3>5. SameTurn(b, other) /\ SameMoney(b, other)
      BY <2>1, <3>1 DEF Apps, SameTurn, SameMoney
    <3> QED
      BY <2>2, <3>2, <3>3, <3>4, <3>5 DEF ns, other
  <2>3. CASE lines[n] # "switch" /\ n = b.errand
    <3>1. other = [b EXCEPT !.errand = 0]
      BY <1>5, <2>3 DEF Returned
    <3> HIDE DEF ns, other
    <3>2. other \in Apps(ns)
      BY <2>1, <3>1 DEF Apps
    <3>3. other.settling = b.settling /\ other.errand = 0 /\ other.away = b.away
      BY <2>1, <3>1 DEF Apps
    <3>4. SameText(b, other) /\ SameLeaving(b, other)
      BY <2>1, <3>1 DEF Apps, SameText, SameLeaving
    <3>5. SameTurn(b, other) /\ SameMoney(b, other)
      BY <2>1, <3>1 DEF Apps, SameTurn, SameMoney
    <3>6. b.settling \in BOOLEAN
      BY <2>1 DEF Apps
    <3> QED
      BY <2>3, <3>2, <3>3, <3>4, <3>5, <3>6 DEF ns, other
  <2>4. CASE lines[n] # "switch" /\ n # b.errand
    <3>1. app' = b
      BY <1>5, <2>4 DEF Returned
    <3>2. b.settling \in BOOLEAN
      BY <2>1 DEF Apps
    <3> QED
      BY <2>1, <2>4, <3>1, <3>2 DEF SameText, SameLeaving, SameTurn, SameMoney
  <2> QED
    BY <2>2, <2>3, <2>4
<1>8. /\ SameText(app, app') /\ SameLeaving(app, app') /\ Asked(app, app', asks)
  BY <1>2, <1>7 DEF SameText, SameLeaving, SameTurn, Asked
<1>9. AppTypeOK'
  <2>1. unread' \in 0..Behind
    BY ApplicationAssumption
  <2>2. stopped' \in BOOLEAN
    BY <1>6, AppTypes DEF Kernel, AppInv
  <2> QED
    BY <1>3, <1>7, <2>1, <2>2 DEF AppInv, AppTypeOK
<1>10. TurnInv'
  <2>1. /\ ChargesShown'
        /\ app'.overspent =>
             stopped' /\ (app.task = "none" \/ (app.task = "driving" /\ interrupted'))
        /\ app.overspent => app'.overspent
    BY <1>1, <1>6, <1>7, StoppedWhereSpent DEF asks
  <2>2. StopsShown'
    BY <1>8, <2>1 DEF StopsShown, Asked
  <2>3. app'.phase = app.phase /\ (app'.phase = "waiting" => app'.leaving = "quit")
    BY <1>8 DEF SameLeaving, AppInv, TurnInv, WaitShown
  <2>4. Ends # {} => Ends' # {}
    BY <1>3, <1>4
  <2> QED
    BY <1>3, <1>6, <1>8, <2>1, <2>2, <2>3, <2>4, TurnKept
<1>11. PlacesShown'
  <2>1. Messages' = Messages
    BY DEF Messages
  <2> QED
    BY <1>8, <2>1 DEF AppInv, LinesInv, PlacesShown, SameText, SameLeaving
<1>12. ASSUME app.phase = "open"
       PROVE  OutShown' /\ HeldShown'
  <2>1. OutShown /\ HeldShown
    BY <1>12 DEF AppInv, LinesInv
  <2>2. /\ n \notin app.away /\ app'.away \subseteq app.away
        /\ lines[n] = "switch" => Switches(app.away) = {}
    BY <1>2, <1>4, <1>7, <2>1 DEF OutShown
  <2>3. \A m \in app'.away : m = app'.errand \/ (app'.settling /\ lines'[m] = "switch")
    <3> SUFFICES ASSUME NEW m \in app'.away
                 PROVE  m = app'.errand \/ (app'.settling /\ lines'[m] = "switch")
      OBVIOUS
    <3>1. m \in app.away /\ m # n /\ (m = app.errand \/ (app.settling /\ lines[m] = "switch"))
      BY <2>1, <2>2 DEF OutShown
    <3>2. m = app.errand => b.errand = app.errand
      BY <1>2, <1>7
    <3>3. lines[n] = "switch" => lines[m] # "switch"
      BY <2>2, <3>1 DEF Switches
    <3> QED
      BY <1>2, <1>7, <3>1, <3>2, <3>3
  <2>4. app'.settling => ~app'.busy /\ pending' = <<>>
    BY <1>2, <1>6, <1>7, <1>8, <2>1 DEF OutShown, Asked
  <2>5. app'.errand # 0 => lines'[app'.errand] = "errand"
    BY <1>2, <1>7, <2>1 DEF OutShown
  <2>6. Switches(app.away)' \subseteq Switches(app.away)
    BY <2>2 DEF Switches
  <2>7. ASSUME NEW k \in Returns'
        PROVE  /\ outcomes'[k].line \notin app'.away
               /\ lines'[outcomes'[k].line] = "switch"
                    => app'.settling /\ Switches(app.away)' = {}
    <3>1. k + 1 \in Returns /\ outcomes'[k] = outcomes[k + 1] /\ k + 1 # 1
      BY <1>3 DEF ReturnsKept, Returns
    <3>2. lines[outcomes[k + 1].line] = "switch" => lines[n] # "switch"
      BY <1>4, <2>1, <3>1 DEF OutShown
    <3> QED
      BY <1>2, <1>7, <2>1, <2>2, <2>6, <3>1, <3>2 DEF OutShown
  <2>8. ASSUME NEW j \in Returns', NEW k \in Returns',
               lines'[outcomes'[j].line] = "switch", lines'[outcomes'[k].line] = "switch"
        PROVE  j = k
    <3>1. /\ j \in Int /\ j + 1 \in Returns /\ outcomes'[j] = outcomes[j + 1]
          /\ k \in Int /\ k + 1 \in Returns /\ outcomes'[k] = outcomes[k + 1]
      BY <1>3, <2>8 DEF ReturnsKept
    <3>2. j + 1 = k + 1
      BY <2>1, <2>8, <3>1 DEF OutShown
    <3> QED
      BY <3>1, <3>2
  <2>9. OutShown'
    BY <2>1, <2>3, <2>4, <2>5, <2>6, <2>7, <2>8 DEF OutShown
  <2>10. HeldShown'
    <3>1. \A k \in Returns' : \E j \in Returns : outcomes'[k] = outcomes[j]
      BY <1>3 DEF ReturnsKept
    <3> QED
      BY <1>8, <2>1, <2>2, <3>1 DEF HeldShown, Before, SameText
  <2> QED
    BY <2>9, <2>10
<1> QED
  BY <1>8, <1>9, <1>10, <1>11, <1>12 DEF AppInv, LinesInv, SameLeaving

\* The turn is over, and what was charged first is charged.
TurnEnds(b, c) ==
  /\ app.phase # "left" /\ outcomes # <<>> /\ outcomes' = Tail(outcomes) /\ unread' = 0
  /\ Head(outcomes).how # "returned" /\ Kernel(Stops(unread > 0))
  /\ UNCHANGED <<lines, responses>>
  /\ b = (IF unread > 0 THEN Charged(app) ELSE app) /\ c = TurnOver(b, Head(outcomes))

\* What a turn that is over leaves: no task, no outcome, and perhaps the next turn.
LEMMA TurnEndsShown ==
  ASSUME AppInv, NEW b, NEW c, TurnEnds(b, c)
  PROVE  /\ app.busy /\ app.task = "none" /\ pc[Task] = "away" /\ pc[Desk] = "away"
         /\ Ends' = {} /\ ReturnsKept(1) /\ outcomes' \in Seq(Outcomes(DOMAIN lines))
         /\ UNCHANGED <<state, pending, pc, turning>>
         /\ (interrupted => interrupted') /\ (stopped => stopped')
         /\ (interrupted' => stopped')
         /\ \/ ~c.busy /\ c.task = "none" /\ c.stepping = app.stepping
            \/ /\ c.busy /\ c.task = "spawned" /\ ~c.overspent
               /\ Resuming(app, Head(outcomes)) \/ ~app.interrupting
         /\ Resuming(app, Head(outcomes)) => c.busy \/ c.overspent
         /\ c.settling = app.settling /\ SameLeaving(app, c)
         /\ \/ c.errand = app.errand /\ c.away = app.away
            \/ c.errand = 0 /\ c.away = app.away \ {app.errand}
<1> DEFINE outcome == Head(outcomes)
           asks == app.busy /\ b.overspent /\ ~app.overspent
<1>1. /\ (b = app /\ app.charged = responses) \/ b = Charged(app)
      /\ Stops(unread > 0) = asks
  BY ChargedFirst DEF TurnEnds
<1>2. /\ b \in Apps(DOMAIN lines) /\ SameText(app, b) /\ SameLeaving(app, b)
      /\ b.settling = app.settling
      /\ \/ b.errand = app.errand /\ b.away = app.away
         \/ b.errand = 0 /\ b.away = app.away \ {app.errand}
      /\ Asked(app, b, asks)
  BY <1>1, ChargingKeepsMoney DEF TurnEnds
<1>3. /\ 1 \in DOMAIN outcomes /\ outcome = outcomes[1]
      /\ outcomes' \in Seq(Outcomes(DOMAIN lines))
      /\ EndsKept(1) /\ ReturnsKept(1) /\ \A k \in DOMAIN outcomes' : k + 1 # 1
  BY OutcomeTaken DEF AppInv, TurnEnds
<1>4. 1 \in Ends
  BY <1>3 DEF Ends, TurnEnds
<1>5. app.busy /\ app.task = "none" /\ \A k \in Ends : k = 1
  BY <1>4 DEF AppInv, TurnInv, EndShown, TurnEnds
<1>6. Ends' = {}
  BY <1>3, <1>5 DEF EndsKept, Ends
<1>7. pc[Task] = "away" /\ pc[Desk] = "away"
  BY <1>5 DEF AppInv, TurnInv, TaskShown
<1>8. Kernel(asks)
  BY <1>1 DEF TurnEnds
<1>9. /\ UNCHANGED <<state, pending, pc, turning>>
      /\ (interrupted => interrupted') /\ (stopped => stopped')
      /\ (interrupted' => stopped')
  BY <1>8 DEF Kernel, machine, loop, AppInv, TurnInv
<1> HIDE DEF asks, outcome
<1>10. /\ c \in Apps(DOMAIN lines)
       /\ SameOut(b, c) /\ SameMoney(b, c) /\ SameLeaving(b, c)
       /\ \/ ~c.busy /\ c.task = b.task /\ c.stepping = b.stepping
          \/ /\ c.busy /\ c.task = "spawned" /\ ~b.overspent
             /\ Resuming(b, outcome) \/ ~b.interrupting
       /\ Resuming(b, outcome) => c.busy \/ b.overspent
  BY <1>2, TurnOverShown DEF TurnEnds, outcome
<1>11. /\ Resuming(b, outcome) <=> Resuming(app, outcome)
       /\ ~b.interrupting => ~app.interrupting
       /\ b.task = "none" /\ b.stepping = app.stepping
  BY <1>2, <1>5, AppTypes DEF Asked, Resuming, AppInv
<1>12. /\ \/ ~c.busy /\ c.task = "none" /\ c.stepping = app.stepping
          \/ /\ c.busy /\ c.task = "spawned" /\ ~c.overspent
             /\ Resuming(app, outcome) \/ ~app.interrupting
       /\ Resuming(app, outcome) => c.busy \/ c.overspent
  BY <1>10, <1>11 DEF SameMoney
<1>13. /\ c.settling = app.settling /\ SameLeaving(app, c)
       /\ \/ c.errand = app.errand /\ c.away = app.away
          \/ c.errand = 0 /\ c.away = app.away \ {app.errand}
  BY <1>2, <1>10 DEF SameOut, SameLeaving
<1> QED
  BY <1>3, <1>5, <1>6, <1>7, <1>9, <1>12, <1>13 DEF outcome

\* Its message, where one is next, goes in.
LEMMA TurnEndsPlaces ==
  ASSUME AppInv, NEW b, NEW c, TurnEnds(b, c)
  PROVE  /\ c \in Apps(DOMAIN lines) /\ c.unsent = <<>> /\ c.held = app.held
         /\ Placed(c.entered, c.ahead, c.held, c.unsent, Messages)
         /\ \/ c.entered = app.entered
            \/ Ended(Head(outcomes)) /\ c.entered = Append(app.entered, Head(app.ahead))
<1>1. (b = app /\ app.charged = responses) \/ b = Charged(app)
  BY ChargedFirst DEF TurnEnds
<1>2. b \in Apps(DOMAIN lines) /\ SameText(app, b)
  BY <1>1, ChargingKeepsMoney DEF TurnEnds
<1>3. /\ c \in Apps(DOMAIN lines) /\ c.held = b.held /\ c.unsent = b.unsent
      /\ \/ c.entered = b.entered /\ c.ahead = b.ahead
         \/ /\ Ended(Head(outcomes)) /\ b.ahead # <<>>
            /\ c.entered = Append(b.entered, Head(b.ahead)) /\ c.ahead = Tail(b.ahead)
  BY <1>2, TurnOverShown DEF TurnEnds
<1>4. Placed(b.entered, b.ahead, b.held, b.unsent, Messages) /\ b.unsent = <<>>
  BY <1>2, SamePlaces DEF TurnEnds
<1>5. /\ b.entered \in Seq(DOMAIN lines) /\ b.ahead \in Seq(DOMAIN lines)
      /\ b.held \in Seq(DOMAIN lines) /\ b.unsent \in Seq(DOMAIN lines)
  BY <1>2 DEF Apps
<1>6. CASE c.entered = b.entered /\ c.ahead = b.ahead
  BY <1>2, <1>3, <1>4, <1>6 DEF SameText
<1>7. CASE /\ Ended(Head(outcomes)) /\ b.ahead # <<>>
           /\ c.entered = Append(b.entered, Head(b.ahead)) /\ c.ahead = Tail(b.ahead)
  <2>1. Placed(Append(b.entered, Head(b.ahead)), Tail(b.ahead), b.held, b.unsent, Messages)
    BY <1>4, <1>5, <1>7, FirstGoesIn
  <2> QED
    BY <1>2, <1>3, <1>4, <1>7, <2>1 DEF SameText
<1> QED
  BY <1>3, <1>6, <1>7

\* What the outcome says of the kernel.
LEMMA OutcomeSays ==
  ASSUME AppInv, NEW b, NEW c, TurnEnds(b, c)
  PROVE  /\ Ended(Head(outcomes)) => state \in {"Idle", "Finished"} /\ pending = <<>>
         /\ state = "Ready" =>
              Resuming(app, Head(outcomes)) \/ app.stepping \/ stopped
         /\ Resuming(app, Head(outcomes)) => state = "Ready"
<1> DEFINE outcome == Head(outcomes)
<1>1. 1 \in Ends /\ outcome = outcomes[1] /\ outcome \in Outcomes(DOMAIN lines)
  BY OutcomeTaken, LineTypes DEF AppInv, Ends, TurnEnds
<1>2. OutcomeShown
  BY DEF AppInv, TurnInv, TurnEnds
<1>3. /\ outcome.how = "failed" => outcome.state = "Idle"
      /\ outcome.how = "stepped" => app.stepping
      /\ outcome.how = "stopped" => ~app.stepping
      /\ outcome.state \in {"Idle", "Finished"} => state \in {"Idle", "Finished"}
      /\ outcome.state \in {"Deciding", "Ready"} => state \in {"Deciding", "Ready"}
      /\ state = "Ready" => outcome.state = "Deciding" \/ app.stepping \/ stopped
  BY <1>1, <1>2 DEF OutcomeShown
<1>4. outcome.how \in {"failed", "stepped", "stopped"}
  BY <1>1 DEF Outcomes, Ends
<1> HIDE DEF outcome
<1>5. Ended(outcome) => state \in {"Idle", "Finished"} /\ pending = <<>>
  BY <1>3, KernelShown DEF Ended, AppInv
<1>6. state = "Ready" => Resuming(app, outcome) \/ app.stepping \/ stopped
  BY <1>3, <1>4, KernelShown DEF Resuming, AppInv
<1>7. Resuming(app, outcome) => state = "Ready"
  BY <1>3, KernelShown DEF Resuming, AppInv
<1> QED
  BY <1>5, <1>6, <1>7 DEF outcome

\* The loop reads an outcome.
LEMMA TakeOutcomeKeeps ==
  ASSUME AppInv, IInv', TakeOutcome
  PROVE  AppInv'
<1>1. /\ app.phase = "open" /\ outcomes # <<>> /\ outcomes' = Tail(outcomes) /\ unread' = 0
      /\ app' = OnOutcome(app, Head(outcomes))
      /\ Kernel(Stops(unread > 0)) /\ UNCHANGED <<lines, responses>>
  BY DEF TakeOutcome, Selecting, AtTop
<1>2. CASE Head(outcomes).how = "returned"
  BY <1>1, <1>2, ReturnedKeeps
<1>3. CASE Head(outcomes).how # "returned"
  <2> DEFINE b == IF unread > 0 THEN Charged(app) ELSE app
  <2>1. TurnEnds(b, app')
    BY <1>1, <1>3 DEF TurnEnds, OnOutcome
  <2> HIDE DEF b
  <2>2. /\ app.busy /\ app.task = "none" /\ pc[Task] = "away" /\ pc[Desk] = "away"
        /\ Ends' = {} /\ ReturnsKept(1) /\ outcomes' \in Seq(Outcomes(DOMAIN lines))
        /\ UNCHANGED <<state, pending, pc, turning>>
        /\ (interrupted => interrupted') /\ (stopped => stopped')
        /\ (interrupted' => stopped')
        /\ \/ ~app'.busy /\ app'.task = "none" /\ app'.stepping = app.stepping
           \/ app'.busy /\ app'.task = "spawned" /\ ~app'.overspent
        /\ Resuming(app, Head(outcomes)) => app'.busy \/ app'.overspent
        /\ app'.settling = app.settling /\ SameLeaving(app, app')
        /\ \/ app'.errand = app.errand /\ app'.away = app.away
           \/ app'.errand = 0 /\ app'.away = app.away \ {app.errand}
    BY <2>1, TurnEndsShown
  <2>3. /\ app' \in Apps(DOMAIN lines) /\ app'.unsent = <<>> /\ app'.held = app.held
        /\ Placed(app'.entered, app'.ahead, app'.held, app'.unsent, Messages)
    BY <2>1, TurnEndsPlaces
  <2>4. AppTypeOK'
    <3>1. unread' \in 0..Behind
      BY <1>1, ApplicationAssumption
    <3>2. stopped' \in BOOLEAN
      BY <1>1, AppTypes DEF Kernel, AppInv
    <3> QED
      BY <1>1, <2>2, <2>3, <3>1, <3>2 DEF AppInv, AppTypeOK
  <2>5. /\ ChargesShown'
        /\ app'.overspent => stopped'
    <3>1. /\ (b = app /\ app.charged = responses) \/ b = Charged(app)
          /\ Stops(unread > 0) = (app.busy /\ b.overspent /\ ~app.overspent)
      BY <1>1, <2>1, ChargedFirst DEF TurnEnds
    <3>2. b \in Apps(DOMAIN lines)
      BY <1>1, <3>1, ChargingKeepsMoney
    <3>3. SameMoney(b, app')
      BY <2>1, <3>2, TurnOverShown DEF TurnEnds
    <3> QED
      BY <1>1, <3>1, <3>3, StoppedWhereSpent
  <2>6. TaskShown' /\ EndShown' /\ StopsShown' /\ OutcomeShown'
    BY <2>2, <2>5 DEF TaskShown, EndShown, StopsShown, OutcomeShown
  <2>7. app'.phase = "open"
    BY <1>1, <2>2 DEF SameLeaving
  <2>8. CarriedOn'
    BY <2>1, <2>2, OutcomeSays DEF CarriedOn
  <2>9. TurnInv'
    BY <2>2, <2>5, <2>6, <2>7, <2>8 DEF TurnInv, LeftShown, WaitShown
  <2>10. LinesInv'
    <3>1. ~app.settling
      BY <1>1, <2>2 DEF AppInv, LinesInv, OutShown
    <3>2. OutShown' /\ HeldShown'
      BY <1>1, <2>2, <2>3, <3>1, LinesStayOut
    <3>3. Messages' = Messages
      BY <1>1 DEF Messages
    <3>4. PlacesShown'
      BY <2>3, <3>3 DEF PlacesShown
    <3> QED
      BY <3>2, <3>4 DEF LinesInv
  <2> QED
    BY <2>4, <2>9, <2>10 DEF AppInv
<1> QED
  BY <1>2, <1>3

\* A session that is being left reads one.
LEMMA WaitOutcomeKeeps ==
  ASSUME AppInv, IInv', WaitOutcome
  PROVE  AppInv'
<1>1. /\ app.phase = "waiting" /\ outcomes # <<>> /\ outcomes' = Tail(outcomes) /\ unread' = 0
      /\ app' = IF Head(outcomes).how = "returned" THEN OnOutcome(app, Head(outcomes))
                ELSE Gone(OnOutcome(app, Head(outcomes)))
      /\ Kernel(Stops(unread > 0)) /\ UNCHANGED <<lines, responses>>
  BY DEF WaitOutcome
<1>2. CASE Head(outcomes).how = "returned"
  BY <1>1, <1>2, ReturnedKeeps
<1>3. CASE Head(outcomes).how # "returned"
  <2> DEFINE b == IF unread > 0 THEN Charged(app) ELSE app
             c == TurnOver(b, Head(outcomes))
  <2>1. TurnEnds(b, c) /\ app' = Gone(c)
    BY <1>1, <1>3 DEF TurnEnds, OnOutcome
  <2> HIDE DEF b, c
  <2>2. /\ pc[Task] = "away" /\ pc[Desk] = "away"
        /\ outcomes' \in Seq(Outcomes(DOMAIN lines))
        /\ UNCHANGED <<state, pc>>
        /\ (interrupted => interrupted') /\ (interrupted' => stopped')
        /\ \/ c.task = "none"
           \/ /\ c.task = "spawned"
              /\ Resuming(app, Head(outcomes)) \/ ~app.interrupting
    BY <2>1, TurnEndsShown
  <2>3. /\ c \in Apps(DOMAIN lines) /\ c.unsent = <<>>
        /\ Placed(c.entered, c.ahead, c.held, c.unsent, Messages)
    BY <2>1, TurnEndsPlaces
  <2>4. app' \in Apps(DOMAIN lines) /\ GoneFrom(c, app')
    BY <2>1, <2>3, GoneShown
  <2>5. app'.phase = "left" /\ SameText(app', app') /\ app'.task = c.task
    BY <2>4 DEF GoneFrom, SameText, SameTurn
  <2>6. AppTypeOK'
    <3>1. unread' \in 0..Behind
      BY <1>1, ApplicationAssumption
    <3>2. stopped' \in BOOLEAN
      BY <1>1, AppTypes DEF Kernel, AppInv
    <3> QED
      BY <1>1, <2>2, <2>4, <3>1, <3>2 DEF AppInv, AppTypeOK
  <2>7. TaskShown'
    BY <2>2, <2>5 DEF TaskShown
\* Where it is carried on, the stop that was asked for is still to be spent.
  <2>8. LeftShown'
    <3>1. SUFFICES ASSUME c.task = "spawned"
                   PROVE  interrupted' /\ state' = "Ready"
      BY <2>2, <2>5 DEF LeftShown
    <3>2. app.interrupting /\ Resuming(app, Head(outcomes))
      BY <1>1, <2>2, <3>1 DEF AppInv, TurnInv, WaitShown
    <3>3. state = "Ready"
      BY <2>1, <3>2, OutcomeSays
    <3>4. 1 \in Ends /\ outcomes[1] = Head(outcomes)
      BY <1>1, <1>3, OutcomeTaken DEF Ends, AppInv
    <3>5. interrupted
      BY <1>1, <3>2, <3>3, <3>4 DEF AppInv, TurnInv, WaitShown, Resuming
    <3> QED
      BY <2>2, <3>3, <3>5
  <2>9. TurnInv'
    BY <2>2, <2>5, <2>7, <2>8 DEF TurnInv
  <2>10. LinesInv'
    BY <1>1, <2>3, <2>4, <2>5, GoneKeepsLines
  <2> QED
    BY <2>6, <2>9, <2>10 DEF AppInv
<1> QED
  BY <1>2, <1>3

---------------------------------------------------------------------------
(* The tasks.                                                              *)

\* An outcome is sent.
LEMMA OutcomeSent ==
  ASSUME AppTypeOK, NEW o \in Outcomes(DOMAIN lines), outcomes' = Append(outcomes, o)
  PROVE  /\ outcomes' \in Seq(Outcomes(DOMAIN lines))
         /\ \A k \in DOMAIN outcomes : k \in Int /\ outcomes'[k] = outcomes[k]
         /\ \E last \in Nat :
              /\ DOMAIN outcomes' = DOMAIN outcomes \cup {last} /\ last \notin DOMAIN outcomes
              /\ outcomes'[last] = o
              /\ o.how = "returned" => Ends' = Ends /\ Returns' = Returns \cup {last}
              /\ o.how # "returned" => Ends' = Ends \cup {last} /\ Returns' = Returns
<1> DEFINE last == Len(outcomes) + 1
<1>1. outcomes \in Seq(Outcomes(DOMAIN lines))
  BY DEF AppTypeOK
<1>2. /\ outcomes' \in Seq(Outcomes(DOMAIN lines)) /\ last \in Nat
      /\ DOMAIN outcomes' = DOMAIN outcomes \cup {last} /\ last \notin DOMAIN outcomes
      /\ outcomes'[last] = o
      /\ \A k \in DOMAIN outcomes : k \in Int /\ outcomes'[k] = outcomes[k]
  <2> DEFINE S == Outcomes(DOMAIN lines)
  <2>1. outcomes \in Seq(S) /\ o \in S
    BY <1>1
  <2> HIDE DEF S
  <2>2. /\ outcomes' \in Seq(S) /\ last \in Nat
        /\ DOMAIN outcomes' = DOMAIN outcomes \cup {last} /\ last \notin DOMAIN outcomes
        /\ outcomes'[last] = o
        /\ \A k \in DOMAIN outcomes : k \in Int /\ outcomes'[k] = outcomes[k]
    BY <2>1
  <2> QED
    BY <2>2 DEF S
<1> HIDE DEF last
<1>3. o.how = "returned" => Ends' = Ends /\ Returns' = Returns \cup {last}
  <2>1. ASSUME o.how = "returned"
        PROVE  Ends' = Ends
    BY <1>2, <2>1 DEF Ends
  <2> QED
    BY <1>2, <2>1 DEF Returns, Ends
<1>4. o.how # "returned" => Ends' = Ends \cup {last} /\ Returns' = Returns
  <2>1. ASSUME o.how # "returned"
        PROVE  Ends' = Ends \cup {last}
    BY <1>2, <2>1 DEF Ends
  <2> QED
    BY <1>2, <2>1 DEF Returns, Ends
<1> QED
  BY <1>2, <1>3, <1>4

\* A command's request that is out comes back.
LEMMA ReturnKeeps ==
  ASSUME AppInv, IInv', NEW n \in app.away, Return(n)
  PROVE  AppInv'
<1> DEFINE o == [how |-> "returned", line |-> n]
<1>1. /\ app' = [app EXCEPT !.away = @ \ {n}] /\ outcomes' = Append(outcomes, o)
      /\ Kernel(FALSE) /\ UNCHANGED <<unread, lines, responses, pending>>
  BY DEF Return, Kernel, machine
<1>2. /\ app \in Apps(DOMAIN lines) /\ app.interrupting \in BOOLEAN
      /\ n \in DOMAIN lines /\ n # 0
  BY AppTypes, LineTypes DEF AppInv, AppTypeOK
<1>3. /\ app' \in Apps(DOMAIN lines)
      /\ SameText(app, app') /\ SameMoney(app, app') /\ SameLeaving(app, app')
      /\ SameTurn(app, app') /\ Asked(app, app', FALSE)
      /\ app'.errand = app.errand /\ app'.settling = app.settling
      /\ app'.away = app.away \ {n}
  BY <1>1, <1>2 DEF Apps, SameText, SameMoney, SameLeaving, SameTurn, Asked
<1>4. o \in Outcomes(DOMAIN lines)
  BY <1>2 DEF Outcomes
<1>5. /\ outcomes' \in Seq(Outcomes(DOMAIN lines))
      /\ \A k \in DOMAIN outcomes : k \in Int /\ outcomes'[k] = outcomes[k]
      /\ \E last \in Nat :
           /\ DOMAIN outcomes' = DOMAIN outcomes \cup {last} /\ last \notin DOMAIN outcomes
           /\ outcomes'[last] = o
           /\ Ends' = Ends /\ Returns' = Returns \cup {last}
  BY <1>1, <1>4, OutcomeSent DEF AppInv
<1>6. PICK last \in Nat : /\ last \notin DOMAIN outcomes
                          /\ outcomes'[last].line = n
                          /\ Ends' = Ends /\ Returns' = Returns \cup {last}
  BY <1>5
<1> HIDE DEF o
<1>7. AppTypeOK'
  BY <1>1, <1>3, <1>5 DEF AppInv, AppTypeOK, Kernel
<1>8. TurnInv'
  <2>1. CASE app.phase # "left"
    <3>1. ChargesShown'
      BY <1>1, <1>3, <2>1 DEF AppInv, TurnInv, ChargesShown, SameMoney, SameTurn
    <3>2. StopsShown'
      BY <1>1, <1>3, <2>1 DEF AppInv, TurnInv, StopsShown, SameMoney, SameTurn, Kernel
    <3>3. EndsKept(0)
      <4>1. Ends \subseteq DOMAIN outcomes /\ \A k \in Int : k + 0 = k
        BY DEF Ends
      <4> QED
        BY <1>5, <1>6, <4>1 DEF EndsKept
    <3>4. app'.phase = app.phase /\ (app'.phase = "waiting" => app'.leaving = "quit")
      BY <1>3, <2>1 DEF SameLeaving, AppInv, TurnInv, WaitShown
    <3>5. app.overspent => app'.overspent
      BY <1>3 DEF SameMoney
    <3> DEFINE asks == FALSE
    <3>6. asks \in BOOLEAN /\ Kernel(asks) /\ Asked(app, app', asks)
      BY <1>1, <1>3
    <3> HIDE DEF asks
    <3>7. UNCHANGED responses /\ (Ends # {} => Ends' # {})
      BY <1>1, <1>6
    <3> QED
      BY <2>1, <3>1, <3>2, <3>3, <3>4, <3>5, <3>6, <3>7, TurnKept
  <2>2. CASE app.phase = "left"
    <3>1. UNCHANGED <<state, pc, turning, interrupted, stopped>> /\ app'.phase = "left"
      BY <1>1, <1>3, <2>2 DEF Kernel, machine, loop, SameLeaving
    <3>2. TaskShown'
      BY <1>3, <2>2, <3>1 DEF AppInv, TurnInv, TaskShown, SameTurn
    <3>3. LeftShown'
      BY <1>3, <2>2, <3>1 DEF AppInv, TurnInv, LeftShown, SameTurn, SameLeaving
    <3> QED
      BY <3>1, <3>2, <3>3 DEF AppInv, TurnInv
  <2> QED
    BY <2>1, <2>2
<1>9. PlacesShown'
  <2>1. Messages' = Messages
    BY <1>1 DEF Messages
  <2> QED
    BY <1>3, <2>1 DEF AppInv, LinesInv, PlacesShown, SameText, SameLeaving
<1>10. ASSUME app.phase = "open"
       PROVE  OutShown' /\ HeldShown'
  <2>1. OutShown /\ HeldShown
    BY <1>10 DEF AppInv, LinesInv
  <2>2. \A k \in Returns : k # last /\ outcomes'[k] = outcomes[k]
    BY <1>5, <1>6 DEF Returns
  <2>3. Switches(app.away)' \subseteq Switches(app.away) /\ n \notin Switches(app.away)'
    BY <1>1, <1>3 DEF Switches
  <2>4. lines[n] = "switch" =>
          app.settling /\ n \in Switches(app.away) /\ Switches(app.away)' = {}
    BY <1>2, <2>1, <2>3 DEF OutShown, Switches
  <2>5. \A m \in app'.away : m = app'.errand \/ (app'.settling /\ lines'[m] = "switch")
    BY <1>1, <1>3, <2>1 DEF OutShown
  <2>6. app'.settling => ~app'.busy /\ pending' = <<>>
    BY <1>1, <1>3, <2>1 DEF OutShown, SameTurn
  <2>7. app'.errand # 0 => lines'[app'.errand] = "errand"
    BY <1>1, <1>3, <2>1 DEF OutShown
  <2>8. \A m, k \in Switches(app.away)' : m = k
    BY <2>1, <2>3 DEF OutShown
  <2>9. ASSUME NEW k \in Returns'
        PROVE  /\ outcomes'[k].line \notin app'.away
               /\ lines'[outcomes'[k].line] = "switch"
                    => app'.settling /\ Switches(app.away)' = {}
    <3>1. CASE k = last
      BY <1>1, <1>3, <1>6, <2>4, <3>1
    <3>2. CASE k \in Returns
      BY <1>1, <1>3, <2>1, <2>2, <2>3, <3>2 DEF OutShown
    <3> QED
      BY <1>6, <3>1, <3>2
  <2>10. ASSUME NEW j \in Returns', NEW k \in Returns',
                lines'[outcomes'[j].line] = "switch", lines'[outcomes'[k].line] = "switch"
         PROVE  j = k
    <3>1. CASE j \in Returns /\ k \in Returns
      <4>1. lines[outcomes[j].line] = "switch" /\ lines[outcomes[k].line] = "switch"
        BY <1>1, <2>2, <2>10, <3>1
      <4> QED
        BY <2>1, <3>1, <4>1 DEF OutShown
    <3>2. CASE j \in Returns /\ k = last
      BY <1>1, <1>6, <2>1, <2>2, <2>4, <2>10, <3>2 DEF OutShown
    <3>3. CASE j = last /\ k \in Returns
      BY <1>1, <1>6, <2>1, <2>2, <2>4, <2>10, <3>3 DEF OutShown
    <3> QED
      BY <1>6, <3>1, <3>2, <3>3
  <2>11. OutShown'
    BY <2>5, <2>6, <2>7, <2>8, <2>9, <2>10 DEF OutShown
  <2>12. HeldShown'
    <3>1. ASSUME NEW k \in Returns'
          PROVE  Before({outcomes'[k].line}, ToSet(app.held))
      <4>1. CASE k = last
        BY <1>6, <2>1, <4>1 DEF HeldShown, Before
      <4>2. CASE k \in Returns
        BY <2>1, <2>2, <4>2 DEF HeldShown
      <4> QED
        BY <1>6, <4>1, <4>2
    <3> QED
      BY <1>1, <1>3, <2>1, <3>1 DEF HeldShown, Before, SameText
  <2> QED
    BY <2>11, <2>12
<1> QED
  BY <1>3, <1>7, <1>8, <1>9, <1>10 DEF AppInv, LinesInv, SameLeaving

\* One event more is unread, unless the subscription is full.
LEMMA OneMoreUnread ==
  ASSUME unread \in 0..Behind, unread' = Min({Behind, unread + 1})
  PROVE  unread' \in 0..Behind /\ unread' > 0
<1> DEFINE S == {Behind, unread + 1}
<1>1. Behind \in Nat \ {0} /\ unread + 1 \in Nat \ {0}
  BY ApplicationAssumption
<1>2. \E x \in S : \A y \in S : x <= y
  BY <1>1
<1>3. Min(S) \in S /\ \A y \in S : Min(S) <= y
  BY <1>2 DEF Min
<1> QED
  BY <1>1, <1>3

\* The loop starts to drop the calls: nothing runs.
LEMMA DropCallsKeeps ==
  ASSUME AppInv, IInv', DropCalls
  PROVE  AppInv'
<1>1. /\ app.phase = "open" /\ pc[Desk] = "away" /\ ~app.busy
      /\ pending' = <<>> /\ state' = "Executing"
      /\ pc' = [pc EXCEPT ![Desk] = "cancelling"]
      /\ UNCHANGED <<interrupted, app, outcomes, lines, responses, stopped>>
      /\ unread' = Min({Behind, unread + 1})
  BY DEF DropCalls, Selecting, AtTop, CancelStart
<1>2. app.task = "none" /\ Ends = {} /\ pc[Task] = "away"
  BY <1>1, BetweenTurns
<1>3. Ends' = {} /\ unread' \in 0..Behind
  BY <1>1, <1>2, OutcomesKept, OneMoreUnread, AppTypes DEF AppInv
<1>4. AppTypeOK'
  BY <1>1, <1>3 DEF AppInv, AppTypeOK
<1>5. TurnInv'
  <2>1. pc'[Desk] = "cancelling" /\ pc'[Task] = "away"
    BY <1>1, <1>2, KernelShown DEF AppInv
  <2>2. TaskShown'
    BY <1>1, <1>2, <2>1 DEF TaskShown
  <2>3. EndShown'
    BY <1>1, <1>2, <1>3 DEF EndShown
  <2>4. ChargesShown'
    BY <1>1 DEF AppInv, TurnInv, ChargesShown
  <2>5. StopsShown'
    BY <1>1 DEF AppInv, TurnInv, StopsShown
  <2>6. (interrupted' => stopped') /\ OutcomeShown' /\ WaitShown' /\ CarriedOn' /\ LeftShown'
    BY <1>1, <1>3 DEF AppInv, TurnInv, OutcomeShown, WaitShown, CarriedOn, LeftShown
  <2> QED
    BY <2>2, <2>3, <2>4, <2>5, <2>6 DEF TurnInv
<1>6. LinesInv'
  <2>1. app.settling => ~app'.busy /\ pending' = <<>>
    BY <1>1
  <2> QED
    BY <1>1, <2>1, LinesStay DEF SameText
<1> QED
  BY <1>4, <1>5, <1>6 DEF AppInv

\* It goes on, and leaves the machine at rest.
LEMMA DeskGoesKeeps ==
  ASSUME AppInv, IInv', DeskGoes
  PROVE  AppInv'
<1>1. /\ pc[Desk] = "cancelling" /\ state' \in {state, "Idle"}
      /\ pc' \in {pc, [pc EXCEPT ![Desk] = "away"]}
      /\ UNCHANGED <<interrupted, pending, app, outcomes, lines, responses, stopped>>
      /\ unread' \in {unread, Min({Behind, unread + 1})}
  BY DEF DeskGoes, Cancelling, CancelRecord, CancelEnd, machine
<1>2. app.phase = "open" /\ ~app.busy /\ state = "Executing"
  BY <1>1, KernelShown DEF AppInv, TurnInv, TaskShown, IInv, CallsKept, OneDriver
<1>3. app.task = "none" /\ Ends = {}
  BY <1>2 DEF AppInv, TurnInv, EndShown
<1>4. Ends' = {} /\ unread' \in 0..Behind
  BY <1>1, <1>3, OutcomesKept, OneMoreUnread, AppTypes DEF AppInv
<1>5. AppTypeOK'
  BY <1>1, <1>4 DEF AppInv, AppTypeOK
<1>6. TurnInv'
  <2>1. pc'[Task] = pc[Task] /\ pc'[Desk] \in {"away", "cancelling"}
    BY <1>1, KernelShown DEF AppInv
  <2>2. TaskShown'
    BY <1>1, <1>2, <1>3, <2>1 DEF AppInv, TurnInv, TaskShown
  <2>3. EndShown'
    BY <1>1, <1>2, <1>3, <1>4 DEF EndShown
  <2>4. ChargesShown'
    BY <1>1, <1>2 DEF AppInv, TurnInv, ChargesShown
  <2>5. StopsShown'
    BY <1>1, <1>2 DEF AppInv, TurnInv, StopsShown
  <2>6. (interrupted' => stopped') /\ OutcomeShown' /\ WaitShown' /\ CarriedOn' /\ LeftShown'
    BY <1>1, <1>2, <1>4 DEF AppInv, TurnInv, OutcomeShown, WaitShown, CarriedOn, LeftShown
  <2> QED
    BY <2>2, <2>3, <2>4, <2>5, <2>6 DEF TurnInv
<1>7. LinesInv'
  <2>1. app.settling => ~app'.busy /\ pending' = <<>>
    BY <1>1, <1>2, SettledStays
  <2> QED
    BY <1>1, <1>2, <2>1, LinesStay DEF SameText
<1> QED
  BY <1>5, <1>6, <1>7 DEF AppInv

\* A question is answered; the last one carries the turn on, unless it is one of a step
\* or of a turn that is there still.
LEMMA AnswerKeeps ==
  ASSUME AppInv, IInv', NEW k \in DOMAIN pending, NEW grant \in {"allow", "deny"},
         Answer(k, grant)
  PROVE  AppInv'
<1>1. /\ app.phase = "open" /\ pc[Desk] = "away" /\ pending[k].grant = "ask"
      /\ pending' = [pending EXCEPT ![k].grant = grant] /\ state' = StateFor(pending')
      /\ app' = IF Open(pending') \/ app.stepping THEN app ELSE Launch(app, FALSE)
      /\ unread' = Min({Behind, unread + 1})
      /\ UNCHANGED <<interrupted, pc, turning, outcomes, lines, responses, stopped>>
  BY DEF Answer, Decide, Selecting, AtTop, loop
<1>2. state = "Deciding" /\ pending # <<>>
  BY <1>1, KernelShown DEF AppInv, Open
<1>3. state' = IF Open(pending') THEN "Deciding" ELSE "Ready"
  <2>1. pending' # <<>>
    BY <1>1, <1>2, KernelShown DEF AppInv
  <2> QED
    BY <1>1, <2>1 DEF StateFor, Open
<1>4. /\ app' \in Apps(DOMAIN lines)
      /\ SameText(app, app') /\ SameOut(app, app') /\ SameMoney(app, app')
      /\ SameLeaving(app, app')
      /\ \/ /\ SameTurn(app, app')
            /\ Open(pending') \/ app'.stepping \/ app'.busy \/ app'.overspent
         \/ Launched(app, app')
  <2>1. app \in Apps(DOMAIN lines)
    BY DEF AppInv, AppTypeOK
  <2>2. CASE Open(pending') \/ app.stepping
    BY <1>1, <2>1, <2>2 DEF SameText, SameOut, SameMoney, SameLeaving, SameTurn
  <2>3. CASE ~(Open(pending') \/ app.stepping)
    <3> DEFINE stepping == FALSE
    <3>1. stepping \in BOOLEAN /\ app' = Launch(app, stepping)
      BY <1>1, <2>3
    <3> HIDE DEF stepping
    <3>2. app' \in Apps(DOMAIN lines)
      BY <2>1, <3>1, LaunchApp
    <3>3. /\ SameText(app, app') /\ SameOut(app, app') /\ SameMoney(app, app')
          /\ SameLeaving(app, app')
          /\ IF app.busy \/ app.overspent THEN SameTurn(app, app') ELSE Launched(app, app')
      BY <2>1, <3>1, LaunchShown
    <3> QED
      BY <3>2, <3>3 DEF SameTurn, SameMoney
  <2> QED
    BY <2>2, <2>3
<1>5. Ends' = Ends /\ unread' \in 0..Behind /\ unread' > 0
  BY <1>1, OutcomesKept, OneMoreUnread, AppTypes DEF AppInv
<1>6. AppTypeOK'
  BY <1>1, <1>4, <1>5 DEF AppInv, AppTypeOK
<1>7. app'.phase = "open" /\ (Launched(app, app') =>
        app.task = "none" /\ Ends = {} /\ pc[Task] = "away")
  BY <1>1, <1>4, BetweenTurns DEF Launched, SameLeaving
<1>8. TaskShown'
  BY <1>1, <1>2, <1>4, <1>7 DEF AppInv, TurnInv, TaskShown, SameTurn, Launched
<1>9. EndShown'
  BY <1>1, <1>4, <1>5, <1>7 DEF AppInv, TurnInv, EndShown, SameTurn, Launched
<1>10. ChargesShown'
  BY <1>1, <1>4, <1>5, <1>7 DEF AppInv, TurnInv, ChargesShown, SameTurn, SameMoney, Launched
<1>11. StopsShown'
  BY <1>1, <1>4, <1>7 DEF AppInv, TurnInv, StopsShown, SameTurn, SameMoney, Launched
<1>12. OutcomeShown'
  <2>1. OutcomeShown
    BY <1>1 DEF AppInv, TurnInv
  <2> QED
    BY <1>1, <1>2, <1>3, <1>4, <1>5, <1>7, <2>1 DEF OutcomeShown, SameTurn
<1>13. CarriedOn'
  BY <1>3, <1>4 DEF CarriedOn, Launched
<1>14. (interrupted' => stopped') /\ WaitShown' /\ LeftShown'
  BY <1>1, <1>7 DEF AppInv, TurnInv, WaitShown, LeftShown
<1>15. LinesInv'
  <2>1. ~app.settling
    BY <1>1, <1>2 DEF AppInv, LinesInv, OutShown
  <2> QED
    BY <1>1, <1>4, <1>7, <2>1, LinesStay DEF SameOut
<1> QED
  BY <1>6, <1>8, <1>9, <1>10, <1>11, <1>12, <1>13, <1>14, <1>15 DEF AppInv, TurnInv

\* The turn's task begins, or spends the stop that was left standing.
LEMMA TaskStartsKeeps ==
  ASSUME AppInv, IInv', TaskStarts
  PROVE  AppInv'
<1>1. /\ \/ app.task = "spawned"
         \/ app.task = "spending"
      /\ \/ /\ app.task = "spawned" /\ interrupted /\ state = "Finished"
            /\ app' = [app EXCEPT !.task = "spending"] /\ pc' = [pc EXCEPT ![Task] = "stepping"]
         \/ /\ app' = [app EXCEPT !.task = "driving"]
            /\ \/ /\ app.stepping /\ pc' = [pc EXCEPT ![Task] = "stepping"]
                  /\ turning' = [turning EXCEPT ![Task] = FALSE]
               \/ /\ ~app.stepping /\ pc' = [pc EXCEPT ![Task] = "looking"]
                  /\ turning' = [turning EXCEPT ![Task] = TRUE]
      /\ UNCHANGED <<state, pending, interrupted, outcomes, unread, lines, responses, stopped>>
  BY DEF TaskStarts, StepStart, TurnStart, machine
<1>2. app \in Apps(DOMAIN lines)
  BY DEF AppInv, AppTypeOK
<1>3. /\ app' \in Apps(DOMAIN lines) /\ SameText(app, app') /\ SameOut(app, app')
      /\ SameMoney(app, app') /\ SameLeaving(app, app') /\ app'.busy = app.busy
      /\ app'.stepping = app.stepping /\ app'.interrupting = app.interrupting
      /\ app'.task \in {"spending", "driving"}
      /\ app'.task = "spending" =>
           app.task = "spawned" /\ interrupted /\ state = "Finished" /\ pc'[Task] = "stepping"
      /\ app'.task = "driving" => turning'[Task] = ~app'.stepping
      /\ pc'[Task] \in {"looking", "stepping"} /\ pc'[Desk] = pc[Desk]
  <2>1. pc \in [Drivers -> Places] /\ turning \in [Drivers -> BOOLEAN] /\ Task \in Drivers
        /\ Task # Desk /\ Desk \in Drivers
    BY KernelShown DEF AppInv
  <2>2. CASE /\ app.task = "spawned" /\ interrupted /\ state = "Finished"
             /\ app' = [app EXCEPT !.task = "spending"]
             /\ pc' = [pc EXCEPT ![Task] = "stepping"]
    BY <1>2, <2>1, <2>2 DEF Apps, SameText, SameOut, SameMoney, SameLeaving
  <2>3. CASE /\ app' = [app EXCEPT !.task = "driving"]
             /\ \/ /\ app.stepping /\ pc' = [pc EXCEPT ![Task] = "stepping"]
                   /\ turning' = [turning EXCEPT ![Task] = FALSE]
                \/ /\ ~app.stepping /\ pc' = [pc EXCEPT ![Task] = "looking"]
                   /\ turning' = [turning EXCEPT ![Task] = TRUE]
    <3>1. app.stepping \in BOOLEAN
      BY AppTypes DEF AppInv
    <3>2. app' \in Apps(DOMAIN lines) /\ app'.task = "driving" /\ app'.stepping = app.stepping
      BY <1>2, <2>3 DEF Apps
    <3>3. turning'[Task] = ~app'.stepping
      BY <2>1, <2>3, <3>1, <3>2
    <3>4. pc'[Task] \in {"looking", "stepping"} /\ pc'[Desk] = pc[Desk]
      BY <2>1, <2>3
    <3>5. /\ SameText(app, app') /\ SameOut(app, app') /\ SameMoney(app, app')
          /\ SameLeaving(app, app') /\ app'.busy = app.busy
          /\ app'.interrupting = app.interrupting
      BY <1>2, <2>3 DEF Apps, SameText, SameOut, SameMoney, SameLeaving
    <3> QED
      BY <3>2, <3>3, <3>4, <3>5
  <2> QED
    BY <1>1, <2>2, <2>3
<1>4. AppTypeOK'
  BY <1>1, <1>3 DEF AppInv, AppTypeOK
<1>5. TaskShown'
  BY <1>1, <1>3 DEF AppInv, TurnInv, TaskShown, SameLeaving
<1>6. LeftShown' /\ (interrupted' => stopped')
  BY <1>1, <1>3 DEF AppInv, TurnInv, LeftShown, SameLeaving
<1>7. ASSUME app.phase # "left"
      PROVE  EndShown' /\ ChargesShown' /\ StopsShown' /\ OutcomeShown' /\ WaitShown'
  <2>1. Ends = {} /\ app.busy
    BY <1>1, <1>7 DEF AppInv, TurnInv, EndShown
  <2>2. Ends' = {}
    BY <1>1, <2>1, OutcomesKept DEF AppInv
  <2>3. EndShown' /\ OutcomeShown'
    BY <1>3, <2>1, <2>2 DEF EndShown, OutcomeShown
  <2>4. app.charged = responses
    BY <1>1, <1>7 DEF AppInv, TurnInv, ChargesShown
  <2>5. ChargesShown'
    BY <1>1, <1>3, <1>7, <2>4 DEF AppInv, TurnInv, ChargesShown, SameMoney
  <2>6. StopsShown'
    BY <1>1, <1>3, <1>7 DEF AppInv, TurnInv, StopsShown, SameMoney
  <2>7. WaitShown'
    BY <1>3, <1>7, <2>2 DEF AppInv, TurnInv, WaitShown, SameLeaving
  <2> QED
    BY <2>3, <2>5, <2>6, <2>7
<1>8. app'.phase = "open" => CarriedOn'
  BY <1>1, <1>3, <1>7 DEF CarriedOn, SameLeaving, AppInv, TurnInv, EndShown
<1>9. LinesInv'
  <2>1. app.phase = "open" /\ app.settling => ~app'.busy /\ pending' = <<>>
    BY <1>1, <1>3, SettledStays
  <2> QED
    BY <1>1, <1>3, <2>1, LinesStay DEF SameOut, SameLeaving
<1> QED
  BY <1>3, <1>4, <1>5, <1>6, <1>7, <1>8, <1>9 DEF AppInv, TurnInv, SameLeaving

---------------------------------------------------------------------------
(* The kernel under the task.                                              *)

\* What a step of the kernel under the task may come to.
Moved ==
  /\ pc[Task] # "away" /\ pc'[Task] # "cancelling" /\ pc'[Desk] = pc[Desk]
  /\ UNCHANGED turning
  /\ interrupted' => interrupted
  /\ interrupted => interrupted' \/ pc'[Task] = "away"
  /\ Claims => ~interrupted
  /\ pc'[Task] = "away" => state' \in Resting
  /\ Failed => state' = "Idle"
  /\ pc'[Task] = "away" /\ state' = "Ready" => interrupted \/ ~turning[Task]
  /\ pc[Task] = "stepping" /\ interrupted => pc'[Task] = "away" /\ UNCHANGED state
  /\ pc[Task] = "looking" /\ state = "Ready" =>
       pc'[Task] = "stepping" /\ UNCHANGED <<state, interrupted>>

\* The task is the only one that drives.
LEMMA TaskAlone ==
  ASSUME AppInv, app.task \in {"spending", "driving"}
  PROVE  /\ pc[Desk] = "away" /\ pc[Task] # "cancelling"
         /\ pc[Task] \notin Owning => state \in Resting
         /\ app.phase # "left" => app.busy /\ Ends = {}
<1>1. app.phase # "left" => app.busy /\ Ends = {}
  BY DEF AppInv, TurnInv, EndShown
<1>2. pc[Desk] = "away" /\ pc[Task] # "cancelling"
  BY <1>1 DEF AppInv, TurnInv, TaskShown
<1>3. pc[Desk] \notin Owning
  BY <1>2 DEF Owning
<1> QED
  BY <1>1, <1>2, <1>3, KernelShown DEF AppInv

\* The heads of turn and step_once.
LEMMA StepMoves ==
  ASSUME AppInv, app.task \in {"spending", "driving"},
         ~(pc[Task] = "stepping" /\ pc'[Task] = "away" /\ ~interrupted /\ state # "Deciding"),
         TurnLook(Task) \/ StepBusy(Task) \/ StepAcknowledge(Task) \/ StepNothing(Task)
  PROVE  Moved
<1>1. /\ Task \in Drivers /\ Desk \in Drivers /\ Task # Desk /\ interrupted \in BOOLEAN
      /\ pc \in [Drivers -> Places]
      /\ pc[Task] \notin Owning => state \in Resting
  BY KernelShown, TaskAlone DEF AppInv
<1>2. CASE TurnLook(Task)
  <2>1. /\ pc[Task] = "looking" /\ UNCHANGED <<state, interrupted, turning>>
        /\ \/ pc' = [pc EXCEPT ![Task] = "stepping"]
           \/ pc' = [pc EXCEPT ![Task] = "away"] /\ state \in {"Idle", "Finished"}
    BY <1>2 DEF TurnLook, machine
  <2>2. /\ pc'[Desk] = pc[Desk]
        /\ \/ pc'[Task] = "stepping"
           \/ pc'[Task] = "away" /\ state \in {"Idle", "Finished"}
    BY <1>1, <2>1
  <2> QED
    BY <2>1, <2>2 DEF Moved, Claims, Failed, Awaiting, Resting
<1>3. CASE StepBusy(Task)
  BY <1>1, <1>3 DEF StepBusy, Owning
<1>4. CASE StepAcknowledge(Task)
  <2>1. /\ pc[Task] = "stepping" /\ state \in Resting /\ interrupted /\ ~interrupted'
        /\ pc' = [pc EXCEPT ![Task] = "away"] /\ UNCHANGED <<state, turning>>
    BY <1>4 DEF StepAcknowledge, machine, loop
  <2>2. pc'[Desk] = pc[Desk] /\ pc'[Task] = "away"
    BY <1>1, <2>1
  <2> QED
    BY <2>1, <2>2 DEF Moved, Claims, Failed, Awaiting
<1>5. CASE StepNothing(Task)
  <2>1. /\ pc[Task] = "stepping" /\ ~interrupted
        /\ pc' = [pc EXCEPT ![Task] = "away"] /\ UNCHANGED <<state, turning, interrupted>>
    BY <1>5 DEF StepNothing, machine, loop
  <2>2. pc'[Desk] = pc[Desk] /\ pc'[Task] = "away"
    BY <1>1, <2>1
  <2>3. state = "Deciding"
    BY <2>1, <2>2
  <2> QED
    BY <2>1, <2>2, <2>3 DEF Moved, Claims, Failed, Awaiting, Resting
<1> QED
  BY <1>2, <1>3, <1>4, <1>5

\* Where a driver goes on to once the machine is left at rest.
LEMMA GoesOnward ==
  ASSUME NEW to \in {"Idle", "Deciding", "Ready"}
  PROVE  /\ Onward(Task, to) \in {"away", "looking"}
         /\ Onward(Task, to) = "away" => to = "Deciding" \/ ~turning[Task]
  BY DEF Onward

\* A request, from its claim to the calls that are queued.
LEMMA RequestMoves ==
  ASSUME AppInv, Request(Task)
  PROVE  Moved
<1>1. /\ Task \in Drivers /\ Desk \in Drivers /\ Task # Desk /\ interrupted \in BOOLEAN
      /\ pc \in [Drivers -> Places]
  BY KernelShown DEF AppInv
<1>2. CASE ClaimRequest(Task)
  <2>1. /\ pc[Task] = "stepping" /\ ~interrupted
        /\ pc' = [pc EXCEPT ![Task] = "requesting"] /\ UNCHANGED <<interrupted, turning>>
    BY <1>2 DEF ClaimRequest, loop
  <2>2. pc'[Desk] = pc[Desk] /\ pc'[Task] = "requesting"
    BY <1>1, <2>1
  <2> QED
    BY <2>1, <2>2 DEF Moved, Claims, Failed
<1>3. ASSUME NEW n \in 0..MaxBatch, Respond(Task, n)
      PROVE  Moved
  <2>1. /\ pc[Task] = "requesting"
        /\ \/ pc' = [pc EXCEPT ![Task] = "concluding"]
           \/ pc' = [pc EXCEPT ![Task] = "preparing"]
        /\ UNCHANGED <<interrupted, turning>>
    BY <1>3 DEF Respond, loop
  <2>2. pc'[Desk] = pc[Desk] /\ pc'[Task] \in {"concluding", "preparing"}
    BY <1>1, <2>1
  <2> QED
    BY <2>1, <2>2 DEF Moved, Claims, Failed
<1>4. CASE Conclude(Task)
  <2>1. /\ pc[Task] = "concluding" /\ state' = "Finished" /\ ~interrupted'
        /\ pc' = [pc EXCEPT ![Task] = "away"] /\ UNCHANGED turning
    BY <1>4 DEF Conclude, Onward, loop
  <2>2. pc'[Desk] = pc[Desk] /\ pc'[Task] = "away"
    BY <1>1, <2>1
  <2> QED
    BY <2>1, <2>2 DEF Moved, Claims, Failed, Awaiting, Resting
<1>5. CASE Refuse(Task) \/ \E grant \in {"allow", "deny", "ask"} : Evaluate(Task, grant)
  <2>1. /\ pc[Task] = "preparing" /\ UNCHANGED <<pc, interrupted, turning>>
    BY <1>5 DEF Refuse, Evaluate, loop
  <2> QED
    BY <2>1 DEF Moved, Claims, Failed
<1>6. CASE Queue(Task)
  <2>1. /\ pc[Task] = "preparing" /\ next > asked
        /\ state' = StateFor(hands[Task])
        /\ pc' = [pc EXCEPT ![Task] = Onward(Task, state')]
        /\ UNCHANGED <<interrupted, turning>>
    BY <1>6 DEF Queue, loop
  <2>2. state' \in {"Idle", "Deciding", "Ready"}
    BY <2>1 DEF StateFor
  <2>3. pc'[Desk] = pc[Desk] /\ pc'[Task] = Onward(Task, state')
    BY <1>1, <2>1
  <2>4. /\ pc'[Task] \in {"away", "looking"}
        /\ pc'[Task] = "away" => state' = "Deciding" \/ ~turning[Task]
    BY <2>2, <2>3, GoesOnward
  <2>5. ~Awaiting(Task)
    <3>1. next \in Int /\ asked \in Int
      BY DEF AppInv, IInv, CallsKept, TypeOK
    <3> QED
      BY <2>1, <3>1 DEF Awaiting
  <2> QED
    BY <2>1, <2>2, <2>3, <2>4, <2>5 DEF Moved, Claims, Failed, Resting
<1> QED
  BY <1>2, <1>3, <1>4, <1>5, <1>6 DEF Request

\* The calls, from their claim to the end.
LEMMA ExecuteMoves ==
  ASSUME AppInv, Execute(Task)
  PROVE  Moved
<1>1. /\ Task \in Drivers /\ Desk \in Drivers /\ Task # Desk /\ interrupted \in BOOLEAN
      /\ pc \in [Drivers -> Places]
  BY KernelShown DEF AppInv
<1>2. CASE ClaimCalls(Task)
  <2>1. /\ pc[Task] = "stepping" /\ ~interrupted
        /\ pc' = [pc EXCEPT ![Task] = "executing"] /\ UNCHANGED <<interrupted, turning>>
    BY <1>2 DEF ClaimCalls, loop
  <2>2. pc'[Desk] = pc[Desk] /\ pc'[Task] = "executing"
    BY <1>1, <2>1
  <2> QED
    BY <2>1, <2>2 DEF Moved, Claims, Failed
<1>3. CASE \/ \E k \in DOMAIN hands[Task] : Invoke(Task, k) \/ ToolReturns(Task, k)
           \/ RecordOutput(Task)
  <2>1. pc[Task] = "executing" /\ UNCHANGED <<pc, interrupted, turning>>
    BY <1>3 DEF Invoke, ToolReturns, RecordOutput, loop
  <2> QED
    BY <2>1 DEF Moved, Claims, Failed
<1>4. CASE EndCalls(Task)
  <2> DEFINE to == "Idle"
  <2>1. /\ pc[Task] = "executing" /\ hands[Task] = <<>> /\ state' = to
        /\ pc' = [pc EXCEPT ![Task] = Onward(Task, to)] /\ UNCHANGED <<interrupted, turning>>
    BY <1>4 DEF EndCalls, loop
  <2>2. pc'[Desk] = pc[Desk] /\ pc'[Task] = Onward(Task, to)
    BY <1>1, <2>1
  <2>3. to = "Idle" /\ pc'[Task] \in {"away", "looking"}
    BY <2>2, GoesOnward
  <2>4. ~Awaiting(Task)
    BY <2>1 DEF Awaiting
  <2> HIDE DEF to
  <2> QED
    BY <2>1, <2>2, <2>3, <2>4 DEF Moved, Claims, Failed, Resting
<1> QED
  BY <1>2, <1>3, <1>4 DEF Execute

\* Whatever the kernel does under the task.
LEMMA TaskMoves ==
  ASSUME AppInv, TaskGoes
  PROVE  Moved
<1>1. /\ app.task \in {"spending", "driving"} /\ GoesOn(Task)
      /\ ~(pc[Task] = "stepping" /\ pc'[Task] = "away" /\ ~interrupted /\ state # "Deciding")
  BY DEF TaskGoes
<1>2. CASE TurnLook(Task) \/ StepBusy(Task) \/ StepAcknowledge(Task) \/ StepNothing(Task)
  BY <1>1, <1>2, StepMoves
<1>3. CASE Cancelling(Task)
  BY <1>1, <1>3, TaskAlone DEF Cancelling, CancelRecord, CancelEnd
<1>4. CASE Abandon(Task)
  <2>1. /\ pc[Task] \in {"requesting", "preparing", "executing"}
        /\ ~interrupted' /\ state' = "Idle"
        /\ pc' = [pc EXCEPT ![Task] = "away"] /\ UNCHANGED turning
    BY <1>4 DEF Abandon, Awaiting, loop
  <2>2. pc'[Desk] = pc[Desk] /\ pc'[Task] = "away"
    BY <2>1, KernelShown DEF AppInv
  <2> QED
    BY <2>1, <2>2 DEF Moved, Claims, Resting
<1> QED
  BY <1>1, <1>2, <1>3, <1>4, RequestMoves, ExecuteMoves DEF GoesOn

\* The outcome of a turn that ends says what became of it.
TurnOutcome ==
  [how |-> IF Failed THEN "failed" ELSE IF turning[Task] THEN "stopped" ELSE "stepped",
   state |-> state']

\* The task ends with this step, or it does not.
EndsNow ==
  /\ pc'[Task] = "away" /\ app.task = "driving"
  /\ app' = [app EXCEPT !.task = "none"] /\ outcomes' = Append(outcomes, TurnOutcome)
EndsLater ==
  /\ ~(pc'[Task] = "away" /\ app.task = "driving")
  /\ UNCHANGED <<app, outcomes>>

\* What the step is to the loop: an event, a response, an outcome.
LEMMA TaskStep ==
  ASSUME AppInv, TaskGoes
  PROVE  /\ ~(app.phase = "left" /\ app.leaving \in {"now", "late"})
         /\ app.task \in {"spending", "driving"}
         /\ EndsNow \/ EndsLater
         /\ unread' \in 0..Behind /\ (unread > 0 \/ Answers => unread' > 0)
         /\ responses' = IF Answers THEN responses + 1 ELSE responses
         /\ stopped' = (stopped /\ ~Claims) /\ stopped' \in BOOLEAN
         /\ UNCHANGED lines
<1>1. unread \in 0..Behind
  BY AppTypes DEF AppInv
<1>2. \/ unread' = Min({Behind, unread + 1})
      \/ unread' = unread /\ ~Answers
  BY DEF TaskGoes
<1>3. unread' \in 0..Behind /\ (unread > 0 \/ Answers => unread' > 0)
  BY <1>1, <1>2, OneMoreUnread
<1>4. EndsNow \/ EndsLater
  BY DEF TaskGoes, EndsNow, EndsLater, TurnOutcome
<1> QED
  BY <1>3, <1>4 DEF TaskGoes

\* It leaves what is the App's alone, but for the task that is gone.
LEMMA TaskLeavesApp ==
  ASSUME AppInv, TaskGoes
  PROVE  /\ AppTypeOK'
         /\ SameText(app, app') /\ SameOut(app, app') /\ SameMoney(app, app')
         /\ SameLeaving(app, app') /\ app'.busy = app.busy
         /\ app'.stepping = app.stepping /\ app'.interrupting = app.interrupting
         /\ ReturnsKept(0)
         /\ \/ /\ EndsNow /\ app'.task = "none"
               /\ \A k \in Ends' : k \in Ends \/ outcomes'[k] = TurnOutcome
               /\ \E k \in Ends' : Ends' = Ends \cup {k}
            \/ EndsLater /\ app'.task = app.task /\ Ends' = Ends
<1>1. /\ app \in Apps(DOMAIN lines) /\ outcomes \in Seq(Outcomes(DOMAIN lines))
      /\ responses \in Nat /\ UNCHANGED lines
      /\ EndsNow \/ EndsLater
      /\ unread' \in 0..Behind /\ stopped' \in BOOLEAN
      /\ responses' = IF Answers THEN responses + 1 ELSE responses
  BY AppTypes, TaskStep DEF AppInv, AppTypeOK
<1>2. responses' \in Nat
  BY <1>1
<1>3. CASE EndsNow
  <2>1. TurnOutcome \in Outcomes(DOMAIN lines) /\ TurnOutcome.how # "returned"
    <3>1. state' \in Resting
      BY <1>3, TaskMoves DEF Moved, EndsNow
    <3> QED
      BY <3>1 DEF TurnOutcome, Outcomes
  <2>2. /\ outcomes' \in Seq(Outcomes(DOMAIN lines))
        /\ \A k \in DOMAIN outcomes : k \in Int /\ outcomes'[k] = outcomes[k]
        /\ \E last \in Nat :
             /\ DOMAIN outcomes' = DOMAIN outcomes \cup {last} /\ last \notin DOMAIN outcomes
             /\ outcomes'[last] = TurnOutcome
             /\ Ends' = Ends \cup {last} /\ Returns' = Returns
    BY <1>3, <2>1, OutcomeSent DEF EndsNow, AppInv
  <2>3. /\ app' \in Apps(DOMAIN lines)
        /\ SameText(app, app') /\ SameOut(app, app') /\ SameMoney(app, app')
        /\ SameLeaving(app, app') /\ app'.busy = app.busy
        /\ app'.stepping = app.stepping /\ app'.interrupting = app.interrupting
        /\ app'.task = "none"
    BY <1>1, <1>3 DEF EndsNow, Apps, SameText, SameOut, SameMoney, SameLeaving
  <2>4. ReturnsKept(0)
    <3>1. Returns \subseteq DOMAIN outcomes /\ \A k \in Int : k + 0 = k
      BY DEF Returns
    <3> QED
      BY <2>2, <3>1 DEF ReturnsKept
  <2>5. AppTypeOK'
    BY <1>1, <1>2, <2>2, <2>3 DEF AppInv, AppTypeOK
  <2>6. /\ \A k \in Ends' : k \in Ends \/ outcomes'[k] = TurnOutcome
        /\ \E k \in Ends' : Ends' = Ends \cup {k}
    BY <2>2
  <2> QED
    BY <1>3, <2>3, <2>4, <2>5, <2>6
<1>4. CASE EndsLater
  <2>1. ReturnsKept(0) /\ Ends' = Ends /\ app' = app /\ outcomes' = outcomes
    BY <1>4, OutcomesKept DEF EndsLater, AppInv
  <2>2. AppTypeOK'
    BY <1>1, <1>2, <2>1 DEF AppInv, AppTypeOK
  <2> QED
    BY <1>4, <2>1, <2>2 DEF SameText, SameOut, SameMoney, SameLeaving
<1> QED
  BY <1>1, <1>3, <1>4

\* A kernel asked to stop claims nothing: the stop stands, or is spent with the turn.
LEMMA TaskKeepsStop ==
  ASSUME AppInv, TaskGoes
  PROVE  /\ interrupted' => stopped'
         /\ interrupted => stopped' /\ (interrupted' \/ pc'[Task] = "away")
<1>1. interrupted => stopped' /\ (interrupted' \/ pc'[Task] = "away")
  BY TaskStep, TaskMoves DEF Moved, AppInv, TurnInv
<1> QED
  BY <1>1, TaskMoves DEF Moved

\* The kernel goes on under the task, and the task ends with it.
LEMMA TaskGoesKeeps ==
  ASSUME AppInv, IInv', TaskGoes
  PROVE  AppInv'
<1>1. Moved
  BY TaskMoves
<1>2. /\ AppTypeOK'
      /\ SameText(app, app') /\ SameOut(app, app') /\ SameMoney(app, app')
      /\ SameLeaving(app, app') /\ app'.busy = app.busy
      /\ app'.stepping = app.stepping /\ app'.interrupting = app.interrupting
      /\ ReturnsKept(0)
      /\ \/ /\ EndsNow /\ app'.task = "none"
            /\ \A k \in Ends' : k \in Ends \/ outcomes'[k] = TurnOutcome
            /\ \E k \in Ends' : Ends' = Ends \cup {k}
         \/ EndsLater /\ app'.task = app.task /\ Ends' = Ends
  BY TaskLeavesApp
<1>3. /\ ~(app.phase = "left" /\ app.leaving \in {"now", "late"})
      /\ app.task \in {"spending", "driving"}
      /\ unread > 0 \/ Answers => unread' > 0
      /\ responses' = IF Answers THEN responses + 1 ELSE responses
      /\ UNCHANGED lines
  BY TaskStep
<1>4. /\ interrupted' => stopped'
      /\ interrupted => stopped' /\ (interrupted' \/ pc'[Task] = "away")
  BY TaskKeepsStop
<1>5. /\ pc[Desk] = "away" /\ pc'[Desk] = "away"
      /\ app.phase # "left" => app.busy /\ Ends = {}
  BY <1>1, <1>3, TaskAlone DEF Moved
\* A stop that is spent first is spent at once.
<1>6. app.task = "spending" =>
        /\ pc[Task] = "stepping" /\ state = "Finished" /\ interrupted
        /\ pc'[Task] = "away" /\ state' = "Finished"
  BY <1>1 DEF Moved, AppInv, TurnInv, TaskShown
<1>7. TaskShown'
  <2>1. app'.task = "none" => pc'[Task] = "away"
    BY <1>2, <1>3 DEF EndsNow
  <2>2. app'.task = "spending" => app.task = "spending"
    BY <1>2
  <2>3. app'.task = "driving" =>
          pc'[Task] # "away" /\ (turning'[Task] <=> ~app'.stepping)
    BY <1>1, <1>2 DEF EndsLater, Moved, AppInv, TurnInv, TaskShown
  <2>4. app'.task # "spawned" /\ pc'[Task] # "cancelling"
    BY <1>1, <1>2, <1>3 DEF Moved
  <2> QED
    BY <1>5, <1>6, <2>1, <2>2, <2>3, <2>4 DEF TaskShown
<1>8. LeftShown'
  <2>1. SUFFICES ASSUME app'.phase = "left", app'.leaving \notin {"now", "late"},
                        app'.task # "none"
                 PROVE  /\ app'.task \in {"spawned", "driving"}
                        /\ pc'[Task] \in {"away", "looking", "stepping"}
                        /\ interrupted' /\ state' = "Ready"
    BY DEF LeftShown
  <2>2. EndsLater /\ app'.task = app.task
    BY <1>2, <2>1
  <2>3. /\ app.task = "driving" /\ pc[Task] \in {"looking", "stepping"}
        /\ interrupted /\ state = "Ready"
    BY <1>1, <1>2, <1>3, <2>1, <2>2 DEF Moved, SameLeaving, AppInv, TurnInv, LeftShown
  <2>4. pc'[Task] # "away"
    BY <2>2, <2>3 DEF EndsLater
  <2> QED
    BY <1>1, <2>2, <2>3, <2>4 DEF Moved
<1>9. ASSUME app.phase # "left"
      PROVE  EndShown' /\ ChargesShown' /\ StopsShown' /\ OutcomeShown' /\ WaitShown'
  <2>1. EndShown'
    BY <1>2, <1>3, <1>5, <1>9 DEF EndShown
  <2>2. ChargesShown'
    <3>1. /\ app.charged # responses => unread > 0
          /\ app.spent = app.charged /\ app.charged <= responses
          /\ app.limit # 0 /\ app.spent >= app.limit => app.overspent
      BY <1>9 DEF AppInv, TurnInv, ChargesShown
    <3>2. app.charged \in Nat /\ responses \in Nat
      BY AppTypes DEF AppInv
    <3>3. app'.charged <= responses'
      BY <1>2, <1>3, <3>1, <3>2 DEF SameMoney
    <3>4. app'.charged # responses' => unread' > 0
      BY <1>2, <1>3, <3>1 DEF SameMoney
    <3>5. app'.charged # responses' => app'.task \notin {"spawned", "spending"}
      <4>1. app.task = "spending" => ~Answers
        BY <1>6 DEF Answers
      <4>2. app.task = "spending" => app.charged = responses
        BY <1>9 DEF AppInv, TurnInv, ChargesShown
      <4> QED
        BY <1>2, <1>3, <4>1, <4>2 DEF SameMoney
    <3> QED
      BY <1>2, <1>5, <1>9, <3>1, <3>3, <3>4, <3>5 DEF ChargesShown, SameMoney
  <2>3. StopsShown'
    BY <1>2, <1>3, <1>4, <1>9
    DEF AppInv, TurnInv, StopsShown, SameMoney, EndsNow, EndsLater
  <2>4. ASSUME NEW k \in Ends'
        PROVE  EndsNow /\ outcomes'[k] = TurnOutcome
    BY <1>2, <1>5, <1>9
  <2>5. OutcomeShown'
    <3>1. SUFFICES ASSUME EndsNow
                   PROVE  /\ Failed => state' = "Idle"
                          /\ turning[Task] <=> ~app'.stepping
                          /\ state' = "Ready" => app'.stepping \/ stopped'
      <4>1. ASSUME NEW k \in Ends'
            PROVE  /\ outcomes'[k].how = "failed" => Failed
                   /\ outcomes'[k].how = "stepped" => ~turning[Task]
                   /\ outcomes'[k].how = "stopped" => turning[Task]
                   /\ outcomes'[k].state = state'
        BY <2>4, <4>1 DEF TurnOutcome
      <4> QED
        BY <2>4, <3>1, <4>1 DEF OutcomeShown
    <3>2. turning[Task] <=> ~app'.stepping
      BY <1>2, <3>1 DEF EndsNow, AppInv, TurnInv, TaskShown
    <3> QED
      BY <1>1, <1>4, <3>1, <3>2 DEF Moved, EndsNow
  <2>6. WaitShown'
    <3>1. \A k \in Ends' : outcomes'[k].state = state'
      BY <2>4 DEF TurnOutcome
    <3> QED
      BY <1>2, <1>9, <3>1 DEF AppInv, TurnInv, WaitShown, SameLeaving
  <2> QED
    BY <2>1, <2>2, <2>3, <2>5, <2>6
<1>10. app'.phase = "open" => CarriedOn'
  BY <1>2, <1>5 DEF CarriedOn, SameLeaving
<1>11. LinesInv'
  <2>1. app.phase = "open" => ~app.settling
    BY <1>5 DEF AppInv, LinesInv, OutShown
  <2> QED
    BY <1>2, <1>3, <2>1, LinesKept DEF SameOut, SameLeaving
<1> QED
  BY <1>2, <1>4, <1>7, <1>8, <1>9, <1>10, <1>11 DEF AppInv, TurnInv, SameLeaving

---------------------------------------------------------------------------
(* The invariant, and what follows from it.                                *)

\* A session begins with nothing out, nothing running and nothing said.
LEMMA AppInitHolds ==
  ASSUME AppInit
  PROVE  AppInv
<1>1. /\ app = [busy |-> FALSE, stepping |-> FALSE, interrupting |-> FALSE, task |-> "none",
                ahead |-> <<>>, held |-> <<>>, entered |-> <<>>, unsent |-> <<>>,
                errand |-> 0, settling |-> FALSE, away |-> {},
                spent |-> 0, charged |-> 0, limit |-> Limit, overspent |-> FALSE,
                leaving |-> "no", phase |-> "open"]
      /\ outcomes = <<>> /\ unread = 0
      /\ lines = <<>> /\ responses = 0 /\ stopped = FALSE
      /\ state = "Idle" /\ pending = <<>> /\ interrupted = FALSE
      /\ pc[Task] = "away" /\ pc[Desk] = "away"
  BY ApplicationAssumption DEF AppInit, Init
<1>2. IInv
  BY InitHolds DEF AppInit
<1>3. DOMAIN lines = {} /\ Ends = {} /\ Returns = {} /\ Messages = {} /\ ToSet(<<>>) = {}
  BY <1>1 DEF Ends, Returns, Messages, ToSet
<1>4. AppTypeOK
  <2>1. lines \in Seq(Kinds) /\ outcomes \in Seq(Outcomes(DOMAIN lines))
    BY <1>1
  <2>2. app \in Apps(DOMAIN lines)
    BY <1>1, ApplicationAssumption DEF Apps
  <2>3. unread \in 0..Behind /\ responses \in Nat /\ stopped \in BOOLEAN
    <3>1. 0 \in 0..Behind
      BY ApplicationAssumption
    <3> QED
      BY <1>1, <3>1
  <2> QED
    BY <2>1, <2>2, <2>3 DEF AppTypeOK
<1>5. TaskShown /\ LeftShown /\ EndShown /\ OutcomeShown /\ WaitShown /\ StopsShown /\ CarriedOn
  BY <1>1, <1>3
  DEF TaskShown, LeftShown, EndShown, OutcomeShown, WaitShown, StopsShown, CarriedOn
<1>6. ChargesShown
  BY <1>1, ApplicationAssumption DEF ChargesShown
<1>7. PlacesShown
  BY <1>1, <1>3 DEF PlacesShown, Placed, Orderly, Before
<1>8. OutShown /\ HeldShown
  BY <1>1, <1>3 DEF OutShown, HeldShown, Switches, Orderly, Before
<1> QED
  BY <1>1, <1>2, <1>4, <1>5, <1>6, <1>7, <1>8 DEF AppInv, TurnInv, LinesInv

\* Every action keeps the invariant.
LEMMA AppNextKeeps == AppInv /\ [AppNext]_<<vars, application>> => AppInv'
<1> SUFFICES ASSUME AppInv, [AppNext]_<<vars, application>>
             PROVE  AppInv'
  OBVIOUS
<1>1. IInv'
  BY ApplicationStep, NextKeeps DEF AppInv
<1>2. CASE Loop
  <2>1. CASE Release \/ HandIn \/ Stop \/ DropCalls \/ RaiseCeiling \/ Hear
    BY <1>1, <2>1, ReleaseKeeps, HandInKeeps, StopKeeps, DropCallsKeeps, RaiseCeilingKeeps,
       HearKeeps
  <2>2. CASE TakeOutcome \/ Press \/ Quit \/ Leave \/ WaitOutcome \/ Deadline
    BY <1>1, <2>2, TakeOutcomeKeeps, PressKeeps, QuitKeeps, LeaveKeeps, WaitOutcomeKeeps,
       DeadlineKeeps
  <2>3. CASE \E k \in DOMAIN pending, g \in {"allow", "deny"} : Answer(k, g)
    BY <1>1, <2>3, AnswerKeeps
  <2> QED
    BY <1>2, <2>1, <2>2, <2>3 DEF Loop
<1>3. CASE Tasks
  BY <1>1, <1>3, TaskStartsKeeps, TaskGoesKeeps, DeskGoesKeeps, ReturnKeeps DEF Tasks
<1>4. CASE UNCHANGED <<vars, application>>
  <2>1. /\ UNCHANGED <<app, outcomes, unread, lines, responses, stopped>>
        /\ UNCHANGED <<state, pending, interrupted, pc, turning>>
    BY <1>4 DEF application, vars, machine, loop
  <2>2. Ends' = Ends /\ Returns' = Returns /\ Messages' = Messages
    BY <2>1 DEF Ends, Returns, Messages
  <2>3. AppTypeOK'
    BY <2>1 DEF AppInv, AppTypeOK
  <2>4. TurnInv'
    BY <2>1, <2>2
    DEF AppInv, TurnInv, TaskShown, LeftShown, EndShown, ChargesShown, StopsShown,
        OutcomeShown, WaitShown, CarriedOn
  <2>5. LinesInv'
    BY <2>1, <2>2 DEF AppInv, LinesInv, PlacesShown, OutShown, HeldShown, Switches
  <2> QED
    BY <1>1, <2>3, <2>4, <2>5 DEF AppInv
<1> QED
  BY <1>2, <1>3, <1>4 DEF AppNext

\* Whatever is handed in, answered, stopped or left, and however far the loop is behind
\* the kernel, AppInv holds.
THEOREM ApplicationInvariant == AppSpec => []AppInv
  BY AppInitHolds, AppNextKeeps, PTL DEF AppSpec

\* What runs the App knows of, and it knows of nothing that does not.
THEOREM RunsAsShown == AppSpec => []BusyAsShown
<1>1. ASSUME AppInv
      PROVE  BusyAsShown
  <2>1. ASSUME app.phase # "left"
        PROVE  Cardinality(Ends) + (IF app.task = "none" THEN 0 ELSE 1)
                 = (IF app.busy THEN 1 ELSE 0)
    <3>1. EndShown
      BY <1>1, <2>1 DEF AppInv, TurnInv
    <3>2. CASE Ends = {}
      BY <3>1, <3>2, FS_EmptySet DEF EndShown
    <3>3. CASE Ends # {}
      <4>1. PICK k \in Ends : Ends = {k}
        BY <3>1, <3>3 DEF EndShown
      <4>2. Cardinality(Ends) = 1
        BY <4>1, FS_Singleton
      <4> QED
        BY <3>1, <3>3, <4>2 DEF EndShown
    <3> QED
      BY <3>2, <3>3
  <2>2. ASSUME app.phase = "open"
        PROVE  /\ \A n \in app.away : n = app.errand \/ (app.settling /\ lines[n] = "switch")
               /\ app.settling => app.task = "none"
    BY <1>1, <2>2 DEF AppInv, LinesInv, OutShown, TurnInv, EndShown
  <2> QED
    BY <1>1, <2>1, <2>2 DEF BusyAsShown, AppInv
<1> QED
  BY <1>1, ApplicationInvariant, PTL

\* No message is lost, none goes in twice, and none overtakes another.
THEOREM SentInOrder == AppSpec => []MessagesInOrder
<1>1. ASSUME AppInv
      PROVE  MessagesInOrder
  <2>1. /\ app.entered \in Seq(DOMAIN lines) /\ app.ahead \in Seq(DOMAIN lines)
        /\ app.held \in Seq(DOMAIN lines) /\ app.unsent \in Seq(DOMAIN lines)
    BY <1>1, LineTypes DEF AppInv
  <2>2. Placed(app.entered, app.ahead, app.held, app.unsent, Messages)
    BY <1>1 DEF AppInv, LinesInv, PlacesShown
  <2> QED
    BY <2>1, <2>2, PlacedInOrder DEF MessagesInOrder, Sent
<1> QED
  BY <1>1, ApplicationInvariant, PTL

\* Calls that are decided and not run are left lying only where somebody wants them to.
THEOREM TurnsAreCarriedOn == AppSpec => []CarriedOn
<1>1. AppInv => CarriedOn
  BY DEF AppInv, TurnInv, CarriedOn
<1> QED
  BY <1>1, ApplicationInvariant, PTL

\* Between turns every response is charged, however many events were missed.
THEOREM TurnsAreCharged == AppSpec => []ChargedInFull
<1>1. AppInv => ChargedInFull
  BY DEF AppInv, TurnInv, ChargesShown, ChargedInFull
<1> QED
  BY <1>1, ApplicationInvariant, PTL

---------------------------------------------------------------------------
(* What no step does.                                                      *)

\* Between turns: no call of an answer is open.
KernelRests == state \in {"Idle", "Finished"} /\ pending = <<>>

\* What is new in the context is no message, or went in between turns.
EntersWhileItRests == \A n \in Messages' \cap ToSet(app'.entered) : n \in ToSet(app.entered) \/ KernelRests

\* A line that is acted on: a message goes in only between turns.
LEMMA ActedEnters ==
  ASSUME AppInv, app.phase = "open", pc[Desk] = "away",
         NEW c \in Apps(DOMAIN lines'), c.entered = app.entered, MidTurn(c) <=> MidTurn(app),
         NEW n \in DOMAIN lines', NEW kind, kind = lines'[n], ActedOn(c, app', n, kind)
  PROVE  EntersWhileItRests
<1>1. CASE kind = "message" /\ ~MidTurn(c)
  <2>1. ~app.busy /\ pending = <<>>
    BY <1>1 DEF MidTurn
  <2> QED
    BY <2>1, BetweenTurns DEF EntersWhileItRests, KernelRests
<1>2. CASE kind = "message" /\ MidTurn(c)
  BY <1>2 DEF ActedOn, EntersWhileItRests
<1>3. CASE kind # "message"
  <2>1. app'.entered \in {c.entered, Append(c.entered, n)} /\ n \notin Messages'
    BY <1>3 DEF ActedOn, Messages
  <2>2. c.entered \in Seq(DOMAIN lines')
    BY DEF Apps
  <2>3. ToSet(Append(c.entered, n)) = ToSet(c.entered) \cup {n}
    BY <2>2, AppendedSet
  <2> QED
    BY <2>1, <2>3 DEF EntersWhileItRests
<1> QED
  BY <1>1, <1>2, <1>3

\* The end of a turn: the message that is next goes in only where the turn is over.
LEMMA TurnEndsEnter ==
  ASSUME AppInv, NEW b, NEW c, TurnEnds(b, c), app'.entered = c.entered
  PROVE  EntersWhileItRests
<1>1. CASE c.entered = app.entered
  BY <1>1 DEF EntersWhileItRests
<1>2. CASE Ended(Head(outcomes))
  BY <1>2, OutcomeSays DEF EntersWhileItRests, KernelRests
<1> QED
  BY <1>1, <1>2, TurnEndsPlaces

\* An outcome is read.
LEMMA OutcomeEnters ==
  ASSUME AppInv, app.phase # "left", outcomes # <<>>, outcomes' = Tail(outcomes), unread' = 0,
         NEW c, c = OnOutcome(app, Head(outcomes)), app'.entered = c.entered,
         Kernel(Stops(unread > 0)), UNCHANGED <<lines, responses>>
  PROVE  EntersWhileItRests
<1> DEFINE b == IF unread > 0 THEN Charged(app) ELSE app
<1>1. CASE Head(outcomes).how # "returned"
  <2>1. TurnEnds(b, c)
    BY <1>1 DEF TurnEnds, OnOutcome
  <2> HIDE DEF b
  <2> QED
    BY <2>1, TurnEndsEnter
<1>2. CASE Head(outcomes).how = "returned"
  <2>1. (b = app /\ app.charged = responses) \/ b = Charged(app)
    BY ChargedFirst
  <2>2. c = Returned(b, Head(outcomes).line)
    BY <1>2 DEF OnOutcome
  <2> HIDE DEF b
  <2>3. b \in Apps(DOMAIN lines) /\ b.entered = app.entered
    BY <2>1, ChargingKeepsMoney DEF SameText
  <2>4. c.entered = b.entered
    BY <2>2, <2>3 DEF Returned, Apps
  <2> QED
    BY <2>3, <2>4 DEF EntersWhileItRests
<1> QED
  BY <1>1, <1>2

\* A branch of the loop, or a task, that leaves what was said alone.
LEMMA OthersEnterNothing ==
  ASSUME AppInv,
         \/ Stop \/ DropCalls \/ RaiseCeiling \/ Hear \/ Press \/ Quit \/ Leave \/ Deadline
         \/ \E k \in DOMAIN pending, g \in {"allow", "deny"} : Answer(k, g)
         \/ Tasks
  PROVE  app'.entered = app.entered
<1>1. app \in Apps(DOMAIN lines)
  BY DEF AppInv, AppTypeOK
<1>2. CASE Stop \/ Press
  BY <1>1, <1>2 DEF Stop, Press, LetGo, Apps
<1>3. CASE DropCalls \/ DeskGoes
  BY <1>3 DEF DropCalls, DeskGoes
<1>4. CASE RaiseCeiling \/ Quit
  BY <1>1, <1>4 DEF RaiseCeiling, Quit, Apps
<1>5. CASE Hear
  <2>1. app.phase # "left" /\ app' = Charged(app)
    BY <1>5 DEF Hear, Selecting, AtTop
  <2> DEFINE b == Charged(app)
  <2>2. SameText(app, b)
    BY <2>1, ChargingKeepsMoney
  <2> QED
    BY <2>1, <2>2 DEF SameText
<1>6. CASE Leave \/ Deadline
  BY <1>1, <1>6 DEF Leave, Deadline, Gone, LetGo, Apps
<1>7. CASE \E k \in DOMAIN pending, g \in {"allow", "deny"} : Answer(k, g)
  BY <1>1, <1>7 DEF Answer, Launch, Apps
<1>8. CASE TaskStarts \/ \E n \in app.away : Return(n)
  BY <1>1, <1>8 DEF TaskStarts, Return, Apps
<1>9. CASE TaskGoes
  BY <1>9, TaskLeavesApp DEF SameText
<1> QED
  BY <1>2, <1>3, <1>4, <1>5, <1>6, <1>7, <1>8, <1>9 DEF Tasks

\* A message goes into the context only where no turn runs and no call is open.
THEOREM NothingGoesBetween == AppSpec => NothingBetween
<1>1. ASSUME AppInv, AppNext
      PROVE  EntersWhileItRests
  <2>1. CASE Release
    <3> DEFINE c == [app EXCEPT !.held = Tail(@)]
               n == Head(app.held)
               kind == lines[n]
    <3>1. /\ app.phase = "open" /\ pc[Desk] = "away" /\ UNCHANGED lines
          /\ n \in DOMAIN lines /\ c \in Apps(DOMAIN lines) /\ c.entered = app.entered
          /\ (MidTurn(c) <=> MidTurn(app)) /\ ActedOn(c, app', n, kind)
      BY <1>1, <2>1, Released
    <3>2. kind = lines'[n]
      BY <3>1
    <3> HIDE DEF c, n, kind
    <3> QED
      BY <1>1, <3>1, <3>2, ActedEnters
  <2>2. CASE HandIn
    <3> DEFINE n == Len(lines')
               kind == lines'[n]
    <3>1. /\ app.phase = "open" /\ pc[Desk] = "away" /\ n \in DOMAIN lines'
          /\ app \in Apps(DOMAIN lines')
          /\ app'.entered = app.entered \/ ActedOn(app, app', n, kind)
      BY <1>1, <2>2, HandedIn
    <3> HIDE DEF n
    <3>2. CASE app'.entered = app.entered
      BY <3>2 DEF EntersWhileItRests
    <3>3. CASE ActedOn(app, app', n, kind)
      BY <1>1, <3>1, <3>3, ActedEnters
    <3> QED
      BY <3>1, <3>2, <3>3
  <2>3. CASE TakeOutcome \/ WaitOutcome
    <3> DEFINE c == OnOutcome(app, Head(outcomes))
    <3>1. /\ app.phase # "left" /\ outcomes # <<>> /\ outcomes' = Tail(outcomes)
          /\ unread' = 0 /\ app' \in {c, Gone(c)}
          /\ Kernel(Stops(unread > 0)) /\ UNCHANGED <<lines, responses>>
      BY <2>3 DEF TakeOutcome, WaitOutcome, Selecting, AtTop
    <3>2. Gone(c).entered = c.entered
      BY DEF Gone
    <3> HIDE DEF c
    <3>3. app'.entered = c.entered
      BY <3>1, <3>2
    <3> QED
      BY <1>1, <3>1, <3>3, OutcomeEnters DEF c
  <2>4. CASE ~(Release \/ HandIn \/ TakeOutcome \/ WaitOutcome)
    <3>1. app'.entered = app.entered
      BY <1>1, <2>4, OthersEnterNothing DEF AppNext, Loop
    <3> QED
      BY <3>1 DEF EntersWhileItRests
  <2> QED
    BY <2>1, <2>2, <2>3, <2>4
<1>2. AppInv /\ [AppNext]_<<vars, application>> => [EntersWhileItRests]_<<vars, application>>
  BY <1>1
<1> QED
  BY <1>2, ApplicationInvariant, PTL DEF AppSpec, NothingBetween, EntersWhileItRests, KernelRests

\* Only the task claims work.
LEMMA OnlyTheTaskClaims ==
  ASSUME AppInv, [AppNext]_<<vars, application>>, Claims
  PROVE  TaskGoes
<1>1. pc'[Task] # pc[Task] /\ pc'[Task] \in {"requesting", "executing"}
  BY DEF Claims
<1>2. /\ Task \in Drivers /\ Desk \in Drivers /\ Task # Desk
      /\ pc \in [Drivers -> Places]
  BY KernelShown DEF AppInv
<1>3. ASSUME UNCHANGED pc
      PROVE  FALSE
  BY <1>1, <1>3
<1>4. CASE \/ Release \/ HandIn \/ Stop \/ RaiseCeiling \/ Hear \/ TakeOutcome
           \/ Press \/ Quit \/ Leave \/ WaitOutcome \/ Deadline
           \/ \E n \in app.away : Return(n)
  BY <1>3, <1>4
  DEF Release, HandIn, Stop, RaiseCeiling, Hear, TakeOutcome, Press, Quit, Leave,
      WaitOutcome, Deadline, Return, Kernel
<1>5. CASE \E k \in DOMAIN pending, g \in {"allow", "deny"} : Answer(k, g)
  BY <1>3, <1>5 DEF Answer, Decide
<1>6. CASE DropCalls \/ DeskGoes
  <2>1. pc' = pc \/ pc' = [pc EXCEPT ![Desk] = "cancelling"] \/ pc' = [pc EXCEPT ![Desk] = "away"]
    BY <1>6 DEF DropCalls, DeskGoes, CancelStart, Cancelling, CancelRecord, CancelEnd
  <2> QED
    BY <1>1, <1>2, <2>1
<1>7. CASE TaskStarts
  <2>1. \/ pc' = [pc EXCEPT ![Task] = "stepping"]
        \/ pc' = [pc EXCEPT ![Task] = "looking"]
    BY <1>7 DEF TaskStarts, StepStart, TurnStart
  <2> QED
    BY <1>1, <1>2, <2>1
<1>8. CASE UNCHANGED <<vars, application>>
  BY <1>3, <1>8 DEF vars
<1> QED
  BY <1>4, <1>5, <1>6, <1>7, <1>8 DEF AppNext, Loop, Tasks

\* No request is claimed past the ceiling, and nothing in a session that was left.
THEOREM NothingUnwantedIsClaimed == AppSpec => ClaimsAreWanted
<1>1. AppInv /\ [AppNext]_<<vars, application>> =>
        [Claims => app.phase # "left" /\ (pc'[Task] = "requesting" => ~app.overspent)
          ]_<<vars, application>>
  <2> SUFFICES ASSUME AppInv, [AppNext]_<<vars, application>>, Claims
               PROVE  app.phase # "left" /\ ~app.overspent
    OBVIOUS
  <2>1. TaskGoes
    BY OnlyTheTaskClaims
  <2>2. ~interrupted
    BY <2>1, TaskMoves DEF Moved
  <2>3. /\ ~(app.phase = "left" /\ app.leaving \in {"now", "late"})
        /\ app.task \in {"spending", "driving"}
    BY <2>1, TaskStep
  <2>4. app.phase # "left"
    BY <2>2, <2>3 DEF AppInv, TurnInv, LeftShown
  <2>5. ~app.overspent
    BY <2>2, <2>3, <2>4 DEF AppInv, TurnInv, StopsShown
  <2> QED
    BY <2>4, <2>5
<1> QED
  BY <1>1, ApplicationInvariant, PTL DEF AppSpec, ClaimsAreWanted
=============================================================================
