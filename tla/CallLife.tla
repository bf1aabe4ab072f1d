------------------------------ MODULE CallLife ------------------------------
(***************************************************************************)
(* What a kernel promises about the tool calls of one answer               *)
(* (nachalnik/src/kernel/machine.rs and calls.rs), with nobody driving:    *)
(* every call is answered once, in the order asked; nothing runs before    *)
(* every question is answered, nor without being allowed; a cancelled call *)
(* never runs; and a call is only ever lost together with the future that  *)
(* was working on it, never while it waits.  The next answer of the model  *)
(* is asked for when no call of the last one is open.  Machine implements  *)
(* this with any number of drivers.                                        *)
(***************************************************************************)
EXTENDS Naturals

CONSTANT MaxBatch  \* bound: how many calls one answer asks for

VARIABLES
  life,   \* what became of each call of the last answer
  stage   \* "done", "preparing", "waiting" or "working"

vars == <<life, stage>>

Settled == {"answered", "lost"}
Waiting == {"undecided", "allowed", "denied"}
Lives == {"asked", "cancelled", "running"} \cup Waiting \cup Settled

Open == {c \in DOMAIN life : life[c] \notin Settled}
InOrder(c) == \A earlier \in Open : c <= earlier

Init == life = <<>> /\ stage = "done"

\* The model answers, asking for n calls.
Ask(n) ==
  /\ stage = "done" /\ Open = {}
  /\ life' = [c \in 1..n |-> "asked"]
  /\ stage' = IF n = 0 THEN "done" ELSE "preparing"

\* A call nobody can run is answered at once; any other waits for its grant.
Prepare(c, to) ==
  /\ stage = "preparing" /\ life[c] = "asked"
  /\ \A earlier \in 1..(c - 1) : life[earlier] # "asked"
  /\ life' = [life EXCEPT ![c] = to]
  /\ UNCHANGED stage

\* Every call is prepared.
Queue ==
  /\ stage = "preparing" /\ \A c \in DOMAIN life : life[c] # "asked"
  /\ stage' = IF Open = {} THEN "done" ELSE "waiting"
  /\ UNCHANGED life

Decide(c, to) ==
  /\ stage = "waiting" /\ life[c] = "undecided"
  /\ life' = [life EXCEPT ![c] = to]
  /\ UNCHANGED stage

\* Work begins once nothing is undecided.
Begin ==
  /\ stage = "waiting" /\ \A c \in Open : life[c] # "undecided"
  /\ stage' = "working"
  /\ UNCHANGED life

Cancel ==
  /\ stage = "waiting"
  /\ life' = [c \in DOMAIN life |-> IF c \in Open THEN "cancelled" ELSE life[c]]
  /\ stage' = "working"

Start(c) ==
  /\ stage = "working" /\ life[c] = "allowed"
  /\ life' = [life EXCEPT ![c] = "running"]
  /\ UNCHANGED stage

\* A call that ran, was refused or cancelled, or was stopped before it began.
Answer(c) ==
  /\ stage = "working" /\ c \in Open /\ InOrder(c)
  /\ life' = [life EXCEPT ![c] = "answered"]
  /\ UNCHANGED stage

End ==
  /\ stage = "working" /\ Open = {}
  /\ stage' = "done"
  /\ UNCHANGED life

\* The future at work failed or was dropped.
Lose ==
  /\ stage \in {"preparing", "working"}
  /\ life' = [c \in DOMAIN life |-> IF c \in Open THEN "lost" ELSE life[c]]
  /\ stage' = "done"

Next ==
  \/ \E n \in 0..MaxBatch : Ask(n)
  \/ \E c \in DOMAIN life, to \in Waiting \cup {"answered"} : Prepare(c, to)
  \/ Queue
  \/ \E c \in DOMAIN life, to \in {"allowed", "denied"} : Decide(c, to)
  \/ Begin
  \/ Cancel
  \/ \E c \in DOMAIN life : Start(c) \/ Answer(c)
  \/ End
  \/ Lose

Spec == Init /\ [][Next]_vars
=============================================================================
