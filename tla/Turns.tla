------------------------------- MODULE Turns -------------------------------
(***************************************************************************)
(* What `Kernel::turn` promises over many steps: Machine, with a record of *)
(* what each driver's turn has sent and of the interrupts that fell into   *)
(* it.  The record is written by what the machine does and read by nothing *)
(* but the properties.                                                     *)
(***************************************************************************)
EXTENDS Machine

VARIABLES
  sent,     \* requests of each driver's turn, to one past the limit
  halted    \* the drivers whose turn an interrupt fell into

allVars == <<vars, sent, halted>>

InTurn(d) == turning[d] /\ pc[d] # "away"
Begins(d) == pc[d] = "away" /\ pc'[d] = "looking"
Sends(d) == pc[d] = "stepping" /\ pc'[d] = "requesting"

\* A turn that begins at Deciding or Ready is the one that stopped there.  A turn
\* that waits for a decision is over when somebody else sends a request.
SentBy(e) ==
  IF Begins(e) THEN IF state \in {"Deciding", "Ready"} THEN sent[e] ELSE 0
  ELSE IF Sends(e) /\ turning[e] THEN IF sent[e] > MaxRequests THEN sent[e] ELSE sent[e] + 1
  ELSE IF (\E d \in Drivers : Sends(d)) /\ ~InTurn(e) THEN 0
  ELSE sent[e]

TurnsInit == Init /\ sent = [d \in Drivers |-> 0] /\ halted = {}

Driven(d) == Called(d) \/ GoesOn(d)

Recorded ==
  /\ sent' = [e \in Drivers |-> SentBy(e)]
  /\ halted' = {d \in halted : ~Begins(d)}

TurnsNext ==
  \/ \E d \in Drivers : Driven(d) /\ Recorded
  \/ Interrupt /\ halted' = halted \cup {d \in Drivers : InTurn(d)} /\ UNCHANGED sent
  \/ \E k \in DOMAIN pending, grant \in {"allow", "deny"} :
       Decide(k, grant) /\ UNCHANGED <<sent, halted>>
  \/ AnswerUndone /\ UNCHANGED <<sent, halted>>

TurnsSpec == TurnsInit /\ [][TurnsNext]_allVars
FairTurns == TurnsSpec /\ \A d \in Drivers : WF_allVars(GoesOn(d) /\ Recorded)

\* A turn sends no more requests than it may, however often it stops for a
\* decision and is called again.
BudgetHolds == \A d \in Drivers : sent[d] <= MaxRequests

\* A turn an interrupt fell into sends no further request, wherever it fell.
StopHolds == [][\A d \in halted : ~(turning[d] /\ Sends(d))]_allVars

\* Every turn, step and cancellation comes back to whoever called it.
CallsReturn == \A d \in Drivers : pc[d] # "away" ~> pc[d] = "away"

\* "It is also cleared when a turn reaches `State::Finished` and when the
\* transition it was stopping fails or is abandoned, so it never outlives what it
\* was meant to stop" (the documentation of `interrupt`): when a turn ends at its
\* budget, the interrupt that fell into it is not left for the next.
StopEndsWithItsTurn ==
  [][\A d \in halted : pc[d] = "looking" /\ pc'[d] = "away" => ~interrupted']_allVars

---------------------------------------------------------------------------
(* The inductive invariant of a driver that is alone.                      *)

\* What a turn has sent is what `turn` has counted wherever the loop compares it
\* to the limit, and what the machine has stored wherever a turn may stop and be
\* carried on.
BudgetKept(d) ==
  /\ sent[d] <= MaxRequests
  /\ state \in {"Deciding", "Ready"} => sent[d] <= turnRequests
  /\ pc[d] \in {"requesting", "preparing"} => sent[d] <= turnRequests
  /\ pc[d] = "looking" => turning[d]
  /\ turning[d] /\ pc[d] \in {"looking", "requesting", "preparing", "executing"}
       => sent[d] <= requests[d]
  /\ pc[d] = "stepping" =>
       IF ~turning[d] THEN counted[d] = 0
       ELSE \/ state \in {"Deciding", "Ready"} /\ sent[d] <= requests[d]
            \/ /\ state \in {"Idle", "Finished"}
               /\ counted[d] = requests[d] /\ sent[d] < requests[d]

\* The flag stays up for as long as the turn it was raised in runs.
StopKept(d) == d \in halted /\ InTurn(d) => interrupted

TurnsInv ==
  /\ IInv /\ sent \in [Drivers -> Nat] /\ halted \subseteq Drivers
  /\ \A d \in Drivers : BudgetKept(d) /\ StopKept(d)
=============================================================================
