---------------------------- MODULE MachineProofs ----------------------------
(***************************************************************************)
(* Proofs about Machine, for any number of drivers, calls and requests.    *)
(* IInv is inductive; the theorems follow from it.  An action is one lemma *)
(* for each half of IInv, under it one step for each part it touches, and  *)
(* one for what CallLife sees of it.  Turns, the machine with a record of  *)
(* what each turn sends, comes last: its budget and its stops.             *)
(***************************************************************************)
EXTENDS Turns, TLAPS

Grants == {"allow", "deny", "ask"}
Places == Owning \cup {"away", "looking", "stepping"}

---------------------------------------------------------------------------
(* Sequences of calls.                                                     *)

LEMMA AppendedSet ==
  ASSUME NEW S, NEW s \in Seq(S), NEW e \in S
  PROVE  /\ Append(s, e) \in Seq(S)
         /\ ToSet(Append(s, e)) = ToSet(s) \cup {e}
         /\ IsInjective(s) /\ e \notin ToSet(s) => IsInjective(Append(s, e))
<1>1. Append(s, e) \in Seq(S) /\ DOMAIN Append(s, e) = 1..(Len(s) + 1)
  OBVIOUS
<1>2. /\ \A k \in 1..Len(s) : Append(s, e)[k] = s[k]
      /\ Append(s, e)[Len(s) + 1] = e
  OBVIOUS
<1>3. DOMAIN s = 1..Len(s) /\ Len(s) \in Nat
  OBVIOUS
<1>4. ToSet(Append(s, e)) = ToSet(s) \cup {e}
  <2>1. \A x \in ToSet(Append(s, e)) : x \in ToSet(s) \cup {e}
    BY <1>1, <1>2, <1>3 DEF ToSet
  <2>2. \A x \in ToSet(s) \cup {e} : x \in ToSet(Append(s, e))
    BY <1>1, <1>2, <1>3 DEF ToSet
  <2> QED  BY <2>1, <2>2
<1>5. ASSUME IsInjective(s), e \notin ToSet(s)  PROVE IsInjective(Append(s, e))
  <2>1. \A j, k \in DOMAIN s : s[j] = s[k] => j = k
    BY <1>5 DEF IsInjective
  <2>2. \A k \in DOMAIN s : s[k] # e
    BY <1>5 DEF ToSet
  <2>3. \A j, k \in DOMAIN Append(s, e) :
          Append(s, e)[j] = Append(s, e)[k] => j = k
    BY <1>1, <1>2, <1>3, <2>1, <2>2
  <2> QED  BY <2>3 DEF IsInjective
<1> QED  BY <1>1, <1>4, <1>5

LEMMA AppendedNames ==
  ASSUME NEW held \in Seq(Prepared), NEW entry \in Prepared
  PROVE  /\ Append(held, entry) \in Seq(Prepared)
         /\ Append(held, entry) # <<>>
         /\ Names(Append(held, entry)) = Names(held) \cup {entry.call}
         /\ Ascending(held) /\ (\A c \in Names(held) : c < entry.call)
              => Ascending(Append(held, entry))
<1>1. /\ Append(held, entry) \in Seq(Prepared)
      /\ DOMAIN Append(held, entry) = 1..(Len(held) + 1)
      /\ \A k \in 1..Len(held) : Append(held, entry)[k] = held[k]
      /\ Append(held, entry)[Len(held) + 1] = entry
      /\ DOMAIN held = 1..Len(held) /\ Len(held) \in Nat
      /\ Append(held, entry) # <<>>
  OBVIOUS
<1>2. \A c \in Names(Append(held, entry)) : c \in Names(held) \cup {entry.call}
  BY <1>1 DEF Names
<1>3. \A c \in Names(held) \cup {entry.call} : c \in Names(Append(held, entry))
  BY <1>1 DEF Names
<1>4. ASSUME Ascending(held), \A c \in Names(held) : c < entry.call
      PROVE  Ascending(Append(held, entry))
  <2>1. \A k \in 1..Len(held) : held[k].call < entry.call
    BY <1>1, <1>4 DEF Names
  <2>2. \A j, k \in 1..Len(held) : j < k => held[j].call < held[k].call
    BY <1>1, <1>4 DEF Ascending
  <2>3. \A j, k \in 1..(Len(held) + 1) : j < k => j \in 1..Len(held)
    BY <1>1
  <2>4. \A j, k \in 1..(Len(held) + 1) :
          j < k => Append(held, entry)[j].call < Append(held, entry)[k].call
    BY <1>1, <2>1, <2>2, <2>3
  <2> QED  BY <1>1, <2>4 DEF Ascending
<1> QED  BY <1>1, <1>2, <1>3, <1>4

LEMMA HeadTaken ==
  ASSUME NEW held \in Seq(Prepared), held # <<>>, Ascending(held)
  PROVE  /\ Head(held) \in Prepared /\ Tail(held) \in Seq(Prepared)
         /\ Ascending(Tail(held))
         /\ Names(held) = Names(Tail(held)) \cup {Head(held).call}
         /\ Head(held).call \notin Names(Tail(held))
<1>1. /\ Head(held) = held[1] /\ Tail(held) \in Seq(Prepared) /\ Len(held) \in Nat \ {0}
      /\ DOMAIN held = 1..Len(held) /\ DOMAIN Tail(held) = 1..(Len(held) - 1)
      /\ \A k \in 1..(Len(held) - 1) : Tail(held)[k] = held[k + 1]
      /\ \A k \in 1..Len(held) : held[k] \in Prepared
  OBVIOUS
<1>2. \A j, k \in 1..Len(held) : j < k => held[j].call < held[k].call
  BY <1>1 DEF Ascending
<1>3. \A k \in 1..Len(held) : held[k].call \in Int
  BY <1>1 DEF Prepared, CallIds
<1>4. Head(held) \in Prepared
  BY <1>1
<1>5. Ascending(Tail(held))
  <2>1. \A k \in 1..(Len(held) - 1) : k + 1 \in 1..Len(held)
    BY <1>1
  <2>2. \A j, k \in 1..(Len(held) - 1) : j < k => Tail(held)[j].call < Tail(held)[k].call
    BY <1>1, <1>2, <2>1
  <2> QED  BY <1>1, <2>2 DEF Ascending
<1>6. \A c \in Names(held) : c \in Names(Tail(held)) \cup {Head(held).call}
  <2> SUFFICES ASSUME NEW k \in 1..Len(held), k # 1
               PROVE  held[k].call \in Names(Tail(held))
    BY <1>1 DEF Names
  <2>1. k - 1 \in 1..(Len(held) - 1) /\ Tail(held)[k - 1] = held[k]
    BY <1>1
  <2> QED  BY <1>1, <2>1 DEF Names
<1>7. \A c \in Names(Tail(held)) : c \in Names(held) /\ c # Head(held).call
  <2> SUFFICES ASSUME NEW k \in 1..(Len(held) - 1)
               PROVE  Tail(held)[k].call \in Names(held) /\ Tail(held)[k].call # Head(held).call
    BY <1>1 DEF Names
  <2>1. k + 1 \in 1..Len(held) /\ 1 \in 1..Len(held) /\ 1 < k + 1
    BY <1>1
  <2>2. held[1].call < held[k + 1].call
    BY <1>2, <2>1
  <2> QED  BY <1>1, <1>3, <2>1, <2>2 DEF Names
<1>8. Head(held).call \in Names(held)
  BY <1>1 DEF Names
<1> QED  BY <1>1, <1>4, <1>5, <1>6, <1>7, <1>8

LEMMA Elements == ASSUME NEW S, NEW s \in Seq(S)  PROVE ToSet(s) \subseteq S
BY DEF ToSet

LEMMA NamesAreCalls ==
  ASSUME NEW held \in Seq(Prepared)  PROVE Names(held) \subseteq CallIds
<1>1. \A k \in DOMAIN held : held[k] \in Prepared
  OBVIOUS
<1>2. \A k \in DOMAIN held : held[k].call \in CallIds
  BY <1>1 DEF Prepared
<1> QED  BY <1>2 DEF Names

LEMMA NoNames == Names(<<>>) = {} /\ Ascending(<<>>)
BY DEF Names, Ascending

LEMMA NothingAnswered == <<>> \in Seq(CallIds) /\ ToSet(<<>>) = {} /\ IsInjective(<<>>)
BY DEF ToSet, IsInjective

LEMMA StateForRests ==
  ASSUME NEW prepared \in Seq(Prepared)
  PROVE  /\ StateFor(prepared) \in {"Idle", "Deciding", "Ready"}
         /\ StateFor(prepared) = "Idle" <=> prepared = <<>>
BY DEF StateFor

---------------------------------------------------------------------------
(* The actions.                                                            *)

\* Actions that move only a driver's place, outside its work.
LEMMA WandersOff ==
  ASSUME CallsKept, NEW d \in Drivers,
         pc[d] \notin Owning, NEW to \in {"away", "looking", "stepping"},
         pc' = [pc EXCEPT ![d] = to],
         turning' \in [Drivers -> BOOLEAN],
         requests' \in [Drivers -> 0..MaxRequests],
         counted' \in [Drivers -> 0..MaxRequests],
         interrupted' \in BOOLEAN,
         UNCHANGED <<machine, hands, calls>>
  PROVE  CallsKept'
<1> USE DEF CallsKept, TypeOK, machine, calls
<1>0. /\ \A e \in Drivers : pc'[e] = IF e = d THEN to ELSE pc[e]
      /\ to \notin Owning
  BY DEF Owning
<1>1. TypeOK'
  BY DEF Owning
<1>2. OneDriver'
  BY <1>0 DEF OneDriver, Owns, Owning
<1>3. CallsInPlace'
  BY <1>0 DEF CallsInPlace, Owning
<1>4. CallsAccounted'
  BY <1>0 DEF CallsAccounted, Owning
<1>5. CallsInOrder' /\ AnsweredOnce'
  BY <1>0 DEF CallsInOrder, AnsweredOnce, Owning
<1>6. CallsHeldOnce'
  BY <1>0, NoNames DEF CallsHeldOnce
<1> QED  BY <1>1, <1>2, <1>3, <1>4, <1>5, <1>6

LEMMA TurnStartKeeps == ASSUME CallsKept, NEW d \in Drivers, TurnStart(d)  PROVE CallsKept'
<1>1. /\ pc[d] \notin Owning
      /\ turning' \in [Drivers -> BOOLEAN] /\ requests' \in [Drivers -> 0..MaxRequests]
      /\ counted' \in [Drivers -> 0..MaxRequests] /\ interrupted' \in BOOLEAN
  BY MachineAssumption DEF TurnStart, CallsKept, TypeOK, Owning
<1> QED  BY <1>1, WandersOff DEF TurnStart

LEMMA TurnLookKeeps == ASSUME CallsKept, NEW d \in Drivers, TurnLook(d)  PROVE CallsKept'
<1>1. /\ pc[d] \notin Owning
      /\ turning' \in [Drivers -> BOOLEAN] /\ requests' \in [Drivers -> 0..MaxRequests]
      /\ counted' \in [Drivers -> 0..MaxRequests] /\ interrupted' \in BOOLEAN
  <2>1. /\ requests \in [Drivers -> 0..MaxRequests] /\ counted \in [Drivers -> 0..MaxRequests]
        /\ turning' = turning /\ interrupted' = interrupted /\ pc[d] = "looking"
        /\ turning \in [Drivers -> BOOLEAN] /\ interrupted \in BOOLEAN
    BY DEF TurnLook, CallsKept, TypeOK
  <2>2. \/ requests' = requests /\ counted' = [counted EXCEPT ![d] = 0]
        \/ requests' = requests /\ counted' = counted
        \/ /\ ~(requests[d] >= MaxRequests)
           /\ requests' = [requests EXCEPT ![d] = @ + 1]
           /\ counted' = [counted EXCEPT ![d] = requests[d] + 1]
    BY DEF TurnLook
  <2>3. 0 \in 0..MaxRequests /\ (~(requests[d] >= MaxRequests) => requests[d] + 1 \in 0..MaxRequests)
    BY <2>1, MachineAssumption
  <2> QED  BY <2>1, <2>2, <2>3 DEF Owning
<1>2. \E to \in {"away", "looking", "stepping"} : pc' = [pc EXCEPT ![d] = to]
  BY DEF TurnLook
<1> QED  BY <1>1, <1>2, WandersOff DEF TurnLook

LEMMA StepStartKeeps == ASSUME CallsKept, NEW d \in Drivers, StepStart(d)  PROVE CallsKept'
<1>1. /\ pc[d] \notin Owning
      /\ turning' \in [Drivers -> BOOLEAN] /\ requests' \in [Drivers -> 0..MaxRequests]
      /\ counted' \in [Drivers -> 0..MaxRequests] /\ interrupted' \in BOOLEAN
  BY MachineAssumption DEF StepStart, CallsKept, TypeOK, Owning
<1> QED  BY <1>1, WandersOff DEF StepStart

LEMMA StepRefusedKeeps ==
  ASSUME CallsKept, NEW d \in Drivers, StepBusy(d) \/ StepAcknowledge(d) \/ StepNothing(d)
  PROVE  CallsKept'
<1>1. /\ pc[d] \notin Owning
      /\ turning' \in [Drivers -> BOOLEAN] /\ requests' \in [Drivers -> 0..MaxRequests]
      /\ counted' \in [Drivers -> 0..MaxRequests] /\ interrupted' \in BOOLEAN
      /\ pc' = [pc EXCEPT ![d] = "away"]
      /\ UNCHANGED <<machine, hands, calls>>
  BY DEF StepBusy, StepAcknowledge, StepNothing, CallsKept, TypeOK, Owning, loop
<1> QED  BY <1>1, WandersOff

\* Whoever finds the machine at rest finds nobody at work and nothing in hand.
LEMMA AtRest ==
  ASSUME CallsKept, state \in Resting
  PROVE  \A d \in Drivers : pc[d] \notin Owning /\ hands[d] = <<>>
BY DEF CallsKept, OneDriver, CallsInPlace, Owning, Resting

\* Whoever is at work is alone, and nothing is queued meanwhile.
LEMMA AtWork ==
  ASSUME CallsKept, NEW d \in Drivers, pc[d] \in Owning
  PROVE  /\ \A e \in Drivers \ {d} : pc[e] \notin Owning /\ hands[e] = <<>>
         /\ state \in {"Requesting", "Executing"} /\ pending = <<>>
BY DEF CallsKept, OneDriver, CallsInPlace, Owning, Owns

LEMMA ClaimCallsKeeps == ASSUME CallsKept, NEW d \in Drivers, ClaimCalls(d)  PROVE CallsKept'
<1> USE DEF CallsKept, TypeOK, ClaimCalls, loop, calls
<1>0. /\ \A e \in Drivers : /\ pc[e] \notin Owning /\ hands[e] = <<>>
                            /\ pc'[e] = IF e = d THEN "executing" ELSE pc[e]
                            /\ hands'[e] = IF e = d THEN pending ELSE <<>>
      /\ pending' = <<>> /\ state' = "Executing"
      /\ pending # <<>>
  BY AtRest DEF Resting, CallsInPlace, StateFor
<1>1. TypeOK'
  BY DEF Owning
<1>2. OneDriver'
  BY <1>0 DEF OneDriver, Owns, Owning, Resting
<1>3. CallsInPlace'
  BY <1>0 DEF CallsInPlace, Owning
<1>4. CallsAccounted'
  BY <1>0, NoNames DEF CallsAccounted, Owning
<1>5. CallsInOrder' /\ AnsweredOnce'
  BY <1>0 DEF CallsInOrder, AnsweredOnce, Owning
<1>6. CallsHeldOnce'
  BY <1>0, NoNames DEF CallsHeldOnce
<1> QED  BY <1>1, <1>2, <1>3, <1>4, <1>5, <1>6

LEMMA ClaimRequestKeeps == ASSUME CallsKept, NEW d \in Drivers, ClaimRequest(d)  PROVE CallsKept'
<1> USE DEF CallsKept, TypeOK, ClaimRequest, loop, calls
<1>0. /\ \A e \in Drivers : /\ pc[e] \notin Owning /\ hands[e] = <<>>
                            /\ pc'[e] = IF e = d THEN "requesting" ELSE pc[e]
      /\ pending = <<>> /\ state' = "Requesting"
  BY AtRest DEF Resting, CallsInPlace
<1>1. TypeOK'
  BY DEF Owning
<1>2. OneDriver'
  BY <1>0 DEF OneDriver, Owns, Owning, Resting
<1>3. CallsInPlace'
  BY <1>0 DEF CallsInPlace, Owning
<1>4. CallsAccounted'
  BY <1>0 DEF CallsAccounted, Owning
<1>5. CallsInOrder' /\ AnsweredOnce'
  BY <1>0 DEF CallsInOrder, AnsweredOnce, Owning
<1>6. CallsHeldOnce'
  BY <1>0, NoNames DEF CallsHeldOnce
<1> QED  BY <1>1, <1>2, <1>3, <1>4, <1>5, <1>6

LEMMA RespondKeeps ==
  ASSUME CallsKept, NEW d \in Drivers, NEW n \in 0..MaxBatch, Respond(d, n)
  PROVE  CallsKept'
<1> USE DEF CallsKept, TypeOK, Respond, loop, machine
<1>0. /\ \A e \in Drivers \ {d} : pc[e] \notin Owning /\ pc'[e] = pc[e]
      /\ \A e \in Drivers : hands[e] = <<>>
      /\ pc'[d] = IF n = 0 THEN "concluding" ELSE "preparing"
      /\ pending = <<>> /\ state = "Requesting"
  BY AtWork DEF Owning, OneDriver, CallsInPlace
<1>1. TypeOK'
  BY MachineAssumption, NothingAnswered DEF Owning, CallIds
<1>2. OneDriver'
  BY <1>0 DEF OneDriver, Owns, Owning, Resting
<1>3. CallsInPlace'
  BY <1>0 DEF CallsInPlace
<1>4. CallsAccounted'
  BY <1>0 DEF CallsAccounted
<1>5. CallsInOrder' /\ AnsweredOnce' /\ CallsHeldOnce'
  BY <1>0, NothingAnswered, NoNames DEF CallsInOrder, AnsweredOnce, CallsHeldOnce
<1> QED  BY <1>1, <1>2, <1>3, <1>4, <1>5

\* A driver at work that holds nothing any more, or has queued what it held.
LEMMA LetsGo ==
  ASSUME CallsKept, NEW d \in Drivers, pc[d] \in Owning,
         NEW to \in {"away", "looking"}, pc' = [pc EXCEPT ![d] = to],
         hands' = [hands EXCEPT ![d] = <<>>],
         pending' \in Seq(Prepared),
         state' \in Resting, state' = "Finished" => pending' = <<>>,
         state' # "Finished" => state' = StateFor(pending'),
         interrupted' \in BOOLEAN, UNCHANGED <<turnRequests, loop, asked, next, answered>>,
         lost' \subseteq CallIds,
         lost' # {} => pending' = <<>>,
         ToSet(answered) \cap lost' = {},
         \A c \in 1..asked : c \in ToSet(answered) \cup lost' \cup Names(pending'),
         Ascending(pending'), Names(pending') \cap ToSet(answered) = {}
  PROVE  CallsKept'
<1> USE DEF CallsKept, TypeOK, loop
<1>0. /\ \A e \in Drivers : pc'[e] \notin Owning /\ hands'[e] = <<>>
  BY AtWork DEF Owning
<1>1. TypeOK'
  BY MachineAssumption DEF Owning, Resting, CallIds
<1>2. OneDriver'
  BY <1>0 DEF OneDriver, Owns, Owning, Resting
<1>3. CallsInPlace'
  BY <1>0, StateForRests DEF CallsInPlace, Resting
<1>4. CallsAccounted'
  BY DEF CallsAccounted
<1>5. CallsInOrder' /\ AnsweredOnce'
  BY <1>0 DEF CallsInOrder, AnsweredOnce, Owning
<1>6. CallsHeldOnce'
  BY <1>0, NoNames DEF CallsHeldOnce
<1> QED  BY <1>1, <1>2, <1>3, <1>4, <1>5, <1>6

LEMMA OnwardPlaces == \A d, to : Onward(d, to) \in {"away", "looking"}
BY DEF Onward

\* What a driver at work can find open is in its own hands.
LEMMA OpenInHand ==
  ASSUME CallsKept, NEW d \in Drivers, pc[d] \in Owning, NEW c \in 1..asked,
         c \notin ToSet(answered) \cup lost
  PROVE  c \in Names(hands[d]) \/ (pc[d] = "preparing" /\ next <= c)
<1>1. /\ \A e \in Drivers \ {d} : Names(hands[e]) = {} /\ pc[e] # "preparing"
      /\ Names(pending) = {}
  BY AtWork, NoNames DEF Owning
<1> QED  BY <1>1 DEF CallsKept, CallsAccounted

LEMMA ConcludeKeeps == ASSUME CallsKept, NEW d \in Drivers, Conclude(d)  PROVE CallsKept'
<1>1. /\ pc[d] \in Owning /\ pending = <<>> /\ hands[d] = <<>>
      /\ hands \in [Drivers -> Seq(Prepared)] /\ hands' = [hands EXCEPT ![d] = <<>>]
      /\ pending' = <<>> /\ state' = "Finished" /\ interrupted' = FALSE
      /\ UNCHANGED <<turnRequests, loop, asked, next, answered, lost>>
      /\ pc' = [pc EXCEPT ![d] = Onward(d, "Finished")]
  BY AtWork DEF CallsKept, TypeOK, CallsInPlace, Conclude, Owning, calls
<1>2. \A c \in 1..asked : c \in ToSet(answered) \cup lost
  BY <1>1, OpenInHand, NoNames DEF Conclude
<1>3. ToSet(answered) \cap lost = {} /\ lost \subseteq CallIds /\ <<>> \in Seq(Prepared)
  BY DEF CallsKept, AnsweredOnce, TypeOK
<1>4. FALSE \in BOOLEAN /\ "Finished" \in Resting
  BY DEF Resting
<1> QED  BY <1>1, <1>2, <1>3, <1>4, LetsGo, OnwardPlaces, NoNames

LEMMA QueueKeeps == ASSUME CallsKept, NEW d \in Drivers, Queue(d)  PROVE CallsKept'
<1>1. /\ pc[d] = "preparing" /\ pc[d] \in Owning /\ next > asked
      /\ hands' = [hands EXCEPT ![d] = <<>>]
      /\ pending' = hands[d] /\ pending' \in Seq(Prepared) /\ state' = StateFor(pending')
      /\ UNCHANGED <<turnRequests, interrupted, loop, asked, next, answered, lost>>
      /\ pc' = [pc EXCEPT ![d] = Onward(d, state')]
  BY DEF CallsKept, TypeOK, Queue, Owning, calls
<1>2. \A c \in 1..asked : c \in ToSet(answered) \cup lost \cup Names(pending')
  <2>1. \A c \in 1..asked : ~(next <= c)
    BY <1>1 DEF CallsKept, TypeOK
  <2> QED  BY <1>1, <2>1, OpenInHand
<1>3. /\ lost = {} /\ lost' \subseteq CallIds /\ ToSet(answered) \cap lost' = {}
      /\ Ascending(pending') /\ Names(pending') \cap ToSet(answered) = {}
  BY <1>1 DEF CallsKept, AnsweredOnce, CallsInOrder, CallsHeldOnce
<1>4. state' \in Resting /\ state' # "Finished" /\ interrupted' \in BOOLEAN
  BY <1>1, StateForRests DEF Resting, CallsKept, TypeOK
<1> QED  BY <1>1, <1>2, <1>3, <1>4, LetsGo, OnwardPlaces

LEMMA EndsKeep ==
  ASSUME CallsKept, NEW d \in Drivers, EndCalls(d) \/ CancelEnd(d)
  PROVE  CallsKept'
<1>1. /\ pc[d] \in {"executing", "cancelling"} /\ pc[d] \in Owning
      /\ hands[d] = <<>> /\ pending = <<>>
      /\ hands \in [Drivers -> Seq(Prepared)] /\ hands' = [hands EXCEPT ![d] = <<>>]
      /\ pending' = <<>> /\ state' = "Idle"
      /\ UNCHANGED <<turnRequests, interrupted, loop, asked, next, answered, lost>>
      /\ pc' = [pc EXCEPT ![d] = "away"] \/ pc' = [pc EXCEPT ![d] = Onward(d, "Idle")]
  BY AtWork DEF CallsKept, TypeOK, EndCalls, CancelEnd, Owning, calls
<1>2. \A c \in 1..asked : c \in ToSet(answered) \cup lost
  BY <1>1, OpenInHand, NoNames
<1>3. /\ ToSet(answered) \cap lost = {} /\ lost \subseteq CallIds
      /\ interrupted' \in BOOLEAN /\ <<>> \in Seq(Prepared)
  BY <1>1 DEF CallsKept, AnsweredOnce, TypeOK
<1>4. StateFor(<<>>) = "Idle" /\ "Idle" \in Resting
  BY DEF StateFor, Resting
<1> QED  BY <1>1, <1>2, <1>3, <1>4, LetsGo, OnwardPlaces, NoNames

LEMMA AbandonKeeps == ASSUME CallsKept, NEW d \in Drivers, Abandon(d)  PROVE CallsKept'
<1>1. /\ pc[d] \in Owning /\ pending = <<>>
      /\ hands' = [hands EXCEPT ![d] = <<>>]
      /\ pending' = <<>> /\ state' = "Idle" /\ interrupted' = FALSE
      /\ UNCHANGED <<turnRequests, loop, asked, next, answered>>
      /\ pc' = [pc EXCEPT ![d] = "away"]
      /\ lost' = lost \cup Takes(d)
  BY AtWork DEF Abandon, Awaiting, Owning
<1>2. \A c \in 1..asked : c \in ToSet(answered) \cup lost'
  <2> SUFFICES ASSUME NEW c \in 1..asked, c \notin ToSet(answered) \cup lost
               PROVE  c \in Takes(d)
    BY <1>1
  <2>1. c \in Names(hands[d]) \/ (pc[d] = "preparing" /\ next <= c)
    BY <1>1, OpenInHand
  <2> QED  BY <2>1 DEF Takes, CallsKept, TypeOK
<1>3. Takes(d) \subseteq CallIds
  <2>1. hands[d] \in Seq(Prepared) /\ asked \in 0..MaxBatch
    BY DEF CallsKept, TypeOK
  <2>2. Names(hands[d]) \subseteq CallIds
    BY <2>1, NamesAreCalls
  <2>3. pc[d] = "preparing" => next \in Nat \ {0}
    BY DEF CallsKept, TypeOK, CallsInOrder
  <2> QED  BY <2>1, <2>2, <2>3, MachineAssumption DEF Takes, CallIds
<1>4. ToSet(answered) \cap Takes(d) = {}
  <2>1. Names(hands[d]) \cap ToSet(answered) = {}
    BY DEF CallsKept, CallsHeldOnce
  <2>2. pc[d] = "preparing" => \A c \in ToSet(answered) : c \notin next..asked
    <3>1. ToSet(answered) \subseteq CallIds
      BY Elements DEF CallsKept, TypeOK
    <3>2. pc[d] = "preparing" => \A c \in ToSet(answered) : c < next
      BY DEF CallsKept, CallsInOrder
    <3> QED  BY <3>1, <3>2 DEF CallIds, CallsKept, TypeOK
  <2> QED  BY <2>1, <2>2 DEF Takes
<1>5. /\ lost \subseteq CallIds /\ ToSet(answered) \cap lost = {}
      /\ <<>> \in Seq(Prepared) /\ StateFor(<<>>) = "Idle" /\ "Idle" \in Resting
      /\ FALSE \in BOOLEAN
  BY DEF CallsKept, AnsweredOnce, TypeOK, StateFor, Resting
<1>6. lost' \subseteq CallIds /\ ToSet(answered) \cap lost' = {}
  BY <1>1, <1>3, <1>4, <1>5
<1> QED  BY <1>1, <1>2, <1>5, <1>6, LetsGo, NoNames

\* A driver at work goes on: another call is answered, or another is in its hands.
LEMMA WorksOn ==
  ASSUME CallsKept, NEW d \in Drivers, pc[d] \in {"preparing", "executing", "cancelling"},
         UNCHANGED <<machine, interrupted, pc, loop, asked, lost>>,
         hands' \in [Drivers -> Seq(Prepared)],
         \A e \in Drivers \ {d} : hands'[e] = hands[e],
         next' \in next..(MaxBatch + 1),
         answered' \in Seq(CallIds), AnsweredOnce',
         Ascending(hands'[d]), Names(hands'[d]) \cap ToSet(answered') = {},
         \A c \in (1..asked) \cap (ToSet(answered) \cup Names(hands[d])) :
           c \in ToSet(answered') \cup Names(hands'[d]),
         pc[d] = "preparing" =>
           /\ \A c \in 1..asked : next <= c /\ c < next' =>
                c \in ToSet(answered') \cup Names(hands'[d])
           /\ \A c \in ToSet(answered') \cup Names(hands'[d]) : c < next'
  PROVE  CallsKept'
<1> USE DEF CallsKept, TypeOK, machine, loop
<1>0. /\ pc[d] \in Owning /\ lost = {} /\ pending = <<>>
      /\ \A e \in Drivers \ {d} : pc[e] \notin Owning /\ hands[e] = <<>>
  BY AtWork DEF Owning, CallsInOrder
<1>1. TypeOK'
  BY MachineAssumption
<1>2. OneDriver'
  BY DEF OneDriver, Owns
<1>3. CallsInPlace'
  BY <1>0 DEF CallsInPlace
<1>4. CallsAccounted'
  <2> SUFFICES ASSUME NEW c \in 1..asked
               PROVE  \/ c \in ToSet(answered') \cup Names(hands'[d])
                      \/ pc[d] = "preparing" /\ next' <= c
    BY DEF CallsAccounted
  <2>1. \/ c \in ToSet(answered) \cup Names(hands[d])
        \/ pc[d] = "preparing" /\ next <= c
    BY <1>0, OpenInHand
  <2> QED  BY <2>1, MachineAssumption
<1>5. CallsInOrder'
  BY <1>0, MachineAssumption DEF CallsInOrder, Owning
<1>6. CallsHeldOnce'
  BY <1>0, NoNames DEF CallsHeldOnce
<1> QED  BY <1>1, <1>2, <1>3, <1>4, <1>5, <1>6

LEMMA RefuseKeeps == ASSUME CallsKept, NEW d \in Drivers, Refuse(d)  PROVE CallsKept'
<1> USE DEF CallsKept, TypeOK
<1>1. /\ pc[d] = "preparing" /\ next <= asked /\ answered' = Append(answered, next)
      /\ next' = next + 1 /\ next \in CallIds /\ next' \in next..(MaxBatch + 1)
      /\ UNCHANGED <<machine, interrupted, pc, loop, hands, asked, lost>>
      /\ next \notin ToSet(answered) /\ next \notin Names(hands[d]) /\ lost = {}
  BY MachineAssumption DEF Refuse, CallsInOrder, CallIds
<1>2. /\ answered' \in Seq(CallIds) /\ ToSet(answered') = ToSet(answered) \cup {next}
      /\ IsInjective(answered')
  BY <1>1, AppendedSet DEF AnsweredOnce
<1>3. AnsweredOnce' /\ Ascending(hands'[d]) /\ Names(hands'[d]) \cap ToSet(answered') = {}
  BY <1>1, <1>2 DEF AnsweredOnce, CallsHeldOnce
<1>4. /\ \A c \in 1..asked : next <= c /\ c < next' => c \in ToSet(answered')
      /\ \A c \in ToSet(answered') \cup Names(hands[d]) : c < next'
  <2>1. ToSet(answered) \subseteq CallIds /\ Names(hands[d]) \subseteq CallIds
    <3>1. hands[d] \in Seq(Prepared)
      OBVIOUS
    <3> QED  BY <3>1, Elements, NamesAreCalls
  <2>2. \A c \in ToSet(answered) \cup Names(hands[d]) : c < next
    BY <1>1 DEF CallsInOrder
  <2> QED  BY <1>1, <1>2, <2>1, <2>2 DEF CallIds
<1>5. \A c \in ToSet(answered) \cup Names(hands[d]) : c \in ToSet(answered') \cup Names(hands'[d])
  BY <1>1, <1>2
<1> QED  BY <1>1, <1>2, <1>3, <1>4, <1>5, WorksOn

LEMMA EvaluateKeeps ==
  ASSUME CallsKept, NEW d \in Drivers, NEW grant \in Grants, Evaluate(d, grant)
  PROVE  CallsKept'
<1> USE DEF CallsKept, TypeOK
<1> DEFINE entry == [call |-> next, grant |-> grant, run |-> "no"]
<1>1. /\ pc[d] = "preparing" /\ next <= asked
      /\ hands' = [hands EXCEPT ![d] = Append(@, entry)]
      /\ next' = next + 1 /\ next \in CallIds /\ next' \in next..(MaxBatch + 1)
      /\ UNCHANGED <<machine, interrupted, pc, loop, asked, answered, lost>>
      /\ entry \in Prepared /\ hands[d] \in Seq(Prepared) /\ entry.call = next
  <2>1. /\ pc[d] = "preparing" /\ next <= asked
        /\ hands' = [hands EXCEPT ![d] = Append(@, entry)] /\ next' = next + 1
        /\ UNCHANGED <<machine, interrupted, pc, loop, asked, answered, lost>>
        /\ hands[d] \in Seq(Prepared)
    BY DEF Evaluate
  <2>2. next \in CallIds /\ next' \in next..(MaxBatch + 1)
    BY <2>1, MachineAssumption DEF CallsInOrder, CallIds
  <2>3. entry \in Prepared
    BY <2>2 DEF Prepared, Grants
  <2> QED  BY <2>1, <2>2, <2>3
<1> HIDE DEF entry
<1>2. /\ \A c \in ToSet(answered) \cup Names(hands[d]) : c < next /\ c \in Int
      /\ next \in Int
  <2>1. ToSet(answered) \subseteq CallIds /\ Names(hands[d]) \subseteq CallIds
    BY <1>1, Elements, NamesAreCalls
  <2> QED  BY <1>1, <2>1 DEF CallsInOrder, CallIds
<1>3. /\ hands'[d] \in Seq(Prepared) /\ hands' \in [Drivers -> Seq(Prepared)]
      /\ Names(hands'[d]) = Names(hands[d]) \cup {next} /\ Ascending(hands'[d])
      /\ \A e \in Drivers \ {d} : hands'[e] = hands[e]
  <2>1. hands'[d] = Append(hands[d], entry)
    BY <1>1
  <2>2. Ascending(hands[d])
    BY DEF CallsHeldOnce
  <2>3. /\ hands'[d] \in Seq(Prepared) /\ Names(hands'[d]) = Names(hands[d]) \cup {next}
        /\ Ascending(hands'[d])
    BY <1>1, <1>2, <2>1, <2>2, AppendedNames
  <2>4. hands' \in [Drivers -> Seq(Prepared)] /\ \A e \in Drivers \ {d} : hands'[e] = hands[e]
    BY <1>1, <2>1, <2>3
  <2> QED  BY <2>3, <2>4
<1>4. AnsweredOnce' /\ Names(hands'[d]) \cap ToSet(answered') = {}
  <2>1. next \notin ToSet(answered)
    BY <1>2
  <2> QED  BY <1>1, <1>3, <2>1 DEF AnsweredOnce, CallsHeldOnce
<1>5. /\ \A c \in 1..asked : next <= c /\ c < next' => c \in Names(hands'[d])
      /\ \A c \in ToSet(answered') \cup Names(hands'[d]) : c < next'
  BY <1>1, <1>2, <1>3 DEF CallIds
<1>6. \A c \in ToSet(answered) \cup Names(hands[d]) : c \in ToSet(answered') \cup Names(hands'[d])
  BY <1>1, <1>3
<1>7. answered' \in Seq(CallIds)
  BY <1>1
<1> QED  BY <1>1, <1>3, <1>4, <1>5, <1>6, <1>7, WorksOn

LEMMA RunningKeeps ==
  ASSUME CallsKept, NEW d \in Drivers, NEW k \in DOMAIN hands[d],
         Invoke(d, k) \/ ToolReturns(d, k)
  PROVE  CallsKept'
<1>1. /\ pc[d] = "executing"
      /\ UNCHANGED <<machine, interrupted, pc, loop, asked, next, answered, lost>>
      /\ \E to \in {"running", "returned", "skipped"} :
           hands' = [hands EXCEPT ![d] = [@ EXCEPT ![k].run = to]]
  BY DEF Invoke, ToolReturns, calls
<1>2. hands[d] \in Seq(Prepared) /\ hands \in [Drivers -> Seq(Prepared)]
  BY DEF CallsKept, TypeOK
<1>3. PICK to \in {"running", "returned", "skipped"} : hands'[d] = [hands[d] EXCEPT ![k].run = to]
  BY <1>1, <1>2
<1>4. /\ hands'[d] \in Seq(Prepared) /\ DOMAIN hands'[d] = DOMAIN hands[d]
      /\ \A j \in DOMAIN hands[d] : hands'[d][j].call = hands[d][j].call
  <2>1. hands[d][k] \in Prepared
    BY <1>2
  <2>2. [hands[d][k] EXCEPT !.run = to] \in Prepared
    BY <2>1 DEF Prepared
  <2>3. \A j \in DOMAIN hands[d] : hands[d][j] \in Prepared
    BY <1>2
  <2>4. \A j \in DOMAIN hands[d] : hands'[d][j].call = hands[d][j].call
    BY <1>2, <1>3, <2>3 DEF Prepared
  <2> QED  BY <1>2, <1>3, <2>2, <2>4
<1>5. Names(hands'[d]) = Names(hands[d]) /\ (Ascending(hands[d]) => Ascending(hands'[d]))
  BY <1>4 DEF Names, Ascending
<1>6. /\ hands' \in [Drivers -> Seq(Prepared)]
      /\ \A e \in Drivers \ {d} : hands'[e] = hands[e]
  BY <1>1, <1>2, <1>4
<1>7. next' \in next..(MaxBatch + 1)
  BY <1>1, MachineAssumption DEF CallsKept, TypeOK
<1>8. /\ AnsweredOnce' /\ answered' \in Seq(CallIds)
      /\ Ascending(hands'[d]) /\ Names(hands'[d]) \cap ToSet(answered') = {}
  BY <1>1, <1>5 DEF CallsKept, TypeOK, AnsweredOnce, CallsHeldOnce
<1> QED  BY <1>1, <1>5, <1>6, <1>7, <1>8, WorksOn

LEMMA RecordingKeeps ==
  ASSUME CallsKept, NEW d \in Drivers, RecordOutput(d) \/ CancelRecord(d)
  PROVE  CallsKept'
<1> DEFINE call == Head(hands[d]).call
<1>1. /\ pc[d] \in {"executing", "cancelling"} /\ pc[d] # "preparing" /\ hands[d] # <<>>
      /\ UNCHANGED <<machine, interrupted, pc, loop, asked, next, lost>>
      /\ answered' = Append(answered, call)
      /\ hands' = [hands EXCEPT ![d] = Tail(@)]
  BY DEF RecordOutput, CancelRecord
<1>2. /\ hands \in [Drivers -> Seq(Prepared)] /\ hands[d] \in Seq(Prepared)
      /\ Ascending(hands[d]) /\ Names(hands[d]) \cap ToSet(answered) = {}
      /\ answered \in Seq(CallIds) /\ IsInjective(answered) /\ ToSet(answered) \cap lost = {}
      /\ lost = {}
  BY <1>1 DEF CallsKept, TypeOK, CallsHeldOnce, AnsweredOnce, CallsInOrder
<1>3. /\ hands'[d] = Tail(hands[d]) /\ Tail(hands[d]) \in Seq(Prepared)
      /\ Ascending(hands'[d]) /\ Names(hands[d]) = Names(hands'[d]) \cup {call}
      /\ call \notin Names(hands'[d]) /\ call \in CallIds
  <2>1. hands'[d] = Tail(hands[d])
    BY <1>1, <1>2
  <2>2. Head(hands[d]) \in Prepared
    BY <1>1, <1>2, HeadTaken
  <2>3. call \in CallIds
    BY <2>2 DEF Prepared
  <2> QED  BY <1>1, <1>2, <2>1, <2>3, HeadTaken
<1> HIDE DEF call
<1>4. /\ answered' \in Seq(CallIds) /\ ToSet(answered') = ToSet(answered) \cup {call}
      /\ IsInjective(answered')
  <2>1. call \notin ToSet(answered)
    BY <1>2, <1>3
  <2> QED  BY <1>1, <1>2, <1>3, <2>1, AppendedSet
<1>5. AnsweredOnce' /\ Names(hands'[d]) \cap ToSet(answered') = {}
  BY <1>1, <1>2, <1>3, <1>4 DEF AnsweredOnce
<1>6. /\ hands' \in [Drivers -> Seq(Prepared)]
      /\ \A e \in Drivers \ {d} : hands'[e] = hands[e]
  BY <1>1, <1>2, <1>3
<1>7. next' \in next..(MaxBatch + 1)
  BY <1>1, MachineAssumption DEF CallsKept, TypeOK
<1>8. \A c \in ToSet(answered) \cup Names(hands[d]) : c \in ToSet(answered') \cup Names(hands'[d])
  BY <1>3, <1>4
<1> QED  BY <1>1, <1>3, <1>4, <1>5, <1>6, <1>7, <1>8, WorksOn

LEMMA CancelStartKeeps == ASSUME CallsKept, NEW d \in Drivers, CancelStart(d)  PROVE CallsKept'
<1> USE DEF CallsKept, TypeOK, CancelStart, calls
<1>0. /\ \A e \in Drivers : /\ pc[e] \notin Owning /\ hands[e] = <<>>
                            /\ pc'[e] = IF e = d THEN "cancelling" ELSE pc[e]
                            /\ hands'[e] = IF e = d THEN pending ELSE <<>>
      /\ pending' = <<>> /\ state' = "Executing"
      /\ pending # <<>>
  BY AtRest DEF Resting, CallsInPlace
<1>1. TypeOK'
  BY DEF Owning
<1>2. OneDriver'
  BY <1>0 DEF OneDriver, Owns, Owning, Resting
<1>3. CallsInPlace'
  BY <1>0 DEF CallsInPlace, Owning
<1>4. CallsAccounted'
  BY <1>0, NoNames DEF CallsAccounted, Owning
<1>5. CallsInOrder' /\ AnsweredOnce'
  BY <1>0 DEF CallsInOrder, AnsweredOnce, Owning
<1>6. CallsHeldOnce'
  BY <1>0, NoNames DEF CallsHeldOnce
<1> QED  BY <1>1, <1>2, <1>3, <1>4, <1>5, <1>6

LEMMA InterruptKeeps == ASSUME CallsKept, Interrupt  PROVE CallsKept'
BY DEF CallsKept, TypeOK, OneDriver, Owns, AnsweredOnce, CallsInPlace, CallsAccounted, CallsInOrder,
       CallsHeldOnce, Interrupt, machine, loop, calls

LEMMA DecideKeeps ==
  ASSUME CallsKept, NEW k \in DOMAIN pending, NEW grant \in {"allow", "deny"}, Decide(k, grant)
  PROVE  CallsKept'
<1> USE DEF CallsKept, TypeOK, Decide, loop, calls
<1>0. /\ state \in {"Deciding", "Ready"} /\ state \in Resting
      /\ pending' \in Seq(Prepared) /\ Len(pending') = Len(pending) /\ pending' # <<>>
      /\ lost = {}
  <2>1. pending # <<>>
    BY DEF CallsInPlace
  <2>2. state \in {"Deciding", "Ready"} /\ state \in Resting /\ lost = {}
    BY <2>1 DEF CallsInPlace, CallsInOrder, Resting
  <2>3. [pending[k] EXCEPT !.grant = grant] \in Prepared
    <3>1. pending[k] \in Prepared
      OBVIOUS
    <3> QED  BY <3>1 DEF Prepared
  <2>4. pending' \in Seq(Prepared) /\ Len(pending') = Len(pending)
    BY <2>3
  <2>5. pending' # <<>>
    BY <2>1, <2>4
  <2> QED  BY <2>2, <2>4, <2>5
<1>1. Names(pending') = Names(pending)
  <2>1. \A j \in DOMAIN pending : pending'[j].call = pending[j].call
    BY DEF Prepared
  <2>2. DOMAIN pending' = DOMAIN pending
    OBVIOUS
  <2> QED  BY <2>1, <2>2 DEF Names
<1>2. state' = StateFor(pending') /\ state' \in {"Deciding", "Ready"}
  BY <1>0, StateForRests
<1>3. TypeOK'
  BY <1>0, <1>2 DEF Resting
<1>4. \A d \in Drivers : pc[d] \notin Owning /\ hands[d] = <<>>
  BY <1>0, AtRest
<1>5. OneDriver'
  BY <1>2, <1>4 DEF OneDriver, Owns, Owning, Resting
<1>6. CallsInPlace'
  BY <1>2, <1>4 DEF CallsInPlace
<1>7. CallsAccounted'
  BY <1>1 DEF CallsAccounted
<1>8. CallsInOrder' /\ AnsweredOnce'
  BY <1>0 DEF CallsInOrder, AnsweredOnce
<1>9. CallsHeldOnce'
  <2>1. /\ DOMAIN pending' = DOMAIN pending
        /\ \A j \in DOMAIN pending : pending'[j].call = pending[j].call
    BY DEF Prepared
  <2> QED  BY <1>1, <2>1 DEF CallsHeldOnce, Ascending
<1> QED  BY <1>3, <1>5, <1>6, <1>7, <1>8, <1>9

LEMMA AnswerUndoneKeeps == ASSUME CallsKept, AnswerUndone  PROVE CallsKept'
<1> USE DEF CallsKept, TypeOK, AnswerUndone, loop, calls
<1>1. TypeOK'
  BY DEF Resting
<1>2. OneDriver'
  BY DEF OneDriver, Owns, Owning, Resting
<1>3. CallsInPlace' /\ CallsAccounted' /\ CallsInOrder' /\ AnsweredOnce' /\ CallsHeldOnce'
  BY DEF CallsInPlace, CallsAccounted, CallsInOrder, AnsweredOnce, CallsHeldOnce
<1> QED  BY <1>1, <1>2, <1>3

---------------------------------------------------------------------------
(* What the calls in hand were granted.                                    *)

LEMMA NothingGranted == \A place : AsGranted(<<>>, place)
BY DEF AsGranted

LEMMA GrantedTail ==
  ASSUME NEW held \in Seq(Prepared), held # <<>>, NEW place, AsGranted(held, place)
  PROVE  AsGranted(Tail(held), place)
<1>1. \A k \in DOMAIN Tail(held) : k + 1 \in DOMAIN held /\ Tail(held)[k] = held[k + 1]
  OBVIOUS
<1> QED  BY <1>1 DEF AsGranted

LEMMA GrantedElsewhere ==
  ASSUME NEW held, NEW from, NEW to, AsGranted(held, from), from # "executing",
         to = "executing" => \A k \in DOMAIN held : held[k].grant # "ask"
  PROVE  AsGranted(held, to)
BY DEF AsGranted

\* Actions that hand no call over.
LEMMA GrantsStay ==
  ASSUME IInv, UNCHANGED <<pending, hands, asked>>,
         \A d \in Drivers : hands[d] = <<>> \/ pc'[d] = pc[d]
  PROVE  CallsAsGranted'
BY NothingGranted DEF IInv, CallsAsGranted

\* One driver's calls change, or the queue.
LEMMA GrantsMove ==
  ASSUME IInv, NEW d \in Drivers, \A e \in Drivers \ {d} : hands'[e] = <<>>,
         Names(hands'[d]) \subseteq 1..asked', AsGranted(hands'[d], pc'[d]),
         Names(pending') \subseteq 1..asked', AsGranted(pending', "queue")
  PROVE  CallsAsGranted'
BY NothingGranted, NoNames DEF CallsAsGranted

LEMMA CallerGrants ==
  ASSUME IInv, NEW d \in Drivers, TurnStart(d) \/ StepStart(d)  PROVE CallsAsGranted'
<1>1. UNCHANGED <<pending, hands, asked>> /\ pc[d] \notin Owning
      /\ pc' = [pc EXCEPT ![d] = pc'[d]]
  BY DEF TurnStart, StepStart, machine, calls, IInv, CallsKept, TypeOK, Owning
<1>2. \A e \in Drivers : hands[e] = <<>> \/ pc'[e] = pc[e]
  BY <1>1 DEF IInv, CallsKept, CallsInPlace, TypeOK, Owning
<1> QED  BY <1>1, <1>2, GrantsStay

LEMMA LookerGrants ==
  ASSUME IInv, NEW d \in Drivers,
         TurnLook(d) \/ StepBusy(d) \/ StepAcknowledge(d) \/ StepNothing(d)
  PROVE  CallsAsGranted'
<1>1. UNCHANGED <<pending, hands, asked>> /\ pc[d] \notin Owning
      /\ \E to : pc' = [pc EXCEPT ![d] = to]
  BY DEF TurnLook, StepBusy, StepAcknowledge, StepNothing, machine, calls, Owning
<1>2. \A e \in Drivers : hands[e] = <<>> \/ pc'[e] = pc[e]
  BY <1>1 DEF IInv, CallsKept, CallsInPlace, TypeOK, Owning
<1> QED  BY <1>1, <1>2, GrantsStay

LEMMA RequestGrants ==
  ASSUME IInv, NEW d \in Drivers, ClaimRequest(d) \/ Conclude(d) \/ EndCalls(d) \/ CancelEnd(d)
  PROVE  CallsAsGranted'
<1>1. UNCHANGED <<pending, hands, asked>> /\ hands[d] = <<>>
      /\ \E to : pc' = [pc EXCEPT ![d] = to]
  BY DEF ClaimRequest, Conclude, EndCalls, CancelEnd, calls, IInv, CallsKept, CallsInPlace
<1>2. \A e \in Drivers : hands[e] = <<>> \/ pc'[e] = pc[e]
  BY <1>1 DEF IInv, CallsKept, TypeOK
<1> QED  BY <1>1, <1>2, GrantsStay

LEMMA RefuseGrants ==
  ASSUME IInv, NEW d \in Drivers, Refuse(d)  PROVE CallsAsGranted'
BY GrantsStay DEF Refuse, machine

LEMMA OutsiderGrants ==
  ASSUME IInv, Interrupt \/ AnswerUndone  PROVE CallsAsGranted'
BY GrantsStay DEF Interrupt, AnswerUndone, machine, calls

LEMMA RespondGrants ==
  ASSUME IInv, NEW d \in Drivers, NEW n \in 0..MaxBatch, Respond(d, n)
  PROVE  CallsAsGranted'
<1>1. /\ pc[d] \in Owning /\ hands[d] = <<>> /\ hands' = hands /\ pending' = pending
  BY DEF Respond, Owning, machine, IInv, CallsKept, CallsInPlace
<1>2. pending = <<>> /\ \A e \in Drivers \ {d} : hands[e] = <<>>
  BY <1>1, AtWork DEF IInv
<1> QED  BY <1>1, <1>2, GrantsMove, NothingGranted, NoNames

LEMMA ClaimGrants ==
  ASSUME IInv, NEW d \in Drivers, ClaimCalls(d) \/ CancelStart(d)  PROVE CallsAsGranted'
<1>1. /\ state \in Resting /\ pending' = <<>> /\ asked' = asked
      /\ hands' = [hands EXCEPT ![d] = pending]
      /\ \/ pc' = [pc EXCEPT ![d] = "executing"] /\ state = "Ready"
         \/ pc' = [pc EXCEPT ![d] = "cancelling"]
  BY DEF ClaimCalls, CancelStart, calls, IInv, CallsKept, CallsInPlace, Resting
<1>2. /\ hands'[d] = pending /\ \A e \in Drivers \ {d} : hands'[e] = <<>>
      /\ pc'[d] \in {"executing", "cancelling"} /\ (pc'[d] = "executing" => state = "Ready")
  BY <1>1, AtRest DEF IInv, CallsKept, TypeOK
<1>3. state = "Ready" => \A k \in DOMAIN pending : pending[k].grant # "ask"
  BY DEF IInv, CallsKept, CallsInPlace, StateFor
<1>4. AsGranted(hands'[d], pc'[d]) /\ Names(hands'[d]) \subseteq 1..asked'
  BY <1>1, <1>2, <1>3, GrantedElsewhere DEF IInv, CallsAsGranted
<1> QED  BY <1>1, <1>2, <1>4, GrantsMove, NothingGranted, NoNames

LEMMA QueueGrants ==
  ASSUME IInv, NEW d \in Drivers, Queue(d) \/ Abandon(d)  PROVE CallsAsGranted'
<1>1. /\ pc[d] \in Owning /\ hands' = [hands EXCEPT ![d] = <<>>] /\ asked' = asked
      /\ (pending' = hands[d] /\ pc[d] = "preparing") \/ pending' = pending
  BY DEF Queue, Abandon, Awaiting, Owning, calls
<1>2. /\ hands'[d] = <<>> /\ \A e \in Drivers \ {d} : hands'[e] = <<>>
  BY <1>1, AtWork DEF IInv, CallsKept, TypeOK
<1>3. AsGranted(pending', "queue") /\ Names(pending') \subseteq 1..asked'
  BY <1>1, GrantedElsewhere DEF IInv, CallsAsGranted
<1> QED  BY <1>1, <1>2, <1>3, GrantsMove, NothingGranted, NoNames

LEMMA RecordingGrants ==
  ASSUME IInv, NEW d \in Drivers, RecordOutput(d) \/ CancelRecord(d)  PROVE CallsAsGranted'
<1>1. /\ pc[d] \in Owning /\ hands[d] # <<>> /\ hands' = [hands EXCEPT ![d] = Tail(@)]
      /\ UNCHANGED <<pending, pc, asked>>
  BY DEF RecordOutput, CancelRecord, Owning, machine
<1>2. /\ hands'[d] = Tail(hands[d]) /\ \A e \in Drivers \ {d} : hands'[e] = <<>>
      /\ hands[d] \in Seq(Prepared) /\ Ascending(hands[d])
  BY <1>1, AtWork DEF IInv, CallsKept, CallsHeldOnce, TypeOK
<1>3. AsGranted(hands'[d], pc'[d]) /\ Names(hands'[d]) \subseteq 1..asked'
  BY <1>1, <1>2, GrantedTail, HeadTaken DEF IInv, CallsAsGranted
<1>4. AsGranted(pending', "queue") /\ Names(pending') \subseteq 1..asked'
  BY <1>1 DEF IInv, CallsAsGranted
<1> QED  BY <1>2, <1>3, <1>4, GrantsMove

LEMMA EvaluateGrants ==
  ASSUME IInv, NEW d \in Drivers, NEW grant \in Grants, Evaluate(d, grant)
  PROVE  CallsAsGranted'
<1> DEFINE entry == [call |-> next, grant |-> grant, run |-> "no"]
<1>1. /\ pc[d] = "preparing" /\ pc[d] \in Owning /\ next \in CallIds /\ next \in 1..asked
      /\ hands' = [hands EXCEPT ![d] = Append(@, entry)] /\ UNCHANGED <<pending, pc, asked>>
  BY MachineAssumption
  DEF Evaluate, Owning, machine, IInv, CallsKept, CallsInOrder, TypeOK, CallIds
<1>2. entry \in Prepared /\ entry.call = next /\ entry.run = "no"
  BY <1>1 DEF Prepared, Grants
<1> HIDE DEF entry
<1>3. /\ hands'[d] = Append(hands[d], entry) /\ \A e \in Drivers \ {d} : hands'[e] = <<>>
      /\ hands[d] \in Seq(Prepared)
  BY <1>1, AtWork DEF IInv, CallsKept, TypeOK
<1>4. Names(hands'[d]) \subseteq 1..asked'
  BY <1>1, <1>2, <1>3, AppendedNames DEF IInv, CallsAsGranted
<1>5. AsGranted(hands'[d], pc'[d])
  <2>1. \A k \in DOMAIN hands'[d] :
          hands'[d][k] = entry \/ (k \in DOMAIN hands[d] /\ hands'[d][k] = hands[d][k])
    BY <1>3
  <2>2. AsGranted(hands[d], pc[d])
    BY DEF IInv, CallsAsGranted
  <2> QED  BY <1>1, <1>2, <2>1, <2>2 DEF AsGranted
<1>6. AsGranted(pending', "queue") /\ Names(pending') \subseteq 1..asked'
  BY <1>1 DEF IInv, CallsAsGranted
<1> QED  BY <1>3, <1>4, <1>5, <1>6, GrantsMove

LEMMA RunningGrants ==
  ASSUME IInv, NEW d \in Drivers, NEW k \in DOMAIN hands[d],
         Invoke(d, k) \/ ToolReturns(d, k)
  PROVE  CallsAsGranted'
<1>1. /\ pc[d] = "executing" /\ pc[d] \in Owning /\ UNCHANGED <<pending, pc, asked>>
      /\ \E to \in {"running", "returned", "skipped"} :
           /\ hands' = [hands EXCEPT ![d] = [@ EXCEPT ![k].run = to]]
           /\ \/ to = "skipped" \/ hands[d][k].grant # "deny"
              \/ hands[d][k].run = "running"
  BY DEF Invoke, ToolReturns, calls, machine, Owning
<1>2. /\ hands[d] \in Seq(Prepared) /\ hands \in [Drivers -> Seq(Prepared)]
      /\ AsGranted(hands[d], pc[d]) /\ \A e \in Drivers \ {d} : hands[e] = <<>>
  BY <1>1, AtWork DEF IInv, CallsKept, TypeOK, CallsAsGranted
<1>3. PICK to \in {"running", "returned", "skipped"} :
        /\ hands'[d] = [hands[d] EXCEPT ![k].run = to]
        /\ to = "skipped" \/ hands[d][k].grant # "deny" \/ hands[d][k].run = "running"
  BY <1>1, <1>2
<1>4. \A j \in DOMAIN hands[d] : hands[d][j] \in Prepared
  BY <1>2
<1>5. /\ DOMAIN hands'[d] = DOMAIN hands[d]
      /\ \A j \in DOMAIN hands[d] :
           /\ hands'[d][j].call = hands[d][j].call /\ hands'[d][j].grant = hands[d][j].grant
           /\ hands'[d][j].run = IF j = k THEN to ELSE hands[d][j].run
  BY <1>3, <1>4 DEF Prepared
<1>6. hands[d][k].grant \in {"allow", "deny", "ask"}
  BY <1>4 DEF Prepared
<1>7. AsGranted(hands'[d], pc'[d])
  <2> SUFFICES ASSUME NEW j \in DOMAIN hands[d]
               PROVE  /\ hands'[d][j].run \in {"running", "returned"} => hands[d][j].grant = "allow"
                      /\ hands[d][j].grant # "ask"
    BY <1>1, <1>5 DEF AsGranted
  <2>1. CASE j = k
    BY <1>1, <1>2, <1>3, <1>5, <1>6, <2>1 DEF AsGranted
  <2>2. CASE j # k
    BY <1>1, <1>2, <1>5, <2>2 DEF AsGranted
  <2> QED  BY <2>1, <2>2
<1>8. Names(hands'[d]) = Names(hands[d])
  BY <1>5 DEF Names
<1>9. /\ \A e \in Drivers \ {d} : hands'[e] = <<>>
      /\ AsGranted(pending', "queue") /\ Names(pending') \subseteq 1..asked'
  BY <1>1, <1>2 DEF IInv, CallsAsGranted
<1> QED  BY <1>1, <1>7, <1>8, <1>9, GrantsMove DEF IInv, CallsAsGranted

LEMMA DecideGrants ==
  ASSUME IInv, NEW k \in DOMAIN pending, NEW grant \in {"allow", "deny"}, Decide(k, grant)
  PROVE  CallsAsGranted'
<1>1. /\ pending' = [pending EXCEPT ![k].grant = grant] /\ UNCHANGED <<hands, pc, asked>>
      /\ pending \in Seq(Prepared) /\ AsGranted(pending, "queue")
      /\ Names(pending) \subseteq 1..asked
  BY DEF Decide, calls, IInv, CallsKept, TypeOK, CallsAsGranted
<1>2. \A j \in DOMAIN pending : pending[j] \in Prepared
  BY <1>1
<1>3. /\ DOMAIN pending' = DOMAIN pending
      /\ \A j \in DOMAIN pending :
           pending'[j].call = pending[j].call /\ pending'[j].run = pending[j].run
  BY <1>1, <1>2 DEF Prepared
<1>4. AsGranted(pending', "queue") /\ Names(pending') = Names(pending)
  BY <1>1, <1>3 DEF AsGranted, Names
<1> QED  BY <1>1, <1>4 DEF IInv, CallsAsGranted

---------------------------------------------------------------------------
(* What CallLife is shown.                                                 *)

HeldLives == {"allowed", "denied", "undecided", "running", "cancelled"}

LEMMA LivesHeld ==
  ASSUME NEW entry \in Prepared, NEW place  PROVE LifeOf(entry, place) \in HeldLives
<1>1. entry.grant \in {"allow", "deny", "ask"}
  BY DEF Prepared
<1>2. Granted[entry.grant] \in HeldLives
  BY <1>1 DEF Granted, HeldLives
<1> QED  BY <1>2 DEF LifeOf, HeldLives

LEMMA FateOfOne ==
  ASSUME NEW held \in Seq(Prepared), Ascending(held), NEW k \in DOMAIN held, NEW place
  PROVE  Fates(held, place, held[k].call) = {LifeOf(held[k], place)}
<1>1. \A j \in DOMAIN held : held[j] \in Prepared /\ j \in Int
  OBVIOUS
<1>2. \A j \in DOMAIN held : held[j].call \in Int
  BY <1>1 DEF Prepared, CallIds
<1>3. \A j \in DOMAIN held : held[j].call = held[k].call => j = k
  BY <1>1, <1>2 DEF Ascending
<1>4. {j \in DOMAIN held : held[j].call = held[k].call} = {k}
  BY <1>3
<1> QED  BY <1>4 DEF Fates

LEMMA NoFate ==
  ASSUME NEW held, NEW place, NEW c, c \notin Names(held)
  PROVE  Fates(held, place, c) = {}
BY DEF Fates, Names

LEMMA FatesHeld ==
  ASSUME NEW held \in Seq(Prepared), NEW place, NEW c
  PROVE  Fates(held, place, c) \subseteq HeldLives
<1>1. \A j \in DOMAIN held : held[j] \in Prepared
  OBVIOUS
<1> QED  BY <1>1, LivesHeld DEF Fates

LEMMA FatesElsewhere ==
  ASSUME NEW held, NEW from, NEW to, from # "cancelling", to # "cancelling", NEW c
  PROVE  Fates(held, to, c) = Fates(held, from, c)
BY DEF Fates, LifeOf

LEMMA FatesTail ==
  ASSUME NEW held \in Seq(Prepared), held # <<>>, Ascending(held), NEW place,
         NEW c, c # Head(held).call
  PROVE  Fates(Tail(held), place, c) = Fates(held, place, c)
<1>1. /\ DOMAIN held = 1..Len(held) /\ Len(held) \in Nat /\ Head(held) = held[1]
      /\ DOMAIN Tail(held) = 1..(Len(held) - 1)
      /\ \A k \in 1..(Len(held) - 1) : Tail(held)[k] = held[k + 1]
  OBVIOUS
<1>2. \A k \in DOMAIN Tail(held) : k + 1 \in DOMAIN held
  BY <1>1
<1>3. \A k \in DOMAIN held : k # 1 => k - 1 \in DOMAIN Tail(held) /\ Tail(held)[k - 1] = held[k]
  BY <1>1
<1>4. \A fate \in Fates(Tail(held), place, c) : fate \in Fates(held, place, c)
  BY <1>1, <1>2 DEF Fates
<1>5. ASSUME NEW fate \in Fates(held, place, c)  PROVE fate \in Fates(Tail(held), place, c)
  <2>1. PICK k \in DOMAIN held : held[k].call = c /\ fate = LifeOf(held[k], place)
    BY <1>5 DEF Fates
  <2>2. k # 1
    BY <1>1, <2>1
  <2>3. k - 1 \in DOMAIN Tail(held) /\ Tail(held)[k - 1] = held[k]
    BY <1>3, <2>2
  <2> QED  BY <2>1, <2>3 DEF Fates
<1> QED  BY <1>4, <1>5

LEMMA FatesAppended ==
  ASSUME NEW held \in Seq(Prepared), NEW entry \in Prepared, NEW place,
         NEW c, c # entry.call
  PROVE  Fates(Append(held, entry), place, c) = Fates(held, place, c)
<1>1. /\ DOMAIN Append(held, entry) = DOMAIN held \cup {Len(held) + 1}
      /\ Append(held, entry)[Len(held) + 1] = entry
      /\ \A k \in DOMAIN held : Append(held, entry)[k] = held[k]
  OBVIOUS
<1> QED  BY <1>1 DEF Fates

\* Who holds a call tells its life.
FatesRead ==
  /\ \A d \in Drivers : pc[d] \in Owning =>
       \A c \in 1..asked : FatesOf(c) = Fates(hands[d], pc[d], c)
  /\ state \in Resting => \A c \in 1..asked : FatesOf(c) = Fates(pending, "queue", c)

LifeRead ==
  \A c \in 1..asked :
    /\ c \in ToSet(answered) => Life(c) = "answered"
    /\ c \in lost => Life(c) = "lost"
    /\ c \notin ToSet(answered) \cup lost =>
         /\ FatesOf(c) = {} => Life(c) = "asked"
         /\ \A fate \in HeldLives : FatesOf(c) = {fate} => Life(c) = fate
         /\ Life(c) \in HeldLives \cup {"asked"}

StageRead ==
  /\ state \in {"Deciding", "Ready"} => Stage = "waiting"
  /\ state = "Executing" => Stage = "working"
  /\ state \in {"Idle", "Finished"} => Stage = "done"
  /\ \A d \in Drivers : pc[d] = "preparing" => Stage = "preparing"
  /\ \A d \in Drivers : pc[d] \in {"requesting", "concluding"} => Stage = "done"

LEMMA FatesAreRead == CallsKept => FatesRead
<1> SUFFICES ASSUME CallsKept  PROVE FatesRead
  OBVIOUS
<1>1. \A place, c : Fates(<<>>, place, c) = {}
  BY NoFate, NoNames
<1>2. ASSUME NEW d \in Drivers, pc[d] \in Owning, NEW c \in 1..asked
      PROVE  FatesOf(c) = Fates(hands[d], pc[d], c)
  BY <1>1, <1>2, AtWork DEF FatesOf
<1>3. ASSUME state \in Resting, NEW c \in 1..asked
      PROVE  FatesOf(c) = Fates(pending, "queue", c)
  BY <1>1, <1>3, AtRest DEF FatesOf
<1> QED  BY <1>2, <1>3 DEF FatesRead

LEMMA LifeIsRead == CallsKept => LifeRead
<1> SUFFICES ASSUME CallsKept, NEW c \in 1..asked
             PROVE  /\ c \in ToSet(answered) => Life(c) = "answered"
                    /\ c \in lost => Life(c) = "lost"
                    /\ c \notin ToSet(answered) \cup lost =>
                         /\ FatesOf(c) = {} => Life(c) = "asked"
                         /\ \A fate \in HeldLives : FatesOf(c) = {fate} => Life(c) = fate
                         /\ Life(c) \in HeldLives \cup {"asked"}
  BY DEF LifeRead
<1>1. FatesOf(c) \subseteq HeldLives
  BY FatesHeld DEF FatesOf, CallsKept, TypeOK
<1>2. FatesOf(c) # {} => (CHOOSE fate \in FatesOf(c) : TRUE) \in FatesOf(c)
  OBVIOUS
<1>3. c \notin ToSet(answered) \/ c \notin lost
  BY DEF CallsKept, AnsweredOnce
<1> QED  BY <1>1, <1>2, <1>3 DEF Life

LEMMA StageIsRead == CallsKept => StageRead
BY DEF CallsKept, OneDriver, Owns, Owning, Stage, StageRead

---------------------------------------------------------------------------
(* The steps, as CallLife tells them.                                      *)

\* A call that is held has the life its entry tells.
LEMMA LifeInHand ==
  ASSUME IInv, FatesRead, LifeRead, NEW d \in Drivers, pc[d] \in Owning, NEW k \in DOMAIN hands[d]
  PROVE  /\ hands[d][k] \in Prepared /\ hands[d][k].call \in 1..asked
         /\ hands[d][k].call \notin ToSet(answered) \cup lost
         /\ FatesOf(hands[d][k].call) = {LifeOf(hands[d][k], pc[d])}
         /\ Life(hands[d][k].call) = LifeOf(hands[d][k], pc[d])
<1> DEFINE c == hands[d][k].call
<1>1. /\ hands[d] \in Seq(Prepared) /\ Ascending(hands[d]) /\ hands[d] # <<>>
      /\ Names(hands[d]) \subseteq 1..asked /\ Names(hands[d]) \cap ToSet(answered) = {}
  BY DEF IInv, CallsKept, TypeOK, CallsHeldOnce, CallsAsGranted
<1>2. lost = {}
  BY <1>1 DEF IInv, CallsKept, CallsInOrder, CallsInPlace
<1>3. hands[d][k] \in Prepared /\ c \in Names(hands[d])
  BY <1>1 DEF Names
<1>4. FatesOf(c) = {LifeOf(hands[d][k], pc[d])}
  BY <1>1, <1>3, FateOfOne DEF FatesRead
<1>5. Life(c) = LifeOf(hands[d][k], pc[d])
  BY <1>1, <1>2, <1>3, <1>4, LivesHeld DEF LifeRead
<1> QED  BY <1>1, <1>2, <1>3, <1>4, <1>5

LEMMA LifeInQueue ==
  ASSUME IInv, FatesRead, LifeRead, state \in Resting, NEW k \in DOMAIN pending
  PROVE  /\ pending[k] \in Prepared /\ pending[k].call \in 1..asked
         /\ pending[k].call \notin ToSet(answered) \cup lost
         /\ FatesOf(pending[k].call) = {LifeOf(pending[k], "queue")}
         /\ Life(pending[k].call) = LifeOf(pending[k], "queue")
<1> DEFINE c == pending[k].call
<1>1. /\ pending \in Seq(Prepared) /\ Ascending(pending) /\ pending # <<>>
      /\ Names(pending) \subseteq 1..asked /\ Names(pending) \cap ToSet(answered) = {}
  BY DEF IInv, CallsKept, TypeOK, CallsHeldOnce, CallsAsGranted
<1>2. lost = {}
  BY <1>1 DEF IInv, CallsKept, CallsInOrder
<1>3. pending[k] \in Prepared /\ c \in Names(pending)
  BY <1>1 DEF Names
<1>4. FatesOf(c) = {LifeOf(pending[k], "queue")}
  BY <1>1, <1>3, FateOfOne DEF FatesRead
<1>5. Life(c) = LifeOf(pending[k], "queue")
  BY <1>1, <1>2, <1>3, <1>4, LivesHeld DEF LifeRead
<1> QED  BY <1>1, <1>2, <1>3, <1>4, <1>5

HandsRead ==
  /\ \A d \in Drivers : pc[d] \in Owning =>
       \A k \in DOMAIN hands[d], c \in 1..asked :
         hands[d][k].call = c => Life(c) = LifeOf(hands[d][k], pc[d])
  /\ state \in Resting =>
       \A k \in DOMAIN pending, c \in 1..asked :
         pending[k].call = c => Life(c) = LifeOf(pending[k], "queue")

Shown == FatesRead /\ LifeRead /\ StageRead /\ HandsRead

LEMMA ShownAlways == IInv => Shown
<1> SUFFICES ASSUME IInv  PROVE Shown
  OBVIOUS
<1>1. FatesRead /\ LifeRead /\ StageRead
  BY FatesAreRead, LifeIsRead, StageIsRead DEF IInv
<1>2. HandsRead
  BY <1>1, LifeInHand, LifeInQueue DEF HandsRead
<1> QED  BY <1>1, <1>2 DEF Shown

LEMMA OpenCalls ==
  ASSUME LifeRead
  PROVE  Promise!Open = {c \in 1..asked : c \notin ToSet(answered) \cup lost}
<1>1. HeldLives \cap {"answered", "lost"} = {} /\ "asked" \notin {"answered", "lost"}
  BY DEF HeldLives
<1>2. \A c \in 1..asked :
        Life(c) \notin {"answered", "lost"} <=> c \notin ToSet(answered) \cup lost
  BY <1>1 DEF LifeRead
<1> QED  BY <1>2 DEF Promise!Open, Promise!Settled

\* A step that moves nothing CallLife speaks of.
LEMMA Unmoved ==
  ASSUME asked' = asked, \A c \in 1..asked : Life(c)' = Life(c), Stage' = Stage
  PROVE  UNCHANGED Promise!vars
BY DEF Promise!vars

LEMMA SameLife ==
  ASSUME answered' = answered, lost' = lost, NEW c, FatesOf(c)' = FatesOf(c)
  PROVE  Life(c)' = Life(c)
BY DEF Life

---------------------------------------------------------------------------
(* Steps that CallLife does not tell.                                      *)

LEMMA FatesStay ==
  ASSUME UNCHANGED <<pending, hands>>, \A d \in Drivers : hands[d] = <<>> \/ pc'[d] = pc[d],
         NEW c
  PROVE  FatesOf(c)' = FatesOf(c)
<1>1. \A place : Fates(<<>>, place, c) = {}
  BY NoFate, NoNames
<1>2. \A d \in Drivers : Fates(hands[d], pc'[d], c) = Fates(hands[d], pc[d], c)
  BY <1>1
<1> QED  BY <1>2 DEF FatesOf

LEMMA StutterStay ==
  ASSUME UNCHANGED <<pending, hands, asked, answered, lost>>, Stage' = Stage,
         \A d \in Drivers : hands[d] = <<>> \/ pc'[d] = pc[d]
  PROVE  UNCHANGED Promise!vars
<1>1. \A c \in 1..asked : Life(c)' = Life(c)
  <2> TAKE c \in 1..asked
  <2>1. FatesOf(c)' = FatesOf(c)
    BY FatesStay
  <2> QED  BY <2>1, SameLife
<1> QED  BY <1>1, Unmoved

LEMMA WanderingStutters ==
  ASSUME IInv, NEW d \in Drivers,
         \/ TurnStart(d) \/ TurnLook(d) \/ StepStart(d) \/ StepBusy(d)
         \/ StepAcknowledge(d) \/ StepNothing(d)
  PROVE  UNCHANGED Promise!vars
<1>1. /\ UNCHANGED <<pending, hands, asked, answered, lost, state>> /\ pc[d] \notin Owning
      /\ \E to \in {"away", "looking", "stepping"} : pc' = [pc EXCEPT ![d] = to]
  BY DEF TurnStart, TurnLook, StepStart, StepBusy, StepAcknowledge, StepNothing, machine, calls,
         Owning
<1>2. \A e \in Drivers : hands[e] = <<>> \/ pc'[e] = pc[e]
  BY <1>1 DEF IInv, CallsKept, CallsInPlace, TypeOK, Owning
<1>3. \A e \in Drivers : pc'[e] = "preparing" <=> pc[e] = "preparing"
  BY <1>1 DEF IInv, CallsKept, TypeOK, Owning
<1>4. Stage' = Stage
  BY <1>1, <1>3 DEF Stage
<1> QED  BY <1>1, <1>2, <1>4, StutterStay

LEMMA RequestStutters ==
  ASSUME IInv, Shown, Shown', NEW d \in Drivers, ClaimRequest(d) \/ Conclude(d)
  PROVE  UNCHANGED Promise!vars
<1>1. /\ UNCHANGED <<pending, hands, asked, answered, lost>> /\ hands[d] = <<>>
      /\ \E to : pc' = [pc EXCEPT ![d] = to]
  BY DEF ClaimRequest, Conclude, calls, IInv, CallsKept, CallsInPlace
<1>2. \A e \in Drivers : hands[e] = <<>> \/ pc'[e] = pc[e]
  BY <1>1 DEF IInv, CallsKept, TypeOK
<1>3. Stage = "done"
  BY DEF ClaimRequest, Conclude, Shown, StageRead
<1>4. Stage' = "done"
  <2>1. ClaimRequest(d) => pc'[d] = "requesting"
    BY DEF ClaimRequest, IInv, CallsKept, TypeOK
  <2>2. Conclude(d) => state' = "Finished"
    BY DEF Conclude
  <2> QED  BY <2>1, <2>2 DEF Shown, StageRead
<1> QED  BY <1>1, <1>2, <1>3, <1>4, StutterStay

LEMMA OutsiderStutters ==
  ASSUME Shown, Shown', Interrupt \/ AnswerUndone  PROVE UNCHANGED Promise!vars
<1>1. UNCHANGED <<pending, hands, asked, answered, lost, pc>>
  BY DEF Interrupt, AnswerUndone, machine, calls
<1>2. Stage' = Stage
  <2>1. CASE Interrupt
    BY <2>1 DEF Interrupt, machine, Stage
  <2>2. CASE AnswerUndone
    BY <2>2 DEF AnswerUndone, Shown, StageRead
  <2> QED  BY <2>1, <2>2
<1> QED  BY <1>1, <1>2, StutterStay

---------------------------------------------------------------------------
(* Steps that it does.                                                     *)

LEMMA RespondAsks ==
  ASSUME IInv, Shown, Shown', NEW d \in Drivers, NEW n \in 0..MaxBatch, Respond(d, n)
  PROVE  Promise!Ask(n)
<1>1. /\ pc[d] = "requesting" /\ pc[d] \in Owning /\ hands[d] = <<>> /\ hands' = hands
      /\ pending' = pending /\ asked' = n /\ answered' = <<>> /\ lost' = {}
      /\ pc'[d] = IF n = 0 THEN "concluding" ELSE "preparing"
  BY DEF Respond, Owning, machine, IInv, CallsKept, CallsInPlace, TypeOK
<1>2. Stage = "done"
  BY <1>1 DEF Shown, StageRead
<1>3. Promise!Open = {}
  <2>1. \A c \in 1..asked : c \in ToSet(answered) \cup lost
    BY <1>1, OpenInHand, NoNames DEF IInv
  <2> QED  BY <2>1, OpenCalls DEF Shown
<1>4. \A c \in 1..asked' : Life(c)' = "asked"
  <2>1. \A c \in 1..asked' : FatesOf(c)' = Fates(hands'[d], pc'[d], c)
    BY <1>1 DEF Shown, FatesRead, Owning
  <2>2. \A c : Fates(<<>>, pc'[d], c) = {}
    BY NoFate, NoNames
  <2>3. \A c \in 1..asked' : FatesOf(c)' = {}
    BY <1>1, <2>1, <2>2
  <2>4. \A c : c \notin ToSet(answered') \cup lost'
    BY <1>1, NothingAnswered
  <2> QED  BY <2>3, <2>4 DEF Shown, LifeRead
<1>5. Stage' = IF n = 0 THEN "done" ELSE "preparing"
  BY <1>1 DEF Shown, StageRead
<1> QED  BY <1>1, <1>2, <1>3, <1>4, <1>5 DEF Promise!Ask

LEMMA PreparingInOrder ==
  ASSUME IInv, Shown, NEW d \in Drivers, pc[d] = "preparing"
  PROVE  /\ next \in Nat \ {0} /\ lost = {} /\ pc[d] \in Owning /\ Stage = "preparing"
         /\ next \notin ToSet(answered) \cup Names(hands[d])
         /\ next \in 1..asked => Life(next) = "asked"
         /\ \A c \in 1..asked : c < next => Life(c) # "asked"
<1>1. /\ next \in Nat \ {0} /\ lost = {} /\ pc[d] \in Owning /\ Stage = "preparing"
      /\ hands[d] \in Seq(Prepared)
      /\ \A c \in ToSet(answered) \cup Names(hands[d]) : c < next
  BY DEF IInv, CallsKept, TypeOK, CallsInOrder, Shown, StageRead, Owning
<1>2. next \notin ToSet(answered) \cup Names(hands[d])
  BY <1>1
<1>3. next \in 1..asked => Life(next) = "asked"
  BY <1>1, <1>2, NoFate DEF Shown, FatesRead, LifeRead
<1>4. ASSUME NEW c \in 1..asked, c < next  PROVE Life(c) # "asked"
  <2>1. CASE c \in ToSet(answered)
    BY <2>1 DEF Shown, LifeRead
  <2>2. CASE c \notin ToSet(answered)
    <3>1. c \in Names(hands[d])
      BY <1>1, <1>4, <2>2, OpenInHand DEF IInv
    <3>2. PICK k \in DOMAIN hands[d] : hands[d][k].call = c
      BY <3>1 DEF Names
    <3> QED  BY <1>1, <3>2, LifeInHand, LivesHeld DEF HeldLives, Shown
  <2> QED  BY <2>1, <2>2
<1> QED  BY <1>1, <1>2, <1>3, <1>4

\* One call moves and the others stay.
LEMMA OneMoves ==
  ASSUME asked' = asked, NEW c \in 1..asked,
         \A other \in 1..asked : other # c => Life(other)' = Life(other)
  PROVE  [i \in 1..asked' |-> Life(i)'] = [[i \in 1..asked |-> Life(i)] EXCEPT ![c] = Life(c)']
OBVIOUS

LEMMA PreparesNext ==
  ASSUME IInv, Shown, Shown', NEW d \in Drivers, pc[d] = "preparing", pc' = pc,
         NEW c \in 1..asked, c = next, asked' = asked, lost' = lost,
         \A other \in 1..asked : other # c =>
           /\ other \in ToSet(answered') <=> other \in ToSet(answered)
           /\ Fates(hands'[d], pc[d], other) = Fates(hands[d], pc[d], other),
         Life(c)' \in {"undecided", "allowed", "denied", "answered"}
  PROVE  Promise!Next
<1>1. /\ Life(c) = "asked" /\ Stage = "preparing" /\ pc[d] \in Owning
      /\ \A earlier \in 1..(c - 1) : Life(earlier) # "asked" /\ earlier \in 1..asked
  BY PreparingInOrder DEF IInv, CallsKept, TypeOK
<1>2. Stage' = "preparing"
  BY DEF Shown, StageRead
<1>3. ASSUME NEW other \in 1..asked, other # c  PROVE Life(other)' = Life(other)
  <2>1. /\ FatesOf(other)' = Fates(hands'[d], pc'[d], other)
        /\ FatesOf(other) = Fates(hands[d], pc[d], other)
    BY <1>1 DEF Shown, FatesRead
  <2>2. /\ FatesOf(other)' = FatesOf(other)
        /\ other \in ToSet(answered)' <=> other \in ToSet(answered)
    BY <1>3, <2>1
  <2> QED  BY <2>2 DEF Life
<1>4. [i \in 1..asked' |-> Life(i)'] = [[i \in 1..asked |-> Life(i)] EXCEPT ![c] = Life(c)']
  BY <1>3, OneMoves
<1>5. Promise!Prepare(c, Life(c)')
  BY <1>1, <1>2, <1>4 DEF Promise!Prepare
<1>6. Life(c)' \in Promise!Waiting \cup {"answered"}
  BY DEF Promise!Waiting
<1> QED  BY <1>5, <1>6 DEF Promise!Next

LEMMA RefusePrepares ==
  ASSUME IInv, Shown, Shown', NEW d \in Drivers, Refuse(d)  PROVE Promise!Next
<1>1. /\ pc[d] = "preparing" /\ pc' = pc /\ next <= asked /\ asked' = asked /\ lost' = lost
      /\ answered' = Append(answered, next) /\ hands' = hands
  BY DEF Refuse
<1>2. next \in 1..asked /\ next \in CallIds /\ answered \in Seq(CallIds)
  BY <1>1, PreparingInOrder, MachineAssumption DEF IInv, CallsKept, TypeOK, CallIds
<1>3. ToSet(answered') = ToSet(answered) \cup {next}
  BY <1>1, <1>2, AppendedSet
<1>4. PICK c \in 1..asked : c = next
  BY <1>2
<1>5. Life(c)' = "answered"
  BY <1>1, <1>3, <1>4 DEF Shown, LifeRead
<1> QED  BY <1>1, <1>3, <1>4, <1>5, PreparesNext

LEMMA EvaluatePrepares ==
  ASSUME IInv, IInv', Shown, Shown', NEW d \in Drivers, NEW grant \in Grants, Evaluate(d, grant)
  PROVE  Promise!Next
<1> DEFINE entry == [call |-> next, grant |-> grant, run |-> "no"]
<1>1. /\ pc[d] = "preparing" /\ pc[d] \in Owning /\ pc' = pc /\ asked' = asked /\ lost' = lost
      /\ next \in CallIds /\ next \in 1..asked /\ answered' = answered
      /\ hands' = [hands EXCEPT ![d] = Append(@, entry)]
  BY MachineAssumption
  DEF Evaluate, Owning, machine, IInv, CallsKept, CallsInOrder, TypeOK, CallIds
<1>2. entry \in Prepared /\ entry.call = next /\ entry.run = "no" /\ entry.grant = grant
  BY <1>1 DEF Prepared, Grants
<1> HIDE DEF entry
<1>3. hands'[d] = Append(hands[d], entry) /\ hands[d] \in Seq(Prepared)
  BY <1>1 DEF IInv, CallsKept, TypeOK
<1>4. PICK c \in 1..asked : c = next
  BY <1>1
<1>5. PICK k \in DOMAIN hands'[d] : hands'[d][k] = entry
  BY <1>3
<1>6. Life(c)' = Granted[grant]
  <2>1. Life(c)' = LifeOf(entry, pc[d])
    BY <1>1, <1>2, <1>4, <1>5 DEF Shown, HandsRead
  <2> QED  BY <1>1, <1>2, <2>1 DEF LifeOf
<1>7. Granted[grant] \in {"undecided", "allowed", "denied"}
  BY DEF Granted, Grants
<1>8. \A other \in 1..asked : other # c =>
        Fates(hands'[d], pc[d], other) = Fates(hands[d], pc[d], other)
  BY <1>2, <1>3, <1>4, FatesAppended
<1> QED  BY <1>1, <1>4, <1>6, <1>7, <1>8, PreparesNext

LEMMA QueueQueues ==
  ASSUME IInv, Shown, Shown', NEW d \in Drivers, Queue(d)  PROVE Promise!Queue
<1>1. /\ pc[d] = "preparing" /\ pc[d] \in Owning /\ next > asked /\ pending' = hands[d]
      /\ state' = StateFor(hands[d]) /\ asked' = asked /\ answered' = answered /\ lost' = lost
      /\ lost = {} /\ next \in Nat /\ asked \in Nat /\ hands[d] \in Seq(Prepared)
  BY PreparingInOrder DEF Queue, Owning, calls, IInv, CallsKept, TypeOK
<1>2. state' \in Resting /\ state' \in {"Idle", "Deciding", "Ready"}
  BY <1>1, StateForRests DEF Resting
<1>3. \A c \in 1..asked : Life(c)' = Life(c)
  <2> TAKE c \in 1..asked
  <2>1. FatesOf(c) = Fates(hands[d], "preparing", c)
    BY <1>1 DEF Shown, FatesRead
  <2>2. FatesOf(c)' = Fates(hands[d], "queue", c)
    BY <1>1, <1>2 DEF Shown, FatesRead
  <2>3. FatesOf(c)' = FatesOf(c)
    BY <2>1, <2>2, FatesElsewhere
  <2> QED  BY <1>1, <2>3, SameLife
<1>4. \A c \in 1..asked : Life(c) # "asked"
  BY <1>1, PreparingInOrder
<1>5. Stage = "preparing"
  BY <1>1 DEF Shown, StageRead
<1>6. Promise!Open = {} <=> hands[d] = <<>>
  <2>1. Promise!Open = {c \in 1..asked : c \notin ToSet(answered)}
    BY <1>1, OpenCalls DEF Shown
  <2>2. \A c \in 1..asked : c \notin ToSet(answered) => c \in Names(hands[d])
    BY <1>1, OpenInHand DEF IInv
  <2>3. \A c \in Names(hands[d]) : c \in 1..asked /\ c \notin ToSet(answered)
    BY DEF IInv, CallsKept, CallsHeldOnce, CallsAsGranted
  <2>4. Promise!Open = Names(hands[d])
    BY <2>1, <2>2, <2>3
  <2>5. hands[d] # <<>> => hands[d][1].call \in Names(hands[d])
    BY <1>1 DEF Names
  <2> QED  BY <2>4, <2>5, NoNames
<1>7. Stage' = IF Promise!Open = {} THEN "done" ELSE "waiting"
  BY <1>1, <1>2, <1>6, StateForRests DEF Shown, StageRead
<1> QED  BY <1>1, <1>3, <1>4, <1>5, <1>7 DEF Promise!Queue

LEMMA ClaimBegins ==
  ASSUME IInv, Shown, Shown', NEW d \in Drivers, ClaimCalls(d)  PROVE Promise!Begin
<1>1. /\ state = "Ready" /\ state \in Resting /\ hands'[d] = pending /\ pc'[d] = "executing"
      /\ pc'[d] \in Owning /\ UNCHANGED <<asked, answered, lost>> /\ state' = "Executing"
  BY DEF ClaimCalls, Resting, calls, IInv, CallsKept, TypeOK, Owning
<1>2. \A c \in 1..asked : Life(c)' = Life(c)
  <2> TAKE c \in 1..asked
  <2>1. FatesOf(c) = Fates(pending, "queue", c) /\ FatesOf(c)' = Fates(pending, "executing", c)
    BY <1>1 DEF Shown, FatesRead
  <2>2. FatesOf(c)' = FatesOf(c)
    BY <2>1, FatesElsewhere
  <2> QED  BY <1>1, <2>2, SameLife
<1>3. Stage = "waiting" /\ Stage' = "working"
  BY <1>1 DEF Shown, StageRead
<1>4. \A c \in Promise!Open : Life(c) # "undecided"
  <2> TAKE c \in Promise!Open
  <2>1. c \in 1..asked /\ c \notin ToSet(answered) \cup lost
    BY OpenCalls DEF Shown
  <2>2. \A e \in Drivers : Names(hands[e]) = {} /\ pc[e] # "preparing"
    BY <1>1, AtRest, NoNames DEF IInv, Owning
  <2>3. c \in Names(pending)
    BY <2>1, <2>2 DEF IInv, CallsKept, CallsAccounted
  <2>4. PICK k \in DOMAIN pending : pending[k].call = c
    BY <2>3 DEF Names
  <2>5. Life(c) = LifeOf(pending[k], "queue")
    BY <1>1, <2>1, <2>4 DEF Shown, HandsRead
  <2>6. pending[k] \in Prepared /\ pending[k].grant # "ask"
    BY <1>1 DEF IInv, CallsKept, TypeOK, CallsInPlace, StateFor
  <2>7. Granted[pending[k].grant] # "undecided"
    BY <2>6 DEF Granted, Prepared
  <2> QED  BY <2>5, <2>7 DEF LifeOf
<1>5. \A c \in Promise!Open : c \in 1..asked
  BY OpenCalls DEF Shown
<1> QED  BY <1>1, <1>2, <1>3, <1>4, <1>5 DEF Promise!Begin

LEMMA CancelCancels ==
  ASSUME IInv, Shown, Shown', NEW d \in Drivers, CancelStart(d)  PROVE Promise!Cancel
<1>1. /\ state \in {"Deciding", "Ready"} /\ state \in Resting /\ hands'[d] = pending
      /\ pc'[d] = "cancelling" /\ pc'[d] \in Owning /\ state' = "Executing"
      /\ UNCHANGED <<asked, answered, lost>>
  BY DEF CancelStart, Resting, calls, IInv, CallsKept, CallsInPlace, TypeOK, Owning
<1>2. Stage = "waiting" /\ Stage' = "working"
  BY <1>1 DEF Shown, StageRead
<1>3. Promise!Open = {c \in 1..asked : c \notin ToSet(answered) \cup lost}
  BY OpenCalls DEF Shown
<1>4. ASSUME NEW c \in 1..asked, c \in Promise!Open  PROVE Life(c)' = "cancelled"
  <2>1. \A e \in Drivers : Names(hands[e]) = {} /\ pc[e] # "preparing"
    BY <1>1, AtRest, NoNames DEF IInv, Owning
  <2>2. c \in Names(pending)
    BY <1>3, <1>4, <2>1 DEF IInv, CallsKept, CallsAccounted
  <2>3. PICK k \in DOMAIN pending : pending[k].call = c
    BY <2>2 DEF Names
  <2>4. Life(c)' = LifeOf(pending[k], "cancelling")
    BY <1>1, <2>3 DEF Shown, HandsRead
  <2> QED  BY <2>4 DEF LifeOf
<1>5. ASSUME NEW c \in 1..asked, c \notin Promise!Open  PROVE Life(c)' = Life(c)
  BY <1>1, <1>3, <1>5 DEF Shown, LifeRead
<1> QED  BY <1>1, <1>2, <1>4, <1>5 DEF Promise!Cancel

LEMMA DecisionDecides ==
  ASSUME IInv, Shown, Shown', NEW k \in DOMAIN pending, NEW grant \in {"allow", "deny"},
         Decide(k, grant), IInv'
  PROVE  Promise!Next
<1>1. /\ state \in {"Deciding", "Ready"} /\ state \in Resting /\ pending[k].grant = "ask"
      /\ pending' = [pending EXCEPT ![k].grant = grant] /\ state' = StateFor(pending')
      /\ UNCHANGED <<asked, answered, lost>> /\ pending \in Seq(Prepared)
      /\ pending' \in Seq(Prepared)
  BY DEF Decide, Resting, calls, IInv, CallsKept, CallsInPlace, TypeOK
<1>2. \A j \in DOMAIN pending : pending[j] \in Prepared
  BY <1>1
<1>3. /\ DOMAIN pending' = DOMAIN pending
      /\ \A j \in DOMAIN pending :
           /\ pending'[j].call = pending[j].call /\ pending'[j].run = pending[j].run
           /\ pending'[j].grant = IF j = k THEN grant ELSE pending[j].grant
           /\ j # k => pending'[j] = pending[j]
  BY <1>1, <1>2 DEF Prepared
<1>4. /\ state' \in {"Deciding", "Ready"} /\ state' \in Resting
  <2>1. pending' # <<>>
    BY <1>1, <1>3
  <2> QED  BY <1>1, <2>1, StateForRests DEF Resting
<1>5. Stage = "waiting" /\ Stage' = "waiting"
  BY <1>1, <1>4 DEF Shown, StageRead
<1>6. PICK c \in 1..asked : c = pending[k].call
  BY DEF IInv, CallsAsGranted, Names
<1>7. Life(c) = "undecided"
  <2>1. Life(c) = LifeOf(pending[k], "queue")
    BY <1>1, <1>6 DEF Shown, HandsRead
  <2>2. pending[k].run = "no"
    BY DEF IInv, CallsAsGranted, AsGranted
  <2> QED  BY <1>1, <2>1, <2>2 DEF LifeOf, Granted
<1>8. Life(c)' \in {"allowed", "denied"}
  <2>1. Life(c)' = LifeOf(pending'[k], "queue")
    BY <1>1, <1>3, <1>4, <1>6 DEF Shown, HandsRead
  <2>2. pending'[k].run = "no" /\ pending'[k].grant = grant
    BY <1>3 DEF IInv, CallsAsGranted, AsGranted
  <2> QED  BY <2>1, <2>2 DEF LifeOf, Granted
<1>9. ASSUME NEW other \in 1..asked, other # c  PROVE Life(other)' = Life(other)
  <2>1. Fates(pending', "queue", other) = Fates(pending, "queue", other)
    BY <1>3, <1>6, <1>9 DEF Fates
  <2>2. FatesOf(other)' = FatesOf(other)
    BY <1>1, <1>4, <2>1 DEF Shown, FatesRead
  <2> QED  BY <1>1, <2>2, SameLife
<1>10. [i \in 1..asked' |-> Life(i)'] = [[i \in 1..asked |-> Life(i)] EXCEPT ![c] = Life(c)']
  BY <1>1, <1>9, OneMoves
<1>11. Promise!Decide(c, Life(c)')
  BY <1>5, <1>7, <1>10 DEF Promise!Decide
<1> QED  BY <1>8, <1>11 DEF Promise!Next

\* Two holdings that differ in how far one call has got.
Furthers(after, held, k, to) ==
  /\ DOMAIN after = DOMAIN held
  /\ \A j \in DOMAIN held :
       /\ after[j].call = held[j].call /\ after[j].grant = held[j].grant
       /\ after[j].run = IF j = k THEN to ELSE held[j].run
       /\ j # k => after[j] = held[j]

LEMMA RunFurthers ==
  ASSUME NEW held \in Seq(Prepared), NEW k \in DOMAIN held, NEW to
  PROVE  Furthers([held EXCEPT ![k].run = to], held, k, to)
<1>1. \A j \in DOMAIN held : held[j] \in Prepared
  OBVIOUS
<1> QED  BY <1>1 DEF Prepared, Furthers

\* A call in hand is begun, passed over or back.
LEMMA RunMoves ==
  ASSUME IInv, Shown, Shown', NEW d \in Drivers, pc[d] = "executing", NEW k \in DOMAIN hands[d],
         NEW to \in {"running", "returned", "skipped"},
         Furthers(hands'[d], hands[d], k, to),
         UNCHANGED <<state, pc, asked, answered, lost>>,
         NEW c \in 1..asked, c = hands[d][k].call
  PROVE  /\ Life(c) = LifeOf(hands[d][k], "executing")
         /\ Life(c)' = IF to \in {"running", "returned"} THEN "running"
                       ELSE Granted[hands[d][k].grant]
         /\ \A other \in 1..asked : other # c => Life(other)' = Life(other)
         /\ Stage = "working" /\ Stage' = "working"
<1>1. /\ hands[d] \in Seq(Prepared) /\ pc[d] \in Owning /\ state = "Executing"
      /\ \A j \in DOMAIN hands[d] : hands[d][j] \in Prepared
  BY DEF IInv, CallsKept, TypeOK, OneDriver, Owning
<1>2. /\ DOMAIN hands'[d] = DOMAIN hands[d]
      /\ \A j \in DOMAIN hands[d] :
           /\ hands'[d][j].call = hands[d][j].call /\ hands'[d][j].grant = hands[d][j].grant
           /\ hands'[d][j].run = IF j = k THEN to ELSE hands[d][j].run
           /\ j # k => hands'[d][j] = hands[d][j]
  BY DEF Furthers
<1>3. Life(c) = LifeOf(hands[d][k], "executing")
  BY <1>1 DEF Shown, HandsRead
<1>4. Life(c)' = LifeOf(hands'[d][k], "executing")
  <2>1. k \in DOMAIN hands'[d] /\ hands'[d][k].call = c /\ pc'[d] \in Owning /\ c \in 1..asked'
    BY <1>1, <1>2
  <2>2. Life(c)' = LifeOf(hands'[d][k], pc'[d])
    BY <2>1 DEF Shown, HandsRead
  <2> QED  BY <2>2
<1>5. Life(c)' = IF to \in {"running", "returned"} THEN "running"
                 ELSE Granted[hands[d][k].grant]
  BY <1>2, <1>4 DEF LifeOf
<1>6. ASSUME NEW other \in 1..asked, other # c  PROVE Life(other)' = Life(other)
  <2>1. Fates(hands'[d], pc[d], other) = Fates(hands[d], pc[d], other)
    BY <1>2, <1>6 DEF Fates
  <2>2. FatesOf(other)' = FatesOf(other)
    BY <1>1, <2>1 DEF Shown, FatesRead
  <2> QED  BY <2>2, SameLife
<1>7. Stage = "working" /\ Stage' = "working"
  BY <1>1 DEF Shown, StageRead
<1> QED  BY <1>3, <1>5, <1>6, <1>7

LEMMA InvokeStarts ==
  ASSUME IInv, Shown, Shown', NEW d \in Drivers, NEW k \in DOMAIN hands[d], Invoke(d, k)
  PROVE  Promise!Next \/ UNCHANGED Promise!vars
<1>1. /\ pc[d] = "executing" /\ hands[d][k].run = "no"
      /\ UNCHANGED <<state, pc, asked, answered, lost>>
      /\ \E to \in {"running", "skipped"} :
           /\ hands'[d] = [hands[d] EXCEPT ![k].run = to]
           /\ to = "skipped" \/ hands[d][k].grant # "deny"
      /\ hands[d] \in Seq(Prepared)
  BY DEF Invoke, machine, calls, IInv, CallsKept, TypeOK
<1>2. PICK to \in {"running", "skipped"} :
        /\ Furthers(hands'[d], hands[d], k, to)
        /\ to = "skipped" \/ hands[d][k].grant # "deny"
  BY <1>1, RunFurthers
<1>3. PICK c \in 1..asked : c = hands[d][k].call
  BY DEF IInv, CallsAsGranted, Names
<1>4. /\ Life(c) = Granted[hands[d][k].grant]
      /\ Life(c)' = IF to = "running" THEN "running" ELSE Granted[hands[d][k].grant]
      /\ \A other \in 1..asked : other # c => Life(other)' = Life(other)
      /\ Stage = "working" /\ Stage' = "working"
  <2>1. /\ Life(c) = LifeOf(hands[d][k], "executing")
        /\ Life(c)' = IF to \in {"running", "returned"} THEN "running"
                      ELSE Granted[hands[d][k].grant]
        /\ \A other \in 1..asked : other # c => Life(other)' = Life(other)
        /\ Stage = "working" /\ Stage' = "working"
    <3>1. to \in {"running", "returned", "skipped"}
      OBVIOUS
    <3> QED  BY <1>1, <1>2, <1>3, <3>1, RunMoves
  <2> QED  BY <1>1, <2>1 DEF LifeOf
<1>5. CASE to = "skipped"
  BY <1>1, <1>4, <1>5, Unmoved
<1>6. CASE to = "running"
  <2>1. hands[d][k].grant = "allow"
    <3>1. hands[d][k] \in Prepared /\ hands[d][k].grant # "ask"
      BY <1>1 DEF IInv, CallsKept, TypeOK, CallsAsGranted, AsGranted
    <3> QED  BY <1>2, <1>6, <3>1 DEF Prepared
  <2>2. Life(c) = "allowed" /\ Life(c)' = "running"
    BY <1>4, <1>6, <2>1 DEF Granted
  <2>3. [i \in 1..asked' |-> Life(i)'] = [[i \in 1..asked |-> Life(i)] EXCEPT ![c] = Life(c)']
    BY <1>1, <1>4, OneMoves
  <2>4. Promise!Start(c)
    BY <1>4, <2>2, <2>3 DEF Promise!Start
  <2> QED  BY <2>4 DEF Promise!Next
<1> QED  BY <1>5, <1>6

LEMMA ReturnStutters ==
  ASSUME IInv, Shown, Shown', NEW d \in Drivers, NEW k \in DOMAIN hands[d], ToolReturns(d, k)
  PROVE  UNCHANGED Promise!vars
<1>1. /\ pc[d] = "executing" /\ hands[d][k].run = "running"
      /\ UNCHANGED <<state, pc, asked, answered, lost>>
      /\ hands'[d] = [hands[d] EXCEPT ![k].run = "returned"] /\ hands[d] \in Seq(Prepared)
  BY DEF ToolReturns, machine, calls, IInv, CallsKept, TypeOK
<1>2. PICK c \in 1..asked : c = hands[d][k].call
  BY DEF IInv, CallsAsGranted, Names
<1>3. /\ Life(c) = "running" /\ Life(c)' = "running"
      /\ \A other \in 1..asked : other # c => Life(other)' = Life(other)
      /\ Stage = "working" /\ Stage' = "working"
  <2>1. /\ Life(c) = LifeOf(hands[d][k], "executing") /\ Life(c)' = "running"
        /\ \A other \in 1..asked : other # c => Life(other)' = Life(other)
        /\ Stage = "working" /\ Stage' = "working"
    <3>1. Furthers(hands'[d], hands[d], k, "returned")
      BY <1>1, RunFurthers
    <3> QED  BY <1>1, <1>2, <3>1, RunMoves
  <2> QED  BY <1>1, <2>1 DEF LifeOf
<1> QED  BY <1>1, <1>3, Unmoved

LEMMA RecordingAnswers ==
  ASSUME IInv, Shown, Shown', NEW d \in Drivers, RecordOutput(d) \/ CancelRecord(d)
  PROVE  Promise!Next
<1>1. /\ pc[d] \in {"executing", "cancelling"} /\ pc[d] \in Owning /\ hands[d] # <<>>
      /\ hands'[d] = Tail(hands[d]) /\ answered' = Append(answered, Head(hands[d]).call)
      /\ UNCHANGED <<state, pc, asked, lost>>
      /\ hands[d] \in Seq(Prepared) /\ Ascending(hands[d]) /\ answered \in Seq(CallIds)
      /\ Names(hands[d]) \subseteq 1..asked /\ Names(hands[d]) \cap ToSet(answered) = {}
  BY DEF RecordOutput, CancelRecord, Owning, machine, IInv, CallsKept, TypeOK, CallsHeldOnce,
         CallsAsGranted
<1>2. lost = {} /\ state = "Executing"
  BY <1>1 DEF IInv, CallsKept, CallsInOrder, OneDriver
<1>3. PICK c \in 1..asked : c = Head(hands[d]).call /\ c \in CallIds
  BY <1>1, HeadTaken DEF Prepared
<1>4. ToSet(answered') = ToSet(answered) \cup {c}
  BY <1>1, <1>3, AppendedSet
<1>5. Promise!Open = Names(hands[d])
  <2>1. \A i \in 1..asked : i \notin ToSet(answered) => i \in Names(hands[d])
    BY <1>1, <1>2, OpenInHand DEF IInv
  <2> QED  BY <1>1, <1>2, <2>1, OpenCalls DEF Shown
<1>6. c \in Names(hands[d]) /\ \A earlier \in Names(hands[d]) : c <= earlier
  <2>1. /\ 1 \in DOMAIN hands[d] /\ Head(hands[d]) = hands[d][1]
        /\ \A k \in DOMAIN hands[d] : k \in Int /\ (k = 1 \/ 1 < k) /\ hands[d][k] \in Prepared
    BY <1>1
  <2>2. \A k \in DOMAIN hands[d] : k = 1 \/ hands[d][1].call < hands[d][k].call
    BY <1>1, <2>1 DEF Ascending
  <2>3. \A k \in DOMAIN hands[d] : hands[d][k].call \in Int
    BY <2>1 DEF Prepared, CallIds
  <2> QED  BY <1>3, <2>1, <2>2, <2>3 DEF Names
<1>7. Stage = "working" /\ Stage' = "working"
  BY <1>1, <1>2 DEF Shown, StageRead
<1>8. Life(c)' = "answered"
  BY <1>1, <1>4 DEF Shown, LifeRead
<1>9. ASSUME NEW other \in 1..asked, other # c  PROVE Life(other)' = Life(other)
  <2>1. Fates(hands'[d], pc[d], other) = Fates(hands[d], pc[d], other)
    BY <1>1, <1>3, <1>9, FatesTail
  <2>2. FatesOf(other)' = FatesOf(other)
    BY <1>1, <2>1 DEF Shown, FatesRead
  <2>3. other \in ToSet(answered)' <=> other \in ToSet(answered)
    BY <1>4, <1>9
  <2> QED  BY <1>1, <2>2, <2>3 DEF Life
<1>10. [i \in 1..asked' |-> Life(i)'] = [[i \in 1..asked |-> Life(i)] EXCEPT ![c] = Life(c)']
  BY <1>1, <1>9, OneMoves
<1>11. Promise!Answer(c)
  BY <1>5, <1>6, <1>7, <1>8, <1>10 DEF Promise!Answer, Promise!InOrder
<1> QED  BY <1>11 DEF Promise!Next

LEMMA EndsEnd ==
  ASSUME IInv, Shown, Shown', NEW d \in Drivers, EndCalls(d) \/ CancelEnd(d)
  PROVE  Promise!End
<1>1. /\ pc[d] \in {"executing", "cancelling"} /\ pc[d] \in Owning /\ hands[d] = <<>>
      /\ UNCHANGED <<pending, hands, asked, answered, lost>> /\ state' = "Idle"
      /\ \E to : pc' = [pc EXCEPT ![d] = to]
  BY DEF EndCalls, CancelEnd, Owning, calls
<1>2. \A e \in Drivers : hands[e] = <<>> \/ pc'[e] = pc[e]
  BY <1>1 DEF IInv, CallsKept, TypeOK
<1>3. \A c \in 1..asked : Life(c)' = Life(c)
  <2> TAKE c \in 1..asked
  <2>1. FatesOf(c)' = FatesOf(c)
    BY <1>1, <1>2, FatesStay
  <2> QED  BY <1>1, <2>1, SameLife
<1>4. Promise!Open = {}
  <2>1. \A c \in 1..asked : c \in ToSet(answered) \cup lost
    BY <1>1, OpenInHand, NoNames DEF IInv
  <2> QED  BY <2>1, OpenCalls DEF Shown
<1>5. Stage = "working" /\ Stage' = "done"
  BY <1>1 DEF Shown, StageRead, IInv, CallsKept, OneDriver
<1> QED  BY <1>1, <1>3, <1>4, <1>5 DEF Promise!End

LEMMA AbandonLoses ==
  ASSUME IInv, Shown, Shown', NEW d \in Drivers, Abandon(d)
  PROVE  Promise!Lose \/ UNCHANGED Promise!vars
<1>1. /\ pc[d] \in {"requesting", "preparing", "executing"} /\ pc[d] \in Owning
      /\ state' = "Idle" /\ lost' = lost \cup Takes(d) /\ asked' = asked /\ answered' = answered
      /\ pending' = pending /\ hands' = [hands EXCEPT ![d] = <<>>]
      /\ pc' = [pc EXCEPT ![d] = "away"]
  BY DEF Abandon, Awaiting, Owning
<1>2. Stage' = "done"
  BY <1>1 DEF Shown, StageRead
<1>3. CASE pc[d] = "requesting"
  <2>1. hands[d] = <<>> /\ hands' = hands
    BY <1>1, <1>3 DEF IInv, CallsKept, CallsInPlace, TypeOK
  <2>2. lost' = lost
    BY <1>1, <1>3, <2>1, NoNames DEF Takes
  <2>3. Stage = "done"
    BY <1>3 DEF Shown, StageRead
  <2>4. \A e \in Drivers : hands[e] = <<>> \/ pc'[e] = pc[e]
    BY <1>1, <2>1 DEF IInv, CallsKept, TypeOK
  <2> QED  BY <1>1, <1>2, <2>1, <2>2, <2>3, <2>4, StutterStay
<1>4. CASE pc[d] # "requesting"
  <2>1. Stage \in {"preparing", "working"}
    BY <1>1, <1>4 DEF Shown, StageRead, IInv, CallsKept, OneDriver
  <2>2. Promise!Open = {c \in 1..asked : c \notin ToSet(answered) \cup lost}
    BY OpenCalls DEF Shown
  <2>3. ASSUME NEW c \in 1..asked, c \in Promise!Open  PROVE Life(c)' = "lost"
    <3>1. c \in Names(hands[d]) \/ (pc[d] = "preparing" /\ next <= c)
      BY <1>1, <2>2, <2>3, OpenInHand DEF IInv
    <3>2. c \in Takes(d)
      BY <3>1 DEF Takes, IInv, CallsKept, TypeOK
    <3> QED  BY <1>1, <3>2 DEF Shown, LifeRead
  <2>4. ASSUME NEW c \in 1..asked, c \notin Promise!Open  PROVE Life(c)' = Life(c)
    BY <1>1, <2>2, <2>4 DEF Shown, LifeRead
  <2> QED  BY <1>1, <1>2, <2>1, <2>3, <2>4 DEF Promise!Lose
<1> QED  BY <1>3, <1>4

---------------------------------------------------------------------------
(* The theorems.                                                           *)

LEMMA InitHolds == Init => IInv
<1> SUFFICES ASSUME Init PROVE IInv
  OBVIOUS
<1>1. TypeOK
  <2>1. <<>> \in Seq(Prepared) /\ <<>> \in Seq(CallIds)
    OBVIOUS
  <2>2. 0 \in 0..MaxRequests /\ 0 \in 0..MaxBatch /\ 0 \in 0..(MaxBatch + 1)
    BY MachineAssumption
  <2> QED  BY <2>1, <2>2 DEF Init, TypeOK, Resting
<1>2. OneDriver /\ AnsweredOnce
  BY NothingAnswered DEF Init, OneDriver, Owns, Owning, Resting, AnsweredOnce
<1>3. CallsInPlace /\ CallsAccounted /\ CallsInOrder /\ CallsHeldOnce
  BY NoNames DEF Init, CallsInPlace, CallsAccounted, CallsInOrder, CallsHeldOnce
<1>4. CallsAsGranted
  BY NothingGranted, NoNames DEF Init, CallsAsGranted
<1> QED  BY <1>1, <1>2, <1>3, <1>4 DEF IInv, CallsKept

LEMMA NextKeeps == IInv /\ [Next]_vars => IInv'
<1> SUFFICES ASSUME IInv, [Next]_vars  PROVE IInv'
  OBVIOUS
<1>1. CASE UNCHANGED vars
  BY <1>1 DEF vars, IInv, CallsKept, CallsAsGranted, TypeOK, OneDriver, Owns, AnsweredOnce,
              CallsInPlace, CallsAccounted, CallsInOrder, CallsHeldOnce, machine, loop, calls
<1>2. ASSUME NEW d \in Drivers, Called(d)  PROVE IInv'
  BY <1>2, TurnStartKeeps, StepStartKeeps, CancelStartKeeps, CallerGrants, ClaimGrants
  DEF Called, IInv
<1>3. ASSUME NEW d \in Drivers, Request(d)  PROVE IInv'
  BY <1>3, ClaimRequestKeeps, RespondKeeps, ConcludeKeeps, RefuseKeeps, QueueKeeps,
     EvaluateKeeps, RequestGrants, RespondGrants, RefuseGrants, QueueGrants, EvaluateGrants
  DEF Request, Grants, IInv
<1>4. ASSUME NEW d \in Drivers, Execute(d)  PROVE IInv'
  BY <1>4, ClaimCallsKeeps, RunningKeeps, RecordingKeeps, EndsKeep, ClaimGrants, RunningGrants,
     RecordingGrants, RequestGrants
  DEF Execute, IInv
<1>5. ASSUME NEW d \in Drivers, Cancelling(d)  PROVE IInv'
  BY <1>5, RecordingKeeps, EndsKeep, RecordingGrants, RequestGrants DEF Cancelling, IInv
<1>6. ASSUME NEW d \in Drivers, GoesOn(d)  PROVE IInv'
  BY <1>3, <1>4, <1>5, <1>6, TurnLookKeeps, StepRefusedKeeps, AbandonKeeps, LookerGrants,
     QueueGrants
  DEF GoesOn, IInv
<1>7. CASE Anybody
  BY <1>7, InterruptKeeps, DecideKeeps, AnswerUndoneKeeps, OutsiderGrants, DecideGrants
  DEF Anybody, IInv
<1> QED  BY <1>1, <1>2, <1>6, <1>7 DEF Next

\* However many drivers there are, IInv holds: calls are held in one place each,
\* and by nobody who is not at work on them.
THEOREM MachineInvariant == Spec => []IInv
<1> QED  BY InitHolds, NextKeeps, PTL DEF Spec

\* The machine and its drivers stay of their types.
THEOREM MachineTyped == Spec => []TypeOK
<1>1. IInv => TypeOK
  BY DEF IInv, CallsKept
<1> QED  BY <1>1, MachineInvariant, PTL

\* The kernel is never driven by two at once.
THEOREM OneDriverAtATime == Spec => []OneDriver
<1>1. IInv => OneDriver
  BY DEF IInv, CallsKept
<1> QED  BY <1>1, MachineInvariant, PTL

\* The state names the queue as it is, for a client that reads one and acts on
\* the other.
THEOREM QueueIsAsShown == Spec => []QueueAsShown
<1>1. IInv => QueueAsShown
  BY DEF IInv, CallsKept, TypeOK, CallsInPlace, QueueAsShown, StateFor, Resting
<1> QED  BY <1>1, MachineInvariant, PTL

\* No request goes out over an open call, whoever cancels, decides, interrupts or
\* drops what.
THEOREM NothingOpenInARequest == Spec => []RequestsLeaveNothingOpen
<1>1. IInv => RequestsLeaveNothingOpen
  <2> SUFFICES ASSUME IInv, NEW d \in Drivers, pc[d] = "requesting", NEW c \in 1..asked
               PROVE  c \in ToSet(answered) \cup lost
    BY DEF RequestsLeaveNothingOpen
  <2>1. pc[d] \in Owning /\ hands[d] = <<>>
    BY DEF IInv, CallsKept, CallsInPlace, Owning
  <2> QED  BY <2>1, OpenInHand, NoNames DEF IInv
<1> QED  BY <1>1, MachineInvariant, PTL

\* No call is answered twice, and none that was lost is answered.
THEOREM CallsAnsweredOnce == Spec => []AnsweredOnce
<1>1. IInv => AnsweredOnce
  BY DEF IInv, CallsKept
<1> QED  BY <1>1, MachineInvariant, PTL

LEMMA InitPromised == Init => Promise!Init
<1> SUFFICES ASSUME Init  PROVE Promise!Init
  OBVIOUS
<1>1. 1..asked = {} /\ Stage = "done"
  BY DEF Init, Stage
<1> QED  BY <1>1 DEF Promise!Init

LEMMA NextPromised ==
  IInv /\ IInv' /\ Shown /\ Shown' /\ [Next]_vars => [Promise!Next]_(Promise!vars)
<1> SUFFICES ASSUME IInv, IInv', Shown, Shown', [Next]_vars
             PROVE  Promise!Next \/ UNCHANGED Promise!vars
  OBVIOUS
<1>1. CASE UNCHANGED vars
  <2>1. UNCHANGED <<pending, hands, asked, answered, lost, state, pc>>
    BY <1>1 DEF vars, machine, calls
  <2>2. Stage' = Stage
    BY <2>1 DEF Stage
  <2> QED  BY <2>1, <2>2, StutterStay
<1>2. ASSUME NEW d \in Drivers, Called(d)  PROVE Promise!Next \/ UNCHANGED Promise!vars
  BY <1>2, WanderingStutters, CancelCancels DEF Called, Promise!Next
<1>3. ASSUME NEW d \in Drivers, Request(d)  PROVE Promise!Next \/ UNCHANGED Promise!vars
  <2>1. ASSUME NEW n \in 0..MaxBatch, Respond(d, n)  PROVE Promise!Next
    BY <2>1, RespondAsks DEF Promise!Next
  <2>2. CASE Queue(d)
    BY <2>2, QueueQueues DEF Promise!Next
  <2> QED  BY <1>3, <2>1, <2>2, RequestStutters, RefusePrepares, EvaluatePrepares
           DEF Request, Grants
<1>4. ASSUME NEW d \in Drivers, Execute(d)  PROVE Promise!Next \/ UNCHANGED Promise!vars
  <2>1. CASE ClaimCalls(d)
    BY <2>1, ClaimBegins DEF Promise!Next
  <2>2. CASE EndCalls(d)
    BY <2>2, EndsEnd DEF Promise!Next
  <2> QED  BY <1>4, <2>1, <2>2, InvokeStarts, ReturnStutters, RecordingAnswers DEF Execute
<1>5. ASSUME NEW d \in Drivers, Cancelling(d)  PROVE Promise!Next \/ UNCHANGED Promise!vars
  BY <1>5, RecordingAnswers, EndsEnd DEF Cancelling, Promise!Next
<1>6. ASSUME NEW d \in Drivers, Abandon(d)  PROVE Promise!Next \/ UNCHANGED Promise!vars
  BY <1>6, AbandonLoses DEF Promise!Next
<1>7. ASSUME NEW d \in Drivers, GoesOn(d)  PROVE Promise!Next \/ UNCHANGED Promise!vars
  BY <1>3, <1>4, <1>5, <1>6, <1>7, WanderingStutters DEF GoesOn
<1>8. CASE Anybody
  BY <1>8, OutsiderStutters, DecisionDecides DEF Anybody
<1> QED  BY <1>1, <1>2, <1>7, <1>8 DEF Next

\* Whoever drives, decides, cancels, interrupts or drops a future, the calls of an
\* answer live as CallLife says: none runs undecided, refused or cancelled, and
\* each is answered in the order asked or lost with the future that held it.
THEOREM PromiseKept == Spec => KeepsItsPromise
<1> QED  BY InitPromised, NextPromised, ShownAlways, MachineInvariant, PTL
         DEF Spec, KeepsItsPromise, Promise!Spec

---------------------------------------------------------------------------
(***************************************************************************)
(* The budget of a turn, and the interrupt that falls into one, for every  *)
(* budget and number of calls, and for turns of any length, as long as     *)
(* one task at a time drives the kernel.  With two the budget can be       *)
(* passed (see MCTwoTurns).                                                *)
(*                                                                         *)
(* BudgetHolds is not inductive: a turn may stop for a decision, and the   *)
(* one that carries it on counts from what the machine has stored.         *)
(* BudgetKept says, for every place a driver can be at, which count the    *)
(* requests sent so far are held against.                                  *)
(***************************************************************************)
Alone == \A d, e \in Drivers : d = e

---------------------------------------------------------------------------
(* The record.                                                             *)

\* What is written down of the turn of a driver that is alone.
LEMMA RecordOfOne ==
  ASSUME Alone, TurnsInv, Recorded, NEW d \in Drivers
  PROVE  /\ sent' \in [Drivers -> Nat] /\ halted' \subseteq Drivers
         /\ d \in halted' => d \in halted /\ ~Begins(d)
         /\ Begins(d) => sent'[d] = IF state \in {"Deciding", "Ready"} THEN sent[d] ELSE 0
         /\ Sends(d) => sent'[d] = IF turning[d] THEN sent[d] + 1 ELSE 0
         /\ ~Begins(d) /\ ~Sends(d) => sent'[d] = sent[d]
<1>1. \A e \in Drivers : e = d
  BY DEF Alone
<1>2. sent \in [Drivers -> Nat] /\ sent[d] <= MaxRequests /\ MaxRequests \in Nat
  BY MachineAssumption DEF TurnsInv, BudgetKept
<1>3. sent' = [e \in Drivers |-> SentBy(e)] /\ halted' = {e \in halted : ~Begins(e)}
  BY DEF Recorded
<1>4. Begins(d) => ~Sends(d)
  BY DEF Begins, Sends
<1>5. SentBy(d) = IF Begins(d) THEN IF state \in {"Deciding", "Ready"} THEN sent[d] ELSE 0
                ELSE IF Sends(d) THEN IF turning[d] THEN sent[d] + 1 ELSE 0
                ELSE sent[d]
  <2>1. Sends(d) /\ ~turning[d] => ~InTurn(d)
    BY DEF InTurn
  <2>2. (\E e \in Drivers : Sends(e)) <=> Sends(d)
    BY <1>1
  <2>3. ~(sent[d] > MaxRequests)
    BY <1>2
  <2> QED BY <2>1, <2>2, <2>3 DEF SentBy
<1>6. SentBy(d) \in Nat
  BY <1>2, <1>5
<1>7. sent' \in [Drivers -> Nat]
  BY <1>1, <1>3, <1>6
<1>8. sent'[d] = SentBy(d)
  BY <1>3
<1>9. halted \subseteq Drivers
  BY DEF TurnsInv
<1> QED BY <1>3, <1>4, <1>5, <1>7, <1>8, <1>9

\* What TurnsInv says of one driver, for citing.
LEMMA Facts ==
  ASSUME TurnsInv, NEW d \in Drivers
  PROVE  /\ IInv /\ BudgetKept(d) /\ StopKept(d)
         /\ sent[d] \in Nat /\ requests[d] \in Nat /\ counted[d] \in Nat /\ turnRequests \in Nat
         /\ requests[d] <= MaxRequests /\ MaxRequests \in Nat
         /\ pc \in [Drivers -> Owning \cup {"away", "looking", "stepping"}]
         /\ turning \in [Drivers -> BOOLEAN]
         /\ requests \in [Drivers -> 0..MaxRequests] /\ counted \in [Drivers -> 0..MaxRequests]
BY MachineAssumption DEF TurnsInv, IInv, CallsKept, TypeOK

---------------------------------------------------------------------------
(* The steps of the driver.                                                *)

LEMMA TurnStartCounts ==
  ASSUME Alone, TurnsInv, NEW d \in Drivers, TurnStart(d), Recorded
  PROVE  BudgetKept(d)' /\ StopKept(d)'
<1>1. /\ pc[d] = "away" /\ pc'[d] = "looking" /\ turning'[d] = TRUE
      /\ requests'[d] = IF state \in {"Deciding", "Ready"} THEN turnRequests ELSE 0
      /\ state' = state /\ turnRequests' = turnRequests
  BY Facts DEF TurnStart, machine
<1>2. Begins(d)
  BY <1>1 DEF Begins
<1>3. sent'[d] = (IF state \in {"Deciding", "Ready"} THEN sent[d] ELSE 0) /\ d \notin halted'
  BY <1>2, RecordOfOne
<1> QED BY <1>1, <1>3, Facts DEF BudgetKept, StopKept

LEMMA LookingCounts ==
  ASSUME Alone, TurnsInv, NEW d \in Drivers, TurnLook(d), Recorded
  PROVE  BudgetKept(d)' /\ StopKept(d)'
<1>1. /\ pc[d] = "looking" /\ pc'[d] \in {"away", "stepping"} /\ turning'[d] = turning[d]
      /\ state' = state /\ turnRequests' = turnRequests /\ interrupted' = interrupted
  BY Facts DEF TurnLook, machine
<1>2. sent'[d] = sent[d] /\ (d \in halted' => d \in halted)
  BY <1>1, RecordOfOne DEF Begins, Sends
<1>3. pc'[d] = "stepping" =>
        \/ /\ state \notin {"Idle", "Finished"} /\ counted'[d] = 0 /\ requests'[d] = requests[d]
        \/ /\ state \in {"Idle", "Finished"}
           /\ requests'[d] = requests[d] + 1 /\ counted'[d] = requests[d] + 1
  BY Facts DEF TurnLook
<1>4. state \in {"Idle", "Finished", "Deciding", "Ready"}
  BY <1>1, Alone, Facts DEF Alone, IInv, CallsKept, OneDriver, Owns, Owning, Resting
<1>5. turning[d]
  BY <1>1, Facts DEF BudgetKept
<1> QED BY <1>1, <1>2, <1>3, <1>4, <1>5, Facts DEF BudgetKept, StopKept, InTurn

\* A client's step, and a step that finds nothing to do.
LEMMA SteppingAsideCounts ==
  ASSUME Alone, TurnsInv, NEW d \in Drivers, Recorded,
         StepStart(d) \/ CancelStart(d) \/ StepBusy(d) \/ StepAcknowledge(d) \/ StepNothing(d)
  PROVE  BudgetKept(d)' /\ StopKept(d)'
<1>1. CASE StepStart(d)
  <2>1. /\ pc[d] = "away" /\ pc'[d] = "stepping" /\ turning'[d] = FALSE /\ counted'[d] = 0
        /\ state' = state /\ turnRequests' = turnRequests
    BY <1>1, Facts DEF StepStart, machine
  <2>2. sent'[d] = sent[d]
    BY <2>1, RecordOfOne DEF Begins, Sends
  <2> QED BY <2>1, <2>2, Facts DEF BudgetKept, StopKept, InTurn
<1>2. CASE CancelStart(d)
  <2>1. /\ pc[d] = "away" /\ pc'[d] = "cancelling" /\ turning'[d] = FALSE
        /\ state' = "Executing" /\ turnRequests' = turnRequests
    BY <1>2, Facts DEF CancelStart
  <2>2. sent'[d] = sent[d]
    BY <2>1, RecordOfOne DEF Begins, Sends
  <2> QED BY <2>1, <2>2, Facts DEF BudgetKept, StopKept, InTurn
<1>3. CASE StepBusy(d) \/ StepAcknowledge(d) \/ StepNothing(d)
  <2>1. /\ pc[d] = "stepping" /\ pc'[d] = "away"
        /\ state' = state /\ turnRequests' = turnRequests
    BY <1>3, Facts DEF StepBusy, StepAcknowledge, StepNothing, machine
  <2>2. sent'[d] = sent[d]
    BY <2>1, RecordOfOne DEF Begins, Sends
  <2> QED BY <2>1, <2>2, Facts DEF BudgetKept, StopKept, InTurn
<1> QED BY <1>1, <1>2, <1>3

\* A claim: of a request, which is counted, or of the calls that are ready.
LEMMA ClaimingCounts ==
  ASSUME Alone, TurnsInv, NEW d \in Drivers, Recorded, ClaimRequest(d) \/ ClaimCalls(d)
  PROVE  BudgetKept(d)' /\ StopKept(d)'
<1>1. CASE ClaimRequest(d)
  <2>1. /\ pc[d] = "stepping" /\ pc'[d] = "requesting" /\ state' = "Requesting"
        /\ turnRequests' = counted[d] /\ turning'[d] = turning[d]
        /\ requests'[d] = requests[d] /\ ~interrupted /\ state \in {"Idle", "Finished"}
    BY <1>1, Facts DEF ClaimRequest, loop
  <2>2. /\ sent'[d] = IF turning[d] THEN sent[d] + 1 ELSE 0
        /\ d \in halted' => d \in halted
    BY <2>1, RecordOfOne DEF Begins, Sends
  <2>3. IF turning[d] THEN counted[d] = requests[d] /\ sent[d] < requests[d] ELSE counted[d] = 0
    BY <2>1, Facts DEF BudgetKept
  <2>4. ~(d \in halted /\ turning[d])
    BY <2>1, Facts DEF StopKept, InTurn
  <2> QED BY <2>1, <2>2, <2>3, <2>4, Facts DEF BudgetKept, StopKept, InTurn
<1>2. CASE ClaimCalls(d)
  <2>1. /\ pc[d] = "stepping" /\ pc'[d] = "executing" /\ state' = "Executing"
        /\ turning'[d] = turning[d] /\ requests'[d] = requests[d]
        /\ ~interrupted /\ state = "Ready"
    BY <1>2, Facts DEF ClaimCalls, loop
  <2>2. sent'[d] = sent[d] /\ (d \in halted' => d \in halted)
    BY <2>1, RecordOfOne DEF Begins, Sends
  <2>3. turning[d] => sent[d] <= requests[d]
    BY <2>1, Facts DEF BudgetKept
  <2>4. ~(d \in halted /\ turning[d])
    BY <2>1, Facts DEF StopKept, InTurn
  <2> QED BY <2>1, <2>2, <2>3, <2>4, Facts DEF BudgetKept, StopKept, InTurn
<1> QED BY <1>1, <1>2

\* What goes on while a driver is at work changes neither counts nor the flag.
LEMMA WorkingCounts ==
  ASSUME Alone, TurnsInv, NEW d \in Drivers, Recorded,
         pc[d] \in Owning, pc'[d] \in Owning,
         pc[d] = "requesting" => pc'[d] \in {"concluding", "preparing"},
         pc[d] # "requesting" => pc'[d] = pc[d],
         UNCHANGED <<machine, interrupted, loop>>
  PROVE  BudgetKept(d)' /\ StopKept(d)'
<1>1. sent'[d] = sent[d] /\ (d \in halted' => d \in halted)
  BY RecordOfOne DEF Begins, Sends, Owning
<1>2. UNCHANGED <<state, turnRequests, interrupted, turning, requests, counted>>
  BY DEF machine, loop
<1>3. pc'[d] \notin {"looking", "stepping", "away"} /\ pc[d] # "away"
  BY DEF Owning
<1>4. pc'[d] \in {"requesting", "preparing"} => pc[d] \in {"requesting", "preparing"}
  OBVIOUS
<1>5. pc'[d] = "executing" => pc[d] = "executing"
  OBVIOUS
<1> QED BY <1>1, <1>2, <1>3, <1>4, <1>5, Facts DEF BudgetKept, StopKept, InTurn

\* The calls are queued, and the turn goes on with them or stops for a decision.
LEMMA QueueCounts ==
  ASSUME Alone, TurnsInv, NEW d \in Drivers, Queue(d), Recorded
  PROVE  BudgetKept(d)' /\ StopKept(d)'
<1>1. /\ pc[d] = "preparing" /\ turnRequests' = turnRequests /\ interrupted' = interrupted
      /\ turning'[d] = turning[d] /\ requests'[d] = requests[d]
      /\ pc'[d] = Onward(d, state')
  BY Facts DEF Queue, loop
<1>2. pc'[d] \in {"away", "looking"} /\ (pc'[d] = "looking" => turning[d])
  BY <1>1 DEF Onward
<1>3. sent'[d] = sent[d] /\ (d \in halted' => d \in halted)
  BY <1>1, <1>2, RecordOfOne DEF Begins, Sends
<1> QED BY <1>1, <1>2, <1>3, Facts DEF BudgetKept, StopKept, InTurn

\* A driver lets the machine go.
LEMMA LettingGoCounts ==
  ASSUME Alone, TurnsInv, NEW d \in Drivers, Recorded,
         Conclude(d) \/ EndCalls(d) \/ CancelEnd(d) \/ Abandon(d)
  PROVE  BudgetKept(d)' /\ StopKept(d)'
<1>1. CASE EndCalls(d)
  <2>1. /\ pc[d] = "executing" /\ turnRequests' = turnRequests /\ interrupted' = interrupted
        /\ turning'[d] = turning[d] /\ requests'[d] = requests[d] /\ state' = "Idle"
        /\ pc'[d] = Onward(d, "Idle")
    BY <1>1, Facts DEF EndCalls, loop
  <2>2. pc'[d] \in {"away", "looking"} /\ (pc'[d] = "looking" => turning[d])
    BY <2>1 DEF Onward
  <2>3. sent'[d] = sent[d] /\ (d \in halted' => d \in halted)
    BY <2>1, <2>2, RecordOfOne DEF Begins, Sends
  <2> QED BY <2>1, <2>2, <2>3, Facts DEF BudgetKept, StopKept, InTurn
<1>2. CASE Conclude(d) \/ CancelEnd(d) \/ Abandon(d)
  <2>1. /\ pc[d] \in Owning /\ pc'[d] = "away" /\ state' \in {"Idle", "Finished"}
    BY <1>2, Facts DEF Conclude, CancelEnd, Abandon, Awaiting, Onward, Owning
  <2>2. sent'[d] = sent[d]
    BY <2>1, RecordOfOne DEF Begins, Sends, Owning
  <2> QED BY <2>1, <2>2, Facts DEF BudgetKept, StopKept, InTurn
<1> QED BY <1>1, <1>2

LEMMA DrivenCounts ==
  ASSUME Alone, TurnsInv, NEW d \in Drivers, Driven(d), Recorded
  PROVE  BudgetKept(d)' /\ StopKept(d)'
<1>1. CASE TurnStart(d) \/ TurnLook(d) \/ Queue(d)
  BY <1>1, TurnStartCounts, LookingCounts, QueueCounts
<1>2. CASE StepStart(d) \/ CancelStart(d) \/ StepBusy(d) \/ StepAcknowledge(d) \/ StepNothing(d)
  BY <1>2, SteppingAsideCounts
<1>3. CASE ClaimRequest(d) \/ ClaimCalls(d)
  BY <1>3, ClaimingCounts
<1>4. CASE Conclude(d) \/ EndCalls(d) \/ CancelEnd(d) \/ Abandon(d)
  BY <1>4, LettingGoCounts
<1>5. ASSUME NEW n \in 0..MaxBatch, Respond(d, n)
      PROVE  BudgetKept(d)' /\ StopKept(d)'
  BY <1>5, Facts, WorkingCounts DEF Respond, Owning
<1>6. ASSUME \/ Refuse(d) \/ RecordOutput(d) \/ CancelRecord(d)
             \/ \E grant \in {"allow", "deny", "ask"} : Evaluate(d, grant)
             \/ \E k \in DOMAIN hands[d] : Invoke(d, k) \/ ToolReturns(d, k)
      PROVE  BudgetKept(d)' /\ StopKept(d)'
  <2>1. /\ pc[d] \in {"preparing", "executing", "cancelling"} /\ pc' = pc
        /\ UNCHANGED <<machine, interrupted, loop>>
    BY <1>6 DEF Refuse, RecordOutput, CancelRecord, Evaluate, Invoke, ToolReturns
  <2> QED BY <2>1, WorkingCounts DEF Owning
<1> QED BY <1>1, <1>2, <1>3, <1>4, <1>5, <1>6
        DEF Driven, Called, GoesOn, Request, Execute, Cancelling

---------------------------------------------------------------------------
(* The steps of anybody.                                                   *)

\* A decision leaves the machine waiting, for another one or to go on.
LEMMA DecidingWaits ==
  ASSUME IInv, NEW k \in DOMAIN pending, NEW grant, Decide(k, grant)
  PROVE  state \in {"Deciding", "Ready"} /\ state' \in {"Deciding", "Ready"}
<1>1. pending # <<>> /\ pending \in Seq(Prepared)
  BY DEF Decide, IInv, CallsKept, TypeOK
<1>2. state \in {"Deciding", "Ready"}
  BY <1>1 DEF IInv, CallsKept, CallsInPlace
<1>3. pending' # <<>>
  BY <1>1 DEF Decide
<1> QED BY <1>2, <1>3 DEF Decide, StateFor

LEMMA OthersCount ==
  ASSUME TurnsInv, NEW d \in Drivers, sent' = sent,
         \/ Interrupt
         \/ \E k \in DOMAIN pending, grant \in {"allow", "deny"} :
              Decide(k, grant) /\ halted' = halted
         \/ AnswerUndone /\ halted' = halted
  PROVE  BudgetKept(d)' /\ StopKept(d)'
<1>1. CASE Interrupt
  BY <1>1, Facts DEF Interrupt, BudgetKept, StopKept, InTurn, machine, loop
<1>2. ASSUME NEW k \in DOMAIN pending, NEW grant, Decide(k, grant), halted' = halted
      PROVE  BudgetKept(d)' /\ StopKept(d)'
  <2>1. state \in {"Deciding", "Ready"} /\ state' \in {"Deciding", "Ready"}
    BY <1>2, DecidingWaits, Facts
  <2>2. UNCHANGED <<turnRequests, interrupted, pc, turning, requests, counted>>
    BY <1>2 DEF Decide, loop
  <2> QED BY <1>2, <2>1, <2>2, Facts DEF BudgetKept, StopKept, InTurn
<1>3. CASE AnswerUndone /\ halted' = halted
  <2>1. /\ state = "Finished" /\ state' = "Idle"
        /\ UNCHANGED <<turnRequests, interrupted, pc, turning, requests, counted>>
    BY <1>3 DEF AnswerUndone, loop
  <2> QED BY <1>3, <2>1, Facts DEF BudgetKept, StopKept, InTurn
<1> QED BY <1>1, <1>2, <1>3

---------------------------------------------------------------------------
(* The theorems.                                                           *)

\* Turns does nothing that Machine does not.
LEMMA TurnsIsMachine == [TurnsNext]_allVars => [Next]_vars
BY DEF TurnsNext, Next, Driven, Anybody, allVars

LEMMA TurnsInitHolds == TurnsInit => TurnsInv
<1> SUFFICES ASSUME TurnsInit PROVE TurnsInv
  OBVIOUS
<1>1. IInv
  BY InitHolds DEF TurnsInit
<1>2. sent \in [Drivers -> Nat] /\ halted \subseteq Drivers
  BY DEF TurnsInit
<1>3. ASSUME NEW d \in Drivers
      PROVE  BudgetKept(d) /\ StopKept(d)
  BY MachineAssumption DEF TurnsInit, Init, BudgetKept, StopKept
<1> QED BY <1>1, <1>2, <1>3 DEF TurnsInv

LEMMA TurnsNextKeeps ==
  ASSUME Alone, TurnsInv, [TurnsNext]_allVars
  PROVE  TurnsInv'
<1>1. IInv'
  BY TurnsIsMachine, NextKeeps DEF TurnsInv
<1>2. ASSUME NEW d \in Drivers, Driven(d), Recorded
      PROVE  TurnsInv'
  <2>1. \A e \in Drivers : e = d
    BY DEF Alone
  <2>2. BudgetKept(d)' /\ StopKept(d)'
    BY <1>2, DrivenCounts
  <2>3. sent' \in [Drivers -> Nat] /\ halted' \subseteq Drivers
    BY <1>2, RecordOfOne
  <2>4. \A e \in Drivers : BudgetKept(e)' /\ StopKept(e)'
    BY <2>1, <2>2
  <2> QED BY <1>1, <2>3, <2>4 DEF TurnsInv
<1>3. ASSUME sent' = sent, halted' \subseteq Drivers,
             \/ Interrupt
             \/ \E k \in DOMAIN pending, grant \in {"allow", "deny"} :
                  Decide(k, grant) /\ halted' = halted
             \/ AnswerUndone /\ halted' = halted
      PROVE  TurnsInv'
  <2>1. \A e \in Drivers : BudgetKept(e)' /\ StopKept(e)'
    BY <1>3, OthersCount
  <2> QED BY <1>1, <1>3, <2>1 DEF TurnsInv
<1>4. CASE UNCHANGED allVars
  BY <1>1, <1>4 DEF allVars, vars, machine, loop, TurnsInv, BudgetKept, StopKept, InTurn
<1>5. halted \subseteq Drivers
  BY DEF TurnsInv
<1> QED BY <1>2, <1>3, <1>4, <1>5 DEF TurnsNext

\* One task at a time driving the kernel (Kernel::turn), a turn sends no more
\* requests than max_requests_per_turn, however often it stops for a decision and
\* is called again, whatever is decided, undone, dropped or interrupted meanwhile.
THEOREM TurnsKeepTheirBudget == ASSUME Alone PROVE TurnsSpec => []BudgetHolds
<1>1. TurnsInv /\ [TurnsNext]_allVars => TurnsInv'
  BY TurnsNextKeeps
<1>2. TurnsInv => BudgetHolds
  BY DEF TurnsInv, BudgetKept, BudgetHolds
<1> QED BY <1>1, <1>2, TurnsInitHolds, PTL DEF TurnsSpec

\* And a turn that Kernel::interrupt fell into, wherever it was, sends no further
\* request.
THEOREM StopsHold == ASSUME Alone PROVE TurnsSpec => StopHolds
<1>1. TurnsInv /\ [TurnsNext]_allVars => TurnsInv'
  BY TurnsNextKeeps
<1>2. ASSUME TurnsInv, [TurnsNext]_allVars
      PROVE  [\A d \in halted : ~(turning[d] /\ Sends(d))]_allVars
  <2> SUFFICES ASSUME NEW d \in halted, turning[d], Sends(d), TurnsNext
               PROVE  FALSE
    BY <1>2
  <2>1. d \in Drivers /\ pc[d] = "stepping" /\ pc'[d] = "requesting"
    BY <1>2 DEF TurnsInv, Sends
  <2>2. interrupted
    BY <1>2, <2>1, Facts DEF StopKept, InTurn
  <2>3. ClaimRequest(d)
    <3>1. \A e \in Drivers : e = d
      BY <2>1 DEF Alone
    <3>2. PICK e \in Drivers : Driven(e)
      BY <2>1 DEF TurnsNext, Interrupt, Decide, AnswerUndone
    <3>3. Driven(d)
      BY <3>1, <3>2
    <3> QED BY <2>1, <3>3, <1>2, Facts
         DEF Driven, Called, GoesOn, Request, Execute, Cancelling, TurnStart, StepStart,
             CancelStart, TurnLook, StepBusy, StepAcknowledge, StepNothing, Respond, Conclude,
             Refuse, Queue, Evaluate, ClaimCalls, Invoke, ToolReturns, RecordOutput, EndCalls,
             CancelRecord, CancelEnd, Abandon
  <2> QED BY <2>2, <2>3 DEF ClaimRequest
<1> QED BY <1>1, <1>2, TurnsInitHolds, PTL DEF TurnsSpec, StopHolds
=============================================================================
