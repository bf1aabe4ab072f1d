------------------------------ MODULE Waiting ------------------------------
(***************************************************************************)
(* One request sent to a model's server                                    *)
(* (nachalnik-providers/src/waiting.rs and reading.rs): it is sent again   *)
(* while the server is busy, and its answer, streamed or whole, is read    *)
(* until the server ends it, breaks off, goes quiet, or somebody asks to   *)
(* stop.                                                                   *)
(*                                                                         *)
(* Time is counted in heartbeats.  A chunk is one line of a stream, or     *)
(* part of one: between two lines of a chunk the code looks at what it     *)
(* looks at between two chunks.  The server and the network do what they   *)
(* like, except that a server that refuses has not taken the request up,   *)
(* and one that was never reached has not either.                          *)
(***************************************************************************)
EXTENDS Integers, Sequences

CONSTANTS
  Tries,        \* Asking::tries
  Quiet,        \* QUIET, in heartbeats
  Patience,     \* Asking::patience
  WholePatience,\* WHOLE_ANSWER
  Linger,       \* LINGER
  Largest,      \* LARGEST, in chunks
  Asked         \* what a Retry-After may say

ASSUME WaitingAssumption ==
  /\ {Tries, Patience, WholePatience} \subseteq Nat \ {0}
  /\ {Quiet, Linger, Largest} \subseteq Nat
  /\ Asked \subseteq Nat

VARIABLES
  call,        \* `sent`: how far it is, and what of an answer this attempt has read
  answer,      \* what it returned, and for a stream how that stopped
  interrupted, \* DeltaSink::is_interrupted
  taken,       \* history: the attempts the server took up, and so is paid for
  broke,       \* history: those that broke off before a byte of their body
  handed,      \* history: those of which part of an answer was handed on
  ended        \* history: how the server itself ended a stream, other than by its finish

vars == <<call, answer, interrupted, taken, broke, handed, ended>>
history == <<taken, broke, handed, ended>>

\* An attempt: `bytes` is what has been read and is no event yet, `any` whether a byte
\* came, `seen` whether an event did, and `started` and `finished` are Events's.
Fresh(tried, streaming) ==
  [at |-> "asked", tried |-> tried, streaming |-> streaming, good |-> TRUE, silent |-> 0,
   bytes |-> 0, any |-> FALSE, seen |-> FALSE, started |-> FALSE, finished |-> FALSE,
   wait |-> 0]

NoAnswer == [kind |-> "none", how |-> "none"]

Init ==
  /\ \E streaming \in BOOLEAN : call = Fresh(1, streaming)
  /\ answer = NoAnswer /\ interrupted = FALSE
  /\ taken = {} /\ broke = {} /\ handed = {} /\ ended = "none"

At(place) == call.at = place

---------------------------------------------------------------------------
(* How an attempt ends.                                                    *)

Returns(kind, how) ==
  /\ call' = [call EXCEPT !.at = "over"] /\ answer' = [kind |-> kind, how |-> how]
  /\ UNCHANGED interrupted

Fails == Returns("error", "none")

\* The silence before the next attempt, where there is a try left.
BackOff(wait) ==
  IF call.tried >= Tries THEN Fails
  ELSE call' = [call EXCEPT !.at = "backing", !.wait = wait] /\ UNCHANGED <<answer, interrupted>>

Doublings == <<2, 4, 8, 16, 32, 64>>

Doubling ==
  LET doubling == Doublings[IF call.tried < 6 THEN call.tried ELSE 6]
  IN  IF doubling < Linger THEN doubling ELSE Linger

\* A refusal: waited out where it goes away by itself, and soon enough.
Refused(transient, wait) == IF transient /\ wait <= Linger THEN BackOff(wait) ELSE Fails

\* A refusal that came as a body or a status may say how long to wait.
RefusedSo == \E transient \in BOOLEAN, wait \in Asked \cup {Doubling} : Refused(transient, wait)

---------------------------------------------------------------------------
(* watched: the request is out and nothing has come back.                  *)

\* The server takes it up.
TakeUp ==
  /\ At("asked") /\ call.tried \notin taken
  /\ taken' = taken \cup {call.tried}
  /\ UNCHANGED <<call, answer, interrupted, broke, handed, ended>>

\* It was never reached: a connection that timed out is a busy server, one that was
\* refused a definite answer.
Unreached ==
  /\ At("asked") /\ call.tried \notin taken
  /\ BackOff(Doubling) \/ Fails
  /\ UNCHANGED history

\* Wrong form of Failed: a timeout is a busy server, connected or not.
FailedAgain ==
  /\ At("asked")
  /\ BackOff(Doubling) \/ Fails
  /\ UNCHANGED history

\* The transport gives up on it once connected, by a timeout or otherwise: the server may
\* be at work.
Failed == At("asked") /\ Fails /\ UNCHANGED history

\* The headers arrive: of a refusal only from a server that did not take it up.
Headers(good) ==
  /\ At("asked") /\ (good \/ call.tried \notin taken)
  /\ call' = [call EXCEPT !.at = IF good /\ call.streaming THEN "reading" ELSE "body",
                          !.good = good, !.silent = 0]
  /\ UNCHANGED <<answer, interrupted, history>>

\* An answer in an encoding this does not read.
Encoded ==
  /\ \/ At("reading") /\ ~call.any
     \/ At("body") /\ call.good /\ call.bytes = 0
  /\ Fails /\ UNCHANGED history

\* A heartbeat with nothing in it.
QuietAsked ==
  /\ At("asked")
  /\ IF interrupted THEN Returns("interrupted", "none")
     ELSE IF call.silent + 1 >= (IF call.streaming THEN Patience ELSE WholePatience) THEN Fails
     ELSE call' = [call EXCEPT !.silent = @ + 1] /\ UNCHANGED <<answer, interrupted>>
  /\ UNCHANGED history

---------------------------------------------------------------------------
(* body: a whole answer, or the body of a refusal.                         *)

\* A body that will not be read to its end: a refusal is one without it.
BodyLost == IF call.good THEN Fails ELSE RefusedSo

BodyChunk ==
  /\ At("body")
  /\ IF call.bytes + 1 > Largest THEN BodyLost
     ELSE IF interrupted THEN Returns("interrupted", "none")
     ELSE /\ call' = [call EXCEPT !.bytes = @ + 1, !.silent = 0]
          /\ UNCHANGED <<answer, interrupted>>
  /\ UNCHANGED history

\* Its end.  A whole answer may still be an error object, from a server that did not take
\* the request up, or no JSON at all.
BodyEnd ==
  /\ At("body")
  /\ \/ call.good /\ Returns("whole", "none") /\ taken' = taken \cup {call.tried}
     \/ call.good /\ Fails /\ UNCHANGED taken
     \/ (call.good => call.tried \notin taken) /\ RefusedSo /\ UNCHANGED taken
  /\ UNCHANGED <<broke, handed, ended>>

BodyBreak == At("body") /\ BodyLost /\ UNCHANGED history

QuietBody ==
  /\ At("body")
  /\ IF interrupted THEN Returns("interrupted", "none")
     ELSE IF call.silent + 1 >= (IF call.streaming THEN Patience ELSE WholePatience) THEN BodyLost
     ELSE call' = [call EXCEPT !.silent = @ + 1] /\ UNCHANGED <<answer, interrupted>>
  /\ UNCHANGED history

---------------------------------------------------------------------------
(* read: a stream, an event at a time.                                     *)

\* What arrived is kept, however it stopped.
Kept(how) == Returns("events", how)

\* Somebody asked to stop: an answer the server has finished is whole.
StopReading ==
  IF call.seen THEN Kept(IF call.finished THEN "Done" ELSE "Interrupted")
  ELSE Returns("interrupted", "none")

\* A body that ended: closed, or with the end-of-stream marker.  One with no event in it
\* is an error object, or a whole answer for the dialect to read.
Ends(marked) ==
  IF call.seen THEN Kept(IF marked \/ call.finished THEN "Done" ELSE "CutOff")
  ELSE \/ Returns("unstreamed", "none")
       \/ call.tried \notin taken /\ \E transient \in BOOLEAN : Refused(transient, Doubling)

\* What is held and is no event: one chunk more would be too much.
Full == call.bytes >= Largest

\* It is: asked before anything else, a stop and a finish included.
TooLarge ==
  /\ IF call.seen THEN Kept("CutOff") ELSE Fails
  /\ ended' = "endless" /\ UNCHANGED <<taken, broke, handed>>

\* A line arrived and something is made of it, unless somebody asked to stop: then it is
\* left unread, and may itself be what is too much.
Line(change) ==
  IF interrupted THEN (Full /\ TooLarge) \/ (StopReading /\ UNCHANGED history) ELSE change

\* So may any line of a body that has no event yet, of which all is kept.
FirstLine(change) == Line(change) \/ (Full /\ ~call.seen /\ TooLarge)

\* Some of a line or of an event, or any line that is no event before the first one, which
\* is kept to be read whole if none ever comes.
Part ==
  /\ At("reading")
  /\ IF Full THEN TooLarge
     ELSE /\ IF interrupted THEN StopReading
             ELSE /\ call' = [call EXCEPT !.any = TRUE, !.bytes = @ + 1, !.silent = 0]
                  /\ UNCHANGED <<answer, interrupted>>
          /\ UNCHANGED history

\* After it, a line that says nothing: it is dropped, an event it stands in the middle of is not.
Comment ==
  /\ At("reading") /\ call.seen
  /\ Line(/\ \E left \in 0..call.bytes : call' = [call EXCEPT !.bytes = left, !.silent = 0]
          /\ UNCHANGED <<answer, interrupted, history>>)

\* An event: one that only says a response exists, a piece of it, or its finish.
Event(kind) ==
  /\ At("reading")
  /\ FirstLine(
       /\ call' = [call EXCEPT !.any = TRUE, !.bytes = 0, !.silent = 0, !.seen = TRUE,
                     !.started = @ \/ kind # "opening", !.finished = @ \/ kind = "finish"]
       /\ taken' = IF kind = "opening" THEN taken ELSE taken \cup {call.tried}
       /\ handed' = IF kind = "opening" THEN handed ELSE handed \cup {call.tried}
       /\ UNCHANGED <<answer, interrupted, broke, ended>>)

\* Wrong form of ErrorEvent: only the code it names decides.
ErrorEventAnytime ==
  /\ At("reading")
  /\ FirstLine(/\ \E transient \in BOOLEAN : Refused(transient, Doubling)
               /\ UNCHANGED history)

\* An error as an event: a refusal as long as nothing was handed on.  After that the answer
\* is cut off, finished or not.
ErrorEvent ==
  /\ At("reading") /\ (call.started \/ call.tried \notin taken)
  /\ FirstLine(IF ~call.seen \/ ~call.started
               THEN /\ \E transient \in BOOLEAN : Refused(transient, Doubling)
                    /\ UNCHANGED history
               ELSE Kept("CutOff") /\ ended' = "error" /\ UNCHANGED <<taken, broke, handed>>)

\* The end-of-stream marker, which may stand in the middle of an event never ended, and
\* the close.
Marker ==
  /\ At("reading")
  /\ \/ Line(/\ Ends(TRUE) /\ ended' = IF call.seen THEN "marker" ELSE ended
             /\ UNCHANGED <<taken, broke, handed>>)
     \/ Full /\ TooLarge

Close == At("reading") /\ Line(Ends(FALSE) /\ UNCHANGED history)

\* Wrong form of Break: what breaks off is cut off, whatever the server had said.
BreakMidAnswer ==
  /\ At("reading")
  /\ IF ~call.any THEN BackOff(Doubling) ELSE IF ~call.seen THEN Fails ELSE Kept("CutOff")
  /\ broke' = IF call.any THEN broke ELSE broke \cup {call.tried}
  /\ UNCHANGED <<taken, handed, ended>>

\* The body stops arriving.  Only one of which not a byte came is asked for again.
Break ==
  /\ At("reading")
  /\ IF ~call.any THEN BackOff(Doubling)
     ELSE IF ~call.seen THEN Fails
     ELSE Kept(IF call.finished THEN "Done" ELSE "CutOff")
  /\ broke' = IF call.any THEN broke ELSE broke \cup {call.tried}
  /\ UNCHANGED <<taken, handed, ended>>

\* Wrong form of QuietReading: only a stream that said nothing at all is given up on.
QuietReadingOn ==
  /\ At("reading")
  /\ IF interrupted THEN StopReading
     ELSE IF ~call.seen /\ call.silent + 1 >= Patience THEN Fails
     ELSE call' = [call EXCEPT !.silent = IF @ < Patience THEN @ + 1 ELSE @]
          /\ UNCHANGED <<answer, interrupted>>
  /\ UNCHANGED history

\* A heartbeat with nothing in it: after a finish the first silence worth a word is the end.
QuietReading ==
  /\ At("reading")
  /\ LET silent == call.silent + 1
     IN  IF interrupted THEN StopReading
         ELSE IF call.finished /\ (silent >= Quiet \/ silent >= Patience) THEN Kept("Done")
         ELSE IF silent >= Patience THEN IF call.seen THEN Kept("CutOff") ELSE Fails
         ELSE call' = [call EXCEPT !.silent = silent] /\ UNCHANGED <<answer, interrupted>>
  /\ UNCHANGED history

---------------------------------------------------------------------------
(* backed_off, and the next attempt.                                       *)

\* Wrong form of WaitOut: the wait is one sleep.
WaitThrough ==
  /\ At("backing")
  /\ call' = IF call.wait = 0 THEN Fresh(call.tried + 1, call.streaming)
             ELSE [call EXCEPT !.wait = @ - 1]
  /\ UNCHANGED <<answer, interrupted, history>>

WaitOut ==
  /\ At("backing")
  /\ IF interrupted THEN Returns("interrupted", "none")
     ELSE /\ call' = IF call.wait = 0 THEN Fresh(call.tried + 1, call.streaming)
                     ELSE [call EXCEPT !.wait = @ - 1]
          /\ UNCHANGED <<answer, interrupted>>
  /\ UNCHANGED history

\* Somebody asks to stop.  The code reads the flag and then acts on it, with nothing in
\* between that anybody sees: a stop in there is one that came just after.
Stop ==
  /\ ~interrupted /\ ~At("over")
  /\ interrupted' = TRUE /\ UNCHANGED <<call, answer, history>>

---------------------------------------------------------------------------
\* What the server and the network do.
Speaks ==
  \/ TakeUp \/ Unreached \/ Failed \/ (\E good \in BOOLEAN : Headers(good)) \/ Encoded
  \/ BodyChunk \/ BodyEnd \/ BodyBreak
  \/ Part \/ Comment \/ (\E kind \in {"opening", "piece", "finish"} : Event(kind))
  \/ ErrorEvent \/ Marker \/ Close \/ Break

\* What the clock does.
Tick == QuietAsked \/ QuietBody \/ QuietReading \/ WaitOut

Next == Speaks \/ Tick \/ Stop

Spec == Init /\ [][Next]_vars

\* The heartbeat is a timeout: it comes, whatever else does not.
FairSpec == Spec /\ WF_vars(Tick)

---------------------------------------------------------------------------
(* What must hold.                                                         *)

CallRecord ==
  [at : {"asked", "reading", "body", "backing", "over"}, tried : 1..Tries,
   streaming : BOOLEAN, good : BOOLEAN, silent : Nat, bytes : 0..Largest, any : BOOLEAN,
   seen : BOOLEAN, started : BOOLEAN, finished : BOOLEAN, wait : 0..Linger]

TypeOK ==
  /\ call \in CallRecord
  /\ answer \in [kind : {"none", "interrupted", "whole", "events", "unstreamed", "error"},
                 how : {"none", "Done", "Interrupted", "CutOff"}]
  /\ interrupted \in BOOLEAN /\ ended \in {"none", "marker", "error", "endless"}
  /\ \A attempts \in {taken, broke, handed} : attempts \subseteq 1..call.tried

\* However busy, broken or silent the server, at most one attempt is taken up by it and
\* paid for - but for one that broke off before a byte, of which nothing can be known - and
\* it is the last.
PaidOnce == TypeOK /\ taken \subseteq broke \cup {call.tried}

\* What was handed on is of one attempt, and is kept: whatever happens to it then, it is
\* returned, and as what it is.  Only what the server said was over passes for done, by its
\* finish or its marker; only what somebody stopped before the finish is interrupted; and a
\* finished answer is not cut off by a break, a silence, a close or a stop - but by an error
\* or a line without end that follows it, see CutOffIsUnfinished.
AnswerKept ==
  /\ handed \subseteq {call.tried}
  /\ At("over") /\ handed # {} => answer.kind = "events"
  /\ answer.how = "Done" => call.finished \/ ended = "marker"
  /\ answer.how = "Interrupted" => interrupted /\ ~call.finished
  /\ answer.how = "CutOff" => ~call.finished \/ ended \in {"error", "endless"}

\* What Stopped::CutOff is documented to say, that the server had not said the turn was
\* over, which is not so: an error after the finish, or too long a line, is asked about
\* without asking for the finish.
CutOffIsUnfinished == answer.how = "CutOff" => ~call.finished

\* Once somebody has asked to stop, nothing is handed on and no attempt is begun.
StopIsHeard ==
  [][interrupted => call'.tried = call.tried /\ handed' = handed]_vars

\* A stop ends it; no server keeps it without having handed on an event; and one that says
\* no more is given up on.
ComesBack ==
  /\ interrupted ~> At("over")
  /\ <>(At("over") \/ call.seen)
  /\ []<><<Speaks>>_vars \/ <>At("over")

---------------------------------------------------------------------------
(* The inductive invariant: what each place knows of the attempt.          *)

Known ==
  /\ answer = NoAnswer <=> ~At("over")
  /\ At("asked") => ~call.any
  /\ ~call.any => ~call.seen
  /\ call.started => call.seen
  /\ call.finished => call.started
  /\ At("body") /\ ~call.good => call.tried \notin taken
  /\ At("backing") => call.tried < Tries /\ taken \subseteq broke /\ handed = {}
  /\ handed # {} => call.started /\ call.at \in {"reading", "over"}

IInv == PaidOnce /\ AnswerKept /\ Known
=============================================================================
