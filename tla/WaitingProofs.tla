---------------------------- MODULE WaitingProofs ----------------------------
(***************************************************************************)
(* What holds of a request for any number of tries, any patience and any   *)
(* server: nobody pays twice, and what was handed on is kept.              *)
(*                                                                         *)
(* The invariant is inductive because of what `backing` knows: an attempt  *)
(* is left behind only if the server had not taken it up or broke off      *)
(* before a byte, and so only with nothing handed on.                      *)
(***************************************************************************)
EXTENDS Waiting, TLAPS

\* The wait before the next attempt is one this lingers for.
LEMMA DoublingLingers ==
  ASSUME TypeOK
  PROVE  Doubling \in 0..Linger
<1>. DEFINE k == IF call.tried < 6 THEN call.tried ELSE 6
<1>1. k \in 1..6
  BY WaitingAssumption DEF TypeOK, CallRecord
<1>2. Doublings[k] \in Nat
  BY <1>1 DEF Doublings
<1>3. Linger \in Nat
  BY WaitingAssumption
<1>. HIDE DEF k
<1>4. (IF Doublings[k] < Linger THEN Doublings[k] ELSE Linger) \in 0..Linger
  BY <1>2, <1>3
<1>. QED
  BY <1>4 DEF Doubling, k

LEMMA InitHolds == Init => IInv
<1>. SUFFICES ASSUME Init PROVE IInv
  OBVIOUS
<1>1. PICK streaming \in BOOLEAN : call = Fresh(1, streaming)
  BY DEF Init
<1>2. Tries \in Nat \ {0} /\ Linger \in Nat /\ Largest \in Nat
  BY WaitingAssumption
<1>3. call.tried \in 1..Tries /\ call.bytes \in 0..Largest /\ call.wait \in 0..Linger
  BY <1>1, <1>2 DEF Fresh
<1>4. call \in CallRecord
  BY <1>1, <1>3 DEF Fresh, CallRecord
<1>5. TypeOK
  BY <1>3, <1>4 DEF Init, TypeOK, NoAnswer
<1>. QED
  BY <1>1, <1>5 DEF Init, IInv, PaidOnce, AnswerKept, Known, Fresh, NoAnswer, At

---------------------------------------------------------------------------
(* How an attempt ends.                                                    *)

\* An attempt may end any call, with what was handed on if anything was.
LEMMA ReturnsStep ==
  ASSUME IInv, ~At("over"),
         NEW kind \in {"interrupted", "whole", "events", "unstreamed", "error"},
         NEW how \in {"none", "Done", "Interrupted", "CutOff"},
         Returns(kind, how),
         handed # {} => kind = "events",
         ended' \in {"none", "marker", "error", "endless"},
         how = "Done" => call.finished \/ ended' = "marker",
         how = "Interrupted" => interrupted /\ ~call.finished,
         how = "CutOff" => ~call.finished \/ ended' \in {"error", "endless"},
         taken' = taken \/ taken' = taken \cup {call.tried},
         broke' = broke \/ broke' = broke \cup {call.tried},
         handed' = handed
  PROVE  IInv'
<1>1. TypeOK'
  BY DEF IInv, PaidOnce, TypeOK, CallRecord, Returns
<1>2. taken' \subseteq broke' \cup {call'.tried}
  BY DEF IInv, PaidOnce, TypeOK, CallRecord, Returns
<1>3. AnswerKept'
  BY DEF IInv, PaidOnce, TypeOK, CallRecord, AnswerKept, Known, At, Returns
<1>4. Known'
  BY DEF IInv, PaidOnce, TypeOK, CallRecord, Known, At, NoAnswer, Returns
<1>. QED
  BY <1>1, <1>2, <1>3, <1>4 DEF IInv, PaidOnce

\* One that was not taken up, or broke off before a byte, may be left behind.
LEMMA BackOffStep ==
  ASSUME IInv, ~At("over"), NEW wait \in 0..Linger, BackOff(wait),
         handed = {}, UNCHANGED <<taken, handed, ended>>,
         broke' = broke \/ broke' = broke \cup {call.tried},
         taken \subseteq broke'
  PROVE  IInv'
<1>1. CASE call.tried >= Tries
  BY <1>1, ReturnsStep DEF BackOff, Fails, IInv, PaidOnce, TypeOK
<1>2. CASE ~(call.tried >= Tries)
  <2>1. /\ call' = [call EXCEPT !.at = "backing", !.wait = wait]
        /\ UNCHANGED <<answer, interrupted>>
    BY <1>2 DEF BackOff
  <2>2. call' \in CallRecord
    BY <2>1 DEF IInv, PaidOnce, TypeOK, CallRecord
  <2>3. call'.tried = call.tried /\ call'.finished = call.finished
        /\ call'.at = "backing"
    BY <2>1 DEF IInv, PaidOnce, TypeOK, CallRecord
  <2>4. call.tried \in 1..call.tried
    BY WaitingAssumption DEF IInv, PaidOnce, TypeOK, CallRecord
  <2>5. TypeOK'
    BY <2>1, <2>2, <2>3, <2>4 DEF IInv, PaidOnce, TypeOK
  <2>6. call.tried < Tries
    BY <1>2, WaitingAssumption DEF IInv, PaidOnce, TypeOK, CallRecord
  <2>7. PaidOnce' /\ AnswerKept'
    BY <2>1, <2>3, <2>5 DEF IInv, PaidOnce, AnswerKept, Known, NoAnswer, At
  <2>8. Known'
    BY <2>1, <2>3, <2>6 DEF IInv, PaidOnce, TypeOK, CallRecord, Known, NoAnswer, At
  <2>. QED
    BY <2>7, <2>8 DEF IInv
<1>. QED
  BY <1>1, <1>2

\* So may one the server refused.
LEMMA RefusedStep ==
  ASSUME IInv, ~At("over"), NEW transient \in BOOLEAN, NEW wait \in Nat, Refused(transient, wait),
         handed = {}, call.tried \notin taken, UNCHANGED history
  PROVE  IInv'
<1>1. CASE transient /\ wait <= Linger
  <2>1. wait \in 0..Linger
    BY <1>1, WaitingAssumption
  <2>2. taken \subseteq broke
    BY DEF IInv, PaidOnce
  <2>. QED
    BY <1>1, <2>1, <2>2, BackOffStep DEF Refused, history
<1>2. CASE ~(transient /\ wait <= Linger)
  BY <1>2, ReturnsStep DEF Refused, Fails, history, IInv, PaidOnce, TypeOK
<1>. QED
  BY <1>1, <1>2

LEMMA RefusedSoStep ==
  ASSUME IInv, ~At("over"), RefusedSo, handed = {}, call.tried \notin taken, UNCHANGED history
  PROVE  IInv'
<1>1. PICK transient \in BOOLEAN, wait \in Asked \cup {Doubling} : Refused(transient, wait)
  BY DEF RefusedSo
<1>2. wait \in Nat
  BY DoublingLingers, WaitingAssumption DEF IInv, PaidOnce
<1>. QED
  BY <1>1, <1>2, RefusedStep

\* What was read is returned when somebody asks to stop.
LEMMA StopReadingStep ==
  ASSUME IInv, At("reading"), interrupted, StopReading, UNCHANGED history
  PROVE  IInv'
<1>1. CASE call.seen
  <2>. DEFINE how == IF call.finished THEN "Done" ELSE "Interrupted"
  <2>1. how \in {"none", "Done", "Interrupted", "CutOff"}
    OBVIOUS
  <2>2. (how = "Interrupted" => ~call.finished) /\ (how = "Done" => call.finished) /\ how # "CutOff"
    OBVIOUS
  <2>3. Returns("events", how)
    BY <1>1 DEF StopReading, Kept
  <2>. HIDE DEF how
  <2>. QED
    BY <2>1, <2>2, <2>3, ReturnsStep DEF At, history, IInv, PaidOnce, TypeOK
<1>2. CASE ~call.seen
  BY <1>2, ReturnsStep DEF StopReading, At, history, IInv, Known, PaidOnce, TypeOK
<1>. QED
  BY <1>1, <1>2

\* A stream that ends some other way than by a stop is kept as it is.
LEMMA KeptStep ==
  ASSUME IInv, At("reading"), NEW how \in {"Done", "CutOff"}, Kept(how),
         ended' \in {"none", "marker", "error", "endless"},
         how = "Done" => call.finished \/ ended' = "marker",
         how = "CutOff" => ~call.finished \/ ended' \in {"error", "endless"},
         taken' = taken, handed' = handed, broke' = broke
  PROVE  IInv'
  BY ReturnsStep DEF Kept, At

\* It fails only with nothing handed on.
LEMMA FailsStep ==
  ASSUME IInv, ~At("over"), handed = {}, Fails, UNCHANGED <<taken, broke, handed>>,
         ended' \in {"none", "marker", "error", "endless"}
  PROVE  IInv'
  BY ReturnsStep DEF Fails

\* What is too large is kept up to there, or fails.
LEMMA TooLargeStep ==
  ASSUME IInv, At("reading"), TooLarge
  PROVE  IInv'
<1>1. CASE call.seen
  BY <1>1, KeptStep DEF TooLarge
<1>2. CASE ~call.seen
  BY <1>2, FailsStep DEF TooLarge, IInv, Known, At
<1>. QED
  BY <1>1, <1>2

---------------------------------------------------------------------------
(* The steps.                                                              *)

LEMMA TakeUpStep == ASSUME IInv, TakeUp PROVE IInv'
  BY DEF TakeUp, IInv, PaidOnce, AnswerKept, Known, TypeOK, CallRecord, NoAnswer, At

LEMMA UnreachedStep == ASSUME IInv, Unreached PROVE IInv'
<1>1. handed = {} /\ taken \subseteq broke /\ ~At("over")
  BY DEF Unreached, IInv, PaidOnce, Known, At
<1>2. CASE BackOff(Doubling)
  BY <1>1, <1>2, BackOffStep, DoublingLingers DEF Unreached, history, IInv, PaidOnce
<1>3. CASE Fails
  BY <1>1, <1>3, FailsStep DEF Unreached, history, IInv, PaidOnce, TypeOK
<1>. QED
  BY <1>2, <1>3 DEF Unreached

LEMMA FailedStep == ASSUME IInv, Failed PROVE IInv'
  BY FailsStep DEF Failed, history, IInv, PaidOnce, TypeOK, Known, At

LEMMA HeadersStep == ASSUME IInv, NEW good \in BOOLEAN, Headers(good) PROVE IInv'
<1>1. TypeOK'
  BY DEF Headers, history, IInv, PaidOnce, TypeOK, CallRecord
<1>2. handed = {}
  BY DEF Headers, IInv, Known, At
<1>. QED
  BY <1>1, <1>2 DEF Headers, history, IInv, PaidOnce, AnswerKept, Known, TypeOK, CallRecord, NoAnswer, At

LEMMA EncodedStep == ASSUME IInv, Encoded PROVE IInv'
<1>1. handed = {}
  BY DEF Encoded, IInv, Known, At
<1>. QED
  BY <1>1, FailsStep DEF Encoded, At, history, IInv, PaidOnce, TypeOK

LEMMA QuietAskedStep == ASSUME IInv, QuietAsked PROVE IInv'
<1>1. handed = {} /\ ~At("over")
  BY DEF QuietAsked, IInv, Known, At
<1>2. CASE interrupted
  BY <1>1, <1>2, ReturnsStep DEF QuietAsked, history, IInv, PaidOnce, TypeOK
<1>3. CASE Fails
  BY <1>1, <1>3, FailsStep DEF QuietAsked, history, IInv, PaidOnce, TypeOK
<1>4. CASE call' = [call EXCEPT !.silent = @ + 1] /\ UNCHANGED <<answer, interrupted>>
  BY <1>1, <1>4
  DEF QuietAsked, history, IInv, PaidOnce, AnswerKept, Known, TypeOK, CallRecord, NoAnswer, At
<1>. QED
  BY <1>2, <1>3, <1>4 DEF QuietAsked

\* A body that will not be read to its end.
LEMMA BodyLostStep ==
  ASSUME IInv, At("body"), BodyLost, UNCHANGED history
  PROVE  IInv'
<1>1. handed = {} /\ ~At("over")
  BY DEF IInv, Known, At
<1>2. CASE call.good
  BY <1>1, <1>2, FailsStep DEF BodyLost, history, IInv, PaidOnce, TypeOK
<1>3. CASE ~call.good
  BY <1>1, <1>3, RefusedSoStep DEF BodyLost, IInv, Known
<1>. QED
  BY <1>2, <1>3

LEMMA BodyStep ==
  ASSUME IInv, BodyChunk \/ BodyBreak \/ QuietBody
  PROVE  IInv'
<1>1. At("body") /\ handed = {} /\ ~At("over") /\ UNCHANGED history
  BY DEF BodyChunk, BodyBreak, QuietBody, IInv, Known, At
<1>2. CASE BodyLost
  BY <1>1, <1>2, BodyLostStep
<1>3. CASE interrupted /\ Returns("interrupted", "none")
  BY <1>1, <1>3, ReturnsStep DEF history, IInv, PaidOnce, TypeOK
<1>4. CASE BodyChunk /\ ~(call.bytes + 1 > Largest) /\ ~interrupted
  <2>1. call' = [call EXCEPT !.bytes = @ + 1, !.silent = 0] /\ UNCHANGED <<answer, interrupted>>
    BY <1>4 DEF BodyChunk
  <2>2. call.bytes + 1 \in 0..Largest
    BY <1>4, WaitingAssumption DEF IInv, PaidOnce, TypeOK, CallRecord
  <2>3. TypeOK'
    BY <1>1, <2>1, <2>2 DEF history, IInv, PaidOnce, TypeOK, CallRecord
  <2>. QED
    BY <1>1, <2>1, <2>3 DEF history, IInv, PaidOnce, AnswerKept, Known, TypeOK, CallRecord, NoAnswer, At
<1>5. CASE call' = [call EXCEPT !.silent = @ + 1] /\ UNCHANGED <<answer, interrupted>>
  BY <1>1, <1>5 DEF history, IInv, PaidOnce, AnswerKept, Known, TypeOK, CallRecord, NoAnswer, At
<1>. QED
  BY <1>2, <1>3, <1>4, <1>5 DEF BodyChunk, BodyBreak, QuietBody

LEMMA BodyEndStep == ASSUME IInv, BodyEnd PROVE IInv'
<1>1. At("body") /\ handed = {} /\ ~At("over") /\ UNCHANGED <<broke, handed, ended>>
  BY DEF BodyEnd, IInv, Known, At
<1>2. CASE Returns("whole", "none") /\ taken' = taken \cup {call.tried}
  BY <1>1, <1>2, ReturnsStep DEF IInv, PaidOnce, TypeOK
<1>3. CASE Fails /\ UNCHANGED taken
  BY <1>1, <1>3, FailsStep DEF IInv, PaidOnce, TypeOK
<1>4. CASE (call.good => call.tried \notin taken) /\ RefusedSo /\ UNCHANGED taken
  BY <1>1, <1>4, RefusedSoStep DEF history, IInv, Known
<1>. QED
  BY <1>2, <1>3, <1>4 DEF BodyEnd

LEMMA PartStep == ASSUME IInv, Part PROVE IInv'
<1>1. CASE Full
  BY <1>1, TooLargeStep DEF Part
<1>2. CASE ~Full /\ interrupted
  BY <1>2, StopReadingStep DEF Part
<1>3. CASE ~Full /\ ~interrupted
  <2>1. /\ At("reading") /\ UNCHANGED <<answer, interrupted, history>>
        /\ call' = [call EXCEPT !.any = TRUE, !.bytes = @ + 1, !.silent = 0]
    BY <1>3 DEF Part
  <2>2. call.bytes + 1 \in 0..Largest
    BY <1>3, WaitingAssumption DEF Full, IInv, PaidOnce, TypeOK, CallRecord
  <2>3. TypeOK'
    BY <2>1, <2>2 DEF history, IInv, PaidOnce, TypeOK, CallRecord
  <2>. QED
    BY <2>1, <2>3
    DEF history, IInv, PaidOnce, AnswerKept, Known, TypeOK, CallRecord, NoAnswer, At
<1>. QED
  BY <1>1, <1>2, <1>3 DEF IInv, PaidOnce, TypeOK

LEMMA CommentStep == ASSUME IInv, Comment PROVE IInv'
<1>1. CASE interrupted
  BY <1>1, TooLargeStep, StopReadingStep DEF Comment, Line
<1>2. CASE ~interrupted
  <2>1. PICK left \in 0..call.bytes : call' = [call EXCEPT !.bytes = left, !.silent = 0]
    BY <1>2 DEF Comment, Line
  <2>2. At("reading") /\ UNCHANGED <<answer, interrupted, history>>
    BY <1>2 DEF Comment, Line
  <2>3. left \in 0..Largest
    BY <2>1, WaitingAssumption DEF IInv, PaidOnce, TypeOK, CallRecord
  <2>4. TypeOK'
    BY <2>1, <2>2, <2>3 DEF history, IInv, PaidOnce, TypeOK, CallRecord
  <2>. QED
    BY <2>1, <2>2, <2>4
    DEF history, IInv, PaidOnce, AnswerKept, Known, TypeOK, CallRecord, NoAnswer, At
<1>. QED
  BY <1>1, <1>2 DEF IInv, PaidOnce, TypeOK

LEMMA EventStep ==
  ASSUME IInv, NEW kind \in {"opening", "piece", "finish"}, Event(kind)
  PROVE  IInv'
<1>1. CASE TooLarge \/ interrupted
  BY <1>1, TooLargeStep, StopReadingStep DEF Event, FirstLine, Line
<1>2. CASE ~TooLarge /\ ~interrupted
  <2>1. /\ At("reading") /\ UNCHANGED <<answer, interrupted, broke, ended>>
        /\ call' = [call EXCEPT !.any = TRUE, !.bytes = 0, !.silent = 0, !.seen = TRUE,
                      !.started = @ \/ kind # "opening", !.finished = @ \/ kind = "finish"]
        /\ taken' = IF kind = "opening" THEN taken ELSE taken \cup {call.tried}
        /\ handed' = IF kind = "opening" THEN handed ELSE handed \cup {call.tried}
    BY <1>2 DEF Event, FirstLine, Line
  <2>2. 0 \in 0..Largest
    BY WaitingAssumption
  <2>3. call' \in CallRecord
    BY <2>1, <2>2 DEF IInv, PaidOnce, TypeOK, CallRecord
  <2>4. TypeOK'
    BY <2>1, <2>3 DEF IInv, PaidOnce, TypeOK, CallRecord
  <2>5. /\ call'.at = "reading" /\ call'.tried = call.tried /\ call'.any /\ call'.seen
        /\ call'.started = (call.started \/ kind # "opening")
        /\ call'.finished = (call.finished \/ kind = "finish")
    BY <2>1 DEF IInv, PaidOnce, TypeOK, CallRecord, At
  <2>6. PaidOnce' /\ AnswerKept'
    BY <2>1, <2>5, <2>4 DEF IInv, PaidOnce, AnswerKept, Known, NoAnswer, At
  <2>7. Known'
    BY <2>1, <2>5 DEF IInv, Known, At
  <2>. QED
    BY <2>6, <2>7 DEF IInv
<1>. QED
  BY <1>1, <1>2 DEF IInv, PaidOnce, TypeOK, CallRecord

LEMMA ErrorEventStep == ASSUME IInv, ErrorEvent PROVE IInv'
<1>1. At("reading") /\ ~At("over") /\ (call.started \/ call.tried \notin taken)
  BY DEF ErrorEvent, At
<1>2. CASE TooLarge \/ interrupted
  BY <1>1, <1>2, TooLargeStep, StopReadingStep DEF ErrorEvent, FirstLine, Line
<1>3. CASE ~TooLarge /\ ~interrupted /\ (~call.seen \/ ~call.started)
  <2>1. handed = {} /\ call.tried \notin taken
    BY <1>1, <1>3 DEF IInv, Known
  <2>2. PICK transient \in BOOLEAN : Refused(transient, Doubling)
    BY <1>3 DEF ErrorEvent, FirstLine, Line
  <2>3. Doubling \in Nat
    BY DoublingLingers, WaitingAssumption DEF IInv, PaidOnce
  <2>. QED
    BY <1>1, <1>3, <2>1, <2>2, <2>3, RefusedStep DEF ErrorEvent, FirstLine, Line
<1>4. CASE ~TooLarge /\ ~interrupted /\ ~(~call.seen \/ ~call.started)
  BY <1>1, <1>4, KeptStep DEF ErrorEvent, FirstLine, Line
<1>. QED
  BY <1>2, <1>3, <1>4

LEMMA EndsStep ==
  ASSUME IInv, At("reading"), NEW marked \in BOOLEAN, Ends(marked), UNCHANGED <<taken, broke, handed>>,
         ended' = IF marked /\ call.seen THEN "marker" ELSE ended
  PROVE  IInv'
<1>1. CASE call.seen
  <2>. DEFINE how == IF marked \/ call.finished THEN "Done" ELSE "CutOff"
  <2>1. how \in {"Done", "CutOff"} /\ Kept(how)
    BY <1>1 DEF Ends
  <2>2. ended' \in {"none", "marker", "error", "endless"}
    BY DEF IInv, PaidOnce, TypeOK
  <2>3. (how = "Done" => call.finished \/ ended' = "marker") /\ (how = "CutOff" => ~call.finished)
    BY <1>1
  <2>. HIDE DEF how
  <2>. QED
    BY <2>1, <2>2, <2>3, KeptStep
<1>2. CASE ~call.seen
  <2>1. handed = {} /\ ~At("over")
    BY <1>2 DEF IInv, Known, At
  <2>2. CASE Returns("unstreamed", "none")
    BY <1>2, <2>1, <2>2, ReturnsStep DEF IInv, PaidOnce, TypeOK
  <2>3. CASE call.tried \notin taken /\ \E transient \in BOOLEAN : Refused(transient, Doubling)
    <3>1. Doubling \in Nat
      BY DoublingLingers, WaitingAssumption DEF IInv, PaidOnce
    <3>. QED
      BY <1>2, <2>1, <2>3, <3>1, RefusedStep DEF history
  <2>. QED
    BY <1>2, <2>2, <2>3 DEF Ends
<1>. QED
  BY <1>1, <1>2

LEMMA MarkerStep == ASSUME IInv, Marker PROVE IInv'
<1>1. CASE TooLarge \/ interrupted
  BY <1>1, TooLargeStep, StopReadingStep DEF Marker, Line
<1>2. CASE ~TooLarge /\ ~interrupted
  BY <1>2, EndsStep DEF Marker, Line
<1>. QED
  BY <1>1, <1>2 DEF IInv, PaidOnce, TypeOK

LEMMA CloseStep == ASSUME IInv, Close PROVE IInv'
<1>1. CASE interrupted
  BY <1>1, TooLargeStep, StopReadingStep DEF Close, Line
<1>2. CASE ~interrupted
  BY <1>2, EndsStep DEF Close, Line, history
<1>. QED
  BY <1>1, <1>2 DEF IInv, PaidOnce, TypeOK

LEMMA BreakStep == ASSUME IInv, Break PROVE IInv'
<1>1. At("reading") /\ ~At("over") /\ UNCHANGED <<taken, handed, ended>>
  BY DEF Break, At
<1>2. CASE ~call.any
  <2>1. handed = {} /\ BackOff(Doubling) /\ broke' = broke \cup {call.tried}
    BY <1>2 DEF Break, IInv, Known
  <2>2. taken \subseteq broke'
    BY <2>1 DEF IInv, PaidOnce
  <2>. QED
    BY <1>1, <2>1, <2>2, BackOffStep, DoublingLingers DEF IInv, PaidOnce
<1>3. CASE call.any /\ ~call.seen
  <2>1. handed = {} /\ Fails /\ broke' = broke
    BY <1>3 DEF Break, IInv, Known
  <2>. QED
    BY <1>1, <2>1, FailsStep DEF IInv, PaidOnce, TypeOK
<1>4. CASE call.any /\ call.seen
  <2>. DEFINE how == IF call.finished THEN "Done" ELSE "CutOff"
  <2>1. how \in {"Done", "CutOff"} /\ Kept(how) /\ broke' = broke
    BY <1>4 DEF Break
  <2>2. (how = "Done" => call.finished) /\ (how = "CutOff" => ~call.finished)
    OBVIOUS
  <2>. HIDE DEF how
  <2>. QED
    BY <1>1, <2>1, <2>2, KeptStep DEF IInv, PaidOnce, TypeOK
<1>. QED
  BY <1>2, <1>3, <1>4 DEF IInv, PaidOnce, TypeOK, CallRecord

LEMMA QuietReadingStep == ASSUME IInv, QuietReading PROVE IInv'
<1>1. At("reading") /\ ~At("over") /\ UNCHANGED history /\ (handed # {} => call.seen)
  BY DEF QuietReading, IInv, Known, At
<1>2. CASE interrupted /\ StopReading
  BY <1>1, <1>2, StopReadingStep
<1>3. CASE Kept("Done") /\ call.finished
  BY <1>1, <1>3, KeptStep DEF history, IInv, PaidOnce, TypeOK
<1>6. CASE Kept("CutOff") /\ ~call.finished
  BY <1>1, <1>6, KeptStep DEF history, IInv, PaidOnce, TypeOK
<1>4. CASE ~call.seen /\ Fails
  BY <1>1, <1>4, FailsStep DEF history, IInv, PaidOnce, TypeOK
<1>5. CASE call' = [call EXCEPT !.silent = call.silent + 1] /\ UNCHANGED <<answer, interrupted>>
  BY <1>1, <1>5 DEF history, IInv, PaidOnce, AnswerKept, Known, TypeOK, CallRecord, NoAnswer, At
<1>. QED
  BY <1>2, <1>3, <1>4, <1>5, <1>6, WaitingAssumption
  DEF QuietReading, IInv, PaidOnce, TypeOK, CallRecord

LEMMA WaitOutStep == ASSUME IInv, WaitOut PROVE IInv'
<1>1. At("backing") /\ ~At("over") /\ UNCHANGED history /\ handed = {} /\ taken \subseteq broke
  BY DEF WaitOut, IInv, Known, At
<1>2. CASE interrupted
  BY <1>1, <1>2, ReturnsStep DEF WaitOut, history, IInv, PaidOnce, TypeOK
<1>3. CASE ~interrupted /\ call.wait = 0
  <2>1. call' = Fresh(call.tried + 1, call.streaming) /\ UNCHANGED <<answer, interrupted>>
    BY <1>3 DEF WaitOut
  <2>2. call.tried + 1 \in 1..Tries /\ 0 \in 0..Largest /\ 0 \in 0..Linger
    BY <1>1, WaitingAssumption DEF IInv, PaidOnce, Known, TypeOK, CallRecord
  <2>3. call' \in CallRecord
    BY <2>1, <2>2 DEF Fresh, CallRecord, IInv, PaidOnce, TypeOK
  <2>4. \A attempts \in {taken, broke, handed} : attempts \subseteq 1..(call.tried + 1)
    BY DEF IInv, PaidOnce, TypeOK, CallRecord
  <2>5. TypeOK' /\ taken' \subseteq broke' \cup {call'.tried}
    BY <1>1, <2>1, <2>3, <2>4 DEF Fresh, history, IInv, PaidOnce, TypeOK
  <2>. QED
    BY <1>1, <2>1, <2>5 DEF Fresh, history, IInv, PaidOnce, AnswerKept, Known, NoAnswer, At
<1>4. CASE ~interrupted /\ call.wait # 0
  <2>1. call' = [call EXCEPT !.wait = @ - 1] /\ UNCHANGED <<answer, interrupted>>
    BY <1>4 DEF WaitOut
  <2>2. call.wait - 1 \in 0..Linger
    BY <1>4, WaitingAssumption DEF IInv, PaidOnce, TypeOK, CallRecord
  <2>. QED
    BY <1>1, <2>1, <2>2
    DEF history, IInv, PaidOnce, AnswerKept, Known, TypeOK, CallRecord, NoAnswer, At
<1>. QED
  BY <1>2, <1>3, <1>4

LEMMA StopStep == ASSUME IInv, Stop PROVE IInv'
  BY DEF Stop, history, IInv, PaidOnce, AnswerKept, Known, TypeOK, CallRecord, NoAnswer, At

LEMMA Inductive == IInv /\ [Next]_vars => IInv'
<1>. SUFFICES ASSUME IInv, [Next]_vars PROVE IInv'
  OBVIOUS
<1>1. CASE Speaks
  BY <1>1, TakeUpStep, UnreachedStep, FailedStep, HeadersStep, EncodedStep, BodyStep, BodyEndStep,
     PartStep, CommentStep, EventStep, ErrorEventStep, MarkerStep, CloseStep, BreakStep DEF Speaks
<1>2. CASE Tick
  BY <1>2, QuietAskedStep, BodyStep, QuietReadingStep, WaitOutStep DEF Tick
<1>3. CASE Stop
  BY <1>3, StopStep
<1>4. CASE UNCHANGED vars
  BY <1>4 DEF vars, IInv, PaidOnce, AnswerKept, Known, TypeOK, CallRecord, NoAnswer, At
<1>. QED
  BY <1>1, <1>2, <1>3, <1>4 DEF Next

---------------------------------------------------------------------------
(* The theorems.                                                           *)

\* The invariant holds, whatever the server, the network and the person do.
THEOREM WaitingInvariant == Spec => []IInv
  BY InitHolds, Inductive, PTL DEF Spec

\* `sent` never sends again what the server may have taken up, but for a body that broke
\* off before its first byte.
THEOREM NobodyPaysTwice == Spec => []PaidOnce
<1>1. IInv => PaidOnce
  BY DEF IInv
<1>. QED
  BY <1>1, WaitingInvariant, PTL

\* What `read` handed on is of the attempt it returns, and is returned.
THEOREM WhatWasHandedOnIsKept == Spec => []AnswerKept
<1>1. IInv => AnswerKept
  BY DEF IInv
<1>. QED
  BY <1>1, WaitingInvariant, PTL

\* After a stop nothing is handed on, and no attempt begins.
THEOREM AStopIsHeard == Spec => StopIsHeard
<1>1. ASSUME IInv, [Next]_vars, interrupted
      PROVE  call'.tried = call.tried /\ handed' = handed
  BY <1>1
  DEF Next, Speaks, Tick, Stop, vars, history, TakeUp, Unreached, Failed, Headers, Encoded,
      QuietAsked, BodyChunk, BodyEnd, BodyBreak, QuietBody, Part, Comment, Event, ErrorEvent, Marker,
      Close, Break, QuietReading, WaitOut, Full, TooLarge, Line, FirstLine, StopReading, Kept, Fails, Returns, BackOff,
      BodyLost, RefusedSo, Refused, IInv, PaidOnce, TypeOK, CallRecord
<1>. QED
  BY <1>1, WaitingInvariant, PTL DEF Spec, StopIsHeard
=============================================================================
