-------------------------- MODULE RemoteCallsProofs ---------------------------
(***************************************************************************)
(* Proofs about the body of a request, for every limit, every length a     *)
(* header may declare and chunks of any size, and about the tool call that *)
(* it carries, for every catalogue of tools and any number of repeats.     *)
(***************************************************************************)
EXTENDS RemoteCalls, SequenceTheorems, TLAPS

Surface == INSTANCE ToolSurface

-----------------------------------------------------------------------------
(* The body *)

\* What is counted is what was sent; all of it is kept until the limit is passed.
Counted ==
  /\ sizeBytes = sent
  /\ reading # "too_large" => kept = sent
  /\ reading = "too_large" /\ kept # sent => sent > MaxBytes
  /\ reading = "idle" => declared = Absent /\ sent = 0

BodyInv == BodyTypeOK /\ Counted /\ BodyStaysWithinLimit

\* The reader starts with nothing.
LEMMA BodyInvInit == BodyInit => BodyInv
BY BodyAssumption, SMT DEF BodyInit, BodyInv, BodyTypeOK, Counted, BodyStaysWithinLimit, BodyEnds

\* Every step of the reader preserves the invariant.
LEMMA BodyInvNext == BodyInv /\ [BodyNext]_bodyVars => BodyInv'
<1> SUFFICES ASSUME BodyInv, [BodyNext]_bodyVars PROVE BodyInv'
  OBVIOUS
<1> USE BodyAssumption DEF BodyInv, BodyTypeOK, Counted, BodyStaysWithinLimit, BodyEnds
<1>1. ASSUME NEW length \in Length \cup {Absent, Malformed}, Open(length) PROVE BodyInv'
  <2>1. CASE length = Malformed
    BY <1>1, <2>1, SMT DEF Open
  <2>2. CASE length = Absent
    BY <1>1, <2>2, SMT DEF Open
  <2>3. CASE length \in Length
    BY <1>1, <2>3, SMT DEF Open
  <2> QED BY <1>1, <2>1, <2>2, <2>3
<1>2. ASSUME NEW n \in ChunkSize, ReadChunk(n) PROVE BodyInv'
  <2>1. CASE sizeBytes + n > MaxBytes
    BY <1>2, <2>1, SMT DEF ReadChunk
  <2>2. CASE ~(sizeBytes + n > MaxBytes)
    BY <1>2, <2>2, SMT DEF ReadChunk
  <2> QED BY <2>1, <2>2
<1>3. CASE BreakOff
  BY <1>3, SMT DEF BreakOff
<1>4. ASSUME NEW utf8 \in BOOLEAN, Finish(utf8) PROVE BodyInv'
  <2>1. CASE declared # Absent /\ declared # sizeBytes
    BY <1>4, <2>1, SMT DEF Finish
  <2>2. CASE declared = Absent \/ declared = sizeBytes
    BY <1>4, <2>2, SMT DEF Finish
  <2> QED BY <2>1, <2>2
<1>5. CASE UNCHANGED bodyVars
  BY <1>5, SMT DEF bodyVars
<1> QED BY <1>1, <1>2, <1>3, <1>4, <1>5 DEF BodyNext

\* The reader's variables keep their types.
THEOREM BodyTypeCorrect == BodySpec => []BodyTypeOK
<1>1. BodyInv => BodyTypeOK BY DEF BodyInv
<1> QED BY BodyInvInit, BodyInvNext, <1>1, PTL DEF BodySpec

\* No body over the limit is kept or handed on, none is handed on that is not
\* what was sent and declared, and none is refused as too large that is not.
THEOREM BodiesStayBounded == BodySpec => []BodyStaysWithinLimit
<1>1. BodyInv => BodyStaysWithinLimit BY DEF BodyInv
<1> QED BY BodyInvInit, BodyInvNext, <1>1, PTL DEF BodySpec
-----------------------------------------------------------------------------
(* What a wrapper makes of a result *)

SaysType == SUBSET {"nothing", "maybe", "vendor"}

\* An answer that is an error, and one that is not.
Error(flag, says, by) == Answer(TRUE, flag, says, by)
Success(flag, says, by) == Answer(FALSE, flag, says, by)

Speaker == {"tool", "sdk"}

LEMMA ErrorShape ==
  ASSUME NEW flag \in Flag, NEW says \in SaysType, NEW by \in Speaker
  PROVE  /\ Error(flag, says, by) \in Answers /\ Error(flag, says, by).error = TRUE
         /\ Error(flag, says, by).says = says /\ Error(flag, says, by).by = by
  BY DEF Error, Answer, Answers, SaysType, Speaker

LEMMA Speakers == "tool" \in Speaker /\ "sdk" \in Speaker
  BY DEF Speaker

\* What is said of a failure: an outcome that is unknown is never kept quiet, and
\* nothing is promised but of a call that was turned away before its request.
LEMMA FailureAnswer ==
  ASSUME NEW flag \in Flag
  PROVE  /\ Answered(Failed(flag)) \in Answers
         /\ Answered(Failed(flag)).error = TRUE
         /\ Answered(Failed(flag)).by = "tool"
         /\ flag = "unknown" => "maybe" \in Answered(Failed(flag)).says
         /\ "nothing" \in Answered(Failed(flag)).says => flag # "unknown"
         /\ offer.mode = "openai" /\ offer.vendors => "vendor" \in Answered(Failed(flag)).says
  <1> DEFINE failed == Failed(flag)
             claude == ClaudeErrorSays(flag, failed.structured)
             plain == ErrorSays(flag)
  <1>1. failed.error = TRUE /\ failed.flag = flag /\ failed.structured = FALSE
    BY DEF Failed, Result
  <1>2. /\ plain \in SaysType /\ (flag = "unknown" => "maybe" \in plain)
        /\ ("nothing" \in plain => flag # "unknown")
    BY DEF ErrorSays, SaysType
  <1>3. /\ claude \in SaysType /\ (flag = "unknown" => "maybe" \in claude)
        /\ ("nothing" \in claude => flag # "unknown")
    BY <1>1 DEF ClaudeErrorSays, SaysType
  <1>4. /\ Residual \in SaysType /\ "nothing" \notin Residual
        /\ (offer.vendors => "vendor" \in Residual)
    BY DEF Residual, SaysType
  <1>5. PICK f \in Flag, says \in SaysType :
          /\ Answered(failed) = Error(f, says, "tool")
          /\ flag = "unknown" => "maybe" \in says
          /\ "nothing" \in says => flag # "unknown"
          /\ offer.mode = "openai" /\ offer.vendors => "vendor" \in says
    <2> HIDE DEF failed, claude, plain
    <2>1. CASE offer.mode = "openai"
      <3>1. \/ /\ flag = "unknown"
               /\ Answered(failed) = Error("unknown", {"maybe"} \cup Residual, "tool")
            \/ Answered(failed) = Error(flag, plain \cup Residual, "tool")
        BY <1>1, <2>1 DEF Answered, OpenAIAnswer, Error, Success, Answer, plain
      <3>2. {"maybe"} \cup Residual \in SaysType /\ "unknown" \in Flag
        BY <1>4 DEF SaysType, Flag
      <3>3. plain \cup Residual \in SaysType
        BY <1>2, <1>4 DEF SaysType
      <3>4. QED
        BY <1>2, <1>4, <3>1, <3>2, <3>3
    <2>2. CASE offer.mode = "claude"
      <3>1. Answered(failed) = Error(flag, claude, "tool")
        BY <1>1, <2>2 DEF Answered, SdkAnswer, Error, Answer, claude
      <3>2. QED
        BY <1>3, <2>2, <3>1
    <2>3. CASE offer.mode \notin {"openai", "claude"}
      <3>1. Answered(failed) = Error(flag, plain, "tool")
        BY <1>1, <2>3 DEF Answered, SdkAnswer, Error, Answer, plain
      <3>2. QED
        BY <1>2, <2>3, <3>1
    <2>4. QED
      BY <2>1, <2>2, <2>3
  <1> HIDE DEF failed
  <1> HIDE DEF failed
  <1>6. /\ Error(f, says, "tool") \in Answers
        /\ Error(f, says, "tool").says = says /\ Error(f, says, "tool").by = "tool"
    BY ErrorShape, Speakers
  <1>7. Error(f, says, "tool").error = TRUE
    BY ErrorShape, Speakers
  <1>8. Answered(failed) \in Answers /\ Answered(failed).says = says /\ Answered(failed).by = "tool"
    BY <1>5, <1>6
  <1>9. Answered(failed).error = TRUE
    BY <1>5, <1>7
  <1>10. QED
    BY <1>5, <1>8, <1>9 DEF failed

\* An error the handler explains itself promises nothing.
LEMMA ExplainedAnswer ==
  /\ Answered(Explained) \in Answers
  /\ Answered(Explained).error = TRUE
  /\ Answered(Explained).by = "tool"
  /\ "nothing" \notin Answered(Explained).says
  /\ offer.mode = "openai" /\ offer.vendors => "vendor" \in Answered(Explained).says
  <1>1. Explained.error = TRUE /\ Explained.flag = "none" /\ Explained.structured = TRUE
    BY DEF Explained, Result
  <1>2. ErrorSays("none") = {} /\ ClaudeErrorSays("none", TRUE) = {} /\ "none" \in Flag
    BY DEF ErrorSays, ClaudeErrorSays, Flag
  <1>3. /\ Residual \in SaysType /\ "nothing" \notin Residual
        /\ (offer.vendors => "vendor" \in Residual)
    BY DEF Residual, SaysType
  <1>4. CASE offer.mode = "openai"
    <2>1. Answered(Explained) = Error("none", {} \cup Residual, "tool")
      BY <1>1, <1>2, <1>4 DEF Answered, OpenAIAnswer, Error, Success, Answer
    <2>2. QED
      BY <1>2, <1>3, <2>1 DEF Error, Answer, Answers, SaysType
  <1>5. CASE offer.mode # "openai"
    <2>1. Answered(Explained) = Error("none", {}, "tool")
      BY <1>1, <1>2, <1>5 DEF Answered, SdkAnswer, Error, Answer
    <2>2. QED
      BY <1>2, <1>5, <2>1 DEF Error, Answer, Answers, SaysType
  <1>6. QED
    BY <1>4, <1>5

\* A result of a handler that is done is passed on, or it does not fit: then the SDK
\* rejects it, but the reviewed wrapper says of a writing tool that it may have
\* completed.
LEMMA DoneAnswer ==
  ASSUME NEW fits \in BOOLEAN
  PROVE  /\ Answered(Done(fits)) \in Answers
         /\ Answered(Done(fits)).by \in {"tool", "sdk"}
         /\ "nothing" \notin Answered(Done(fits)).says
         /\ Answered(Done(fits)).by = "sdk" => offer.mode # "openai"
         /\ Answered(Done(fits)).error = TRUE =>
              \/ "maybe" \in Answered(Done(fits)).says
              \/ Answered(Done(fits)).by = "sdk"
              \/ offer.mode = "openai" /\ offer.listed.hints.readOnly
  <1>1. /\ Done(fits).error = FALSE /\ Done(fits).flag = "none" /\ Done(fits).fits = fits
    BY DEF Done, Result
  <1>2. /\ {"maybe"} \cup Residual \in SaysType /\ "nothing" \notin Residual /\ {} \in SaysType
        /\ "none" \in Flag /\ "unknown" \in Flag
    BY DEF Residual, SaysType, Flag
  <1>3. \/ /\ offer.mode = "openai"
           /\ Answered(Done(fits)) = Error("unknown", {"maybe"} \cup Residual, "tool")
        \/ /\ offer.mode = "openai" /\ offer.listed.hints.readOnly
           /\ Answered(Done(fits)) = Error("none", {}, "tool")
        \/ /\ offer.mode # "openai"
           /\ Answered(Done(fits)) = Error("none", {}, "sdk")
        \/ Answered(Done(fits)) = Success("none", {}, "tool")
    <2>1. CASE offer.mode = "openai"
      <3>1. Answered(Done(fits)) = OpenAIAnswer(Done(fits))
        BY <2>1 DEF Answered
      <3>2. CASE fits = TRUE
        BY <1>1, <2>1, <3>1, <3>2 DEF OpenAIAnswer, Success, Answer
      <3>3. CASE fits = FALSE
        BY <1>1, <2>1, <3>1, <3>3 DEF OpenAIAnswer, Error, Answer
      <3>4. QED
        BY <3>2, <3>3
    <2>2. CASE offer.mode # "openai"
      <3>1. Answered(Done(fits)) = SdkAnswer(Done(fits), {})
        BY <1>1, <2>2 DEF Answered
      <3>2. QED
        BY <1>1, <2>2, <3>1 DEF SdkAnswer, Error, Success, Answer
    <2>3. QED
      BY <2>1, <2>2
  <1> DEFINE a == Answered(Done(fits))
             maybe == {"maybe"} \cup Residual
             quiet == {}
  <1>4. quiet \in SaysType /\ "nothing" \notin quiet
    BY <1>2
  <1> HIDE DEF a, quiet
  <1>5. CASE offer.mode = "openai" /\ a = Error("unknown", maybe, "tool")
    <2>1. /\ Error("unknown", maybe, "tool") \in Answers
          /\ Error("unknown", maybe, "tool").says = maybe
          /\ Error("unknown", maybe, "tool").by = "tool"
      <3>1. maybe \in SaysType
        BY <1>2
      <3> HIDE DEF maybe
      <3>2. QED
        BY <1>2, <3>1, ErrorShape, Speakers, Zenon
    <2>2. QED
      BY <1>2, <1>5, <2>1 DEF a
  <1>6. CASE offer.mode = "openai" /\ offer.listed.hints.readOnly /\ a = Error("none", quiet, "tool")
    <2>1. a = [ error |-> TRUE, flag |-> "none", says |-> quiet, by |-> "tool" ]
      BY <1>6 DEF Error, Answer
    <2>2. a \in Answers
      BY <1>2, <1>4, <2>1 DEF Answers, SaysType
    <2>3. QED
      BY <1>4, <1>6, <2>1, <2>2 DEF a
  <1>7. CASE offer.mode # "openai" /\ a = Error("none", quiet, "sdk")
    <2>1. a = [ error |-> TRUE, flag |-> "none", says |-> quiet, by |-> "sdk" ]
      BY <1>7 DEF Error, Answer
    <2>2. a \in Answers
      BY <1>2, <1>4, <2>1 DEF Answers, SaysType
    <2>3. QED
      BY <1>4, <1>7, <2>1, <2>2 DEF a
  <1>8. CASE a = Success("none", quiet, "tool")
    <2>1. a = [ error |-> FALSE, flag |-> "none", says |-> quiet, by |-> "tool" ]
      BY <1>8 DEF Success, Answer
    <2>2. a \in Answers
      BY <1>2, <1>4, <2>1 DEF Answers, SaysType
    <2>3. QED
      BY <1>4, <1>8, <2>1, <2>2 DEF a
  <1>9. QED
    BY <1>3, <1>5, <1>6, <1>7, <1>8 DEF a, quiet

-----------------------------------------------------------------------------
(* A call.  CallInv adds to what an answer tells that changes belong to the *)
(* calls sent so far and that a handler that still sends has changed        *)
(* nothing, because its write comes last.                                   *)

Writes == \E k \in 1..Len(offer.sends) : offer.sends[k].writes

\* AnswersAreHonest, up to the tool that writes although it is shown as read-only.
Tells ==
  /\ ~answer.error /\ Writes => \E c \in effects : c.turn = turn
  /\ "nothing" \in answer.says => ~Changed
  /\ answer.error /\ Changed =>
       \/ "maybe" \in answer.says \/ answer.by = "sdk"
       \/ offer.mode = "openai" /\ offer.listed.hints.readOnly
  /\ answer.by = "sdk" => offer.mode # "openai"

TellsOfVendor ==
  offer.mode = "openai" /\ answer.error /\ turn \in vendors => "vendor" \in answer.says

CallInv ==
  /\ CallTypeOK
  /\ offer \in Offer
  /\ \A c \in Changes : c.turn <= turn
  /\ vendors \subseteq 1..turn
  /\ step > 0 => turn > 0 /\ ~Changed /\ turn \notin vendors
  /\ turn > 0 /\ step = 0 => Tells /\ TellsOfVendor

\* An offer's requests, and the two assumptions about them.
LEMMA OfferShape ==
  ASSUME CallInv
  PROVE  /\ Len(offer.sends) \in Nat
         /\ \A k \in 1..Len(offer.sends) :
              offer.sends[k].writes => k = Len(offer.sends) /\ offer.sends[k].forgives = "nothing"
         /\ Writes => offer.on404 # "answer" /\ offer.refuses # "after"
         /\ offer.vendors => Len(offer.sends) = 1 /\ offer.sends[1].writes
  <1>1. offer \in Offer
    BY DEF CallInv
  <1>2. QED
    BY <1>1, WriteComesLast, WritersReport DEF Writes

LEMMA CallInvInit == Init => CallInv
  <1> SUFFICES ASSUME Init PROVE CallInv
    OBVIOUS
  <1>1. Len(offer.sends) \in Nat
    BY WriteComesLast DEF Init
  <1>2. NoAnswer \in Answers /\ NoAnswer.by = "nobody"
    BY DEF NoAnswer, Answer, Answers, Flag
  <1>3. CallTypeOK
    BY <1>1, <1>2, TurnAssumption DEF Init, CallTypeOK, Input, Change, Turn
  <1>4. QED
    BY <1>3 DEF Init, CallInv, Changes

\* What a step makes of the state: the handler goes on to its next request, or it
\* ends with an answer that tells what it should.
GoesOnTo == step' \in 1..Len(offer.sends) /\ answer' = NoAnswer

EndsWithError == step' = 0 /\ answer' \in Answers /\ answer'.error /\ answer'.by \notin {"sdk", "nobody"}

\* A call that starts finds no change and no vendor of its own turn.
LEMMA CallKeeps ==
  ASSUME CallInv, NEW input \in Input, step = 0, turn \in 0..(MaxTurn - 1), Call(input)
  PROVE  CallInv'
  <1>1. /\ turn' = turn + 1 /\ given' = input /\ UNCHANGED <<offer, effects, wire, vendors>>
    BY DEF Call
  <1>2. GoesOnTo \/ EndsWithError
    <2>1. ASSUME NEW who \in {"gate", "schema"}, Ends(Answer(TRUE, "none", {}, who))
          PROVE  EndsWithError
      BY <2>1 DEF Ends, EndsWithError, Answer, Answers, Flag
    <2>2. ASSUME NEW flag \in {"confirm", "none"},
                 Ends(Answer(TRUE, flag, Answered(Failed(flag)).says, "gate"))
          PROVE  EndsWithError
      <3>1. flag \in Flag
        BY DEF Flag
      <3>2. Answered(Failed(flag)) \in Answers
        BY <3>1, FailureAnswer
      <3>3. Answered(Failed(flag)).says \in SaysType
        BY <3>2 DEF Answers, SaysType
      <3>4. QED
        BY <2>2, <3>1, <3>3 DEF Ends, EndsWithError, Answer, Answers, SaysType
    <2>3. ASSUME Ends(Answered(Failed("none"))) PROVE EndsWithError
      <3>1. "none" \in Flag
        BY DEF Flag
      <3>2. QED
        BY <2>3, <3>1, FailureAnswer DEF Ends, EndsWithError
    <2>4. ASSUME Ends(Answered(Explained)) PROVE EndsWithError
      BY <2>4, ExplainedAnswer DEF Ends, EndsWithError
    <2>5. ASSUME offer.sends # << >>, step' = 1, answer' = NoAnswer PROVE GoesOnTo
      <3>1. offer.sends \in Seq([ writes : BOOLEAN, adds : BOOLEAN,
                                  forgives : {"nothing", "missing", "everything"} ])
        BY WriteComesLast DEF CallInv
      <3>2. Len(offer.sends) \in Nat \ {0}
        BY <2>5, <3>1, EmptySeq
      <3>3. QED
        BY <2>5, <3>2 DEF GoesOnTo
    <2>6. QED
      BY <2>1, <2>2, <2>3, <2>4, <2>5, Zenon DEF Call, Enter
  <1>3. turn \in Nat /\ turn' \in 1..MaxTurn /\ MaxTurn \in Nat
    BY <1>1, TurnAssumption
  <1>4. ~Changed' /\ (\A c \in Changes' : c.turn <= turn')
    BY <1>1, <1>3 DEF CallInv, CallTypeOK, Change, Turn, Changes, Changed
  <1>5. vendors' \subseteq 1..turn' /\ turn' \notin vendors'
    BY <1>1, <1>3 DEF CallInv
  <1>6. NoAnswer \in Answers
    BY DEF NoAnswer, Answer, Answers, Flag
  <1>7. CallTypeOK'
    <2>1. step' \in 0..Len(offer.sends)
      BY <1>2, OfferShape DEF GoesOnTo, EndsWithError
    <2>2. answer' \in Answers /\ (answer'.by = "nobody" => step' > 0)
      BY <1>2, <1>6, OfferShape DEF GoesOnTo, EndsWithError
    <2>3. QED
      BY <1>1, <1>3, <2>1, <2>2 DEF CallInv, CallTypeOK
  <1>8. step' = 0 => Tells' /\ TellsOfVendor'
    <2> SUFFICES ASSUME step' = 0 PROVE Tells' /\ TellsOfVendor'
      OBVIOUS
    <2>1. EndsWithError
      BY <1>2, OfferShape DEF GoesOnTo
    <2>2. QED
      BY <1>4, <1>5, <2>1 DEF EndsWithError, Tells, TellsOfVendor
  <1>9. QED
    BY <1>1, <1>3, <1>4, <1>5, <1>7, <1>8 DEF CallInv

\* A step of a handler ends in one of these ways: it sends its next request, having
\* changed nothing, or its answer tells what happened.
LEMMA SendingKeeps ==
  ASSUME CallInv, Sending, UNCHANGED << offer, turn, given >>,
         effects \subseteq effects', effects' \subseteq effects \cup {Sought},
         wire \subseteq wire', wire' \subseteq wire \cup {Sought},
         vendors \subseteq vendors', vendors' \subseteq vendors \cup {turn},
         \/ GoesOnTo /\ UNCHANGED << effects, wire, vendors >>
         \/ /\ step' = 0 /\ answer' \in Answers /\ answer'.by # "nobody"
            /\ Tells' /\ TellsOfVendor'
  PROVE  CallInv'
  <1>1. turn \in 1..MaxTurn /\ MaxTurn \in Nat /\ step \in Nat
    BY TurnAssumption, OfferShape DEF CallInv, CallTypeOK, Sending
  <1>2. Sought \in Change /\ Sought.turn = turn
    BY <1>1 DEF Sought, Change, CallInv, CallTypeOK, Input, Turn
  <1>3. \A c \in Changes' : c.turn <= turn'
    BY <1>1, <1>2 DEF Changes, CallInv
  <1>4. vendors' \subseteq 1..turn'
    BY <1>1 DEF CallInv
  <1>5. NoAnswer \in Answers
    BY DEF NoAnswer, Answer, Answers, Flag
  <1>6. CallTypeOK'
    <2>1. step' \in 0..Len(offer.sends) /\ answer' \in Answers
          /\ (answer'.by = "nobody" => step' > 0)
      BY <1>5, OfferShape DEF GoesOnTo
    <2>2. effects' \subseteq Change /\ wire' \subseteq Change
      BY <1>2 DEF CallInv, CallTypeOK
    <2>3. vendors' \subseteq Turn
      BY <1>1, <1>4 DEF CallInv, CallTypeOK, Turn
    <2>4. QED
      BY <2>1, <2>2, <2>3 DEF CallInv, CallTypeOK
  <1>7. step' > 0 => turn' > 0 /\ ~Changed' /\ turn' \notin vendors'
    BY <1>1 DEF CallInv, Sending, Changed, Changes
  <1>8. step' = 0 => Tells' /\ TellsOfVendor'
    BY OfferShape DEF GoesOnTo
  <1>9. QED
    BY <1>3, <1>4, <1>6, <1>7, <1>8 DEF CallInv

\* What a failed request left behind: vendors of this turn, if the tool has any.
LEMMA VendorLeft ==
  ASSUME CallInv, Sending, LeavesVendor
  PROVE  /\ vendors \subseteq vendors' /\ vendors' \subseteq vendors \cup {turn}
         /\ turn \in vendors' => offer.vendors
         /\ ~offer.vendors => vendors' = vendors
  BY DEF LeavesVendor, CallInv, Sending

\* The handler goes on after a request that writes nothing.
LEMMA ReadGoesOn ==
  ASSUME CallInv, Sending, ~Request.writes, GoesOn,
         UNCHANGED << offer, turn, given, effects, wire, vendors >>
  PROVE  CallInv'
  <1>1. step \in 1..Len(offer.sends) /\ turn > 0 /\ ~Changed /\ turn \notin vendors
    BY OfferShape DEF CallInv, CallTypeOK, Sending
  <1>2. CASE step < Len(offer.sends) /\ step' = step + 1 /\ answer' = NoAnswer
    <2>1. GoesOnTo
      BY <1>1, <1>2, OfferShape DEF GoesOnTo
    <2>2. QED
      BY <2>1, SendingKeeps
  <1>3. ASSUME step = Len(offer.sends), NEW fits \in BOOLEAN, Ends(Answered(Done(fits)))
        PROVE  CallInv'
    <2>1. ~Writes
      BY <1>3, OfferShape DEF Writes, Request
    <2>2. Tells' /\ TellsOfVendor'
      BY <1>1, <1>3, <2>1, DoneAnswer
      DEF Ends, Tells, TellsOfVendor, Writes, Changed, Changes
    <2>3. step' = 0 /\ answer' \in Answers /\ answer'.by # "nobody"
      BY <1>3, DoneAnswer DEF Ends
    <2>4. QED
      BY <2>2, <2>3, SendingKeeps
  <1>4. CASE step = Len(offer.sends) /\ offer.refuses = "after" /\ Ends(Answered(Explained))
    <2>1. step' = 0 /\ answer' \in Answers /\ answer'.by = "tool" /\ answer'.error = TRUE
      BY <1>4, ExplainedAnswer DEF Ends
    <2>2. "nothing" \notin answer'.says
      BY <1>4, ExplainedAnswer DEF Ends
    <2>3. Tells' /\ TellsOfVendor'
      BY <1>1, <2>1, <2>2 DEF Tells, TellsOfVendor, Writes, Changed, Changes
    <2>4. QED
      BY <2>1, <2>3, SendingKeeps
  <1>5. QED
    BY <1>2, <1>3, <1>4 DEF GoesOn

\* A request that may have taken effect ends with an outcome that is unknown.
LEMMA FailureKeeps ==
  ASSUME CallInv, Sending, NEW flag \in Flag, Ends(Answered(Failed(flag))),
         UNCHANGED << offer, turn, given >>, UNCHANGED vendors \/ LeavesVendor,
         effects \subseteq effects', effects' \subseteq effects \cup {Sought},
         wire \subseteq wire', wire' \subseteq wire \cup {Sought},
         flag # "unknown" => UNCHANGED << effects, wire >>
  PROVE  CallInv'
  <1>1. step' = 0 /\ answer' \in Answers /\ answer'.by = "tool" /\ answer'.error = TRUE
    BY FailureAnswer DEF Ends
  <1>2. ~Changed /\ turn \notin vendors
    BY DEF CallInv, Sending
  <1>3. /\ vendors \subseteq vendors' /\ vendors' \subseteq vendors \cup {turn}
        /\ turn \in vendors' => offer.vendors
    BY <1>2, VendorLeft
  <1>4. Tells'
    <2>1. flag = "unknown" => "maybe" \in answer'.says
      BY FailureAnswer DEF Ends
    <2>2. "nothing" \in answer'.says => flag # "unknown"
      BY FailureAnswer DEF Ends
    <2>3. flag # "unknown" => ~Changed'
      BY <1>2 DEF Changed, Changes
    <2>4. QED
      BY <1>1, <2>1, <2>2, <2>3 DEF Tells
  <1>5. TellsOfVendor'
    <2>1. offer.mode = "openai" /\ offer.vendors => "vendor" \in answer'.says
      BY FailureAnswer DEF Ends
    <2>2. QED
      BY <1>3, <2>1 DEF TellsOfVendor
  <1>6. QED
    BY <1>1, <1>3, <1>4, <1>5, SendingKeeps

LEMMA ServedKeeps ==
  ASSUME CallInv, Served
  PROVE  CallInv'
  <1>1. Sending /\ GoesOn /\ UNCHANGED << offer, turn, given, wire, vendors >>
    BY DEF Served
  <1>2. CASE ~Request.writes
    BY <1>1, <1>2, ReadGoesOn DEF Served
  <1>3. CASE Request.writes
    <2>1. effects' = effects \cup {Sought} /\ Sought.turn = turn
      BY <1>3 DEF Served, Sought
    <2>2. step \in 1..Len(offer.sends) /\ turn > 0 /\ turn \notin vendors
      BY <1>1, OfferShape DEF CallInv, CallTypeOK, Sending
    <2>3. step = Len(offer.sends) /\ Writes /\ offer.refuses # "after"
      BY <1>3, <2>2, OfferShape DEF Request, Writes
    <2>4. PICK fits \in BOOLEAN : Ends(Answered(Done(fits)))
      BY <1>1, <2>3 DEF GoesOn
    <2>5. Tells' /\ TellsOfVendor'
      BY <1>1, <2>1, <2>2, <2>4, DoneAnswer DEF Ends, Tells, TellsOfVendor
    <2>6. step' = 0 /\ answer' \in Answers /\ answer'.by # "nobody"
      BY <2>4, DoneAnswer DEF Ends
    <2>7. QED
      BY <1>1, <2>1, <2>5, <2>6, SendingKeeps
  <1>4. QED
    BY <1>2, <1>3

LEMMA LostKeeps ==
  ASSUME CallInv, Lost
  PROVE  CallInv'
  <1>1. /\ Sending /\ LeavesVendor /\ UNCHANGED << offer, turn, given >>
        /\ step \in 1..Len(offer.sends)
    BY OfferShape DEF Lost, CallInv, CallTypeOK, Sending
  <1>2. "unknown" \in Flag
    BY DEF Flag
  <1>3. /\ effects \subseteq effects' /\ effects' \subseteq effects \cup {Sought}
        /\ wire \subseteq wire' /\ wire' \subseteq wire \cup {Sought}
    BY DEF Lost
  <1>4. CASE Request.forgives = "everything"
    <2>1. ~Request.writes /\ ~offer.vendors
      BY <1>1, <1>4, OfferShape DEF Request
    <2>2. GoesOn /\ UNCHANGED << effects, wire, vendors >>
      BY <1>1, <1>4, <2>1, VendorLeft DEF Lost
    <2>3. QED
      BY <1>1, <2>1, <2>2, ReadGoesOn
  <1>5. CASE Request.forgives # "everything"
    <2>1. Ends(Answered(Failed("unknown")))
      BY <1>5 DEF Lost
    <2>2. QED
      BY <1>1, <1>2, <1>3, <2>1, FailureKeeps
  <1>6. QED
    BY <1>4, <1>5

LEMMA RefusedKeeps ==
  ASSUME CallInv, NEW flag \in Flag \ {"unknown"}, Refused(flag)
  PROVE  CallInv'
  <1>1. /\ Sending /\ (UNCHANGED vendors \/ LeavesVendor)
        /\ UNCHANGED << offer, turn, given, effects, wire >> /\ step \in 1..Len(offer.sends)
    BY OfferShape DEF Refused, CallInv, CallTypeOK, Sending
  <1>2. CASE Request.forgives = "everything"
    <2>1. ~Request.writes /\ ~offer.vendors
      BY <1>1, <1>2, OfferShape DEF Request
    <2>2. GoesOn /\ UNCHANGED vendors
      BY <1>1, <1>2, <2>1, VendorLeft DEF Refused
    <2>3. QED
      BY <1>1, <2>1, <2>2, ReadGoesOn
  <1>3. CASE Request.forgives # "everything"
    <2>1. Ends(Answered(Failed(flag)))
      BY <1>3 DEF Refused
    <2>2. QED
      BY <1>1, <2>1, FailureKeeps
  <1>4. QED
    BY <1>2, <1>3

LEMMA MissingKeeps ==
  ASSUME CallInv, Missing
  PROVE  CallInv'
  <1>1. /\ Sending /\ LeavesVendor /\ UNCHANGED << offer, turn, given, effects, wire >>
        /\ step \in 1..Len(offer.sends) /\ turn > 0 /\ ~Changed /\ turn \notin vendors
    BY OfferShape DEF Missing, CallInv, CallTypeOK, Sending
  <1>2. CASE Request.forgives # "nothing"
    <2>1. ~Request.writes /\ ~offer.vendors
      BY <1>1, <1>2, OfferShape DEF Request
    <2>2. GoesOn /\ UNCHANGED vendors
      BY <1>1, <1>2, <2>1, VendorLeft DEF Missing
    <2>3. QED
      BY <1>1, <2>1, <2>2, ReadGoesOn
  <1>3. CASE Ends(Answered(Failed("missing")))
    <2>1. "missing" \in Flag
      BY DEF Flag
    <2>2. QED
      BY <1>1, <1>3, <2>1, FailureKeeps
  <1>4. CASE Ends(Answered(Explained))
    <2>1. step' = 0 /\ answer' \in Answers /\ answer'.by = "tool" /\ answer'.error = TRUE
      BY <1>4, ExplainedAnswer DEF Ends
    <2>2. "nothing" \notin answer'.says
          /\ (offer.mode = "openai" /\ offer.vendors => "vendor" \in answer'.says)
      BY <1>4, ExplainedAnswer DEF Ends
    <2>3. Tells'
      BY <1>1, <2>1, <2>2 DEF Tells, Changed, Changes
    <2>4. TellsOfVendor'
      BY <1>1, <2>2, VendorLeft DEF TellsOfVendor
    <2>5. QED
      BY <1>1, <2>1, <2>3, <2>4, VendorLeft, SendingKeeps
  <1>5. CASE offer.on404 = "answer" /\ Ends(Answered(Done(TRUE)))
    <2>1. ~Writes /\ ~offer.vendors
      BY <1>5, OfferShape DEF Writes
    <2>2. UNCHANGED vendors
      BY <1>1, <2>1, VendorLeft
    <2>3. Tells' /\ TellsOfVendor'
      BY <1>1, <1>5, <2>1, <2>2, DoneAnswer
      DEF Ends, Tells, TellsOfVendor, Writes, Changed, Changes
    <2>4. step' = 0 /\ answer' \in Answers /\ answer'.by # "nobody"
      BY <1>5, DoneAnswer DEF Ends
    <2>5. QED
      BY <1>1, <2>2, <2>3, <2>4, SendingKeeps
  <1>6. QED
    BY <1>2, <1>3, <1>4, <1>5 DEF Missing

\* A change that arrives late belonged to its call all along.
LEMMA LateEffectKeeps ==
  ASSUME CallInv, LateEffect
  PROVE  CallInv'
  <1>1. PICK c \in wire : effects' = effects \cup {c} /\ wire' = wire \ {c}
    BY DEF LateEffect
  <1>2. UNCHANGED << offer, turn, given, step, vendors, answer >>
    BY DEF LateEffect
  <1>3. Changes' = Changes
    BY <1>1 DEF Changes
  <1>4. CallTypeOK'
    BY <1>1, <1>2 DEF CallInv, CallTypeOK
  <1>5. turn > 0 /\ step = 0 => Tells' /\ TellsOfVendor'
    BY <1>1, <1>2, <1>3 DEF CallInv, Tells, TellsOfVendor, Writes, Changed
  <1>6. QED
    BY <1>2, <1>3, <1>4, <1>5 DEF CallInv, Changed

LEMMA CallInvStep == CallInv /\ [Next]_vars => CallInv'
  <1> SUFFICES ASSUME CallInv, [Next]_vars PROVE CallInv'
    OBVIOUS
  <1>1. turn \in 0..MaxTurn /\ MaxTurn \in Nat \ {0} /\ given \in Input
    BY TurnAssumption DEF CallInv, CallTypeOK
  <1>2. CASE FirstCall
    <2>1. step = 0 /\ turn \in 0..(MaxTurn - 1)
      BY <1>1, <1>2, OfferShape DEF FirstCall, CallInv, CallTypeOK
    <2>2. PICK confirm \in BOOLEAN, draft \in BOOLEAN :
            Call([ confirm |-> confirm, draft |-> draft \/ offer.forcesDraft ])
      BY <1>2 DEF FirstCall
    <2>3. [ confirm |-> confirm, draft |-> draft \/ offer.forcesDraft ] \in Input
      BY DEF Input
    <2>4. QED
      BY <2>1, <2>2, <2>3, CallKeeps
  <1>3. CASE RepeatCall
    BY <1>1, <1>3, CallKeeps DEF RepeatCall
  <1>4. CASE Served \/ Lost \/ Missing \/ LateEffect
    BY <1>4, ServedKeeps, LostKeeps, MissingKeeps, LateEffectKeeps
  <1>5. ASSUME NEW flag \in {"none", "local", "rejected", "unauthenticated", "denied"},
               Refused(flag)
        PROVE  CallInv'
    <2>1. flag \in Flag \ {"unknown"}
      BY DEF Flag
    <2>2. QED
      BY <1>5, <2>1, RefusedKeeps
  <1>6. CASE UNCHANGED vars
    BY <1>6 DEF vars, CallInv, CallTypeOK, Tells, TellsOfVendor, Writes, Changed, Changes
  <1>7. QED
    BY <1>2, <1>3, <1>4, <1>5, <1>6 DEF Next

LEMMA CallInvariant == Spec => []CallInv
  <1>1. QED
    BY CallInvInit, CallInvStep, PTL DEF Spec

\* A tool call's state keeps its types, whatever tools a catalogue has.
THEOREM CallTypeCorrect == Spec => []CallTypeOK
  <1>1. CallInv => CallTypeOK
    BY DEF CallInv
  <1>2. QED
    BY <1>1, CallInvariant, PTL

\* The wrappers of the surfaces: if the catalogue shows no tool as read-only that
\* changes the ERP, then whatever tools there are and however often a call is
\* repeated, a host that is told of success, of nothing done or of an error is told
\* the truth of the call's changes, late ones included.
THEOREM AnswersStayHonest == Spec /\ []ReadOnlyToolsChangeNothing => []AnswersAreHonest
  <1>1. CallInv /\ ReadOnlyToolsChangeNothing => AnswersAreHonest
    <2> SUFFICES ASSUME CallInv, ReadOnlyToolsChangeNothing, turn > 0, step = 0
                 PROVE  AnswersAreHonest
      BY DEF AnswersAreHonest
    <2>1. Tells
      BY DEF CallInv
    <2>2. offer.listed.hints.readOnly => ~Changed
      BY DEF ReadOnlyToolsChangeNothing, ShownHints, Changed
    <2>3. QED
      BY <2>1, <2>2 DEF Tells, Writes, AnswersAreHonest
  <1>2. QED
    BY <1>1, CallInvariant, PTL

\* applyOpenAIProfile: an error of a call that created a vendor says that the
\* vendor may remain.
THEOREM VendorsAreDisclosed == Spec => []VendorIsDisclosed
  <1>1. CallInv => VendorIsDisclosed
    <2> SUFFICES ASSUME CallInv, step = 0, turn \in vendors PROVE VendorIsDisclosed
      BY DEF VendorIsDisclosed
    <2>1. turn > 0
      BY DEF CallInv, CallTypeOK
    <2>2. QED
      BY <2>1 DEF CallInv, TellsOfVendor, VendorIsDisclosed
  <1>2. QED
    BY <1>1, CallInvariant, PTL

-----------------------------------------------------------------------------
(* What a call is allowed to do.  AskInv holds of every tool: nothing is    *)
(* sent that was not asked for, and a call is repeated on what was shown.   *)

AskInv ==
  /\ step > 0 /\ offer.asks => given.confirm
  /\ turn > 0 /\ offer.forcesDraft => given.draft
  /\ \A c \in Changes :
       Writes /\ (offer.asks => c.confirm) /\ (offer.forcesDraft => c.draft)
  /\ answer.by = "gate" /\ (offer.confirm # "none" => offer.handsConfirm) => ~given.confirm
  /\ turn > 1 => \E h \in ShownHints : h.readOnly \/ h.idempotent

LEMMA AskInvInit == Init => AskInv
  BY DEF Init, AskInv, NoAnswer, Answer, Changes

\* The gate is the only one to refuse for want of confirm, and it lets a call pass
\* that has it.
LEMMA GateAsks ==
  ASSUME NEW input \in Input, Call(input)
  PROVE  /\ answer'.by = "gate" /\ (offer.confirm # "none" => offer.handsConfirm) => ~input.confirm
         /\ step' > 0 /\ offer.asks => input.confirm
  <1>1. ASSUME Ends(Answer(TRUE, "none", {},
                           IF offer.asks /\ ~input.confirm THEN "gate" ELSE "schema"))
        PROVE  ~(step' > 0) /\ (answer'.by = "gate" => ~input.confirm)
    BY <1>1 DEF Ends, Answer
  <1>2. ASSUME offer.asks => input.confirm, Enter(input.confirm /\ offer.handsConfirm)
        PROVE  answer'.by = "gate" =>
                 offer.confirm # "none" /\ ~(input.confirm /\ offer.handsConfirm)
    <2>1. ASSUME NEW flag \in Flag, Ends(Answered(Failed(flag))) PROVE answer'.by = "tool"
      BY <2>1, FailureAnswer DEF Ends
    <2>2. ASSUME Ends(Answered(Explained)) PROVE answer'.by = "tool"
      BY <2>2, ExplainedAnswer DEF Ends
    <2>3. NoAnswer.by = "nobody" /\ "none" \in Flag
      BY DEF NoAnswer, Answer, Flag
    <2>4. QED
      BY <1>2, <2>1, <2>2, <2>3, Zenon DEF Enter
  <1>3. QED
    BY <1>1, <1>2, Zenon DEF Call

\* The answer of a request that went out is no refusal for want of confirm.
LEMMA RequestAnswers ==
  ASSUME Served \/ Lost \/ Missing \/ \E flag \in Flag : Refused(flag)
  PROVE  answer'.by # "gate"
  <1>1. ASSUME NEW flag \in Flag, Ends(Answered(Failed(flag))) PROVE answer'.by # "gate"
    BY <1>1, FailureAnswer DEF Ends
  <1>2. ASSUME Ends(Answered(Explained)) PROVE answer'.by # "gate"
    BY <1>2, ExplainedAnswer DEF Ends
  <1>3. ASSUME NEW fits \in BOOLEAN, Ends(Answered(Done(fits))) PROVE answer'.by # "gate"
    BY <1>3, DoneAnswer DEF Ends
  <1>4. GoesOn => answer'.by # "gate"
    BY <1>2, <1>3 DEF GoesOn, NoAnswer, Answer
  <1>5. "unknown" \in Flag /\ "missing" \in Flag
    BY DEF Flag
  <1>6. QED
    BY <1>1, <1>2, <1>3, <1>4, <1>5 DEF Served, Lost, Missing, Refused

LEMMA CallAsks ==
  ASSUME AskInv, NEW input \in Input, Call(input), offer.forcesDraft => input.draft,
         turn' > 1 => \E h \in ShownHints : h.readOnly \/ h.idempotent
  PROVE  AskInv'
  <1>1. given' = input /\ UNCHANGED << offer, effects, wire >>
    BY DEF Call
  <1>2. ShownHints' = ShownHints /\ Changes' = Changes /\ Writes' = Writes
    BY <1>1 DEF ShownHints, Changes, Writes
  <1>3. QED
    BY <1>1, <1>2, GateAsks DEF AskInv

\* A request changes what its call asked for.
LEMMA RequestAsks ==
  ASSUME CallInv, AskInv, Sending, UNCHANGED << offer, turn, given >>,
         Changes' # Changes => Request.writes /\ Changes' \subseteq Changes \cup {Sought},
         answer'.by # "gate"
  PROVE  AskInv'
  <1>1. step \in 1..Len(offer.sends) /\ turn > 0
    BY OfferShape DEF CallInv, CallTypeOK, Sending
  <1>2. ShownHints' = ShownHints /\ Writes' = Writes
    BY DEF ShownHints, Writes
  <1>3. Sought.confirm = given.confirm /\ Sought.draft = given.draft
    BY DEF Sought
  <1>4. /\ offer.asks => Sought.confirm
        /\ offer.forcesDraft => Sought.draft
    BY <1>1, <1>3 DEF AskInv, Sending
  <1>5. Request.writes => Writes
    BY <1>1 DEF Request, Writes
  <1>6. \A c \in Changes' :
          Writes /\ (offer.asks => c.confirm) /\ (offer.forcesDraft => c.draft)
    BY <1>4, <1>5 DEF AskInv
  <1>7. offer.asks => given'.confirm
    BY <1>1 DEF AskInv, Sending
  <1>8. QED
    BY <1>1, <1>2, <1>6, <1>7 DEF AskInv

LEMMA AskInvStep == CallInv /\ AskInv /\ [Next]_vars => AskInv'
  <1> SUFFICES ASSUME CallInv, AskInv, [Next]_vars PROVE AskInv'
    OBVIOUS
  <1>1. turn \in 0..MaxTurn /\ given \in Input
    BY DEF CallInv, CallTypeOK
  <1>2. CASE FirstCall
    <2>1. PICK confirm \in BOOLEAN, draft \in BOOLEAN :
            Call([ confirm |-> confirm, draft |-> draft \/ offer.forcesDraft ])
      BY <1>2 DEF FirstCall
    <2> DEFINE input == [ confirm |-> confirm, draft |-> draft \/ offer.forcesDraft ]
    <2>2. input \in Input /\ (offer.forcesDraft => input.draft)
      BY Zenon DEF Input
    <2>3. turn' = 1
      BY <1>2, <2>1 DEF FirstCall, Call
    <2> HIDE DEF input
    <2>4. QED
      BY <2>1, <2>2, <2>3, CallAsks DEF input
  <1>3. CASE RepeatCall
    <2>1. Call(given) /\ \E h \in ShownHints : h.readOnly \/ h.idempotent
      BY <1>3 DEF RepeatCall
    <2>2. turn > 0
      BY <1>1, <1>3 DEF RepeatCall
    <2>3. offer.forcesDraft => given.draft
      BY <2>2 DEF AskInv
    <2>4. QED
      BY <1>1, <2>1, <2>3, CallAsks
  <1>4. ASSUME Served \/ Lost \/ Missing \/ \E flag \in Flag : Refused(flag)
        PROVE  AskInv'
    <2>1. Sending /\ UNCHANGED << offer, turn, given >>
      BY <1>4 DEF Served, Lost, Missing, Refused
    <2>2. Changes' # Changes => Request.writes /\ Changes' \subseteq Changes \cup {Sought}
      BY <1>4 DEF Served, Lost, Missing, Refused, Changes
    <2>3. QED
      BY <1>4, <2>1, <2>2, RequestAnswers, RequestAsks
  <1>5. {"none", "local", "rejected", "unauthenticated", "denied"} \subseteq Flag
    BY DEF Flag
  <1>6. CASE LateEffect
    <2>1. Changes' = Changes
      BY <1>6 DEF LateEffect, Changes
    <2>2. QED
      BY <1>6, <2>1 DEF LateEffect, AskInv, ShownHints, Writes
  <1>7. CASE UNCHANGED vars
    BY <1>7 DEF vars, AskInv, ShownHints, Changes, Writes
  <1>8. QED
    BY <1>2, <1>3, <1>4, <1>5, <1>6, <1>7 DEF Next

LEMMA AskInvariant == Spec => [](CallInv /\ AskInv)
  <1>1. Init => AskInv
    BY AskInvInit
  <1>2. QED
    BY <1>1, CallInvariant, AskInvStep, PTL DEF Spec

\* What a surface shows of a tool, and what its handler sends.
HintsOf(o) == {o.listed.hints} \cup { e.hints : e \in o.discovered }
CapabilitiesOf(o) == o.listed.capability \cup UNION { e.capability : e \in o.discovered }
SendsWrite(o) == \E k \in 1..Len(o.sends) : o.sends[k].writes
SendsAdd(o) == \E k \in 1..Len(o.sends) : o.sends[k].adds

\* What a surface has to show of a tool for its hints to be kept.
HintsFit(o) ==
  /\ SendsWrite(o) =>
       /\ \A h \in HintsOf(o) : ~h.readOnly
       /\ \A c \in CapabilitiesOf(o) : c.writesFrihet
  /\ SendsAdd(o) /\ o.operation \notin AmountMovers =>
       \A h \in HintsOf(o) : ~h.readOnly /\ ~h.idempotent

\* What a profile has to do with a tool for the user to be asked before a change.
ConsentFits(o) ==
  /\ o.confirm # "none" => o.handsConfirm
  /\ SendsWrite(o) =>
       /\ o.mode = "openai" => o.asks
       /\ o.mode \in {"openai", "google", "muse"} /\ o.files => o.forcesDraft
       /\ o.mode \in {"claude", "google", "muse"} => \A h \in HintsOf(o) : h.destructive

LEMMA Shown ==
  ASSUME CallInv
  PROVE  /\ offer \in Offer
         /\ ShownHints = HintsOf(offer) /\ ShownCapabilities = CapabilitiesOf(offer)
         /\ Writes = SendsWrite(offer)
  BY DEF CallInv, ShownHints, HintsOf, ShownCapabilities, CapabilitiesOf, Writes, SendsWrite

\* registerTool and its wrappers: of any catalogue whose hints fit the requests of
\* its handlers, a tool shown as read-only or as not writing changes nothing, late
\* requests and repeated calls included.  The condition is about one registration
\* at a time, which is all that a new tool has to be held against.
THEOREM ReadOnlyIsKept ==
  (\A o \in Offer : HintsFit(o)) => (Spec => []ReadOnlyToolsChangeNothing)
  <1> SUFFICES ASSUME \A o \in Offer : HintsFit(o)
               PROVE  Spec => []ReadOnlyToolsChangeNothing
    OBVIOUS
  <1>1. CallInv /\ AskInv => ReadOnlyToolsChangeNothing
    BY Shown DEF AskInv, HintsFit, ReadOnlyToolsChangeNothing
  <1>2. QED
    BY <1>1, AskInvariant, PTL

\* RepeatCall, which a host sends on the hints it was shown: where no tool that adds
\* or sends out something is shown as idempotent, a repeat of a call adds nothing to
\* what the call or its late requests did.
THEOREM RepeatsAreHarmless ==
  (\A o \in Offer : HintsFit(o)) => (Spec => []RepeatsAddNothing)
  <1> SUFFICES ASSUME \A o \in Offer : HintsFit(o)
               PROVE  Spec => []RepeatsAddNothing
    OBVIOUS
  <1>1. CallInv /\ AskInv => RepeatsAddNothing
    <2> SUFFICES ASSUME CallInv, AskInv, offer.operation \notin AmountMovers, SendsAdd(offer),
                        NEW c \in Changes, NEW d \in Changes
                 PROVE  c.turn = d.turn
      BY DEF RepeatsAddNothing, SendsAdd
    <2>1. ~(turn > 1)
      BY Shown DEF AskInv, HintsFit
    <2>2. turn \in Nat /\ c.turn <= turn /\ d.turn <= turn
      BY TurnAssumption DEF CallInv, CallTypeOK
    <2>3. c.turn \in Nat \ {0} /\ d.turn \in Nat \ {0}
      BY TurnAssumption DEF CallInv, CallTypeOK, Changes, Change, Turn
    <2>4. QED
      BY <2>1, <2>2, <2>3
  <1>2. QED
    BY <1>1, AskInvariant, PTL

\* The answers of a catalogue whose hints fit: they are true of what was done.
THEOREM FittingCatalogueIsHonest ==
  (\A o \in Offer : HintsFit(o)) => (Spec => []AnswersAreHonest)
  <1>1. QED
    BY ReadOnlyIsKept, AnswersStayHonest, PTL

\* The confirmation of applyOpenAIProfile and the drafts and hints of the other
\* reviewed profiles: where each tool that writes is asked about or forced to a
\* draft, nothing ever changes without it, by a late request or a repeat neither,
\* and a call that has confirm is never refused for want of it.
THEOREM ConsentComesFirst ==
  (\A o \in Offer : ConsentFits(o)) => (Spec => []ConsentPrecedesChange)
  <1> SUFFICES ASSUME \A o \in Offer : ConsentFits(o)
               PROVE  Spec => []ConsentPrecedesChange
    OBVIOUS
  <1>1. CallInv /\ AskInv => ConsentPrecedesChange
    <2> SUFFICES ASSUME CallInv, AskInv PROVE ConsentPrecedesChange
      OBVIOUS
    <2>1. ConsentFits(offer)
      BY Shown
    <2>2. \A c \in Changes :
            SendsWrite(offer) /\ (offer.asks => c.confirm) /\ (offer.forcesDraft => c.draft)
      BY Shown DEF AskInv
    <2>3. answer.by = "gate" => ~given.confirm
      BY <2>1 DEF AskInv, ConsentFits
    <2>4. QED
      BY <2>1, <2>2, <2>3, Shown DEF ConsentFits, ConsentPrecedesChange
  <1>2. QED
    BY <1>1, AskInvariant, PTL

-----------------------------------------------------------------------------
(* What the surfaces show of a tool *)

\* What the discovery tools have of a registration is what the SDK has.
EntryIsListed(r) == r.entry \subseteq {[ hints |-> r.hints, capability |-> r.capability ]}

\* A tool goes by its own name and by the capability of that name.
CapabilityIsOfTool(r) ==
  /\ r.name = r.operation
  /\ \A c \in r.capability : c.callability = Surface!CallabilityFor(r.operation)

LEMMA AllToolsAreBare ==
  ASSUME NEW r \in Surface!RegisterAllTools
  PROVE  r.entry = {} /\ r.capability = {} /\ r.name = r.operation
  BY DEF Surface!RegisterAllTools, Surface!Registration

LEMMA AllowListKeeps ==
  ASSUME NEW s, NEW regs, NEW r \in Surface!AllowListWrapper(s, regs)
  PROVE  \E q \in regs : /\ r.entry = q.entry /\ r.capability = q.capability
                         /\ r.name = q.name /\ r.operation = q.operation
  BY DEF Surface!AllowListWrapper, Surface!AllowListed, Surface!Registration

LEMMA CapabilityKeeps ==
  ASSUME NEW s, NEW regs, NEW r \in Surface!CapabilityWrapper(s, regs)
  PROVE  \E q \in regs : /\ r.entry = q.entry /\ r.name = q.name /\ r.operation = q.operation
                         /\ \/ r.capability = q.capability
                            \/ \A c \in r.capability :
                                 c.callability = Surface!CallabilityFor(q.name)
  BY DEF Surface!CapabilityWrapper, Surface!CapabilityTruthful, Surface!Registration,
         Surface!PublicCapabilityTruth

LEMMA ExposureRecords ==
  ASSUME NEW s, NEW regs, NEW r \in Surface!ExposureWrapper(s, regs)
  PROVE  \E q \in regs : /\ r.name = q.name /\ r.operation = q.operation
                         /\ r.capability = q.capability
                         /\ r.entry = q.entry \/ EntryIsListed(r)
  BY DEF Surface!ExposureWrapper, Surface!Exposed, Surface!OpenAIReviewed, Surface!Registration,
         EntryIsListed

\* Whatever tools there are, the order of the wrappers makes the discovery catalogue
\* what the SDK lists, and each tool keeps its name.
LEMMA WrappedIsListed ==
  ASSUME NEW s, NEW r \in Surface!Wrapped(s, Surface!RegisterAllTools)
  PROVE  EntryIsListed(r) /\ CapabilityIsOfTool(r)
  <1> DEFINE allowed == Surface!AllowListWrapper(s, Surface!RegisterAllTools)
             capable == Surface!CapabilityWrapper(s, allowed)
  <1>1. ASSUME NEW q \in allowed
        PROVE  q.entry = {} /\ q.capability = {} /\ q.name = q.operation
    BY <1>1, AllowListKeeps, AllToolsAreBare
  <1>2. r \in Surface!ExposureWrapper(s, capable)
    BY DEF Surface!Wrapped
  <1> HIDE DEF allowed
  <1>3. ASSUME NEW q \in capable
        PROVE  q.entry = {} /\ CapabilityIsOfTool(q)
    <2>1. PICK p \in allowed :
            /\ q.entry = p.entry /\ q.name = p.name /\ q.operation = p.operation
            /\ \/ q.capability = p.capability
               \/ \A c \in q.capability : c.callability = Surface!CallabilityFor(p.name)
      BY <1>3, CapabilityKeeps
    <2>2. p.entry = {} /\ p.capability = {} /\ p.name = p.operation
      BY <1>1
    <2>3. QED
      BY <2>1, <2>2 DEF CapabilityIsOfTool
  <1> HIDE DEF capable
  <1>4. PICK q \in capable : /\ r.name = q.name /\ r.operation = q.operation
                             /\ r.capability = q.capability
                             /\ r.entry = q.entry \/ EntryIsListed(r)
    BY <1>2, ExposureRecords
  <1>5. EntryIsListed(r)
    BY <1>3, <1>4 DEF EntryIsListed
  <1>6. CapabilityIsOfTool(r)
    BY <1>3, <1>4 DEF CapabilityIsOfTool
  <1>7. QED
    BY <1>5, <1>6

LEMMA MetaIsListed ==
  ASSUME NEW r \in Surface!MetaTools
  PROVE  EntryIsListed(r) /\ r.operation \in {"list_tool_groups", "search_tools", "describe_tool"}
  BY DEF Surface!MetaTools, Surface!Registration, EntryIsListed

\* An alias shares the object of the tool it stands for, and is not in the catalogue
\* of the discovery tools.
LEMMA RegisteredIsListed ==
  ASSUME NEW s, NEW r \in Surface!RegisterMcpSurface(s)
  PROVE  /\ EntryIsListed(r)
         /\ Surface!DiscoveryNamesAreFree /\ r.operation \in DOMAIN Surface!Catalogue =>
              \A c \in r.capability : c.callability = Surface!CallabilityFor(r.operation)
  <1> DEFINE regs == Surface!Wrapped(s, Surface!RegisterAllTools)
                       \cup (IF s.grouped /\ s.mode # "openai" THEN Surface!MetaTools ELSE {})
  <1>1. ASSUME NEW q \in regs
        PROVE  /\ EntryIsListed(q)
               /\ Surface!DiscoveryNamesAreFree /\ q.operation \in DOMAIN Surface!Catalogue =>
                    \A c \in q.capability : c.callability = Surface!CallabilityFor(q.operation)
    <2>1. CASE q \in Surface!Wrapped(s, Surface!RegisterAllTools)
      BY <2>1, WrappedIsListed DEF CapabilityIsOfTool
    <2>2. CASE q \in Surface!MetaTools
      BY <2>2, MetaIsListed DEF Surface!DiscoveryNamesAreFree
    <2>3. QED
      BY <1>1, <2>1, <2>2
  <1>2. r \in Surface!ApplyFiscalAliases(regs)
    BY DEF Surface!RegisterMcpSurface
  <1> HIDE DEF regs
  <1>3. r \in regs \/ \E q \in regs : /\ r.entry = {} /\ r.operation = q.operation
                                     /\ r.capability = q.capability
    BY <1>2 DEF Surface!ApplyFiscalAliases, Surface!Registration
  <1>4. EntryIsListed(r)
    BY <1>1, <1>3 DEF EntryIsListed
  <1>5. QED
    BY <1>1, <1>3, <1>4

LEMMA CallabilityOfUnavailable ==
  ASSUME NEW t
  PROVE  Surface!CallabilityFor(t) = "unavailable" <=> t \in Surface!UNAVAILABLE
  BY DEF Surface!CallabilityFor

LEMMA OffersAreListed ==
  ASSUME NEW o \in Surface!Offers(Surface!Surfaces)
  PROVE  /\ o.discovered \subseteq {o.listed}
         /\ Surface!UnavailableFits /\ Surface!DiscoveryNamesAreFree =>
              \A c \in CapabilitiesOf(o) : (c.callability = "unavailable") <=> (o.sends = << >>)
  <1>1. PICK s \in Surface!Surfaces : \E r \in Surface!RegisterMcpSurface(s) :
          r.operation \in DOMAIN Surface!Catalogue /\ o = Surface!OfferOf(s.mode, r)
    BY DEF Surface!Offers
  <1>2. PICK r \in Surface!RegisterMcpSurface(s) :
          r.operation \in DOMAIN Surface!Catalogue /\ o = Surface!OfferOf(s.mode, r)
    BY <1>1
  <1>3. /\ o.listed = [ hints |-> r.hints, capability |-> r.capability ]
        /\ o.discovered = r.entry /\ o.sends = Surface!Sends(r.operation)
    BY <1>2 DEF Surface!OfferOf, Surface!Described
  <1>4. o.discovered \subseteq {o.listed}
    BY <1>2, <1>3, RegisteredIsListed DEF EntryIsListed
  <1>5. CapabilitiesOf(o) = r.capability
    <2>1. o.listed.capability = r.capability
      BY <1>3
    <2>2. \A e \in o.discovered : e.capability = r.capability
      BY <1>4, <2>1
    <2>3. QED
      BY <2>1, <2>2 DEF CapabilitiesOf
  <1>6. ASSUME Surface!UnavailableFits, Surface!DiscoveryNamesAreFree, NEW c \in CapabilitiesOf(o)
        PROVE  (c.callability = "unavailable") <=> (o.sends = << >>)
    <2>1. c.callability = Surface!CallabilityFor(r.operation)
      BY <1>2, <1>5, <1>6, RegisteredIsListed
    <2>2. QED
      BY <1>2, <1>3, <1>6, <2>1, CallabilityOfUnavailable DEF Surface!UnavailableFits
  <1>7. QED
    BY <1>4, <1>6

\* registerMcpSurface: on every surface describe_tool and tools/list say the same of a
\* tool, and a tool shown as unavailable never answers, while one that has nothing to
\* call is shown as unavailable.  The two conditions are what CatalogueAssumption says.
THEOREM DiscoveryStaysTruthful ==
  /\ Offer \subseteq Surface!Offers(Surface!Surfaces)
  /\ Surface!UnavailableFits /\ Surface!DiscoveryNamesAreFree
  => (Spec => []DiscoveryIsTruthful)
  <1> SUFFICES ASSUME Offer \subseteq Surface!Offers(Surface!Surfaces),
                      Surface!UnavailableFits, Surface!DiscoveryNamesAreFree
               PROVE  Spec => []DiscoveryIsTruthful
    OBVIOUS
  <1>1. CallInv => DiscoveryIsTruthful
    <2> SUFFICES ASSUME CallInv PROVE DiscoveryIsTruthful
      OBVIOUS
    <2>1. offer \in Surface!Offers(Surface!Surfaces) /\ ShownCapabilities = CapabilitiesOf(offer)
      BY Shown
    <2>2. QED
      BY <2>1, OffersAreListed DEF DiscoveryIsTruthful
  <1>2. QED
    BY <1>1, CallInvariant, PTL

-----------------------------------------------------------------------------
(* The two together *)

\* A worker that reads the body before the call is the reader, then the call: what
\* is proved of each holds of the worker.
THEOREM RemoteCallsAreBoth == RemoteSpec => Spec /\ BodySpec
  <1>1. RemoteInit => Init /\ BodyInit
    BY DEF RemoteInit
  <1>2. [RemoteNext]_<<vars, bodyVars>> => [Next]_vars /\ [BodyNext]_bodyVars
    BY DEF RemoteNext, ReadBody, RemoteFirstCall, AfterwardStep, Next
  <1>3. QED
    BY <1>1, <1>2, PTL DEF RemoteSpec, Spec, BodySpec
===============================================================================
