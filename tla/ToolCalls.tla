------------------------------ MODULE ToolCalls ------------------------------
(***************************************************************************)
(* One tool of a surface, called by a host: the checks before the handler, *)
(* the handler's requests to the ERP one after another, the error it makes *)
(* of a failed one, and what the surface's wrapper tells the host of it.   *)
(* The host may send the same call again when what it was shown of the     *)
(* tool says that a repeat does no harm.                                   *)
(*                                                                         *)
(* A request is abstracted to what ApiClient shows of it: one of unknown   *)
(* outcome may have taken effect, may still take it, or never will; one    *)
(* that was refused has none.                                              *)
(***************************************************************************)
EXTENDS Integers, Sequences, FiniteSets

CONSTANTS
  Offer,    \* the tools of the surfaces, as ToolSurface!Offers describes them
  MaxTurn   \* how often the host sends the call (bound)

VARIABLES
  offer,    \* the tool that is called
  turn,     \* the calls sent so far
  given,    \* the input of the calls: [confirm, draft]
  step,     \* the request under way, 0 between the calls
  effects,  \* the changes of the ERP: [turn, confirm, draft]
  wire,     \* the changes that may still happen
  vendors,  \* the turns that left a vendor behind
  answer    \* the answer of the last call

vars == << offer, turn, given, step, effects, wire, vendors, answer >>

ASSUME TurnAssumption == MaxTurn \in Nat \ {0}

\* A handler sends at most one request that writes, and sends it last.
ASSUME WriteComesLast ==
  \A o \in Offer :
    /\ o.sends \in Seq([ writes : BOOLEAN, adds : BOOLEAN,
                         forgives : {"nothing", "missing", "everything"} ])
    /\ \A k \in 1..Len(o.sends) :
         o.sends[k].writes => k = Len(o.sends) /\ o.sends[k].forgives = "nothing"

\* One that writes neither takes a 404 for an answer nor judges what it is sent,
\* and one that names a vendor sends the write alone.
ASSUME WritersReport ==
  \A o \in Offer :
    /\ (\E k \in 1..Len(o.sends) : o.sends[k].writes) =>
         o.on404 # "answer" /\ o.refuses # "after"
    /\ o.vendors => Len(o.sends) = 1 /\ o.sends[1].writes

Turn == 1..MaxTurn
Input == [ confirm : BOOLEAN, draft : BOOLEAN ]
Change == [ turn : Turn, confirm : BOOLEAN, draft : BOOLEAN ]

\* What an error may be flagged with, one flag at most.
Flag == { "none", "unknown", "local", "rejected", "unauthenticated", "denied",
          "missing", "confirm" }

(***************************************************************************)
(* An answer: "says" is what its text tells of the outcome (nothing was    *)
(* done, it may have been done, a vendor may remain), "by" who refused.    *)
(***************************************************************************)
Answer(error, flag, says, by) ==
  [ error |-> error, flag |-> flag, says |-> says, by |-> by ]

NoAnswer == Answer(FALSE, "none", {}, "nobody")

-----------------------------------------------------------------------------
(* From the handler's result to the answer *)

\* The result of a handler; "fits" when it matches the tool's output schema.
Result(error, flag, structured, fits) ==
  [ error |-> error, flag |-> flag, structured |-> structured, fits |-> fits ]

Done(fits) == Result(FALSE, "none", TRUE, fits)
Failed(flag) == Result(TRUE, flag, FALSE, TRUE)
\* An error with content of its own: unexpected, ambiguous or not served.
Explained == Result(TRUE, "none", TRUE, TRUE)

\* The texts of handleToolError that speak of the outcome.
ErrorSays(flag) ==
  CASE flag = "unknown" -> {"maybe"}
    [] flag = "local" -> {"nothing"}
    [] OTHER -> {}

ClaudeErrorSays(flag, structured) ==
  CASE flag = "unknown" -> {"maybe"}
    [] flag \in {"confirm", "local"} -> {"nothing"}
    [] flag = "none" /\ ~structured -> {"maybe"}
    [] OTHER -> {}

Residual == IF offer.vendors THEN {"vendor"} ELSE {}

\* The SDK checks the result of a tool that has not failed.
SdkAnswer(result, says) ==
  IF ~result.error /\ ~result.fits THEN Answer(TRUE, "none", {}, "sdk")
  ELSE Answer(result.error, result.flag, says, "tool")

\* Mutant: a result that does not fit is the reviewed wrapper's plain error.
OpenAIAnswerMisfitPlain(result) ==
  LET writes == ~offer.listed.hints.readOnly
      unknown == result.error /\ result.flag = "unknown" /\ writes
  IN  CASE unknown -> Answer(TRUE, "unknown", {"maybe"} \cup Residual, "tool")
        [] result.error /\ ~unknown ->
             Answer(TRUE, result.flag, ErrorSays(result.flag) \cup Residual, "tool")
        [] OTHER -> Answer(~result.fits, "none", {}, "tool")

\* Mutant: the vendor is told of only when the outcome is unknown.
OpenAIAnswerVendorForgotten(result) ==
  LET writes == ~offer.listed.hints.readOnly
      mayHaveCompleted == Answer(TRUE, "unknown", {"maybe"} \cup Residual, "tool")
  IN  CASE result.error /\ result.flag = "unknown" /\ writes -> mayHaveCompleted
        [] ~result.error /\ ~result.fits /\ writes -> mayHaveCompleted
        [] OTHER -> Answer(result.error \/ ~result.fits, result.flag, ErrorSays(result.flag), "tool")

OpenAIAnswer(result) ==
  LET writes == ~offer.listed.hints.readOnly
      mayHaveCompleted == Answer(TRUE, "unknown", {"maybe"} \cup Residual, "tool")
  IN  CASE result.error /\ result.flag = "unknown" /\ writes -> mayHaveCompleted
        [] result.error /\ ~(result.flag = "unknown" /\ writes) ->
             Answer(TRUE, result.flag, ErrorSays(result.flag) \cup Residual, "tool")
        [] ~result.error /\ ~result.fits /\ writes -> mayHaveCompleted
        [] ~result.error /\ ~result.fits /\ ~writes -> Answer(TRUE, "none", {}, "tool")
        [] OTHER -> Answer(FALSE, "none", {}, "tool")

Answered(result) ==
  CASE offer.mode = "openai" -> OpenAIAnswer(result)
    [] offer.mode = "claude" ->
         SdkAnswer(result, IF result.error
                           THEN ClaudeErrorSays(result.flag, result.structured)
                           ELSE {})
    [] OTHER ->
         SdkAnswer(result, IF result.error THEN ErrorSays(result.flag) ELSE {})

-----------------------------------------------------------------------------
(* Calls *)

Init ==
  /\ offer \in Offer
  /\ turn = 0 /\ step = 0
  /\ given = [ confirm |-> FALSE, draft |-> FALSE ]
  /\ effects = {} /\ wire = {} /\ vendors = {}
  /\ answer = NoAnswer

Ends(with) == step' = 0 /\ answer' = with

(***************************************************************************)
(* The handler, entered with confirm = handed: its own check of confirm,   *)
(* an error of its own, nothing to send, or its first request.             *)
(***************************************************************************)
Enter(handed) ==
  \/ /\ offer.confirm # "none" /\ ~handed
     /\ LET flag == IF offer.confirm = "flagged" THEN "confirm" ELSE "none"
            refusal == Answered(Failed(flag))
        IN  Ends(Answer(TRUE, flag, refusal.says, "gate"))
  \/ /\ offer.confirm # "none" => handed
     /\ \/ offer.refuses # "never" /\ Ends(Answered(Failed("none")))
        \/ offer.sends = << >> /\ Ends(Answered(Explained))
        \/ offer.sends # << >> /\ step' = 1 /\ answer' = NoAnswer

(***************************************************************************)
(* A call with an input.  The SDK checks it against the schema, which the  *)
(* OpenAI wrapper does again after its own check of confirm; it hands      *)
(* confirm on only to the handlers that know it.                           *)
(***************************************************************************)
Call(input) ==
  /\ turn' = turn + 1 /\ given' = input
  /\ \/ Ends(Answer(TRUE, "none", {}, IF offer.asks /\ ~input.confirm THEN "gate" ELSE "schema"))
     \/ /\ offer.asks => input.confirm
        /\ Enter(input.confirm /\ offer.handsConfirm)
  /\ UNCHANGED << offer, effects, wire, vendors >>

\* Documents are created as drafts where the profile forces it.
FirstCall ==
  /\ turn = 0
  /\ \E confirm, draft \in BOOLEAN :
       Call([ confirm |-> confirm, draft |-> draft \/ offer.forcesDraft ])

\* What the host was shown: by tools/list and by describe_tool.
ShownHints == {offer.listed.hints} \cup { e.hints : e \in offer.discovered }
ShownCapabilities ==
  offer.listed.capability \cup UNION { e.capability : e \in offer.discovered }

RepeatCall ==
  /\ step = 0 /\ turn \in 1..(MaxTurn - 1)
  /\ \E h \in ShownHints : h.readOnly \/ h.idempotent
  /\ Call(given)

-----------------------------------------------------------------------------
(* Requests *)

Sending == step > 0
Request == offer.sends[step]
Sought == [ turn |-> turn, confirm |-> given.confirm, draft |-> given.draft ]

\* The handler goes on after a request: with the next one or with its result.
GoesOn ==
  \/ step < Len(offer.sends) /\ step' = step + 1 /\ answer' = NoAnswer
  \/ step = Len(offer.sends) /\ \E fits \in BOOLEAN : Ends(Answered(Done(fits)))
  \/ /\ step = Len(offer.sends) /\ offer.refuses = "after"
     /\ Ends(Answered(Explained))

Served ==
  /\ Sending
  /\ effects' = IF Request.writes THEN effects \cup {Sought} ELSE effects
  /\ GoesOn
  /\ UNCHANGED << offer, turn, given, wire, vendors >>

\* The vendor an expense names is created before the expense.
LeavesVendor == vendors' \in { vendors, IF offer.vendors THEN vendors \cup {turn} ELSE vendors }

\* No usable answer: a timeout, a lost or unreadable response, a 5xx.
Lost ==
  /\ Sending
  /\ \/ UNCHANGED << effects, wire >>
     \/ Request.writes /\ effects' = effects \cup {Sought} /\ UNCHANGED wire
     \/ Request.writes /\ wire' = wire \cup {Sought} /\ UNCHANGED effects
  /\ LeavesVendor
  /\ IF Request.forgives = "everything" THEN GoesOn
     ELSE Ends(Answered(Failed("unknown")))
  /\ UNCHANGED << offer, turn, given >>

\* The client rejects the arguments or the API refuses the request; "none"
\* stands for the refusals without a flag (409, 413, 429 and others).
Refused(flag) ==
  /\ Sending
  /\ IF flag \in {"local", "unauthenticated"} THEN UNCHANGED vendors ELSE LeavesVendor
  /\ IF Request.forgives = "everything" THEN GoesOn ELSE Ends(Answered(Failed(flag)))
  /\ UNCHANGED << offer, turn, given, effects, wire >>

\* A 404: forgiven, a record that is missing, or a route that is not served.
Missing ==
  /\ Sending
  /\ LeavesVendor
  /\ IF Request.forgives # "nothing" THEN GoesOn
     ELSE \/ offer.on404 # "unserved" /\ Ends(Answered(Failed("missing")))
          \/ offer.on404 \in {"ambiguous", "unserved"} /\ Ends(Answered(Explained))
          \/ offer.on404 = "answer" /\ Ends(Answered(Done(TRUE)))
  /\ UNCHANGED << offer, turn, given, effects, wire >>

\* A request whose call is over takes effect.
LateEffect ==
  \E c \in wire :
    /\ effects' = effects \cup {c} /\ wire' = wire \ {c}
    /\ UNCHANGED << offer, turn, given, step, vendors, answer >>

Next ==
  \/ FirstCall \/ RepeatCall
  \/ Served \/ Lost \/ Missing
  \/ \E flag \in {"none", "local", "rejected", "unauthenticated", "denied"} :
       Refused(flag)
  \/ LateEffect

Spec == Init /\ [][Next]_vars

-----------------------------------------------------------------------------
(* Properties *)

Answers == [ error : BOOLEAN, flag : Flag, says : SUBSET {"nothing", "maybe", "vendor"},
             by : {"nobody", "schema", "gate", "tool", "sdk"} ]

\* The values of the state but for the tool, which stays the one chosen; a call
\* is answered or has a request of its handler under way.
CallTypeOK ==
  /\ turn \in 0..MaxTurn
  /\ given \in Input
  /\ step \in 0..Len(offer.sends)
  /\ effects \subseteq Change /\ wire \subseteq Change
  /\ vendors \subseteq Turn
  /\ answer \in Answers
  /\ answer.by = "nobody" => step > 0 \/ turn = 0

Changes == effects \cup wire
Changed == \E c \in Changes : c.turn = turn

\* A call of a tool shown as read-only, or as not writing, by tools/list or by
\* the discovery tools never changes the ERP (capability-truth.ts corrects the
\* hints before the catalogue takes them).
ReadOnlyToolsChangeNothing ==
  \/ \E h \in ShownHints : h.readOnly
  \/ \E c \in ShownCapabilities : ~c.writesFrihet
  => Changes = {}

\* The tools that move an amount each time and are registered as idempotent all
\* the same: refund_sale with DELETE_ANNOTATIONS (pos.ts), apply_deposit with
\* UPDATE_ANNOTATIONS (deposits.ts), neither corrected by NON_IDEMPOTENT.
AmountMovers == {"refund_sale", "apply_deposit"}

\* A host that sends a call again because the tool is shown as idempotent does
\* not make the ERP add a second record or movement, nor send a second event,
\* email or filing.  The AmountMovers are left out: for them the hint is untrue.
RepeatsAddNothing ==
  offer.operation \notin AmountMovers =>
    \A k \in 1..Len(offer.sends) :
      offer.sends[k].adds => \A c, d \in Changes : c.turn = d.turn

\* What the host is told of a call is so: done means done, nothing means that
\* nothing happened or will, and an error of a call that may have changed the
\* ERP says so, except where the SDK itself rejects a result it was given.
AnswersAreHonest ==
  turn > 0 /\ step = 0 =>
    /\ ~answer.error /\ (\E k \in 1..Len(offer.sends) : offer.sends[k].writes) =>
         \E c \in effects : c.turn = turn
    /\ "nothing" \in answer.says => ~Changed
    /\ answer.error /\ Changed => "maybe" \in answer.says \/ answer.by = "sdk"
    /\ answer.by = "sdk" => offer.mode # "openai"

\* An expense that fails on the reviewed connector after its vendor was created
\* is reported with the vendor that may remain.
VendorIsDisclosed ==
  offer.mode = "openai" /\ step = 0 /\ answer.error /\ turn \in vendors =>
    "vendor" \in answer.says

\* On the reviewed connector nothing changes without confirm=true, which is
\* also enough; where new documents are drafts, nothing is filed otherwise;
\* Claude, Google and Muse are shown every writing tool as one to ask about.
ConsentPrecedesChange ==
  /\ offer.mode = "openai" => \A c \in Changes : c.confirm
  /\ answer.by = "gate" => ~given.confirm
  /\ offer.mode \in {"openai", "google", "muse"} /\ offer.files =>
       \A c \in Changes : c.draft
  /\ offer.mode \in {"claude", "google", "muse"} /\ Changes # {} =>
       \A h \in ShownHints : h.destructive

\* describe_tool and tools/list say the same, and a tool shown as unavailable
\* never answers, while one that has nothing to call is shown as unavailable.
DiscoveryIsTruthful ==
  /\ offer.discovered \subseteq {offer.listed}
  /\ \A c \in ShownCapabilities :
       turn > 0 /\ step = 0 /\ answer.by = "tool" =>
         (c.callability = "unavailable") = (offer.sends = << >>)
=============================================================================
