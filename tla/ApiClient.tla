----------------------------- MODULE ApiClient ------------------------------
(***************************************************************************)
(* The HTTP client of the ERP API (src/client.ts) under its rate limits,   *)
(* timeouts and lost answers, up to the result a tool reports              *)
(* (src/tools/shared.ts), with the API behind it and the edge proxy of the *)
(* default base URL (workers/api-proxy/worker.js) in between.              *)
(*                                                                         *)
(* A call sends one attempt at a time and retries only after a 429.        *)
(* The API executes an attempt at most once and answers a repeated         *)
(* idempotency key from what it saved. An attempt whose answer the client  *)
(* stops waiting for stays on the wire and may execute at any later time.  *)
(***************************************************************************)
EXTENDS Integers

CONSTANTS
  Call,           \* tool calls that reach the API
  CallerKey,      \* idempotency keys that callers supply
  FreshKey,       \* idempotency keys the client draws, no two alike
  NoKey, BlankKey,
  MaxRetries,     \* 429 retries of one call
  DefaultDelay,   \* first backoff
  DefaultBudget,  \* time one call may sleep, unless the options say otherwise
  BudgetOption,   \* retryBudgetMs of the options, or NoBudget
  NoBudget,
  MaxTimer,       \* a longer timer fires at once
  MaxSafe,        \* what a wait too large for a number becomes
  Seconds,        \* waits a rate limiter may ask for
  Proxied,        \* requests pass the edge proxy
  EarlyLimited    \* the calls whose attempts are not taken where they are answered 429

ASSUME ApiAssumption ==
  /\ EarlyLimited \subseteq Call
  /\ CallerKey \cap FreshKey = {}
  /\ {NoKey, BlankKey} \cap (CallerKey \cup FreshKey) = {}
  /\ MaxRetries \in Nat /\ DefaultBudget \in Nat
  /\ MaxTimer \in Nat /\ MaxSafe \in Nat /\ Seconds \subseteq Nat
  /\ DefaultBudget <= MaxTimer /\ MaxTimer < MaxSafe

ASSUME BackoffAssumption ==
  \A n \in 0..MaxRetries : DefaultDelay * 2 ^ n \in Nat

VARIABLES
  at,        \* where a call is, or the result it ended with
  req,       \* its operation, the key it was given and the key it sends
  wait,      \* its retries and how long it slept, has to sleep and sleeps
  minted,    \* fresh keys that were drawn
  wire,      \* attempts the API may still take
  answers,   \* attempts the API has executed and whose call still waits
  effects    \* attempts whose execution changed the ERP

vars == <<at, req, wait, minted, wire, answers, effects>>

Operation == {"write", "read", "document"}

Unsent == [op |-> "read", supplied |-> NoKey, key |-> NoKey]

NoWait == [retries |-> 0, waited |-> 0, asked |-> 0, slept |-> 0]

\* The attempt a call is waiting for.
Attempt(c) == [call |-> c, no |-> wait[c].retries, key |-> req[c].key]

-----------------------------------------------------------------------------
(* Options, keys and waits *)

\* Mutant: the option is taken as it is, beyond what a timer can wait.
RetryBudgetUncapped == IF BudgetOption \in Nat THEN BudgetOption ELSE DefaultBudget

\* retryBudgetMs, unless it is no budget; never beyond what a timer can wait.
RetryBudget ==
  IF BudgetOption \in Nat
  THEN IF BudgetOption < MaxTimer THEN BudgetOption ELSE MaxTimer
  ELSE DefaultBudget

\* A caller's key if it carries a value, else a new one for a mutation.
ResolvedKeys(op, supplied) ==
  IF supplied \in CallerKey THEN {supplied}
  ELSE IF op = "write" THEN FreshKey \ minted
  ELSE {NoKey}

Draw(k) == minted' = minted \cup ({k} \cap FreshKey)

\* Retry-After: absent, not parseable, a number of seconds or a date, which may be past.
Header ==
  [form : {"absent", "malformed"}, ms : {0}]
    \cup [form : {"seconds"}, ms : Seconds]
    \cup [form : {"date"}, ms : Seconds \cup {-1}]

\* How long the server asks to wait.
AskedWait(h) == IF h.ms > 0 THEN h.ms ELSE 0

\* The header the client sees: the proxy's allowlist does not name it.
Delivered(h) == IF Proxied THEN [form |-> "absent", ms |-> 0] ELSE h

ParseRetryAfter(h) ==
  IF h.form = "seconds" THEN IF h.ms > MaxSafe THEN MaxSafe ELSE h.ms
  ELSE IF h.ms > 0 THEN h.ms ELSE 0

Backoff(n) == DefaultDelay * 2 ^ n

RateLimitDelay(h, n) ==
  IF h.form \in {"seconds", "date"} THEN ParseRetryAfter(h) ELSE Backoff(n)

\* What setTimeout waits.
TimerWaits(ms) == IF ms > MaxTimer THEN 0 ELSE ms

-----------------------------------------------------------------------------
(* One call *)

\* The call waits no longer for its attempt.
Leave(c, to, w) ==
  /\ at' = [at EXCEPT ![c] = to]
  /\ wait' = [wait EXCEPT ![c] = w]
  /\ answers' = answers \ {Attempt(c)}
  /\ UNCHANGED <<req, minted, effects>>

\* The call ends with a result the tool reports.
Report(c, result) == Leave(c, result, NoWait)

Send(c, r, w) ==
  /\ at' = [at EXCEPT ![c] = "sending"]
  /\ req' = [req EXCEPT ![c] = r]
  /\ wait' = [wait EXCEPT ![c] = w]
  /\ Draw(r.key)
  /\ wire' = wire \cup {[call |-> c, no |-> w.retries, key |-> r.key]}
  /\ UNCHANGED <<answers, effects>>

\* The API does not take the attempt.
Untaken(c) == Attempt(c) \in wire /\ wire' = wire \ {Attempt(c)}

\* An id that is no path segment is refused before anything is sent.
RejectLocally(c) ==
  /\ at[c] = "idle"
  /\ Report(c, "local_validation")
  /\ UNCHANGED wire

Start(c, op, supplied) ==
  /\ at[c] = "idle"
  /\ op = "write" \/ supplied = NoKey
  /\ \E k \in ResolvedKeys(op, supplied) :
       Send(c, [op |-> op, supplied |-> supplied, key |-> k], NoWait)

\* The abort timer fires, the network fails or the answer is a redirect.
FetchFails(c) ==
  /\ at[c] = "sending"
  /\ \E result \in {"request_timeout", "network_error"} : Report(c, result)
  /\ UNCHANGED wire

\* A 429: retry after the wait asked for, give up, or defer to the caller.
RateLimited(c, h) ==
  /\ at[c] = "sending"
  /\ Untaken(c) \/ (c \notin EarlyLimited /\ UNCHANGED wire)
  /\ LET w == wait[c]
         delay == RateLimitDelay(Delivered(h), w.retries)
     IN  IF w.retries >= MaxRetries THEN Report(c, "rate_limit_exceeded")
         ELSE IF w.waited + delay > RetryBudget THEN Report(c, "rate_limit_deferred")
         ELSE Leave(c, "sleeping", [retries |-> w.retries, waited |-> w.waited + delay,
                                    asked |-> AskedWait(h), slept |-> TimerWaits(delay)])

\* Mutant: the recursion passes on the key it was given, not the one it resolved.
RetryWithFreshKey(c) ==
  {[op |-> req[c].op, supplied |-> req[c].supplied, key |-> k] :
     k \in ResolvedKeys(req[c].op, req[c].supplied)}

\* A retry sends the key of the attempt before.
RetryRequests(c) == {req[c]}

\* Mutant: the recursion leaves its counters out.
RetryAfresh(c) ==
  /\ at[c] = "sleeping"
  /\ \E r \in RetryRequests(c) : Send(c, r, NoWait)

\* Mutant: the call that defers to its caller retries all the same.
RetryDeferred(c) ==
  /\ at[c] \in {"sleeping", "rate_limit_deferred"}
  /\ \E r \in RetryRequests(c) :
       Send(c, r, [retries |-> wait[c].retries + 1, waited |-> wait[c].waited,
                   asked |-> 0, slept |-> 0])

\* The timer fires and the call sends its next attempt.
Retry(c) ==
  /\ at[c] = "sleeping"
  /\ \E r \in RetryRequests(c) :
       Send(c, r, [retries |-> wait[c].retries + 1, waited |-> wait[c].waited,
                   asked |-> 0, slept |-> 0])

\* The API refuses the attempt without taking it.
Refused(c) ==
  /\ at[c] = "sending"
  /\ Untaken(c)
  /\ \E result \in {"bad_request", "unauthenticated", "denied", "conflict"} : Report(c, result)

\* Another attempt holds the key. The code of the 409 is read from its body,
\* which may be unreadable.
KeyInProgress(c) ==
  /\ at[c] = "sending"
  /\ \E b \in wire \ {Attempt(c)} : b.key = req[c].key /\ b.key # NoKey
  /\ Untaken(c)
  /\ \E result \in {"in_progress", "conflict"} : Report(c, result)

\* A 5xx of the API, or the proxy's 502 once it stops waiting.
ServerFails(c) ==
  /\ at[c] = "sending"
  /\ Report(c, "server_error")
  /\ UNCHANGED wire

\* A 2xx, whose body arrives, stalls or cannot be read.
Succeeds(c) ==
  /\ at[c] = "sending"
  /\ Attempt(c) \in answers
  /\ \E result \in {"success", "response_timeout", "invalid_response_after_success"} :
       Report(c, result)
  /\ UNCHANGED wire

\* A document is read within a bound, before its status is looked at; a page
\* must be a list of rows.
ReadFailures(op) ==
  CASE op = "document" -> {"payload_too_large", "invalid_response", "stream_failed"}
    [] op = "read" -> {"invalid_response"}
    [] op = "write" -> {}

ReadFails(c) ==
  /\ at[c] = "sending"
  /\ \E result \in ReadFailures(req[c].op) : Report(c, result)
  /\ UNCHANGED wire

-----------------------------------------------------------------------------
(* The API *)

Used(k) == k # NoKey /\ \E e \in effects : e.key = k

\* The API takes an attempt: a write changes the ERP unless its key was used.
Execute(a) ==
  /\ a \in wire
  /\ wire' = wire \ {a}
  /\ answers' = IF at[a.call] = "sending" /\ a = Attempt(a.call)
                THEN answers \cup {a} ELSE answers
  /\ effects' = IF req[a.call].op = "write" /\ ~Used(a.key)
                THEN effects \cup {a} ELSE effects
  /\ UNCHANGED <<at, req, wait, minted>>

-----------------------------------------------------------------------------
(* What the tool reports (handleToolError) *)

TransportUnknown(result) == result \in {"request_timeout", "network_error"}

\* Mutant: only a call without an answer is of unknown outcome.
OutcomeUnknownUnanswered(result) == TransportUnknown(result) \/ result = "response_timeout"

OutcomeUnknown(result) ==
  \/ TransportUnknown(result)
  \/ result \in {"response_timeout", "invalid_response_after_success", "server_error", "in_progress"}

Init ==
  /\ at = [c \in Call |-> "idle"]
  /\ req = [c \in Call |-> Unsent]
  /\ wait = [c \in Call |-> NoWait]
  /\ minted = {} /\ wire = {} /\ answers = {} /\ effects = {}

Receive(c) ==
  \/ FetchFails(c)
  \/ \E h \in Header : RateLimited(c, h)
  \/ Refused(c)
  \/ KeyInProgress(c)
  \/ ServerFails(c)
  \/ Succeeds(c)
  \/ ReadFails(c)

CallStep(c) ==
  \/ RejectLocally(c)
  \/ \E op \in Operation, supplied \in CallerKey \cup {NoKey, BlankKey} : Start(c, op, supplied)
  \/ Receive(c)
  \/ Retry(c)

Next ==
  \/ \E c \in Call : CallStep(c)
  \/ \E a \in wire : Execute(a)

Spec == Init /\ [][Next]_vars

\* Timers fire: an attempt is aborted in the end and a sleep ends.
LiveSpec == Spec /\ \A c \in Call : WF_vars(Receive(c)) /\ WF_vars(Retry(c))

-----------------------------------------------------------------------------
(* Properties *)

Result ==
  {"local_validation", "request_timeout", "network_error", "rate_limit_exceeded",
   "rate_limit_deferred", "bad_request", "unauthenticated", "denied", "conflict",
   "in_progress", "server_error", "success", "response_timeout",
   "invalid_response_after_success", "payload_too_large", "invalid_response",
   "stream_failed"}

Sent == {"sending", "sleeping"}

AnyKey == CallerKey \cup FreshKey \cup {NoKey}

AttemptType == [call : Call, no : 0..MaxRetries, key : AnyKey]

\* The values of the state; no call sleeps longer than its budget or sends more
\* than MaxRetries + 1 attempts.
TypeOK ==
  /\ at \in [Call -> {"idle"} \cup Sent \cup Result]
  /\ req \in [Call -> [op : Operation, supplied : CallerKey \cup {NoKey, BlankKey}, key : AnyKey]]
  /\ wait \in [Call -> [retries : 0..MaxRetries, waited : 0..RetryBudget, asked : Nat, slept : Nat]]
  /\ minted \subseteq FreshKey
  /\ wire \subseteq AttemptType
  /\ answers \subseteq AttemptType
  /\ effects \subseteq AttemptType

SameIntent(c, d) ==
  \/ c = d
  \/ req[c].supplied \in CallerKey /\ req[c].supplied = req[d].supplied

\* A write changes the ERP at most once, however often it was retried, whenever
\* its attempts execute and however often its caller repeated it with its key.
IntentExecutesOnce ==
  \A e1, e2 \in effects : SameIntent(e1.call, e2.call) => e1 = e2

\* handleToolError: a write reported as done took effect; a failed one that is
\* not reported as of unknown outcome has changed nothing and never will, if a
\* 429 means that the API did not take the attempt.
OutcomeIsHonest ==
  \A c \in Call :
    at[c] \in Result /\ req[c].op = "write" =>
      IF at[c] = "success"
      THEN \E e \in effects : SameIntent(e.call, c)
      ELSE c \in EarlyLimited /\ ~OutcomeUnknown(at[c]) =>
             \A a \in wire \cup effects : a.call # c

\* A call that sleeps does so for at least the wait the server asked for.
ServerWaitIsHonored ==
  \A c \in Call : at[c] = "sleeping" => wait[c].slept >= wait[c].asked

\* What the writes ask for, which of them may still take effect, what they are told.
Intents == [c \in Call |-> IF req[c].op = "write" THEN req[c].key ELSE NoKey]

Outstanding == {c \in Call : req[c].op = "write" /\ \E a \in wire : a.call = c}

Told ==
  [c \in Call |->
     IF req[c].op # "write" \/ at[c] \notin Result THEN "waiting"
     ELSE IF at[c] = "success" THEN "done"
     ELSE IF c \in EarlyLimited /\ ~OutcomeUnknown(at[c]) THEN "nothing"
     ELSE "unknown"]

Promise == INSTANCE OneCall WITH
  Intent <- CallerKey \cup FreshKey, Repeatable <- CallerKey,
  Mark <- 0..MaxRetries, None <- NoKey,
  intent <- Intents, may <- Outstanding, changes <- effects, told <- Told

\* Attempts, retries, keys, waits and late executions implement calls that ask for
\* one intent each and are told one word that stays true.
ImplementsOneCall == Promise!Spec

\* Every call that is sent ends with a result.
EveryCallEnds ==
  \A c \in Call : at[c] \in Sent ~> at[c] \in Result
=============================================================================
