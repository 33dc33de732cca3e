--------------------------- MODULE ApiClientProofs ----------------------------
(***************************************************************************)
(* Proofs about the API client for any number of calls, keys and retries,  *)
(* any budget and any waits.                                               *)
(*                                                                         *)
(* A step of a call either sends an attempt (SendShape) or stops waiting   *)
(* for one (LeaveShape); the API executes an attempt (Execute). Each part  *)
(* of the invariant is shown against these three shapes.                   *)
(***************************************************************************)
EXTENDS ApiClient, TLAPS

ReqType == [op : Operation, supplied : CallerKey \cup {NoKey, BlankKey}, key : AnyKey]

WaitType == [retries : 0..MaxRetries, waited : 0..RetryBudget, asked : Nat, slept : Nat]

\* Where the key of a request comes from.
KeyIsResolved(r) ==
  /\ r.op = "write" => r.key # NoKey
  /\ r.supplied \in CallerKey <=> r.key \in CallerKey
  /\ r.key \in CallerKey => r.key = r.supplied

RequestsAreKeyed == \A c \in Call : at[c] # "idle" /\ at[c] # "local_validation" => KeyIsResolved(req[c])

\* A fresh key belongs to one call.
FreshKeysAreDrawn == \A c \in Call : req[c].key \in FreshKey => req[c].key \in minted

FreshKeysAreUnique ==
  \A c, d \in Call : req[c].key = req[d].key /\ req[c].key \in FreshKey => c = d

\* An attempt belongs to a call that was sent and carries its key.
AttemptsAreOfCalls ==
  \A a \in wire \cup answers \cup effects :
    /\ at[a.call] # "idle" /\ at[a.call] # "local_validation"
    /\ a.key = req[a.call].key

EffectsAreWrites == \A e \in effects : req[e.call].op = "write"

KeysExecuteOnce == \A e1, e2 \in effects : e1.key = e2.key => e1 = e2

AnsweredWasDone ==
  \A a \in answers : req[a.call].op = "write" => \E e \in effects : e.key = a.key

SuccessWasDone ==
  \A c \in Call : at[c] = "success" /\ req[c].op = "write" => \E e \in effects : e.key = req[c].key

\* The attempts of a call that may execute or have executed.
Pending(c) == {a \in wire \cup effects : a.call = c}

\* With a rate limiter that takes nothing, an earlier attempt has no effect.
OnlyTheLastCounts ==
  \A c \in EarlyLimited :
    /\ \A a \in wire \cap effects : a.call # c
    /\ at[c] = "sending" => Pending(c) \subseteq {Attempt(c)}
    /\ at[c] = "sleeping" => Pending(c) = {}
    /\ at[c] \in Result /\ at[c] # "success" /\ req[c].op = "write" /\ ~OutcomeUnknown(at[c])
       => Pending(c) = {}

\* A call sleeps only if it may send another attempt.
SleepersMayRetry == \A c \in Call : at[c] = "sleeping" => wait[c].retries < MaxRetries

WaitsAreHonored == ~Proxied => ServerWaitIsHonored

ClientInv ==
  /\ TypeOK
  /\ RequestsAreKeyed /\ FreshKeysAreDrawn /\ FreshKeysAreUnique
  /\ AttemptsAreOfCalls /\ EffectsAreWrites /\ KeysExecuteOnce
  /\ AnsweredWasDone /\ SuccessWasDone
  /\ OnlyTheLastCounts
  /\ SleepersMayRetry
  /\ WaitsAreHonored

-----------------------------------------------------------------------------
(* Waits *)

\* A budget is a number a timer can wait.
LEMMA BudgetFits == RetryBudget \in Nat /\ RetryBudget <= MaxTimer
  BY ApiAssumption DEF RetryBudget

LEMMA HeaderFacts ==
  ASSUME NEW h \in Header
  PROVE  /\ h.ms \in Int /\ AskedWait(h) \in Nat
         /\ h.form \in {"absent", "malformed"} => AskedWait(h) = 0
         /\ h.form \in {"absent", "malformed", "seconds", "date"}
         /\ h.form = "seconds" => h.ms \in Nat
  <1>1. Seconds \subseteq Nat
    BY ApiAssumption
  <1>2. \/ (h.form = "absent" \/ h.form = "malformed") /\ h.ms = 0
        \/ h.form = "seconds" /\ h.ms \in Seconds
        \/ h.form = "date" /\ h.ms \in Seconds
        \/ h.form = "date" /\ h.ms = -1
    BY DEF Header
  <1>3. h.ms \in Int
    <2>1. h.ms \in {0, -1} \cup Seconds
      BY <1>2, Zenon
    <2>2. {0, -1} \cup Seconds \subseteq Int
      BY <1>1
    <2>3. QED
      BY <2>1, <2>2
  <1>4. AskedWait(h) \in Nat /\ (h.ms = 0 => AskedWait(h) = 0)
    BY <1>3 DEF AskedWait
  <1>5. QED
    BY <1>1, <1>2, <1>3, <1>4

LEMMA DelayIsTime ==
  ASSUME NEW h \in Header, NEW n \in 0..MaxRetries
  PROVE  RateLimitDelay(Delivered(h), n) \in Nat
  <1>1. Backoff(n) \in Nat
    BY BackoffAssumption DEF Backoff
  <1>2. h.form = "seconds" => ParseRetryAfter(h) \in Nat
    BY HeaderFacts, ApiAssumption DEF ParseRetryAfter
  <1>3. h.form = "date" => ParseRetryAfter(h) \in Nat
    BY HeaderFacts, ApiAssumption DEF ParseRetryAfter
  <1>4. QED
    BY <1>1, <1>2, <1>3 DEF RateLimitDelay, Delivered

\* A delay within the budget is slept in full and not shorter than asked.
LEMMA DelayHonorsServer ==
  ASSUME NEW h \in Header, NEW n \in 0..MaxRetries, ~Proxied,
         RateLimitDelay(Delivered(h), n) <= RetryBudget
  PROVE  TimerWaits(RateLimitDelay(Delivered(h), n)) >= AskedWait(h)
  <1>. DEFINE d == RateLimitDelay(Delivered(h), n)
  <1>1. d \in Nat /\ TimerWaits(d) = d
    BY DelayIsTime, BudgetFits, ApiAssumption DEF TimerWaits
  <1>2. Delivered(h) = h
    BY DEF Delivered
  <1>3. CASE h.form \in {"absent", "malformed"}
    BY <1>1, <1>3, HeaderFacts
  <1>4. CASE h.form = "seconds"
    <2>1. d = ParseRetryAfter(h)
      BY <1>2, <1>4 DEF RateLimitDelay
    <2>2. d # MaxSafe
      BY <1>1, BudgetFits, ApiAssumption
    <2>3. d = h.ms
      BY <1>4, <2>1, <2>2 DEF ParseRetryAfter
    <2>4. QED
      BY <1>1, <2>3, HeaderFacts DEF AskedWait
  <1>5. CASE h.form = "date"
    BY <1>1, <1>2, <1>5, HeaderFacts DEF RateLimitDelay, ParseRetryAfter, AskedWait
  <1>6. QED
    BY <1>3, <1>4, <1>5, HeaderFacts

-----------------------------------------------------------------------------
(* The shapes of a step *)

LEMMA NoWaitType == NoWait \in WaitType /\ NoWait.slept = 0 /\ NoWait.asked = 0 /\ NoWait.retries = 0
  BY BudgetFits, ApiAssumption DEF NoWait, WaitType

\* What a call may conclude when it stops waiting.
Concludes(c, to, w) ==
  /\ to \in Result \cup {"sleeping"}
  /\ w \in WaitType
  /\ Leave(c, to, w)
  /\ wire' \subseteq wire
  /\ wire \ wire' \subseteq {Attempt(c)}
  /\ \/ at[c] = "idle" /\ to = "local_validation"
     \/ at[c] = "sending" /\ to # "local_validation"
  /\ to = "success" => Attempt(c) \in answers
  /\ to = "sleeping" => w.retries < MaxRetries /\ (~Proxied => w.slept >= w.asked)
  /\ at[c] = "sending" /\ c \in EarlyLimited
     => \/ OutcomeUnknown(to) \/ to = "success"
        \/ req[c].op # "write" /\ to # "sleeping"
        \/ Untaken(c)

LEMMA RateLimitedShape ==
  ASSUME TypeOK, NEW c \in Call, NEW h \in Header, RateLimited(c, h)
  PROVE  \E to, w : Concludes(c, to, w)
  <1>. DEFINE s == wait[c]
              delay == RateLimitDelay(Delivered(h), s.retries)
              next == [retries |-> s.retries, waited |-> s.waited + delay,
                       asked |-> AskedWait(h), slept |-> TimerWaits(delay)]
  <1>1. s \in WaitType
    BY DEF TypeOK, WaitType
  <1>2. s.retries \in 0..MaxRetries /\ s.waited \in 0..RetryBudget
    BY <1>1 DEF WaitType
  <1>3. delay \in Nat
    BY <1>2, DelayIsTime
  <1>4. wire' \subseteq wire /\ wire \ wire' \subseteq {Attempt(c)} /\ at[c] = "sending"
        /\ (c \in EarlyLimited => Untaken(c))
    BY DEF RateLimited, Untaken, TypeOK
  <1>5. CASE Report(c, "rate_limit_exceeded") \/ Report(c, "rate_limit_deferred")
    BY <1>4, <1>5, NoWaitType DEF Report, Concludes, Result
  <1>6. CASE s.retries < MaxRetries /\ s.waited + delay <= RetryBudget /\ Leave(c, "sleeping", next)
    <2>1. TimerWaits(delay) \in Nat
      BY <1>3 DEF TimerWaits
    <2>2. s.waited + delay \in 0..RetryBudget
      BY <1>2, <1>3, <1>6, BudgetFits
    <2>3. next \in WaitType
      BY <1>2, <2>1, <2>2, HeaderFacts DEF WaitType
    <2>4. ~Proxied => TimerWaits(delay) >= AskedWait(h)
      BY <1>2, <1>3, <1>6, BudgetFits, DelayHonorsServer
    <2>5. next.slept = TimerWaits(delay) /\ next.asked = AskedWait(h) /\ next.retries = s.retries
      OBVIOUS
    <2>6. Concludes(c, "sleeping", next)
      BY <1>4, <1>6, <2>3, <2>4, <2>5 DEF Concludes
    <2>7. QED
      BY <2>6
  <1>7. \/ Report(c, "rate_limit_exceeded") \/ Report(c, "rate_limit_deferred")
        \/ /\ ~(s.retries >= MaxRetries) /\ ~(s.waited + delay > RetryBudget)
           /\ Leave(c, "sleeping", next)
    BY DEF RateLimited
  <1>8. QED
    BY <1>2, <1>3, <1>5, <1>6, <1>7, BudgetFits, ApiAssumption

LEMMA LeaveShape ==
  ASSUME TypeOK, NEW c \in Call, RejectLocally(c) \/ Receive(c)
  PROVE  \E to, w : Concludes(c, to, w)
  <1>. USE NoWaitType
  <1>1. CASE RejectLocally(c)
    <2>1. at[c] = "idle" /\ Leave(c, "local_validation", NoWait) /\ wire' = wire
      BY <1>1 DEF RejectLocally, Report
    <2>2. Concludes(c, "local_validation", NoWait)
      BY <2>1 DEF Concludes, Result
    <2>3. QED
      BY <2>2
  <1>2. CASE FetchFails(c)
    <2>1. PICK to \in {"request_timeout", "network_error"} : Report(c, to)
      BY <1>2 DEF FetchFails
    <2>2. Concludes(c, to, NoWait)
      BY <1>2, <2>1 DEF FetchFails, Report, Concludes, Result, TypeOK, OutcomeUnknown, TransportUnknown
    <2>3. QED
      BY <2>2
  <1>3. CASE \E h \in Header : RateLimited(c, h)
    BY <1>3, RateLimitedShape
  <1>4. CASE Refused(c)
    <2>1. PICK to \in {"bad_request", "unauthenticated", "denied", "conflict"} : Report(c, to)
      BY <1>4 DEF Refused
    <2>2. Concludes(c, to, NoWait)
      BY <1>4, <2>1 DEF Refused, Report, Untaken, Concludes, Result, TypeOK
    <2>3. QED
      BY <2>2
  <1>5. CASE KeyInProgress(c)
    <2>1. PICK to \in {"in_progress", "conflict"} : Report(c, to)
      BY <1>5 DEF KeyInProgress
    <2>2. Concludes(c, to, NoWait)
      BY <1>5, <2>1 DEF KeyInProgress, Report, Untaken, Concludes, Result, TypeOK
    <2>3. QED
      BY <2>2
  <1>6. CASE ServerFails(c)
    <2>1. Concludes(c, "server_error", NoWait)
      BY <1>6 DEF ServerFails, Report, Concludes, Result, TypeOK, OutcomeUnknown
    <2>2. QED
      BY <2>1
  <1>7. CASE Succeeds(c)
    <2>1. PICK to \in {"success", "response_timeout", "invalid_response_after_success"} :
            Report(c, to)
      BY <1>7 DEF Succeeds
    <2>2. Concludes(c, to, NoWait)
      BY <1>7, <2>1 DEF Succeeds, Report, Concludes, Result, TypeOK, OutcomeUnknown
    <2>3. QED
      BY <2>2
  <1>8. CASE ReadFails(c)
    <2>1. PICK to \in ReadFailures(req[c].op) : Report(c, to)
      BY <1>8 DEF ReadFails
    <2>2. req[c].op # "write" /\ to \in {"payload_too_large", "invalid_response", "stream_failed"}
      BY <2>1 DEF ReadFailures, TypeOK, Operation
    <2>3. Concludes(c, to, NoWait)
      BY <1>8, <2>1, <2>2 DEF ReadFails, Report, Concludes, Result, TypeOK
    <2>4. QED
      BY <2>3
  <1>9. QED
    BY <1>1, <1>2, <1>3, <1>4, <1>5, <1>6, <1>7, <1>8 DEF Receive

\* What a call may send.
Sends(c, r, w) ==
  /\ r \in ReqType
  /\ w \in WaitType
  /\ Send(c, r, w)
  /\ at[c] \in {"idle", "sleeping"}
  /\ KeyIsResolved(r)
  /\ \/ at[c] = "sleeping" /\ r = req[c]
     \/ at[c] = "idle" /\ r.key \notin minted

LEMMA SendShape ==
  ASSUME ClientInv, NEW c \in Call,
         \/ \E op \in Operation, supplied \in CallerKey \cup {NoKey, BlankKey} : Start(c, op, supplied)
         \/ Retry(c)
  PROVE  \E r, w : Sends(c, r, w)
  <1>1. ASSUME NEW op \in Operation, NEW supplied \in CallerKey \cup {NoKey, BlankKey},
               Start(c, op, supplied)
        PROVE  \E r, w : Sends(c, r, w)
    <2>1. PICK k \in ResolvedKeys(op, supplied) :
            Send(c, [op |-> op, supplied |-> supplied, key |-> k], NoWait)
      BY <1>1 DEF Start
    <2>. DEFINE r == [op |-> op, supplied |-> supplied, key |-> k]
    <2>2. r.op = op /\ r.supplied = supplied /\ r.key = k
      OBVIOUS
    <2>3. \/ supplied \in CallerKey /\ k = supplied
          \/ supplied \notin CallerKey /\ op = "write" /\ k \in FreshKey \ minted
          \/ supplied \notin CallerKey /\ op # "write" /\ k = NoKey
      BY DEF ResolvedKeys
    <2>4. k \in AnyKey /\ k \notin minted
      BY <2>3, ApiAssumption DEF AnyKey, ClientInv, TypeOK
    <2>5. KeyIsResolved(r)
      BY <2>2, <2>3, ApiAssumption DEF KeyIsResolved
    <2>6. r \in ReqType
      BY <2>4 DEF ReqType
    <2>7. Sends(c, r, NoWait)
      BY <1>1, <2>1, <2>2, <2>4, <2>5, <2>6, NoWaitType DEF Sends, Start
    <2>8. QED
      BY <2>7
  <1>2. CASE Retry(c)
    <2>. DEFINE w == [retries |-> wait[c].retries + 1, waited |-> wait[c].waited, asked |-> 0, slept |-> 0]
    <2>1. at[c] = "sleeping" /\ Send(c, req[c], w)
      BY <1>2 DEF Retry, RetryRequests
    <2>2. wait[c] \in WaitType /\ req[c] \in ReqType
      BY DEF ClientInv, TypeOK, WaitType, ReqType
    <2>3. wait[c].retries \in 0..MaxRetries /\ wait[c].retries < MaxRetries /\ wait[c].waited \in 0..RetryBudget
      BY <2>1, <2>2 DEF WaitType, ClientInv, SleepersMayRetry
    <2>4. wait[c].retries + 1 \in 0..MaxRetries
      BY <2>3, ApiAssumption
    <2>5. w \in WaitType
      BY <2>3, <2>4 DEF WaitType
    <2>6. KeyIsResolved(req[c])
      BY <2>1 DEF ClientInv, RequestsAreKeyed
    <2>7. Sends(c, req[c], w)
      BY <2>1, <2>2, <2>5, <2>6 DEF Sends
    <2>8. QED
      BY <2>7
  <1>3. QED
    BY <1>1, <1>2

-----------------------------------------------------------------------------
(* A call stops waiting *)

LEMMA LeaveKeepsType ==
  ASSUME TypeOK, NEW c \in Call, NEW to, NEW w, Concludes(c, to, w)
  PROVE  TypeOK'
  <1>1. wait' \in [Call -> WaitType]
    BY DEF TypeOK, Concludes, Leave, WaitType
  <1>2. at' \in [Call -> {"idle"} \cup Sent \cup Result]
    BY DEF TypeOK, Concludes, Leave, Sent
  <1>3. QED
    BY <1>1, <1>2 DEF TypeOK, Concludes, Leave, WaitType

LEMMA LeaveKeepsKeys ==
  ASSUME ClientInv, NEW c \in Call, NEW to, NEW w, Concludes(c, to, w)
  PROVE  /\ RequestsAreKeyed' /\ FreshKeysAreDrawn' /\ FreshKeysAreUnique'
         /\ EffectsAreWrites' /\ KeysExecuteOnce' /\ AnsweredWasDone'
  <1>1. /\ at' = [at EXCEPT ![c] = to] /\ req' = req /\ minted' = minted
        /\ effects' = effects /\ answers' \subseteq answers
        /\ at \in [Call -> {"idle"} \cup Sent \cup Result]
        /\ to = "local_validation" \/ at[c] = "sending"
    BY DEF Concludes, Leave, ClientInv, TypeOK
  <1>2. RequestsAreKeyed'
    BY <1>1 DEF ClientInv, RequestsAreKeyed, KeyIsResolved
  <1>3. QED
    BY <1>1, <1>2 DEF ClientInv, FreshKeysAreDrawn, FreshKeysAreUnique, EffectsAreWrites,
                      KeysExecuteOnce, AnsweredWasDone

\* The attempts of a call that has sent none.
LEMMA UnsentHasNone ==
  ASSUME ClientInv, NEW c \in Call, at[c] \in {"idle", "local_validation"}
  PROVE  \A a \in wire \cup answers \cup effects : a.call # c
  BY DEF ClientInv, AttemptsAreOfCalls

LEMMA LeaveKeepsAttempts ==
  ASSUME ClientInv, NEW c \in Call, NEW to, NEW w, Concludes(c, to, w)
  PROVE  AttemptsAreOfCalls'
  <1>1. /\ at' = [at EXCEPT ![c] = to] /\ req' = req /\ wire' \subseteq wire
        /\ effects' = effects /\ answers' \subseteq answers
        /\ at \in [Call -> {"idle"} \cup Sent \cup Result]
        /\ to \in Result \cup {"sleeping"}
    BY DEF Concludes, Leave, ClientInv, TypeOK
  <1>2. to # "idle" /\ (at[c] # "idle" => to # "local_validation")
    BY DEF Concludes, Result
  <1>3. ASSUME NEW a \in (wire \cup answers \cup effects)'
        PROVE  at'[a.call] # "idle" /\ at'[a.call] # "local_validation" /\ a.key = req'[a.call].key
    <2>1. a \in wire \cup answers \cup effects
      BY <1>1
    <2>2. a.call \in Call
      BY <2>1 DEF ClientInv, TypeOK, AttemptType
    <2>3. at[a.call] # "idle" /\ at[a.call] # "local_validation" /\ a.key = req[a.call].key
      BY <2>1 DEF ClientInv, AttemptsAreOfCalls
    <2>4. CASE a.call = c
      BY <1>1, <1>2, <2>2, <2>3, <2>4
    <2>5. CASE a.call # c
      BY <1>1, <2>2, <2>3, <2>5
    <2>6. QED
      BY <2>4, <2>5
  <1>4. QED
    BY <1>3 DEF AttemptsAreOfCalls

LEMMA LeaveKeepsSuccess ==
  ASSUME ClientInv, NEW c \in Call, NEW to, NEW w, Concludes(c, to, w)
  PROVE  SuccessWasDone'
  <1>1. /\ at' = [at EXCEPT ![c] = to] /\ req' = req /\ effects' = effects
        /\ at \in [Call -> {"idle"} \cup Sent \cup Result]
        /\ to = "success" => Attempt(c) \in answers
    BY DEF Concludes, Leave, ClientInv, TypeOK
  <1>2. Attempt(c).call = c /\ Attempt(c).key = req[c].key
    BY DEF Attempt
  <1>3. to = "success" /\ req[c].op = "write" => \E e \in effects : e.key = req[c].key
    BY <1>1, <1>2 DEF ClientInv, AnsweredWasDone
  <1>4. QED
    BY <1>1, <1>3 DEF ClientInv, SuccessWasDone

LEMMA AttemptIsOnly ==
  ASSUME TypeOK, AttemptsAreOfCalls, NEW c \in Call, NEW a \in wire \cup effects,
         a.call = c, a.no = wait[c].retries
  PROVE  a = Attempt(c)
  <1>1. a \in AttemptType /\ a.key = req[c].key
    BY DEF TypeOK, AttemptsAreOfCalls
  <1>2. a = [call |-> a.call, no |-> a.no, key |-> a.key]
    BY <1>1 DEF AttemptType
  <1>3. QED
    BY <1>1, <1>2 DEF Attempt

\* An attempt the API did not take was the only one that counts.
LEMMA LeaveKeepsLast ==
  ASSUME ClientInv, NEW c \in Call, NEW to, NEW w, Concludes(c, to, w)
  PROVE  OnlyTheLastCounts'
  <1>. USE ApiAssumption
  <1>1. /\ at' = [at EXCEPT ![c] = to] /\ req' = req /\ effects' = effects
        /\ wait' = [wait EXCEPT ![c] = w]
        /\ at \in [Call -> {"idle"} \cup Sent \cup Result]
        /\ wait \in [Call -> WaitType]
        /\ wire' \subseteq wire
    BY DEF Concludes, Leave, ClientInv, TypeOK, WaitType
  <1>2. \A d \in EarlyLimited : \A a \in wire' \cap effects' : a.call # d
    BY <1>1 DEF ClientInv, OnlyTheLastCounts
  <1>3. \A d \in Call : Pending(d)' \subseteq Pending(d)
    BY <1>1 DEF Pending
  <1>4. ASSUME NEW d \in Call, d # c
        PROVE  /\ at'[d] = at[d] /\ Attempt(d)' = Attempt(d)
    BY <1>1, <1>4 DEF Attempt
  <1>5. ASSUME c \in EarlyLimited
        PROVE  \/ OutcomeUnknown(to) \/ to = "success"
               \/ req[c].op # "write" /\ to # "sleeping"
               \/ Pending(c)' = {}
    <2>1. CASE at[c] = "idle"
      <3>1. Pending(c) = {}
        BY <2>1, UnsentHasNone DEF Pending
      <3>2. QED
        BY <1>3, <3>1
    <2>2. CASE Untaken(c) /\ at[c] = "sending"
      <3>1. Pending(c) \subseteq {Attempt(c)}
        BY <1>5, <2>2 DEF ClientInv, OnlyTheLastCounts
      <3>2. Attempt(c) \notin wire' \cup effects'
        BY <1>1, <1>5, <2>2 DEF Untaken, Attempt, ClientInv, OnlyTheLastCounts
      <3>3. QED
        BY <1>3, <3>1, <3>2 DEF Pending
    <2>3. at[c] = "idle" \/ at[c] = "sending"
      BY DEF Concludes
    <2>4. at[c] = "sending"
          => \/ OutcomeUnknown(to) \/ to = "success"
             \/ req[c].op # "write" /\ to # "sleeping"
             \/ Untaken(c)
      BY <1>5, Zenon DEF Concludes
    <2>5. QED
      BY <2>1, <2>2, <2>3, <2>4
  <1>6. to \in Result \cup {"sleeping"} /\ "sleeping" \notin Result /\ "sending" \notin Result
    BY DEF Concludes, Result
  <1>7. ~OutcomeUnknown("sleeping")
    BY DEF OutcomeUnknown, TransportUnknown
  <1>8. ASSUME NEW d \in EarlyLimited
        PROVE  /\ at'[d] = "sending" => Pending(d)' \subseteq {Attempt(d)'}
               /\ at'[d] = "sleeping" => Pending(d)' = {}
               /\ at'[d] \in Result /\ at'[d] # "success" /\ req'[d].op = "write" /\ ~OutcomeUnknown(at'[d])
                  => Pending(d)' = {}
    <2>1. CASE d = c
      BY <1>1, <1>5, <1>6, <1>7, <2>1
    <2>2. CASE d # c
      BY <1>1, <1>3, <1>4, <2>2 DEF ClientInv, OnlyTheLastCounts
    <2>3. QED
      BY <2>1, <2>2
  <1>9. QED
    BY <1>2, <1>8 DEF OnlyTheLastCounts, OutcomeUnknown, TransportUnknown

LEMMA LeaveKeepsWaits ==
  ASSUME ClientInv, NEW c \in Call, NEW to, NEW w, Concludes(c, to, w)
  PROVE  SleepersMayRetry' /\ WaitsAreHonored'
  <1>1. /\ at' = [at EXCEPT ![c] = to] /\ wait' = [wait EXCEPT ![c] = w]
        /\ at \in [Call -> {"idle"} \cup Sent \cup Result] /\ wait \in [Call -> WaitType]
        /\ to = "sleeping" => w.retries < MaxRetries /\ (~Proxied => w.slept >= w.asked)
    BY DEF Concludes, Leave, ClientInv, TypeOK, WaitType
  <1>2. QED
    BY <1>1 DEF ClientInv, SleepersMayRetry, WaitsAreHonored, ServerWaitIsHonored

LEMMA LeaveKeeps ==
  ASSUME ClientInv, NEW c \in Call, NEW to, NEW w, Concludes(c, to, w)
  PROVE  ClientInv'
  <1>1. TypeOK'
    BY LeaveKeepsType DEF ClientInv
  <1>2. QED
    BY <1>1, LeaveKeepsKeys, LeaveKeepsAttempts, LeaveKeepsSuccess, LeaveKeepsLast,
       LeaveKeepsWaits DEF ClientInv

-----------------------------------------------------------------------------
(* A call sends an attempt *)

LEMMA SendKeepsType ==
  ASSUME TypeOK, NEW c \in Call, NEW r, NEW w, Sends(c, r, w)
  PROVE  TypeOK'
  <1>1. wait' \in [Call -> WaitType] /\ req' \in [Call -> ReqType]
    BY DEF TypeOK, Sends, Send, WaitType, ReqType
  <1>2. [call |-> c, no |-> w.retries, key |-> r.key] \in AttemptType
    BY DEF Sends, WaitType, ReqType, AttemptType
  <1>3. at' \in [Call -> {"idle"} \cup Sent \cup Result]
    BY DEF TypeOK, Sends, Send, Sent
  <1>4. QED
    BY <1>1, <1>2, <1>3 DEF TypeOK, Sends, Send, Draw, WaitType, ReqType

\* A call without attempts may take another key; a retry keeps the one it has.
LEMMA SendFacts ==
  ASSUME ClientInv, NEW c \in Call, NEW r, NEW w, Sends(c, r, w)
  PROVE  /\ at' = [at EXCEPT ![c] = "sending"] /\ at \in [Call -> {"idle"} \cup Sent \cup Result]
         /\ req' = [req EXCEPT ![c] = r] /\ req \in [Call -> ReqType]
         /\ wait' = [wait EXCEPT ![c] = w] /\ wait \in [Call -> WaitType]
         /\ effects' = effects /\ answers' = answers
         /\ minted' = minted \cup ({r.key} \cap FreshKey)
         /\ wire' = wire \cup {[call |-> c, no |-> w.retries, key |-> r.key]}
         /\ req'[c] = req[c] \/ \A a \in wire \cup answers \cup effects : a.call # c
         /\ \A a \in wire \cup answers \cup effects : a.call \in Call
  <1>1. \A a \in wire \cup answers \cup effects : a.call \in Call
    BY DEF ClientInv, TypeOK, AttemptType
  <1>2. /\ at' = [at EXCEPT ![c] = "sending"] /\ at \in [Call -> {"idle"} \cup Sent \cup Result]
        /\ req' = [req EXCEPT ![c] = r] /\ req \in [Call -> ReqType]
        /\ wait' = [wait EXCEPT ![c] = w] /\ wait \in [Call -> WaitType]
        /\ effects' = effects /\ answers' = answers
        /\ minted' = minted \cup ({r.key} \cap FreshKey)
        /\ wire' = wire \cup {[call |-> c, no |-> w.retries, key |-> r.key]}
    BY DEF Sends, Send, Draw, ClientInv, TypeOK, WaitType, ReqType
  <1>3. req'[c] = r
    BY <1>2
  <1>4. r = req[c] \/ at[c] = "idle"
    BY DEF Sends
  <1>5. QED
    BY <1>1, <1>2, <1>3, <1>4, UnsentHasNone

LEMMA SendKeepsKeys ==
  ASSUME ClientInv, NEW c \in Call, NEW r, NEW w, Sends(c, r, w)
  PROVE  RequestsAreKeyed' /\ FreshKeysAreDrawn' /\ FreshKeysAreUnique'
  <1>1. RequestsAreKeyed'
    BY SendFacts DEF ClientInv, RequestsAreKeyed, Sends
  <1>2. FreshKeysAreDrawn'
    BY SendFacts DEF ClientInv, FreshKeysAreDrawn
  <1>3. FreshKeysAreUnique'
    <2>1. r = req[c] \/ r.key \notin minted
      BY DEF Sends
    <2>2. CASE r = req[c]
      <3>1. req' = req
        BY SendFacts, <2>2
      <3>2. QED
        BY <3>1 DEF ClientInv, FreshKeysAreUnique
    <2>3. CASE r.key \notin minted
      <3>1. \A d \in Call : req[d].key \in FreshKey => req[d].key # r.key
        BY <2>3 DEF ClientInv, FreshKeysAreDrawn
      <3>2. QED
        BY <3>1, SendFacts DEF ClientInv, FreshKeysAreUnique
    <2>4. QED
      BY <2>1, <2>2, <2>3
  <1>4. QED
    BY <1>1, <1>2, <1>3

LEMMA SendKeepsAttempts ==
  ASSUME ClientInv, NEW c \in Call, NEW r, NEW w, Sends(c, r, w)
  PROVE  /\ AttemptsAreOfCalls' /\ EffectsAreWrites' /\ KeysExecuteOnce'
         /\ AnsweredWasDone' /\ SuccessWasDone'
  <1>. DEFINE new == [call |-> c, no |-> w.retries, key |-> r.key]
  <1>1. new.call = c /\ new.key = r.key
    OBVIOUS
  <1>2. ASSUME NEW a \in wire \cup answers \cup effects
        PROVE  /\ a.call \in Call /\ at[a.call] # "idle" /\ at[a.call] # "local_validation"
               /\ a.key = req[a.call].key /\ req'[a.call] = req[a.call]
               /\ at'[a.call] # "idle" /\ at'[a.call] # "local_validation"
    <2>1. /\ a.call \in Call /\ at[a.call] # "idle" /\ at[a.call] # "local_validation"
          /\ a.key = req[a.call].key
      BY SendFacts DEF ClientInv, AttemptsAreOfCalls
    <2>2. req'[a.call] = req[a.call]
      BY <2>1, SendFacts
    <2>3. at'[a.call] # "idle" /\ at'[a.call] # "local_validation"
      BY <2>1, SendFacts
    <2>4. QED
      BY <2>1, <2>2, <2>3
  <1>3. AttemptsAreOfCalls'
    <2>1. ASSUME NEW a \in (wire \cup answers \cup effects)'
          PROVE  at'[a.call] # "idle" /\ at'[a.call] # "local_validation" /\ a.key = req'[a.call].key
      <3>1. a = new \/ a \in wire \cup answers \cup effects
        BY SendFacts
      <3>2. CASE a = new
        BY <1>1, <3>2, SendFacts
      <3>3. CASE a \in wire \cup answers \cup effects
        BY <1>2, <3>3
      <3>4. QED
        BY <3>1, <3>2, <3>3
    <2>2. QED
      BY <2>1 DEF AttemptsAreOfCalls
  <1>4. EffectsAreWrites' /\ KeysExecuteOnce' /\ AnsweredWasDone'
    BY <1>2, SendFacts DEF ClientInv, EffectsAreWrites, KeysExecuteOnce, AnsweredWasDone
  <1>5. SuccessWasDone'
    <2>1. ASSUME NEW d \in Call, at'[d] = "success", req'[d].op = "write"
          PROVE  \E e \in effects' : e.key = req'[d].key
      <3>1. d # c
        BY <2>1, SendFacts
      <3>2. at[d] = "success" /\ req'[d] = req[d] /\ effects' = effects
        BY <2>1, <3>1, SendFacts
      <3>3. QED
        BY <2>1, <3>2 DEF ClientInv, SuccessWasDone
    <2>2. QED
      BY <2>1 DEF SuccessWasDone
  <1>6. QED
    BY <1>3, <1>4, <1>5

LEMMA SendKeepsLast ==
  ASSUME ClientInv, NEW c \in Call, NEW r, NEW w, Sends(c, r, w)
  PROVE  OnlyTheLastCounts'
  <1>. USE ApiAssumption
  <1>. DEFINE new == [call |-> c, no |-> w.retries, key |-> r.key]
  <1>1. new.call = c /\ new = Attempt(c)'
    BY SendFacts DEF Attempt
  <1>2. c \in EarlyLimited => Pending(c) = {}
    BY UnsentHasNone DEF Sends, ClientInv, OnlyTheLastCounts, Pending
  <1>3. c \in EarlyLimited => new \notin effects
    BY <1>1, <1>2 DEF Pending
  <1>4. \A d \in EarlyLimited : \A a \in wire' \cap effects' : a.call # d
    BY <1>1, <1>3, SendFacts DEF ClientInv, OnlyTheLastCounts
  <1>5. c \in EarlyLimited => Pending(c)' \subseteq {Attempt(c)'}
    BY <1>1, <1>2, SendFacts DEF Pending
  <1>6. ASSUME NEW d \in Call, d # c
        PROVE  Pending(d)' = Pending(d) /\ at'[d] = at[d] /\ req'[d] = req[d] /\ Attempt(d)' = Attempt(d)
    BY <1>1, <1>6, SendFacts DEF Pending, Attempt
  <1>7. "sending" \notin Result
    BY DEF Result
  <1>8. ASSUME NEW d \in EarlyLimited
        PROVE  /\ at'[d] = "sending" => Pending(d)' \subseteq {Attempt(d)'}
               /\ at'[d] = "sleeping" => Pending(d)' = {}
               /\ at'[d] \in Result /\ at'[d] # "success" /\ req'[d].op = "write" /\ ~OutcomeUnknown(at'[d])
                  => Pending(d)' = {}
    <2>1. CASE d = c
      BY <1>5, <1>7, <2>1, SendFacts
    <2>2. CASE d # c
      BY <1>6, <2>2 DEF ClientInv, OnlyTheLastCounts
    <2>3. QED
      BY <2>1, <2>2
  <1>9. QED
    BY <1>4, <1>8 DEF OnlyTheLastCounts, OutcomeUnknown, TransportUnknown

LEMMA SendKeeps ==
  ASSUME ClientInv, NEW c \in Call, NEW r, NEW w, Sends(c, r, w)
  PROVE  ClientInv'
  <1>1. TypeOK'
    BY SendKeepsType DEF ClientInv
  <1>2. SleepersMayRetry' /\ WaitsAreHonored'
    BY SendFacts DEF ClientInv, SleepersMayRetry, WaitsAreHonored, ServerWaitIsHonored
  <1>3. QED
    BY <1>1, <1>2, SendKeepsKeys, SendKeepsAttempts, SendKeepsLast DEF ClientInv

-----------------------------------------------------------------------------
(* The API executes an attempt *)

LEMMA ExecuteKeepsType ==
  ASSUME TypeOK, NEW a \in wire, Execute(a)
  PROVE  TypeOK'
  BY DEF TypeOK, Execute

LEMMA ExecuteFacts ==
  ASSUME ClientInv, NEW a \in wire, Execute(a)
  PROVE  /\ at' = at /\ req' = req /\ wait' = wait /\ minted' = minted
         /\ wire' = wire \ {a} /\ answers' \subseteq answers \cup {a}
         /\ effects \subseteq effects' /\ effects' \subseteq effects \cup {a}
         /\ (wire \cup answers \cup effects)' \subseteq wire \cup answers \cup effects
         /\ a.call \in Call /\ a.key = req[a.call].key /\ KeyIsResolved(req[a.call])
  <1>1. a.call \in Call
    BY DEF ClientInv, TypeOK, AttemptType
  <1>2. a.key = req[a.call].key /\ KeyIsResolved(req[a.call])
    BY <1>1 DEF ClientInv, AttemptsAreOfCalls, RequestsAreKeyed
  <1>3. QED
    BY <1>1, <1>2 DEF Execute

LEMMA ExecuteKeepsEffects ==
  ASSUME ClientInv, NEW a \in wire, Execute(a)
  PROVE  EffectsAreWrites' /\ KeysExecuteOnce' /\ AnsweredWasDone'
  <1>1. CASE effects' = effects \cup {a} /\ req[a.call].op = "write" /\ ~Used(a.key)
    <2>1. a.key # NoKey
      BY <1>1, ExecuteFacts DEF KeyIsResolved
    <2>2. \A e \in effects : e.key # a.key
      BY <1>1, <2>1 DEF Used
    <2>3. QED
      BY <1>1, <2>2, ExecuteFacts DEF ClientInv, EffectsAreWrites, KeysExecuteOnce, AnsweredWasDone
  <1>2. CASE effects' = effects /\ ~(req[a.call].op = "write" /\ ~Used(a.key))
    <2>1. req[a.call].op = "write" => \E e \in effects : e.key = a.key
      BY <1>2 DEF Used
    <2>2. QED
      BY <1>2, <2>1, ExecuteFacts DEF ClientInv, EffectsAreWrites, KeysExecuteOnce, AnsweredWasDone
  <1>3. QED
    BY <1>1, <1>2 DEF Execute

LEMMA ExecuteKeepsLast ==
  ASSUME ClientInv, NEW a \in wire, Execute(a)
  PROVE  OnlyTheLastCounts'
  <1>. USE ApiAssumption
  <1>1. \A d \in EarlyLimited : \A e \in wire' \cap effects' : e.call # d
    BY ExecuteFacts DEF ClientInv, OnlyTheLastCounts
  <1>2. \A d \in Call : Pending(d)' \subseteq Pending(d) /\ Attempt(d)' = Attempt(d)
    BY ExecuteFacts DEF Pending, Attempt
  <1>3. QED
    BY <1>1, <1>2, ExecuteFacts DEF ClientInv, OnlyTheLastCounts, OutcomeUnknown, TransportUnknown

LEMMA ExecuteKeeps ==
  ASSUME ClientInv, NEW a \in wire, Execute(a)
  PROVE  ClientInv'
  <1>1. TypeOK'
    BY ExecuteKeepsType DEF ClientInv
  <1>2. AttemptsAreOfCalls'
    BY ExecuteFacts DEF ClientInv, AttemptsAreOfCalls
  <1>3. SuccessWasDone'
    BY ExecuteFacts DEF ClientInv, SuccessWasDone
  <1>4. RequestsAreKeyed' /\ FreshKeysAreDrawn' /\ FreshKeysAreUnique' /\ SleepersMayRetry' /\ WaitsAreHonored'
    BY ExecuteFacts DEF ClientInv, RequestsAreKeyed, KeyIsResolved, FreshKeysAreDrawn, FreshKeysAreUnique,
                        SleepersMayRetry, WaitsAreHonored, ServerWaitIsHonored
  <1>5. QED
    BY <1>1, <1>2, <1>3, <1>4, ExecuteKeepsEffects, ExecuteKeepsLast DEF ClientInv

-----------------------------------------------------------------------------
(* Theorems *)

LEMMA InitEstablishes == Init => ClientInv
  <1>. SUFFICES ASSUME Init
                PROVE  ClientInv
    OBVIOUS
  <1>1. NoWait \in WaitType /\ Unsent \in ReqType /\ Unsent.key = NoKey
    BY NoWaitType DEF Unsent, ReqType, Operation, AnyKey
  <1>2. TypeOK
    BY <1>1 DEF Init, TypeOK, WaitType, ReqType
  <1>3. NoKey \notin FreshKey
    BY ApiAssumption
  <1>4. FreshKeysAreDrawn /\ FreshKeysAreUnique
    BY <1>1, <1>3 DEF Init, FreshKeysAreDrawn, FreshKeysAreUnique
  <1>5. /\ RequestsAreKeyed /\ AttemptsAreOfCalls /\ EffectsAreWrites /\ KeysExecuteOnce
        /\ AnsweredWasDone /\ SuccessWasDone
    BY DEF Init, RequestsAreKeyed, AttemptsAreOfCalls, EffectsAreWrites, KeysExecuteOnce,
           AnsweredWasDone, SuccessWasDone
  <1>6. OnlyTheLastCounts
    BY DEF Init, OnlyTheLastCounts, Pending, Result
  <1>7. SleepersMayRetry /\ WaitsAreHonored
    BY DEF Init, SleepersMayRetry, WaitsAreHonored, ServerWaitIsHonored
  <1>8. QED
    BY <1>2, <1>4, <1>5, <1>6, <1>7 DEF ClientInv

LEMMA StepPreserves == ClientInv /\ [Next]_vars => ClientInv'
  <1>. SUFFICES ASSUME ClientInv, [Next]_vars
                PROVE  ClientInv'
    OBVIOUS
  <1>1. ASSUME NEW c \in Call, CallStep(c)
        PROVE  ClientInv'
    <2>1. CASE RejectLocally(c) \/ Receive(c)
      <3>1. PICK to, w : Concludes(c, to, w)
        BY <2>1, LeaveShape DEF ClientInv
      <3>2. QED
        BY <3>1, LeaveKeeps
    <2>2. CASE \/ \E op \in Operation, supplied \in CallerKey \cup {NoKey, BlankKey} :
                    Start(c, op, supplied)
               \/ Retry(c)
      <3>1. PICK r, w : Sends(c, r, w)
        BY <2>2, SendShape
      <3>2. QED
        BY <3>1, SendKeeps
    <2>3. QED
      BY <1>1, <2>1, <2>2 DEF CallStep
  <1>2. ASSUME NEW a \in wire, Execute(a)
        PROVE  ClientInv'
    BY <1>2, ExecuteKeeps
  <1>3. CASE UNCHANGED vars
    BY <1>3 DEF vars, ClientInv, TypeOK, RequestsAreKeyed, KeyIsResolved, FreshKeysAreDrawn,
                FreshKeysAreUnique, AttemptsAreOfCalls, EffectsAreWrites, KeysExecuteOnce,
                AnsweredWasDone, SuccessWasDone, OnlyTheLastCounts, Pending, Attempt,
                OutcomeUnknown, TransportUnknown, SleepersMayRetry, WaitsAreHonored,
                ServerWaitIsHonored
  <1>4. QED
    BY <1>1, <1>2, <1>3 DEF Next

\* Every reachable state satisfies the strengthened invariant.
THEOREM ClientInvariant == Spec => []ClientInv
  <1>1. QED
    BY InitEstablishes, StepPreserves, PTL DEF Spec

\* The values keep their types: no call sleeps beyond its budget or sends more
\* than MaxRetries + 1 attempts.
THEOREM ClientTypeCorrect == Spec => []TypeOK
  <1>1. ClientInv => TypeOK
    BY DEF ClientInv
  <1>2. QED
    BY <1>1, ClientInvariant, PTL

\* Two attempts that changed the ERP for one intent carry one key.
LEMMA KeysGiveIntents == ClientInv => IntentExecutesOnce
  <1>. SUFFICES ASSUME ClientInv, NEW e1 \in effects, NEW e2 \in effects, SameIntent(e1.call, e2.call)
                PROVE  e1 = e2
    BY DEF IntentExecutesOnce
  <1>1. /\ e1.key = req[e1.call].key /\ KeyIsResolved(req[e1.call])
        /\ e2.key = req[e2.call].key /\ KeyIsResolved(req[e2.call])
    BY DEF ClientInv, TypeOK, AttemptType, AttemptsAreOfCalls, RequestsAreKeyed
  <1>2. e1.key = e2.key
    BY <1>1 DEF SameIntent, KeyIsResolved
  <1>3. QED
    BY <1>2 DEF ClientInv, KeysExecuteOnce

\* A write changes the ERP at most once, through all its retries, late
\* executions and repetitions with one key.
THEOREM WritesExecuteOnce == Spec => []IntentExecutesOnce
  <1>1. QED
    BY KeysGiveIntents, ClientInvariant, PTL

LEMMA LastGivesHonesty ==
  ASSUME ClientInv
  PROVE  OutcomeIsHonest
  <1>. SUFFICES ASSUME NEW c \in Call, at[c] \in Result, req[c].op = "write"
                PROVE  IF at[c] = "success"
                       THEN \E e \in effects : SameIntent(e.call, c)
                       ELSE c \in EarlyLimited /\ ~OutcomeUnknown(at[c]) =>
                              \A a \in wire \cup effects : a.call # c
    BY DEF OutcomeIsHonest
  <1>1. CASE at[c] = "success"
    <2>1. PICK e \in effects : e.key = req[c].key
      BY <1>1 DEF ClientInv, SuccessWasDone
    <2>2. /\ e.call \in Call /\ e.key = req[e.call].key
          /\ KeyIsResolved(req[e.call]) /\ KeyIsResolved(req[c])
      BY <1>1 DEF ClientInv, TypeOK, AttemptType, AttemptsAreOfCalls, RequestsAreKeyed
    <2>3. req[c].key \in CallerKey \/ req[c].key \in FreshKey
      BY <2>2 DEF ClientInv, TypeOK, AnyKey, KeyIsResolved
    <2>4. ASSUME req[c].key \in CallerKey
          PROVE  SameIntent(e.call, c)
      BY <2>1, <2>2, <2>4 DEF SameIntent, KeyIsResolved
    <2>5. ASSUME req[c].key \in FreshKey
          PROVE  SameIntent(e.call, c)
      BY <2>1, <2>2, <2>5 DEF SameIntent, ClientInv, FreshKeysAreUnique
    <2>6. QED
      BY <1>1, <2>3, <2>4, <2>5
  <1>2. CASE at[c] # "success"
    BY <1>2 DEF ClientInv, OnlyTheLastCounts, Pending
  <1>3. QED
    BY <1>1, <1>2

\* A write reported as done took effect; behind a rate limiter that takes
\* nothing it refuses, one that failed without an unknown outcome has changed
\* nothing and never will.
THEOREM OutcomeStaysHonest == Spec => []OutcomeIsHonest
  <1>1. ClientInv => OutcomeIsHonest
    BY LastGivesHonesty
  <1>2. QED
    BY <1>1, ClientInvariant, PTL

\* Without the edge proxy, no wait of the server is ever cut short.
THEOREM ServerWaitStaysHonored ==
  ASSUME ~Proxied
  PROVE  Spec => []ServerWaitIsHonored
  <1>1. ClientInv => ServerWaitIsHonored
    BY DEF ClientInv, WaitsAreHonored
  <1>2. QED
    BY <1>1, ClientInvariant, PTL

-----------------------------------------------------------------------------
(* One call *)

\* A call that sent nothing asks for no change.
UnsentIsRead == \A c \in Call : at[c] \in {"idle", "local_validation"} => req[c].op = "read"

PromiseStep == Promise!Next \/ UNCHANGED Promise!vars

LEMMA PromiseVars ==
  ASSUME Intents' = Intents, Outstanding' = Outstanding, effects' = effects, Told' = Told
  PROVE  PromiseStep
  BY DEF PromiseStep, Promise!vars

LEMMA ToldFacts ==
  ASSUME NEW c \in Call
  PROVE  /\ Told[c] \in {"waiting"} \cup Promise!Word
         /\ Told[c] = "waiting" <=> req[c].op # "write" \/ at[c] \notin Result
         /\ Told[c] = "done" => at[c] = "success"
         /\ Told[c] = "nothing" => c \in EarlyLimited /\ at[c] # "success" /\ ~OutcomeUnknown(at[c])
  BY DEF Told, Promise!Word

\* A call that has not ended waits for its word.
LEMMA SentWaits ==
  ASSUME ClientInv, UnsentIsRead, NEW c \in Call, at[c] \in Sent, req[c].op = "write"
  PROVE  Promise!Waits(c)
  <1>1. at[c] \notin Result /\ at[c] # "idle" /\ at[c] # "local_validation"
    BY DEF Sent, Result
  <1>2. Told[c] = "waiting"
    BY <1>1, ToldFacts
  <1>3. Intents[c] # NoKey
    BY <1>1 DEF Intents, ClientInv, RequestsAreKeyed, KeyIsResolved
  <1>4. QED
    BY <1>2, <1>3 DEF Promise!Waits

\* What the end of a wait leaves on the wire.
LEMMA LeaveFacts ==
  ASSUME ClientInv, NEW c \in Call, NEW to, NEW w, Concludes(c, to, w)
  PROVE  /\ Intents' = Intents /\ effects' = effects /\ req' = req
         /\ at' = [at EXCEPT ![c] = to] /\ at \in [Call -> {"idle"} \cup Sent \cup Result]
         /\ Outstanding' \in {Outstanding, Outstanding \ {c}}
         /\ req[c].op # "write" => Outstanding' = Outstanding
         /\ Told' = [Told EXCEPT ![c] = Told'[c]]
  <1>1. /\ at' = [at EXCEPT ![c] = to] /\ req' = req /\ effects' = effects
        /\ at \in [Call -> {"idle"} \cup Sent \cup Result]
        /\ wire' \subseteq wire /\ wire \ wire' \subseteq {Attempt(c)}
    BY DEF Concludes, Leave, ClientInv, TypeOK
  <1>2. Intents' = Intents
    BY <1>1 DEF Intents
  <1>3. Attempt(c).call = c
    BY DEF Attempt
  <1>4. ASSUME NEW d \in Call, d # c
        PROVE  d \in Outstanding' <=> d \in Outstanding
    BY <1>1, <1>3, <1>4 DEF Outstanding
  <1>5. c \in Outstanding' => c \in Outstanding
    BY <1>1 DEF Outstanding
  <1>6. Outstanding \subseteq Call /\ Outstanding' \subseteq Call
    BY DEF Outstanding
  <1>7. Outstanding' \in {Outstanding, Outstanding \ {c}}
    BY <1>4, <1>5, <1>6
  <1>8. req[c].op # "write" => Outstanding' = Outstanding
    <2>1. req[c].op # "write" => c \notin Outstanding /\ c \notin Outstanding'
      BY <1>1 DEF Outstanding
    <2>2. QED
      BY <1>4, <1>6, <2>1
  <1>9. Told' = [Told EXCEPT ![c] = Told'[c]]
    <2>1. \A d \in Call : d # c => Told'[d] = Told[d]
      BY <1>1 DEF Told, OutcomeUnknown, TransportUnknown
    <2>2. Told = [d \in Call |-> Told[d]] /\ Told' = [d \in Call |-> Told'[d]]
      BY DEF Told
    <2>3. QED
      BY <2>1, <2>2
  <1>10. QED
    BY <1>1, <1>2, <1>7, <1>8, <1>9

\* A call that stops waiting for an attempt sleeps, or tells its word.
LEMMA LeaveKeepsPromise ==
  ASSUME ClientInv, UnsentIsRead, NEW c \in Call, NEW to, NEW w, Concludes(c, to, w)
  PROVE  PromiseStep /\ UnsentIsRead'
  <1>1. to \in Result \cup {"sleeping"} /\ (at[c] = "idle" \/ at[c] = "sending")
        /\ (to = "local_validation" <=> at[c] = "idle")
    BY DEF Concludes
  <1>2. UnsentIsRead'
    <2>1. to # "idle"
      BY <1>1 DEF Result
    <2>2. QED
      BY <1>1, <2>1, LeaveFacts DEF UnsentIsRead
  <1>3. Told \in [Call -> {"waiting"} \cup Promise!Word]
    BY ToldFacts DEF Told, Promise!Word
  <1>4. at'[c] = to /\ req'[c] = req[c]
    BY LeaveFacts
  <1>5. "sending" \notin Result /\ "sleeping" \notin Result /\ "idle" \notin Result
    BY DEF Result
  <1>6. Told[c] = "waiting"
    BY <1>1, <1>5, ToldFacts
  <1>7. CASE req[c].op # "write"
    <2>1. Told'[c] = "waiting"
      BY <1>4, <1>7 DEF Told
    <2>2. Told' = Told
      BY <1>3, <1>6, <2>1, LeaveFacts
    <2>3. QED
      BY <1>2, <1>7, <2>2, LeaveFacts, PromiseVars
  <1>8. CASE req[c].op = "write"
    <2>1. at[c] = "sending"
      BY <1>1, <1>8 DEF UnsentIsRead
    <2>2. Promise!Waits(c)
      BY <1>8, <2>1, SentWaits DEF Sent
    <2>3. CASE to = "sleeping"
      <3>1. Told'[c] = "waiting"
        BY <1>4, <1>5, <2>3 DEF Told
      <3>2. Told' = Told
        BY <1>3, <1>6, <3>1, LeaveFacts
      <3>3. CASE Outstanding' = Outstanding
        BY <1>2, <3>2, <3>3, LeaveFacts, PromiseVars
      <3>4. CASE Outstanding' = Outstanding \ {c}
        <4>1. Promise!Lapse(c)
          BY <2>2, <3>2, <3>4, LeaveFacts DEF Promise!Lapse
        <4>2. QED
          BY <1>2, <4>1 DEF PromiseStep, Promise!Next
      <3>5. QED
        BY <3>3, <3>4, LeaveFacts
    <2>4. CASE to \in Result
      <3>1. Told'[c] \in Promise!Word
        BY <1>4, <1>8, <2>4 DEF Told, Promise!Word
      <3>2. Told'[c] = "done" => Promise!Happened(Intents[c])
        <4>1. ASSUME Told'[c] = "done"
              PROVE  Promise!Happened(Intents[c])
          <5>1. to = "success"
            BY <1>4, <4>1 DEF Told
          <5>2. Attempt(c) \in answers
            BY <5>1 DEF Concludes
          <5>3. Attempt(c).call = c /\ Attempt(c).key = req[c].key
            BY DEF Attempt
          <5>4. \E e \in effects : e.key = req[c].key
            BY <1>8, <5>2, <5>3 DEF ClientInv, AnsweredWasDone
          <5>5. Intents[c] = req[c].key
            BY <1>8 DEF Intents
          <5>6. QED
            BY <5>4, <5>5 DEF Promise!Happened
        <4>2. QED
          BY <4>1
      <3>3. Told'[c] = "nothing" => c \notin Outstanding' /\ \A x \in effects : x.call # c
        <4>1. ASSUME Told'[c] = "nothing"
              PROVE  c \notin Outstanding' /\ \A x \in effects : x.call # c
          <5>1. c \in EarlyLimited /\ at'[c] # "success" /\ ~OutcomeUnknown(at'[c])
            BY <4>1 DEF Told, OutcomeUnknown, TransportUnknown
          <5>2. at'[c] \in Result /\ req'[c].op = "write"
            BY <1>4, <1>8, <2>4
          <5>3. OnlyTheLastCounts'
            BY LeaveKeepsLast
          <5>4. Pending(c)' = {}
            BY <5>1, <5>2, <5>3 DEF OnlyTheLastCounts, OutcomeUnknown, TransportUnknown
          <5>5. QED
            BY <5>4, LeaveFacts DEF Pending, Outstanding
        <4>2. QED
          BY <4>1
      <3>4. Promise!Tell(c, Told'[c])
        BY <2>2, <3>2, <3>3, LeaveFacts DEF Promise!Tell
      <3>5. QED
        BY <1>2, <3>1, <3>4 DEF PromiseStep, Promise!Next
    <2>5. QED
      BY <1>1, <2>3, <2>4
  <1>9. QED
    BY <1>7, <1>8

\* A call that sends asks for its intent, or asks again.
LEMMA SendKeepsPromise ==
  ASSUME ClientInv, UnsentIsRead, NEW c \in Call, NEW r, NEW w, Sends(c, r, w)
  PROVE  PromiseStep /\ UnsentIsRead'
  <1> DEFINE new == [call |-> c, no |-> w.retries, key |-> r.key]
  <1>1. /\ at' = [at EXCEPT ![c] = "sending"] /\ at \in [Call -> {"idle"} \cup Sent \cup Result]
        /\ req' = [req EXCEPT ![c] = r] /\ req \in [Call -> ReqType]
        /\ effects' = effects /\ wire' = wire \cup {new}
    BY SendFacts
  <1>2. new.call = c
    OBVIOUS
  <1> HIDE DEF new
  <1>3. at'[c] = "sending" /\ req'[c] = r /\ at[c] \in {"idle", "sleeping"}
    BY <1>1 DEF Sends
  <1>4. UnsentIsRead'
    BY <1>1 DEF UnsentIsRead
  <1>5. Told' = Told
    <2>1. "sending" \notin Result /\ "sleeping" \notin Result /\ "idle" \notin Result
      BY DEF Result
    <2>2. Told[c] = "waiting" /\ Told'[c] = "waiting"
      BY <1>3, <2>1 DEF Told
    <2>3. \A d \in Call : d # c => Told'[d] = Told[d]
      BY <1>1 DEF Told, OutcomeUnknown, TransportUnknown
    <2>4. Told = [d \in Call |-> Told[d]] /\ Told' = [d \in Call |-> Told'[d]]
      BY DEF Told
    <2>5. QED
      BY <2>2, <2>3, <2>4
  <1>6. \A d \in Call : d # c => req'[d] = req[d]
    BY <1>1
  <1>7. CASE r.op # "write"
    <2>1. req[c].op # "write"
      BY <1>3, <1>7 DEF Sends, UnsentIsRead
    <2>2. Intents' = Intents
      BY <1>3, <1>6, <1>7, <2>1 DEF Intents
    <2>3. Outstanding' = Outstanding
      BY <1>1, <1>2, <1>3, <1>6, <1>7, <2>1 DEF Outstanding
    <2>4. QED
      BY <1>1, <1>4, <1>5, <2>2, <2>3, PromiseVars
  <1>8. CASE r.op = "write"
    <2>1. Outstanding' = Outstanding \cup {c}
      <3>1. c \in Outstanding'
        BY <1>1, <1>2, <1>3, <1>8 DEF Outstanding
      <3>2. \A d \in Call : d # c => (d \in Outstanding' <=> d \in Outstanding)
        BY <1>1, <1>2, <1>6 DEF Outstanding
      <3>3. Outstanding \subseteq Call /\ Outstanding' \subseteq Call
        BY DEF Outstanding
      <3>4. QED
        BY <3>1, <3>2, <3>3
    <2>2. CASE at[c] = "sleeping"
      <3>1. req' = req /\ req[c].op = "write"
        BY <1>1, <1>8, <2>2 DEF Sends
      <3>2. Intents' = Intents
        BY <3>1 DEF Intents
      <3>3. Promise!Waits(c)
        BY <2>2, <3>1, SentWaits DEF Sent
      <3>4. Promise!AskAgain(c)
        BY <1>1, <1>5, <2>1, <3>2, <3>3 DEF Promise!AskAgain
      <3>5. QED
        BY <1>4, <3>4 DEF PromiseStep, Promise!Next
    <2>3. CASE at[c] = "idle"
      <3>1. req[c].op # "write" /\ r.key \notin minted
        BY <2>3 DEF UnsentIsRead, Sends
      <3>2. Intents[c] = NoKey /\ Told[c] = "waiting"
        BY <3>1 DEF Intents, Told
      <3>3. r.key \in CallerKey \cup FreshKey
        BY <1>8 DEF Sends, ReqType, AnyKey, KeyIsResolved
      <3>4. r.key \in CallerKey \/ \A d \in Call : Intents[d] # r.key
        <4>1. ASSUME r.key \in FreshKey, NEW d \in Call
              PROVE  Intents[d] # r.key
          <5>1. req[d].key # r.key
            BY <3>1, <4>1 DEF ClientInv, FreshKeysAreDrawn
          <5>2. NoKey # r.key
            BY <4>1, ApiAssumption
          <5>3. QED
            BY <5>1, <5>2 DEF Intents
        <4>2. QED
          BY <3>3, <4>1
      <3>5. Intents' = [Intents EXCEPT ![c] = r.key]
        <4>1. Intents'[c] = r.key
          BY <1>3, <1>8 DEF Intents
        <4>2. \A d \in Call : d # c => Intents'[d] = Intents[d]
          BY <1>6 DEF Intents
        <4>3. Intents = [d \in Call |-> Intents[d]] /\ Intents' = [d \in Call |-> Intents'[d]]
          BY DEF Intents
        <4>4. QED
          BY <4>1, <4>2, <4>3
      <3>6. Promise!Ask(c, r.key)
        BY <1>1, <1>5, <2>1, <3>2, <3>4, <3>5 DEF Promise!Ask
      <3>7. QED
        BY <1>4, <3>3, <3>6 DEF PromiseStep, Promise!Next
    <2>4. QED
      BY <1>3, <2>2, <2>3
  <1>9. QED
    BY <1>7, <1>8

\* An attempt of a write that is taken makes its call happen, waited for or not.
LEMMA ExecuteKeepsPromise ==
  ASSUME ClientInv, UnsentIsRead, NEW a \in wire, Execute(a)
  PROVE  PromiseStep /\ UnsentIsRead'
  <1>1. /\ at' = at /\ req' = req /\ wire' = wire \ {a}
        /\ a.call \in Call /\ a.key = req[a.call].key /\ KeyIsResolved(req[a.call])
    BY ExecuteFacts
  <1>2. effects' = IF req[a.call].op = "write" /\ ~Used(a.key) THEN effects \cup {a} ELSE effects
    BY DEF Execute
  <1>3. Intents' = Intents /\ Told' = Told /\ UnsentIsRead'
    BY <1>1 DEF Intents, Told, UnsentIsRead, OutcomeUnknown, TransportUnknown
  <1>4. \A d \in Call : d # a.call => (d \in Outstanding' <=> d \in Outstanding)
    BY <1>1 DEF Outstanding
  <1>5. Outstanding \subseteq Call /\ Outstanding' \subseteq Call
    BY DEF Outstanding
  <1>6. CASE req[a.call].op # "write"
    <2>1. a.call \notin Outstanding /\ a.call \notin Outstanding'
      BY <1>1, <1>6 DEF Outstanding
    <2>2. Outstanding' = Outstanding
      BY <1>4, <1>5, <2>1
    <2>3. QED
      BY <1>2, <1>3, <1>6, <2>2, PromiseVars
  <1>7. CASE req[a.call].op = "write"
    <2>1. a.call \in Outstanding
      BY <1>1, <1>7 DEF Outstanding
    <2>2. Outstanding' \in {Outstanding, Outstanding \ {a.call}}
      BY <1>4, <1>5, <2>1
    <2>3. Intents[a.call] = a.key /\ a.key # NoKey
      BY <1>1, <1>7 DEF Intents, KeyIsResolved
    <2>4. Promise!Happened(Intents[a.call]) <=> Used(a.key)
      BY <2>3 DEF Promise!Happened, Used
    <2>5. a.no \in 0..MaxRetries /\ a = [call |-> a.call, no |-> a.no, key |-> Intents[a.call]]
      BY <2>3 DEF ClientInv, TypeOK, AttemptType
    <2>6. Promise!Happen(a.call)
      BY <1>2, <1>3, <1>7, <2>1, <2>2, <2>4, <2>5 DEF Promise!Happen
    <2>7. QED
      BY <1>1, <1>3, <2>6 DEF PromiseStep, Promise!Next
  <1>8. QED
    BY <1>6, <1>7

LEMMA StepKeepsPromise ==
  ClientInv /\ UnsentIsRead /\ [Next]_vars => PromiseStep /\ UnsentIsRead'
  <1> SUFFICES ASSUME ClientInv, UnsentIsRead, [Next]_vars
               PROVE  PromiseStep /\ UnsentIsRead'
    OBVIOUS
  <1>1. ASSUME NEW c \in Call, CallStep(c)
        PROVE  PromiseStep /\ UnsentIsRead'
    <2>1. CASE RejectLocally(c) \/ Receive(c)
      <3>1. PICK to, w : Concludes(c, to, w)
        BY <2>1, LeaveShape DEF ClientInv
      <3>2. QED
        BY <3>1, LeaveKeepsPromise
    <2>2. CASE \/ \E op \in Operation, supplied \in CallerKey \cup {NoKey, BlankKey} :
                    Start(c, op, supplied)
               \/ Retry(c)
      <3>1. PICK r, w : Sends(c, r, w)
        BY <2>2, SendShape
      <3>2. QED
        BY <3>1, SendKeepsPromise
    <2>3. QED
      BY <1>1, <2>1, <2>2 DEF CallStep
  <1>2. ASSUME NEW a \in wire, Execute(a)
        PROVE  PromiseStep /\ UnsentIsRead'
    BY <1>2, ExecuteKeepsPromise
  <1>3. CASE UNCHANGED vars
    <2>1. at' = at /\ req' = req /\ wire' = wire /\ effects' = effects
      BY <1>3 DEF vars
    <2>2. Intents' = Intents /\ Outstanding' = Outstanding /\ Told' = Told /\ UnsentIsRead'
      BY <2>1 DEF Intents, Outstanding, Told, UnsentIsRead, OutcomeUnknown, TransportUnknown
    <2>3. QED
      BY <2>1, <2>2, PromiseVars
  <1>4. QED
    BY <1>1, <1>2, <1>3 DEF Next

\* request: attempts, rate limits, retries, keys, aborts and executions at any later
\* time implement calls that take effect once for their intent and keep their word.
THEOREM CallsImplementOneCall == Spec => ImplementsOneCall
  <1>1. Init => Promise!Init /\ UnsentIsRead
    <2> SUFFICES ASSUME Init PROVE Promise!Init /\ UnsentIsRead
      OBVIOUS
    <2>1. \A c \in Call : req[c].op = "read" /\ at[c] = "idle"
      BY DEF Init, Unsent
    <2>2. Intents = [c \in Call |-> NoKey] /\ Outstanding = {} /\ effects = {}
      BY <2>1 DEF Init, Intents, Outstanding
    <2>3. Told = [c \in Call |-> "waiting"]
      BY <2>1 DEF Told
    <2>4. QED
      BY <2>1, <2>2, <2>3 DEF Promise!Init, UnsentIsRead
  <1>2. PromiseStep <=> [Promise!Next]_(Promise!vars)
    BY DEF PromiseStep
  <1>3. QED
    BY <1>1, <1>2, ClientInvariant, StepKeepsPromise, PTL DEF Spec, ImplementsOneCall, Promise!Spec

\* What the words are worth, of the abstract calls alone.
WordsAreTrue ==
  /\ \A x, y \in effects : x.key = y.key => x = y
  /\ \A c \in Call :
       /\ Told[c] # "waiting" => Intents[c] # NoKey
       /\ Told[c] = "done" => Promise!Happened(Intents[c])
       /\ Told[c] = "nothing" => c \notin Outstanding /\ \A x \in effects : x.call # c

LEMMA PromiseFunctions ==
  /\ Intents = [c \in Call |-> Intents[c]]
  /\ Told = [c \in Call |-> Told[c]]
  BY DEF Intents, Told

LEMMA WordsStayTrue == WordsAreTrue /\ [Promise!Next]_(Promise!vars) => WordsAreTrue'
  <1> SUFFICES ASSUME WordsAreTrue, [Promise!Next]_(Promise!vars)
               PROVE  WordsAreTrue'
    OBVIOUS
  <1>1. ASSUME NEW c \in Call, NEW i \in CallerKey \cup FreshKey, Promise!Ask(c, i)
        PROVE  WordsAreTrue'
    <2>1. /\ Intents[c] = NoKey /\ Told' = Told /\ effects' = effects
          /\ Intents' = [Intents EXCEPT ![c] = i] /\ Outstanding' = Outstanding \cup {c}
      BY <1>1 DEF Promise!Ask
    <2>2. Told[c] = "waiting"
      BY <2>1 DEF WordsAreTrue
    <2>3. QED
      BY <2>1, <2>2, PromiseFunctions DEF WordsAreTrue, Promise!Happened
  <1>2. ASSUME NEW c \in Call, Promise!AskAgain(c) \/ Promise!Lapse(c)
        PROVE  WordsAreTrue'
    <2>1. /\ Told[c] = "waiting" /\ Told' = Told /\ effects' = effects /\ Intents' = Intents
          /\ Outstanding' \subseteq Outstanding \cup {c}
      BY <1>2 DEF Promise!AskAgain, Promise!Lapse, Promise!Waits
    <2>2. QED
      BY <2>1 DEF WordsAreTrue, Promise!Happened
  <1>3. ASSUME NEW c \in Call, Promise!Happen(c)
        PROVE  WordsAreTrue'
    <2>1. /\ c \in Outstanding /\ Told' = Told /\ Intents' = Intents
          /\ Outstanding' \subseteq Outstanding
      BY <1>3 DEF Promise!Happen
    <2>2. Told[c] # "nothing"
      BY <2>1 DEF WordsAreTrue
    <2>3. CASE Promise!Happened(Intents[c])
      <3>1. effects' = effects
        BY <1>3, <2>3 DEF Promise!Happen
      <3>2. QED
        BY <2>1, <3>1 DEF WordsAreTrue, Promise!Happened
    <2>4. CASE ~Promise!Happened(Intents[c])
      <3>1. PICK m \in 0..MaxRetries :
              effects' = effects \cup {[call |-> c, no |-> m, key |-> Intents[c]]}
        BY <1>3, <2>4 DEF Promise!Happen
      <3> DEFINE new == [call |-> c, no |-> m, key |-> Intents[c]]
      <3>2. new.call = c /\ new.key = Intents[c]
        OBVIOUS
      <3> HIDE DEF new
      <3>3. \A x \in effects : x.key # new.key
        BY <2>4, <3>2 DEF Promise!Happened
      <3>4. \A x, y \in effects' : x.key = y.key => x = y
        BY <3>1, <3>3 DEF WordsAreTrue, new
      <3>5. QED
        BY <2>1, <2>2, <3>1, <3>2, <3>4 DEF WordsAreTrue, Promise!Happened, new
    <2>5. QED
      BY <2>3, <2>4
  <1>4. ASSUME NEW c \in Call, NEW word \in Promise!Word, Promise!Tell(c, word)
        PROVE  WordsAreTrue'
    <2>1. /\ Intents[c] # NoKey /\ effects' = effects /\ Intents' = Intents
          /\ Outstanding' \subseteq Outstanding
          /\ word = "done" => Promise!Happened(Intents[c])
          /\ word = "nothing" => c \notin Outstanding' /\ \A x \in effects : x.call # c
          /\ Told' = [Told EXCEPT ![c] = word]
      BY <1>4 DEF Promise!Tell, Promise!Waits
    <2>2. Told'[c] = word /\ \A d \in Call : d # c => Told'[d] = Told[d]
      BY <2>1, PromiseFunctions
    <2>3. QED
      BY <2>1, <2>2 DEF WordsAreTrue, Promise!Happened
  <1>5. CASE UNCHANGED Promise!vars
    BY <1>5 DEF Promise!vars, WordsAreTrue, Promise!Happened
  <1>6. QED
    BY <1>1, <1>2, <1>3, <1>4, <1>5 DEF Promise!Next

\* The promise of the abstract calls: an intent changes the ERP once at most, and a
\* word stays true for good, of a call whose attempts are all over and of one whose
\* attempts may still be taken.
THEOREM WordsAreKept == ImplementsOneCall => []WordsAreTrue
  <1>1. Promise!Init => WordsAreTrue
    BY PromiseFunctions DEF Promise!Init, WordsAreTrue
  <1>2. QED
    BY <1>1, WordsStayTrue, PTL DEF ImplementsOneCall, Promise!Spec

\* handleToolError: what a tool reports of a call is never taken back, so that no
\* retry, late answer or second timer goes on with a call that was reported.
THEOREM ReportsAreFinal == Spec => [][\A c \in Call : at[c] \in Result => at'[c] = at[c]]_vars
  <1> DEFINE Final == \A c \in Call : at[c] \in Result => at'[c] = at[c]
  <1>1. ClientInv /\ [Next]_vars => [Final]_vars
    <2> SUFFICES ASSUME ClientInv, Next PROVE Final
      BY Zenon
    <2>1. at \in [Call -> {"idle"} \cup Sent \cup Result]
      BY DEF ClientInv, TypeOK
    <2>2. "idle" \notin Result /\ "sending" \notin Result /\ "sleeping" \notin Result
      BY DEF Result
    <2>3. ASSUME NEW c \in Call, CallStep(c)
          PROVE  Final
      <3>1. CASE RejectLocally(c) \/ Receive(c)
        <4>1. PICK to, w : Concludes(c, to, w)
          BY <3>1, LeaveShape DEF ClientInv
        <4>2. QED
          BY <2>1, <2>2, <4>1 DEF Concludes, Leave
      <3>2. CASE \/ \E op \in Operation, supplied \in CallerKey \cup {NoKey, BlankKey} :
                      Start(c, op, supplied)
                 \/ Retry(c)
        <4>1. PICK r, w : Sends(c, r, w)
          BY <3>2, SendShape
        <4>2. QED
          BY <2>1, <2>2, <4>1 DEF Sends, Send
      <3>3. QED
        BY <2>3, <3>1, <3>2 DEF CallStep
    <2>4. ASSUME NEW a \in wire, Execute(a)
          PROVE  Final
      BY <2>4 DEF Execute
    <2>5. QED
      BY <2>3, <2>4 DEF Next
  <1>2. QED
    BY <1>1, ClientInvariant, PTL DEF Spec
=============================================================================
