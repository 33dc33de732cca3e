--------------------------- MODULE OAuthStateStore ---------------------------
(***************************************************************************)
(* One authorization state of the remote worker: the Durable Object of     *)
(* workers/remote-mcp/src/oauth-state-store.ts that holds a login between  *)
(* GET /authorize and the issue of one authorization code.  The object     *)
(* runs every fetch() and alarm() in blockConcurrencyWhile, so a handler   *)
(* is one step; alarm() awaits other services half way, so it is several:  *)
(* a transaction that arms the next alarm, the awaited answers, the write  *)
(* of what they proved, with a crash possible before each of them.         *)
(*                                                                         *)
(* Reserve draws a fresh leaseId and correlationId together.  Both are     *)
(* named here by the callback request that reserves: a member of Callback  *)
(* is a request, its lease and its provisioning correlation.  The lease's  *)
(* uid is the boolean `armed`: each request verifies one identity.         *)
(*                                                                         *)
(* A definition whose comment starts with "Mutant" is a plausible bug in   *)
(* the definition after it.  No specification uses it: put in the place of *)
(* that definition it breaks the property its name in PROJECT.json goes    *)
(* with, which shows that the property depends on that line of the code.   *)
(***************************************************************************)
EXTENDS Integers, FiniteSets

CONSTANTS
  Callback,          \* requests to POST /callback for this state
  Grant,             \* OAuth grants of the user for this client
  None,              \* absence: no lease, no alarm, no winner
  StateTTL,          \* STATE_TTL_MS
  LeaseTTL,          \* STATE_LEASE_TTL_MS
  ArmMinRemaining,   \* STATE_ARM_MIN_REMAINING_MS
  MaxAttempts,       \* STATE_MAX_ATTEMPTS
  ReconcileHorizon,  \* STATE_RECONCILE_HORIZON_MS
  RetryDelays,       \* what cleanupBackoffMs can return
  MaxNow             \* bound of the clock

ASSUME StoreAssumption ==
  /\ IsFiniteSet(Callback)
  /\ None \notin Callback \cup Grant \cup Nat
  /\ {StateTTL, LeaseTTL, ArmMinRemaining, MaxAttempts, ReconcileHorizon,
      MaxNow} \subseteq Nat \ {0}
  /\ RetryDelays \subseteq Nat \ {0}
  /\ RetryDelays # {}

VARIABLES
  now,      \* the clock every handler reads with Date.now()
  opened,   \* the state key has been handed to a login page
  \* the fields of the record stored under STATE_STORAGE_KEY
  status,        \* "none" while nothing is stored
  expiresAt,
  attempts,
  lease,
  unreconciled,  \* attempts whose backend outcome was never proven
  committedBy,
  outbox,   \* the value stored under GRANT_REPLACEMENT_STORAGE_KEY
  alarm,    \* the object's alarm
  job,      \* what a running alarm() awaits
  minted,   \* history: the leases ever drawn
  winner    \* history: the lease that committed, kept when the record goes

rec == <<status, expiresAt, attempts, lease, unreconciled, committedBy>>
storedVars == <<rec, outbox, alarm>>
historyVars == <<opened, minted, winner>>
storeVars == <<storedVars, job, historyVars>>

-----------------------------------------------------------------------------
(* Stored values *)

NoLease == [holder |-> None, expiresAt |-> 0, armed |-> FALSE]

NewLease(h, armed) == [holder |-> h, expiresAt |-> now + LeaseTTL, armed |-> armed]

NoOutbox == [grants |-> {}, notAfter |-> 0]

NoJob == [kind |-> "none", waiting |-> {}, acked |-> {}]

\* parseStateRecord: a record that fails this reads as missing.
Readable ==
  /\ attempts <= MaxAttempts
  /\ \/ /\ status = "pending"
        /\ committedBy = None
        /\ Cardinality(unreconciled) + (IF lease = NoLease THEN 0 ELSE 1) <= attempts
     \/ /\ status = "committed"
        /\ lease = NoLease
        /\ unreconciled = {}
        /\ committedBy # None

Pending == status = "pending" /\ Readable

CommittedBy(h) == status = "committed" /\ Readable /\ committedBy = h

Expired == now >= expiresAt

LeaseLive == lease # NoLease /\ now < lease.expiresAt

HeldBy(h) == lease.holder = h

\* Mutant: the armed lease that is taken over or released is forgotten.
ReconcileRecordedOnly == unreconciled

\* stateAttemptsToReconcile: the attempts that may still hold a credential.
AttemptsToReconcile == unreconciled \cup (IF lease.armed THEN {lease.holder} ELSE {})

\* The lease leaves the record; if it was armed, its attempt stays unproven.
DropLease == lease' = NoLease /\ unreconciled' = AttemptsToReconcile

\* storage.deleteAll() keeps the alarm under the worker's compatibility date.
DeleteAll ==
  /\ status' = "none" /\ expiresAt' = 0 /\ attempts' = 0
  /\ lease' = NoLease /\ unreconciled' = {} /\ committedBy' = None
  /\ outbox' = NoOutbox

Idle == job = NoJob

-----------------------------------------------------------------------------
(* fetch(): the operations of a pending or committed state *)

\* PUT /state.  The key is a fresh UUID: the object is empty.
PutState ==
  /\ Idle
  /\ ~opened
  /\ status = "none"
  /\ status' = "pending"
  /\ expiresAt' = now + StateTTL
  /\ alarm' = now + StateTTL
  /\ opened' = TRUE
  /\ UNCHANGED <<now, attempts, lease, unreconciled, committedBy, outbox, job, minted, winner>>

ReserveReply == {"missing", "committed", "expired", "busy", "exhausted", "reserved"}

\* POST /reserve when no lease is granted.
RefuseReserve(reply) ==
  \/ /\ reply = "missing"
     /\ ~Readable
     /\ IF status = "none" THEN UNCHANGED <<rec, outbox>> ELSE DeleteAll
  \/ /\ reply = "committed"
     /\ status = "committed" /\ Readable
     /\ UNCHANGED <<rec, outbox>>
  \/ /\ reply = "expired"
     /\ Pending /\ Expired
     /\ IF AttemptsToReconcile = {} THEN DeleteAll ELSE UNCHANGED <<rec, outbox>>
  \/ /\ reply = "busy"
     /\ Pending /\ ~Expired /\ LeaseLive
     /\ UNCHANGED <<rec, outbox>>
  \/ /\ reply = "exhausted"
     /\ Pending /\ ~Expired /\ ~LeaseLive
     /\ attempts >= MaxAttempts
     /\ DropLease
     /\ UNCHANGED <<status, expiresAt, attempts, committedBy, outbox>>

\* Mutant: the reservation is not counted.
GrantUncounted(h) ==
  /\ Pending /\ ~Expired /\ ~LeaseLive
  /\ attempts < MaxAttempts
  /\ unreconciled' = AttemptsToReconcile
  /\ lease' = NewLease(h, FALSE)
  /\ UNCHANGED <<status, expiresAt, attempts, committedBy, outbox>>

\* Mutant: a takeover renews the old lease and keeps it armed.
GrantArmed(h) ==
  /\ Pending /\ ~Expired /\ ~LeaseLive
  /\ attempts < MaxAttempts
  /\ unreconciled' = AttemptsToReconcile
  /\ lease' = NewLease(h, lease.armed)
  /\ attempts' = attempts + 1
  /\ UNCHANGED <<status, expiresAt, committedBy, outbox>>

\* POST /reserve when it grants a lease, taking over one past its TTL.
GrantLease(h) ==
  /\ Pending /\ ~Expired /\ ~LeaseLive
  /\ attempts < MaxAttempts
  /\ unreconciled' = AttemptsToReconcile
  /\ lease' = NewLease(h, FALSE)
  /\ attempts' = attempts + 1
  /\ UNCHANGED <<status, expiresAt, committedBy, outbox>>

Reserve(h, reply) ==
  /\ Idle
  /\ h \notin minted
  /\ \/ RefuseReserve(reply) /\ UNCHANGED minted
     \/ reply = "reserved" /\ GrantLease(h) /\ minted' = minted \cup {h}
  /\ UNCHANGED <<now, alarm, job, opened, winner>>

ArmReply == {"lease_lost", "expired", "unreconciled", "armed"}

CanArm(h) ==
  /\ Pending
  /\ expiresAt - now >= ArmMinRemaining
  /\ HeldBy(h)
  /\ LeaseLive

\* POST /attempt, with the correlations the holder proved revoked.
Arm(h, proven, reply) ==
  /\ Idle
  /\ \/ /\ reply = "lease_lost"
        /\ ~Pending \/ expiresAt - now >= ArmMinRemaining
        /\ ~CanArm(h)
        /\ UNCHANGED <<lease, unreconciled>>
     \/ /\ reply = "expired"
        /\ Pending /\ expiresAt - now < ArmMinRemaining
        /\ UNCHANGED <<lease, unreconciled>>
     \/ /\ reply = "unreconciled"
        /\ CanArm(h)
        /\ unreconciled \ proven # {}
        /\ unreconciled' = unreconciled \ proven
        /\ UNCHANGED lease
     \/ /\ reply = "armed"
        /\ CanArm(h)
        /\ unreconciled \ proven = {}
        /\ unreconciled' = {}
        /\ lease' = NewLease(h, TRUE)
  /\ UNCHANGED <<now, status, expiresAt, attempts, committedBy, outbox, alarm, job, historyVars>>

\* Mutant: the commit ends the lease and leaves the state pending.
EndLease(h) ==
  /\ lease' = NoLease
  /\ UNCHANGED <<status, expiresAt, attempts, unreconciled, committedBy>>

\* The record a commit writes: the state is used up.
Consume(h) ==
  /\ status' = "committed"
  /\ lease' = NoLease
  /\ committedBy' = h
  /\ UNCHANGED <<expiresAt, attempts, unreconciled>>

CommitReply == {"committed", "lease_lost"}

\* A lease past its TTL still commits while nobody took it over.
CanCommit(h) ==
  /\ Pending
  /\ ~Expired
  /\ HeldBy(h)
  /\ lease.armed
  /\ unreconciled = {}

\* POST /commit, with the earlier grants this authorization replaces.
Commit(h, replaced, reply) ==
  /\ Idle
  /\ \/ /\ reply = "committed"
        /\ CommittedBy(h)
        /\ UNCHANGED <<storedVars, winner>>
     \/ /\ reply = "lease_lost"
        /\ ~CommittedBy(h) /\ ~CanCommit(h)
        /\ UNCHANGED <<storedVars, winner>>
     \/ /\ reply = "committed"
        /\ CanCommit(h)
        /\ Consume(h)
        /\ winner' = h
        /\ IF replaced = {}
           THEN UNCHANGED <<outbox, alarm>>
           ELSE /\ outbox' = [grants |-> replaced, notAfter |-> now + ReconcileHorizon]
                /\ alarm' = now + 1
  /\ UNCHANGED <<now, job, opened, minted>>

\* POST /release with outcome "clean" or "unknown".
Release(h, outcome) ==
  /\ Idle
  /\ \/ /\ Pending /\ HeldBy(h)
        /\ IF outcome = "unknown" THEN DropLease
                                  ELSE lease' = NoLease /\ UNCHANGED unreconciled
        /\ UNCHANGED <<status, expiresAt, attempts, committedBy, outbox, alarm>>
     \/ /\ CommittedBy(h)
        /\ outbox' = NoOutbox
        /\ alarm' = expiresAt
        /\ UNCHANGED rec
     \/ /\ ~(Pending /\ HeldBy(h)) /\ ~CommittedBy(h)
        /\ UNCHANGED storedVars
  /\ UNCHANGED <<now, job, historyVars>>

-----------------------------------------------------------------------------
(* alarm() *)

AlarmDue == Idle /\ alarm # None /\ alarm <= now

\* Mutant: a drained outbox takes the alarm with it.
FinishWithoutAlarm == outbox' = NoOutbox /\ alarm' = None /\ UNCHANGED rec

\* Drop the drained outbox; the alarm at `now` routes what else remains.
FinishReplacement == outbox' = NoOutbox /\ alarm' = now /\ UNCHANGED rec

\* processGrantReplacement up to its first await.
StartReplacement ==
  /\ outbox # NoOutbox
  /\ \/ /\ now >= outbox.notAfter
        /\ FinishReplacement
        /\ UNCHANGED job
     \/ /\ now < outbox.notAfter
        /\ \E d \in RetryDelays : alarm' = now + d
        /\ job' = [kind |-> "replace", waiting |-> outbox.grants, acked |-> {}]
        /\ UNCHANGED <<rec, outbox>>

\* Mutant: a refused revocation is retried without a horizon.
NothingLeftWithoutHorizon ==
  \/ ~Readable
  \/ Expired /\ (status = "committed" \/ AttemptsToReconcile = {})

\* The state branch of alarm() and processStateReconcile up to its first await.
NothingLeft ==
  \/ ~Readable
  \/ /\ Expired
     /\ \/ status = "committed"
        \/ AttemptsToReconcile = {}
        \/ now >= expiresAt + ReconcileHorizon

StartReconcile ==
  /\ outbox = NoOutbox
  /\ \/ /\ NothingLeft
        /\ DeleteAll
        /\ alarm' = None
        /\ UNCHANGED job
     \/ /\ Readable /\ ~Expired
        /\ alarm' = expiresAt
        /\ UNCHANGED <<rec, outbox, job>>
     \/ /\ ~NothingLeft /\ Expired
        /\ DropLease
        /\ \E d \in RetryDelays : alarm' = now + d
        /\ job' = [kind |-> "reconcile", waiting |-> AttemptsToReconcile, acked |-> {}]
        /\ UNCHANGED <<status, expiresAt, attempts, committedBy, outbox>>

AlarmFires ==
  /\ AlarmDue
  /\ StartReplacement \/ StartReconcile
  /\ UNCHANGED <<now, historyVars>>

\* Mutant: a call that settled counts as acknowledged.
JobAnswerSettled(x, ack) ==
  /\ x \in job.waiting
  /\ job' = [kind |-> job.kind, waiting |-> job.waiting \ {x}, acked |-> job.acked \cup {x}]
  /\ UNCHANGED <<now, storedVars, historyVars>>

\* One awaited call settles: acknowledged, or refused, failed or lost.
JobAnswer(x, ack) ==
  /\ x \in job.waiting
  /\ job' = [kind |-> job.kind,
             waiting |-> job.waiting \ {x},
             acked |-> IF ack THEN job.acked \cup {x} ELSE job.acked]
  /\ UNCHANGED <<now, storedVars, historyVars>>

\* What remains after Promise.allSettled is written back, or cleared.
JobFinish ==
  /\ job # NoJob
  /\ job.waiting = {}
  /\ job' = NoJob
  /\ \/ /\ job.kind = "replace"
        /\ IF outbox.grants \subseteq job.acked
           THEN FinishReplacement
           ELSE /\ outbox' = [outbox EXCEPT !.grants = @ \ job.acked]
                /\ UNCHANGED <<rec, alarm>>
     \/ /\ job.kind = "reconcile"
        /\ UNCHANGED alarm
        /\ IF unreconciled \subseteq job.acked
           THEN DeleteAll
           ELSE /\ unreconciled' = unreconciled \ job.acked
                /\ UNCHANGED <<status, expiresAt, attempts, lease, committedBy, outbox>>
  /\ UNCHANGED <<now, historyVars>>

\* The object is evicted while it awaits: storage and alarm stay.
StoreCrash ==
  /\ job # NoJob
  /\ job' = NoJob
  /\ UNCHANGED <<now, storedVars, historyVars>>

Tick ==
  /\ opened
  /\ now < MaxNow
  /\ now' = now + 1
  /\ UNCHANGED storeVars

StoreInit ==
  /\ now = 0
  /\ opened = FALSE
  /\ status = "none" /\ expiresAt = 0 /\ attempts = 0
  /\ lease = NoLease /\ unreconciled = {} /\ committedBy = None
  /\ outbox = NoOutbox
  /\ alarm = None
  /\ job = NoJob
  /\ minted = {}
  /\ winner = None

\* The object on its own: any caller may send any operation at any time and
\* the awaited calls answer anything.
StoreNext ==
  \/ PutState
  \/ \E h \in Callback :
       \/ \E reply \in ReserveReply : Reserve(h, reply)
       \/ \E proven \in SUBSET Callback, reply \in ArmReply : Arm(h, proven, reply)
       \/ \E replaced \in SUBSET Grant, reply \in CommitReply : Commit(h, replaced, reply)
       \/ \E outcome \in {"clean", "unknown"} : Release(h, outcome)
  \/ AlarmFires
  \/ \E x \in Callback \cup Grant, ack \in BOOLEAN : JobAnswer(x, ack)
  \/ JobFinish
  \/ StoreCrash
  \/ Tick

StoreSpec == StoreInit /\ [][StoreNext]_<<now, storeVars>>

\* Time passes, the platform fires a due alarm, and every awaited call ends:
\* the calls carry timeouts.  Nothing is assumed of the callers, of what the
\* calls answer, or of the absence of crashes.
StoreFairness ==
  /\ WF_<<now, storeVars>>(Tick)
  /\ WF_<<now, storeVars>>(AlarmFires)
  /\ WF_<<now, storeVars>>(\E x \in Callback \cup Grant, ack \in BOOLEAN : JobAnswer(x, ack))
  /\ WF_<<now, storeVars>>(JobFinish)

FairStoreSpec == StoreSpec /\ StoreFairness

-----------------------------------------------------------------------------
(* Properties of the stored data *)

LeaseType == [holder : Callback \cup {None}, expiresAt : Nat, armed : BOOLEAN]

StoreTypeOK ==
  /\ now \in Nat
  /\ opened \in BOOLEAN
  /\ status \in {"none", "pending", "committed"}
  /\ expiresAt \in Nat
  /\ attempts \in Nat
  /\ lease \in LeaseType
  /\ unreconciled \in SUBSET Callback
  /\ committedBy \in Callback \cup {None}
  /\ outbox \in [grants : SUBSET Grant, notAfter : Nat]
  /\ alarm \in Nat \cup {None}
  /\ job \in [kind : {"none", "replace", "reconcile"},
              waiting : SUBSET (Callback \cup Grant),
              acked : SUBSET (Callback \cup Grant)]
  /\ minted \in SUBSET Callback
  /\ winner \in Callback \cup {None}

\* No sequence of operations writes a record that the store's own reader
\* (parseStateRecord) then rejects: reserve and alarm would delete such a
\* record together with the unproven attempts it holds.
StoredRecordIsReadable == status # "none" => Readable

\* An armed lease is alone: no earlier attempt is unproven beside it, however
\* leases were taken over, so a commit never leaves one behind.
ArmedLeaseIsAlone == lease.armed => unreconciled = {}

\* At most one lease of a state ever commits: the commit outlives retries,
\* releases, alarms and the deletion of the record.
CommitIsFinal == [][winner' # winner => winner = None]_<<now, storeVars>>

\* Whatever the callers do, the stored state and its outbox are gone in the
\* end: neither refused revocations nor crashes keep the alarm for ever.
StateIsCleared == opened ~> [](status = "none" /\ outbox = NoOutbox)

\* Whatever waits for the alarm has one: a stored state, the attempts it has
\* to reconcile and the replacement outbox are never without a future alarm,
\* not even while alarm() awaits or after a crash there.
WorkHasAlarm == (status # "none" \/ outbox # NoOutbox) => alarm # None
=============================================================================
