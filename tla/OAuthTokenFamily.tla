-------------------------- MODULE OAuthTokenFamily ---------------------------
(***************************************************************************)
(* The token family of one OAuth grant: the Durable Object of              *)
(* workers/remote-mcp/src/oauth-state-store.ts that knows which            *)
(* authorization code or refresh token of the grant is current, which are  *)
(* spent, and, once the family is tombstoned, what of its grant and its    *)
(* backend key has still to be revoked.                                    *)
(*                                                                         *)
(* Handlers run in blockConcurrencyWhile and are one step each, except for *)
(* the two that write twice outside a transaction: a crash between the     *)
(* writes is their reply "crashed".  A credential stands for its hash,     *)
(* which covers its kind too; the lease that /begin draws is named by the  *)
(* exchange request that draws it.  All requests of a family carry the     *)
(* API-key binding of the same grant.                                      *)
(*                                                                         *)
(* The clock stops at MaxNow and retries of the cleanup are not set past   *)
(* it, so that the alarm can go on retrying.                               *)
(*                                                                         *)
(* A definition whose comment starts with "Mutant" is a plausible bug in   *)
(* the definition after it, used by no specification.                      *)
(***************************************************************************)
EXTENDS Integers

CONSTANTS
  Request,        \* exchanges at the token endpoint
  Credential,     \* the codes and refresh tokens of the grant
  None,           \* absence: no lease, no alarm, no current credential
  GrantExpiry,    \* when the provider's grant and the key end
  FamilyTTL,      \* REFRESH_TOKEN_TTL_MS: the family of a grant without expiry
  InflightTTL,    \* TOKEN_FAMILY_INFLIGHT_TTL_MS
  SupersedeTTL,   \* STATE_RECONCILE_HORIZON_MS
  RetryDelays,    \* what cleanupBackoffMs can return
  MaxNow          \* where the clock saturates

ASSUME FamilyAssumption ==
  /\ None \notin Request \cup Credential \cup Nat
  /\ {GrantExpiry, FamilyTTL, InflightTTL, SupersedeTTL, MaxNow} \subseteq Nat \ {0}
  /\ GrantExpiry <= FamilyTTL      \* a key ends 30 days after it is provisioned,
  /\ FamilyTTL <= SupersedeTTL     \* a family later, a superseded one at 31 days
  /\ GrantExpiry <= MaxNow
  /\ RetryDelays \subseteq Nat \ {0}
  /\ RetryDelays # {}

VARIABLES
  now,
  \* the record stored under TOKEN_FAMILY_STORAGE_KEY
  status,      \* "none" while nothing is stored
  expiresAt,
  current,     \* currentHash
  bound,       \* it has an apiKeyBinding
  inflight,    \* the exchange that /begin started, and when
  spent,       \* the credentials stored under TOKEN_FAMILY_SPENT_PREFIX
  cleanup,     \* the cleanup intent: what is still to be revoked; {} for none
  alarm,
  job          \* what a running alarm() awaits

recordVars == <<status, expiresAt, current, bound, inflight, spent>>
familyVars == <<recordVars, cleanup, alarm, job>>

-----------------------------------------------------------------------------
(* Stored values *)

NoInflight == [lease |-> None, since |-> 0]

NoJob == [running |-> FALSE, waiting |-> {}, acked |-> {}]

Idle == job = NoJob

After(d) == IF now + d > MaxNow THEN MaxNow ELSE now + d

Expired == expiresAt <= now

\* expiryFromGrant: the grant's own expiry if it has one, 30 days otherwise.
FamilyExpiries == {GrantExpiry, now + FamilyTTL}

\* Mutant: a tombstone without its cleanup intent.
TombstoneOnly ==
  /\ status' = "revoked"
  /\ inflight' = NoInflight
  /\ alarm' = After(1)
  /\ UNCHANGED <<expiresAt, current, bound, spent, cleanup>>

\* tombstoneTokenFamily: one transaction; an intent under way is kept.
Tombstone ==
  /\ status' = "revoked"
  /\ inflight' = NoInflight
  /\ cleanup' = IF cleanup # {} THEN cleanup
                ELSE {"grant"} \cup (IF bound THEN {"key"} ELSE {})
  /\ alarm' = After(1)
  /\ UNCHANGED <<expiresAt, current, bound, spent>>

DeleteAll ==
  /\ status' = "none" /\ expiresAt' = 0 /\ current' = None /\ bound' = FALSE
  /\ inflight' = NoInflight /\ spent' = {} /\ cleanup' = {}

-----------------------------------------------------------------------------
(* fetch(): the /token-family operations *)

InitializeReply == {"ok", "conflict", "crashed"}

\* PUT /token-family.  put() and setAlarm() are two writes.
Initialize(c, expiry, reply) ==
  /\ Idle
  /\ \/ /\ reply = "ok"
        /\ status = "active" /\ current = c /\ bound
        /\ UNCHANGED <<recordVars, alarm>>
     \/ /\ reply = "conflict"
        /\ status # "none"
        /\ ~(status = "active" /\ current = c /\ bound)
        /\ UNCHANGED <<recordVars, alarm>>
     \/ /\ reply \in {"ok", "crashed"}
        /\ status = "none"
        /\ expiry > now
        /\ status' = "active"
        /\ expiresAt' = expiry
        /\ current' = c
        /\ bound' = TRUE
        /\ UNCHANGED <<inflight, spent>>
        /\ IF reply = "ok" THEN alarm' = expiry ELSE UNCHANGED alarm
  /\ UNCHANGED <<now, cleanup, job>>

BeginReply == {"missing", "revoked", "replay", "invalid", "started"}

Startable(c) == status = "active" /\ ~Expired /\ c \notin spent /\ current = c

\* Mutant: a lease past its TTL gives way to the next use.
ReserveOverStaleLease(r, reply) ==
  \/ /\ reply = "replay"
     /\ inflight # NoInflight /\ now - inflight.since <= InflightTTL
     /\ Tombstone
  \/ /\ reply = "started"
     /\ inflight = NoInflight \/ now - inflight.since > InflightTTL
     /\ inflight' = [lease |-> r, since |-> now]
     /\ UNCHANGED <<status, expiresAt, current, bound, spent, cleanup, alarm>>

\* A second use of the current credential ends the family, however old the
\* first: the provider may have rotated for it.
ReserveLease(r, reply) ==
  \/ /\ reply = IF now - inflight.since <= InflightTTL THEN "replay" ELSE "revoked"
     /\ inflight # NoInflight
     /\ Tombstone
  \/ /\ reply = "started"
     /\ inflight = NoInflight
     /\ inflight' = [lease |-> r, since |-> now]
     /\ UNCHANGED <<status, expiresAt, current, bound, spent, cleanup, alarm>>

\* POST /token-family/begin.
Begin(r, c, reply) ==
  /\ Idle
  /\ \/ /\ reply = "missing"
        /\ status = "none"
        /\ UNCHANGED <<recordVars, cleanup, alarm>>
     \/ /\ reply = "revoked"
        /\ status = "revoked"
        /\ UNCHANGED <<recordVars, cleanup, alarm>>
     \/ /\ reply = "revoked"
        /\ status = "active" /\ Expired
        /\ Tombstone
     \/ /\ reply = "replay"
        /\ status = "active" /\ ~Expired
        /\ c \in spent
        /\ Tombstone
     \/ /\ reply = "invalid"
        /\ status = "active" /\ ~Expired
        /\ c \notin spent /\ current # c
        /\ UNCHANGED <<recordVars, cleanup, alarm>>
     \/ Startable(c) /\ ReserveLease(r, reply)
  /\ UNCHANGED <<now, job>>

CommitReply == {"invalid", "revoked", "committed", "crashed"}

HoldsLease(r) == status = "active" /\ inflight.lease = r

\* Mutant: the lease is closed on the record as it was before the rotation.
RotateNothing(next) ==
  /\ inflight' = NoInflight
  /\ UNCHANGED <<current, spent>>

\* The head of the family moves on; the old one is spent.
Rotate(next) ==
  /\ spent' = spent \cup {current}
  /\ current' = next
  /\ inflight' = NoInflight

\* POST /token-family/commit.  The spent mark and the record are two writes.
Commit(r, next, reply) ==
  /\ Idle
  /\ \/ /\ reply = "revoked"
        /\ status = "revoked"
        /\ UNCHANGED recordVars
     \/ /\ reply = "invalid"
        /\ status # "revoked" /\ ~HoldsLease(r)
        /\ UNCHANGED recordVars
     \/ /\ reply = "committed"
        /\ HoldsLease(r)
        /\ Rotate(next)
        /\ bound' = TRUE
        /\ UNCHANGED <<status, expiresAt>>
     \/ /\ reply = "crashed"
        /\ HoldsLease(r)
        /\ spent' = spent \cup {current}
        /\ UNCHANGED <<status, expiresAt, current, bound, inflight>>
  /\ UNCHANGED <<now, cleanup, alarm, job>>

CheckReply == {"missing", "revoked", "spent", "current", "unknown"}

\* POST /token-family/check: it changes nothing.
CheckAnswers(c, reply) ==
  /\ Idle
  /\ reply = IF status = "none" THEN "missing"
             ELSE IF status = "revoked" THEN "revoked"
             ELSE IF c \in spent THEN "spent"
             ELSE IF c = current THEN "current" ELSE "unknown"

\* GET /token-family/status: the guard of every access token.
Status(reply) ==
  /\ Idle
  /\ \/ /\ reply = "revoked"
        /\ status = "active" /\ Expired
        /\ Tombstone
     \/ /\ reply = IF status = "none" THEN "missing" ELSE status
        /\ ~(status = "active" /\ Expired)
        /\ UNCHANGED <<recordVars, cleanup, alarm>>
  /\ UNCHANGED <<now, job>>

\* POST /token-family/abort.
Abort(r) ==
  /\ Idle
  /\ HoldsLease(r)
  /\ inflight' = NoInflight
  /\ UNCHANGED <<now, status, expiresAt, current, bound, spent, cleanup, alarm, job>>

\* POST /token-family/revoke: it also renews the cleanup of a revoked family.
Revoke ==
  /\ Idle
  /\ IF status = "none" THEN UNCHANGED <<recordVars, cleanup, alarm>> ELSE Tombstone
  /\ UNCHANGED <<now, job>>

\* POST /token-family/supersede: a family never redeemed is tombstoned unbound.
Supersede ==
  /\ Idle
  /\ \/ status # "none" /\ Tombstone
     \/ /\ status = "none"
        /\ status' = "revoked"
        /\ expiresAt' = now + SupersedeTTL
        /\ cleanup' = {"grant"}
        /\ alarm' = After(1)
        /\ UNCHANGED <<current, bound, inflight, spent>>
  /\ UNCHANGED <<now, job>>

-----------------------------------------------------------------------------
(* alarm() *)

AlarmDue == Idle /\ alarm # None /\ alarm <= now

\* Mutant: the next alarm is set when the awaited calls have been answered.
StartCleanupUnarmed ==
  /\ cleanup # {}
  /\ alarm' = None
  /\ job' = [running |-> TRUE, waiting |-> cleanup, acked |-> {}]
  /\ UNCHANGED <<recordVars, cleanup>>

\* processCleanup up to its first await: the next attempt is armed first.
StartCleanup ==
  /\ cleanup # {}
  /\ \E d \in RetryDelays : alarm' = After(d)
  /\ job' = [running |-> TRUE, waiting |-> cleanup, acked |-> {}]
  /\ UNCHANGED <<recordVars, cleanup>>

\* The family branch: an expired record goes, whatever its status.
FamilyAlarm ==
  /\ cleanup = {}
  /\ \/ /\ status # "none" /\ ~Expired
        /\ alarm' = expiresAt
        /\ UNCHANGED <<recordVars, cleanup>>
     \/ /\ status = "none" \/ Expired
        /\ DeleteAll
        /\ alarm' = None
  /\ UNCHANGED job

AlarmFires ==
  /\ AlarmDue
  /\ StartCleanup \/ FamilyAlarm
  /\ UNCHANGED now

\* revokeGrant or revokeBackend settles: acknowledged, or refused or lost.
JobAnswer(x, ack) ==
  /\ x \in job.waiting
  /\ job' = [running |-> TRUE,
             waiting |-> job.waiting \ {x},
             acked |-> IF ack THEN job.acked \cup {x} ELSE job.acked]
  /\ UNCHANGED <<now, recordVars, cleanup, alarm>>

\* What the settled calls leave to be revoked.
RemainingAfter(acked) == cleanup \ acked

\* Mutant: the tombstone goes with the cleanup it was kept for.
JobFinishForgetting ==
  /\ job.running /\ job.waiting = {}
  /\ job' = NoJob
  /\ \/ /\ RemainingAfter(job.acked) # {}
        /\ cleanup' = RemainingAfter(job.acked)
        /\ UNCHANGED <<recordVars, alarm>>
     \/ /\ RemainingAfter(job.acked) = {}
        /\ DeleteAll
        /\ UNCHANGED alarm
  /\ UNCHANGED now

\* The rest of processCleanup: the tombstone stays until its grant has expired.
JobFinish ==
  /\ job.running /\ job.waiting = {}
  /\ job' = NoJob
  /\ \/ /\ RemainingAfter(job.acked) # {}
        /\ cleanup' = RemainingAfter(job.acked)
        /\ UNCHANGED <<recordVars, alarm>>
     \/ /\ RemainingAfter(job.acked) = {}
        /\ IF status = "none" \/ Expired
           THEN DeleteAll /\ UNCHANGED alarm
           ELSE /\ cleanup' = {}
                /\ alarm' = expiresAt
                /\ UNCHANGED recordVars
  /\ UNCHANGED now

\* The object is evicted while it awaits.
FamilyCrash ==
  /\ job.running
  /\ job' = NoJob
  /\ UNCHANGED <<now, recordVars, cleanup, alarm>>

Tick ==
  /\ now < MaxNow
  /\ now' = now + 1
  /\ UNCHANGED familyVars

FamilyInit ==
  /\ now = 0
  /\ status = "none" /\ expiresAt = 0 /\ current = None /\ bound = FALSE
  /\ inflight = NoInflight /\ spent = {} /\ cleanup = {}
  /\ alarm = None
  /\ job = NoJob

\* The object alone: any caller, any order, any answer.
FamilyNext ==
  \/ \E c \in Credential, expiry \in FamilyExpiries, reply \in InitializeReply :
       Initialize(c, expiry, reply)
  \/ \E r \in Request :
       \/ \E c \in Credential, reply \in BeginReply : Begin(r, c, reply)
       \/ \E c \in Credential, reply \in CommitReply : Commit(r, c, reply)
       \/ Abort(r)
  \/ \E reply \in {"missing", "active", "revoked"} : Status(reply)
  \/ Revoke
  \/ Supersede
  \/ AlarmFires
  \/ \E x \in {"grant", "key"}, ack \in BOOLEAN : JobAnswer(x, ack)
  \/ JobFinish
  \/ FamilyCrash
  \/ Tick

FamilySpec == FamilyInit /\ [][FamilyNext]_<<now, familyVars>>

\* Time passes, a due alarm fires, the awaited calls end, and an authority
\* that is asked again and again acknowledges in the end.
FamilyFairness ==
  /\ WF_<<now, familyVars>>(Tick)
  /\ WF_<<now, familyVars>>(AlarmFires)
  /\ WF_<<now, familyVars>>(JobFinish)
  /\ \A x \in {"grant", "key"} :
       /\ WF_<<now, familyVars>>(\E ack \in BOOLEAN : JobAnswer(x, ack))
       /\ SF_<<now, familyVars>>(JobAnswer(x, TRUE))

FairFamilySpec == FamilySpec /\ FamilyFairness

-----------------------------------------------------------------------------
(* Properties *)

FamilyTypeOK ==
  /\ now \in 0..MaxNow
  /\ status \in {"none", "active", "revoked"}
  /\ expiresAt \in Nat
  /\ current \in Credential \cup {None}
  /\ bound \in BOOLEAN
  /\ inflight \in [lease : Request \cup {None}, since : Nat]
  /\ spent \in SUBSET Credential
  /\ cleanup \in SUBSET {"grant", "key"}
  /\ alarm \in Nat \cup {None}
  /\ job \in [running : BOOLEAN, waiting : SUBSET {"grant", "key"},
              acked : SUBSET {"grant", "key"}]
  /\ status = "active" => current # None /\ bound
  /\ inflight # NoInflight => status = "active"

\* "A crash after the tombstone can never leave cleanup without a future
\* alarm", nor can one while alarm() awaits.
CleanupHasAlarm == cleanup # {} => alarm # None

\* A tombstone stays until nothing of the grant is left to accept: no alarm,
\* cleanup or late request brings the family back or forgets it earlier.
RevokedUntilExpiry ==
  [][status = "revoked" => status' = "revoked" \/ now >= GrantExpiry]_<<now, familyVars>>

\* A revocation leaves the intent only once its authority acknowledged it.
CleanupIsProven == [][cleanup \ cleanup' \subseteq job.acked]_<<now, familyVars>>

\* If the object stops crashing, a tombstoned family is cleaned up in the end.
CleanupCompletes ==
  <>[][~FamilyCrash]_<<now, familyVars>> =>
    [](status = "revoked" => <>(cleanup = {}))
=============================================================================
