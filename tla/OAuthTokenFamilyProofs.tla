------------------------ MODULE OAuthTokenFamilyProofs -------------------------
(***************************************************************************)
(* Proofs about the token family for any number of exchanges, any          *)
(* lifetimes and any callers.                                              *)
(***************************************************************************)
EXTENDS OAuthTokenFamily, TLAPS

(***************************************************************************)
(* The strengthening that is inductive: only a tombstone has a cleanup     *)
(* intent, a running alarm() revokes what the intent still holds, and no   *)
(* stored family ends before its grant does.                               *)
(***************************************************************************)
JobType == [running : BOOLEAN, waiting : SUBSET {"grant", "key"},
            acked : SUBSET {"grant", "key"}]

CleanupIsOfTombstone == cleanup # {} => status = "revoked"

JobIsOfCleanup ==
  /\ job.running => cleanup # {}
  /\ ~job.running => job = NoJob

OutlivesGrant == status # "none" => expiresAt >= GrantExpiry

FamilyInv ==
  /\ FamilyTypeOK
  /\ CleanupHasAlarm
  /\ CleanupIsOfTombstone
  /\ JobIsOfCleanup
  /\ OutlivesGrant

-----------------------------------------------------------------------------
(* Constants and constructors *)

LEMMA FamilyConstants ==
  /\ None \notin Request /\ None \notin Credential /\ None \notin Nat
  /\ GrantExpiry \in Nat /\ FamilyTTL \in Nat /\ InflightTTL \in Nat
  /\ SupersedeTTL \in Nat /\ MaxNow \in Nat
  /\ GrantExpiry <= FamilyTTL /\ FamilyTTL <= SupersedeTTL
  /\ \A d \in RetryDelays : d \in Nat
  BY FamilyAssumption

LEMMA FamilyConstructors ==
  /\ NoInflight \in [lease : Request \cup {None}, since : Nat]
  /\ NoInflight.lease = None
  /\ NoJob \in JobType /\ NoJob.running = FALSE
  BY DEF NoInflight, NoJob, JobType

LEMMA AfterIsTime ==
  ASSUME now \in Nat, NEW d \in Nat
  PROVE  After(d) \in Nat /\ After(d) # None
  BY FamilyConstants DEF After

\* The stored half of FamilyInv, about record, intent and alarm alone.
StoredInv ==
  /\ status \in {"none", "active", "revoked"}
  /\ expiresAt \in Nat
  /\ current \in Credential \cup {None}
  /\ bound \in BOOLEAN
  /\ inflight \in [lease : Request \cup {None}, since : Nat]
  /\ spent \in SUBSET Credential
  /\ cleanup \in SUBSET {"grant", "key"}
  /\ alarm \in Nat \cup {None}
  /\ status = "active" => current # None /\ bound
  /\ inflight # NoInflight => status = "active"
  /\ CleanupHasAlarm
  /\ CleanupIsOfTombstone
  /\ OutlivesGrant

LEMMA FamilyInvSplits ==
  FamilyInv <=> now \in 0..MaxNow /\ StoredInv /\ job \in JobType /\ JobIsOfCleanup
  BY DEF FamilyInv, FamilyTypeOK, StoredInv, JobType

LEMMA FamilyInvSplitsNext ==
  FamilyInv' <=> now' \in 0..MaxNow /\ StoredInv' /\ job' \in JobType /\ JobIsOfCleanup'
  BY DEF FamilyInv, FamilyTypeOK, StoredInv, JobType, CleanupHasAlarm, CleanupIsOfTombstone,
         OutlivesGrant, JobIsOfCleanup, NoInflight, NoJob

LEMMA FamilyInvInit == FamilyInit => FamilyInv
  <1> SUFFICES ASSUME FamilyInit PROVE FamilyInv
    OBVIOUS
  <1>1. now \in 0..MaxNow
    BY FamilyConstants DEF FamilyInit
  <1>2. StoredInv
    BY FamilyConstructors DEF FamilyInit, StoredInv, CleanupHasAlarm, CleanupIsOfTombstone, OutlivesGrant
  <1>3. job \in JobType /\ JobIsOfCleanup
    BY FamilyConstructors DEF FamilyInit, JobIsOfCleanup
  <1>4. QED
    BY <1>1, <1>2, <1>3, FamilyInvSplits

-----------------------------------------------------------------------------
(* The handlers *)

\* A tombstone keeps what it must and always leaves an alarm and an intent.
LEMMA TombstoneIsSound ==
  ASSUME FamilyInv, status # "none", Tombstone
  PROVE  StoredInv' /\ status' = "revoked" /\ cleanup' # {} /\ cleanup \subseteq cleanup'
  <1>1. now \in Nat /\ StoredInv
    BY FamilyInvSplits, FamilyConstants
  <1>2. After(1) \in Nat /\ After(1) # None
    BY <1>1, AfterIsTime
  <1>3. /\ cleanup' \in SUBSET {"grant", "key"} /\ cleanup' # {} /\ cleanup \subseteq cleanup'
    BY <1>1 DEF Tombstone, StoredInv
  <1>4. inflight' \in [lease : Request \cup {None}, since : Nat] /\ inflight' = NoInflight
    BY FamilyConstructors DEF Tombstone
  <1>5. QED
    BY <1>1, <1>2, <1>3, <1>4
    DEF Tombstone, StoredInv, CleanupHasAlarm, CleanupIsOfTombstone, OutlivesGrant, NoInflight

\* A handler runs only while no alarm() does, and leaves the job alone.
LEMMA HandlerKeepsJob ==
  ASSUME FamilyInv, Idle, UNCHANGED <<now, job>>, StoredInv'
  PROVE  FamilyInv'
  <1>1. /\ now \in 0..MaxNow /\ job \in JobType
    BY FamilyInvSplits
  <1>2. job = NoJob /\ NoJob.running = FALSE
    BY FamilyConstructors DEF Idle
  <1>3. JobIsOfCleanup'
    BY <1>2 DEF JobIsOfCleanup, NoJob
  <1>4. QED
    BY <1>1, <1>3, FamilyInvSplitsNext

LEMMA UnchangedStored ==
  ASSUME FamilyInv, UNCHANGED <<recordVars, cleanup, alarm>>
  PROVE  StoredInv'
  <1>1. StoredInv
    BY FamilyInvSplits
  <1>2. QED
    BY <1>1
    DEF StoredInv, recordVars, CleanupHasAlarm, CleanupIsOfTombstone, OutlivesGrant, NoInflight

LEMMA InitializeKeepsInv ==
  ASSUME FamilyInv, NEW c \in Credential, NEW expiry \in FamilyExpiries, NEW reply,
         Initialize(c, expiry, reply)
  PROVE  FamilyInv'
  <1>1. CASE UNCHANGED <<recordVars, alarm>>
    BY <1>1, UnchangedStored, HandlerKeepsJob DEF Initialize
  <1>2. CASE /\ status = "none" /\ status' = "active"
             /\ expiresAt' = expiry
             /\ current' = c /\ bound' = TRUE
             /\ UNCHANGED <<inflight, spent>>
             /\ alarm' = expiry \/ alarm' = alarm
    <2>1. StoredInv /\ now \in Nat
      BY FamilyInvSplits, FamilyConstants
    <2>2. expiry \in Nat /\ expiry >= GrantExpiry
      BY <2>1, FamilyConstants DEF FamilyExpiries
    <2>3. c # None /\ cleanup = {} /\ cleanup' = {}
      BY <1>2, <2>1, FamilyConstants DEF Initialize, StoredInv, CleanupIsOfTombstone
    <2>4. alarm' \in Nat \cup {None}
      BY <1>2, <2>1, <2>2 DEF StoredInv
    <2>5. StoredInv'
      BY <1>2, <2>1, <2>2, <2>3, <2>4
      DEF StoredInv, CleanupHasAlarm, CleanupIsOfTombstone, OutlivesGrant, NoInflight
    <2>6. QED
      BY <2>5, HandlerKeepsJob DEF Initialize
  <1>3. QED
    BY <1>1, <1>2 DEF Initialize

LEMMA BeginKeepsInv ==
  ASSUME FamilyInv, NEW r \in Request, NEW c \in Credential, NEW reply, Begin(r, c, reply)
  PROVE  FamilyInv'
  <1>1. CASE UNCHANGED <<recordVars, cleanup, alarm>>
    BY <1>1, UnchangedStored, HandlerKeepsJob DEF Begin
  <1>2. CASE status = "active" /\ Tombstone
    BY <1>2, TombstoneIsSound, HandlerKeepsJob DEF Begin
  <1>3. CASE /\ Startable(c)
             /\ inflight' = [lease |-> r, since |-> now]
             /\ UNCHANGED <<status, expiresAt, current, bound, spent, cleanup, alarm>>
    <2>1. StoredInv /\ now \in Nat
      BY FamilyInvSplits, FamilyConstants
    <2>2. inflight' \in [lease : Request \cup {None}, since : Nat]
      BY <1>3, <2>1
    <2>3. StoredInv'
      BY <1>3, <2>1, <2>2
      DEF Startable, StoredInv, CleanupHasAlarm, CleanupIsOfTombstone, OutlivesGrant, NoInflight
    <2>4. QED
      BY <2>3, HandlerKeepsJob DEF Begin
  <1>4. QED
    BY <1>1, <1>2, <1>3 DEF Begin, Startable, ReserveLease

LEMMA CommitKeepsInv ==
  ASSUME FamilyInv, NEW r \in Request, NEW next \in Credential, NEW reply, Commit(r, next, reply)
  PROVE  FamilyInv'
  <1>1. CASE UNCHANGED recordVars
    BY <1>1, UnchangedStored, HandlerKeepsJob DEF Commit
  <1>2. CASE /\ HoldsLease(r)
             /\ spent' = spent \cup {current}
             /\ \/ current' = next /\ inflight' = NoInflight /\ bound' = TRUE
                \/ UNCHANGED <<current, bound, inflight>>
             /\ UNCHANGED <<status, expiresAt>>
    <2>1. StoredInv
      BY FamilyInvSplits
    <2>2. status = "active" /\ current \in Credential /\ bound = TRUE
      <3>1. status = "active"
        BY <1>2 DEF HoldsLease
      <3>2. bound \in BOOLEAN /\ bound
        BY <2>1, <3>1, Zenon DEF StoredInv
      <3>3. bound = TRUE
        BY <3>2, Zenon
      <3>4. QED
        BY <2>1, <3>1, <3>3 DEF StoredInv
    <2>3. UNCHANGED <<cleanup, alarm>>
      BY DEF Commit
    <2>4. /\ current' \in Credential /\ next # None
          /\ bound' = bound \/ bound' = TRUE
          /\ inflight' = inflight \/ inflight' = NoInflight
      BY <1>2, <2>2, FamilyConstants
    <2>5. /\ spent' \in SUBSET Credential
          /\ inflight' \in [lease : Request \cup {None}, since : Nat]
      BY <1>2, <2>1, <2>2, <2>4, FamilyConstructors DEF StoredInv
    <2>6. bound' = TRUE
      BY <2>2, <2>4
    <2>7. /\ status' = "active" /\ expiresAt' = expiresAt
          /\ cleanup' = cleanup /\ alarm' = alarm /\ current' # None
      BY <1>2, <2>2, <2>3, <2>4, FamilyConstants
    <2>8. StoredInv'
      BY <2>1, <2>2, <2>4, <2>5, <2>6, <2>7
      DEF StoredInv, CleanupHasAlarm, CleanupIsOfTombstone, OutlivesGrant, NoInflight
    <2>9. QED
      BY <2>8, HandlerKeepsJob DEF Commit
  <1>3. QED
    BY <1>1, <1>2 DEF Commit, Rotate

LEMMA StatusKeepsInv == ASSUME FamilyInv, NEW reply, Status(reply) PROVE FamilyInv'
  <1>1. CASE UNCHANGED <<recordVars, cleanup, alarm>>
    BY <1>1, UnchangedStored, HandlerKeepsJob DEF Status
  <1>2. CASE status = "active" /\ Tombstone
    BY <1>2, TombstoneIsSound, HandlerKeepsJob DEF Status
  <1>3. QED
    BY <1>1, <1>2 DEF Status

LEMMA AbortKeepsInv == ASSUME FamilyInv, NEW r \in Request, Abort(r) PROVE FamilyInv'
  <1>1. StoredInv
    BY FamilyInvSplits
  <1>2. inflight' \in [lease : Request \cup {None}, since : Nat]
    BY FamilyConstructors DEF Abort
  <1>3. StoredInv'
    BY <1>1, <1>2
    DEF Abort, StoredInv, CleanupHasAlarm, CleanupIsOfTombstone, OutlivesGrant, NoInflight
  <1>4. QED
    BY <1>3, HandlerKeepsJob DEF Abort

LEMMA RevokeKeepsInv == ASSUME FamilyInv, Revoke PROVE FamilyInv'
  <1>1. CASE UNCHANGED <<recordVars, cleanup, alarm>>
    BY <1>1, UnchangedStored, HandlerKeepsJob DEF Revoke
  <1>2. CASE status # "none" /\ Tombstone
    BY <1>2, TombstoneIsSound, HandlerKeepsJob DEF Revoke
  <1>3. QED
    BY <1>1, <1>2 DEF Revoke

LEMMA SupersedeKeepsInv == ASSUME FamilyInv, Supersede PROVE FamilyInv'
  <1>1. CASE status # "none" /\ Tombstone
    BY <1>1, TombstoneIsSound, HandlerKeepsJob DEF Supersede
  <1>2. CASE /\ status = "none" /\ status' = "revoked"
             /\ expiresAt' = now + SupersedeTTL
             /\ cleanup' = {"grant"}
             /\ alarm' = After(1)
             /\ UNCHANGED <<current, bound, inflight, spent>>
    <2>1. StoredInv /\ now \in Nat
      BY FamilyInvSplits, FamilyConstants
    <2>2. After(1) \in Nat /\ After(1) # None
      BY <2>1, AfterIsTime
    <2>3. now + SupersedeTTL \in Nat /\ now + SupersedeTTL >= GrantExpiry
      BY <2>1, FamilyConstants
    <2>4. inflight = NoInflight
      BY <1>2, <2>1 DEF StoredInv
    <2>5. StoredInv'
      BY <1>2, <2>1, <2>2, <2>3, <2>4
      DEF StoredInv, CleanupHasAlarm, CleanupIsOfTombstone, OutlivesGrant, NoInflight
    <2>6. QED
      BY <2>5, HandlerKeepsJob DEF Supersede
  <1>3. QED
    BY <1>1, <1>2 DEF Supersede

-----------------------------------------------------------------------------
(* alarm() *)

\* What is left when everything is deleted.
LEMMA DeleteAllIsSound ==
  ASSUME DeleteAll, alarm' \in Nat \cup {None}
  PROVE  StoredInv'
  BY FamilyConstructors
  DEF DeleteAll, StoredInv, CleanupHasAlarm, CleanupIsOfTombstone, OutlivesGrant, NoInflight

LEMMA AlarmFiresKeepsInv == ASSUME FamilyInv, AlarmFires PROVE FamilyInv'
  <1>1. StoredInv /\ now \in Nat /\ now' = now /\ now \in 0..MaxNow
    BY FamilyInvSplits, FamilyConstants DEF AlarmFires
  <1>2. CASE StartCleanup
    <2>1. alarm' \in Nat /\ alarm' # None
      BY <1>1, <1>2, AfterIsTime, FamilyConstants DEF StartCleanup
    <2>2. job' \in JobType /\ job'.running
      BY <1>1, <1>2 DEF StartCleanup, StoredInv, JobType
    <2>3. StoredInv'
      BY <1>1, <1>2, <2>1
      DEF StartCleanup, recordVars, StoredInv, CleanupHasAlarm, CleanupIsOfTombstone,
          OutlivesGrant, NoInflight
    <2>4. JobIsOfCleanup'
      BY <1>2, <2>2 DEF StartCleanup, JobIsOfCleanup
    <2>5. QED
      BY <1>1, <2>2, <2>3, <2>4, FamilyInvSplitsNext
  <1>3. CASE FamilyAlarm
    <2>1. Idle /\ job' = job
      BY <1>3 DEF AlarmFires, AlarmDue, FamilyAlarm
    <2>2. CASE alarm' = expiresAt /\ UNCHANGED <<recordVars, cleanup>>
      <3>1. StoredInv'
        BY <1>1, <1>3, <2>2
        DEF FamilyAlarm, recordVars, StoredInv, CleanupHasAlarm, CleanupIsOfTombstone,
            OutlivesGrant, NoInflight
      <3>2. QED
        BY <1>1, <2>1, <3>1, HandlerKeepsJob
    <2>3. CASE DeleteAll /\ alarm' = None
      BY <1>1, <2>1, <2>3, DeleteAllIsSound, HandlerKeepsJob
    <2>4. QED
      BY <1>3, <2>2, <2>3 DEF FamilyAlarm
  <1>4. QED
    BY <1>2, <1>3 DEF AlarmFires

LEMMA JobAnswerKeepsInv ==
  ASSUME FamilyInv, NEW x \in {"grant", "key"}, NEW ack \in BOOLEAN, JobAnswer(x, ack)
  PROVE  FamilyInv'
  <1>1. StoredInv' /\ now' \in 0..MaxNow
    BY UnchangedStored, FamilyInvSplits DEF JobAnswer
  <1>2. /\ job \in JobType /\ x \in job.waiting /\ JobIsOfCleanup
        /\ cleanup' = cleanup
    BY FamilyInvSplits DEF JobAnswer
  <1>3. job.running
    BY <1>2 DEF JobIsOfCleanup, NoJob, JobType
  <1>4. job' \in JobType /\ job'.running
    BY <1>2 DEF JobAnswer, JobType
  <1>5. JobIsOfCleanup'
    BY <1>2, <1>3, <1>4 DEF JobIsOfCleanup
  <1>6. QED
    BY <1>1, <1>4, <1>5, FamilyInvSplitsNext

LEMMA JobFinishKeepsInv == ASSUME FamilyInv, JobFinish PROVE FamilyInv'
  <1>1. /\ StoredInv /\ now' \in 0..MaxNow
        /\ job' = NoJob /\ job' \in JobType /\ ~job'.running
        /\ cleanup # {} /\ status = "revoked" /\ alarm \in Nat /\ alarm # None
    BY FamilyInvSplits, FamilyConstructors, FamilyConstants
    DEF JobFinish, JobIsOfCleanup, StoredInv, CleanupIsOfTombstone, CleanupHasAlarm
  <1>2. JobIsOfCleanup'
    BY <1>1 DEF JobIsOfCleanup, NoJob
  <1>3. ASSUME cleanup' = RemainingAfter(job.acked), UNCHANGED <<recordVars, alarm>>
        PROVE  StoredInv'
    BY <1>1, <1>3
    DEF RemainingAfter, recordVars, StoredInv, CleanupHasAlarm, CleanupIsOfTombstone,
        OutlivesGrant, NoInflight
  <1>4. ASSUME DeleteAll, UNCHANGED alarm
        PROVE  StoredInv'
    BY <1>1, <1>4, DeleteAllIsSound
  <1>5. ASSUME cleanup' = {}, alarm' = expiresAt, UNCHANGED recordVars
        PROVE  StoredInv'
    BY <1>1, <1>5
    DEF recordVars, StoredInv, CleanupHasAlarm, CleanupIsOfTombstone, OutlivesGrant, NoInflight
  <1>6. QED
    BY <1>1, <1>2, <1>3, <1>4, <1>5, FamilyInvSplitsNext DEF JobFinish

LEMMA FamilyCrashKeepsInv == ASSUME FamilyInv, FamilyCrash PROVE FamilyInv'
  <1>1. StoredInv' /\ now' \in 0..MaxNow
    BY UnchangedStored, FamilyInvSplits DEF FamilyCrash
  <1>2. job' = NoJob /\ NoJob \in JobType /\ ~NoJob.running
    BY FamilyConstructors DEF FamilyCrash
  <1>3. JobIsOfCleanup'
    BY <1>2 DEF JobIsOfCleanup, NoJob
  <1>4. QED
    BY <1>1, <1>2, <1>3, FamilyInvSplitsNext

LEMMA TickKeepsInv == ASSUME FamilyInv, Tick PROVE FamilyInv'
  <1>1. /\ UNCHANGED <<recordVars, cleanup, alarm>> /\ job' = job
        /\ now' = now + 1 /\ now < MaxNow
    BY DEF Tick, familyVars
  <1>2. StoredInv' /\ job' \in JobType
    BY <1>1, UnchangedStored, FamilyInvSplits
  <1>3. now' \in 0..MaxNow
    BY <1>1, FamilyInvSplits, FamilyConstants
  <1>4. JobIsOfCleanup'
    BY <1>1, FamilyInvSplits DEF JobIsOfCleanup, NoJob
  <1>5. QED
    BY <1>2, <1>3, <1>4, FamilyInvSplitsNext

LEMMA FamilyInvStep == FamilyInv /\ [FamilyNext]_<<now, familyVars>> => FamilyInv'
  <1> SUFFICES ASSUME FamilyInv, [FamilyNext]_<<now, familyVars>>
               PROVE  FamilyInv'
    OBVIOUS
  <1>1. CASE UNCHANGED <<now, familyVars>>
    <2>1. UNCHANGED <<recordVars, cleanup, alarm>> /\ job' = job /\ now' = now
      BY <1>1 DEF familyVars
    <2>2. StoredInv' /\ now' \in 0..MaxNow /\ job' \in JobType
      BY <2>1, UnchangedStored, FamilyInvSplits
    <2>3. JobIsOfCleanup'
      BY <2>1, FamilyInvSplits DEF JobIsOfCleanup, NoJob
    <2>4. QED
      BY <2>2, <2>3, FamilyInvSplitsNext
  <1>2. CASE FamilyNext
    BY <1>2, InitializeKeepsInv, BeginKeepsInv, CommitKeepsInv, AbortKeepsInv, StatusKeepsInv,
       RevokeKeepsInv, SupersedeKeepsInv, AlarmFiresKeepsInv, JobAnswerKeepsInv,
       JobFinishKeepsInv, FamilyCrashKeepsInv, TickKeepsInv
    DEF FamilyNext
  <1>3. QED
    BY <1>1, <1>2

\* Every state the object can be in satisfies the strengthened invariant.
THEOREM FamilyInvariant == FamilySpec => []FamilyInv
  <1>1. QED
    BY FamilyInvInit, FamilyInvStep, PTL DEF FamilySpec

\* The object's values keep their types for any number of exchanges.
THEOREM FamilyTypeCorrect == FamilySpec => []FamilyTypeOK
  <1>1. FamilyInv => FamilyTypeOK
    BY DEF FamilyInv
  <1>2. QED
    BY <1>1, FamilyInvariant, PTL

\* tombstoneTokenFamily and processCleanup: an intent always has an alarm.
THEOREM CleanupStaysArmed == FamilySpec => []CleanupHasAlarm
  <1>1. FamilyInv => CleanupHasAlarm
    BY DEF FamilyInv
  <1>2. QED
    BY <1>1, FamilyInvariant, PTL

-----------------------------------------------------------------------------
(* What a step may never do *)

\* Only an expired family is ever forgotten, and it outlives its grant.
LEMMA TombstoneStays ==
  ASSUME FamilyInv, FamilyNext, status = "revoked"
  PROVE  status' = "revoked" \/ now >= GrantExpiry
  <1>1. /\ StoredInv /\ now \in Nat /\ expiresAt \in Nat /\ expiresAt >= GrantExpiry
        /\ GrantExpiry \in Nat
    BY FamilyInvSplits, FamilyConstants DEF StoredInv, OutlivesGrant
  <1>2. ASSUME NEW c \in Credential, NEW expiry \in FamilyExpiries, NEW reply,
               Initialize(c, expiry, reply)
        PROVE  status' = "revoked"
    BY <1>2 DEF Initialize, recordVars
  <1>3. ASSUME NEW r \in Request, NEW c \in Credential, NEW reply,
               Begin(r, c, reply) \/ Commit(r, c, reply)
        PROVE  status' = "revoked"
    BY <1>3 DEF Begin, Startable, Commit, HoldsLease, recordVars
  <1>4. CASE (\E r : Abort(r)) \/ (\E reply : Status(reply)) \/ Revoke \/ Supersede
    BY <1>4 DEF Abort, HoldsLease, Status, Revoke, Supersede, Tombstone, recordVars
  <1>5. CASE AlarmFires
    BY <1>1, <1>5 DEF AlarmFires, StartCleanup, FamilyAlarm, Expired, recordVars
  <1>6. CASE JobFinish
    BY <1>1, <1>6 DEF JobFinish, Expired, recordVars
  <1>7. CASE (\E x, ack : JobAnswer(x, ack)) \/ FamilyCrash \/ Tick
    BY <1>7 DEF JobAnswer, FamilyCrash, Tick, familyVars, recordVars
  <1>8. QED
    BY <1>2, <1>3, <1>4, <1>5, <1>6, <1>7 DEF FamilyNext

\* A tombstone is never undone, nor forgotten before the grant has expired.
THEOREM TombstoneStaysUntilExpiry == FamilySpec => RevokedUntilExpiry
  <1>1. FamilyInv /\ [FamilyNext]_<<now, familyVars>>
        => [status = "revoked" => status' = "revoked" \/ now >= GrantExpiry]_<<now, familyVars>>
    BY TombstoneStays
  <1>2. QED
    BY <1>1, FamilyInvariant, PTL DEF FamilySpec, RevokedUntilExpiry

\* A handler only ever adds to the intent; alarm() removes what was acknowledged.
LEMMA CleanupShrinksByProof ==
  ASSUME FamilyInv, FamilyNext
  PROVE  cleanup \ cleanup' \subseteq job.acked
  <1>1. Tombstone => cleanup \subseteq cleanup'
    BY DEF Tombstone
  <1>2. ASSUME NEW r \in Request, NEW c \in Credential, NEW reply, Begin(r, c, reply)
        PROVE  cleanup \subseteq cleanup'
    BY <1>1, <1>2 DEF Begin, ReserveLease
  <1>3. CASE (\E reply : Status(reply)) \/ Revoke
    BY <1>1, <1>3 DEF Status, Revoke
  <1>4. CASE Supersede
    <2>1. status = "none" => cleanup = {}
      BY FamilyInvSplits DEF StoredInv, CleanupIsOfTombstone
    <2>2. QED
      BY <1>1, <1>4, <2>1 DEF Supersede
  <1>5. CASE AlarmFires
    BY <1>5 DEF AlarmFires, StartCleanup, FamilyAlarm
  <1>6. CASE JobFinish
    BY <1>6 DEF JobFinish, RemainingAfter
  <1>7. CASE \/ \E r, c, reply : Initialize(c, r, reply) \/ Commit(r, c, reply) \/ Abort(r)
             \/ \E x, ack : JobAnswer(x, ack)
             \/ FamilyCrash \/ Tick
    BY <1>7 DEF Initialize, Commit, Abort, JobAnswer, FamilyCrash, Tick, familyVars
  <1>8. QED
    BY <1>2, <1>3, <1>4, <1>5, <1>6, <1>7 DEF FamilyNext

\* processCleanup closes a revocation only on its authority's acknowledgement.
THEOREM CleanupStaysProven == FamilySpec => CleanupIsProven
  <1>1. FamilyInv /\ [FamilyNext]_<<now, familyVars>>
        => [cleanup \ cleanup' \subseteq job.acked]_<<now, familyVars>>
    BY CleanupShrinksByProof
  <1>2. QED
    BY <1>1, FamilyInvariant, PTL DEF FamilySpec, CleanupIsProven
=============================================================================
