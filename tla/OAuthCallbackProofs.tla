------------------------- MODULE OAuthCallbackProofs -------------------------
(***************************************************************************)
(* Proofs about the login callbacks of one authorization state and the     *)
(* store, authority and provider they call, for any number of callbacks,   *)
(* any prior grants and any lifetimes.                                     *)
(***************************************************************************)
EXTENDS OAuthCallback, OAuthStateStoreProofs

(***************************************************************************)
(* The strengthening that is inductive.                                    *)
(*                                                                         *)
(* At risk is an attempt that holds a key or may still be given one: its   *)
(* POST is on its way or about to be sent.  A tombstone ends the risk.     *)
(***************************************************************************)

Unsent == {"start", "leased", "armed"}
Ungranted == {"start", "leased", "armed", "sent", "provisioned", "listed"}
Uncommitted == Ungranted \cup {"reconcile"}
Keyed == {"provisioned", "listed", "commit1", "commit2", "won", "replaced"}
Granted == {"commit1", "commit2", "won", "replaced"}

AtRisk(h) == auth[h] # "tombstoned" /\ (auth[h] = "active" \/ h \in posts \/ pc[h] = "armed")

\* A lease that is gone without a commit: it never comes back.
Superseded(h) == h \in minted /\ lease.holder # h /\ winner # h

\* The authority answers a correlation once, and not before it is asked.
PostsAreFresh ==
  \A h \in Callback :
    /\ pc[h] \in Unsent => auth[h] # "active" /\ h \notin posts
    /\ h \in posts => auth[h] # "active"
    /\ pc[h] = "release_clean" => ~AtRisk(h)

\* What counts as a proof of revocation is one.
ProofsAreTombstones ==
  /\ \A h \in Callback : \A c \in proven[h] : auth[c] = "tombstoned"
  /\ job.kind = "reconcile" => \A c \in job.acked : c \in Callback => auth[c] = "tombstoned"

\* An attempt at risk is the record's, the winner, or past the horizon.
Watched(h) ==
  \/ status = "pending" /\ h \in AttemptsToReconcile
  \/ winner = h
  \/ status = "none" /\ winner = None /\ HorizonPassed

RiskIsTracked == \A h \in Callback : AtRisk(h) => Watched(h)

OneAtRisk == \A h, k \in Callback : AtRisk(h) /\ AtRisk(k) => h = k

DeadlineIsLate == status # "none" => expiresAt >= StateTTL

OpenedFirst == \A h \in Callback : pc[h] # "start" => opened

KeyInv ==
  /\ PostsAreFresh /\ ProofsAreTombstones
  /\ RiskIsTracked /\ OneAtRisk
  /\ DeadlineIsLate /\ OpenedFirst

\* Only attempts whose lease is gone are revoked by others.
TodoIsSuperseded == \A h \in Callback : \A c \in todo[h] : Superseded(c)

KeyIsKept ==
  \A h \in Callback :
    pc[h] \in Keyed \/ h \in codes => auth[h] = "active" \/ Superseded(h)

WinnerHasCommitted ==
  \A h \in Callback :
    /\ pc[h] \in Uncommitted => winner # h /\ h \notin lateCommit
    /\ pc[h] \in {"won", "replaced"} \/ h \in codes => winner = h
    /\ h \in codes => pc[h] = "done"

WinInv == TodoIsSuperseded /\ KeyIsKept /\ WinnerHasCommitted

\* A listing holds grants that were written before, never the own one, and the
\* outbox holds some of the winner's listing.
ListedIsWritten ==
  /\ \A h \in Callback : h \notin listed[h] /\ \A g \in listed[h] : grants[g] # "absent"
  /\ winner \notin outbox.grants /\ \A g \in outbox.grants : grants[g] # "absent"
  /\ job.kind = "replace" =>
       job.waiting \subseteq outbox.grants /\ \A g \in job.acked : grants[g] = "revoked"

GrantIsKept ==
  \A h \in Callback :
    /\ pc[h] \in Ungranted => grants[h] = "absent"
    /\ pc[h] \in Granted \/ h \in codes => grants[h] = "live" \/ winner \notin {None, h}

GrantInv == ListedIsWritten /\ GrantIsKept /\ PriorGrantsWaitForCommit

CallbackInv == TypeOK /\ StoreInv /\ KeyInv /\ WinInv /\ GrantInv

-----------------------------------------------------------------------------
(* Types *)

CallbackTypeOK ==
  /\ pc \in [Callback -> PC]
  /\ todo \in [Callback -> SUBSET Callback]
  /\ proven \in [Callback -> SUBSET Callback]
  /\ listed \in [Callback -> SUBSET Grant]
  /\ codes \in SUBSET Callback
  /\ lateCommit \in SUBSET Callback
  /\ auth \in [Callback -> {"unused", "active", "tombstoned"}]
  /\ posts \in SUBSET Callback
  /\ grants \in [Grant -> {"absent", "live", "revoked"}]

LEMMA TypeOKSplits ==
  /\ TypeOK <=> StoreTypeOK /\ CallbackTypeOK
  /\ TypeOK' <=> StoreTypeOK' /\ CallbackTypeOK'
  BY DEF TypeOK, CallbackTypeOK

LEMMA CallbackConstants ==
  /\ Callback \subseteq Grant /\ PriorGrant \subseteq Grant
  /\ PriorGrant \cap Callback = {}
  /\ None \notin Callback /\ None \notin Grant
  /\ StateTTL \in Nat /\ ReconcileHorizon \in Nat
  BY CallbackAssumption, ConstantFacts

\* Whatever the system does is an operation of the store or none of its business.
LEMMA StepIsStoreStep ==
  ASSUME CallbackTypeOK, [Next]_vars
  PROVE  [StoreNext]_<<now, storeVars>>
  <1>1. ASSUME NEW h \in Callback
        PROVE  proven[h] \in SUBSET Callback /\ Queued(listed[h]) \subseteq SUBSET Grant
    BY DEF CallbackTypeOK, Queued
  <1>2. ASSUME NEW h \in Callback, CallbackStep(h)
        PROVE  [StoreNext]_<<now, storeVars>>
    <2>1. CASE ReserveState(h)
      BY <2>1 DEF ReserveState, StoreNext, ReserveReply
    <2>2. CASE ArmAttempt(h)
      BY <1>1, <2>2 DEF ArmAttempt, StoreNext, ArmReply
    <2>3. CASE CommitState(h)
      BY <1>1, <2>3 DEF CommitState, StoreNext, CommitReply
    <2>4. CASE ReleaseState(h)
      BY <2>4 DEF ReleaseState, StoreNext
    <2>5. CASE \/ RefuseLocally(h) \/ (\E c \in Callback : ReconcileEarlier(h, c))
               \/ SendProvision(h) \/ ProvisionTimeout(h) \/ ReconcileOwn(h) \/ ListGrants(h)
               \/ CompleteAuthorization(h) \/ AbortAttempt(h) \/ ReplaceInline(h)
               \/ AnswerWithCode(h)
      BY <2>5
      DEF RefuseLocally, ReconcileEarlier, SendProvision, ProvisionTimeout, ReconcileOwn,
          ListGrants, CompleteAuthorization, AbortAttempt, ReplaceInline, AnswerWithCode
    <2>6. QED
      BY <1>2, <2>1, <2>2, <2>3, <2>4, <2>5 DEF CallbackStep
  <1>3. ASSUME NEW h \in Callback, LateCommit(h)
        PROVE  [StoreNext]_<<now, storeVars>>
    BY <1>1, <1>3 DEF LateCommit, StoreNext, CommitReply
  <1>4. ASSUME NEW h \in Callback, AuthorityStep(h)
        PROVE  [StoreNext]_<<now, storeVars>>
    BY <1>4 DEF AuthorityStep, Mint, RejectProvision, FailProvision
  <1>5. CASE JobCall
    BY <1>5 DEF JobCall, AlarmRevokes, AlarmSupersedes, StoreNext
  <1>6. CASE StoreStep
    BY <1>6 DEF StoreStep, StoreAlone, StoreNext
  <1>7. CASE UNCHANGED vars
    BY <1>7 DEF vars
  <1>8. QED
    BY <1>2, <1>3, <1>4, <1>5, <1>6, <1>7 DEF Next
LEMMA CallbackTypeStep ==
  ASSUME CallbackTypeOK, StoreTypeOK', [Next]_vars
  PROVE  CallbackTypeOK'
  <1>1. unreconciled' \in SUBSET Callback
    BY DEF StoreTypeOK
  <1>2. ASSUME NEW h \in Callback, CallbackStep(h)
        PROVE  CallbackTypeOK'
    <2>1. CASE ReserveState(h) \/ RefuseLocally(h) \/ \E c \in Callback : ReconcileEarlier(h, c)
      BY <1>1, <2>1
      DEF CallbackTypeOK, ReserveState, RefuseLocally, ReconcileEarlier, Goto, Tombstone, PC,
          authorityVars
    <2>2. CASE ArmAttempt(h) \/ SendProvision(h) \/ ProvisionTimeout(h) \/ ReconcileOwn(h)
      BY <2>2
      DEF CallbackTypeOK, ArmAttempt, SendProvision, ProvisionTimeout, ReconcileOwn, Goto,
          Tombstone, PC, authorityVars
    <2>3. CASE ListGrants(h) \/ CompleteAuthorization(h)
      BY <2>3
      DEF CallbackTypeOK, ListGrants, CompleteAuthorization, Goto, PC, authorityVars
    <2>4. CASE CommitState(h) \/ AnswerWithCode(h) \/ ReleaseState(h)
      BY <2>4
      DEF CallbackTypeOK, CommitState, AfterLostRound, AnswerWithCode, ReleaseState, Goto, PC,
          authorityVars
    <2>5. CASE AbortAttempt(h) \/ ReplaceInline(h)
      BY <2>5
      DEF CallbackTypeOK, AbortAttempt, ReplaceInline, Goto, Tombstone, PC, authorityVars
    <2>6. QED
      BY <1>2, <2>1, <2>2, <2>3, <2>4, <2>5 DEF CallbackStep
  <1>3. ASSUME NEW h \in Callback, LateCommit(h) \/ AuthorityStep(h)
        PROVE  CallbackTypeOK'
    BY <1>3
    DEF CallbackTypeOK, LateCommit, AuthorityStep, Mint, RejectProvision, FailProvision,
        WaiterGoes, PC, authorityVars
  <1>4. CASE JobCall
    BY <1>4
    DEF CallbackTypeOK, JobCall, AlarmRevokes, AlarmSupersedes, Tombstone, callbackVars,
        authorityVars
  <1>5. CASE StoreStep \/ UNCHANGED vars
    BY <1>5 DEF CallbackTypeOK, StoreStep, vars, callbackVars, authorityVars
  <1>6. QED
    BY <1>2, <1>3, <1>4, <1>5 DEF Next
-----------------------------------------------------------------------------
(* What the store's operations do to an attempt it watches *)

LEMMA StoreTypes ==
  ASSUME StoreTypeOK
  PROVE  /\ now \in Nat /\ expiresAt \in Nat /\ lease \in LeaseType
         /\ lease.armed \in BOOLEAN /\ lease.holder \in Callback \cup {None}
         /\ unreconciled \in SUBSET Callback /\ minted \in SUBSET Callback
         /\ winner \in Callback \cup {None} /\ outbox.grants \in SUBSET Grant
         /\ outbox.notAfter \in Nat
         /\ job.waiting \in SUBSET (Callback \cup Grant)
         /\ job.acked \in SUBSET (Callback \cup Grant)
  BY DEF StoreTypeOK, LeaseType

LEMMA SupersededStays ==
  ASSUME StoreInv, [StoreNext]_<<now, storeVars>>, NEW c \in Callback, Superseded(c)
  PROVE  Superseded(c)'
  <1>1. /\ c \in minted /\ lease.holder # c /\ winner # c /\ NoLease.holder = None /\ None # c
        /\ \A h \in Callback, armed \in BOOLEAN : NewLease(h, armed).holder = h
    BY LeaseFacts, ConstantFacts DEF Superseded, StoreInv, StoreTypeOK
  <1>2. CASE PutState \/ StoreCrash \/ Tick \/ UNCHANGED <<now, storeVars>>
             \/ \E x \in Callback \cup Grant, ack \in BOOLEAN : JobAnswer(x, ack)
    BY <1>1, <1>2
    DEF Superseded, PutState, StoreCrash, Tick, JobAnswer, storeVars, storedVars, historyVars, rec
  <1>3. ASSUME NEW h \in Callback, NEW reply, Reserve(h, reply)
        PROVE  Superseded(c)'
    BY <1>1, <1>3
    DEF Superseded, Reserve, RefuseReserve, DropLease, DeleteAll, GrantLease, rec
  <1>4. ASSUME NEW h \in Callback, NEW P, NEW reply, Arm(h, P, reply)
        PROVE  Superseded(c)'
    BY <1>1, <1>4 DEF Superseded, Arm, CanArm, HeldBy, historyVars
  <1>5. ASSUME NEW h \in Callback, NEW P, NEW reply, Commit(h, P, reply)
        PROVE  Superseded(c)'
    BY <1>1, <1>5 DEF Superseded, Commit, CanCommit, Consume, HeldBy, storedVars, rec
  <1>6. ASSUME NEW h \in Callback, NEW outcome, Release(h, outcome)
        PROVE  Superseded(c)'
    BY <1>1, <1>6 DEF Superseded, Release, DropLease, storedVars, historyVars, rec
  <1>7. CASE AlarmFires
    BY <1>1, <1>7
    DEF Superseded, AlarmFires, StartReplacement, StartReconcile, FinishReplacement, DropLease,
        DeleteAll, historyVars, rec
  <1>8. CASE JobFinish
    BY <1>1, <1>8 DEF Superseded, JobFinish, FinishReplacement, DeleteAll, historyVars, rec
  <1>9. QED
    BY <1>2, <1>3, <1>4, <1>5, <1>6, <1>7, <1>8 DEF StoreNext

LEMMA DeadlineStays ==
  ASSUME StoreInv, [StoreNext]_<<now, storeVars>>, DeadlineIsLate
  PROVE  DeadlineIsLate'
  <1>1. now \in Nat /\ StateTTL \in Nat
    BY CallbackConstants DEF StoreInv, StoreTypeOK
  <1> DEFINE OneOfThree ==
               \/ status' = "none"
               \/ status = "none" /\ expiresAt' = now + StateTTL
               \/ expiresAt' = expiresAt /\ (status = "none" => status' = "none")
  <1>2. CASE PutState \/ StoreCrash \/ Tick \/ UNCHANGED <<now, storeVars>>
             \/ \E x \in Callback \cup Grant, ack \in BOOLEAN : JobAnswer(x, ack)
    <2>1. OneOfThree
      BY <1>2 DEF PutState, StoreCrash, Tick, JobAnswer, storeVars, storedVars, rec
    <2>2. QED
      BY <1>1, <2>1 DEF DeadlineIsLate
  <1>3. ASSUME NEW h \in Callback, NEW reply, Reserve(h, reply)
        PROVE  OneOfThree
    BY <1>3 DEF Reserve, RefuseReserve, GrantLease, DeleteAll, DropLease, Pending, rec
  <1>4. ASSUME NEW h \in Callback, NEW P, NEW reply, Arm(h, P, reply)
        PROVE  OneOfThree
    BY <1>4 DEF Arm
  <1>5. ASSUME NEW h \in Callback, NEW P, NEW reply, Commit(h, P, reply)
        PROVE  OneOfThree
    BY <1>5 DEF Commit, CanCommit, Consume, Pending, storedVars, rec
  <1>6. ASSUME NEW h \in Callback, NEW outcome, Release(h, outcome)
        PROVE  OneOfThree
    BY <1>6 DEF Release, DropLease, storedVars, rec
  <1>7. CASE AlarmFires \/ JobFinish
    <2>1. OneOfThree
      BY <1>7 DEF AlarmFires, StartReplacement, StartReconcile, JobFinish, FinishReplacement,
                  DropLease, DeleteAll, rec
    <2>2. QED
      BY <1>1, <2>1 DEF DeadlineIsLate
  <1>8. OneOfThree => DeadlineIsLate'
    BY <1>1 DEF DeadlineIsLate
  <1> HIDE DEF OneOfThree
  <1>9. QED
    BY <1>2, <1>3, <1>4, <1>5, <1>6, <1>7, <1>8 DEF StoreNext

\* A state once opened stays so.
LEMMA OpenStays == [StoreNext]_<<now, storeVars>> => (opened => opened')
  BY DEF StoreNext, PutState, Reserve, Arm, Commit, Release, AlarmFires, JobAnswer, JobFinish,
         StoreCrash, Tick, storeVars, historyVars

LEMMA WatchedFrame ==
  ASSUME StoreInv, NEW h \in Callback, Watched(h), UNCHANGED <<rec, winner>>,
         now' = now \/ now' = now + 1
  PROVE  Watched(h)'
  <1>1. now \in Nat
    BY DEF StoreInv, StoreTypeOK
  <1>2. QED
    BY <1>1, CallbackConstants DEF Watched, HorizonPassed, AttemptsToReconcile, rec

\* A dropped lease leaves its armed attempt among those to reconcile.
LEMMA WatchedDropped ==
  ASSUME StoreInv, NEW h \in Callback, Watched(h), DropLease,
         UNCHANGED <<now, status, winner>>
  PROVE  Watched(h)'
  <1>1. NoLease.armed = FALSE
    BY LeaseFacts
  <1>2. AttemptsToReconcile' = AttemptsToReconcile
    BY <1>1 DEF DropLease, AttemptsToReconcile
  <1>3. QED
    BY <1>2 DEF Watched, HorizonPassed

LEMMA ReserveWatches ==
  ASSUME StoreInv, NEW h \in Callback, Watched(h), NEW k \in Callback, NEW reply,
         Reserve(k, reply)
  PROVE  Watched(h)'
  <1>1. UNCHANGED <<now, winner>> /\ (status # "none" => Readable)
    BY DEF Reserve, StoreInv, StoredRecordIsReadable
  <1>2. CASE UNCHANGED <<rec, outbox>>
    BY <1>1, <1>2, WatchedFrame
  <1>3. CASE status = "pending" /\ AttemptsToReconcile = {} /\ DeleteAll
    <2>1. winner = None
      BY <1>3 DEF StoreInv, WinnerEndsPending
    <2>2. QED
      BY <1>3, <2>1, CallbackConstants DEF Watched
  <1>4. CASE DropLease /\ status' = status
    BY <1>1, <1>4, WatchedDropped
  <1>5. CASE GrantLease(k)
    <2>1. NewLease(k, FALSE).armed = FALSE
      BY LeaseFacts DEF StoreInv, StoreTypeOK
    <2>2. AttemptsToReconcile' = AttemptsToReconcile /\ status' = status
      BY <1>5, <2>1 DEF GrantLease, AttemptsToReconcile
    <2>3. QED
      BY <1>1, <2>2 DEF Watched, HorizonPassed
  <1>6. QED
    BY <1>1, <1>2, <1>3, <1>4, <1>5 DEF Reserve, RefuseReserve, Pending

\* What the holder proved revoked, and nothing else, leaves the record.
LEMMA ArmWatches ==
  ASSUME StoreInv, NEW h \in Callback, Watched(h), NEW k \in Callback, NEW P, h \notin P,
         NEW reply, Arm(k, P, reply)
  PROVE  Watched(h)'
  <1>1. UNCHANGED <<now, status, winner>>
    BY DEF Arm, historyVars
  <1>2. CASE UNCHANGED <<lease, unreconciled>>
    BY <1>1, <1>2 DEF Watched, HorizonPassed, AttemptsToReconcile
  <1>3. CASE lease' = lease /\ unreconciled' = unreconciled \ P
    BY <1>1, <1>3 DEF Watched, HorizonPassed, AttemptsToReconcile
  <1>4. CASE /\ HeldBy(k) /\ unreconciled \ P = {} /\ unreconciled' = {}
             /\ lease' = NewLease(k, TRUE)
    <2>1. NewLease(k, TRUE).armed = TRUE /\ NewLease(k, TRUE).holder = k
      BY LeaseFacts DEF StoreInv, StoreTypeOK
    <2>2. AttemptsToReconcile' = {k} /\ lease.holder = k
      BY <1>4, <2>1 DEF AttemptsToReconcile, HeldBy
    <2>3. h \in AttemptsToReconcile => h = k
      BY <1>4, <2>2 DEF AttemptsToReconcile
    <2>4. QED
      BY <1>1, <2>2, <2>3 DEF Watched, HorizonPassed
  <1>5. QED
    BY <1>2, <1>3, <1>4 DEF Arm, CanArm

LEMMA CommitWatches ==
  ASSUME StoreInv, NEW h \in Callback, Watched(h), NEW k \in Callback, NEW P, NEW reply,
         Commit(k, P, reply)
  PROVE  Watched(h)'
  <1>1. CASE UNCHANGED <<storedVars, winner>>
    BY <1>1, WatchedFrame DEF Commit, storedVars
  <1>2. CASE CanCommit(k) /\ winner' = k
    <2>1. status = "pending" /\ winner = None /\ AttemptsToReconcile = {k}
      BY <1>2
      DEF CanCommit, Pending, HeldBy, AttemptsToReconcile, StoreInv, WinnerEndsPending
    <2>2. h = k
      BY <2>1, CallbackConstants DEF Watched
    <2>3. QED
      BY <1>2, <2>2 DEF Watched
  <1>3. QED
    BY <1>1, <1>2 DEF Commit

\* Only a release that says "clean" lets go of an armed attempt.
LEMMA ReleaseWatches ==
  ASSUME StoreInv, NEW h \in Callback, Watched(h), NEW k \in Callback, NEW outcome,
         Release(k, outcome), outcome = "unknown" \/ h # k
  PROVE  Watched(h)'
  <1>1. UNCHANGED <<now, winner>>
    BY DEF Release, historyVars
  <1>2. CASE UNCHANGED rec
    BY <1>1, <1>2, WatchedFrame
  <1>3. CASE DropLease /\ status' = status
    BY <1>1, <1>3, WatchedDropped
  <1>4. CASE HeldBy(k) /\ h # k /\ lease' = NoLease /\ UNCHANGED <<status, unreconciled>>
    <2>1. h \in AttemptsToReconcile => h \in AttemptsToReconcile'
      BY <1>4 DEF HeldBy, AttemptsToReconcile
    <2>2. QED
      BY <1>1, <1>4, <2>1 DEF Watched, HorizonPassed
  <1>5. QED
    BY <1>2, <1>3, <1>4 DEF Release, storedVars

LEMMA AlarmWatches ==
  ASSUME StoreInv, DeadlineIsLate, NEW h \in Callback, Watched(h), AlarmFires
  PROVE  Watched(h)'
  <1>1. UNCHANGED <<now, winner>> /\ (status # "none" => Readable)
    BY DEF AlarmFires, historyVars, StoreInv, StoredRecordIsReadable
  <1>2. CASE UNCHANGED rec
    BY <1>1, <1>2, WatchedFrame
  <1>3. CASE NothingLeft /\ DeleteAll
    <2>1. status' = "none"
      BY <1>3 DEF DeleteAll
    <2>2. CASE status = "pending"
      <3>1. /\ winner = None /\ h \in AttemptsToReconcile
            /\ now \in Nat /\ expiresAt \in Nat /\ expiresAt >= StateTTL
        BY <2>2, CallbackConstants
        DEF Watched, StoreInv, StoreTypeOK, WinnerEndsPending, DeadlineIsLate
      <3>2. now >= expiresAt + ReconcileHorizon
        BY <1>1, <1>3, <2>2, <3>1 DEF NothingLeft
      <3>3. now >= StateTTL + ReconcileHorizon
        BY <3>1, <3>2, CallbackConstants
      <3>4. QED
        BY <1>1, <2>1, <3>1, <3>3 DEF Watched, HorizonPassed
    <2>3. CASE status # "pending"
      BY <1>1, <2>1, <2>3 DEF Watched, HorizonPassed
    <2>4. QED
      BY <2>2, <2>3
  <1>4. CASE DropLease /\ status' = status
    BY <1>1, <1>4, WatchedDropped
  <1>5. QED
    BY <1>2, <1>3, <1>4
    DEF AlarmFires, StartReplacement, StartReconcile, FinishReplacement, rec

\* An alarm forgets only the attempts the authority acknowledged.
LEMMA JobFinishWatches ==
  ASSUME StoreInv, NEW h \in Callback, Watched(h), h \notin job.acked \/ job.kind # "reconcile",
         JobFinish
  PROVE  Watched(h)'
  <1>1. UNCHANGED <<now, winner>>
    BY DEF JobFinish, historyVars
  <1>2. CASE UNCHANGED rec
    BY <1>1, <1>2, WatchedFrame
  <1>3. CASE job.kind = "reconcile" /\ h \notin job.acked
    <2>1. status = "pending" /\ winner = None /\ lease = NoLease /\ NoLease.armed = FALSE
      BY <1>3, LeaseFacts DEF StoreInv, JobMatchesRecord, WinnerEndsPending
    <2>2. AttemptsToReconcile = unreconciled /\ h \in unreconciled
      BY <2>1, CallbackConstants DEF AttemptsToReconcile, Watched
    <2>3. ~(unreconciled \subseteq job.acked)
      BY <1>3, <2>2
    <2>4. unreconciled' = unreconciled \ job.acked /\ UNCHANGED <<status, lease>>
      BY <1>3, <2>3 DEF JobFinish
    <2>5. QED
      BY <1>3, <2>1, <2>2, <2>4 DEF Watched, AttemptsToReconcile
  <1>4. QED
    BY <1>2, <1>3 DEF JobFinish, FinishReplacement, rec
-----------------------------------------------------------------------------
(* Keys: one step of a request that sends nothing new *)

LEMMA CallbackTypes ==
  ASSUME CallbackTypeOK
  PROVE  /\ pc \in [Callback -> PC]
         /\ auth \in [Callback -> {"unused", "active", "tombstoned"}]
         /\ posts \in SUBSET Callback
         /\ proven \in [Callback -> SUBSET Callback]
         /\ grants \in [Grant -> {"absent", "live", "revoked"}]
  BY DEF CallbackTypeOK

TombstonesStay == \A c \in Callback : auth[c] = "tombstoned" => auth'[c] = "tombstoned"

\* The authority may revoke an attempt, and posts may be answered.
AuthorityCalm ==
  /\ auth' = auth \/ \E c \in Callback : Tombstone(c)
  /\ posts' \subseteq posts

LEMMA CalmKeepsTombstones == CallbackTypeOK /\ AuthorityCalm => TombstonesStay
  BY DEF CallbackTypeOK, AuthorityCalm, Tombstone, TombstonesStay

LEMMA CalmAddsNoRisk ==
  ASSUME CallbackTypeOK, AuthorityCalm, NEW h \in Callback, NEW to, to # "armed",
         pc' = pc \/ pc' = [pc EXCEPT ![h] = to]
  PROVE  \A k \in Callback : AtRisk(k)' => AtRisk(k)
  <1> SUFFICES ASSUME NEW k \in Callback, AtRisk(k)' PROVE AtRisk(k)
    OBVIOUS
  <1>1. /\ auth'[k] # "tombstoned"
        /\ auth'[k] = "active" \/ k \in posts' \/ pc'[k] = "armed"
    BY DEF AtRisk
  <1>2. auth'[k] = auth[k]
    BY <1>1, CallbackTypes DEF AuthorityCalm, Tombstone
  <1>3. pc'[k] = "armed" => pc[k] = "armed"
    BY CallbackTypes
  <1>4. QED
    BY <1>1, <1>2, <1>3 DEF AtRisk, AuthorityCalm

LEMMA CalmStep ==
  ASSUME CallbackTypeOK, StoreInv, KeyInv, [StoreNext]_<<now, storeVars>>, AuthorityCalm,
         NEW h \in Callback, NEW to, pc' = pc \/ pc' = [pc EXCEPT ![h] = to],
         to \notin {"start", "armed"}, to = "leased" => pc[h] = "start",
         pc' = pc \/ pc[h] # "start" \/ opened,
         pc' = pc \/ to # "release_clean" \/ ~AtRisk(h)',
         \A k \in Callback : AtRisk(k)' /\ Watched(k) => Watched(k)',
         ProofsAreTombstones'
  PROVE  KeyInv'
  <1>1. \A k \in Callback : AtRisk(k)' => AtRisk(k)
    BY CalmAddsNoRisk
  <1>2. PostsAreFresh'
    <2> SUFFICES ASSUME NEW k \in Callback
                 PROVE  /\ pc'[k] \in Unsent => auth'[k] # "active" /\ k \notin posts'
                        /\ k \in posts' => auth'[k] # "active"
                        /\ pc'[k] = "release_clean" => ~AtRisk(k)'
      BY DEF PostsAreFresh
    <2>1. /\ pc[k] \in Unsent => auth[k] # "active" /\ k \notin posts
          /\ k \in posts => auth[k] # "active"
          /\ pc[k] = "release_clean" => ~AtRisk(k)
      BY DEF KeyInv, PostsAreFresh
    <2>2. auth'[k] = "active" => auth[k] = "active"
      BY CallbackTypes DEF AuthorityCalm, Tombstone
    <2>3. pc'[k] \in Unsent => pc[k] \in Unsent
      BY CallbackTypes DEF Unsent
    <2>4. pc'[k] = "release_clean" => ~AtRisk(k)'
      <3>1. CASE pc'[k] = pc[k]
        BY <1>1, <2>1, <3>1
      <3>2. CASE pc'[k] # pc[k]
        <4>1. k = h /\ pc' # pc /\ pc'[h] = to
          BY <3>2, CallbackTypes
        <4>2. QED
          BY <4>1
      <3>3. QED
        BY <3>1, <3>2
    <2>5. QED
      BY <2>1, <2>2, <2>3, <2>4 DEF AuthorityCalm
  <1>3. RiskIsTracked' /\ OneAtRisk'
    BY <1>1 DEF KeyInv, RiskIsTracked, OneAtRisk
  <1>4. DeadlineIsLate'
    BY DeadlineStays DEF KeyInv
  <1>5. OpenedFirst'
    <2>1. opened => opened'
      BY OpenStays
    <2>2. \A k \in Callback : pc'[k] # "start" => opened
      BY CallbackTypes DEF KeyInv, OpenedFirst
    <2>3. QED
      BY <2>1, <2>2 DEF OpenedFirst
  <1>6. QED
    BY <1>2, <1>3, <1>4, <1>5 DEF KeyInv
\* Who awaits something of his own leaves the proofs alone.
LEMMA ProofsStay ==
  ASSUME CallbackTypeOK, ProofsAreTombstones, TombstonesStay,
         \/ proven' = proven
         \/ \E h \in Callback, c \in Callback :
              proven' = [proven EXCEPT ![h] = @ \cup {c}] /\ auth'[c] = "tombstoned",
         job' = job \/ job'.acked = {} \/ job'.kind # "reconcile"
  PROVE  ProofsAreTombstones'
  <1>1. \A h \in Callback : \A c \in proven'[h] : c \in Callback /\ auth'[c] = "tombstoned"
    BY CallbackTypes DEF ProofsAreTombstones, TombstonesStay
  <1>2. job'.kind = "reconcile" => \A c \in job'.acked : c \in Callback => auth'[c] = "tombstoned"
    BY DEF ProofsAreTombstones, TombstonesStay
  <1>3. QED
    BY <1>1, <1>2 DEF ProofsAreTombstones

\* A step of a request that leaves the store alone.
LEMMA LocalStep ==
  ASSUME CallbackTypeOK, StoreInv, KeyInv, UNCHANGED <<now, storeVars>>, AuthorityCalm,
         NEW h \in Callback, NEW to, pc' = [pc EXCEPT ![h] = to], pc[h] # "start",
         to \notin {"start", "leased", "armed"},
         to # "release_clean" \/ ~AtRisk(h)',
         \/ proven' = proven
         \/ \E k \in Callback, c \in Callback :
              proven' = [proven EXCEPT ![k] = @ \cup {c}] /\ auth'[c] = "tombstoned"
  PROVE  KeyInv'
  <1>1. UNCHANGED <<rec, winner, job>> /\ now' = now
    BY DEF storeVars, storedVars, historyVars
  <1>2. \A k \in Callback : Watched(k) => Watched(k)'
    BY <1>1, WatchedFrame
  <1>3. ProofsAreTombstones'
    BY <1>1, CalmKeepsTombstones, ProofsStay DEF KeyInv
  <1>4. QED
    BY <1>2, <1>3, CalmStep

LEMMA ReserveKeepsKey ==
  ASSUME CallbackTypeOK, StoreInv, KeyInv, [StoreNext]_<<now, storeVars>>,
         NEW h \in Callback, ReserveState(h)
  PROVE  KeyInv'
  <1>1. /\ pc[h] = "start" /\ opened /\ AuthorityCalm /\ proven' = proven
        /\ pc' = [pc EXCEPT ![h] = "leased"] \/ pc' = [pc EXCEPT ![h] = "done"]
    BY DEF ReserveState, Goto, AuthorityCalm, authorityVars
  <1>2. \/ \E reply : Reserve(h, reply)
        \/ UNCHANGED <<now, storeVars>>
    BY DEF ReserveState
  <1>3. job' = job
    BY <1>2 DEF Reserve, storeVars
  <1>4. \A k \in Callback : Watched(k) => Watched(k)'
    <2>1. CASE \E reply : Reserve(h, reply)
      BY <2>1, ReserveWatches
    <2>2. CASE UNCHANGED <<now, storeVars>>
      BY <2>2, WatchedFrame DEF storeVars, storedVars, historyVars
    <2>3. QED
      BY <1>2, <2>1, <2>2
  <1>5. ProofsAreTombstones'
    BY <1>1, <1>3, CalmKeepsTombstones, ProofsStay DEF KeyInv
  <1>6. PICK to \in {"leased", "done"} : pc' = [pc EXCEPT ![h] = to]
    BY <1>1
  <1>7. QED
    BY <1>1, <1>4, <1>5, <1>6, CalmStep

\* A failed reconciliation releases cleanly: the request has sent nothing.
LEMMA ReconcileEarlierKeepsKey ==
  ASSUME CallbackTypeOK, StoreInv, KeyInv, [StoreNext]_<<now, storeVars>>,
         NEW h \in Callback, NEW c \in Callback, ReconcileEarlier(h, c)
  PROVE  KeyInv'
  <1>1. /\ pc[h] = "leased" /\ auth[h] # "active" /\ h \notin posts
        /\ UNCHANGED <<now, storeVars, posts>> /\ AuthorityCalm
    BY DEF ReconcileEarlier, KeyInv, PostsAreFresh, Unsent, AuthorityCalm
  <1>2. UNCHANGED <<rec, winner, job>> /\ now' = now
    BY <1>1 DEF storeVars, storedVars, historyVars
  <1>3. \A k \in Callback : Watched(k) => Watched(k)'
    BY <1>2, WatchedFrame
  <1>4. CASE /\ Tombstone(c) /\ pc' = pc
             /\ proven' = [proven EXCEPT ![h] = @ \cup {c}]
    <2>1. auth'[c] = "tombstoned"
      BY <1>4, CallbackTypes DEF Tombstone
    <2>2. ProofsAreTombstones'
      BY <1>1, <1>2, <1>4, <2>1, CalmKeepsTombstones, ProofsStay DEF KeyInv
    <2>3. QED
      BY <1>1, <1>3, <1>4, <2>2, CalmStep
  <1>5. CASE proven' = proven /\ pc' = [pc EXCEPT ![h] = "release_clean"]
    <2>1. auth'[h] # "active" /\ h \notin posts' /\ pc'[h] # "armed"
      BY <1>1, <1>5, CallbackTypes DEF AuthorityCalm, Tombstone
    <2>2. ~AtRisk(h)'
      BY <2>1 DEF AtRisk
    <2>3. QED
      BY <1>1, <1>5, <2>2, LocalStep
  <1>6. QED
    BY <1>4, <1>5 DEF ReconcileEarlier, Goto

\* Arming: of all attempts only the one that arms can be at risk afterwards.
LEMMA ArmKeepsKey ==
  ASSUME CallbackTypeOK, StoreInv, KeyInv, [StoreNext]_<<now, storeVars>>,
         NEW h \in Callback, ArmAttempt(h)
  PROVE  KeyInv'
  <1>1. /\ pc[h] = "leased" /\ auth[h] # "active" /\ h \notin posts /\ ~AtRisk(h)
        /\ UNCHANGED <<auth, posts, proven>> /\ AuthorityCalm
    BY DEF ArmAttempt, KeyInv, PostsAreFresh, Unsent, AuthorityCalm, AtRisk, authorityVars
  <1>2. \/ Arm(h, proven[h], "armed") /\ pc' = [pc EXCEPT ![h] = "armed"]
        \/ /\ (\E reply : Arm(h, proven[h], reply)) \/ UNCHANGED <<now, storeVars>>
           /\ pc' = [pc EXCEPT ![h] = "release_clean"]
    BY DEF ArmAttempt, Goto
  <1>3. job' = job
    BY <1>2 DEF Arm, storeVars
  <1>4. ProofsAreTombstones'
    BY <1>1, <1>3, CalmKeepsTombstones, ProofsStay DEF KeyInv
  <1>5. \A k \in Callback : AtRisk(k) => k \notin proven[h]
    BY DEF AtRisk, KeyInv, ProofsAreTombstones
  <1>6. \A k \in Callback : AtRisk(k) => Watched(k)'
    <2> SUFFICES ASSUME NEW k \in Callback, AtRisk(k) PROVE Watched(k)'
      OBVIOUS
    <2>1. Watched(k) /\ k \notin proven[h]
      BY <1>5 DEF KeyInv, RiskIsTracked
    <2>2. CASE \E reply : Arm(h, proven[h], reply)
      BY <2>1, <2>2, ArmWatches
    <2>3. CASE UNCHANGED <<now, storeVars>>
      BY <2>1, <2>3, WatchedFrame DEF storeVars, storedVars, historyVars
    <2>4. QED
      BY <1>2, <2>2, <2>3
  <1>7. CASE pc' = [pc EXCEPT ![h] = "release_clean"]
    <2>1. ~AtRisk(h)'
      BY <1>1, <1>7, CallbackTypes DEF AtRisk
    <2>2. \A k \in Callback : AtRisk(k)' => AtRisk(k)
      BY <1>1, <1>7, CalmAddsNoRisk
    <2>3. QED
      BY <1>1, <1>4, <1>6, <1>7, <2>1, <2>2, CalmStep
  <1>8. CASE Arm(h, proven[h], "armed") /\ pc' = [pc EXCEPT ![h] = "armed"]
    <2>1. /\ status = "pending" /\ HeldBy(h) /\ unreconciled \subseteq proven[h]
          /\ lease' = NewLease(h, TRUE) /\ status' = status /\ winner = None
      BY <1>8 DEF Arm, CanArm, Pending, StoreInv, WinnerEndsPending
    <2>2. \A k \in Callback : ~AtRisk(k)
      <3> SUFFICES ASSUME NEW k \in Callback, AtRisk(k) PROVE FALSE
        OBVIOUS
      <3>1. k \in AttemptsToReconcile
        BY <2>1, CallbackConstants DEF KeyInv, RiskIsTracked, Watched
      <3>2. k # h
        BY <1>1
      <3>3. k \in unreconciled
        BY <2>1, <3>1, <3>2 DEF AttemptsToReconcile, HeldBy
      <3>4. QED
        BY <1>5, <2>1, <3>3
    <2>3. \A k \in Callback : AtRisk(k)' => k = h
      BY <1>1, <1>8, <2>2, CallbackTypes DEF AtRisk
    <2>4. Watched(h)'
      <3>1. NewLease(h, TRUE).armed = TRUE /\ NewLease(h, TRUE).holder = h
        BY LeaseFacts DEF StoreInv, StoreTypeOK
      <3>2. QED
        BY <2>1, <3>1 DEF Watched, AttemptsToReconcile
    <2>5. PostsAreFresh'
      BY <1>1, <1>8, <2>2, <2>3, CallbackTypes DEF KeyInv, PostsAreFresh, Unsent
    <2>6. OpenedFirst'
      BY <1>1, <1>8, OpenStays, CallbackTypes DEF KeyInv, OpenedFirst
    <2>7. DeadlineIsLate'
      BY DeadlineStays DEF KeyInv
    <2>8. QED
      BY <1>4, <2>3, <2>4, <2>5, <2>6, <2>7 DEF KeyInv, RiskIsTracked, OneAtRisk
  <1>9. QED
    BY <1>2, <1>7, <1>8
\* Sending what was announced adds no risk.
LEMMA SendKeepsKey ==
  ASSUME CallbackTypeOK, StoreInv, KeyInv, NEW h \in Callback, SendProvision(h)
  PROVE  KeyInv'
  <1>1. /\ pc[h] = "armed" /\ auth[h] # "active"
        /\ posts' = posts \cup {h} /\ pc' = [pc EXCEPT ![h] = "sent"]
        /\ UNCHANGED <<now, storeVars, proven, auth>>
    BY DEF SendProvision, Goto, KeyInv, PostsAreFresh, Unsent
  <1>2. UNCHANGED <<rec, winner, job, opened, status, expiresAt>> /\ now' = now
    BY <1>1 DEF storeVars, storedVars, historyVars, rec
  <1>3. \A k \in Callback : (AtRisk(k)' => AtRisk(k)) /\ (Watched(k) => Watched(k)')
    BY <1>1, <1>2, WatchedFrame, CallbackTypes DEF AtRisk
  <1>4. PostsAreFresh'
    <2> SUFFICES ASSUME NEW k \in Callback
                 PROVE  /\ pc'[k] \in Unsent => auth'[k] # "active" /\ k \notin posts'
                        /\ k \in posts' => auth'[k] # "active"
                        /\ pc'[k] = "release_clean" => ~AtRisk(k)'
      BY DEF PostsAreFresh
    <2>1. CASE k = h
      BY <1>1, <2>1, CallbackTypes DEF Unsent
    <2>2. CASE k # h
      BY <1>1, <1>3, <2>2, CallbackTypes DEF KeyInv, PostsAreFresh
    <2>3. QED
      BY <2>1, <2>2
  <1>5. ProofsAreTombstones' /\ DeadlineIsLate'
    BY <1>1, <1>2 DEF KeyInv, ProofsAreTombstones, DeadlineIsLate
  <1>6. OpenedFirst'
    BY <1>1, <1>2, CallbackTypes DEF KeyInv, OpenedFirst
  <1>7. QED
    BY <1>3, <1>4, <1>5, <1>6 DEF KeyInv, RiskIsTracked, OneAtRisk

LEMMA LocalStepsKeepKey ==
  ASSUME CallbackTypeOK, StoreInv, KeyInv, NEW h \in Callback,
         \/ RefuseLocally(h) \/ ProvisionTimeout(h) \/ ReconcileOwn(h) \/ ListGrants(h)
         \/ CompleteAuthorization(h) \/ AbortAttempt(h) \/ ReplaceInline(h) \/ AnswerWithCode(h)
  PROVE  KeyInv'
  <1>1. /\ UNCHANGED <<now, storeVars, proven, posts>> /\ AuthorityCalm /\ pc[h] # "start"
    BY DEF RefuseLocally, ProvisionTimeout, ReconcileOwn, ListGrants, CompleteAuthorization,
           AbortAttempt, ReplaceInline, AnswerWithCode, AuthorityCalm, authorityVars
  <1>2. PICK to \in {"release_clean", "release_unknown", "reconcile", "listed", "commit1",
                     "replaced", "done"} : pc' = [pc EXCEPT ![h] = to]
    BY DEF RefuseLocally, ProvisionTimeout, ReconcileOwn, ListGrants, CompleteAuthorization,
           AbortAttempt, ReplaceInline, AnswerWithCode, Goto
  <1>3. to = "release_clean" =>
          Tombstone(h) \/ (pc[h] = "leased" /\ UNCHANGED auth)
    BY <1>2, CallbackTypes
    DEF RefuseLocally, ProvisionTimeout, ReconcileOwn, ListGrants, CompleteAuthorization,
        AbortAttempt, ReplaceInline, AnswerWithCode, Goto, authorityVars
  <1>4. to = "release_clean" => ~AtRisk(h)'
    BY <1>1, <1>2, <1>3, CallbackTypes DEF AtRisk, Tombstone, KeyInv, PostsAreFresh, Unsent
  <1>5. QED
    BY <1>1, <1>2, <1>4, LocalStep

LEMMA CommitKeepsKey ==
  ASSUME CallbackTypeOK, StoreInv, KeyInv, [StoreNext]_<<now, storeVars>>,
         NEW h \in Callback, CommitState(h) \/ LateCommit(h)
  PROVE  KeyInv'
  <1>1. /\ UNCHANGED <<proven, posts, auth>> /\ AuthorityCalm
        /\ \/ \E P, reply : Commit(h, P, reply)
           \/ UNCHANGED <<now, storeVars>>
    BY DEF CommitState, LateCommit, AuthorityCalm, authorityVars
  <1>2. job' = job
    BY <1>1 DEF Commit, storeVars
  <1>3. \A k \in Callback : Watched(k) => Watched(k)'
    <2>1. CASE \E P, reply : Commit(h, P, reply)
      BY <2>1, CommitWatches
    <2>2. CASE UNCHANGED <<now, storeVars>>
      BY <2>2, WatchedFrame DEF storeVars, storedVars, historyVars
    <2>3. QED
      BY <1>1, <2>1, <2>2
  <1>4. ProofsAreTombstones'
    BY <1>1, <1>2, CalmKeepsTombstones, ProofsStay DEF KeyInv
  <1>5. PICK to \in {"commit2", "won", "abort"} :
          pc' = pc \/ (pc[h] # "start" /\ pc' = [pc EXCEPT ![h] = to])
    BY DEF CommitState, LateCommit, AfterLostRound, Goto
  <1>6. QED
    BY <1>1, <1>3, <1>4, <1>5, CalmStep

\* The release of an attempt at risk says "unknown".
LEMMA ReleaseKeepsKey ==
  ASSUME CallbackTypeOK, StoreInv, KeyInv, [StoreNext]_<<now, storeVars>>,
         NEW h \in Callback, ReleaseState(h)
  PROVE  KeyInv'
  <1>1. /\ UNCHANGED <<proven, posts, auth>> /\ AuthorityCalm /\ pc[h] # "start"
        /\ \/ \E outcome : /\ Release(h, outcome)
                           /\ outcome = "unknown" \/ pc[h] = "release_clean"
           \/ UNCHANGED <<now, storeVars>>
    BY DEF ReleaseState, AuthorityCalm, authorityVars
  <1>2. job' = job
    BY <1>1 DEF Release, storeVars
  <1>3. PICK to \in {"released", "done"} : pc' = [pc EXCEPT ![h] = to]
    BY DEF ReleaseState, Goto
  <1>4. \A k \in Callback : AtRisk(k)' => AtRisk(k)
    BY <1>1, <1>3, CalmAddsNoRisk
  <1>5. \A k \in Callback : AtRisk(k)' /\ Watched(k) => Watched(k)'
    <2> SUFFICES ASSUME NEW k \in Callback, AtRisk(k), Watched(k) PROVE Watched(k)'
      BY <1>4
    <2>1. ASSUME NEW outcome, Release(h, outcome), outcome = "unknown" \/ pc[h] = "release_clean"
          PROVE  Watched(k)'
      <3>1. outcome = "unknown" \/ k # h
        BY <2>1 DEF KeyInv, PostsAreFresh
      <3>2. QED
        BY <2>1, <3>1, ReleaseWatches
    <2>2. CASE UNCHANGED <<now, storeVars>>
      BY <2>2, WatchedFrame DEF storeVars, storedVars, historyVars
    <2>3. QED
      BY <1>1, <2>1, <2>2
  <1>6. ProofsAreTombstones'
    BY <1>1, <1>2, CalmKeepsTombstones, ProofsStay DEF KeyInv
  <1>7. QED
    BY <1>1, <1>3, <1>5, <1>6, CalmStep

-----------------------------------------------------------------------------
(* Keys: the authority and the alarm *)

LEMMA MintKeepsKey ==
  ASSUME CallbackTypeOK, StoreInv, KeyInv, NEW h \in Callback, Mint(h)
  PROVE  KeyInv'
  <1>1. /\ h \in posts /\ auth[h] = "unused" /\ AtRisk(h)
        /\ auth' = [auth EXCEPT ![h] = "active"] /\ posts' = posts \ {h}
        /\ UNCHANGED <<now, storeVars, proven>>
        /\ pc' = pc \/ (pc[h] = "sent" /\ \E to \in {"provisioned", "reconcile"} :
                                            pc' = [pc EXCEPT ![h] = to])
    BY DEF Mint, WaiterGoes, AtRisk
  <1>2. UNCHANGED <<rec, winner, job, opened, status, expiresAt>> /\ now' = now
    BY <1>1 DEF storeVars, storedVars, historyVars, rec
  <1>3. \A k \in Callback : (AtRisk(k)' => AtRisk(k)) /\ (Watched(k) => Watched(k)')
    BY <1>1, <1>2, WatchedFrame, CallbackTypes DEF AtRisk
  <1>4. PostsAreFresh'
    <2> SUFFICES ASSUME NEW k \in Callback
                 PROVE  /\ pc'[k] \in Unsent => auth'[k] # "active" /\ k \notin posts'
                        /\ k \in posts' => auth'[k] # "active"
                        /\ pc'[k] = "release_clean" => ~AtRisk(k)'
      BY DEF PostsAreFresh
    <2>1. CASE k = h
      BY <1>1, <2>1, CallbackTypes DEF Unsent, KeyInv, PostsAreFresh
    <2>2. CASE k # h
      BY <1>1, <1>3, <2>2, CallbackTypes DEF KeyInv, PostsAreFresh
    <2>3. QED
      BY <2>1, <2>2
  <1>5. ProofsAreTombstones'
    BY <1>1, <1>2, ProofsStay, CallbackTypes DEF KeyInv, TombstonesStay
  <1>6. OpenedFirst' /\ DeadlineIsLate'
    BY <1>1, <1>2, CallbackTypes DEF KeyInv, OpenedFirst, DeadlineIsLate
  <1>7. QED
    BY <1>3, <1>4, <1>5, <1>6 DEF KeyInv, RiskIsTracked, OneAtRisk

LEMMA UnmintedKeepsKey ==
  ASSUME CallbackTypeOK, StoreInv, KeyInv, NEW h \in Callback, RejectProvision(h) \/ FailProvision(h)
  PROVE  KeyInv'
  <1>1. /\ h \in posts /\ auth[h] # "active"
        /\ posts' = posts \ {h} /\ UNCHANGED <<now, storeVars, proven, auth>> /\ AuthorityCalm
        /\ pc' = pc \/ (pc[h] = "sent" /\ \E to \in {"release_clean", "reconcile"} :
                                            pc' = [pc EXCEPT ![h] = to])
    BY DEF RejectProvision, FailProvision, WaiterGoes, AuthorityCalm, KeyInv, PostsAreFresh
  <1>2. CASE pc' = pc
    <2>1. UNCHANGED <<rec, winner, job>> /\ now' = now
      BY <1>1 DEF storeVars, storedVars, historyVars
    <2>2. \A k \in Callback : Watched(k) => Watched(k)'
      BY <2>1, WatchedFrame
    <2>3. ProofsAreTombstones'
      BY <1>1, <2>1, CalmKeepsTombstones, ProofsStay DEF KeyInv
    <2>4. QED
      BY <1>1, <1>2, <2>2, <2>3, CalmStep
  <1>3. CASE pc[h] = "sent" /\ \E to \in {"release_clean", "reconcile"} :
                                 pc' = [pc EXCEPT ![h] = to]
    <2>1. PICK to \in {"release_clean", "reconcile"} : pc' = [pc EXCEPT ![h] = to]
      BY <1>3
    <2>2. ~AtRisk(h)'
      BY <1>1, <2>1, CallbackTypes DEF AtRisk
    <2>3. QED
      BY <1>1, <1>3, <2>1, <2>2, LocalStep
  <1>4. QED
    BY <1>1, <1>2, <1>3
LEMMA JobCallKeepsKey ==
  ASSUME CallbackTypeOK, StoreInv, KeyInv, [StoreNext]_<<now, storeVars>>, JobCall
  PROVE  KeyInv'
  <1>1. /\ UNCHANGED <<pc, proven, posts>> /\ AuthorityCalm /\ UNCHANGED <<now, rec, winner>>
    BY DEF JobCall, AlarmRevokes, AlarmSupersedes, JobAnswer, callbackVars, authorityVars,
           AuthorityCalm, storedVars, historyVars
  <1>2. \A k \in Callback : Watched(k) => Watched(k)'
    BY <1>1, WatchedFrame
  <1>3. TombstonesStay
    BY <1>1, CalmKeepsTombstones
  <1>4. ProofsAreTombstones'
    <2>1. \A k \in Callback : \A c \in proven'[k] : auth'[c] = "tombstoned"
      BY <1>1, <1>3, CallbackTypes DEF KeyInv, ProofsAreTombstones, TombstonesStay
    <2>2. ASSUME job'.kind = "reconcile", NEW c \in job'.acked, c \in Callback
          PROVE  auth'[c] = "tombstoned"
      <3>1. PICK d \in Callback : AlarmRevokes(d)
        BY <2>2 DEF JobCall, AlarmSupersedes, JobAnswer
      <3>2. job.kind = "reconcile" /\ (c \in job.acked \/ (c = d /\ Tombstone(d)))
        BY <2>2, <3>1 DEF AlarmRevokes, JobAnswer
      <3>3. QED
        BY <1>3, <2>2, <3>2, CallbackTypes
        DEF KeyInv, ProofsAreTombstones, TombstonesStay, Tombstone
    <2>3. QED
      BY <2>1, <2>2 DEF ProofsAreTombstones
  <1>5. \A k \in Callback : (AtRisk(k)' => AtRisk(k)) /\ (auth'[k] = "active" => auth[k] = "active")
    BY <1>1, CallbackTypes DEF AtRisk, AuthorityCalm, Tombstone
  <1>6. PostsAreFresh' /\ OpenedFirst'
    BY <1>1, <1>5, OpenStays DEF KeyInv, PostsAreFresh, OpenedFirst, AuthorityCalm
  <1>7. QED
    BY <1>2, <1>4, <1>5, <1>6, DeadlineStays DEF KeyInv, RiskIsTracked, OneAtRisk

LEMMA StoreAloneKeepsKey ==
  ASSUME CallbackTypeOK, StoreInv, KeyInv, [StoreNext]_<<now, storeVars>>, StoreStep
  PROVE  KeyInv'
  <1>1. UNCHANGED <<pc, proven, posts, auth>> /\ AuthorityCalm /\ StoreAlone
    BY DEF StoreStep, callbackVars, authorityVars, AuthorityCalm
  <1>2. \A k \in Callback : AtRisk(k) => opened
    BY DEF AtRisk, KeyInv, PostsAreFresh, OpenedFirst, Unsent
  <1>3. \A k \in Callback : AtRisk(k) /\ Watched(k) => Watched(k)'
    <2> SUFFICES ASSUME NEW k \in Callback, AtRisk(k), Watched(k) PROVE Watched(k)'
      OBVIOUS
    <2>1. CASE AlarmFires
      BY <2>1, AlarmWatches DEF KeyInv
    <2>2. CASE JobFinish
      <3>1. k \notin job.acked \/ job.kind # "reconcile"
        BY DEF AtRisk, KeyInv, ProofsAreTombstones
      <3>2. QED
        BY <2>2, <3>1, JobFinishWatches
    <2>3. CASE StoreCrash \/ Tick
      BY <2>3, WatchedFrame DEF StoreCrash, Tick, storeVars, storedVars, historyVars
    <2>4. CASE PutState
      BY <1>2, <2>4 DEF PutState
    <2>5. QED
      BY <1>1, <2>1, <2>2, <2>3, <2>4 DEF StoreAlone
  <1>4. job' = job \/ job' = NoJob \/ job'.acked = {}
    BY <1>1
    DEF StoreAlone, PutState, AlarmFires, StartReplacement, StartReconcile, JobFinish, StoreCrash,
        Tick, storeVars
  <1>5. ProofsAreTombstones'
    BY <1>1, <1>4, CalmKeepsTombstones, ProofsStay DEF KeyInv, NoJob
  <1>6. \A k \in Callback : AtRisk(k)' <=> AtRisk(k)
    BY <1>1 DEF AtRisk
  <1>7. PostsAreFresh' /\ OpenedFirst'
    BY <1>1, <1>6, OpenStays DEF KeyInv, PostsAreFresh, OpenedFirst
  <1>8. QED
    BY <1>3, <1>5, <1>6, <1>7, DeadlineStays DEF KeyInv, RiskIsTracked, OneAtRisk

LEMMA KeyInvStep ==
  ASSUME CallbackTypeOK, StoreInv, KeyInv, [Next]_vars
  PROVE  KeyInv'
  <1>1. [StoreNext]_<<now, storeVars>>
    BY StepIsStoreStep
  <1>2. ASSUME NEW h \in Callback, CallbackStep(h) PROVE KeyInv'
    <2>1. CASE ReserveState(h)
      BY <1>1, <2>1, ReserveKeepsKey
    <2>2. CASE \E c \in Callback : ReconcileEarlier(h, c)
      BY <1>1, <2>2, ReconcileEarlierKeepsKey
    <2>3. CASE ArmAttempt(h)
      BY <1>1, <2>3, ArmKeepsKey
    <2>4. CASE SendProvision(h)
      BY <2>4, SendKeepsKey
    <2>5. CASE CommitState(h)
      BY <1>1, <2>5, CommitKeepsKey
    <2>6. CASE ReleaseState(h)
      BY <1>1, <2>6, ReleaseKeepsKey
    <2>7. QED
      BY <1>2, <2>1, <2>2, <2>3, <2>4, <2>5, <2>6, LocalStepsKeepKey DEF CallbackStep
  <1>3. ASSUME NEW h \in Callback, LateCommit(h) PROVE KeyInv'
    BY <1>1, <1>3, CommitKeepsKey
  <1>4. ASSUME NEW h \in Callback, AuthorityStep(h) PROVE KeyInv'
    BY <1>4, MintKeepsKey, UnmintedKeepsKey DEF AuthorityStep
  <1>5. CASE UNCHANGED vars
    <2>1. UNCHANGED <<pc, proven, posts, auth, job, now, rec, winner, opened, status, expiresAt>>
      BY <1>5
      DEF vars, callbackVars, authorityVars, storeVars, storedVars, historyVars, rec
    <2>2. \A k \in Callback : (AtRisk(k)' <=> AtRisk(k)) /\ (Watched(k) => Watched(k)')
      BY <2>1, WatchedFrame DEF AtRisk
    <2>3. PostsAreFresh' /\ ProofsAreTombstones'
      BY <2>1, <2>2 DEF KeyInv, PostsAreFresh, ProofsAreTombstones
    <2>4. RiskIsTracked' /\ OneAtRisk'
      BY <2>2 DEF KeyInv, RiskIsTracked, OneAtRisk
    <2>5. DeadlineIsLate' /\ OpenedFirst'
      BY <2>1 DEF KeyInv, DeadlineIsLate, OpenedFirst
    <2>6. QED
      BY <2>3, <2>4, <2>5 DEF KeyInv
  <1>6. QED
    BY <1>1, <1>2, <1>3, <1>4, <1>5, JobCallKeepsKey, StoreAloneKeepsKey DEF Next
-----------------------------------------------------------------------------
(* The winner keeps its key *)

LEMMA WinTypes ==
  ASSUME CallbackTypeOK
  PROVE  /\ pc \in [Callback -> PC] /\ todo \in [Callback -> SUBSET Callback]
         /\ codes \in SUBSET Callback /\ lateCommit \in SUBSET Callback
         /\ auth \in [Callback -> {"unused", "active", "tombstoned"}]
  BY DEF CallbackTypeOK

\* The winner stays or is now h, which has sent its commit.
WinnerStep(h) == winner' = winner \/ (winner = None /\ winner' = h /\ pc'[h] \notin Uncommitted)

LEMMA TodoStays ==
  ASSUME CallbackTypeOK, StoreInv, WinInv, [StoreNext]_<<now, storeVars>>,
         \A k \in Callback : todo'[k] \subseteq todo[k]
  PROVE  TodoIsSuperseded'
  BY SupersededStays, WinTypes DEF WinInv, TodoIsSuperseded

LEMMA WinStep ==
  ASSUME CallbackTypeOK, StoreInv, WinInv, [StoreNext]_<<now, storeVars>>,
         NEW h \in Callback, NEW to, pc' = pc \/ (pc' = [pc EXCEPT ![h] = to] /\ pc[h] # "done"),
         WinnerStep(h), codes' = codes,
         lateCommit' = lateCommit \/ (lateCommit' = lateCommit \cup {h} /\ pc'[h] \notin Uncommitted)
           \/ lateCommit' = lateCommit \ {h},
         TodoIsSuperseded',
         \A k \in Callback : auth[k] = "active" =>
           \/ auth'[k] = "active" \/ Superseded(k)
           \/ k = h /\ pc[h] # "done" /\ pc'[h] \notin Keyed,
         pc' = pc \/ to \notin Keyed \/ pc[h] \in Keyed,
         pc' = pc \/ to \notin Uncommitted \/ pc[h] \in Uncommitted,
         pc' = pc \/ to \notin {"won", "replaced"} \/ winner' = h
  PROVE  WinInv'
  <1>1. \A k \in Callback : Superseded(k) => Superseded(k)'
    BY SupersededStays
  <1>2. KeyIsKept'
    <2> SUFFICES ASSUME NEW k \in Callback, pc'[k] \in Keyed \/ k \in codes'
                 PROVE  auth'[k] = "active" \/ Superseded(k)'
      BY DEF KeyIsKept
    <2>1. pc[k] \in Keyed \/ k \in codes
      BY WinTypes
    <2>2. auth[k] = "active" \/ Superseded(k)
      BY <2>1 DEF WinInv, KeyIsKept
    <2>3. ~(k = h /\ pc[h] # "done" /\ pc'[h] \notin Keyed)
      BY DEF WinInv, WinnerHasCommitted
    <2>4. QED
      BY <1>1, <2>2, <2>3
  <1>3. WinnerHasCommitted'
    <2> SUFFICES ASSUME NEW k \in Callback
                 PROVE  /\ pc'[k] \in Uncommitted => winner' # k /\ k \notin lateCommit'
                        /\ pc'[k] \in {"won", "replaced"} \/ k \in codes' => winner' = k
                        /\ k \in codes' => pc'[k] = "done"
      BY DEF WinnerHasCommitted
    <2>1. /\ pc[k] \in Uncommitted => winner # k /\ k \notin lateCommit
          /\ pc[k] \in {"won", "replaced"} \/ k \in codes => winner = k
          /\ k \in codes => pc[k] = "done"
      BY DEF WinInv, WinnerHasCommitted
    <2>2. CASE k # h
      <3>1. pc'[k] = pc[k]
        BY <2>2, WinTypes
      <3>2. winner # k => winner' # k
        BY <2>2 DEF WinnerStep
      <3>3. winner = k => winner' = k
        BY CallbackConstants DEF WinnerStep
      <3>4. QED
        BY <2>1, <2>2, <3>1, <3>2, <3>3
    <2>3. CASE k = h
      <3>1. pc' = pc \/ (pc'[h] = to /\ pc[h] # "done")
        BY WinTypes
      <3>2. pc'[h] \in Uncommitted => pc[h] \in Uncommitted
        BY <3>1
      <3>3. h \in codes => pc'[h] = "done"
        BY <2>1, <2>3, <3>1
      <3>4. pc'[h] \in Uncommitted => winner' # h /\ h \notin lateCommit'
        BY <2>1, <2>3, <3>2 DEF WinnerStep
      <3>5. winner = h => winner' = h
        BY CallbackConstants DEF WinnerStep
      <3>6. pc'[h] \in {"won", "replaced"} => winner' = h
        BY <2>1, <2>3, <3>1, <3>5
      <3>7. QED
        BY <2>1, <2>3, <3>3, <3>4, <3>5, <3>6
    <2>4. QED
      BY <2>2, <2>3
  <1>4. QED
    BY <1>2, <1>3 DEF WinInv
\* What a request takes over was armed under a lease that is gone.
LEMMA ReserveKeepsWin ==
  ASSUME CallbackTypeOK, StoreInv, WinInv, [StoreNext]_<<now, storeVars>>,
         NEW h \in Callback, ReserveState(h)
  PROVE  WinInv'
  <1>1. /\ pc[h] = "start" /\ UNCHANGED <<codes, lateCommit, auth>>
    BY DEF ReserveState, authorityVars
  <1>2. PICK to \in {"leased", "done"} : pc' = [pc EXCEPT ![h] = to]
    BY DEF ReserveState, Goto
  <1>3. winner' = winner
    BY DEF ReserveState, Reserve, storeVars, historyVars
  <1>4. TodoIsSuperseded'
    <2>1. CASE todo' = todo
      BY <2>1, TodoStays
    <2>2. CASE Reserve(h, "reserved") /\ todo' = [todo EXCEPT ![h] = unreconciled']
      <3>1. /\ GrantLease(h) /\ h \notin minted /\ minted' = minted \cup {h}
            /\ status = "pending" /\ Pending /\ winner = None
        BY <2>2 DEF Reserve, RefuseReserve, GrantLease, Pending, StoreInv, WinnerEndsPending
      <3>2. /\ unreconciled' = AttemptsToReconcile /\ lease'.holder = h
            /\ AttemptsToReconcile \in SUBSET Callback /\ AttemptsToReconcile \subseteq minted
        BY <3>1, LeaseFacts, DroppedLeaseFits DEF GrantLease, StoreInv, StoreTypeOK
      <3>3. \A c \in unreconciled' : Superseded(c)'
        BY <1>3, <3>1, <3>2, CallbackConstants DEF Superseded
      <3>4. \A k \in Callback : \A c \in todo[k] : Superseded(c)'
        BY SupersededStays, WinTypes DEF WinInv, TodoIsSuperseded
      <3>5. QED
        BY <2>2, <3>3, <3>4, WinTypes DEF TodoIsSuperseded
    <2>3. QED
      BY <2>1, <2>2 DEF ReserveState
  <1>5. QED
    BY <1>1, <1>2, <1>3, <1>4, WinStep DEF WinnerStep, Keyed, Uncommitted, Ungranted

\* Others revoke an attempt only if its lease is gone, so not the winner's.
LEMMA ReconcileEarlierKeepsWin ==
  ASSUME CallbackTypeOK, StoreInv, WinInv, [StoreNext]_<<now, storeVars>>,
         NEW h \in Callback, NEW c \in Callback, ReconcileEarlier(h, c)
  PROVE  WinInv'
  <1>1. /\ pc[h] = "leased" /\ Superseded(c) /\ UNCHANGED <<codes, lateCommit, winner>>
        /\ \A k \in Callback : todo'[k] \subseteq todo[k]
        /\ \A k \in Callback : auth[k] = "active" => auth'[k] = "active" \/ k = c
        /\ pc' = pc \/ pc' = [pc EXCEPT ![h] = "release_clean"]
    BY WinTypes
    DEF ReconcileEarlier, Goto, Tombstone, WinInv, TodoIsSuperseded, storeVars, historyVars
  <1>2. TodoIsSuperseded'
    BY <1>1, TodoStays
  <1>3. PICK to \in {"release_clean"} : pc' = pc \/ pc' = [pc EXCEPT ![h] = to]
    BY <1>1
  <1>4. QED
    BY <1>1, <1>2, <1>3, WinStep DEF WinnerStep, Keyed, Uncommitted, Ungranted

\* Steps of a request that do not concern its own commit.
LEMMA OtherStepsKeepWin ==
  ASSUME CallbackTypeOK, StoreInv, WinInv, [StoreNext]_<<now, storeVars>>, NEW h \in Callback,
         \/ RefuseLocally(h) \/ ArmAttempt(h) \/ SendProvision(h) \/ ProvisionTimeout(h)
         \/ ReconcileOwn(h) \/ ListGrants(h) \/ CompleteAuthorization(h) \/ AbortAttempt(h)
         \/ ReplaceInline(h) \/ ReleaseState(h)
  PROVE  WinInv'
  <1>1. UNCHANGED <<codes, lateCommit, todo, winner>>
    BY DEF RefuseLocally, ArmAttempt, Arm, SendProvision, ProvisionTimeout, ReconcileOwn,
           ListGrants, CompleteAuthorization, AbortAttempt, ReplaceInline, ReleaseState, Release,
           storeVars, historyVars
  <1>2. PICK to \in PC : pc' = [pc EXCEPT ![h] = to]
    BY DEF RefuseLocally, ArmAttempt, SendProvision, ProvisionTimeout, ReconcileOwn,
           ListGrants, CompleteAuthorization, AbortAttempt, ReplaceInline, ReleaseState, Goto, PC
  <1>3. /\ pc[h] # "done"
        /\ to \in Keyed => pc[h] \in Keyed
        /\ to \in Uncommitted => pc[h] \in Uncommitted
        /\ to \in {"won", "replaced"} => pc[h] = "won"
        /\ UNCHANGED auth \/ (Tombstone(h) /\ to \notin Keyed)
    BY <1>2, WinTypes
    DEF RefuseLocally, ArmAttempt, SendProvision, ProvisionTimeout, ReconcileOwn,
        ListGrants, CompleteAuthorization, AbortAttempt, ReplaceInline, ReleaseState, Goto,
        Keyed, Uncommitted, Ungranted, authorityVars
  <1>4. pc[h] = "won" => winner' = h
    BY <1>1 DEF WinInv, WinnerHasCommitted
  <1>5. \A k \in Callback : auth[k] = "active" =>
          auth'[k] = "active" \/ (k = h /\ pc[h] # "done" /\ pc'[h] \notin Keyed)
    BY <1>2, <1>3, WinTypes DEF Tombstone
  <1>6. TodoIsSuperseded'
    BY <1>1, TodoStays
  <1>7. QED
    BY <1>1, <1>2, <1>3, <1>4, <1>5, <1>6, WinStep DEF WinnerStep

LEMMA CommitKeepsWin ==
  ASSUME CallbackTypeOK, StoreInv, WinInv, [StoreNext]_<<now, storeVars>>, NEW h \in Callback,
         CommitState(h) \/ LateCommit(h)
  PROVE  WinInv'
  <1>1. UNCHANGED <<codes, todo, auth>>
    BY DEF CommitState, LateCommit, authorityVars
  <1>2. PICK to \in {"won", "abort", "commit2"} :
          pc' = pc \/ (pc' = [pc EXCEPT ![h] = to] /\ pc[h] \in {"commit1", "commit2"})
    BY DEF CommitState, LateCommit, AfterLostRound, Goto
  <1>3. pc'[h] \notin Uncommitted
    <2>1. CASE CommitState(h)
      <3>1. pc'[h] \in {"won", "abort", "commit2"}
        BY <2>1, WinTypes DEF CommitState, AfterLostRound, Goto
      <3>2. QED
        BY <3>1 DEF Uncommitted, Ungranted
    <2>2. CASE LateCommit(h)
      BY <2>2 DEF LateCommit, WinInv, WinnerHasCommitted
    <2>3. QED
      BY <2>1, <2>2
  <1>4. /\ winner' = winner \/ (winner = None /\ winner' = h)
        /\ \A P : Commit(h, P, "committed") => winner' = h
    BY DEF CommitState, LateCommit, Commit, CanCommit, CommittedBy, Pending, StoreInv,
           WinnerEndsPending, storeVars, historyVars
  <1>5. /\ pc' = pc \/ to # "won" \/ winner' = h
        /\ lateCommit' \in {lateCommit, lateCommit \cup {h}, lateCommit \ {h}}
    BY <1>2, <1>4, WinTypes DEF CommitState, LateCommit, AfterLostRound, Goto
  <1>6. TodoIsSuperseded'
    BY <1>1, TodoStays
  <1>7. /\ WinnerStep(h) /\ (pc' = pc \/ to \notin Keyed \/ pc[h] \in Keyed)
        /\ to \notin Uncommitted
    BY <1>2, <1>3, <1>4 DEF WinnerStep, Keyed, Uncommitted, Ungranted
  <1>8. QED
    BY <1>1, <1>2, <1>3, <1>5, <1>6, <1>7, WinStep

\* The code follows the key.
LEMMA AnswerKeepsWin ==
  ASSUME CallbackTypeOK, StoreInv, WinInv, NEW h \in Callback, AnswerWithCode(h)
  PROVE  WinInv'
  <1>1. /\ pc[h] = "replaced" /\ pc' = [pc EXCEPT ![h] = "done"] /\ codes' = codes \cup {h}
        /\ UNCHANGED <<lateCommit, todo, auth, winner, minted, lease>>
    BY DEF AnswerWithCode, Goto, authorityVars, storeVars, storedVars, historyVars, rec
  <1>2. /\ winner = h /\ (auth[h] = "active" \/ Superseded(h))
    BY <1>1 DEF WinInv, WinnerHasCommitted, KeyIsKept, Keyed
  <1>3. \A k \in Callback : Superseded(k)' <=> Superseded(k)
    BY <1>1 DEF Superseded
  <1>4. TodoIsSuperseded'
    BY <1>1, <1>3, WinTypes DEF WinInv, TodoIsSuperseded
  <1>5. KeyIsKept'
    BY <1>1, <1>2, <1>3, WinTypes DEF WinInv, KeyIsKept, Keyed
  <1>6. WinnerHasCommitted'
    BY <1>1, <1>2, WinTypes DEF WinInv, WinnerHasCommitted, Uncommitted, Ungranted
  <1>7. QED
    BY <1>4, <1>5, <1>6 DEF WinInv
\* The authority mints once; what it refuses reaches no commit.
LEMMA AuthorityKeepsWin ==
  ASSUME CallbackTypeOK, StoreInv, WinInv, NEW h \in Callback, AuthorityStep(h)
  PROVE  WinInv'
  <1>1. /\ UNCHANGED <<now, storeVars, codes, lateCommit, todo>>
        /\ UNCHANGED auth \/ auth' = [auth EXCEPT ![h] = "active"]
    BY DEF AuthorityStep, Mint, RejectProvision, FailProvision
  <1>2. /\ UNCHANGED <<winner, minted, lease>> /\ [StoreNext]_<<now, storeVars>>
    BY <1>1 DEF storeVars, storedVars, historyVars, rec
  <1>3. /\ \A k \in Callback : auth[k] = "active" => auth'[k] = "active"
        /\ \A k \in Callback : Superseded(k)' <=> Superseded(k)
    BY <1>1, <1>2, WinTypes DEF Superseded
  <1>4. PICK to \in {"provisioned", "reconcile", "release_clean"} :
          \/ pc' = pc
          \/ /\ pc[h] = "sent" /\ pc' = [pc EXCEPT ![h] = to]
             /\ to = "provisioned" => auth'[h] = "active"
    BY <1>1, WinTypes DEF AuthorityStep, Mint, RejectProvision, FailProvision, WaiterGoes
  <1>5. TodoIsSuperseded'
    BY <1>1, <1>2, TodoStays
  <1>6. KeyIsKept'
    <2> SUFFICES ASSUME NEW k \in Callback, pc'[k] \in Keyed \/ k \in codes'
                 PROVE  auth'[k] = "active" \/ Superseded(k)'
      BY DEF KeyIsKept
    <2>1. pc[k] \in Keyed \/ k \in codes \/ (k = h /\ auth'[h] = "active")
      BY <1>1, <1>4, WinTypes DEF Keyed
    <2>2. QED
      BY <1>3, <2>1 DEF WinInv, KeyIsKept
  <1>7. WinnerHasCommitted'
    <2> SUFFICES ASSUME NEW k \in Callback
                 PROVE  /\ pc'[k] \in Uncommitted => winner' # k /\ k \notin lateCommit'
                        /\ pc'[k] \in {"won", "replaced"} \/ k \in codes' => winner' = k
                        /\ k \in codes' => pc'[k] = "done"
      BY DEF WinnerHasCommitted
    <2>1. /\ pc[k] \in Uncommitted => winner # k /\ k \notin lateCommit
          /\ pc[k] \in {"won", "replaced"} \/ k \in codes => winner = k
          /\ k \in codes => pc[k] = "done"
      BY DEF WinInv, WinnerHasCommitted
    <2>2. CASE pc'[k] = pc[k]
      BY <1>1, <1>2, <2>1, <2>2
    <2>3. CASE pc'[k] # pc[k]
      <3>1. k = h /\ pc[h] = "sent" /\ pc'[h] = to
        BY <1>4, <2>3, WinTypes
      <3>2. pc[k] \in Uncommitted
        BY <3>1 DEF Uncommitted, Ungranted
      <3>3. QED
        BY <1>1, <1>2, <2>1, <3>1, <3>2
    <2>4. QED
      BY <2>2, <2>3
  <1>8. QED
    BY <1>5, <1>6, <1>7 DEF WinInv

\* The alarm revokes what the record lists: leases that are gone.
LEMMA StoreSideKeepsWin ==
  ASSUME CallbackTypeOK, StoreInv, WinInv, [StoreNext]_<<now, storeVars>>,
         JobCall \/ StoreStep \/ UNCHANGED vars
  PROVE  WinInv'
  <1>1. UNCHANGED <<pc, todo, codes, lateCommit, winner>>
    BY DEF JobCall, AlarmRevokes, AlarmSupersedes, JobAnswer, StoreStep, StoreAlone, PutState,
           AlarmFires, JobFinish, StoreCrash, Tick, vars, callbackVars, storeVars, historyVars
  <1>2. \A k \in Callback : auth[k] = "active" => auth'[k] = "active" \/ Superseded(k)
    <2>1. ASSUME NEW c \in Callback, AlarmRevokes(c) PROVE Superseded(c)
      <3>1. c \in unreconciled /\ status = "pending"
        BY <2>1 DEF AlarmRevokes, JobAnswer, StoreInv, JobMatchesRecord
      <3>2. QED
        BY <3>1, CallbackConstants DEF Superseded, StoreInv, NamesMinted, WinnerEndsPending
    <2>2. UNCHANGED auth \/ \E c \in Callback : AlarmRevokes(c) /\ Tombstone(c)
      BY DEF JobCall, AlarmRevokes, AlarmSupersedes, StoreStep, vars, authorityVars
    <2>3. QED
      BY <2>1, <2>2, WinTypes DEF Tombstone
  <1>3. TodoIsSuperseded'
    BY <1>1, TodoStays
  <1>4. KeyIsKept'
    BY <1>1, <1>2, SupersededStays DEF WinInv, KeyIsKept
  <1>5. WinnerHasCommitted'
    BY <1>1 DEF WinInv, WinnerHasCommitted
  <1>6. QED
    BY <1>3, <1>4, <1>5 DEF WinInv

LEMMA WinInvStep ==
  ASSUME CallbackTypeOK, StoreInv, WinInv, [Next]_vars
  PROVE  WinInv'
  <1>1. [StoreNext]_<<now, storeVars>>
    BY StepIsStoreStep
  <1>2. ASSUME NEW h \in Callback, CallbackStep(h) PROVE WinInv'
    BY <1>1, <1>2, ReserveKeepsWin, ReconcileEarlierKeepsWin, OtherStepsKeepWin, CommitKeepsWin,
       AnswerKeepsWin
    DEF CallbackStep
  <1>3. QED
    BY <1>1, <1>2, CommitKeepsWin, AuthorityKeepsWin, StoreSideKeepsWin DEF Next
-----------------------------------------------------------------------------
(* Grants *)

LEMMA GrantTypes ==
  ASSUME CallbackTypeOK
  PROVE  /\ pc \in [Callback -> PC] /\ codes \in SUBSET Callback
         /\ listed \in [Callback -> SUBSET Grant]
         /\ grants \in [Grant -> {"absent", "live", "revoked"}]
  BY DEF CallbackTypeOK

\* A grant is only replaced, by another than its own callback's commit.
OnlyReplaced ==
  \A g \in Grant :
    \/ grants'[g] = grants[g]
    \/ winner \notin {None, g} /\ grants[g] # "absent" /\ grants'[g] = "revoked"

\* What was written stays written, and a revoked grant is never live again.
GrantsAge ==
  \A g \in Grant :
    /\ grants[g] # "absent" => grants'[g] # "absent"
    /\ grants[g] = "revoked" => grants'[g] = "revoked"

LEMMA GrantStep ==
  ASSUME GrantInv, OnlyReplaced, winner' = winner \/ winner = None,
         \A k \in Callback : pc'[k] \in Ungranted => pc[k] \in Ungranted,
         \A k \in Callback : pc'[k] \in Granted \/ k \in codes' => pc[k] \in Granted \/ k \in codes
  PROVE  GrantIsKept' /\ PriorGrantsWaitForCommit' /\ GrantsAge
  <1>1. GrantsAge
    BY DEF OnlyReplaced, GrantsAge
  <1>2. ASSUME NEW k \in Callback, pc'[k] \in Ungranted PROVE grants'[k] = "absent"
    BY <1>2, CallbackConstants DEF GrantInv, GrantIsKept, OnlyReplaced
  <1>3. ASSUME NEW k \in Callback, pc'[k] \in Granted \/ k \in codes'
        PROVE  grants'[k] = "live" \/ winner' \notin {None, k}
    BY <1>3, CallbackConstants DEF GrantInv, GrantIsKept, OnlyReplaced
  <1>4. PriorGrantsWaitForCommit'
    BY CallbackConstants DEF GrantInv, PriorGrantsWaitForCommit, OnlyReplaced
  <1>5. QED
    BY <1>1, <1>2, <1>3, <1>4 DEF GrantIsKept

LEMMA WrittenStep ==
  ASSUME CallbackTypeOK, StoreInv, GrantInv, GrantsAge, winner' = winner, listed' = listed,
         outbox'.grants \subseteq outbox.grants,
         job'.kind = "replace" =>
           /\ job'.waiting \subseteq outbox'.grants
           /\ \A g \in job'.acked :
                \/ grants'[g] = "revoked"
                \/ job.kind = "replace" /\ g \in job.acked /\ g \in Grant
  PROVE  ListedIsWritten'
  <1>1. ASSUME NEW h \in Callback PROVE h \notin listed'[h] /\ \A g \in listed'[h] : grants'[g] # "absent"
    BY GrantTypes DEF GrantInv, ListedIsWritten, GrantsAge
  <1>2. winner' \notin outbox'.grants /\ \A g \in outbox'.grants : grants'[g] # "absent"
    BY StoreTypes DEF GrantInv, ListedIsWritten, GrantsAge, StoreInv
  <1>3. job'.kind = "replace" => \A g \in job'.acked : grants'[g] = "revoked"
    BY DEF GrantInv, ListedIsWritten, GrantsAge
  <1>4. QED
    BY <1>1, <1>2, <1>3 DEF ListedIsWritten

\* Without a new winner the outbox only shrinks, and not while alarm() awaits.
LEMMA OutboxStep ==
  ASSUME StoreInv, [StoreNext]_<<now, storeVars>>, winner' = winner,
         job' = job \/ AlarmFires \/ JobFinish \/ StoreCrash
  PROVE  /\ outbox'.grants \subseteq outbox.grants
         /\ job'.kind = "replace" =>
              \/ job' = job /\ outbox' = outbox
              \/ job'.acked = {} /\ job'.waiting \subseteq outbox'.grants
  <1>1. NoOutbox.grants = {} /\ NoJob.kind = "none"
    BY OutboxAndJobFacts DEF NoOutbox
  <1>2. CASE \/ PutState \/ StoreCrash \/ Tick \/ UNCHANGED <<now, storeVars>>
             \/ \E x \in Callback \cup Grant, ack \in BOOLEAN : job' = job /\ JobAnswer(x, ack)
    BY <1>1, <1>2 DEF PutState, StoreCrash, Tick, JobAnswer, storeVars, storedVars
  <1>3. ASSUME NEW h \in Callback, NEW reply, Reserve(h, reply)
        PROVE  job'.kind # "replace" /\ outbox'.grants \subseteq outbox.grants
    BY <1>1, <1>3 DEF Reserve, RefuseReserve, GrantLease, DeleteAll, Idle
  <1>4. ASSUME NEW h \in Callback, NEW P, NEW reply, Arm(h, P, reply)
        PROVE  job'.kind # "replace" /\ outbox'.grants \subseteq outbox.grants
    BY <1>1, <1>4 DEF Arm, Idle
  <1>5. ASSUME NEW h \in Callback, NEW P, NEW reply, Commit(h, P, reply)
        PROVE  job'.kind # "replace" /\ outbox'.grants \subseteq outbox.grants
    BY <1>1, <1>5, CallbackConstants
    DEF Commit, Idle, CanCommit, Pending, StoreInv, WinnerEndsPending, storedVars
  <1>6. ASSUME NEW h \in Callback, NEW outcome, Release(h, outcome)
        PROVE  job'.kind # "replace" /\ outbox'.grants \subseteq outbox.grants
    BY <1>1, <1>6 DEF Release, Idle, storedVars
  <1>7. CASE AlarmFires
    <2>1. CASE StartReplacement
      BY <1>1, <1>7, <2>1 DEF AlarmFires, AlarmDue, Idle, StartReplacement, FinishReplacement
    <2>2. CASE StartReconcile
      BY <1>1, <1>7, <2>2 DEF AlarmFires, AlarmDue, Idle, StartReconcile, DeleteAll
    <2>3. QED
      BY <1>7, <2>1, <2>2 DEF AlarmFires
  <1>8. CASE JobFinish
    <2>1. outbox'.grants \subseteq outbox.grants
      <3>1. CASE outbox' = [outbox EXCEPT !.grants = @ \ job.acked]
        <4>1. outbox.grants \in SUBSET Grant /\ outbox \in [grants : SUBSET Grant, notAfter : Nat]
          BY DEF StoreInv, StoreTypeOK
        <4>2. QED
          BY <3>1, <4>1
      <3>2. QED
        BY <1>1, <1>8, <3>1 DEF JobFinish, FinishReplacement, DeleteAll
    <2>2. QED
      BY <1>1, <1>8, <2>1 DEF JobFinish
  <1>9. QED
    BY <1>2, <1>3, <1>4, <1>5, <1>6, <1>7, <1>8 DEF StoreNext, AlarmFires, JobFinish, StoreCrash
\* Steps of a request that leave the grants and the outbox's listing alone.
LEMMA UngrantedStepsKeepGrants ==
  ASSUME CallbackTypeOK, StoreInv, WinInv, GrantInv, [StoreNext]_<<now, storeVars>>,
         NEW h \in Callback,
         \/ ReserveState(h) \/ RefuseLocally(h) \/ (\E c \in Callback : ReconcileEarlier(h, c))
         \/ ArmAttempt(h) \/ SendProvision(h) \/ ProvisionTimeout(h) \/ ReconcileOwn(h)
         \/ AnswerWithCode(h) \/ ReleaseState(h) \/ AuthorityStep(h)
  PROVE  GrantInv'
  <1>1. UNCHANGED <<grants, listed, winner, job>>
    BY DEF ReserveState, Reserve, RefuseLocally, ReconcileEarlier, ArmAttempt, Arm, SendProvision,
           ProvisionTimeout, ReconcileOwn, AnswerWithCode, ReleaseState, Release, AuthorityStep,
           Mint, RejectProvision, FailProvision, storeVars, historyVars
  <1>2. PICK to \in PC :
          /\ pc' = pc \/ pc' = [pc EXCEPT ![h] = to]
          /\ pc' = pc \/ to \notin Ungranted \/ pc[h] \in Ungranted
          /\ pc' = pc \/ to \notin Granted
    <2>1. PICK to \in PC : pc' = pc \/ pc' = [pc EXCEPT ![h] = to]
      BY DEF ReserveState, RefuseLocally, ReconcileEarlier, ArmAttempt, SendProvision,
             ProvisionTimeout, ReconcileOwn, AnswerWithCode, ReleaseState, AuthorityStep,
             Mint, RejectProvision, FailProvision, Goto, WaiterGoes, PC
    <2>2. \/ pc' = pc
          \/ pc'[h] \notin Ungranted \cup Granted
          \/ pc[h] \in Ungranted /\ pc'[h] \notin Granted
      BY GrantTypes
      DEF ReserveState, RefuseLocally, ReconcileEarlier, ArmAttempt, SendProvision,
          ProvisionTimeout, ReconcileOwn, AnswerWithCode, ReleaseState, AuthorityStep,
          Mint, RejectProvision, FailProvision, Goto, WaiterGoes, Ungranted, Granted
    <2>3. QED
      BY <2>1, <2>2, GrantTypes
  <1>3. \A k \in Callback : k \in codes' => k \in codes \/ pc[k] \in Granted
    BY DEF ReserveState, RefuseLocally, ReconcileEarlier, ArmAttempt, SendProvision,
           ProvisionTimeout, ReconcileOwn, AnswerWithCode, ReleaseState, AuthorityStep,
           Mint, RejectProvision, FailProvision, Granted
  <1>4. /\ \A k \in Callback : pc'[k] \in Ungranted => pc[k] \in Ungranted
        /\ \A k \in Callback : pc'[k] \in Granted \/ k \in codes' => pc[k] \in Granted \/ k \in codes
    BY <1>2, <1>3, GrantTypes
  <1>5. GrantIsKept' /\ PriorGrantsWaitForCommit' /\ GrantsAge
    BY <1>1, <1>4, GrantStep DEF OnlyReplaced
  <1>6. ListedIsWritten'
    BY <1>1, <1>5, OutboxStep, WrittenStep, StoreTypes DEF StoreInv, GrantInv, ListedIsWritten, GrantsAge
  <1>7. QED
    BY <1>5, <1>6 DEF GrantInv

\* A request lists others' grants: its own is not written yet.
LEMMA ListKeepsGrants ==
  ASSUME CallbackTypeOK, StoreInv, WinInv, GrantInv, NEW h \in Callback, ListGrants(h)
  PROVE  GrantInv'
  <1>1. /\ pc[h] = "provisioned" /\ UNCHANGED <<grants, winner, job, outbox, codes>>
    BY DEF ListGrants, storeVars, storedVars, historyVars
  <1>2. PICK to \in {"listed", "reconcile"} : pc' = [pc EXCEPT ![h] = to]
    BY DEF ListGrants, Goto
  <1>3. /\ \A k \in Callback : pc'[k] \in Ungranted => pc[k] \in Ungranted
        /\ \A k \in Callback : pc'[k] \in Granted => pc[k] \in Granted
    BY <1>1, <1>2, GrantTypes DEF Ungranted, Granted
  <1>4. GrantIsKept' /\ PriorGrantsWaitForCommit'
    BY <1>1, <1>3, GrantStep DEF OnlyReplaced
  <1>5. grants[h] = "absent"
    BY <1>1 DEF GrantInv, GrantIsKept, Ungranted
  <1>6. \A k \in Callback : listed'[k] = listed[k] \/ \A g \in listed'[k] : g # h /\ grants[g] # "absent"
    BY <1>5, GrantTypes DEF ListGrants
  <1>7. \A k \in Callback : listed'[k] = listed[k] \/ k = h
    BY GrantTypes DEF ListGrants
  <1>8. \A k \in Callback : k \notin listed'[k] /\ \A g \in listed'[k] : grants'[g] # "absent"
    BY <1>1, <1>6, <1>7 DEF GrantInv, ListedIsWritten
  <1>9. ListedIsWritten'
    BY <1>1, <1>8 DEF GrantInv, ListedIsWritten
  <1>10. QED
    BY <1>4, <1>9 DEF GrantInv

\* The grant is written once, under the callback's own name.
LEMMA CompleteKeepsGrants ==
  ASSUME CallbackTypeOK, StoreInv, WinInv, GrantInv, NEW h \in Callback, CompleteAuthorization(h)
  PROVE  GrantInv'
  <1>1. /\ pc[h] = "listed" /\ UNCHANGED <<listed, winner, job, outbox, codes>>
        /\ grants' = [grants EXCEPT ![h] = "live"] \/ grants' = grants
    BY DEF CompleteAuthorization, storeVars, storedVars, historyVars
  <1>2. PICK to \in {"commit1", "reconcile"} :
          pc' = [pc EXCEPT ![h] = to] /\ (to = "commit1" => grants' = [grants EXCEPT ![h] = "live"])
    BY DEF CompleteAuthorization, Goto
  <1>3. grants[h] = "absent" /\ h \notin PriorGrant /\ h \in Grant
    BY <1>1, CallbackConstants DEF GrantInv, GrantIsKept, Ungranted
  <1>4. /\ GrantsAge
        /\ \A g \in Grant : g # h => grants'[g] = grants[g]
    BY <1>1, <1>3, GrantTypes DEF GrantsAge
  <1>5. GrantIsKept'
    <2> SUFFICES ASSUME NEW k \in Callback
                 PROVE  /\ pc'[k] \in Ungranted => grants'[k] = "absent"
                        /\ pc'[k] \in Granted \/ k \in codes' =>
                             grants'[k] = "live" \/ winner' \notin {None, k}
      BY DEF GrantIsKept
    <2>1. CASE k # h
      <3>1. pc'[k] = pc[k] /\ grants'[k] = grants[k]
        BY <1>2, <1>4, <2>1, GrantTypes, CallbackConstants
      <3>2. QED
        BY <1>1, <3>1 DEF GrantInv, GrantIsKept
    <2>2. CASE k = h
      <3>1. h \notin codes /\ pc'[h] = to
        BY <1>1, <1>2, GrantTypes DEF WinInv, WinnerHasCommitted
      <3>2. QED
        BY <1>1, <1>2, <1>3, <2>2, <3>1, GrantTypes DEF Ungranted, Granted
    <2>3. QED
      BY <2>1, <2>2
  <1>6. PriorGrantsWaitForCommit'
    BY <1>1, <1>3, <1>4, CallbackConstants DEF GrantInv, PriorGrantsWaitForCommit
  <1>7. ListedIsWritten'
    <2>1. /\ outbox'.grants \subseteq outbox.grants
          /\ job'.kind = "replace" =>
               /\ job'.waiting \subseteq outbox'.grants
               /\ \A g \in job'.acked : job.kind = "replace" /\ g \in job.acked /\ g \in Grant
      BY <1>1, StoreTypes, CallbackConstants DEF StoreInv, GrantInv, ListedIsWritten
    <2>2. QED
      BY <1>1, <1>4, <2>1, WrittenStep
  <1>8. QED
    BY <1>5, <1>6, <1>7 DEF GrantInv

\* An aborted attempt revokes no grant but its own.
LEMMA AbortKeepsGrants ==
  ASSUME CallbackTypeOK, StoreInv, WinInv, GrantInv, NEW h \in Callback, AbortAttempt(h)
  PROVE  GrantInv'
  <1>1. /\ pc[h] = "abort" /\ UNCHANGED <<listed, winner, job, outbox, codes>>
        /\ grants' = [grants EXCEPT ![h] = "revoked"] \/ grants' = grants
    BY DEF AbortAttempt, storeVars, storedVars, historyVars
  <1>2. PICK to \in {"release_clean", "release_unknown"} : pc' = [pc EXCEPT ![h] = to]
    BY DEF AbortAttempt, Goto
  <1>3. h \notin PriorGrant /\ h \in Grant
    BY CallbackConstants
  <1>4. /\ GrantsAge
        /\ \A g \in Grant : g # h => grants'[g] = grants[g]
    BY <1>1, <1>3, GrantTypes DEF GrantsAge
  <1>5. GrantIsKept'
    <2> SUFFICES ASSUME NEW k \in Callback
                 PROVE  /\ pc'[k] \in Ungranted => grants'[k] = "absent"
                        /\ pc'[k] \in Granted \/ k \in codes' =>
                             grants'[k] = "live" \/ winner' \notin {None, k}
      BY DEF GrantIsKept
    <2>1. CASE k # h
      <3>1. pc'[k] = pc[k] /\ grants'[k] = grants[k]
        BY <1>2, <1>4, <2>1, GrantTypes, CallbackConstants
      <3>2. QED
        BY <1>1, <3>1 DEF GrantInv, GrantIsKept
    <2>2. CASE k = h
      <3>1. h \notin codes /\ pc'[h] = to
        BY <1>1, <1>2, GrantTypes DEF WinInv, WinnerHasCommitted
      <3>2. QED
        BY <1>1, <2>2, <3>1 DEF Ungranted, Granted
    <2>3. QED
      BY <2>1, <2>2
  <1>6. PriorGrantsWaitForCommit'
    BY <1>1, <1>3, <1>4, CallbackConstants DEF GrantInv, PriorGrantsWaitForCommit
  <1>7. ListedIsWritten'
    <2>1. /\ outbox'.grants \subseteq outbox.grants
          /\ job'.kind = "replace" =>
               /\ job'.waiting \subseteq outbox'.grants
               /\ \A g \in job'.acked : job.kind = "replace" /\ g \in job.acked /\ g \in Grant
      BY <1>1, StoreTypes, CallbackConstants DEF StoreInv, GrantInv, ListedIsWritten
    <2>2. QED
      BY <1>1, <1>4, <2>1, WrittenStep
  <1>8. QED
    BY <1>5, <1>6, <1>7 DEF GrantInv

\* A commit queues what its request listed, which is never its own grant.
LEMMA CommitKeepsGrants ==
  ASSUME CallbackTypeOK, StoreInv, WinInv, GrantInv, [StoreNext]_<<now, storeVars>>,
         NEW h \in Callback, CommitState(h) \/ LateCommit(h)
  PROVE  GrantInv'
  <1>1. /\ UNCHANGED <<grants, listed, codes>>
        /\ \/ \E P, reply : P \subseteq listed[h] /\ Commit(h, P, reply)
           \/ UNCHANGED <<now, storeVars>>
    BY DEF CommitState, LateCommit, Queued
  <1>2. job' = job /\ (winner' = winner \/ winner = None)
    BY <1>1
    DEF Commit, CanCommit, Pending, StoreInv, WinnerEndsPending, storeVars, historyVars
  <1>3. PICK to \in {"won", "abort", "commit2"} :
          pc' = pc \/ (pc' = [pc EXCEPT ![h] = to] /\ pc[h] \in {"commit1", "commit2"})
    BY DEF CommitState, LateCommit, AfterLostRound, Goto
  <1>4. /\ \A k \in Callback : pc'[k] \in Ungranted => pc[k] \in Ungranted
        /\ \A k \in Callback : pc'[k] \in Granted => pc[k] \in Granted
    BY <1>3, GrantTypes DEF Ungranted, Granted
  <1>5. GrantIsKept' /\ PriorGrantsWaitForCommit' /\ GrantsAge
    BY <1>1, <1>2, <1>4, GrantStep DEF OnlyReplaced
  <1>6. CASE winner' = winner
    BY <1>1, <1>2, <1>5, <1>6, OutboxStep, WrittenStep, StoreTypes
    DEF StoreInv, GrantInv, ListedIsWritten, GrantsAge
  <1>7. CASE winner' # winner
    <2>1. PICK P : /\ P \subseteq listed[h] /\ CanCommit(h) /\ winner' = h /\ Idle
                   /\ IF P = {} THEN outbox' = outbox
                                ELSE outbox' = [grants |-> P, notAfter |-> now + ReconcileHorizon]
      BY <1>1, <1>7 DEF Commit, storeVars, historyVars
    <2>2. outbox = NoOutbox /\ NoOutbox.grants = {} /\ job'.kind = "none"
      BY <1>2, <2>1, OutboxAndJobFacts
      DEF CanCommit, Pending, StoreInv, WinnerEndsPending, NoOutbox, Idle
    <2>3. outbox'.grants \subseteq listed[h]
      BY <2>1, <2>2
    <2>4. h \notin listed[h] /\ \A g \in listed[h] : grants[g] # "absent"
      BY DEF GrantInv, ListedIsWritten
    <2>5. winner' \notin outbox'.grants /\ \A g \in outbox'.grants : grants'[g] # "absent"
      BY <1>1, <2>1, <2>3, <2>4
    <2>6. ListedIsWritten'
      BY <1>1, <2>2, <2>5 DEF GrantInv, ListedIsWritten
    <2>7. QED
      BY <1>5, <2>6 DEF GrantInv
  <1>8. QED
    BY <1>5, <1>6, <1>7 DEF GrantInv
\* The committed request replaces what it listed.
LEMMA ReplaceKeepsGrants ==
  ASSUME CallbackTypeOK, StoreInv, WinInv, GrantInv, NEW h \in Callback, ReplaceInline(h)
  PROVE  GrantInv'
  <1>1. /\ pc[h] = "won" /\ UNCHANGED <<listed, winner, job, outbox, codes>>
        /\ pc' = [pc EXCEPT ![h] = "replaced"]
    BY DEF ReplaceInline, Goto, storeVars, storedVars, historyVars
  <1>2. winner = h /\ h # None /\ h \notin listed[h] /\ \A g \in listed[h] : grants[g] # "absent"
    BY <1>1, CallbackConstants DEF WinInv, WinnerHasCommitted, GrantInv, ListedIsWritten
  <1>3. OnlyReplaced
    BY <1>2, GrantTypes DEF OnlyReplaced, ReplaceInline
  <1>4. /\ \A k \in Callback : pc'[k] \in Ungranted => pc[k] \in Ungranted
        /\ \A k \in Callback : pc'[k] \in Granted => pc[k] \in Granted
    BY <1>1, GrantTypes DEF Ungranted, Granted
  <1>5. GrantIsKept' /\ PriorGrantsWaitForCommit' /\ GrantsAge
    BY <1>1, <1>3, <1>4, GrantStep
  <1>6. ListedIsWritten'
    <2>1. /\ outbox'.grants \subseteq outbox.grants
          /\ job'.kind = "replace" =>
               /\ job'.waiting \subseteq outbox'.grants
               /\ \A g \in job'.acked : job.kind = "replace" /\ g \in job.acked /\ g \in Grant
      BY <1>1, StoreTypes, CallbackConstants DEF StoreInv, GrantInv, ListedIsWritten
    <2>2. QED
      BY <1>1, <1>5, <2>1, WrittenStep
  <1>7. QED
    BY <1>5, <1>6 DEF GrantInv

\* The alarm replaces what the commit queued.
LEMMA JobCallKeepsGrants ==
  ASSUME CallbackTypeOK, StoreInv, WinInv, GrantInv, JobCall
  PROVE  GrantInv'
  <1>1. UNCHANGED <<pc, codes, listed, winner, outbox>>
    BY DEF JobCall, AlarmRevokes, AlarmSupersedes, JobAnswer, callbackVars, storedVars, historyVars
  <1>2. ASSUME NEW c \in Callback, AlarmRevokes(c) PROVE GrantInv'
    <2>1. UNCHANGED grants /\ job'.kind = "reconcile"
      BY <1>2 DEF AlarmRevokes, JobAnswer
    <2>2. GrantIsKept' /\ PriorGrantsWaitForCommit' /\ GrantsAge
      BY <1>1, <2>1, GrantStep DEF OnlyReplaced
    <2>3. ListedIsWritten'
      BY <1>1, <2>1, <2>2, WrittenStep
    <2>4. QED
      BY <2>2, <2>3 DEF GrantInv
  <1>3. ASSUME NEW g \in Grant, AlarmSupersedes(g) PROVE GrantInv'
    <2>1. /\ job.kind = "replace" /\ g \in job.waiting /\ g \in outbox.grants
          /\ winner # None /\ winner # g /\ grants[g] # "absent"
      BY <1>3
      DEF AlarmSupersedes, JobAnswer, GrantInv, ListedIsWritten, StoreInv, JobMatchesRecord,
          WinnerEndsPending
    <2>2. grants' = grants \/ grants' = [grants EXCEPT ![g] = "revoked"]
      BY <1>3 DEF AlarmSupersedes
    <2>3. OnlyReplaced
      BY <2>1, <2>2, GrantTypes DEF OnlyReplaced
    <2>4. GrantIsKept' /\ PriorGrantsWaitForCommit' /\ GrantsAge
      BY <1>1, <2>3, GrantStep
    <2>5. /\ job'.waiting \subseteq job.waiting
          /\ \A x \in job'.acked : x \in job.acked \/ grants'[x] = "revoked"
      BY <1>3, GrantTypes DEF AlarmSupersedes, JobAnswer
    <2>6. job.acked \subseteq Grant
      BY StoreTypes, CallbackConstants DEF StoreInv
    <2>7. ListedIsWritten'
      BY <1>1, <2>1, <2>4, <2>5, <2>6, WrittenStep DEF GrantInv, ListedIsWritten
    <2>8. QED
      BY <2>4, <2>7 DEF GrantInv
  <1>4. QED
    BY <1>2, <1>3 DEF JobCall

LEMMA StoreAloneKeepsGrants ==
  ASSUME CallbackTypeOK, StoreInv, WinInv, GrantInv, [StoreNext]_<<now, storeVars>>,
         StoreStep \/ UNCHANGED vars
  PROVE  GrantInv'
  <1>1. /\ UNCHANGED <<pc, codes, listed, grants, winner>>
        /\ job' = job \/ AlarmFires \/ JobFinish \/ StoreCrash
    BY DEF StoreStep, StoreAlone, PutState, AlarmFires, JobFinish, StoreCrash, Tick, vars,
           callbackVars, storeVars, historyVars
  <1>2. GrantIsKept' /\ PriorGrantsWaitForCommit' /\ GrantsAge
    BY <1>1, GrantStep DEF OnlyReplaced
  <1>3. /\ outbox'.grants \subseteq outbox.grants
        /\ job'.kind = "replace" =>
             \/ job' = job /\ outbox' = outbox
             \/ job'.acked = {} /\ job'.waiting \subseteq outbox'.grants
    BY <1>1, OutboxStep
  <1>4. job.acked \subseteq Grant
    BY StoreTypes, CallbackConstants DEF StoreInv
  <1>5. ListedIsWritten'
    BY <1>1, <1>2, <1>3, <1>4, WrittenStep DEF GrantInv, ListedIsWritten
  <1>6. QED
    BY <1>2, <1>5 DEF GrantInv

LEMMA GrantInvStep ==
  ASSUME CallbackTypeOK, StoreInv, WinInv, GrantInv, [Next]_vars
  PROVE  GrantInv'
  <1>1. [StoreNext]_<<now, storeVars>>
    BY StepIsStoreStep
  <1>2. ASSUME NEW h \in Callback, CallbackStep(h) PROVE GrantInv'
    BY <1>1, <1>2, UngrantedStepsKeepGrants, ListKeepsGrants, CompleteKeepsGrants,
       AbortKeepsGrants, CommitKeepsGrants, ReplaceKeepsGrants
    DEF CallbackStep
  <1>3. QED
    BY <1>1, <1>2, CommitKeepsGrants, UngrantedStepsKeepGrants, JobCallKeepsGrants,
       StoreAloneKeepsGrants
    DEF Next

-----------------------------------------------------------------------------
(* The invariant *)

LEMMA CallbackInvInit == Init => CallbackInv
  <1> SUFFICES ASSUME Init PROVE CallbackInv
    OBVIOUS
  <1>1. StoreInv
    BY StoreInvInit DEF Init
  <1>2. CallbackTypeOK
    BY DEF Init, CallbackTypeOK, PC
  <1>3. /\ pc = [h \in Callback |-> "start"] /\ auth = [h \in Callback |-> "unused"] /\ posts = {}
        /\ todo = [h \in Callback |-> {}] /\ proven = [h \in Callback |-> {}]
        /\ listed = [h \in Callback |-> {}] /\ codes = {} /\ lateCommit = {}
        /\ grants = [g \in Grant |-> IF g \in PriorGrant THEN "live" ELSE "absent"]
        /\ status = "none" /\ winner = None /\ job.kind = "none" /\ outbox.grants = {}
    BY OutboxAndJobFacts DEF Init, StoreInit, NoOutbox
  <1>4. KeyInv
    BY <1>3
    DEF KeyInv, PostsAreFresh, ProofsAreTombstones, RiskIsTracked, OneAtRisk, AtRisk,
        DeadlineIsLate, OpenedFirst
  <1>5. WinInv
    BY <1>3, CallbackConstants
    DEF WinInv, TodoIsSuperseded, KeyIsKept, Keyed, WinnerHasCommitted
  <1>6. GrantInv
    BY <1>3, CallbackConstants
    DEF GrantInv, ListedIsWritten, GrantIsKept, Granted, PriorGrantsWaitForCommit
  <1>7. QED
    BY <1>1, <1>2, <1>4, <1>5, <1>6, TypeOKSplits DEF CallbackInv, StoreInv

LEMMA CallbackInvStep == CallbackInv /\ [Next]_vars => CallbackInv'
  <1> SUFFICES ASSUME CallbackInv, [Next]_vars PROVE CallbackInv'
    OBVIOUS
  <1>1. CallbackTypeOK /\ StoreInv /\ KeyInv /\ WinInv /\ GrantInv
    BY TypeOKSplits DEF CallbackInv
  <1>2. StoreInv'
    BY <1>1, StepIsStoreStep, StoreInvStep
  <1>3. CallbackTypeOK'
    BY <1>1, <1>2, CallbackTypeStep DEF StoreInv
  <1>4. KeyInv' /\ WinInv' /\ GrantInv'
    BY <1>1, KeyInvStep, WinInvStep, GrantInvStep
  <1>5. QED
    BY <1>2, <1>3, <1>4, TypeOKSplits DEF CallbackInv, StoreInv

LEMMA CallbackInvariant == Spec => []CallbackInv
  BY CallbackInvInit, CallbackInvStep, PTL DEF Spec

(***************************************************************************)
(* Every variable of the callbacks, of the store, of the authority and of  *)
(* the provider keeps its type.                                            *)
(***************************************************************************)
THEOREM CallbackTypeCorrect == Spec => []TypeOK
  <1>1. CallbackInv => TypeOK
    BY DEF CallbackInv
  <1>2. QED
    BY <1>1, CallbackInvariant, PTL

(***************************************************************************)
(* The callback handlers, the authority and the alarm use the state store  *)
(* by its operations only: what the store promises any caller it promises  *)
(* the protocol.                                                           *)
(***************************************************************************)
THEOREM CallbackUsesStore == Spec => StoreSpec
  <1>1. Init => StoreInit
    BY DEF Init
  <1>2. TypeOK /\ [Next]_vars => [StoreNext]_<<now, storeVars>>
    BY StepIsStoreStep, TypeOKSplits
  <1>3. QED
    BY <1>1, <1>2, CallbackTypeCorrect, PTL DEF Spec, StoreSpec

LEMMA HoldersAreAtRisk ==
  ASSUME CallbackTypeOK
  PROVE  \A h \in Callback : MayHoldKey(h) => AtRisk(h)
  BY CallbackTypes DEF MayHoldKey, AtRisk

(***************************************************************************)
(* However leases are taken over, POSTs land and proofs arrive, two        *)
(* attempts of one login never hold, or can still be given, an API key at  *)
(* the same time (auth-handler.ts, the reconcile loop and the arming).     *)
(***************************************************************************)
THEOREM OneLoginOneCredential == Spec => []OneLiveCredential
  <1>1. CallbackInv => OneLiveCredential
    BY HoldersAreAtRisk, TypeOKSplits DEF CallbackInv, KeyInv, OneAtRisk, OneLiveCredential
  <1>2. QED
    BY <1>1, CallbackInvariant, PTL

(***************************************************************************)
(* An attempt that may hold a key has committed or stays listed in the     *)
(* stored state, for the alarm or a later callback to revoke, until the    *)
(* horizon past which the key has expired.                                 *)
(***************************************************************************)
THEOREM NoCredentialIsForgotten == Spec => []NoUntrackedCredential
  <1>1. CallbackInv => NoUntrackedCredential
    BY HoldersAreAtRisk, TypeOKSplits
    DEF CallbackInv, KeyInv, RiskIsTracked, Watched, Tracked, NoUntrackedCredential
  <1>2. QED
    BY <1>1, CallbackInvariant, PTL

LEMMA InvGivesUsableCode == CallbackInv => CodeIsUsable
  <1> SUFFICES ASSUME CallbackInv, NEW h \in codes
               PROVE  codes = {h} /\ winner = h /\ auth[h] = "active" /\ grants[h] = "live"
    BY DEF CodeIsUsable
  <1>1. codes \in SUBSET Callback
    BY DEF CallbackInv, TypeOK
  <1>2. \A k \in codes : winner = k
    BY <1>1 DEF CallbackInv, WinInv, WinnerHasCommitted
  <1>3. auth[h] = "active"
    BY <1>1, <1>2 DEF CallbackInv, WinInv, KeyIsKept, Superseded
  <1>4. grants[h] = "live"
    BY <1>1, <1>2 DEF CallbackInv, GrantInv, GrantIsKept
  <1>5. QED
    BY <1>2, <1>3, <1>4

(***************************************************************************)
(* One login answers with at most one code, of the request that committed, *)
(* and no other request and no alarm has revoked that request's key or its *)
(* grant: an old attempt is revoked only after its lease was taken over,   *)
(* and a grant only after another request's commit.                        *)
(***************************************************************************)
THEOREM IssuedCodeIsUsable == Spec => []CodeIsUsable
  BY InvGivesUsableCode, CallbackInvariant, PTL

(***************************************************************************)
(* No grant the user held before is replaced until some request of this    *)
(* login has committed.                                                    *)
(***************************************************************************)
THEOREM PriorGrantsOutliveFailedLogins == Spec => []PriorGrantsWaitForCommit
  <1>1. CallbackInv => PriorGrantsWaitForCommit
    BY DEF CallbackInv, GrantInv
  <1>2. QED
    BY <1>1, CallbackInvariant, PTL
-----------------------------------------------------------------------------
(* What leaves the outbox *)

\* The outbox exists while the state is committed: only its release, the
\* horizon and the alarm's acknowledgements take grants out of it.
LEMMA OutboxLosses ==
  ASSUME StoreInv, NEW g \in outbox.grants \ outbox'.grants
  PROVE  /\ \A h, reply : ~Reserve(h, reply)
         /\ \A h, P, reply : ~Arm(h, P, reply) /\ ~Commit(h, P, reply)
         /\ \A h, outcome : Release(h, outcome) => winner = h
         /\ AlarmFires => now >= outbox.notAfter
         /\ JobFinish => job.kind = "replace" /\ g \in job.acked
         /\ ~UNCHANGED outbox
  <1>1. NoOutbox.grants = {} /\ outbox # NoOutbox
    BY OutboxAndJobFacts DEF NoOutbox
  <1>2. status = "committed" /\ Readable /\ committedBy = winner
    BY <1>1 DEF StoreInv, WinnerEndsPending, StoredRecordIsReadable
  <1>3. ~UNCHANGED outbox
    OBVIOUS
  <1>4. ASSUME NEW h, NEW reply, Reserve(h, reply) PROVE FALSE
    BY <1>2, <1>3, <1>4 DEF Reserve, RefuseReserve, GrantLease, Pending
  <1>5. ASSUME NEW h, NEW P, NEW reply, Arm(h, P, reply) PROVE FALSE
    BY <1>3, <1>5 DEF Arm
  <1>6. ASSUME NEW h, NEW P, NEW reply, Commit(h, P, reply) PROVE FALSE
    BY <1>2, <1>3, <1>6 DEF Commit, CanCommit, Pending, storedVars
  <1>7. ASSUME NEW h, NEW outcome, Release(h, outcome) PROVE winner = h
    BY <1>2, <1>3, <1>7 DEF Release, Pending, CommittedBy, storedVars
  <1>8. ASSUME AlarmFires PROVE now >= outbox.notAfter
    <2>1. StartReplacement
      BY <1>1, <1>8 DEF AlarmFires, StartReconcile
    <2>2. QED
      BY <1>3, <2>1 DEF StartReplacement
  <1>9. ASSUME JobFinish PROVE job.kind = "replace" /\ g \in job.acked
    <2>1. job.kind = "replace"
      BY <1>1, <1>9 DEF JobFinish, StoreInv, JobMatchesRecord
    <2>2. CASE outbox.grants \subseteq job.acked
      BY <2>1, <2>2
    <2>3. CASE outbox' = [outbox EXCEPT !.grants = @ \ job.acked]
      <3>1. outbox \in [grants : SUBSET Grant, notAfter : Nat]
        BY DEF StoreInv, StoreTypeOK
      <3>2. outbox'.grants = outbox.grants \ job.acked
        BY <2>3, <3>1
      <3>3. QED
        BY <2>1, <3>2
    <2>4. QED
      BY <1>9, <2>1, <2>2, <2>3 DEF JobFinish
  <1>10. QED
    BY <1>3, <1>4, <1>5, <1>6, <1>7, <1>8, <1>9

(***************************************************************************)
(* A queued grant leaves the outbox only when the provider acknowledged    *)
(* its replacement, at the horizon, or when the request whose commit       *)
(* queued it releases (oauth-state-store.ts, alarm() and /release):        *)
(* crashes, retries and other requests lose none.                          *)
(***************************************************************************)
THEOREM OutboxLosesNoGrant == Spec => OutboxKeepsUnacknowledged
  <1>1. ASSUME CallbackInv, [Next]_vars, NEW g \in outbox.grants \ outbox'.grants
        PROVE  grants[g] = "revoked" \/ now >= outbox.notAfter \/ pc'[winner] = "released"
    <2>1. CallbackTypeOK /\ StoreInv /\ GrantInv
      BY <1>1, TypeOKSplits DEF CallbackInv
    <2>2. ASSUME NEW h \in Callback, ReleaseState(h) PROVE pc'[winner] = "released"
      <3>1. Release(h, IF pc[h] = "release_clean" THEN "clean" ELSE "unknown")
            /\ pc' = [pc EXCEPT ![h] = "released"]
        BY <2>1, <2>2, OutboxLosses DEF ReleaseState, Goto, storeVars, storedVars
      <3>2. winner = h
        BY <2>1, <3>1, OutboxLosses
      <3>3. QED
        BY <2>1, <3>1, <3>2, GrantTypes
    <2>3. ASSUME NEW h \in Callback, CallbackStep(h), ~ReleaseState(h) PROVE FALSE
      BY <2>1, <2>3, OutboxLosses
      DEF CallbackStep, ReserveState, RefuseLocally, ReconcileEarlier, ArmAttempt, SendProvision,
          ProvisionTimeout, ReconcileOwn, ListGrants, CompleteAuthorization, CommitState,
          AbortAttempt, ReplaceInline, AnswerWithCode, storeVars, storedVars
    <2>4. ASSUME NEW h \in Callback, LateCommit(h) \/ AuthorityStep(h) PROVE FALSE
      BY <2>1, <2>4, OutboxLosses
      DEF LateCommit, AuthorityStep, Mint, RejectProvision, FailProvision, storeVars, storedVars
    <2>5. ASSUME JobCall \/ UNCHANGED vars PROVE FALSE
      BY <2>1, <2>5, OutboxLosses
      DEF JobCall, AlarmRevokes, AlarmSupersedes, JobAnswer, vars, storeVars, storedVars
    <2>6. ASSUME StoreStep PROVE grants[g] = "revoked" \/ now >= outbox.notAfter
      <3>1. AlarmFires \/ JobFinish
        BY <2>1, <2>6, OutboxLosses
        DEF StoreStep, StoreAlone, PutState, StoreCrash, Tick, storeVars, storedVars
      <3>2. QED
        BY <2>1, <3>1, OutboxLosses DEF GrantInv, ListedIsWritten
    <2>7. QED
      BY <1>1, <2>2, <2>3, <2>4, <2>5, <2>6 DEF Next
  <1>2. CallbackInv /\ [Next]_vars =>
          [\A g \in outbox.grants \ outbox'.grants :
              \/ grants[g] = "revoked"
              \/ now >= outbox.notAfter
              \/ pc'[winner] = "released"]_vars
    BY <1>1
  <1>3. QED
    BY <1>2, CallbackInvariant, PTL DEF Spec, OutboxKeepsUnacknowledged
-----------------------------------------------------------------------------
(* The protocol implements a single-use authorization *)

Holders == {h \in Callback : MayHoldKey(h)}

\* Attempts gain a key by sending their POST only, and at most one has one.
LEMMA HoldersShrink ==
  ASSUME CallbackTypeOK, posts' \subseteq posts,
         \/ auth' = auth
         \/ \E c \in Callback : Tombstone(c)
         \/ \E h \in Callback : Mint(h)
  PROVE  Holders' \subseteq Holders
  <1> SUFFICES ASSUME NEW k \in Callback, MayHoldKey(k)' PROVE MayHoldKey(k)
    BY DEF Holders
  <1>1. auth'[k] = auth[k] \/ (k \in posts /\ auth[k] = "unused")
    BY CallbackTypes DEF MayHoldKey, Tombstone, Mint
  <1>2. QED
    BY <1>1 DEF MayHoldKey

\* Who has answered keeps its key, so whoever loses it may.
LEMMA ShrinkImplements ==
  ASSUME CallbackInv, CallbackInv', Holders' \subseteq Holders, UNCHANGED <<winner, codes>>
  PROVE  [OneShot!Next]_OneShot!vars
  <1>1. \A h, k \in Holders : h = k
    BY HoldersAreAtRisk, TypeOKSplits DEF CallbackInv, KeyInv, OneAtRisk, Holders
  <1>2. CASE Holders' = Holders
    BY <1>2 DEF OneShot!vars, Holders
  <1>3. CASE Holders' # Holders
    <2>1. PICK a \in Holders : a \notin Holders'
      BY <1>3
    <2>2. a \in Callback /\ ~MayHoldKey(a)'
      BY <2>1 DEF Holders
    <2>3. Holders' = Holders \ {a}
      BY <1>1, <2>1
    <2>4. CodeIsUsable'
      BY InvGivesUsableCode, PTL
    <2>5. a \notin codes
      BY <2>2, <2>4 DEF CodeIsUsable, MayHoldKey
    <2>6. OneShot!GiveUp(a)
      BY <2>1, <2>3, <2>5 DEF OneShot!GiveUp, Holders
    <2>7. QED
      BY <2>2, <2>6 DEF OneShot!Next
  <1>4. QED
    BY <1>2, <1>3

\* Sending is taking one's turn: nobody else holds a key, nobody has won.
LEMMA SendImplements ==
  ASSUME CallbackInv, CallbackInv', NEW h \in Callback, SendProvision(h)
  PROVE  [OneShot!Next]_OneShot!vars
  <1>1. /\ pc[h] = "armed" /\ posts' = posts \cup {h}
        /\ UNCHANGED <<auth, winner, codes>>
    BY DEF SendProvision, storeVars, historyVars
  <1>2. \A k \in Callback : k # h => (MayHoldKey(k)' <=> MayHoldKey(k))
    BY <1>1 DEF MayHoldKey
  <1>3. CASE AtRisk(h)
    <2>1. auth[h] = "unused" /\ h \notin posts
      BY <1>1, <1>3, TypeOKSplits, CallbackTypes
      DEF AtRisk, CallbackInv, KeyInv, PostsAreFresh, Unsent
    <2>2. \A k \in Callback : AtRisk(k) => k = h
      BY <1>3 DEF CallbackInv, KeyInv, OneAtRisk
    <2>3. Holders = {} /\ Holders' = {h}
      BY <1>1, <1>2, <2>1, <2>2, HoldersAreAtRisk, TypeOKSplits DEF CallbackInv, Holders, MayHoldKey
    <2>4. winner = None
      BY <1>1, <1>3
      DEF CallbackInv, KeyInv, RiskIsTracked, Watched, StoreInv, WinnerEndsPending, WinInv,
          WinnerHasCommitted, Uncommitted, Ungranted
    <2>5. OneShot!Acquire(h)
      BY <1>1, <2>3, <2>4 DEF OneShot!Acquire, Holders
    <2>6. QED
      BY <2>5 DEF OneShot!Next
  <1>4. CASE ~AtRisk(h)
    <2>1. ~MayHoldKey(h)'
      BY <1>1, <1>4 DEF AtRisk, MayHoldKey
    <2>2. Holders' \subseteq Holders
      BY <1>2, <2>1 DEF Holders
    <2>3. QED
      BY <1>1, <2>2, ShrinkImplements
  <1>5. QED
    BY <1>3, <1>4

\* A commit finds nobody else with a key.
LEMMA CommitImplements ==
  ASSUME CallbackInv, CallbackInv', NEW h \in Callback, CommitState(h) \/ LateCommit(h)
  PROVE  [OneShot!Next]_OneShot!vars
  <1>1. /\ UNCHANGED <<auth, posts, codes>>
        /\ \/ \E P, reply : Commit(h, P, reply)
           \/ winner' = winner
    BY DEF CommitState, LateCommit, authorityVars, storeVars, historyVars
  <1>2. Holders' = Holders
    BY <1>1 DEF Holders, MayHoldKey
  <1>3. CASE winner' = winner
    BY <1>1, <1>2, <1>3, ShrinkImplements
  <1>4. CASE CanCommit(h) /\ winner' = h
    <2>1. status = "pending" /\ winner = None /\ AttemptsToReconcile = {h}
      BY <1>4
      DEF CanCommit, Pending, HeldBy, AttemptsToReconcile, CallbackInv, StoreInv,
          WinnerEndsPending
    <2>2. Holders \subseteq {h}
      BY <2>1, CallbackConstants, HoldersAreAtRisk, TypeOKSplits
      DEF CallbackInv, KeyInv, RiskIsTracked, Watched, Holders
    <2>3. OneShot!Win(h)
      BY <1>1, <1>2, <1>4, <2>1, <2>2 DEF OneShot!Win, Holders
    <2>4. QED
      BY <2>3 DEF OneShot!Next
  <1>5. QED
    BY <1>1, <1>3, <1>4 DEF Commit

LEMMA AnswerImplements ==
  ASSUME CallbackInv, CallbackInv', NEW h \in Callback, AnswerWithCode(h)
  PROVE  [OneShot!Next]_OneShot!vars
  <1>1. /\ pc[h] = "replaced" /\ codes' = codes \cup {h} /\ UNCHANGED <<auth, posts, winner>>
    BY DEF AnswerWithCode, authorityVars, storeVars, historyVars
  <1>2. winner = h /\ auth[h] = "active"
    BY <1>1 DEF CallbackInv, WinInv, WinnerHasCommitted, KeyIsKept, Keyed, Superseded
  <1>3. codes = {}
    BY <1>1, <1>2 DEF CallbackInv, TypeOK, WinInv, WinnerHasCommitted
  <1>4. \A k \in Callback : MayHoldKey(k) <=> k = h
    BY <1>2, HoldersAreAtRisk, TypeOKSplits DEF CallbackInv, KeyInv, OneAtRisk, MayHoldKey
  <1>5. Holders = {h} /\ Holders' = Holders
    BY <1>1, <1>4 DEF Holders, MayHoldKey
  <1>6. OneShot!Answer(h)
    BY <1>1, <1>2, <1>3, <1>5 DEF OneShot!Answer, Holders
  <1>7. QED
    BY <1>6 DEF OneShot!Next

LEMMA StepImplements ==
  ASSUME CallbackInv, CallbackInv', [Next]_vars
  PROVE  [OneShot!Next]_OneShot!vars
  <1>1. ASSUME NEW h \in Callback,
               \/ ReserveState(h) \/ RefuseLocally(h)
               \/ (\E c \in Callback : ReconcileEarlier(h, c))
               \/ ArmAttempt(h) \/ ProvisionTimeout(h) \/ ReconcileOwn(h) \/ ListGrants(h)
               \/ CompleteAuthorization(h) \/ AbortAttempt(h) \/ ReplaceInline(h)
               \/ ReleaseState(h) \/ AuthorityStep(h)
        PROVE  [OneShot!Next]_OneShot!vars
    <2>1. /\ posts' \subseteq posts /\ UNCHANGED <<winner, codes>>
          /\ auth' = auth \/ (\E c \in Callback : Tombstone(c)) \/ Mint(h)
      BY <1>1
      DEF ReserveState, Reserve, RefuseLocally, ReconcileEarlier, ArmAttempt, Arm,
          ProvisionTimeout, ReconcileOwn, ListGrants, CompleteAuthorization, AbortAttempt,
          ReplaceInline, ReleaseState, Release, AuthorityStep, Mint, RejectProvision,
          FailProvision, authorityVars, storeVars, historyVars
    <2>2. QED
      BY <2>1, HoldersShrink, ShrinkImplements, TypeOKSplits DEF CallbackInv
  <1>2. ASSUME JobCall \/ StoreStep \/ UNCHANGED vars
        PROVE  [OneShot!Next]_OneShot!vars
    <2>1. /\ posts' = posts /\ UNCHANGED <<winner, codes>>
          /\ auth' = auth \/ \E c \in Callback : Tombstone(c)
      BY <1>2
      DEF JobCall, AlarmRevokes, AlarmSupersedes, JobAnswer, StoreStep, StoreAlone, PutState,
          AlarmFires, JobFinish, StoreCrash, Tick, vars, callbackVars, authorityVars, storeVars,
          historyVars
    <2>2. QED
      BY <2>1, HoldersShrink, ShrinkImplements, TypeOKSplits DEF CallbackInv
  <1>3. QED
    BY <1>1, <1>2, SendImplements, CommitImplements, AnswerImplements DEF Next, CallbackStep

(***************************************************************************)
(* The callbacks, the store with its leases, alarm and crashes, and the    *)
(* authority with its late and lost answers together implement a           *)
(* single-use authorization: attempts hold a key in turn, one commits,     *)
(* after which none starts, and only that one answers, once, while it      *)
(* holds its key, which it then keeps.                                     *)
(***************************************************************************)
THEOREM CallbacksImplementOneShot == Spec => ImplementsOneShot
  <1>1. Init => OneShot!Init
    BY DEF Init, StoreInit, OneShot!Init, MayHoldKey
  <1>2. QED
    BY <1>1, StepImplements, CallbackInvariant, PTL DEF Spec, ImplementsOneShot, OneShot!Spec
=============================================================================
