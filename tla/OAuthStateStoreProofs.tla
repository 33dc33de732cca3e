------------------------ MODULE OAuthStateStoreProofs ------------------------
(***************************************************************************)
(* Proofs about the state store for any number of callback requests, any   *)
(* lifetimes and any callers.                                              *)
(***************************************************************************)
EXTENDS OAuthStateStore, FiniteSetTheorems, TLAPS

(***************************************************************************)
(* The strengthening that is inductive: a lease is exactly its holder; the *)
(* record names only leases that were drawn; a running alarm() knows what  *)
(* it read; nothing is pending once a lease has committed.                 *)
(***************************************************************************)
LeaseIsItsHolder == lease.holder = None => lease = NoLease

NamesMinted ==
  /\ lease.holder # None => lease.holder \in minted
  /\ unreconciled \subseteq minted
  /\ lease.holder \notin unreconciled
  /\ winner # None => winner \in minted

JobMatchesRecord ==
  /\ job.kind = "none" => job = NoJob
  /\ job.kind = "reconcile" =>
       /\ status = "pending"
       /\ lease = NoLease
       /\ job.waiting \subseteq unreconciled
       /\ outbox = NoOutbox
  /\ job.kind = "replace" => status = "committed"

WinnerEndsPending ==
  /\ status = "pending" => winner = None
  /\ status = "committed" => committedBy = winner /\ winner # None
  /\ outbox # NoOutbox => status = "committed"
  /\ ~opened => winner = None /\ status = "none" /\ minted = {}
  /\ status = "none" => lease = NoLease /\ unreconciled = {} /\ committedBy = None /\ attempts = 0

StoreInv ==
  /\ StoreTypeOK
  /\ StoredRecordIsReadable
  /\ ArmedLeaseIsAlone
  /\ WorkHasAlarm
  /\ LeaseIsItsHolder
  /\ NamesMinted
  /\ JobMatchesRecord
  /\ WinnerEndsPending

-----------------------------------------------------------------------------
(* Constants and constructors *)

LEMMA ConstantFacts ==
  /\ IsFiniteSet(Callback)
  /\ None \notin Callback /\ None \notin Grant /\ None \notin Nat
  /\ StateTTL \in Nat /\ LeaseTTL \in Nat /\ ArmMinRemaining \in Nat
  /\ MaxAttempts \in Nat /\ ReconcileHorizon \in Nat
  /\ \A d \in RetryDelays : d \in Nat
  BY StoreAssumption

LEMMA LeaseFacts ==
  /\ NoLease \in LeaseType
  /\ NoLease.holder = None /\ NoLease.armed = FALSE
  /\ \A h \in Callback, armed \in BOOLEAN : now \in Nat =>
       /\ NewLease(h, armed) \in LeaseType
       /\ NewLease(h, armed).holder = h
       /\ NewLease(h, armed).armed = armed
       /\ NewLease(h, armed) # NoLease
  BY ConstantFacts DEF NoLease, NewLease, LeaseType

LEMMA OutboxAndJobFacts ==
  /\ NoOutbox \in [grants : SUBSET Grant, notAfter : Nat]
  /\ NoJob \in [kind : {"none", "replace", "reconcile"},
                waiting : SUBSET (Callback \cup Grant),
                acked : SUBSET (Callback \cup Grant)]
  /\ NoJob.kind = "none"
  BY DEF NoOutbox, NoJob

(* Every set of unproven attempts has a size, bounded as sets grow and shrink. *)
LEMMA AttemptsAreCounted ==
  ASSUME NEW u \in SUBSET Callback
  PROVE  /\ IsFiniteSet(u)
         /\ Cardinality(u) \in Nat
         /\ \A h : Cardinality(u \cup {h}) \in Nat /\ Cardinality(u \cup {h}) <= Cardinality(u) + 1
         /\ \A v \in SUBSET u : Cardinality(v) \in Nat /\ Cardinality(v) <= Cardinality(u)
  <1>1. IsFiniteSet(u) /\ Cardinality(u) \in Nat
    BY ConstantFacts, FS_Subset, FS_CardinalityType
  <1>2. ASSUME NEW h
        PROVE  Cardinality(u \cup {h}) \in Nat /\ Cardinality(u \cup {h}) <= Cardinality(u) + 1
    <2>1. Cardinality(u \cup {h}) = IF h \in u THEN Cardinality(u) ELSE Cardinality(u) + 1
      BY <1>1, FS_AddElement
    <2>2. QED
      BY <1>1, <2>1
  <1>3. ASSUME NEW v \in SUBSET u
        PROVE  Cardinality(v) \in Nat /\ Cardinality(v) <= Cardinality(u)
    BY <1>1, FS_Subset, FS_CardinalityType
  <1>4. QED
    BY <1>1, <1>2, <1>3

(* Once a pending lease is dropped the unproven attempts still fit the     *)
(* reservations that were made.                                            *)
LEMMA DroppedLeaseFits ==
  ASSUME StoreInv, Pending
  PROVE  /\ AttemptsToReconcile \in SUBSET Callback
         /\ AttemptsToReconcile \subseteq minted
         /\ lease.holder \in Callback \/ AttemptsToReconcile = unreconciled
         /\ Cardinality(AttemptsToReconcile) \in Nat
         /\ Cardinality(AttemptsToReconcile) <= attempts
         /\ attempts \in Nat /\ attempts <= MaxAttempts
  <1>1. /\ unreconciled \in SUBSET Callback
        /\ lease \in LeaseType /\ lease.armed \in BOOLEAN
        /\ attempts \in Nat /\ attempts <= MaxAttempts
        /\ Cardinality(unreconciled) + (IF lease = NoLease THEN 0 ELSE 1) <= attempts
    BY DEF StoreInv, StoreTypeOK, Pending, Readable, LeaseType
  <1>2. CASE lease.armed
    <2>1. lease # NoLease
      BY <1>2, LeaseFacts
    <2>2. lease.holder \in Callback /\ lease.holder \in minted
      BY <1>1, <2>1 DEF StoreInv, LeaseIsItsHolder, NamesMinted, LeaseType
    <2>3. AttemptsToReconcile = unreconciled \cup {lease.holder}
      BY <1>2 DEF AttemptsToReconcile
    <2>4. Cardinality(unreconciled) + 1 <= attempts
      BY <1>1, <2>1
    <2>5. /\ Cardinality(unreconciled) \in Nat
          /\ Cardinality(AttemptsToReconcile) \in Nat
          /\ Cardinality(AttemptsToReconcile) <= Cardinality(unreconciled) + 1
      BY <1>1, <2>3, AttemptsAreCounted, Zenon
    <2>6. AttemptsToReconcile \subseteq minted
      BY <2>2, <2>3 DEF StoreInv, NamesMinted
    <2>7. AttemptsToReconcile \in SUBSET Callback
      BY <1>1, <2>2, <2>3
    <2>8. QED
      BY <1>1, <2>2, <2>4, <2>5, <2>6, <2>7
  <1>3. CASE ~lease.armed
    <2>1. AttemptsToReconcile = unreconciled
      BY <1>3 DEF AttemptsToReconcile
    <2>2. QED
      BY <1>1, <2>1, AttemptsAreCounted DEF StoreInv, NamesMinted
  <1>4. QED
    BY <1>1, <1>2, <1>3

-----------------------------------------------------------------------------
(* The invariant holds at first and every operation keeps it *)

LEMMA StoreInvInit == StoreInit => StoreInv
  <1> SUFFICES ASSUME StoreInit PROVE StoreInv
    OBVIOUS
  <1>1. StoreTypeOK
    BY LeaseFacts, OutboxAndJobFacts DEF StoreInit, StoreTypeOK
  <1>2. StoredRecordIsReadable /\ ArmedLeaseIsAlone /\ WorkHasAlarm /\ LeaseIsItsHolder
    BY LeaseFacts
    DEF StoreInit, StoredRecordIsReadable, ArmedLeaseIsAlone, WorkHasAlarm, LeaseIsItsHolder
  <1>3. NamesMinted /\ JobMatchesRecord /\ WinnerEndsPending
    BY LeaseFacts, OutboxAndJobFacts
    DEF StoreInit, NamesMinted, JobMatchesRecord, WinnerEndsPending
  <1>4. QED
    BY <1>1, <1>2, <1>3 DEF StoreInv

LEMMA PutStateKeepsInv ==
  ASSUME StoreInv, PutState
  PROVE  StoreInv'
  <1>1. /\ now \in Nat /\ job = NoJob
        /\ lease = NoLease /\ unreconciled = {} /\ committedBy = None /\ attempts = 0
        /\ winner = None /\ minted = {} /\ outbox = NoOutbox
    BY DEF StoreInv, StoreTypeOK, PutState, Idle, WinnerEndsPending
  <1>2. StoreTypeOK'
    BY <1>1, ConstantFacts DEF StoreInv, StoreTypeOK, PutState
  <1>3. StoredRecordIsReadable'
    <2>1. Cardinality({}) = 0
      BY FS_EmptySet
    <2>2. QED
      BY <1>1, <2>1, ConstantFacts DEF StoredRecordIsReadable, Readable, PutState
  <1>4. ArmedLeaseIsAlone' /\ WorkHasAlarm' /\ LeaseIsItsHolder'
    BY <1>1, ConstantFacts, LeaseFacts
    DEF ArmedLeaseIsAlone, WorkHasAlarm, LeaseIsItsHolder, PutState
  <1>5. NamesMinted' /\ JobMatchesRecord' /\ WinnerEndsPending'
    BY <1>1, ConstantFacts, LeaseFacts, OutboxAndJobFacts
    DEF NamesMinted, JobMatchesRecord, WinnerEndsPending, PutState
  <1>6. QED
    BY <1>2, <1>3, <1>4, <1>5 DEF StoreInv

(* The clock may move and an awaiting alarm() may stop without a trace.    *)
LEMMA FrameKeepsInv ==
  ASSUME StoreInv, now' \in Nat, job' = job \/ job' = NoJob,
         UNCHANGED <<storedVars, historyVars>>
  PROVE  StoreInv'
  <1>1. UNCHANGED <<status, expiresAt, attempts, lease, unreconciled, committedBy, outbox,
                    alarm, opened, minted, winner>>
    BY DEF storedVars, rec, historyVars
  <1>2. StoreTypeOK'
    BY <1>1, OutboxAndJobFacts DEF StoreInv, StoreTypeOK
  <1>3. StoredRecordIsReadable' /\ ArmedLeaseIsAlone' /\ WorkHasAlarm' /\ LeaseIsItsHolder'
    BY <1>1
    DEF StoreInv, StoredRecordIsReadable, Readable, ArmedLeaseIsAlone, WorkHasAlarm,
        LeaseIsItsHolder
  <1>4. NamesMinted' /\ JobMatchesRecord' /\ WinnerEndsPending'
    BY <1>1, OutboxAndJobFacts DEF StoreInv, NamesMinted, JobMatchesRecord, WinnerEndsPending
  <1>5. QED
    BY <1>2, <1>3, <1>4 DEF StoreInv

(* Deleting everything, whoever does it, keeps the invariant: nothing is   *)
(* left to track.                                                          *)
LEMMA DeleteAllKeepsInv ==
  ASSUME StoreInv, DeleteAll, alarm' \in Nat \cup {None}, job' = NoJob,
         UNCHANGED <<now, historyVars>>, opened
  PROVE  StoreInv'
  <1>1. /\ now' = now /\ opened' = opened /\ minted' = minted /\ winner' = winner
        /\ status' = "none" /\ expiresAt' = 0 /\ attempts' = 0
        /\ lease' = NoLease /\ unreconciled' = {} /\ committedBy' = None
        /\ outbox' = NoOutbox
    BY DEF DeleteAll, historyVars
  <1>2. StoreTypeOK'
    BY <1>1, LeaseFacts, OutboxAndJobFacts DEF StoreInv, StoreTypeOK
  <1>3. StoredRecordIsReadable' /\ ArmedLeaseIsAlone' /\ WorkHasAlarm' /\ LeaseIsItsHolder'
    BY <1>1, LeaseFacts DEF StoredRecordIsReadable, ArmedLeaseIsAlone, WorkHasAlarm, LeaseIsItsHolder
  <1>4. NamesMinted' /\ JobMatchesRecord' /\ WinnerEndsPending'
    BY <1>1, LeaseFacts, OutboxAndJobFacts
    DEF StoreInv, NamesMinted, JobMatchesRecord, WinnerEndsPending
  <1>5. QED
    BY <1>2, <1>3, <1>4 DEF StoreInv

(* Dropping the lease of a pending record, with its attempt kept if it was *)
(* armed, keeps the invariant.                                             *)
LEMMA DroppingKeepsInv ==
  ASSUME StoreInv, Pending, DropLease, job' = job, job = NoJob, alarm' = alarm,
         UNCHANGED <<now, status, expiresAt, attempts, committedBy, outbox, historyVars>>
  PROVE  StoreInv'
  <1>1. /\ opened' = opened /\ minted' = minted /\ winner' = winner
        /\ lease' = NoLease /\ unreconciled' = AttemptsToReconcile
        /\ UNCHANGED <<now, status, expiresAt, attempts, committedBy, outbox>>
    BY DEF DropLease, historyVars
  <1>2. /\ AttemptsToReconcile \in SUBSET Callback /\ AttemptsToReconcile \subseteq minted
        /\ Cardinality(AttemptsToReconcile) \in Nat
        /\ Cardinality(AttemptsToReconcile) <= attempts
        /\ attempts \in Nat /\ attempts <= MaxAttempts
        /\ status = "pending" /\ committedBy = None
    BY DroppedLeaseFits DEF Pending, Readable
  <1>3. StoreTypeOK'
    BY <1>1, <1>2, LeaseFacts DEF StoreInv, StoreTypeOK
  <1>4. StoredRecordIsReadable'
    BY <1>1, <1>2 DEF StoredRecordIsReadable, Readable
  <1>5. ArmedLeaseIsAlone' /\ WorkHasAlarm' /\ LeaseIsItsHolder'
    BY <1>1, LeaseFacts DEF StoreInv, ArmedLeaseIsAlone, WorkHasAlarm, LeaseIsItsHolder
  <1>6. NamesMinted' /\ JobMatchesRecord' /\ WinnerEndsPending'
    BY <1>1, <1>2, LeaseFacts, OutboxAndJobFacts, ConstantFacts
    DEF StoreInv, NamesMinted, JobMatchesRecord, WinnerEndsPending
  <1>7. QED
    BY <1>3, <1>4, <1>5, <1>6 DEF StoreInv

LEMMA ReserveKeepsInv ==
  ASSUME StoreInv, NEW h \in Callback, NEW reply, Reserve(h, reply)
  PROVE  StoreInv'
  <1>1. /\ now' = now /\ alarm' = alarm /\ job' = job /\ opened' = opened /\ winner' = winner
        /\ job = NoJob /\ h \notin minted
    BY DEF Reserve, Idle
  <1>2. alarm' \in Nat \cup {None} /\ job' = NoJob
    BY <1>1 DEF StoreInv, StoreTypeOK
  <1>3. CASE DeleteAll /\ minted' = minted /\ status # "none"
    <2>1. opened /\ UNCHANGED <<now, historyVars>>
      BY <1>1, <1>3 DEF StoreInv, WinnerEndsPending, StoreTypeOK, historyVars
    <2>2. QED
      BY <1>2, <1>3, <2>1, DeleteAllKeepsInv
  <1>4. CASE UNCHANGED <<rec, outbox, minted>>
    <2>1. now' \in Nat /\ UNCHANGED <<storedVars, historyVars>>
      BY <1>1, <1>4 DEF StoreInv, StoreTypeOK, storedVars, historyVars
    <2>2. QED
      BY <1>1, <2>1, FrameKeepsInv
  <1>5. CASE /\ Pending /\ DropLease
             /\ UNCHANGED <<status, expiresAt, attempts, committedBy, outbox, minted>>
    <2>1. UNCHANGED <<now, status, expiresAt, attempts, committedBy, outbox, historyVars>>
      BY <1>1, <1>5 DEF historyVars
    <2>2. QED
      BY <1>1, <1>5, <2>1, DroppingKeepsInv
  <1>6. CASE GrantLease(h) /\ minted' = minted \cup {h}
    <2>1. /\ Pending /\ status = "pending" /\ committedBy = None
          /\ AttemptsToReconcile \in SUBSET Callback /\ AttemptsToReconcile \subseteq minted
          /\ Cardinality(AttemptsToReconcile) \in Nat
          /\ Cardinality(AttemptsToReconcile) <= attempts
          /\ attempts \in Nat
      BY <1>6, DroppedLeaseFits DEF GrantLease, Pending, Readable
    <2>2. /\ NewLease(h, FALSE) \in LeaseType /\ NewLease(h, FALSE).holder = h
          /\ NewLease(h, FALSE).armed = FALSE /\ NewLease(h, FALSE) # NoLease
      BY LeaseFacts DEF StoreInv, StoreTypeOK
    <2>3. /\ unreconciled' = AttemptsToReconcile /\ lease' = NewLease(h, FALSE)
          /\ attempts' = attempts + 1 /\ attempts < MaxAttempts
          /\ UNCHANGED <<status, expiresAt, committedBy, outbox>>
      BY <1>6 DEF GrantLease
    <2>4. StoreTypeOK'
      <3>1. attempts' \in Nat /\ minted' \in SUBSET Callback
        BY <1>6, <2>3 DEF StoreInv, StoreTypeOK
      <3>2. lease' \in LeaseType /\ unreconciled' \in SUBSET Callback
        BY <2>1, <2>2, <2>3, Zenon
      <3>3. QED
        BY <1>1, <2>3, <3>1, <3>2 DEF StoreInv, StoreTypeOK
    <2>5. StoredRecordIsReadable'
      BY <2>1, <2>2, <2>3, ConstantFacts DEF StoredRecordIsReadable, Readable
    <2>6. ArmedLeaseIsAlone' /\ WorkHasAlarm' /\ LeaseIsItsHolder'
      BY <1>1, <2>1, <2>2, <2>3, ConstantFacts
      DEF StoreInv, ArmedLeaseIsAlone, WorkHasAlarm, LeaseIsItsHolder
    <2>7. NamesMinted' /\ JobMatchesRecord' /\ WinnerEndsPending'
      BY <1>1, <1>6, <2>1, <2>2, <2>3, OutboxAndJobFacts
      DEF StoreInv, NamesMinted, JobMatchesRecord, WinnerEndsPending
    <2>8. QED
      BY <2>4, <2>5, <2>6, <2>7 DEF StoreInv
  <1>7. QED
    BY <1>3, <1>4, <1>5, <1>6 DEF Reserve, RefuseReserve, Pending, Readable

LEMMA ArmKeepsInv ==
  ASSUME StoreInv, NEW h \in Callback, NEW proven \in SUBSET Callback, NEW reply,
         Arm(h, proven, reply)
  PROVE  StoreInv'
  <1>1. /\ job = NoJob
        /\ UNCHANGED <<now, status, expiresAt, attempts, committedBy, outbox, alarm, job,
                       opened, minted, winner>>
    BY DEF Arm, Idle, historyVars
  <1>2. CASE UNCHANGED <<lease, unreconciled>>
    <2>1. now' \in Nat /\ UNCHANGED <<storedVars, historyVars>>
      BY <1>1, <1>2 DEF StoreInv, StoreTypeOK, storedVars, rec, historyVars
    <2>2. QED
      BY <1>1, <2>1, FrameKeepsInv
  <1>3. CASE CanArm(h) /\ unreconciled' = unreconciled \ proven /\ lease' = lease
    <2>1. unreconciled' \in SUBSET unreconciled /\ unreconciled' \in SUBSET Callback
      BY <1>3 DEF StoreInv, StoreTypeOK
    <2>2. /\ Cardinality(unreconciled) \in Nat /\ Cardinality(unreconciled') \in Nat
          /\ Cardinality(unreconciled') <= Cardinality(unreconciled)
      <3>1. unreconciled \in SUBSET Callback
        BY DEF StoreInv, StoreTypeOK
      <3>2. QED
        BY <2>1, <3>1, AttemptsAreCounted, Zenon
    <2>3. StoreTypeOK'
      BY <1>1, <1>3, <2>1 DEF StoreInv, StoreTypeOK
    <2>4. StoredRecordIsReadable'
      BY <1>1, <1>3, <2>2
      DEF StoreInv, StoreTypeOK, StoredRecordIsReadable, Readable, CanArm, Pending
    <2>5. ArmedLeaseIsAlone' /\ WorkHasAlarm' /\ LeaseIsItsHolder'
      BY <1>1, <1>3, <2>1 DEF StoreInv, ArmedLeaseIsAlone, WorkHasAlarm, LeaseIsItsHolder
    <2>6. NamesMinted' /\ JobMatchesRecord' /\ WinnerEndsPending'
      BY <1>1, <1>3, <2>1, OutboxAndJobFacts
      DEF StoreInv, NamesMinted, JobMatchesRecord, WinnerEndsPending, CanArm, Pending
    <2>7. QED
      BY <2>3, <2>4, <2>5, <2>6 DEF StoreInv
  <1>4. CASE CanArm(h) /\ unreconciled' = {} /\ lease' = NewLease(h, TRUE)
    <2>1. /\ NewLease(h, TRUE) \in LeaseType /\ NewLease(h, TRUE).holder = h
          /\ NewLease(h, TRUE) # NoLease
      BY LeaseFacts DEF StoreInv, StoreTypeOK
    <2>2. /\ status = "pending" /\ lease # NoLease /\ h \in minted
          /\ committedBy = None /\ attempts <= MaxAttempts
          /\ Cardinality(unreconciled) + 1 <= attempts
      BY <1>4, ConstantFacts
      DEF CanArm, Pending, Readable, HeldBy, LeaseLive, StoreInv, NamesMinted
    <2>3. Cardinality(unreconciled) \in Nat /\ Cardinality({}) = 0
      BY AttemptsAreCounted, FS_EmptySet DEF StoreInv, StoreTypeOK
    <2>4. StoreTypeOK'
      BY <1>1, <1>4, <2>1 DEF StoreInv, StoreTypeOK
    <2>5. StoredRecordIsReadable'
      <3>1. attempts \in Nat /\ Cardinality({}) + 1 <= attempts
        BY <2>2, <2>3 DEF StoreInv, StoreTypeOK
      <3>2. QED
        BY <1>1, <1>4, <2>1, <2>2, <3>1 DEF StoredRecordIsReadable, Readable
    <2>6. ArmedLeaseIsAlone' /\ WorkHasAlarm' /\ LeaseIsItsHolder'
      BY <1>1, <1>4, <2>1, ConstantFacts
      DEF StoreInv, ArmedLeaseIsAlone, WorkHasAlarm, LeaseIsItsHolder
    <2>7. NamesMinted' /\ JobMatchesRecord' /\ WinnerEndsPending'
      BY <1>1, <1>4, <2>1, <2>2, OutboxAndJobFacts
      DEF StoreInv, NamesMinted, JobMatchesRecord, WinnerEndsPending
    <2>8. QED
      BY <2>4, <2>5, <2>6, <2>7 DEF StoreInv
  <1>5. QED
    BY <1>2, <1>3, <1>4 DEF Arm

LEMMA CommitKeepsInv ==
  ASSUME StoreInv, NEW h \in Callback, NEW replaced \in SUBSET Grant, NEW reply,
         Commit(h, replaced, reply)
  PROVE  StoreInv'
  <1>1. job = NoJob /\ UNCHANGED <<now, job, opened, minted>>
    BY DEF Commit, Idle
  <1>2. CASE UNCHANGED <<storedVars, winner>>
    <2>1. now' \in Nat /\ UNCHANGED <<storedVars, historyVars>>
      BY <1>1, <1>2 DEF StoreInv, StoreTypeOK, historyVars
    <2>2. QED
      BY <1>1, <2>1, FrameKeepsInv
  <1>3. CASE /\ CanCommit(h)
             /\ status' = "committed" /\ lease' = NoLease /\ committedBy' = h /\ winner' = h
             /\ UNCHANGED <<expiresAt, attempts, unreconciled>>
             /\ \/ UNCHANGED <<outbox, alarm>>
                \/ /\ outbox' = [grants |-> replaced, notAfter |-> now + ReconcileHorizon]
                   /\ alarm' = now + 1
    <2>1. /\ status = "pending" /\ unreconciled = {} /\ attempts <= MaxAttempts
          /\ h \in minted /\ alarm # None /\ opened /\ now \in Nat
      BY <1>3, ConstantFacts
      DEF CanCommit, Pending, Readable, HeldBy, StoreInv, StoreTypeOK, NamesMinted,
          WorkHasAlarm, WinnerEndsPending
    <2>2. alarm' \in Nat /\ alarm' # None
      BY <1>3, <2>1, ConstantFacts DEF StoreInv, StoreTypeOK
    <2>3. outbox' \in [grants : SUBSET Grant, notAfter : Nat]
      BY <1>3, <2>1, ConstantFacts DEF StoreInv, StoreTypeOK
    <2>4. StoreTypeOK'
      BY <1>1, <1>3, <2>2, <2>3, LeaseFacts DEF StoreInv, StoreTypeOK
    <2>5. StoredRecordIsReadable'
      BY <1>3, <2>1, ConstantFacts DEF StoredRecordIsReadable, Readable
    <2>6. ArmedLeaseIsAlone' /\ WorkHasAlarm' /\ LeaseIsItsHolder'
      BY <1>3, <2>2, LeaseFacts DEF ArmedLeaseIsAlone, WorkHasAlarm, LeaseIsItsHolder
    <2>7. NamesMinted' /\ JobMatchesRecord' /\ WinnerEndsPending'
      BY <1>1, <1>3, <2>1, LeaseFacts, OutboxAndJobFacts, ConstantFacts
      DEF StoreInv, NamesMinted, JobMatchesRecord, WinnerEndsPending
    <2>8. QED
      BY <2>4, <2>5, <2>6, <2>7 DEF StoreInv
  <1>4. QED
    BY <1>2, <1>3 DEF Commit, Consume

LEMMA ReleaseKeepsInv ==
  ASSUME StoreInv, NEW h \in Callback, NEW outcome, Release(h, outcome)
  PROVE  StoreInv'
  <1>1. job = NoJob /\ UNCHANGED <<now, job, opened, minted, winner>>
    BY DEF Release, Idle, historyVars
  <1>2. CASE UNCHANGED storedVars
    <2>1. now' \in Nat /\ UNCHANGED <<storedVars, historyVars>>
      BY <1>1, <1>2 DEF StoreInv, StoreTypeOK, historyVars
    <2>2. QED
      BY <1>1, <2>1, FrameKeepsInv
  <1>3. CASE /\ Pending /\ DropLease
             /\ UNCHANGED <<status, expiresAt, attempts, committedBy, outbox, alarm>>
    <2>1. UNCHANGED <<now, status, expiresAt, attempts, committedBy, outbox, historyVars>>
      BY <1>1, <1>3 DEF historyVars
    <2>2. QED
      BY <1>1, <1>3, <2>1, DroppingKeepsInv
  <1>4. CASE /\ Pending /\ lease' = NoLease
             /\ UNCHANGED <<status, expiresAt, attempts, unreconciled, committedBy, outbox, alarm>>
    <2>1. StoreTypeOK'
      BY <1>1, <1>4, LeaseFacts DEF StoreInv, StoreTypeOK
    <2>2. StoredRecordIsReadable'
      <3>1. Cardinality(unreconciled) \in Nat
        BY AttemptsAreCounted DEF StoreInv, StoreTypeOK
      <3>2. QED
        BY <1>4, <3>1 DEF StoreInv, StoreTypeOK, StoredRecordIsReadable, Readable, Pending
    <2>3. ArmedLeaseIsAlone' /\ WorkHasAlarm' /\ LeaseIsItsHolder'
      BY <1>4, LeaseFacts DEF StoreInv, ArmedLeaseIsAlone, WorkHasAlarm, LeaseIsItsHolder
    <2>4. NamesMinted' /\ JobMatchesRecord' /\ WinnerEndsPending'
      BY <1>1, <1>4, LeaseFacts, OutboxAndJobFacts, ConstantFacts
      DEF StoreInv, StoreTypeOK, NamesMinted, JobMatchesRecord, WinnerEndsPending, Pending
    <2>5. QED
      BY <2>1, <2>2, <2>3, <2>4 DEF StoreInv
  <1>5. CASE CommittedBy(h) /\ outbox' = NoOutbox /\ alarm' = expiresAt /\ UNCHANGED rec
    <2>1. /\ UNCHANGED <<status, expiresAt, attempts, lease, unreconciled, committedBy>>
          /\ alarm' \in Nat
      BY <1>5 DEF rec, StoreInv, StoreTypeOK
    <2>2. StoreTypeOK'
      BY <1>1, <1>5, <2>1, OutboxAndJobFacts DEF StoreInv, StoreTypeOK
    <2>3. StoredRecordIsReadable' /\ ArmedLeaseIsAlone' /\ WorkHasAlarm' /\ LeaseIsItsHolder'
      BY <2>1, ConstantFacts
      DEF StoreInv, StoredRecordIsReadable, Readable, ArmedLeaseIsAlone, WorkHasAlarm,
          LeaseIsItsHolder
    <2>4. NamesMinted' /\ JobMatchesRecord' /\ WinnerEndsPending'
      BY <1>1, <1>5, <2>1, OutboxAndJobFacts
      DEF StoreInv, NamesMinted, JobMatchesRecord, WinnerEndsPending
    <2>5. QED
      BY <2>2, <2>3, <2>4 DEF StoreInv
  <1>6. QED
    BY <1>2, <1>3, <1>4, <1>5 DEF Release

(* The outbox is dropped and the alarm set for what else remains. *)
LEMMA FinishReplacementKeepsInv ==
  ASSUME StoreInv, FinishReplacement, job' = NoJob, UNCHANGED <<now, historyVars>>
  PROVE  StoreInv'
  <1>1. /\ UNCHANGED <<now, status, expiresAt, attempts, lease, unreconciled, committedBy,
                       opened, minted, winner>>
        /\ outbox' = NoOutbox /\ alarm' = now /\ job' = NoJob
    BY DEF FinishReplacement, rec, historyVars
  <1>2. now \in Nat
    BY DEF StoreInv, StoreTypeOK
  <1>3. StoreTypeOK'
    BY <1>1, <1>2, OutboxAndJobFacts DEF StoreInv, StoreTypeOK
  <1>4. StoredRecordIsReadable' /\ ArmedLeaseIsAlone' /\ WorkHasAlarm' /\ LeaseIsItsHolder'
    BY <1>1, <1>2, ConstantFacts
    DEF StoreInv, StoredRecordIsReadable, Readable, ArmedLeaseIsAlone, WorkHasAlarm,
        LeaseIsItsHolder
  <1>5. NamesMinted' /\ JobMatchesRecord' /\ WinnerEndsPending'
    BY <1>1, OutboxAndJobFacts DEF StoreInv, NamesMinted, JobMatchesRecord, WinnerEndsPending
  <1>6. QED
    BY <1>3, <1>4, <1>5 DEF StoreInv

LEMMA RetryAlarm ==
  ASSUME NEW d \in RetryDelays, now \in Nat
  PROVE  now + d \in Nat /\ now + d # None
  BY ConstantFacts

LEMMA AlarmKeepsInv ==
  ASSUME StoreInv, AlarmFires
  PROVE  StoreInv'
  <1>1. /\ job = NoJob /\ UNCHANGED <<now, historyVars>>
        /\ UNCHANGED <<opened, minted, winner>>
        /\ now \in Nat /\ alarm # None
    BY DEF AlarmFires, AlarmDue, Idle, historyVars, StoreInv, StoreTypeOK
  <1>2. CASE FinishReplacement /\ UNCHANGED job
    BY <1>1, <1>2, FinishReplacementKeepsInv
  <1>3. ASSUME outbox # NoOutbox, NEW d \in RetryDelays, alarm' = now + d,
               job' = [kind |-> "replace", waiting |-> outbox.grants, acked |-> {}],
               UNCHANGED <<rec, outbox>>
        PROVE  StoreInv'
    <2>1. /\ UNCHANGED <<status, expiresAt, attempts, lease, unreconciled, committedBy, outbox>>
          /\ status = "committed"
          /\ outbox.grants \in SUBSET Grant
      BY <1>3 DEF rec, StoreInv, StoreTypeOK, WinnerEndsPending
    <2>2. alarm' \in Nat /\ alarm' # None
      BY <1>1, <1>3, RetryAlarm, Zenon
    <2>3. /\ job' \in [kind : {"none", "replace", "reconcile"},
                        waiting : SUBSET (Callback \cup Grant),
                        acked : SUBSET (Callback \cup Grant)]
          /\ job'.kind = "replace"
      BY <1>3, <2>1
    <2>4. StoreTypeOK'
      BY <1>1, <2>1, <2>2, <2>3 DEF StoreInv, StoreTypeOK
    <2>5. StoredRecordIsReadable' /\ ArmedLeaseIsAlone' /\ WorkHasAlarm' /\ LeaseIsItsHolder'
      BY <2>1, <2>2
      DEF StoreInv, StoredRecordIsReadable, Readable, ArmedLeaseIsAlone, WorkHasAlarm,
          LeaseIsItsHolder
    <2>6. NamesMinted' /\ JobMatchesRecord' /\ WinnerEndsPending'
      BY <1>1, <2>1, <2>3 DEF StoreInv, NamesMinted, JobMatchesRecord, WinnerEndsPending
    <2>7. QED
      BY <2>4, <2>5, <2>6 DEF StoreInv
  <1>4. CASE DeleteAll /\ alarm' = None /\ UNCHANGED job
    <2>1. CASE opened
      BY <1>1, <1>4, <2>1, DeleteAllKeepsInv, Zenon
    <2>2. CASE ~opened
      <3>1. /\ status = "none" /\ lease = NoLease /\ unreconciled = {}
            /\ outbox = NoOutbox /\ winner = None /\ minted = {}
        BY <2>2 DEF StoreInv, WinnerEndsPending
      <3>2. /\ status' = "none" /\ expiresAt' = 0 /\ attempts' = 0 /\ lease' = NoLease
            /\ unreconciled' = {} /\ committedBy' = None /\ outbox' = NoOutbox
            /\ alarm' = None /\ job' = NoJob
        BY <1>1, <1>4 DEF DeleteAll
      <3>3. StoreTypeOK'
        BY <1>1, <3>1, <3>2, LeaseFacts, OutboxAndJobFacts DEF StoreInv, StoreTypeOK
      <3>4. /\ StoredRecordIsReadable' /\ ArmedLeaseIsAlone' /\ WorkHasAlarm'
            /\ LeaseIsItsHolder'
        BY <3>2, LeaseFacts
        DEF StoredRecordIsReadable, ArmedLeaseIsAlone, WorkHasAlarm, LeaseIsItsHolder
      <3>5. NamesMinted' /\ JobMatchesRecord' /\ WinnerEndsPending'
        BY <1>1, <3>1, <3>2, LeaseFacts, OutboxAndJobFacts
        DEF NamesMinted, JobMatchesRecord, WinnerEndsPending
      <3>6. QED
        BY <3>3, <3>4, <3>5 DEF StoreInv
    <2>3. QED
      BY <2>1, <2>2
  <1>5. CASE alarm' = expiresAt /\ UNCHANGED <<rec, outbox, job>>
    <2>1. /\ UNCHANGED <<status, expiresAt, attempts, lease, unreconciled, committedBy, outbox>>
          /\ alarm' \in Nat /\ alarm' # None
      BY <1>5, ConstantFacts DEF rec, StoreInv, StoreTypeOK
    <2>2. StoreTypeOK'
      BY <1>1, <1>5, <2>1 DEF StoreInv, StoreTypeOK
    <2>3. StoredRecordIsReadable' /\ ArmedLeaseIsAlone' /\ WorkHasAlarm' /\ LeaseIsItsHolder'
      BY <2>1
      DEF StoreInv, StoredRecordIsReadable, Readable, ArmedLeaseIsAlone, WorkHasAlarm,
          LeaseIsItsHolder
    <2>4. NamesMinted' /\ JobMatchesRecord' /\ WinnerEndsPending'
      BY <1>1, <1>5, <2>1 DEF StoreInv, NamesMinted, JobMatchesRecord, WinnerEndsPending
    <2>5. QED
      BY <2>2, <2>3, <2>4 DEF StoreInv
  <1>6. ASSUME Pending, outbox = NoOutbox, DropLease, NEW d \in RetryDelays, alarm' = now + d,
               job' = [kind |-> "reconcile", waiting |-> AttemptsToReconcile, acked |-> {}],
               UNCHANGED <<status, expiresAt, attempts, committedBy, outbox>>
        PROVE  StoreInv'
    <2>1. /\ AttemptsToReconcile \in SUBSET Callback /\ AttemptsToReconcile \subseteq minted
          /\ Cardinality(AttemptsToReconcile) \in Nat
          /\ Cardinality(AttemptsToReconcile) <= attempts
          /\ attempts \in Nat /\ attempts <= MaxAttempts
          /\ status = "pending" /\ committedBy = None
      BY <1>6, DroppedLeaseFits DEF Pending, Readable
    <2>2. lease' = NoLease /\ unreconciled' = AttemptsToReconcile
      BY <1>6 DEF DropLease
    <2>3. alarm' \in Nat /\ alarm' # None
      BY <1>1, <1>6, RetryAlarm, Zenon
    <2>4. /\ job' \in [kind : {"none", "replace", "reconcile"},
                        waiting : SUBSET (Callback \cup Grant),
                        acked : SUBSET (Callback \cup Grant)]
          /\ job'.kind = "reconcile" /\ job'.waiting = AttemptsToReconcile
      BY <1>6, <2>1
    <2>5. StoreTypeOK'
      <3>1. unreconciled' \in SUBSET Callback /\ lease' \in LeaseType
        BY <2>1, <2>2, LeaseFacts, Zenon
      <3>2. QED
        BY <1>1, <1>6, <2>3, <2>4, <3>1 DEF StoreInv, StoreTypeOK
    <2>6. StoredRecordIsReadable'
      BY <1>6, <2>1, <2>2 DEF StoredRecordIsReadable, Readable
    <2>7. ArmedLeaseIsAlone' /\ WorkHasAlarm' /\ LeaseIsItsHolder'
      BY <2>2, <2>3, LeaseFacts DEF ArmedLeaseIsAlone, WorkHasAlarm, LeaseIsItsHolder
    <2>8. NamesMinted' /\ JobMatchesRecord' /\ WinnerEndsPending'
      BY <1>1, <1>6, <2>1, <2>2, <2>4, LeaseFacts, ConstantFacts
      DEF StoreInv, NamesMinted, JobMatchesRecord, WinnerEndsPending
    <2>9. QED
      BY <2>5, <2>6, <2>7, <2>8 DEF StoreInv
  <1>7. CASE StartReplacement
    BY <1>2, <1>3, <1>7 DEF StartReplacement
  <1>8. CASE StartReconcile
    <2>1. ASSUME ~NothingLeft, Expired PROVE Pending
      BY <2>1 DEF NothingLeft, Readable, Pending
    <2>2. QED
      BY <1>4, <1>5, <1>6, <1>8, <2>1 DEF StartReconcile
  <1>9. QED
    BY <1>7, <1>8 DEF AlarmFires

LEMMA JobAnswerKeepsInv ==
  ASSUME StoreInv, NEW x, NEW ack \in BOOLEAN, JobAnswer(x, ack)
  PROVE  StoreInv'
  <1>1. /\ UNCHANGED <<now, status, expiresAt, attempts, lease, unreconciled, committedBy,
                       outbox, alarm, opened, minted, winner>>
        /\ x \in job.waiting
    BY DEF JobAnswer, storedVars, rec, historyVars
  <1>2. /\ job.kind \in {"none", "replace", "reconcile"}
        /\ job.waiting \in SUBSET (Callback \cup Grant)
        /\ job.acked \in SUBSET (Callback \cup Grant)
    BY DEF StoreInv, StoreTypeOK
  <1>3. job.kind # "none"
    BY <1>1 DEF StoreInv, JobMatchesRecord, NoJob
  <1>4. /\ job' \in [kind : {"none", "replace", "reconcile"},
                      waiting : SUBSET (Callback \cup Grant),
                      acked : SUBSET (Callback \cup Grant)]
        /\ job'.kind = job.kind /\ job'.waiting \subseteq job.waiting
    <2>1. (IF ack THEN job.acked \cup {x} ELSE job.acked) \in SUBSET (Callback \cup Grant)
      BY <1>1, <1>2
    <2>2. QED
      BY <1>1, <1>2, <2>1 DEF JobAnswer
  <1>5. StoreTypeOK'
    BY <1>1, <1>4 DEF StoreInv, StoreTypeOK
  <1>6. StoredRecordIsReadable' /\ ArmedLeaseIsAlone' /\ WorkHasAlarm' /\ LeaseIsItsHolder'
    BY <1>1
    DEF StoreInv, StoredRecordIsReadable, Readable, ArmedLeaseIsAlone, WorkHasAlarm,
        LeaseIsItsHolder
  <1>7. NamesMinted' /\ JobMatchesRecord' /\ WinnerEndsPending'
    BY <1>1, <1>3, <1>4 DEF StoreInv, NamesMinted, JobMatchesRecord, WinnerEndsPending
  <1>8. QED
    BY <1>5, <1>6, <1>7 DEF StoreInv

LEMMA JobFinishKeepsInv ==
  ASSUME StoreInv, JobFinish
  PROVE  StoreInv'
  <1>1. /\ job' = NoJob /\ UNCHANGED <<now, historyVars>>
        /\ UNCHANGED <<opened, minted, winner>>
        /\ alarm \in Nat \cup {None}
    BY DEF JobFinish, historyVars, StoreInv, StoreTypeOK
  <1>2. CASE job.kind = "replace" /\ FinishReplacement
    BY <1>1, <1>2, FinishReplacementKeepsInv
  <1>3. CASE /\ job.kind = "replace" /\ UNCHANGED <<rec, alarm>>
             /\ outbox' = [outbox EXCEPT !.grants = @ \ job.acked]
    <2>1. /\ UNCHANGED <<status, expiresAt, attempts, lease, unreconciled, committedBy, alarm>>
          /\ status = "committed"
          /\ outbox' \in [grants : SUBSET Grant, notAfter : Nat]
      BY <1>3 DEF rec, StoreInv, StoreTypeOK, JobMatchesRecord
    <2>2. StoreTypeOK'
      BY <1>1, <2>1, OutboxAndJobFacts DEF StoreInv, StoreTypeOK
    <2>3. StoredRecordIsReadable' /\ ArmedLeaseIsAlone' /\ WorkHasAlarm' /\ LeaseIsItsHolder'
      BY <2>1
      DEF StoreInv, StoredRecordIsReadable, Readable, ArmedLeaseIsAlone, WorkHasAlarm,
          LeaseIsItsHolder
    <2>4. NamesMinted' /\ JobMatchesRecord' /\ WinnerEndsPending'
      BY <1>1, <2>1, OutboxAndJobFacts
      DEF StoreInv, NamesMinted, JobMatchesRecord, WinnerEndsPending
    <2>5. QED
      BY <2>2, <2>3, <2>4 DEF StoreInv
  <1>4. CASE job.kind = "reconcile" /\ DeleteAll /\ UNCHANGED alarm
    <2>1. opened
      BY <1>4 DEF StoreInv, StoreTypeOK, JobMatchesRecord, WinnerEndsPending
    <2>2. QED
      BY <1>1, <1>4, <2>1, DeleteAllKeepsInv, Zenon
  <1>5. CASE /\ job.kind = "reconcile"
             /\ unreconciled' = unreconciled \ job.acked
             /\ UNCHANGED <<status, expiresAt, attempts, lease, committedBy, outbox, alarm>>
    <2>1. unreconciled' \in SUBSET unreconciled /\ unreconciled' \in SUBSET Callback
      BY <1>5 DEF StoreInv, StoreTypeOK
    <2>2. /\ Cardinality(unreconciled) \in Nat /\ Cardinality(unreconciled') \in Nat
          /\ Cardinality(unreconciled') <= Cardinality(unreconciled)
      <3>1. unreconciled \in SUBSET Callback
        BY DEF StoreInv, StoreTypeOK
      <3>2. QED
        BY <2>1, <3>1, AttemptsAreCounted, Zenon
    <2>3. status = "pending" /\ lease = NoLease
      BY <1>5 DEF StoreInv, JobMatchesRecord
    <2>4. StoreTypeOK'
      BY <1>1, <1>5, <2>1, OutboxAndJobFacts DEF StoreInv, StoreTypeOK
    <2>5. StoredRecordIsReadable'
      BY <1>5, <2>2, <2>3 DEF StoreInv, StoreTypeOK, StoredRecordIsReadable, Readable
    <2>6. ArmedLeaseIsAlone' /\ WorkHasAlarm' /\ LeaseIsItsHolder'
      BY <1>5, <2>1 DEF StoreInv, ArmedLeaseIsAlone, WorkHasAlarm, LeaseIsItsHolder
    <2>7. NamesMinted' /\ JobMatchesRecord' /\ WinnerEndsPending'
      BY <1>1, <1>5, <2>1, <2>3, OutboxAndJobFacts
      DEF StoreInv, NamesMinted, JobMatchesRecord, WinnerEndsPending
    <2>8. QED
      BY <2>4, <2>5, <2>6, <2>7 DEF StoreInv
  <1>6. QED
    BY <1>2, <1>3, <1>4, <1>5 DEF JobFinish

-----------------------------------------------------------------------------
(* Every step of the object, alone or in a larger system, keeps StoreInv. *)
LEMMA StoreInvStep == StoreInv /\ [StoreNext]_<<now, storeVars>> => StoreInv'
  <1> SUFFICES ASSUME StoreInv, [StoreNext]_<<now, storeVars>> PROVE StoreInv'
    OBVIOUS
  <1>1. CASE PutState
    BY <1>1, PutStateKeepsInv
  <1>2. ASSUME NEW h \in Callback, NEW reply \in ReserveReply, Reserve(h, reply)
        PROVE  StoreInv'
    BY <1>2, ReserveKeepsInv
  <1>3. ASSUME NEW h \in Callback, NEW proven \in SUBSET Callback, NEW reply \in ArmReply,
               Arm(h, proven, reply)
        PROVE  StoreInv'
    BY <1>3, ArmKeepsInv
  <1>4. ASSUME NEW h \in Callback, NEW replaced \in SUBSET Grant, NEW reply \in CommitReply,
               Commit(h, replaced, reply)
        PROVE  StoreInv'
    BY <1>4, CommitKeepsInv
  <1>5. ASSUME NEW h \in Callback, NEW outcome \in {"clean", "unknown"}, Release(h, outcome)
        PROVE  StoreInv'
    BY <1>5, ReleaseKeepsInv
  <1>6. CASE AlarmFires
    BY <1>6, AlarmKeepsInv
  <1>7. ASSUME NEW x \in Callback \cup Grant, NEW ack \in BOOLEAN, JobAnswer(x, ack)
        PROVE  StoreInv'
    BY <1>7, JobAnswerKeepsInv
  <1>8. CASE JobFinish
    BY <1>8, JobFinishKeepsInv
  <1>9. CASE StoreCrash \/ Tick \/ UNCHANGED <<now, storeVars>>
    <2>1. /\ now' \in Nat /\ (job' = job \/ job' = NoJob)
          /\ UNCHANGED <<storedVars, historyVars>>
      BY <1>9 DEF StoreCrash, Tick, storeVars, StoreInv, StoreTypeOK
    <2>2. QED
      BY <2>1, FrameKeepsInv
  <1>10. QED
    BY <1>1, <1>2, <1>3, <1>4, <1>5, <1>6, <1>7, <1>8, <1>9 DEF StoreNext

LEMMA StoreInvariant == StoreSpec => []StoreInv
  BY StoreInvInit, StoreInvStep, PTL DEF StoreSpec

-----------------------------------------------------------------------------
(* The stored values always have their types. *)
THEOREM StoreTypeCorrect == StoreSpec => []StoreTypeOK
  <1>1. StoreInv => StoreTypeOK
    BY DEF StoreInv
  <1>2. QED
    BY <1>1, StoreInvariant, PTL

(* No sequence of operations writes a record the store's reader rejects:   *)
(* attempts in doubt always fit the reservations made.                     *)
THEOREM StoredRecordStaysReadable == StoreSpec => []StoredRecordIsReadable
  <1>1. StoreInv => StoredRecordIsReadable
    BY DEF StoreInv
  <1>2. QED
    BY <1>1, StoreInvariant, PTL

(* No attempt is unproven beside an armed lease. *)
THEOREM ArmedLeaseStaysAlone == StoreSpec => []ArmedLeaseIsAlone
  <1>1. StoreInv => ArmedLeaseIsAlone
    BY DEF StoreInv
  <1>2. QED
    BY <1>1, StoreInvariant, PTL

(* Stored work always has an alarm, whatever crashes. *)
THEOREM StoredWorkHasAlarm == StoreSpec => []WorkHasAlarm
  <1>1. StoreInv => WorkHasAlarm
    BY DEF StoreInv
  <1>2. QED
    BY <1>1, StoreInvariant, PTL

(* The step form of commit's finality, also for the composed system. *)
LEMMA WinnerIsDrawnOnce ==
  StoreInv /\ [StoreNext]_<<now, storeVars>> => (winner' # winner => winner = None)
  <1> SUFFICES ASSUME StoreInv, [StoreNext]_<<now, storeVars>>, winner' # winner
               PROVE  winner = None
    OBVIOUS
  <1>1. PICK h \in Callback : CanCommit(h)
    BY DEF StoreNext, PutState, Reserve, Arm, Commit, Release, AlarmFires, JobAnswer, JobFinish,
           StoreCrash, Tick, storeVars, historyVars
  <1>2. QED
    BY <1>1 DEF CanCommit, Pending, StoreInv, WinnerEndsPending

(* At most one lease of a state ever commits. *)
THEOREM CommitStaysFinal == StoreSpec => CommitIsFinal
  <1>1. StoreInv /\ [StoreNext]_<<now, storeVars>>
        => [winner' # winner => winner = None]_<<now, storeVars>>
    BY WinnerIsDrawnOnce
  <1>2. QED
    BY <1>1, StoreInvariant, PTL DEF StoreSpec, CommitIsFinal
=============================================================================
