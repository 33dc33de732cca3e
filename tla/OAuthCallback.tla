---------------------------- MODULE OAuthCallback ----------------------------
(***************************************************************************)
(* The callback requests of one authorization state                        *)
(* (workers/remote-mcp/src/auth-handler.ts, POST /callback), the state     *)
(* store they share, the provisioning authority they call and the grants   *)
(* they write and replace.                                                 *)
(*                                                                         *)
(* A request awaits one answer at a time and nobody sees its local state,  *)
(* so an exchange is one step: the other side runs the call and the        *)
(* request reads the answer, or the call runs and its answer is lost, or   *)
(* the call never runs.  A slow answer is a request that takes its next    *)
(* step late, a dead worker one that takes no further step.  Two messages  *)
(* outlive the request's interest in them and are kept: a provisioning     *)
(* POST (`posts`) and a commit (`lateCommit`).                             *)
(***************************************************************************)
EXTENDS OAuthStateStore

CONSTANTS
  PriorGrant,    \* grants the user held before this authorization
  MaxReplaced    \* MAX_REPLACED_GRANT_IDS

ASSUME CallbackAssumption ==
  /\ Grant = PriorGrant \cup Callback   \* a callback names the grant it writes
  /\ PriorGrant \cap Callback = {}
  /\ IsFiniteSet(PriorGrant)
  /\ MaxReplaced \in Nat \ {0}

VARIABLES
  pc,          \* where each request is
  todo,        \* earlier attempts the request has yet to prove revoked
  proven,      \* earlier attempts it has proved revoked
  listed,      \* grants it found for this user and client
  codes,       \* requests that answered with an authorization code
  lateCommit,  \* commits that may still reach the store
  auth,        \* the authority's state of each provisioning correlation
  posts,       \* provisioning POSTs that may still reach the authority
  grants       \* the provider's grants

callbackVars == <<pc, todo, proven, listed, codes, lateCommit>>
authorityVars == <<auth, posts>>
vars == <<now, storeVars, callbackVars, authorityVars, grants>>

Goto(h, to) == pc' = [pc EXCEPT ![h] = to]

\* The request moves on to `to`, if it still waits in `from`.
WaiterGoes(h, from, to) == pc' = IF pc[h] = from THEN [pc EXCEPT ![h] = to] ELSE pc

Tombstone(c) == auth' = [auth EXCEPT ![c] = "tombstoned"]

-----------------------------------------------------------------------------
(* Reservation and the checks before anything is sent *)

\* Reserve; any reply but a lease, a lost reply and an unreachable store end
\* the request without a release.
ReserveState(h) ==
  /\ pc[h] = "start"
  /\ opened
  /\ \/ /\ Reserve(h, "reserved")
        /\ Goto(h, "leased")
        /\ todo' = [todo EXCEPT ![h] = unreconciled']
     \/ /\ \E reply \in ReserveReply : Reserve(h, reply)
        /\ Goto(h, "done")
        /\ UNCHANGED todo
     \/ /\ UNCHANGED <<now, storeVars>>
        /\ Goto(h, "done")
        /\ UNCHANGED todo
  /\ UNCHANGED <<proven, listed, codes, lateCommit, authorityVars, grants>>

\* Host boundary, Firebase token, verified e-mail, admission, secret, preflight.
RefuseLocally(h) ==
  /\ pc[h] = "leased"
  /\ proven[h] = {}
  /\ Goto(h, "release_clean")
  /\ UNCHANGED <<now, storeVars, todo, proven, listed, codes, lateCommit, authorityVars, grants>>

\* Revoke an earlier attempt by correlation; only the authority's proof counts.
ReconcileEarlier(h, c) ==
  /\ pc[h] = "leased"
  /\ c \in todo[h]
  /\ \/ /\ Tombstone(c)
        /\ todo' = [todo EXCEPT ![h] = @ \ {c}]
        /\ proven' = [proven EXCEPT ![h] = @ \cup {c}]
        /\ UNCHANGED pc
     \/ /\ Tombstone(c) \/ UNCHANGED auth
        /\ Goto(h, "release_clean")
        /\ UNCHANGED <<todo, proven>>
  /\ UNCHANGED <<now, storeVars, listed, codes, lateCommit, posts, grants>>

\* Any answer but "armed", or none, ends the attempt before it sends.
ArmAttempt(h) ==
  /\ pc[h] = "leased"
  /\ todo[h] = {}
  /\ \/ Arm(h, proven[h], "armed") /\ Goto(h, "armed")
     \/ /\ \E reply \in ArmReply : Arm(h, proven[h], reply)
        /\ Goto(h, "release_clean")
     \/ /\ UNCHANGED <<now, storeVars>>
        /\ Goto(h, "release_clean")
  /\ UNCHANGED <<todo, proven, listed, codes, lateCommit, authorityVars, grants>>

-----------------------------------------------------------------------------
(* Provisioning *)

SendProvision(h) ==
  /\ pc[h] = "armed"
  /\ posts' = posts \cup {h}
  /\ Goto(h, "sent")
  /\ UNCHANGED <<now, storeVars, todo, proven, listed, codes, lateCommit, auth, grants>>

\* The authority accepts a correlation once.  Its 200 may be lost, late or
\* fail validation: then the request reconciles instead.
Mint(h) ==
  /\ h \in posts
  /\ auth[h] = "unused"
  /\ auth' = [auth EXCEPT ![h] = "active"]
  /\ posts' = posts \ {h}
  /\ WaiterGoes(h, "sent", "provisioned") \/ WaiterGoes(h, "sent", "reconcile")
  /\ UNCHANGED <<now, storeVars, todo, proven, listed, codes, lateCommit, grants>>

\* 400, 401, 403 and 429 come before any credential is written.
RejectProvision(h) ==
  /\ h \in posts
  /\ posts' = posts \ {h}
  /\ WaiterGoes(h, "sent", "release_clean")
  /\ UNCHANGED <<now, storeVars, todo, proven, listed, codes, lateCommit, auth, grants>>

\* 409, 410, 5xx and anything else.
FailProvision(h) ==
  /\ h \in posts
  /\ posts' = posts \ {h}
  /\ WaiterGoes(h, "sent", "reconcile")
  /\ UNCHANGED <<now, storeVars, todo, proven, listed, codes, lateCommit, auth, grants>>

\* Mutant: no answer is taken for no credential.
TimeoutIsClean(h) ==
  /\ pc[h] = "sent"
  /\ Goto(h, "release_clean")
  /\ UNCHANGED <<now, storeVars, todo, proven, listed, codes, lateCommit, authorityVars, grants>>

\* AbortSignal.timeout or a lost connection: the POST may still land.
ProvisionTimeout(h) ==
  /\ pc[h] = "sent"
  /\ Goto(h, "reconcile")
  /\ UNCHANGED <<now, storeVars, todo, proven, listed, codes, lateCommit, authorityVars, grants>>

\* Mutant: any answer to the revocation counts as its proof.
ReconcileOnAnyAnswer(h) ==
  /\ pc[h] = "reconcile"
  /\ Tombstone(h) \/ UNCHANGED auth
  /\ Goto(h, "release_clean")
  /\ UNCHANGED <<now, storeVars, todo, proven, listed, codes, lateCommit, posts, grants>>

\* reconcileThisAttempt: clean with a proof, unknown without.
ReconcileOwn(h) ==
  /\ pc[h] = "reconcile"
  /\ \/ Tombstone(h) /\ Goto(h, "release_clean")
     \/ (Tombstone(h) \/ UNCHANGED auth) /\ Goto(h, "release_unknown")
  /\ UNCHANGED <<now, storeVars, todo, proven, listed, codes, lateCommit, posts, grants>>

-----------------------------------------------------------------------------
(* The grant and the commit *)

\* The provider's listing is eventually consistent: it may miss or keep grants.
ListGrants(h) ==
  /\ pc[h] = "provisioned"
  /\ \/ /\ \E found \in SUBSET {g \in Grant : grants[g] # "absent"} :
             listed' = [listed EXCEPT ![h] = found]
        /\ Goto(h, "listed")
     \/ Goto(h, "reconcile") /\ UNCHANGED listed
  /\ UNCHANGED <<now, storeVars, todo, proven, codes, lateCommit, authorityVars, grants>>

\* Mutant: the provider's default, which revokes the client's other grants.
CompleteAndRevoke(h) ==
  /\ pc[h] = "listed"
  /\ \/ /\ grants' = [g \in Grant |-> IF g = h THEN "live"
                                   ELSE IF g \in listed[h] THEN "revoked" ELSE grants[g]]
        /\ Goto(h, "commit1") \/ Goto(h, "reconcile")
     \/ Goto(h, "reconcile") /\ UNCHANGED grants
  /\ UNCHANGED <<now, storeVars, todo, proven, listed, codes, lateCommit, authorityVars>>

\* completeAuthorization; an error may come after the grant was written.
CompleteAuthorization(h) ==
  /\ pc[h] = "listed"
  /\ \/ /\ grants' = [grants EXCEPT ![h] = "live"]
        /\ Goto(h, "commit1") \/ Goto(h, "reconcile")
     \/ Goto(h, "reconcile") /\ UNCHANGED grants
  /\ UNCHANGED <<now, storeVars, todo, proven, listed, codes, lateCommit, authorityVars>>

\* commitOAuthState queues the first MaxReplaced of the listed grants.
Queued(found) ==
  {q \in SUBSET found :
     IF Cardinality(found) <= MaxReplaced THEN q = found ELSE Cardinality(q) = MaxReplaced}

\* Mutant: two lost rounds are taken for a commit.
LostRoundWins(h) == Goto(h, IF pc[h] = "commit1" THEN "commit2" ELSE "won")

\* Two rounds while no answer arrives.
AfterLostRound(h) == Goto(h, IF pc[h] = "commit1" THEN "commit2" ELSE "abort")

CommitState(h) ==
  /\ pc[h] \in {"commit1", "commit2"}
  /\ \/ /\ \E queued \in Queued(listed[h]) :
             \/ Commit(h, queued, "committed") /\ Goto(h, "won")
             \/ Commit(h, queued, "lease_lost") /\ Goto(h, "abort")
             \/ \E reply \in CommitReply : Commit(h, queued, reply) /\ AfterLostRound(h)
        /\ UNCHANGED lateCommit
     \/ /\ AfterLostRound(h)
        /\ lateCommit' = lateCommit \cup {h}
        /\ UNCHANGED <<now, storeVars>>
  /\ UNCHANGED <<todo, proven, listed, codes, authorityVars, grants>>

\* A commit whose caller gave up reaches the store after all.
LateCommit(h) ==
  /\ h \in lateCommit
  /\ \E queued \in Queued(listed[h]), reply \in CommitReply : Commit(h, queued, reply)
  /\ lateCommit' = lateCommit \ {h}
  /\ UNCHANGED <<pc, todo, proven, listed, codes, authorityVars, grants>>

\* Not committed: withhold the code, revoke the own correlation and the own
\* grant (both awaited together, the grant on a best-effort basis).
AbortAttempt(h) ==
  /\ pc[h] = "abort"
  /\ grants' \in {grants, [grants EXCEPT ![h] = "revoked"]}
  /\ \/ Tombstone(h) /\ Goto(h, "release_clean")
     \/ (Tombstone(h) \/ UNCHANGED auth) /\ Goto(h, "release_unknown")
  /\ UNCHANGED <<now, storeVars, todo, proven, listed, codes, lateCommit, posts>>

\* Committed: the inline pass over the listed grants, each of which may fail.
ReplaceInline(h) ==
  /\ pc[h] = "won"
  /\ \E S \in SUBSET listed[h] :
       grants' = [g \in Grant |-> IF g \in S THEN "revoked" ELSE grants[g]]
  /\ Goto(h, "replaced")
  /\ UNCHANGED <<now, storeVars, todo, proven, listed, codes, lateCommit, authorityVars>>

AnswerWithCode(h) ==
  /\ pc[h] = "replaced"
  /\ codes' = codes \cup {h}
  /\ Goto(h, "done")
  /\ UNCHANGED <<now, storeVars, todo, proven, listed, lateCommit, authorityVars, grants>>

\* The settlement of every attempt that did not commit; a failure is swallowed.
ReleaseState(h) ==
  /\ pc[h] \in {"release_clean", "release_unknown"}
  /\ \/ /\ Release(h, IF pc[h] = "release_clean" THEN "clean" ELSE "unknown")
        /\ Goto(h, "released")
     \/ Goto(h, "done") /\ UNCHANGED <<now, storeVars>>
  /\ UNCHANGED <<todo, proven, listed, codes, lateCommit, authorityVars, grants>>

-----------------------------------------------------------------------------
(* What the store's alarm calls *)

\* revokeBackendCorrelation for an attempt the expired state still holds.
AlarmRevokes(c) ==
  /\ job.kind = "reconcile"
  /\ \/ JobAnswer(c, TRUE) /\ Tombstone(c)
     \/ JobAnswer(c, FALSE) /\ (Tombstone(c) \/ UNCHANGED auth)
  /\ UNCHANGED <<callbackVars, posts, grants>>

\* supersedeGrant: an acknowledgement means the grant's family is tombstoned.
AlarmSupersedes(g) ==
  LET superseded == [grants EXCEPT ![g] = "revoked"]
  IN  /\ job.kind = "replace"
      /\ \/ JobAnswer(g, TRUE) /\ grants' = superseded
         \/ JobAnswer(g, FALSE) /\ grants' \in {grants, superseded}
      /\ UNCHANGED <<callbackVars, authorityVars>>

-----------------------------------------------------------------------------
Init ==
  /\ StoreInit
  /\ pc = [h \in Callback |-> "start"]
  /\ todo = [h \in Callback |-> {}]
  /\ proven = [h \in Callback |-> {}]
  /\ listed = [h \in Callback |-> {}]
  /\ codes = {}
  /\ lateCommit = {}
  /\ auth = [h \in Callback |-> "unused"]
  /\ posts = {}
  /\ grants = [g \in Grant |-> IF g \in PriorGrant THEN "live" ELSE "absent"]

CallbackStep(h) ==
  \/ ReserveState(h)
  \/ RefuseLocally(h)
  \/ \E c \in Callback : ReconcileEarlier(h, c)
  \/ ArmAttempt(h)
  \/ SendProvision(h)
  \/ ProvisionTimeout(h)
  \/ ReconcileOwn(h)
  \/ ListGrants(h)
  \/ CompleteAuthorization(h)
  \/ CommitState(h)
  \/ AbortAttempt(h)
  \/ ReplaceInline(h)
  \/ AnswerWithCode(h)
  \/ ReleaseState(h)

AuthorityStep(h) == Mint(h) \/ RejectProvision(h) \/ FailProvision(h)

StoreAlone == PutState \/ AlarmFires \/ JobFinish \/ StoreCrash \/ Tick

StoreStep == StoreAlone /\ UNCHANGED <<callbackVars, authorityVars, grants>>

JobCall ==
  \/ \E c \in Callback : AlarmRevokes(c)
  \/ \E g \in Grant : AlarmSupersedes(g)

Next ==
  \/ \E h \in Callback : CallbackStep(h) \/ LateCommit(h) \/ AuthorityStep(h)
  \/ JobCall
  \/ StoreStep

Spec == Init /\ [][Next]_vars

-----------------------------------------------------------------------------
(* Properties *)

PC == {"start", "leased", "armed", "sent", "reconcile", "provisioned", "listed",
       "commit1", "commit2", "abort", "won", "replaced",
       "release_clean", "release_unknown", "released", "done"}

TypeOK ==
  /\ StoreTypeOK
  /\ pc \in [Callback -> PC]
  /\ todo \in [Callback -> SUBSET Callback]
  /\ proven \in [Callback -> SUBSET Callback]
  /\ listed \in [Callback -> SUBSET Grant]
  /\ codes \in SUBSET Callback
  /\ lateCommit \in SUBSET Callback
  /\ auth \in [Callback -> {"unused", "active", "tombstoned"}]
  /\ posts \in SUBSET Callback
  /\ grants \in [Grant -> {"absent", "live", "revoked"}]

\* The correlation holds an active key, or a POST in flight can still mint one.
MayHoldKey(h) == auth[h] = "active" \/ (h \in posts /\ auth[h] = "unused")

Tracked(h) == status = "pending" /\ h \in AttemptsToReconcile

HorizonPassed == now >= StateTTL + ReconcileHorizon

\* "One authorization never leaves two live backend credentials"
\* (auth-handler.ts, before the reconcile loop): whatever order leases are
\* taken over, POSTs land and proofs arrive, two attempts of one state never
\* hold, or can still be given, a key at the same time.
OneLiveCredential == \A h, k \in Callback : MayHoldKey(h) /\ MayHoldKey(k) => h = k

\* An attempt that may hold a key is never forgotten: it won, or the stored
\* state still lists it for a revocation by correlation, until the horizon
\* past which its key has expired.
NoUntrackedCredential ==
  \A h \in Callback :
    MayHoldKey(h) => Tracked(h) \/ winner = h \/ HorizonPassed

\* One state issues at most one code, only to the lease that committed, and
\* no other request or alarm has revoked its key or its grant.
CodeIsUsable ==
  \A h \in codes :
    /\ codes = {h}
    /\ winner = h
    /\ auth[h] = "active"
    /\ grants[h] = "live"

\* A prior grant is replaced only by the commit of this state.
PriorGrantsWaitForCommit ==
  winner = None => \A g \in PriorGrant : grants[g] = "live"

\* auth-handler.ts and /release say of an aborted commit (#221 M1) that the
\* release disarms the replacement outbox, so that the user's prior working
\* grant survives.
PriorGrantSurvivesAbort ==
  \A h \in Callback :
    pc[h] = "released" /\ winner = h => \A g \in PriorGrant : grants[g] = "live"

\* A queued grant leaves the outbox only acknowledged, at the horizon, or when
\* the release of the commit that queued it disarms the outbox.
OutboxKeepsUnacknowledged ==
  [][\A g \in outbox.grants \ outbox'.grants :
        \/ grants[g] = "revoked"
        \/ now >= outbox.notAfter
        \/ pc'[winner] = "released"]_vars

\* The whole protocol gives what a single-use authorization promises.
OneShot ==
  INSTANCE OneShotAuthorization
    WITH Attempt <- Callback, holders <- {h \in Callback : MayHoldKey(h)}, answered <- codes

ImplementsOneShot == OneShot!Spec
=============================================================================
