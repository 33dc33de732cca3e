----------------------- MODULE OAuthTokenExchangeProofs ------------------------
(***************************************************************************)
(* Proofs about the exchanges of one grant, for any number of requests and *)
(* any lifetimes: what a stolen or repeated credential can never obtain,   *)
(* however the calls interleave and whichever of them are lost; and about  *)
(* the requests the policy holds back beside them, which take nothing from *)
(* what is proved of the token endpoint and hide no replay.                *)
(***************************************************************************)
EXTENDS PolicyPause, OAuthTokenFamilyProofs

(***************************************************************************)
(* The strengthening that is inductive.  While the grant lasts, a stored   *)
(* family remembers every use of every credential that was handed out: as  *)
(* spent, or as the lease of the one exchange under way.                   *)
(***************************************************************************)

\* The lease belongs to an exchange of the current credential.
LeaseIsOfCurrent ==
  \A r \in Request : inflight.lease = r =>
    /\ rpc[r] \in {"reserved", "settle", "revoke", "gave_up"}
    /\ presents[r] = current
    /\ r \in used

\* Only the code and what exchanges released can be presented.
PresentedIsKnown ==
  /\ known = {Code} \cup Released
  /\ \A r \in Request : presents[r] \in known
  /\ \A r \in used : rpc[r] # "idle"

\* Until the grant expires, "nothing stored" means "never used".
UnstoredIsUnused == status = "none" /\ now < GrantExpiry => Released = {} /\ used = {}

ReleasedIsSpent ==
  status = "active" /\ now < GrantExpiry => \A r \in Released : presents[r] \in spent

UsedIsSpent ==
  status = "active" /\ now < GrantExpiry =>
    \A r \in used : presents[r] \in spent \/ inflight.lease = r

\* The exchange that may still release is the first with its credential.
RotationIsFirst ==
  \A r \in Request :
    inflight.lease = r /\ (rpc[r] = "settle" \/ (rpc[r] = "reserved" /\ now < GrantExpiry)) =>
      \A s \in Released : presents[s] # presents[r]

CoreInv ==
  /\ LeaseIsOfCurrent
  /\ PresentedIsKnown
  /\ UnstoredIsUnused
  /\ ReleasedIsSpent
  /\ UsedIsSpent
  /\ RotationIsFirst
  /\ SingleUse
  /\ OneUsableCredential
  /\ ReplayRevokes

\* What has left the intent was acknowledged, and stays acknowledged.
KeyInv ==
  /\ status = "revoked" /\ bound /\ "key" \notin cleanup => keyRevoked
  /\ "key" \in job.acked => keyRevoked
  /\ status = "none" => ~bound

ExchangeInv == TypeOK /\ FamilyInv /\ CoreInv /\ KeyInv

Rpcs == {"idle", "validated", "rebegin", "create", "create_revoked", "reserved", "settle",
         "released", "revoke", "refused", "done", "gave_up"}

-----------------------------------------------------------------------------
(* Constants and types *)

LEMMA ExchangeConstants ==
  /\ Code \in Credential /\ Code \notin Request
  /\ Request \subseteq Credential
  /\ Credential = Request \cup {Code}
  /\ None \notin Request /\ None \notin Credential
  /\ GrantExpiry \in Nat
  BY ExchangeAssumption, FamilyConstants

LEMMA RequestTypes ==
  ASSUME TypeOK
  PROVE  /\ rpc \in [Request -> Rpcs]
         /\ presents \in [Request -> Credential]
         /\ known \in SUBSET Credential
         /\ used \in SUBSET Request
  BY DEF TypeOK, Rpcs

\* A family that is not active has no lease.
LEMMA LeaseNeedsActive ==
  ASSUME FamilyInv
  PROVE  /\ inflight.lease \in Request \cup {None}
         /\ status # "active" => inflight.lease = None
         /\ now \in Nat /\ expiresAt \in Nat
         /\ status # "none" => expiresAt >= GrantExpiry
         /\ status \in {"none", "active", "revoked"}
         /\ spent \in SUBSET Credential
  BY FamilyInvSplits, FamilyConstructors, FamilyConstants DEF StoredInv, OutlivesGrant

-----------------------------------------------------------------------------
(* How one step changes what the exchanges rely on *)

\* Where requests may go without obtaining a lease or a release.
Moves ==
  \A s \in Request :
    \/ rpc'[s] = rpc[s] /\ presents'[s] = presents[s]
    \/ /\ rpc[s] # "released"
       /\ rpc'[s] \in Rpcs \ {"released", "idle", "reserved"}
       /\ presents'[s] = presents[s] \/ (rpc[s] = "idle" /\ presents'[s] \in known)
       /\ rpc'[s] = "settle" => rpc[s] = "reserved" /\ now < GrantExpiry

LeaseMoves ==
  \A s \in Request : inflight.lease = s => rpc'[s] \in {"reserved", "settle", "revoke", "gave_up"}

LEMMA MovesKeepReleased ==
  ASSUME Moves
  PROVE  /\ Released' = Released
         /\ \A s \in Released : presents'[s] = presents[s]
  BY DEF Moves, Released

\* The family keeps its head, or the head is marked spent.
LEMMA QuietStep ==
  ASSUME TypeOK, FamilyInv, CoreInv, FamilyInv', Moves, LeaseMoves,
         now' >= now, spent \subseteq spent', used \subseteq used',
         \A s \in used' : s \in used \/ (now >= GrantExpiry /\ rpc'[s] # "idle"),
         UNCHANGED <<status, current, inflight, known>>
  PROVE  CoreInv'
  <1>1. /\ now \in Nat /\ now' \in Nat /\ GrantExpiry \in Nat
        /\ now' < GrantExpiry => now < GrantExpiry
        /\ now >= GrantExpiry => now' >= GrantExpiry
    BY LeaseNeedsActive, FamilyInvSplitsNext, ExchangeConstants, FamilyConstants
  <1>2. /\ Released' = Released
        /\ \A s \in Released : presents'[s] = presents[s]
        /\ Released \subseteq Request
    BY MovesKeepReleased DEF Released
  <1>3. /\ known' = known /\ inflight' = inflight /\ current' = current /\ status' = status
        /\ used \in SUBSET Request
    BY RequestTypes
  <1>4. /\ LeaseIsOfCurrent /\ PresentedIsKnown /\ UnstoredIsUnused /\ ReleasedIsSpent
        /\ UsedIsSpent /\ RotationIsFirst /\ SingleUse /\ OneUsableCredential /\ ReplayRevokes
    BY DEF CoreInv
  <1>5. \A s \in used : presents'[s] = presents[s]
    BY <1>3, <1>4 DEF Moves, PresentedIsKnown
  <1>6. LeaseIsOfCurrent'
    BY <1>3, <1>4, <1>5 DEF LeaseIsOfCurrent, LeaseMoves
  <1>7. PresentedIsKnown'
    BY <1>2, <1>3, <1>4 DEF PresentedIsKnown, Moves
  <1>8. UnstoredIsUnused'
    BY <1>1, <1>2, <1>3, <1>4 DEF UnstoredIsUnused
  <1>9. ReleasedIsSpent'
    BY <1>1, <1>2, <1>3, <1>4 DEF ReleasedIsSpent
  <1>10. UsedIsSpent'
    BY <1>1, <1>3, <1>4, <1>5 DEF UsedIsSpent
  <1>11. RotationIsFirst'
    <2>1. \A r \in Request : inflight.lease = r => presents'[r] = presents[r]
      BY <1>4, <1>5 DEF LeaseIsOfCurrent
    <2>2. QED
      BY <1>1, <1>2, <1>3, <1>4, <2>1 DEF RotationIsFirst, Moves
  <1>12. SingleUse'
    BY <1>2, <1>4 DEF SingleUse
  <1>13. OneUsableCredential'
    BY <1>1, <1>3, <1>4 DEF OneUsableCredential
  <1>14. ReplayRevokes'
    BY <1>1, <1>3, <1>4, <1>5 DEF ReplayRevokes
  <1>15. QED
    BY <1>6, <1>7, <1>8, <1>9, <1>10, <1>11, <1>12, <1>13, <1>14 DEF CoreInv

\* The family ends: tombstoned, or forgotten after its grant, or never stored.
LEMMA EndedStep ==
  ASSUME TypeOK, FamilyInv, CoreInv, FamilyInv', Moves,
         \/ status' = "revoked"
         \/ status' = "none" /\ now' >= GrantExpiry
         \/ status' = "none" /\ status = "none" /\ now' = now /\ used' = used,
         used' \in SUBSET Request,
         \A s \in used' : s \in used \/ rpc'[s] # "idle",
         UNCHANGED known
  PROVE  CoreInv'
  <1>1. /\ now' \in Nat /\ GrantExpiry \in Nat
        /\ status' # "active" /\ inflight'.lease = None /\ None \notin Request
    BY FamilyInvSplitsNext, ExchangeConstants, FamilyConstants, FamilyConstructors DEF StoredInv
  <1>2. /\ Released' = Released
        /\ \A s \in Released : presents'[s] = presents[s]
        /\ Released \subseteq Request
    BY MovesKeepReleased DEF Released
  <1>3. PresentedIsKnown /\ SingleUse /\ used \in SUBSET Request
    BY RequestTypes DEF CoreInv
  <1>4. PresentedIsKnown'
    BY <1>2, <1>3 DEF PresentedIsKnown, Moves
  <1>5. LeaseIsOfCurrent' /\ RotationIsFirst'
    BY <1>1 DEF LeaseIsOfCurrent, RotationIsFirst
  <1>6. UnstoredIsUnused' /\ ReleasedIsSpent' /\ UsedIsSpent' /\ OneUsableCredential'
    BY <1>1, <1>2
    DEF CoreInv, UnstoredIsUnused, ReleasedIsSpent, UsedIsSpent, OneUsableCredential
  <1>7. SingleUse'
    BY <1>2, <1>3 DEF SingleUse
  <1>8. ReplayRevokes'
    <2>1. CASE status' = "none" /\ status = "none" /\ now' = now /\ used' = used
      <3>1. now' >= GrantExpiry \/ used' = {}
        BY <1>1, <2>1 DEF CoreInv, UnstoredIsUnused
      <3>2. QED
        BY <3>1 DEF ReplayRevokes
    <2>2. CASE status' = "revoked" \/ now' >= GrantExpiry
      BY <2>2 DEF ReplayRevokes
    <2>3. QED
      BY <2>1, <2>2
  <1>9. QED
    BY <1>4, <1>5, <1>6, <1>7, <1>8 DEF CoreInv

\* A family is created; before the grant expires that is its first use.
LEMMA CreateStep ==
  ASSUME TypeOK, FamilyInv, CoreInv, FamilyInv', Moves,
         status = "none", status' = "active", current' \in known,
         UNCHANGED <<now, inflight, spent, known, used>>
  PROVE  CoreInv'
  <1>1. /\ inflight'.lease = None /\ None \notin Request
        /\ now' = now /\ used' = used /\ known' = known
    BY LeaseNeedsActive, ExchangeConstants
  <1>2. /\ Released' = Released
        /\ \A s \in Released : presents'[s] = presents[s]
        /\ Released \subseteq Request
    BY MovesKeepReleased DEF Released
  <1>3. /\ PresentedIsKnown /\ SingleUse /\ UnstoredIsUnused /\ ReplayRevokes
        /\ used \in SUBSET Request
    BY RequestTypes DEF CoreInv
  <1>4. PresentedIsKnown'
    BY <1>1, <1>2, <1>3 DEF PresentedIsKnown, Moves
  <1>5. LeaseIsOfCurrent' /\ RotationIsFirst'
    BY <1>1 DEF LeaseIsOfCurrent, RotationIsFirst
  <1>6. now < GrantExpiry => Released = {} /\ used = {} /\ known = {Code} /\ current' = Code
    BY <1>3 DEF UnstoredIsUnused, PresentedIsKnown
  <1>7. UnstoredIsUnused' /\ ReleasedIsSpent' /\ UsedIsSpent' /\ OneUsableCredential'
    BY <1>1, <1>2, <1>6 DEF UnstoredIsUnused, ReleasedIsSpent, UsedIsSpent, OneUsableCredential
  <1>8. SingleUse'
    BY <1>2, <1>3 DEF SingleUse
  <1>9. ReplayRevokes'
    <2>1. now < GrantExpiry => used' = {}
      BY <1>1, <1>6
    <2>2. now \in Nat /\ GrantExpiry \in Nat
      BY LeaseNeedsActive, ExchangeConstants
    <2>3. QED
      BY <1>1, <2>1, <2>2 DEF ReplayRevokes
  <1>10. QED
    BY <1>4, <1>5, <1>7, <1>8, <1>9 DEF CoreInv

\* /begin hands out the lease: until the grant expires, nobody has used the
\* current credential before.
LEMMA StartStep ==
  ASSUME TypeOK, FamilyInv, CoreInv, NEW r \in Request, Startable(presents[r]),
         inflight = NoInflight, inflight'.lease = r,
         rpc[r] \in {"validated", "rebegin"}, NEW to \in {"reserved", "gave_up"}, Goto(r, to),
         used' = used \cup {r},
         UNCHANGED <<now, status, current, spent, presents, known>>
  PROVE  CoreInv'
  <1>1. /\ rpc' = [rpc EXCEPT ![r] = to] /\ rpc'[r] = to
        /\ \A s \in Request \ {r} : rpc'[s] = rpc[s]
        /\ inflight.lease = None /\ None \notin Request
        /\ presents[r] = current /\ current \notin spent
        /\ now \in Nat /\ GrantExpiry \in Nat
    BY RequestTypes, FamilyConstructors, ExchangeConstants, LeaseNeedsActive DEF Goto, Startable
  <1>2. Released' = Released /\ r \notin Released
    BY <1>1 DEF Released
  <1>3. /\ LeaseIsOfCurrent /\ PresentedIsKnown /\ UnstoredIsUnused /\ ReleasedIsSpent
        /\ UsedIsSpent /\ SingleUse /\ OneUsableCredential /\ ReplayRevokes
        /\ status = "active"
    BY DEF CoreInv, Startable
  <1>4. LeaseIsOfCurrent'
    BY <1>1 DEF LeaseIsOfCurrent
  <1>5. PresentedIsKnown'
    BY <1>1, <1>2, <1>3 DEF PresentedIsKnown
  <1>6. UnstoredIsUnused' /\ ReleasedIsSpent' /\ SingleUse' /\ OneUsableCredential'
    BY <1>2, <1>3 DEF UnstoredIsUnused, ReleasedIsSpent, SingleUse, OneUsableCredential
  <1>7. UsedIsSpent'
    BY <1>1, <1>3, RequestTypes DEF UsedIsSpent
  <1>8. RotationIsFirst'
    BY <1>1, <1>2, <1>3 DEF RotationIsFirst, ReleasedIsSpent
  <1>9. ReplayRevokes'
    <2>1. now < GrantExpiry => \A s \in used : presents[s] # presents[r]
      BY <1>1, <1>3, RequestTypes DEF UsedIsSpent
    <2>2. QED
      BY <1>1, <1>3, <2>1, RequestTypes DEF ReplayRevokes
  <1>10. QED
    BY <1>3, <1>4, <1>5, <1>6, <1>7, <1>8, <1>9 DEF CoreInv

\* /commit: the lease's exchange is the first with its credential, and the
\* last, since the credential is spent now.
LEMMA RotateStep ==
  ASSUME TypeOK, FamilyInv, CoreInv, NEW r \in Request, HoldsLease(r), rpc[r] = "settle",
         Rotate(r), NEW to, Goto(r, to),
         \/ to = "released" /\ known' = known \cup {r}
         \/ to = "revoke" /\ known' = known,
         UNCHANGED <<now, status, presents, used>>
  PROVE  CoreInv'
  <1>1. /\ rpc'[r] = to
        /\ \A s \in Request \ {r} : rpc'[s] = rpc[s]
        /\ inflight.lease = r /\ inflight'.lease = None /\ None \notin Request
        /\ status = "active" /\ spent' = spent \cup {current} /\ current' = r
        /\ used \in SUBSET Request
    BY RequestTypes, FamilyConstructors, ExchangeConstants DEF Goto, HoldsLease, Rotate
  <1>2. /\ LeaseIsOfCurrent /\ PresentedIsKnown /\ UnstoredIsUnused /\ ReleasedIsSpent
        /\ UsedIsSpent /\ RotationIsFirst /\ SingleUse /\ OneUsableCredential /\ ReplayRevokes
    BY DEF CoreInv
  <1>3. presents[r] = current /\ \A s \in Released : presents[s] # presents[r]
    BY <1>1, <1>2 DEF LeaseIsOfCurrent, RotationIsFirst
  <1>4. Released' = IF to = "released" THEN Released \cup {r} ELSE Released
    BY <1>1 DEF Released
  <1>5. LeaseIsOfCurrent' /\ RotationIsFirst'
    BY <1>1 DEF LeaseIsOfCurrent, RotationIsFirst
  <1>6. PresentedIsKnown'
    <2>1. \A s \in used : rpc'[s] # "idle"
      BY <1>1, <1>2 DEF PresentedIsKnown
    <2>2. known' = {Code} \cup Released'
      BY <1>2, <1>4 DEF PresentedIsKnown
    <2>3. QED
      BY <1>2, <2>1, <2>2 DEF PresentedIsKnown
  <1>7. UnstoredIsUnused'
    BY <1>1 DEF UnstoredIsUnused
  <1>8. ReleasedIsSpent'
    BY <1>1, <1>2, <1>3, <1>4 DEF ReleasedIsSpent
  <1>9. UsedIsSpent'
    BY <1>1, <1>2, <1>3 DEF UsedIsSpent
  <1>10. SingleUse'
    BY <1>2, <1>3, <1>4 DEF SingleUse
  <1>11. OneUsableCredential'
    BY <1>1, <1>2 DEF OneUsableCredential
  <1>12. ReplayRevokes'
    BY <1>2 DEF ReplayRevokes
  <1>13. QED
    BY <1>5, <1>6, <1>7, <1>8, <1>9, <1>10, <1>11, <1>12 DEF CoreInv

-----------------------------------------------------------------------------
(* The steps of an exchange *)

LEMMA GotoMoves ==
  ASSUME TypeOK, CoreInv, NEW r \in Request, NEW to \in Rpcs \ {"released", "idle", "reserved"},
         Goto(r, to), rpc[r] # "released", presents' = presents,
         to = "settle" => rpc[r] = "reserved" /\ now < GrantExpiry
  PROVE  /\ Moves
         /\ (inflight.lease = r => to \in {"settle", "revoke", "gave_up"}) => LeaseMoves
  <1>1. /\ rpc'[r] = to
        /\ \A s \in Request \ {r} : rpc'[s] = rpc[s]
    BY RequestTypes DEF Goto
  <1>2. Moves
    BY <1>1 DEF Moves
  <1>3. (inflight.lease = r => to \in {"settle", "revoke", "gave_up"}) => LeaseMoves
    BY <1>1 DEF LeaseMoves, CoreInv, LeaseIsOfCurrent
  <1>4. QED
    BY <1>2, <1>3

LEMMA StillMoves ==
  ASSUME CoreInv, UNCHANGED <<rpc, presents>>
  PROVE  Moves /\ LeaseMoves
  BY DEF Moves, LeaseMoves, CoreInv, LeaseIsOfCurrent

\* Only an exchange that got its lease holds one.
LEMMA LeaseHolders ==
  ASSUME CoreInv, NEW r \in Request, inflight.lease = r
  PROVE  rpc[r] \in {"reserved", "settle", "revoke", "gave_up"}
  BY DEF CoreInv, LeaseIsOfCurrent

LEMMA NoCallFacts ==
  ASSUME NoCall, FamilyInv
  PROVE  /\ UNCHANGED <<status, expiresAt, current, bound, inflight, spent, cleanup, alarm, job, now>>
         /\ now' >= now /\ spent \subseteq spent'
  BY LeaseNeedsActive DEF NoCall, familyVars, recordVars

LEMMA CallBeginKeepsCore ==
  ASSUME TypeOK, FamilyInv, CoreInv, FamilyInv', NEW r \in Request, CallBegin(r)
  PROVE  CoreInv'
  <1> DEFINE Left == {"revoke", "done", "create", "create_revoked", "gave_up"}
  <1>1. /\ rpc[r] \in {"validated", "rebegin"} /\ inflight.lease # r
        /\ presents' = presents /\ known' = known
        /\ used \in SUBSET Request /\ now \in Nat /\ now' = now
    BY LeaseHolders, RequestTypes, LeaseNeedsActive, NoCallFacts DEF CallBegin, Begin
  <1>2. ASSUME NEW to \in Left, Goto(r, to)
        PROVE  Moves /\ LeaseMoves /\ rpc'[r] # "idle"
    BY <1>1, <1>2, GotoMoves, RequestTypes DEF Rpcs, Goto
  <1>3. CASE NoCall /\ Goto(r, "gave_up") /\ UNCHANGED used
    <2>1. Moves /\ LeaseMoves
      BY <1>2, <1>3
    <2>2. QED
      BY <1>1, <1>3, <2>1, NoCallFacts, QuietStep
  <1>4. ASSUME NEW reply \in BeginReply, Begin(r, presents[r], reply),
               used' = IF reply = "missing" THEN used ELSE used \cup {r},
               \/ reply = "started" /\ Goto(r, "reserved")
               \/ \E to \in Left : Goto(r, to) /\ (reply = "started" => to = "gave_up")
        PROVE  CoreInv'
    <2>1. reply # "started" => Moves /\ LeaseMoves /\ rpc'[r] # "idle"
      BY <1>2, <1>4
    <2>2. CASE reply = "missing" /\ UNCHANGED <<recordVars, cleanup, alarm>>
      <3>1. UNCHANGED <<status, current, inflight, spent>> /\ used' = used
        BY <1>4, <2>2 DEF recordVars
      <3>2. QED
        BY <1>1, <2>1, <2>2, <3>1, QuietStep
    <2>3. CASE reply # "started" /\ status' = "revoked"
      <3>1. used' \in SUBSET Request
        BY <1>1, <1>4
      <3>2. \A s \in used' : s \in used \/ rpc'[s] # "idle"
        BY <1>4, <2>1, <2>3
      <3>3. QED
        BY <1>1, <2>1, <2>3, <3>1, <3>2, EndedStep
    <2>4. CASE /\ reply = "invalid" /\ status = "active"
               /\ presents[r] \notin spent /\ current # presents[r]
               /\ UNCHANGED <<recordVars, cleanup, alarm>>
      <3>1. UNCHANGED <<status, current, inflight, spent>>
        BY <2>4 DEF recordVars
      <3>2. now >= GrantExpiry
        BY <1>1, <2>4, ExchangeConstants DEF CoreInv, PresentedIsKnown, OneUsableCredential
      <3>3. used \subseteq used' /\ \A s \in used' : s \in used \/ rpc'[s] # "idle"
        BY <1>4, <2>1, <2>4
      <3>4. QED
        BY <1>1, <2>1, <2>4, <3>1, <3>2, <3>3, QuietStep
    <2>5. CASE /\ reply = "started" /\ Startable(presents[r]) /\ inflight = NoInflight
               /\ inflight' = [lease |-> r, since |-> now]
               /\ UNCHANGED <<status, expiresAt, current, bound, spent, cleanup, alarm>>
      <3>1. PICK to \in {"reserved", "gave_up"} : Goto(r, to)
        BY <1>4, <2>5
      <3>2. inflight'.lease = r /\ used' = used \cup {r}
        BY <1>4, <2>5
      <3>3. QED
        BY <1>1, <2>5, <3>1, <3>2, StartStep
    <2>6. QED
      BY <1>4, <2>2, <2>3, <2>4, <2>5
      DEF Begin, Startable, ReserveLease, Tombstone, recordVars
  <1>5. QED
    <2>1. ASSUME ~(NoCall /\ Goto(r, "gave_up") /\ UNCHANGED used)
          PROVE  \E reply \in BeginReply :
                   /\ Begin(r, presents[r], reply)
                   /\ used' = IF reply = "missing" THEN used ELSE used \cup {r}
                   /\ \/ reply = "started" /\ Goto(r, "reserved")
                      \/ \E to \in Left : Goto(r, to) /\ (reply = "started" => to = "gave_up")
      BY <2>1 DEF CallBegin
    <2>2. QED
      BY <1>3, <1>4, <2>1

LEMMA CallInitializeKeepsCore ==
  ASSUME TypeOK, FamilyInv, CoreInv, FamilyInv', NEW r \in Request, CallInitialize(r)
  PROVE  CoreInv'
  <1>1. /\ rpc[r] \in {"create", "create_revoked"} /\ inflight.lease # r
        /\ UNCHANGED <<presents, known, used>> /\ now \in Nat /\ now' = now
    BY LeaseHolders, LeaseNeedsActive, NoCallFacts DEF CallInitialize, Initialize
  <1>2. Moves /\ LeaseMoves
    <2>1. PICK to \in {"rebegin", "revoke", "gave_up"} : Goto(r, to)
      BY DEF CallInitialize
    <2>2. QED
      BY <1>1, <2>1, GotoMoves DEF Rpcs
  <1>3. CASE UNCHANGED <<status, current, inflight, spent>>
    BY <1>1, <1>2, <1>3, QuietStep
  <1>4. CASE /\ status = "none" /\ status' = "active" /\ current' = presents[r]
             /\ UNCHANGED <<inflight, spent>>
    <2>1. current' \in known
      BY <1>4 DEF CoreInv, PresentedIsKnown
    <2>2. QED
      BY <1>1, <1>2, <1>4, <2>1, CreateStep
  <1>5. QED
    BY <1>3, <1>4, NoCallFacts DEF CallInitialize, Initialize, recordVars

LEMMA CallCommitKeepsCore ==
  ASSUME TypeOK, FamilyInv, CoreInv, FamilyInv', NEW r \in Request, CallCommit(r)
  PROVE  CoreInv'
  <1>1. /\ rpc[r] = "settle" /\ UNCHANGED <<presents, used>>
        /\ now \in Nat /\ now' = now
    BY LeaseNeedsActive, NoCallFacts DEF CallCommit, Commit
  <1>2. Goto(r, "revoke") => Moves /\ LeaseMoves
    BY <1>1, GotoMoves DEF Rpcs
  <1>3. CASE Goto(r, "revoke") /\ UNCHANGED known /\ NoCall
    BY <1>1, <1>2, <1>3, NoCallFacts, QuietStep
  <1>4. ASSUME NEW reply \in CommitReply, Commit(r, r, reply),
               \/ /\ reply = "committed" /\ Goto(r, "released")
                  /\ known' = known \cup {r}
               \/ Goto(r, "revoke") /\ UNCHANGED known
        PROVE  CoreInv'
    <2>1. CASE UNCHANGED recordVars /\ reply # "committed"
      BY <1>1, <1>2, <1>4, <2>1, QuietStep DEF recordVars
    <2>2. CASE HoldsLease(r) /\ Rotate(r) /\ UNCHANGED <<status, expiresAt>>
      BY <1>1, <1>4, <2>2, RotateStep
    <2>3. CASE /\ reply = "crashed" /\ spent' = spent \cup {current}
               /\ UNCHANGED <<status, expiresAt, current, bound, inflight>>
      BY <1>1, <1>2, <1>4, <2>3, QuietStep
    <2>4. QED
      BY <1>4, <2>1, <2>2, <2>3 DEF Commit
  <1>5. QED
    BY <1>3, <1>4 DEF CallCommit, CommitReply

LEMMA CallRevokeKeepsCore ==
  ASSUME TypeOK, FamilyInv, CoreInv, FamilyInv', NEW r \in Request, CallRevoke(r)
  PROVE  CoreInv'
  <1>1. /\ rpc[r] = "revoke" /\ UNCHANGED <<presents, known, used>>
        /\ now \in Nat /\ now' = now
        /\ used \in SUBSET Request
    BY LeaseNeedsActive, NoCallFacts, RequestTypes DEF CallRevoke, Revoke
  <1>2. CASE NoCall /\ Goto(r, "gave_up")
    <2>1. Moves /\ LeaseMoves
      BY <1>1, <1>2, GotoMoves DEF Rpcs
    <2>2. QED
      BY <1>1, <1>2, <2>1, NoCallFacts, QuietStep
  <1>3. CASE Revoke /\ Goto(r, "done")
    <2>1. Moves /\ (inflight.lease # r => LeaseMoves)
      BY <1>1, <1>3, GotoMoves DEF Rpcs
    <2>2. CASE status = "none" /\ UNCHANGED <<recordVars, cleanup, alarm>>
      <3>1. inflight.lease # r
        BY <2>2, LeaseNeedsActive, ExchangeConstants
      <3>2. QED
        BY <1>1, <2>1, <2>2, <3>1, QuietStep DEF recordVars
    <2>3. CASE Tombstone
      BY <1>1, <2>1, <2>3, EndedStep DEF Tombstone
    <2>4. QED
      BY <1>3, <2>2, <2>3 DEF Revoke
  <1>4. QED
    BY <1>2, <1>3 DEF CallRevoke

\* Steps of a request that leave the family alone.
LEMMA LocalKeepsCore ==
  ASSUME TypeOK, FamilyInv, CoreInv, FamilyInv', NEW r \in Request,
         CallCheck(r) \/ ProviderRotates(r) \/ \E c \in known : Present(r, c) \/ RevokeToken(r, c)
  PROVE  CoreInv'
  <1>1. NoCall /\ UNCHANGED <<known, used>>
    BY DEF CallCheck, ProviderRotates, Present, RevokeToken
  <1>2. CASE CallCheck(r) \/ ProviderRotates(r)
    <2>1. /\ rpc[r] \in {"refused", "reserved"} /\ presents' = presents
          /\ inflight.lease = r => rpc[r] = "reserved"
      BY <1>2, LeaseHolders DEF CallCheck, ProviderRotates
    <2>2. PICK to \in {"revoke", "done", "gave_up", "settle"} :
            /\ Goto(r, to)
            /\ to = "settle" => rpc[r] = "reserved" /\ now < GrantExpiry
            /\ rpc[r] = "reserved" => to \in {"settle", "revoke"}
      BY <1>2 DEF CallCheck, ProviderRotates
    <2>3. Moves /\ LeaseMoves
      BY <2>1, <2>2, GotoMoves DEF Rpcs
    <2>4. QED
      BY <1>1, <2>3, NoCallFacts, QuietStep
  <1>3. CASE \E c \in known : Present(r, c) \/ RevokeToken(r, c)
    <2>1. PICK c \in known, to \in {"validated", "refused", "revoke", "done"} :
            /\ rpc[r] = "idle" /\ Goto(r, to)
            /\ presents' = [presents EXCEPT ![r] = c]
      BY <1>3 DEF Present, RevokeToken
    <2>2. /\ rpc'[r] = to /\ presents'[r] = c
          /\ \A s \in Request \ {r} : rpc'[s] = rpc[s] /\ presents'[s] = presents[s]
          /\ inflight.lease # r
      BY <2>1, RequestTypes, LeaseHolders DEF Goto
    <2>3. Moves
      BY <2>1, <2>2 DEF Moves, Rpcs
    <2>4. LeaseMoves
      BY <2>2, LeaseHolders DEF LeaseMoves
    <2>5. QED
      BY <1>1, <2>3, <2>4, NoCallFacts, QuietStep
  <1>4. QED
    BY <1>2, <1>3

\* Steps of the family, of a newer login and of access tokens.
LEMMA FamilyKeepsCore ==
  ASSUME TypeOK, FamilyInv, CoreInv, FamilyInv', CleanupGrant \/ CleanupKey \/ FamilyStep
  PROVE  CoreInv'
  <1>1. /\ Moves /\ LeaseMoves /\ UNCHANGED <<known, used>>
        /\ now \in Nat /\ used \in SUBSET Request
    BY StillMoves, LeaseNeedsActive, RequestTypes
    DEF CleanupGrant, CleanupKey, FamilyStep, requestVars
  <1>2. CASE UNCHANGED <<status, current, inflight, spent>> /\ now' >= now
    BY <1>1, <1>2, QuietStep
  <1>3. CASE status' = "revoked"
    BY <1>1, <1>3, EndedStep
  <1>4. ASSUME status = "none" \/ Expired, status' = "none", now' = now
        PROVE  CoreInv'
    <2>1. CASE status = "none"
      BY <1>1, <1>4, <2>1, EndedStep
    <2>2. CASE status # "none"
      <3>1. now' >= GrantExpiry
        BY <1>4, <2>2, LeaseNeedsActive, ExchangeConstants DEF Expired
      <3>2. QED
        BY <1>1, <1>4, <3>1, EndedStep
    <2>3. QED
      BY <2>1, <2>2
  <1>5. CASE CleanupGrant \/ CleanupKey
    <2>1. PICK x \in {"grant", "key"}, ack \in BOOLEAN : JobAnswer(x, ack)
      BY <1>5 DEF CleanupGrant, CleanupKey
    <2>2. UNCHANGED <<now, recordVars>>
      BY <2>1 DEF JobAnswer
    <2>3. QED
      BY <1>1, <1>2, <2>2 DEF recordVars
  <1>6. CASE AlarmFires
    <2>1. CASE StartCleanup
      BY <1>1, <1>2, <1>6, <2>1 DEF AlarmFires, StartCleanup, recordVars
    <2>2. CASE DeleteAll /\ (status = "none" \/ Expired)
      BY <1>4, <1>6, <2>2 DEF AlarmFires, DeleteAll
    <2>3. CASE UNCHANGED recordVars
      BY <1>1, <1>2, <1>6, <2>3 DEF AlarmFires, recordVars
    <2>4. QED
      BY <1>6, <2>1, <2>2, <2>3 DEF AlarmFires, FamilyAlarm
  <1>7. CASE JobFinish
    <2>1. CASE DeleteAll /\ (status = "none" \/ Expired)
      BY <1>4, <1>7, <2>1 DEF JobFinish, DeleteAll
    <2>2. CASE UNCHANGED recordVars
      BY <1>1, <1>2, <1>7, <2>2 DEF JobFinish, recordVars
    <2>3. QED
      BY <1>7, <2>1, <2>2 DEF JobFinish
  <1>8. CASE FamilyCrash \/ Tick
    BY <1>1, <1>2, <1>8 DEF FamilyCrash, Tick, familyVars, recordVars
  <1>9. CASE Supersede \/ UseAccessToken
    BY <1>1, <1>2, <1>3, <1>9
    DEF Supersede, UseAccessToken, Status, Tombstone, recordVars
  <1>10. QED
    BY <1>5, <1>6, <1>7, <1>8, <1>9 DEF FamilyStep

-----------------------------------------------------------------------------
(* Types, the family and the key *)

\* Every step of the composition is a step of the family, or leaves it alone.
LEMMA StepIsFamilyStep ==
  ASSUME TypeOK, Next
  PROVE  [FamilyNext]_<<now, familyVars>>
  <1>1. ASSUME NEW r \in Request, RequestStep(r)
        PROVE  [FamilyNext]_<<now, familyVars>>
    <2>1. presents[r] \in Credential /\ r \in Credential
      BY RequestTypes, ExchangeConstants
    <2>2. CASE NoCall
      BY <2>2 DEF NoCall
    <2>3. CASE \E reply \in BeginReply : Begin(r, presents[r], reply)
      BY <2>1, <2>3 DEF FamilyNext
    <2>4. CASE \E expiry \in FamilyExpiries, reply \in InitializeReply :
                 Initialize(presents[r], expiry, reply)
      BY <2>1, <2>4 DEF FamilyNext
    <2>5. CASE \E reply \in CommitReply : Commit(r, r, reply)
      BY <2>1, <2>5 DEF FamilyNext
    <2>6. CASE Revoke
      BY <2>6 DEF FamilyNext
    <2>7. \/ NoCall
          \/ \E reply \in BeginReply : Begin(r, presents[r], reply)
          \/ \E expiry \in FamilyExpiries, reply \in InitializeReply :
               Initialize(presents[r], expiry, reply)
          \/ \E reply \in CommitReply : Commit(r, r, reply)
          \/ Revoke
      BY <1>1
      DEF RequestStep, Present, RevokeToken, CallBegin, CallInitialize, ProviderRotates,
          CallCommit, CallRevoke, CallCheck, CommitReply
    <2>8. QED
      BY <2>2, <2>3, <2>4, <2>5, <2>6, <2>7
  <1>2. CASE CleanupGrant \/ CleanupKey
    <2>1. PICK x \in {"grant", "key"}, ack \in BOOLEAN : JobAnswer(x, ack)
      BY <1>2 DEF CleanupGrant, CleanupKey
    <2>2. QED
      BY <2>1 DEF FamilyNext
  <1>3. CASE FamilyStep
    BY <1>3 DEF FamilyStep, UseAccessToken, FamilyNext
  <1>4. QED
    BY <1>1, <1>2, <1>3 DEF Next

\* What the requests and the authorities keep of their types.
RequestTypeOK ==
  /\ rpc \in [Request -> Rpcs]
  /\ presents \in [Request -> Credential]
  /\ known \in SUBSET Credential
  /\ used \in SUBSET Request

GrantType == [head : Credential \cup {None}, prev : Credential \cup {None}]

AuthorityTypeOK ==
  /\ kv \in GrantType
  /\ past \subseteq GrantType
  /\ keyRevoked \in BOOLEAN

LEMMA TypeOKSplits ==
  /\ TypeOK <=> FamilyTypeOK /\ RequestTypeOK /\ AuthorityTypeOK
  /\ TypeOK' <=> FamilyTypeOK' /\ RequestTypeOK' /\ AuthorityTypeOK'
  BY DEF TypeOK, RequestTypeOK, AuthorityTypeOK, Rpcs, GrantType

LEMMA RequestTypeStep ==
  ASSUME TypeOK, Next
  PROVE  RequestTypeOK'
  <1>1. RequestTypeOK
    BY TypeOKSplits
  <1>2. CASE UNCHANGED requestVars
    BY <1>1, <1>2 DEF requestVars, RequestTypeOK
  <1>3. ASSUME NEW r \in Request, RequestStep(r)
        PROVE  RequestTypeOK'
    <2>1. PICK to \in Rpcs : Goto(r, to)
      BY <1>3
      DEF RequestStep, Present, RevokeToken, CallBegin, CallInitialize, ProviderRotates,
          CallCommit, CallRevoke, CallCheck, Rpcs
    <2>2. rpc' \in [Request -> Rpcs]
      BY <1>1, <2>1 DEF RequestTypeOK, Goto
    <2>3. presents' = presents \/ \E c \in known : presents' = [presents EXCEPT ![r] = c]
      BY <1>3
      DEF RequestStep, Present, RevokeToken, CallBegin, CallInitialize, ProviderRotates,
          CallCommit, CallRevoke, CallCheck
    <2>4. known' = known \/ known' = known \cup {r}
      BY <1>3
      DEF RequestStep, Present, RevokeToken, CallBegin, CallInitialize, ProviderRotates,
          CallCommit, CallRevoke, CallCheck
    <2>5. used' = used \/ used' = used \cup {r}
      BY <1>3
      DEF RequestStep, Present, RevokeToken, CallBegin, CallInitialize, ProviderRotates,
          CallCommit, CallRevoke, CallCheck
    <2>6. QED
      BY <1>1, <2>2, <2>3, <2>4, <2>5, ExchangeConstants DEF RequestTypeOK
  <1>4. QED
    BY <1>2, <1>3 DEF Next, CleanupGrant, CleanupKey, FamilyStep

LEMMA AuthorityTypeStep ==
  ASSUME TypeOK, Next
  PROVE  AuthorityTypeOK'
  <1>1. AuthorityTypeOK /\ presents \in [Request -> Credential]
    BY TypeOKSplits DEF RequestTypeOK
  <1>2. NoGrant \in GrantType
    BY DEF NoGrant, GrantType
  <1>3. \A grant \in GrantType : WriteGrant(grant) => kv' \in GrantType /\ past' \subseteq GrantType
    BY <1>1 DEF WriteGrant, AuthorityTypeOK
  <1>4. ASSUME NEW r \in Request, ProviderRotates(r)
        PROVE  AuthorityTypeOK'
    <2>1. \A c \in Credential \cup {None} : [head |-> r, prev |-> c] \in GrantType
      BY ExchangeConstants DEF GrantType
    <2>2. keyRevoked' = keyRevoked
      BY <1>4 DEF ProviderRotates
    <2>3. QED
      BY <1>1, <1>3, <1>4, <2>1, <2>2 DEF ProviderRotates, AuthorityTypeOK
  <1>5. ASSUME NEW r \in Request, NEW c \in known, RevokeToken(r, c)
        PROVE  AuthorityTypeOK'
    BY <1>1, <1>2, <1>3, <1>5 DEF RevokeToken, AuthorityTypeOK
  <1>6. CASE CleanupGrant
    BY <1>1, <1>2, <1>3, <1>6 DEF CleanupGrant, AuthorityTypeOK
  <1>7. CASE CleanupKey
    BY <1>1, <1>7 DEF CleanupKey, AuthorityTypeOK
  <1>8. CASE UNCHANGED authorityVars
    BY <1>1, <1>8 DEF authorityVars, AuthorityTypeOK
  <1>9. QED
    BY <1>4, <1>5, <1>6, <1>7, <1>8
    DEF Next, RequestStep, Present, CallBegin, CallInitialize, CallCommit, CallRevoke,
        CallCheck, FamilyStep

\* A family becomes a tombstone with its key in the intent, and the key leaves
\* the intent only acknowledged.
LEMMA KeyStep ==
  ASSUME FamilyInv, FamilyInv', KeyInv, FamilyNext,
         keyRevoked => keyRevoked',
         "key" \in job'.acked => "key" \in job.acked \/ keyRevoked'
  PROVE  KeyInv'
  <1>1. /\ StoredInv /\ StoredInv'
        /\ status = "active" => cleanup = {}
        /\ status' \in {"none", "active", "revoked"}
    BY FamilyInvSplits, FamilyInvSplitsNext DEF StoredInv, CleanupIsOfTombstone
  <1>2. "key" \in job'.acked => keyRevoked'
    BY DEF KeyInv
  <1> DEFINE Sound == /\ status' = "revoked" /\ bound' /\ "key" \notin cleanup' => keyRevoked'
                      /\ status' = "none" => ~bound'
  <1>3. CASE UNCHANGED <<status, bound, cleanup>>
    <2>1. Sound
      BY <1>3 DEF KeyInv
    <2>2. QED
      BY <1>2, <2>1 DEF KeyInv
  <1>4. CASE status # "none" /\ Tombstone
    <2>1. status' = "revoked" /\ (bound' => bound)
      BY <1>4, Zenon DEF Tombstone
    <2>2. CASE cleanup = {}
      <3>1. bound => "key" \in cleanup'
        BY <1>4, <2>2 DEF Tombstone
      <3>2. QED
        BY <1>2, <2>1, <3>1 DEF KeyInv
    <2>3. CASE cleanup # {}
      <3>1. cleanup' = cleanup /\ status = "revoked"
        BY <1>1, <1>4, <2>3 DEF Tombstone, StoredInv
      <3>2. QED
        BY <1>2, <2>1, <3>1 DEF KeyInv
    <2>4. QED
      BY <2>2, <2>3
  <1>5. CASE status' = "active"
    BY <1>2, <1>5 DEF KeyInv
  <1>6. CASE DeleteAll
    <2>1. status' = "none" /\ ~bound'
      BY <1>6, Zenon DEF DeleteAll
    <2>2. QED
      BY <1>2, <2>1 DEF KeyInv
  <1>7. CASE Supersede
    <2>1. CASE status = "none" /\ status' = "revoked" /\ bound' = bound
      <3>1. ~bound'
        BY <2>1, Zenon DEF KeyInv
      <3>2. QED
        BY <1>2, <2>1, <3>1 DEF KeyInv
    <2>2. QED
      BY <1>4, <1>7, <2>1 DEF Supersede
  <1>8. CASE JobFinish
    <2>1. CASE cleanup' = cleanup \ job.acked /\ UNCHANGED recordVars
      <3>1. "key" \in cleanup /\ "key" \notin cleanup' => keyRevoked'
        BY <2>1 DEF KeyInv
      <3>2. status' = status /\ bound' = bound
        BY <2>1 DEF recordVars
      <3>3. Sound
        BY <3>1, <3>2 DEF KeyInv
      <3>4. QED
        BY <1>2, <3>3 DEF KeyInv
    <2>2. QED
      BY <1>6, <1>8, <2>1 DEF JobFinish, RemainingAfter
  <1>9. CASE AlarmFires
    BY <1>3, <1>6, <1>9 DEF AlarmFires, StartCleanup, FamilyAlarm, recordVars
  <1>10. ASSUME NEW r \in Request, NEW c \in Credential, NEW reply, Begin(r, c, reply)
         PROVE  KeyInv'
    BY <1>3, <1>4, <1>10 DEF Begin, ReserveLease, Startable, recordVars
  <1>11. ASSUME NEW r \in Request, NEW c \in Credential, NEW reply, Commit(r, c, reply)
         PROVE  KeyInv'
    BY <1>3, <1>5, <1>11 DEF Commit, HoldsLease, recordVars
  <1>12. ASSUME NEW c \in Credential, NEW expiry, NEW reply, Initialize(c, expiry, reply)
         PROVE  KeyInv'
    BY <1>3, <1>5, <1>12 DEF Initialize, recordVars
  <1>13. CASE (\E reply : Status(reply)) \/ Revoke \/ \E r : Abort(r)
    BY <1>3, <1>4, <1>13 DEF Status, Revoke, Abort, recordVars
  <1>14. CASE (\E x, ack : JobAnswer(x, ack)) \/ FamilyCrash \/ Tick
    BY <1>3, <1>14 DEF JobAnswer, FamilyCrash, Tick, familyVars, recordVars
  <1>15. QED
    BY <1>7, <1>8, <1>9, <1>10, <1>11, <1>12, <1>13, <1>14 DEF FamilyNext

\* What the revocation authority answered it has done.
LEMMA AcknowledgedIsRevoked ==
  ASSUME FamilyInv, Next
  PROVE  /\ keyRevoked => keyRevoked'
         /\ "key" \in job'.acked => "key" \in job.acked \/ keyRevoked'
  <1>1. CASE CleanupKey
    <2>1. keyRevoked => keyRevoked'
      BY <1>1, Zenon DEF CleanupKey
    <2>2. keyRevoked' \/ JobAnswer("key", FALSE)
      BY <1>1, Zenon DEF CleanupKey
    <2>3. JobAnswer("key", FALSE) => job'.acked = job.acked
      BY DEF JobAnswer
    <2>4. QED
      BY <2>1, <2>2, <2>3
  <1>2. CASE CleanupGrant
    <2>1. job.acked \in SUBSET {"grant", "key"}
      BY FamilyInvSplits DEF JobType
    <2>2. "key" \in job'.acked => "key" \in job.acked
      BY <1>2, <2>1 DEF CleanupGrant, JobAnswer
    <2>3. keyRevoked' = keyRevoked
      BY <1>2 DEF CleanupGrant
    <2>4. QED
      BY <2>2, <2>3
  <1>3. CASE FamilyStep
    <2>1. keyRevoked' = keyRevoked
      BY <1>3 DEF FamilyStep, authorityVars
    <2>2. job'.acked = job.acked \/ job'.acked = {}
      BY <1>3
      DEF FamilyStep, AlarmFires, StartCleanup, FamilyAlarm, JobFinish, FamilyCrash, NoJob, Tick,
          Supersede, UseAccessToken, Status, familyVars
    <2>3. QED
      BY <2>1, <2>2
  <1>4. ASSUME NEW r \in Request, RequestStep(r)
        PROVE  keyRevoked' = keyRevoked /\ job' = job
    BY <1>4
    DEF RequestStep, Present, RevokeToken, CallBegin, CallInitialize, ProviderRotates, CallCommit,
        CallRevoke, CallCheck, NoCall, Begin, Initialize, Commit, Revoke, authorityVars, familyVars
  <1>5. QED
    BY <1>1, <1>2, <1>3, <1>4 DEF Next

-----------------------------------------------------------------------------
(* The theorems *)

LEMMA ExchangeInvInit == Init => ExchangeInv
  <1> SUFFICES ASSUME Init PROVE ExchangeInv
    OBVIOUS
  <1>1. FamilyInv /\ FamilyTypeOK
    BY FamilyInvInit DEF Init, FamilyInv
  <1>2. Released = {}
    BY DEF Init, Released
  <1>3. RequestTypeOK /\ AuthorityTypeOK
    <2>1. RequestTypeOK
      BY ExchangeConstants DEF Init, RequestTypeOK, Rpcs
    <2>2. kv \in GrantType /\ past \subseteq GrantType
      BY ExchangeConstants DEF Init, GrantType, NoGrant
    <2>3. keyRevoked \in BOOLEAN
      BY DEF Init
    <2>4. QED
      BY <2>1, <2>2, <2>3 DEF AuthorityTypeOK
  <1>4. /\ status = "none" /\ inflight.lease = None /\ None \notin Request
        /\ bound = FALSE /\ job = NoJob /\ job.acked = {}
    BY FamilyConstructors, ExchangeConstants DEF Init, FamilyInit, NoJob
  <1>5. LeaseIsOfCurrent /\ RotationIsFirst
    BY <1>4 DEF LeaseIsOfCurrent, RotationIsFirst
  <1>6. PresentedIsKnown /\ UnstoredIsUnused /\ ReleasedIsSpent /\ UsedIsSpent
    BY <1>2, <1>4
    DEF Init, PresentedIsKnown, UnstoredIsUnused, ReleasedIsSpent, UsedIsSpent
  <1>7. SingleUse /\ OneUsableCredential /\ ReplayRevokes
    BY <1>2, <1>4 DEF Init, SingleUse, OneUsableCredential, ReplayRevokes
  <1>8. KeyInv
    BY <1>4 DEF KeyInv
  <1>9. QED
    BY <1>1, <1>3, <1>5, <1>6, <1>7, <1>8, TypeOKSplits DEF ExchangeInv, CoreInv

LEMMA CoreStep ==
  ASSUME TypeOK, FamilyInv, CoreInv, FamilyInv', Next
  PROVE  CoreInv'
  BY CallBeginKeepsCore, CallInitializeKeepsCore, CallCommitKeepsCore, CallRevokeKeepsCore,
     LocalKeepsCore, FamilyKeepsCore
  DEF Next, RequestStep

LEMMA UnchangedKeepsExchange == ExchangeInv /\ UNCHANGED vars => ExchangeInv'
  <1> SUFFICES ASSUME ExchangeInv, UNCHANGED vars
               PROVE  ExchangeInv'
    OBVIOUS
  <1>1. /\ UNCHANGED <<now, familyVars>> /\ UNCHANGED requestVars /\ UNCHANGED authorityVars
        /\ now' = now /\ status' = status /\ current' = current /\ inflight' = inflight
        /\ spent' = spent /\ bound' = bound /\ cleanup' = cleanup /\ job' = job
        /\ rpc' = rpc /\ presents' = presents /\ known' = known /\ used' = used
        /\ kv' = kv /\ past' = past /\ keyRevoked' = keyRevoked
    BY DEF vars, familyVars, recordVars, requestVars, authorityVars
  <1>2. FamilyInv' /\ FamilyTypeOK'
    BY <1>1, FamilyInvStep DEF ExchangeInv, FamilyInv
  <1>3. RequestTypeOK' /\ AuthorityTypeOK'
    BY <1>1, TypeOKSplits DEF ExchangeInv, RequestTypeOK, AuthorityTypeOK
  <1>4. CoreInv'
    BY <1>1, <1>2, StillMoves, QuietStep, LeaseNeedsActive DEF ExchangeInv
  <1>5. KeyInv'
    BY <1>1 DEF ExchangeInv, KeyInv
  <1>6. QED
    BY <1>2, <1>3, <1>4, <1>5, TypeOKSplits DEF ExchangeInv

LEMMA ExchangeInvStep == ExchangeInv /\ [Next]_vars => ExchangeInv'
  <1> SUFFICES ASSUME ExchangeInv, Next
               PROVE  ExchangeInv'
    BY UnchangedKeepsExchange
  <1>1. TypeOK /\ FamilyInv /\ CoreInv /\ KeyInv
    BY DEF ExchangeInv
  <1>2. [FamilyNext]_<<now, familyVars>>
    BY <1>1, StepIsFamilyStep
  <1>3. FamilyInv' /\ FamilyTypeOK'
    BY <1>1, <1>2, FamilyInvStep DEF FamilyInv
  <1>4. RequestTypeOK' /\ AuthorityTypeOK'
    BY <1>1, RequestTypeStep, AuthorityTypeStep
  <1>5. CoreInv'
    BY <1>1, <1>3, CoreStep
  <1>6. KeyInv'
    <2>1. CASE UNCHANGED <<now, familyVars>>
      <3>1. /\ status' = status /\ bound' = bound /\ cleanup' = cleanup /\ job' = job
        BY <2>1 DEF familyVars, recordVars
      <3>2. keyRevoked => keyRevoked'
        BY <1>1, AcknowledgedIsRevoked
      <3>3. QED
        BY <1>1, <3>1, <3>2 DEF KeyInv
    <2>2. CASE ~UNCHANGED <<now, familyVars>>
      BY <1>1, <1>2, <1>3, <2>2, AcknowledgedIsRevoked, KeyStep
    <2>3. QED
      BY <2>1, <2>2
  <1>7. QED
    BY <1>3, <1>4, <1>5, <1>6, TypeOKSplits DEF ExchangeInv

\* Every reachable state of the composition satisfies the strengthened invariant.
THEOREM ExchangeInvariant == Spec => []ExchangeInv
  <1>1. QED
    BY ExchangeInvInit, ExchangeInvStep, PTL DEF Spec

\* The requests, the family and the authorities keep their types.
THEOREM ExchangeTypeCorrect == Spec => []TypeOK
  <1>1. ExchangeInv => TypeOK
    BY DEF ExchangeInv
  <1>2. QED
    BY <1>1, ExchangeInvariant, PTL

\* settle() and /begin: one credential buys at most one set of tokens.
THEOREM CredentialIsUsedOnce == Spec => []SingleUse
  <1>1. ExchangeInv => SingleUse
    BY DEF ExchangeInv, CoreInv
  <1>2. QED
    BY <1>1, ExchangeInvariant, PTL

\* /commit: of everything handed out only the head can start an exchange.
THEOREM OnlyTheHeadIsUsable == Spec => []OneUsableCredential
  <1>1. ExchangeInv => OneUsableCredential
    BY DEF ExchangeInv, CoreInv
  <1>2. QED
    BY <1>1, ExchangeInvariant, PTL

\* /begin: a second accepted use of one credential ends the family.
THEOREM ReplayEndsTheFamily == Spec => []ReplayRevokes
  <1>1. ExchangeInv => ReplayRevokes
    BY DEF ExchangeInv, CoreInv
  <1>2. QED
    BY <1>1, ExchangeInvariant, PTL

\* processCleanup: a finished cleanup has disabled the bound key.
THEOREM CleanupDisablesKey == Spec => []RevokedKeyIsDisabled
  <1>1. ExchangeInv => RevokedKeyIsDisabled
    BY DEF ExchangeInv, KeyInv, RevokedKeyIsDisabled
  <1>2. QED
    BY <1>1, ExchangeInvariant, PTL

\* The composition implements the family alone: what holds of FamilySpec holds here.
THEOREM ExchangeImplementsFamily == Spec => FamilySpec
  <1>1. Init => FamilyInit
    BY DEF Init
  <1>2. ExchangeInv /\ [Next]_vars => [FamilyNext]_<<now, familyVars>>
    BY StepIsFamilyStep DEF ExchangeInv, vars
  <1>3. QED
    BY <1>1, <1>2, ExchangeInvariant, PTL DEF Spec, FamilySpec

\* What was proved of the family alone: no request, cleanup or alarm undoes a
\* tombstone before the grant has expired.
THEOREM ExchangeTombstoneStays == Spec => RevokedUntilExpiry
  <1>1. QED
    BY ExchangeImplementsFamily, TombstoneStaysUntilExpiry

-----------------------------------------------------------------------------
(* The policy pause *)

Places == {"idle", "accepted", "current", "create", "revoke", "paused", "done", "gave_up"}

(***************************************************************************)
(* The strengthening that is inductive.  While the grant lasts, what was   *)
(* spent stays spent and a stored family stays stored.                     *)
(***************************************************************************)

UnstoredIsUnspent == status = "none" => spent = {}

\* A credential that was spent when it came is not taken for the current one.
LateIsSpent(h) ==
  h \in late =>
    /\ at[h] # "idle"
    /\ now < GrantExpiry => shows[h] \in spent /\ at[h] \notin {"current", "paused"}

\* A request that found the family stored, or created it, or ended it.
JudgedIsStored(h) ==
  now < GrantExpiry =>
    /\ at[h] \in {"current", "revoke"} => status # "none"
    /\ at[h] = "done" => status = "revoked"

HeldIsSound(h) == shows[h] \in known /\ LateIsSpent(h) /\ JudgedIsStored(h)

HeldInv == UnstoredIsUnspent /\ \A h \in Held : HeldIsSound(h)

PauseInv == ExchangeInv /\ PauseTypeOK /\ HeldInv

-----------------------------------------------------------------------------
(* What the family keeps while its grant lasts *)

LEMMA FamilyRemembers ==
  ASSUME FamilyInv, FamilyInv', [FamilyNext]_<<now, familyVars>>, UnstoredIsUnspent
  PROVE  /\ UnstoredIsUnspent'
         /\ now' < GrantExpiry =>
              /\ now < GrantExpiry
              /\ spent \subseteq spent'
              /\ status # "none" => status' # "none"
              /\ status = "revoked" => status' = "revoked"
  <1>1. /\ now \in Nat /\ now' \in Nat /\ GrantExpiry \in Nat /\ expiresAt \in Nat
        /\ status # "none" => expiresAt >= GrantExpiry
    BY LeaseNeedsActive, FamilyInvSplitsNext, FamilyConstants
  <1> DEFINE Keeps == /\ status = "none" => (status' = "none" /\ spent' = spent) \/ status' # "none"
                      /\ spent \subseteq spent'
                      /\ status # "none" => status' # "none"
                      /\ status = "revoked" => status' = "revoked"
                      /\ now' >= now
             Forgets == now' = now /\ (status = "none" \/ Expired) /\ DeleteAll
  <1>2. Keeps \/ Forgets
    <2>1. CASE UNCHANGED <<now, familyVars>>
      BY <1>1, <2>1 DEF familyVars, recordVars
    <2>2. ASSUME NEW c \in Credential, NEW expiry \in FamilyExpiries, NEW reply,
                 Initialize(c, expiry, reply)
          PROVE  Keeps
      BY <1>1, <2>2 DEF Initialize, recordVars
    <2>3. ASSUME NEW r \in Request, NEW c \in Credential, NEW reply,
                 Begin(r, c, reply) \/ Commit(r, c, reply)
          PROVE  Keeps
      BY <1>1, <2>3
      DEF Begin, Startable, ReserveLease, Commit, HoldsLease, Rotate, Tombstone, recordVars
    <2>4. CASE (\E r : Abort(r)) \/ (\E reply : Status(reply)) \/ Revoke \/ Supersede
      BY <1>1, <2>4 DEF Abort, HoldsLease, Status, Revoke, Supersede, Tombstone, recordVars
    <2>5. CASE AlarmFires
      BY <1>1, <2>5 DEF AlarmFires, StartCleanup, FamilyAlarm, recordVars
    <2>6. CASE JobFinish
      BY <1>1, <2>6 DEF JobFinish, recordVars
    <2>7. CASE (\E x, ack : JobAnswer(x, ack)) \/ FamilyCrash \/ Tick
      BY <1>1, <2>7 DEF JobAnswer, FamilyCrash, Tick, familyVars, recordVars
    <2>8. QED
      BY <2>1, <2>2, <2>3, <2>4, <2>5, <2>6, <2>7 DEF FamilyNext
  <1>3. CASE Keeps
    BY <1>1, <1>3 DEF UnstoredIsUnspent
  <1>4. CASE Forgets
    <2>1. status' = "none" /\ spent' = {}
      BY <1>4, Zenon DEF DeleteAll
    <2>2. now' < GrantExpiry => status = "none" /\ spent = {}
      BY <1>1, <1>4 DEF Expired, UnstoredIsUnspent
    <2>3. QED
      BY <1>4, <2>1, <2>2 DEF UnstoredIsUnspent
  <1>5. QED
    BY <1>2, <1>3, <1>4

-----------------------------------------------------------------------------
(* A held request is one more caller of the family *)

LEMMA HeldTypes ==
  ASSUME PauseTypeOK
  PROVE  at \in [Held -> Places] /\ shows \in [Held -> Credential] /\ late \in SUBSET Held
  BY DEF PauseTypeOK, Places

LEMMA HeldCalls ==
  ASSUME NEW h \in Held, HeldStep(h)
  PROVE  \/ NoCall
         \/ \E expiry \in FamilyExpiries, reply \in InitializeReply :
              Initialize(shows[h], expiry, reply)
         \/ \E reply \in {"missing", "active", "revoked"} : Status(reply)
         \/ Revoke
  BY DEF HeldStep, Arrive, CallCheckHeld, CallStatus, CallCreate, CallRevokeHeld

LEMMA HeldIsFamilyStep ==
  ASSUME PauseTypeOK, NEW h \in Held, HeldStep(h)
  PROVE  [FamilyNext]_<<now, familyVars>> /\ job' = job /\ now' = now
  <1>1. shows[h] \in Credential
    BY HeldTypes
  <1>2. CASE NoCall
    BY <1>2 DEF NoCall, familyVars
  <1>3. CASE \E expiry \in FamilyExpiries, reply \in InitializeReply :
               Initialize(shows[h], expiry, reply)
    BY <1>1, <1>3 DEF FamilyNext, Initialize
  <1>4. CASE Revoke \/ \E reply \in {"missing", "active", "revoked"} : Status(reply)
    BY <1>4 DEF FamilyNext, Revoke, Status
  <1>5. QED
    BY <1>2, <1>3, <1>4, HeldCalls

LEMMA HeldKeepsCore ==
  ASSUME TypeOK, FamilyInv, CoreInv, FamilyInv', NEW h \in Held, shows[h] \in known, HeldStep(h),
         UNCHANGED <<requestVars, authorityVars>>
  PROVE  CoreInv'
  <1>1. /\ Moves /\ LeaseMoves /\ UNCHANGED <<known, used>>
        /\ now \in Nat /\ used \in SUBSET Request
    BY StillMoves, LeaseNeedsActive, RequestTypes DEF requestVars
  <1>2. CASE UNCHANGED <<status, current, inflight, spent>> /\ now' = now
    BY <1>1, <1>2, QuietStep
  <1>3. CASE Tombstone
    BY <1>1, <1>3, EndedStep DEF Tombstone
  <1>4. CASE NoCall
    BY <1>2, <1>4 DEF NoCall, familyVars, recordVars
  <1>5. CASE \E expiry \in FamilyExpiries, reply \in InitializeReply :
               Initialize(shows[h], expiry, reply)
    <2>1. CASE UNCHANGED recordVars
      BY <1>2, <1>5, <2>1 DEF Initialize, recordVars
    <2>2. CASE /\ status = "none" /\ status' = "active" /\ current' = shows[h]
               /\ UNCHANGED <<now, inflight, spent>>
      BY <1>1, <2>2, CreateStep
    <2>3. QED
      BY <1>5, <2>1, <2>2 DEF Initialize
  <1>6. CASE Revoke \/ \E reply \in {"missing", "active", "revoked"} : Status(reply)
    BY <1>2, <1>3, <1>6 DEF Revoke, Status, recordVars
  <1>7. QED
    BY <1>4, <1>5, <1>6, HeldCalls

LEMMA HeldKeepsExchange ==
  ASSUME ExchangeInv, PauseTypeOK, NEW h \in Held, shows[h] \in known, HeldStep(h),
         UNCHANGED <<requestVars, authorityVars>>
  PROVE  ExchangeInv' /\ [FamilyNext]_<<now, familyVars>>
  <1>1. TypeOK /\ FamilyInv /\ CoreInv /\ KeyInv
    BY DEF ExchangeInv
  <1>2. [FamilyNext]_<<now, familyVars>> /\ job' = job
    BY HeldIsFamilyStep
  <1>3. FamilyInv' /\ FamilyTypeOK'
    BY <1>1, <1>2, FamilyInvStep DEF FamilyInv
  <1>4. RequestTypeOK' /\ AuthorityTypeOK'
    <2>1. RequestTypeOK /\ AuthorityTypeOK
      BY <1>1, TypeOKSplits
    <2>2. QED
      BY <2>1 DEF RequestTypeOK, AuthorityTypeOK, requestVars, authorityVars
  <1>5. CoreInv'
    BY <1>1, <1>3, HeldKeepsCore
  <1>6. KeyInv'
    <2>1. keyRevoked' = keyRevoked /\ "key" \in job'.acked => "key" \in job.acked
      BY <1>2 DEF authorityVars
    <2>2. CASE UNCHANGED <<now, familyVars>>
      BY <1>1, <2>1, <2>2 DEF KeyInv, familyVars, recordVars, authorityVars
    <2>3. CASE FamilyNext
      <3>1. keyRevoked => keyRevoked'
        BY DEF authorityVars
      <3>2. QED
        BY <1>1, <1>2, <1>3, <2>3, <3>1, KeyStep
    <2>4. QED
      BY <1>2, <2>2, <2>3
  <1>7. QED
    BY <1>2, <1>3, <1>4, <1>5, <1>6, TypeOKSplits DEF ExchangeInv

-----------------------------------------------------------------------------
(* The steps *)

\* What the others do does not disturb a held request.
LEMMA SoundStays ==
  ASSUME FamilyInv, FamilyInv', [FamilyNext]_<<now, familyVars>>, UnstoredIsUnspent,
         known \subseteq known', NEW h \in Held, HeldIsSound(h),
         at'[h] = at[h], shows'[h] = shows[h], h \in late' => h \in late
  PROVE  HeldIsSound(h)'
  <1>1. now' < GrantExpiry =>
          /\ now < GrantExpiry
          /\ spent \subseteq spent'
          /\ status # "none" => status' # "none"
          /\ status = "revoked" => status' = "revoked"
    BY FamilyRemembers
  <1>2. LateIsSpent(h)' /\ JudgedIsStored(h)'
    BY <1>1 DEF HeldIsSound, LateIsSpent, JudgedIsStored
  <1>3. QED
    BY <1>2 DEF HeldIsSound

LEMMA ExchangesKeepHeld ==
  ASSUME PauseInv, ExchangeInv', Next, UNCHANGED pauseVars
  PROVE  HeldInv'
  <1>1. /\ FamilyInv /\ FamilyInv' /\ [FamilyNext]_<<now, familyVars>>
        /\ UnstoredIsUnspent /\ \A h \in Held : HeldIsSound(h)
    BY StepIsFamilyStep DEF PauseInv, ExchangeInv, HeldInv
  <1>2. known \subseteq known'
    BY DEF Next, RequestStep, Present, RevokeToken, CallBegin, CallInitialize, ProviderRotates,
           CallCommit, CallRevoke, CallCheck, CleanupGrant, CleanupKey, FamilyStep, requestVars
  <1>3. at' = at /\ shows' = shows /\ late' = late
    BY DEF pauseVars
  <1>4. \A h \in Held : HeldIsSound(h)'
    BY <1>1, <1>2, <1>3, SoundStays
  <1>5. QED
    BY <1>1, <1>4, FamilyRemembers DEF HeldInv

\* The step of a held request itself, call by call.
LEMMA HeldStaysSound ==
  ASSUME PauseInv, ExchangeInv', NEW h \in Held, HeldStep(h),
         UNCHANGED <<requestVars, authorityVars>>
  PROVE  HeldIsSound(h)'
  <1>1. /\ UnstoredIsUnspent /\ shows[h] \in known /\ LateIsSpent(h) /\ JudgedIsStored(h)
        /\ known' = known /\ at \in [Held -> Places] /\ shows \in [Held -> Credential]
    BY HeldTypes DEF PauseInv, HeldInv, HeldIsSound, requestVars
  <1>2. \A to \in Places : Move(h, to) => at'[h] = to
    BY <1>1 DEF Move
  <1>3. ASSUME NEW c \in known, Arrive(h, c)
        PROVE  HeldIsSound(h)'
    <2>1. at'[h] = "accepted" /\ shows'[h] = c /\ h \notin late
      BY <1>1, <1>2, <1>3 DEF Arrive, Places, LateIsSpent
    <2>2. h \in late' => c \in spent
      BY <1>3, <2>1 DEF Arrive
    <2>3. spent' = spent
      BY <1>3 DEF Arrive, NoCall, familyVars, recordVars
    <2>4. QED
      BY <1>1, <2>1, <2>2, <2>3 DEF HeldIsSound, LateIsSpent, JudgedIsStored
  <1>4. CASE CallCheckHeld(h)
    <2>1. PICK grant \in ReadGrant, reply \in CheckReply :
            CheckAnswers(shows[h], reply) /\ Move(h, Judge(h, grant, reply))
      BY <1>4 DEF CallCheckHeld
    <2>2. /\ UNCHANGED <<now, status, spent>> /\ shows' = shows /\ late' = late
          /\ at[h] = "accepted"
      BY <1>4 DEF CallCheckHeld, NoCall, familyVars, recordVars
    <2>3. at'[h] = Judge(h, grant, reply)
      BY <1>2, <2>1 DEF Judge, Places
    <2>4. at'[h] \in {"revoke", "current"} => status # "none"
      BY <2>1, <2>3 DEF Judge, CheckAnswers
    <2>5. /\ at'[h] \in {"paused", "current", "create", "revoke"}
          /\ at'[h] \in {"paused", "current"} => shows[h] \notin spent
      BY <1>1, <2>1, <2>3 DEF Judge, CheckAnswers, UnstoredIsUnspent
    <2>6. QED
      BY <1>1, <2>2, <2>4, <2>5 DEF HeldIsSound, LateIsSpent, JudgedIsStored
  <1>5. CASE CallStatus(h)
    <2>1. /\ at[h] = "current" /\ shows' = shows /\ late' = late /\ now' = now
          /\ spent' = spent /\ at'[h] \in {"paused", "revoke"}
          /\ status # "none" => status' # "none"
      BY <1>2, <1>5 DEF CallStatus, Status, Tombstone, recordVars, Places
    <2>2. QED
      BY <1>1, <2>1 DEF HeldIsSound, LateIsSpent, JudgedIsStored
  <1>6. CASE CallCreate(h)
    <2>1. /\ at[h] = "create" /\ shows' = shows /\ late' = late /\ now' = now
          /\ spent' = spent /\ at'[h] \in {"revoke", "gave_up"}
          /\ at'[h] = "revoke" => status' # "none"
      BY <1>2, <1>6 DEF CallCreate, Initialize, recordVars, Places
    <2>2. QED
      BY <1>1, <2>1 DEF HeldIsSound, LateIsSpent, JudgedIsStored
  <1>7. CASE CallRevokeHeld(h)
    <2>1. /\ at[h] = "revoke" /\ shows' = shows /\ late' = late /\ now' = now
          /\ spent' = spent /\ at'[h] = "done"
          /\ status # "none" => status' = "revoked"
      BY <1>2, <1>7 DEF CallRevokeHeld, Revoke, Tombstone, recordVars, Places
    <2>2. QED
      BY <1>1, <2>1 DEF HeldIsSound, LateIsSpent, JudgedIsStored
  <1>8. QED
    BY <1>3, <1>4, <1>5, <1>6, <1>7 DEF HeldStep

LEMMA HeldKeepsHeld ==
  ASSUME PauseInv, ExchangeInv', NEW h \in Held, HeldStep(h),
         UNCHANGED <<requestVars, authorityVars>>
  PROVE  HeldInv' /\ PauseTypeOK'
  <1>1. /\ FamilyInv /\ FamilyInv' /\ [FamilyNext]_<<now, familyVars>>
        /\ UnstoredIsUnspent /\ \A k \in Held : HeldIsSound(k)
        /\ at \in [Held -> Places] /\ shows \in [Held -> Credential] /\ late \in SUBSET Held
        /\ known' = known /\ known \subseteq Credential
    BY HeldIsFamilyStep, HeldTypes, RequestTypes
    DEF PauseInv, ExchangeInv, HeldInv, requestVars
  <1>2. PICK to \in Places : Move(h, to)
    BY DEF HeldStep, Arrive, CallCheckHeld, CallStatus, CallCreate, CallRevokeHeld, Judge, Places
  <1>3. /\ shows' = shows \/ \E c \in known : shows' = [shows EXCEPT ![h] = c]
        /\ late' = late \/ late' = late \cup {h}
    BY DEF HeldStep, Arrive, CallCheckHeld, CallStatus, CallCreate, CallRevokeHeld
  <1>4. ASSUME NEW k \in Held, k # h
        PROVE  HeldIsSound(k)'
    <2>1. at'[k] = at[k] /\ shows'[k] = shows[k] /\ (k \in late' => k \in late)
      BY <1>1, <1>2, <1>3, <1>4 DEF Move
    <2>2. QED
      BY <1>1, <2>1, SoundStays
  <1>5. HeldInv'
    BY <1>1, <1>4, HeldStaysSound, FamilyRemembers DEF HeldInv
  <1>6. PauseTypeOK'
    BY <1>1, <1>2, <1>3 DEF PauseTypeOK, Move, Places
  <1>7. QED
    BY <1>5, <1>6

-----------------------------------------------------------------------------
(* The theorems *)

LEMMA PauseInvInit == PauseInit => PauseInv
  <1> SUFFICES ASSUME PauseInit PROVE PauseInv
    OBVIOUS
  <1>1. ExchangeInv
    BY ExchangeInvInit DEF PauseInit
  <1>2. PauseTypeOK
    BY ExchangeConstants DEF PauseInit, PauseTypeOK
  <1>3. HeldInv
    BY DEF PauseInit, Init, FamilyInit, HeldInv, UnstoredIsUnspent, HeldIsSound, LateIsSpent,
           JudgedIsStored
  <1>4. QED
    BY <1>1, <1>2, <1>3 DEF PauseInv

LEMMA PauseInvStep == PauseInv /\ [PauseNext]_<<vars, pauseVars>> => PauseInv'
  <1> SUFFICES ASSUME PauseInv, [PauseNext]_<<vars, pauseVars>>
               PROVE  PauseInv'
    OBVIOUS
  <1>1. CASE UNCHANGED <<vars, pauseVars>>
    <2>1. ExchangeInv'
      BY <1>1, UnchangedKeepsExchange DEF PauseInv
    <2>2. /\ at' = at /\ shows' = shows /\ late' = late /\ known' = known
          /\ now' = now /\ status' = status /\ spent' = spent
      BY <1>1 DEF vars, pauseVars, requestVars, familyVars, recordVars
    <2>3. PauseTypeOK' /\ HeldInv'
      BY <2>2
      DEF PauseInv, PauseTypeOK, HeldInv, UnstoredIsUnspent, HeldIsSound, LateIsSpent,
          JudgedIsStored
    <2>4. QED
      BY <2>1, <2>3 DEF PauseInv
  <1>2. CASE Next /\ UNCHANGED pauseVars
    <2>1. ExchangeInv'
      BY <1>2, ExchangeInvStep DEF PauseInv
    <2>2. PauseTypeOK'
      BY <1>2 DEF PauseInv, PauseTypeOK, pauseVars
    <2>3. QED
      BY <1>2, <2>1, <2>2, ExchangesKeepHeld DEF PauseInv
  <1>3. ASSUME NEW h \in Held, HeldStep(h), UNCHANGED <<requestVars, authorityVars>>
        PROVE  PauseInv'
    <2>1. ExchangeInv'
      BY <1>3, HeldKeepsExchange DEF PauseInv, HeldInv, HeldIsSound
    <2>2. QED
      BY <1>3, <2>1, HeldKeepsHeld DEF PauseInv
  <1>4. QED
    BY <1>1, <1>2, <1>3 DEF PauseNext

\* The inductive invariant: the token endpoint's own, and what a held request
\* knows of the family it judges.
THEOREM PauseInvariant == PauseSpec => []PauseInv
  <1>1. QED
    BY PauseInvInit, PauseInvStep, PTL DEF PauseSpec

\* assertPolicyPauseIsSafe: no replay is told to come back later, and a family
\* that a held request was told is over is over.
THEOREM PausesHideNoReplay == PauseSpec => []PauseHidesNoReplay
  <1>1. PauseInv => PauseHidesNoReplay
    BY DEF PauseInv, HeldInv, HeldIsSound, LateIsSpent, JudgedIsStored, PauseHidesNoReplay
  <1>2. QED
    BY <1>1, PauseInvariant, PTL

\* What is proved of the token endpoint holds beside any number of held
\* requests, which may create and end the family as well.
THEOREM PausesKeepTheExchange ==
  PauseSpec => [](SingleUse /\ OneUsableCredential /\ ReplayRevokes /\ RevokedKeyIsDisabled)
  <1>1. PauseInv => SingleUse /\ OneUsableCredential /\ ReplayRevokes /\ RevokedKeyIsDisabled
    BY DEF PauseInv, ExchangeInv, CoreInv, KeyInv, RevokedKeyIsDisabled
  <1>2. QED
    BY <1>1, PauseInvariant, PTL

-----------------------------------------------------------------------------
(* The chain of credentials *)

Links == { << presents[r], r >> : r \in Released }

Tried == { presents[r] : r \in used }

Pending == { << presents[r], r >> : r \in Answering }

\* The chain's variables, by name.
LEMMA ChainVars ==
  UNCHANGED << Links, Tried, Pending, status = "revoked", now >= GrantExpiry >>
    <=> UNCHANGED Chain!vars
  BY DEF Chain!vars, Links, Tried, Pending

LEMMA HandedByLinks == Chain!Handed = {Code} \cup { link[2] : link \in Links }
  BY DEF Chain!Handed, Links

\* Everything known was handed out, by the chain's account too.
LEMMA HandedIsKnown ==
  ASSUME CoreInv
  PROVE  Chain!Handed = known
  <1>1. { link[2] : link \in Links } = Released
    <2>1. \A link \in Links : link[2] \in Released
      BY DEF Links
    <2>2. ASSUME NEW r \in Released
          PROVE  \E link \in Links : link[2] = r
      <3>1. << presents[r], r >> \in Links
        BY DEF Links
      <3>2. << presents[r], r >>[2] = r
        OBVIOUS
      <3>3. QED
        BY <3>1, <3>2
    <2>3. QED
      BY <2>1, <2>2
  <1>2. QED
    BY <1>1, HandedByLinks DEF CoreInv, PresentedIsKnown

\* Only the holder of the lease of an active family may still answer.
LEMMA AnsweringHoldsLease ==
  ASSUME FamilyInv, NEW r \in Answering
  PROVE  r \in Request /\ status = "active" /\ inflight.lease = r /\ Answering = {r}
  BY DEF Answering, HoldsLease

\* Steps that start and answer nothing.
LEMMA QuietStepOfChain ==
  ASSUME ExchangeInv, ExchangeInv', Moves, used' = used,
         inflight' = inflight \/ inflight' = NoInflight,
         now' >= now, now' = now \/ status' = status,
         status = "revoked" => status' = "revoked" \/ now >= GrantExpiry
  PROVE  [Chain!Next]_(Chain!vars)
  <1>1. /\ TypeOK /\ FamilyInv /\ CoreInv /\ FamilyInv' /\ CoreInv' /\ TypeOK'
        /\ now \in Nat /\ now' \in Nat /\ GrantExpiry \in Nat
    BY LeaseNeedsActive, FamilyInvSplitsNext, ExchangeConstants, FamilyConstants DEF ExchangeInv
  <1>2. Links' = Links
    BY MovesKeepReleased DEF Links
  <1>3. Tried' = Tried
    <2>1. \A s \in used : s \in Request /\ rpc[s] # "idle"
      BY <1>1, RequestTypes DEF CoreInv, PresentedIsKnown
    <2>2. \A s \in used : presents'[s] = presents[s]
      BY <2>1 DEF Moves
    <2>3. QED
      BY <2>2 DEF Tried
  <1>4. ASSUME NEW s \in Answering'
        PROVE  s \in Answering /\ presents'[s] = presents[s]
    <2>1. s \in Request /\ status' = "active" /\ inflight'.lease = s
      BY DEF Answering, HoldsLease
    <2>2. inflight.lease = s /\ status = "active"
      <3>1. inflight' = inflight
        BY <2>1, ExchangeConstants DEF NoInflight
      <3>2. inflight.lease = s
        BY <2>1, <3>1
      <3>3. QED
        BY <1>1, <2>1, <3>2, LeaseNeedsActive, ExchangeConstants
    <2>3. rpc'[s] = "settle" \/ (rpc'[s] = "reserved" /\ now' < GrantExpiry)
      BY DEF Answering
    <2>4. /\ rpc[s] = "settle" \/ (rpc[s] = "reserved" /\ now < GrantExpiry)
          /\ presents'[s] = presents[s]
      BY <1>1, <2>1, <2>3 DEF Moves
    <2>5. QED
      BY <2>1, <2>2, <2>4 DEF Answering, HoldsLease
  <1>5. Pending' \in {Pending, {}}
    <2>1. CASE Answering' = {}
      BY <2>1 DEF Pending
    <2>2. ASSUME NEW s \in Answering'
          PROVE  Pending' = Pending
      <3>1. Answering' = {s}
        BY <1>1, AnsweringHoldsLease DEF Answering, HoldsLease
      <3>2. Answering = {s} /\ presents'[s] = presents[s]
        BY <1>1, <1>4, AnsweringHoldsLease
      <3>3. QED
        BY <3>1, <3>2 DEF Pending
    <2>3. QED
      BY <2>1, <2>2
  <1>6. status # "active" => Pending = {}
    BY <1>1, AnsweringHoldsLease DEF Pending
  <1>7. status' # "active" => Pending' = {}
    BY <1>1, AnsweringHoldsLease DEF Pending, Answering, HoldsLease
  <1>8. CASE now < GrantExpiry /\ now' >= GrantExpiry
    <2>1. (now >= GrantExpiry)' = TRUE
      BY <1>8
    <2>2. (status = "revoked")' = (status = "revoked")
      BY <1>1, <1>8
    <2>3. Chain!Expire
      BY <1>2, <1>3, <1>5, <2>1, <2>2 DEF Chain!Expire, Links, Tried, Pending
    <2>4. QED
      BY <2>3 DEF Chain!Next
  <1>9. CASE ~(now < GrantExpiry /\ now' >= GrantExpiry)
    <2>1. (now' >= GrantExpiry) = (now >= GrantExpiry)
      BY <1>1, <1>9
    <2>2. CASE status' = "revoked"
      <3>1. Chain!Revoke
        BY <1>2, <1>3, <1>7, <2>1, <2>2 DEF Chain!Revoke, Chain!End, Links, Tried, Pending
      <3>2. QED
        BY <3>1 DEF Chain!Next
    <2>3. CASE status' # "revoked" /\ status = "revoked"
      <3>1. Pending' = Pending /\ now >= GrantExpiry
        BY <1>1, <1>5, <1>6, <2>3
      <3>2. Chain!Forget
        BY <1>2, <1>3, <2>1, <2>3, <3>1 DEF Chain!Forget, Links, Tried, Pending
      <3>3. QED
        BY <3>2 DEF Chain!Next
    <2>4. CASE status' # "revoked" /\ status # "revoked"
      <3>1. CASE Pending' = {}
        <4>1. Chain!GiveUp
          BY <1>2, <1>3, <2>1, <2>4, <3>1 DEF Chain!GiveUp, Links, Tried, Pending
        <4>2. QED
          BY <4>1 DEF Chain!Next
      <3>2. CASE Pending' = Pending
        BY <1>2, <1>3, <2>1, <2>4, <3>2, ChainVars
      <3>3. QED
        BY <1>5, <3>1, <3>2
    <2>5. QED
      BY <2>2, <2>3, <2>4
  <1>10. QED
    BY <1>8, <1>9

\* A use of a credential that gets nothing is a step of the chain.
LEMMA RefuseIsNext ==
  ASSUME NEW c \in Credential, Chain!Refuse(c)
  PROVE  [Chain!Next]_(Chain!vars)
  <1>1. \E x \in Credential : Chain!Refuse(x)
    OBVIOUS
  <1>2. QED
    BY <1>1 DEF Chain!Next

\* /begin as the chain sees it: the first use of the head starts a try, a later
\* use ends the chain, and any other gets nothing.
LEMMA BeginOfChain ==
  ASSUME ExchangeInv, ExchangeInv', NEW r \in Request, CallBegin(r), NEW was, was = presents[r],
         NEW reply \in BeginReply \ {"missing"}, Begin(r, was, reply), used' = used \cup {r},
         \/ reply = "started" /\ Goto(r, "reserved")
         \/ Goto(r, "revoke") \/ Goto(r, "done") \/ Goto(r, "gave_up")
  PROVE  [Chain!Next]_(Chain!vars)
  <1>1. /\ TypeOK /\ FamilyInv /\ CoreInv /\ FamilyInv' /\ CoreInv'
        /\ now \in Nat /\ GrantExpiry \in Nat
    BY LeaseNeedsActive, ExchangeConstants DEF ExchangeInv
  <1>2. used' = used \cup {r} /\ UNCHANGED << presents, known, now >>
    BY DEF CallBegin, Begin
  <1>3. /\ rpc[r] \in {"validated", "rebegin"}
        /\ rpc'[r] \in {"reserved", "revoke", "done", "gave_up"}
        /\ \A s \in Request \ {r} : rpc'[s] = rpc[s]
    BY <1>1, RequestTypes DEF CallBegin, Goto
  <1>4. was \in known /\ was \in Credential /\ r \in Credential /\ r \notin known
    BY <1>1, <1>3, RequestTypes, ExchangeConstants DEF CoreInv, PresentedIsKnown, Released
  <1>5. Released' = Released
    BY <1>3 DEF Released
  <1>6. /\ Links' = Links /\ Tried' = Tried \cup {was} /\ Chain!Handed = known
        /\ (status = "revoked")' = (status' = "revoked")
        /\ (now >= GrantExpiry)' = (now >= GrantExpiry)
    <2>1. Links' = Links
      BY <1>2, <1>5 DEF Links
    <2>2. Tried' = Tried \cup {was}
      BY <1>2 DEF Tried
    <2>3. QED
      BY <1>1, <1>2, <2>1, <2>2, HandedIsKnown
  <1>7. CASE status' = "revoked"
    <2>1. Pending' = {}
      BY <1>7 DEF Pending, Answering, HoldsLease
    <2>2. Chain!Refuse(was)
      BY <1>4, <1>6, <1>7, <2>1 DEF Chain!Refuse, Chain!End, Links, Tried, Pending
    <2>3. QED
      BY <1>4, <2>2, RefuseIsNext
  <1>8. CASE UNCHANGED << status, inflight >> /\ (was \in Tried => now >= GrantExpiry)
    <2>1. Answering' = Answering
      <3>1. inflight.lease # r
        BY <1>1, <1>3, LeaseHolders
      <3>2. QED
        BY <1>2, <1>3, <1>8, <3>1 DEF Answering, HoldsLease
    <2>2. Pending' = Pending
      BY <1>2, <2>1 DEF Pending
    <2>3. Chain!Refuse(was)
      BY <1>4, <1>6, <1>8, <2>2 DEF Chain!Refuse, Links, Tried, Pending
    <2>4. QED
      BY <1>4, <2>3, RefuseIsNext
  <1>9. CASE /\ Startable(was) /\ inflight = NoInflight /\ status' = status
              /\ inflight' = [lease |-> r, since |-> now]
    <2>1. status = "active" /\ was \notin spent /\ Answering = {}
      BY <1>9, ExchangeConstants DEF Startable, Answering, HoldsLease, NoInflight
    <2>2. now < GrantExpiry => was \notin Tried
      <3>1. ASSUME now < GrantExpiry, NEW s \in used, presents[s] = was
            PROVE  FALSE
        <4>1. s \in Request /\ inflight.lease # s
          BY <1>1, <1>9, RequestTypes, ExchangeConstants DEF NoInflight
        <4>2. QED
          BY <1>1, <2>1, <3>1, <4>1 DEF CoreInv, UsedIsSpent
      <3>2. QED
        BY <3>1 DEF Tried
    <2>3. Pending = {}
      BY <2>1 DEF Pending
    <2>4. CASE rpc'[r] = "reserved" /\ now < GrantExpiry
      <3>1. Answering' = {r}
        BY <1>2, <1>9, <2>1, <2>4 DEF Answering, HoldsLease
      <3>2. Pending' = {<< was, r >>}
        BY <1>2, <3>1 DEF Pending
      <3>3. Chain!Start(was, r)
        BY <1>1, <1>4, <1>6, <1>9, <2>1, <2>2, <2>3, <2>4, <3>2
        DEF Chain!Start, Links, Tried, Pending
      <3>4. QED
        BY <1>4, <3>3 DEF Chain!Next
    <2>5. CASE ~(rpc'[r] = "reserved" /\ now < GrantExpiry)
      <3>1. Answering' = {}
        BY <1>2, <1>3, <1>9, <2>5 DEF Answering, HoldsLease
      <3>2. Pending' = Pending
        BY <2>3, <3>1 DEF Pending
      <3>3. Chain!Refuse(was)
        BY <1>1, <1>4, <1>6, <1>9, <2>2, <3>2 DEF Chain!Refuse, Links, Tried, Pending
      <3>4. QED
        BY <1>4, <3>3, RefuseIsNext
    <2>6. QED
      BY <2>4, <2>5
  <1>10. CASE /\ status = "active" /\ was \notin spent /\ current # was
              /\ UNCHANGED << recordVars, cleanup, alarm >>
    <2>1. now >= GrantExpiry
      BY <1>1, <1>4, <1>10, ExchangeConstants DEF CoreInv, OneUsableCredential
    <2>2. QED
      BY <1>8, <1>10, <2>1 DEF recordVars
  <1>11. CASE status = "revoked" /\ UNCHANGED << recordVars, cleanup, alarm >>
    BY <1>7, <1>11 DEF recordVars
  <1>12. QED
    BY <1>7, <1>9, <1>10, <1>11 DEF Begin, Startable, ReserveLease, Tombstone

\* A commit that succeeds is the answer of the try under way.
LEMMA CommitOfChain ==
  ASSUME ExchangeInv, ExchangeInv', NEW r \in Request, rpc[r] = "settle",
         Commit(r, r, "committed"), Goto(r, "released"), UNCHANGED << presents, used >>
  PROVE  [Chain!Next]_(Chain!vars)
  <1>1. /\ TypeOK /\ FamilyInv /\ CoreInv /\ now \in Nat /\ GrantExpiry \in Nat
    BY LeaseNeedsActive, ExchangeConstants DEF ExchangeInv
  <1>2. /\ HoldsLease(r) /\ inflight' = NoInflight /\ UNCHANGED << status, now >>
        /\ status = "active"
    BY DEF Commit, Rotate, HoldsLease
  <1>3. r \in Answering
    BY <1>2 DEF Answering
  <1>4. Pending = {<< presents[r], r >>}
    BY <1>1, <1>3, AnsweringHoldsLease DEF Pending
  <1>5. Pending' = {}
    BY <1>2, ExchangeConstants DEF Pending, Answering, HoldsLease, NoInflight
  <1>6. Links' = Links \cup Pending
    <2>1. Released' = Released \cup {r}
      BY <1>1, RequestTypes DEF Goto, Released
    <2>2. Links' = Links \cup {<< presents[r], r >>}
      BY <2>1 DEF Links
    <2>3. QED
      BY <1>4, <2>2
  <1>7. Tried' = Tried
    BY DEF Tried
  <1>8. Chain!Answer
    BY <1>2, <1>4, <1>5, <1>6, <1>7 DEF Chain!Answer, Links, Tried, Pending
  <1>9. QED
    BY <1>8 DEF Chain!Next

\* What a call may do to the family that starts no try.
QuietFamily ==
  /\ inflight' = inflight \/ inflight' = NoInflight
  /\ now' >= now
  /\ now' = now \/ status' = status

LEMMA QuietCalls ==
  ASSUME TypeOK, FamilyInv, NEW r, NEW c, NEW expiry, NEW reply,
         \/ NoCall \/ Begin(r, c, "missing") \/ Initialize(c, expiry, reply)
         \/ Commit(r, c, reply) \/ Revoke
  PROVE  QuietFamily
  <1>1. now \in Nat
    BY LeaseNeedsActive
  <1>2. CASE NoCall
    BY <1>2, NoCallFacts DEF QuietFamily
  <1>3. CASE Begin(r, c, "missing") \/ Initialize(c, expiry, reply)
    BY <1>1, <1>3 DEF QuietFamily, Begin, Startable, ReserveLease, Tombstone, Initialize, recordVars
  <1>4. CASE Commit(r, c, reply) \/ Revoke
    BY <1>1, <1>4 DEF QuietFamily, Commit, Rotate, Revoke, Tombstone, recordVars
  <1>5. QED
    BY <1>2, <1>3, <1>4

\* The steps of the family itself, of a newer login and of access tokens start no try.
LEMMA QuietFamilySteps ==
  ASSUME TypeOK, FamilyInv, CleanupGrant \/ CleanupKey \/ FamilyStep
  PROVE  QuietFamily
  <1>1. now \in Nat
    BY LeaseNeedsActive
  <1>2. CASE CleanupGrant \/ CleanupKey
    <2>1. PICK x \in {"grant", "key"}, ack \in BOOLEAN : JobAnswer(x, ack)
      BY <1>2 DEF CleanupGrant, CleanupKey
    <2>2. QED
      BY <1>1, <2>1 DEF QuietFamily, JobAnswer, recordVars
  <1>3. CASE AlarmFires
    BY <1>1, <1>3 DEF QuietFamily, AlarmFires, StartCleanup, FamilyAlarm, DeleteAll, recordVars
  <1>4. CASE JobFinish
    BY <1>1, <1>4 DEF QuietFamily, JobFinish, DeleteAll, recordVars
  <1>5. CASE FamilyCrash \/ Tick
    BY <1>1, <1>5 DEF QuietFamily, FamilyCrash, Tick, familyVars, recordVars
  <1>6. CASE Supersede \/ UseAccessToken
    BY <1>1, <1>6 DEF QuietFamily, Supersede, UseAccessToken, Status, Tombstone, recordVars
  <1>7. QED
    BY <1>2, <1>3, <1>4, <1>5, <1>6 DEF FamilyStep

\* Every step of the token endpoint is a step of the chain or leaves it alone.
LEMMA ExchangeStepOfChain ==
  ASSUME ExchangeInv, ExchangeInv', [Next]_vars
  PROVE  [Chain!Next]_(Chain!vars)
  <1>1. TypeOK /\ FamilyInv /\ CoreInv
    BY DEF ExchangeInv
  <1>2. status = "revoked" => status' = "revoked" \/ now >= GrantExpiry
    <2>1. [FamilyNext]_<<now, familyVars>>
      BY <1>1, StepIsFamilyStep DEF vars
    <2>2. CASE UNCHANGED <<now, familyVars>>
      BY <2>2 DEF familyVars, recordVars
    <2>3. CASE FamilyNext
      BY <1>1, <2>3, TombstoneStays
    <2>4. QED
      BY <2>1, <2>2, <2>3
  <1>3. ASSUME Moves, QuietFamily, used' = used
        PROVE  [Chain!Next]_(Chain!vars)
    BY <1>2, <1>3, QuietStepOfChain DEF QuietFamily
  <1>4. ASSUME NEW r \in Request, NEW to \in Rpcs \ {"released", "idle", "reserved"},
               Goto(r, to), rpc[r] # "released", UNCHANGED << presents, used >>, QuietFamily,
               to = "settle" => rpc[r] = "reserved" /\ now < GrantExpiry
        PROVE  [Chain!Next]_(Chain!vars)
    BY <1>1, <1>3, <1>4, GotoMoves
  <1>5. ASSUME NEW r \in Request, CallBegin(r)
        PROVE  [Chain!Next]_(Chain!vars)
    <2>1. PICK was : was = presents[r]
      OBVIOUS
    <2>2. CASE \E reply \in BeginReply \ {"missing"} :
                 /\ Begin(r, was, reply)
                 /\ used' = used \cup {r}
                 /\ \/ reply = "started" /\ Goto(r, "reserved")
                    \/ Goto(r, "revoke") \/ Goto(r, "done") \/ Goto(r, "gave_up")
      BY <1>5, <2>1, <2>2, BeginOfChain
    <2>3. CASE /\ NoCall \/ Begin(r, was, "missing")
               /\ used' = used
               /\ \E to \in {"done", "create", "create_revoked", "gave_up"} : Goto(r, to)
      <3>1. QuietFamily
        BY <1>1, <2>3, QuietCalls
      <3>2. rpc[r] # "released" /\ presents' = presents
        BY <1>5 DEF CallBegin
      <3>3. QED
        BY <1>4, <2>3, <3>1, <3>2 DEF Rpcs
    <2>4. QED
      BY <1>5, <2>1, <2>2, <2>3 DEF CallBegin
  <1>6. ASSUME NEW r \in Request, CallInitialize(r)
        PROVE  [Chain!Next]_(Chain!vars)
    <2>1. QuietFamily
      BY <1>1, <1>6, QuietCalls DEF CallInitialize
    <2>2. PICK to \in {"rebegin", "revoke", "gave_up"} : Goto(r, to)
      BY <1>6 DEF CallInitialize
    <2>3. QED
      BY <1>4, <1>6, <2>1, <2>2 DEF CallInitialize, Rpcs
  <1>7. ASSUME NEW r \in Request, CallCommit(r)
        PROVE  [Chain!Next]_(Chain!vars)
    <2>1. CASE Commit(r, r, "committed") /\ Goto(r, "released")
      BY <1>7, <2>1, CommitOfChain DEF CallCommit
    <2>2. CASE Goto(r, "revoke") /\ (NoCall \/ \E reply \in CommitReply : Commit(r, r, reply))
      <3>1. QuietFamily
        BY <1>1, <2>2, QuietCalls
      <3>2. QED
        BY <1>4, <1>7, <2>2, <3>1 DEF CallCommit, Rpcs
    <2>3. QED
      BY <1>7, <2>1, <2>2 DEF CallCommit
  <1>8. ASSUME NEW r \in Request, CallRevoke(r) \/ CallCheck(r) \/ ProviderRotates(r)
        PROVE  [Chain!Next]_(Chain!vars)
    <2>1. QuietFamily
      BY <1>1, <1>8, QuietCalls DEF CallRevoke, CallCheck, ProviderRotates
    <2>2. /\ rpc[r] # "released" /\ UNCHANGED << presents, used >>
          /\ \E to \in {"revoke", "done", "gave_up", "settle"} :
               Goto(r, to) /\ (to = "settle" => rpc[r] = "reserved" /\ now < GrantExpiry)
      BY <1>8 DEF CallRevoke, CallCheck, ProviderRotates
    <2>3. QED
      BY <1>4, <2>1, <2>2 DEF Rpcs
  <1>9. ASSUME NEW r \in Request, NEW c \in known, Present(r, c) \/ RevokeToken(r, c)
        PROVE  [Chain!Next]_(Chain!vars)
    <2>1. QuietFamily /\ used' = used
      BY <1>1, <1>9, QuietCalls DEF Present, RevokeToken
    <2>2. PICK to \in {"validated", "refused", "revoke", "done"} :
            /\ rpc[r] = "idle" /\ Goto(r, to)
            /\ presents' = [presents EXCEPT ![r] = c]
      BY <1>9 DEF Present, RevokeToken
    <2>3. /\ rpc'[r] = to /\ presents'[r] = c
          /\ \A s \in Request \ {r} : rpc'[s] = rpc[s] /\ presents'[s] = presents[s]
      BY <1>1, <2>2, RequestTypes DEF Goto
    <2>4. Moves
      BY <2>2, <2>3 DEF Moves, Rpcs
    <2>5. QED
      BY <1>3, <2>1, <2>4
  <1>10. CASE CleanupGrant \/ CleanupKey \/ FamilyStep
    <2>1. Moves /\ used' = used
      BY <1>1, <1>10, StillMoves DEF CleanupGrant, CleanupKey, FamilyStep, requestVars
    <2>2. QED
      BY <1>1, <1>3, <1>10, <2>1, QuietFamilySteps
  <1>11. CASE UNCHANGED vars
    <2>1. NoCall /\ UNCHANGED << rpc, presents, used >>
      BY <1>11 DEF vars, requestVars, NoCall
    <2>2. Moves /\ QuietFamily
      BY <1>1, <2>1, StillMoves, QuietCalls
    <2>3. QED
      BY <1>3, <2>1, <2>2
  <1>12. QED
    BY <1>5, <1>6, <1>7, <1>8, <1>9, <1>10, <1>11 DEF Next, RequestStep

\* A request that the policy holds back is no try.
LEMMA HeldStepOfChain ==
  ASSUME ExchangeInv, ExchangeInv', PauseTypeOK, NEW h \in Held, HeldStep(h),
         UNCHANGED <<requestVars, authorityVars>>
  PROVE  [Chain!Next]_(Chain!vars)
  <1>1. TypeOK /\ FamilyInv /\ CoreInv /\ now \in Nat
    BY LeaseNeedsActive DEF ExchangeInv
  <1>2. Moves /\ used' = used
    BY <1>1, StillMoves DEF requestVars
  <1>3. QuietFamily
    <2>1. CASE \E reply \in {"missing", "active", "revoked"} : Status(reply)
      BY <1>1, <2>1 DEF QuietFamily, Status, Tombstone, recordVars
    <2>2. QED
      BY <1>1, <2>1, HeldCalls, QuietCalls
  <1>4. status = "revoked" => status' = "revoked" \/ now >= GrantExpiry
    <2>1. [FamilyNext]_<<now, familyVars>>
      BY HeldIsFamilyStep
    <2>2. CASE UNCHANGED <<now, familyVars>>
      BY <2>2 DEF familyVars, recordVars
    <2>3. CASE FamilyNext
      BY <1>1, <2>3, TombstoneStays
    <2>4. QED
      BY <2>1, <2>2, <2>3
  <1>5. QED
    BY <1>2, <1>3, <1>4, QuietStepOfChain DEF QuietFamily

\* The only link at the start is the code itself, and nothing has been tried.
LEMMA ChainStarts == Init => Chain!Init
  <1> SUFFICES ASSUME Init
               PROVE  Chain!Init
    OBVIOUS
  <1>1. Released = {} /\ used = {} /\ Answering = {}
    BY DEF Init, FamilyInit, Released, Answering, HoldsLease
  <1>2. status = "none" /\ now = 0 /\ GrantExpiry \in Nat /\ GrantExpiry # 0
    BY FamilyConstants, FamilyAssumption DEF Init, FamilyInit
  <1>3. QED
    BY <1>1, <1>2 DEF Chain!Init

\* The refinement: requests, leases, stale reads of the grant, lost answers,
\* crashes and cleanups add up to a chain of credentials, each tried once.
THEOREM ExchangesFormAChain == Spec => ImplementsTokenChain
  <1>1. ExchangeInv /\ ExchangeInv' /\ [Next]_vars => [Chain!Next]_(Chain!vars)
    BY ExchangeStepOfChain
  <1>2. QED
    BY <1>1, ChainStarts, ExchangeInvariant, PTL DEF Spec, ImplementsTokenChain, Chain!Spec

\* Requests that the policy holds back beside them add nothing to the chain.
THEOREM PausesKeepTheChain == PauseSpec => ImplementsTokenChain
  <1>1. ExchangeInv /\ ExchangeInv' /\ PauseTypeOK /\ [PauseNext]_<<vars, pauseVars>>
          => [Chain!Next]_(Chain!vars)
    <2> SUFFICES ASSUME ExchangeInv, ExchangeInv', PauseTypeOK, [PauseNext]_<<vars, pauseVars>>
                 PROVE  [Chain!Next]_(Chain!vars)
      OBVIOUS
    <2>1. CASE [Next]_vars
      BY <2>1, ExchangeStepOfChain
    <2>2. ASSUME NEW h \in Held, HeldStep(h), UNCHANGED <<requestVars, authorityVars>>
          PROVE  [Chain!Next]_(Chain!vars)
      BY <2>2, HeldStepOfChain
    <2>3. QED
      BY <2>1, <2>2 DEF PauseNext
  <1>2. PauseInv => ExchangeInv /\ PauseTypeOK
    BY DEF PauseInv
  <1>3. PauseInit => Chain!Init
    BY ChainStarts DEF PauseInit
  <1>4. QED
    BY <1>1, <1>2, <1>3, PauseInvariant, PTL DEF PauseSpec, ImplementsTokenChain, Chain!Spec

(***************************************************************************)
(* What a chain promises: whoever holds it, there is one way on.           *)
(***************************************************************************)

\* Of everything that was handed out, at most one credential is untried.
OneHead == \A c, d \in Chain!Handed \ Tried : c = d

\* Nobody tries while a try may still end well, and only one may.
ChainInv ==
  /\ OneHead
  /\ Pending # {} => Chain!Handed \subseteq Tried
  /\ \A p, q \in Pending : p = q

LEMMA ChainInvStep == ChainInv /\ [Chain!Next]_(Chain!vars) => ChainInv'
  <1> SUFFICES ASSUME ChainInv, [Chain!Next]_(Chain!vars)
               PROVE  ChainInv'
    OBVIOUS
  <1>1. Chain!Handed = {Code} \cup { link[2] : link \in Links }
    BY HandedByLinks
  <1>2. Chain!Handed' = {Code} \cup { link[2] : link \in Links' }
    BY DEF Chain!Handed, Links
  <1>3. ASSUME Links' = Links, Tried \subseteq Tried', Pending' \in {Pending, {}}
        PROVE  ChainInv'
    BY <1>1, <1>2, <1>3 DEF ChainInv, OneHead
  <1>4. CASE \E c, d \in Credential : Chain!Start(c, d)
    <2>1. PICK c \in Credential, d \in Credential : Chain!Start(c, d)
      BY <1>4
    <2>2. /\ c \in Chain!Handed \ Tried /\ Tried' = Tried \cup {c}
          /\ Links' = Links /\ Pending' = {<< c, d >>}
      BY <2>1 DEF Chain!Start, Links, Tried, Pending
    <2>3. Chain!Handed' = Chain!Handed
      BY <1>1, <1>2, <2>2
    <2>4. Chain!Handed' \subseteq Tried'
      BY <2>2, <2>3 DEF ChainInv, OneHead
    <2>5. QED
      BY <2>2, <2>4 DEF ChainInv, OneHead
  <1>5. CASE Chain!Answer
    <2>1. /\ Pending # {} /\ Links' = Links \cup Pending /\ Pending' = {} /\ Tried' = Tried
      BY <1>5 DEF Chain!Answer, Links, Tried, Pending
    <2>2. PICK p \in Pending : Pending = {p}
      BY <2>1 DEF ChainInv
    <2>3. Chain!Handed' = Chain!Handed \cup {p[2]}
      BY <1>1, <1>2, <2>1, <2>2
    <2>4. \A c \in Chain!Handed' \ Tried' : c = p[2]
      BY <2>1, <2>2, <2>3 DEF ChainInv
    <2>5. QED
      BY <2>1, <2>4 DEF ChainInv, OneHead
  <1>6. CASE \E c \in Credential : Chain!Refuse(c)
    <2>1. Links' = Links /\ Tried \subseteq Tried' /\ Pending' \in {Pending, {}}
      BY <1>6 DEF Chain!Refuse, Chain!End, Links, Tried, Pending
    <2>2. QED
      BY <1>3, <2>1
  <1>7. CASE Chain!GiveUp \/ Chain!Revoke \/ Chain!Expire \/ Chain!Forget
    <2>1. Links' = Links /\ Tried' = Tried /\ Pending' \in {Pending, {}}
      BY <1>7
      DEF Chain!GiveUp, Chain!Revoke, Chain!End, Chain!Expire, Chain!Forget, Links, Tried, Pending
    <2>2. QED
      BY <1>3, <2>1
  <1>8. CASE UNCHANGED Chain!vars
    BY <1>3, <1>8, ChainVars
  <1>9. QED
    BY <1>4, <1>5, <1>6, <1>7, <1>8 DEF Chain!Next

\* The promise of the abstract chain.
THEOREM ChainsHaveOneHead == ImplementsTokenChain => []OneHead
  <1>1. Chain!Init => ChainInv
    BY HandedByLinks DEF Chain!Init, ChainInv, OneHead, Links, Tried, Pending
  <1>2. ChainInv => OneHead
    BY DEF ChainInv
  <1>3. QED
    BY <1>1, <1>2, ChainInvStep, PTL DEF ImplementsTokenChain, Chain!Spec

\* What it says of the token endpoint, expired or not: of the credentials that
\* ever left it at most one has not been used, and that one alone goes on.
THEOREM OneCredentialIsUnused ==
  Spec => [](\A c, d \in known \ Tried : c = d)
  <1>1. ExchangeInv /\ OneHead => \A c, d \in known \ Tried : c = d
    BY HandedIsKnown DEF ExchangeInv, OneHead
  <1>2. QED
    BY <1>1, ExchangesFormAChain, ChainsHaveOneHead, ExchangeInvariant, PTL
===============================================================================
