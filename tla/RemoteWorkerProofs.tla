-------------------------- MODULE RemoteWorkerProofs --------------------------
(***************************************************************************)
(* Proofs about the remote workers: SessionBinding keeps its sessions to   *)
(* their logins, for any number of logins, requests and session ids; and   *)
(* the tokens of a reviewed grant do not outlive the ERP key behind them.  *)
(***************************************************************************)
EXTENDS RemoteWorker, ReviewedGrant, SequenceTheorems, TLAPS

(***************************************************************************)
(* Sessions.  SessionInv adds to the properties what they rest on: a tag   *)
(* names one login for good, an object belongs to the login its tag names, *)
(* and what a request remembers of the guards it passed.                   *)
(***************************************************************************)

\* Every tag that was handed out is that of a login, as it still is.
TagsNameLogins == \A t \in tags : props[t.mark.key] # NoProps /\ t.mark = Fingerprint(t.mark.key)

\* A session that can be named is gone or belongs to the login its tag names.
ObjectsAreTagged ==
  \A t \in tags : object[t.raw] # NoObject => object[t.raw].owner = t.mark.key

SentRequests == {r \in Request : req[r].at \in {"sent", "guarded", "served"}}

\* The id of a request carries a tag that was handed out.
IdsAreTagged == \A r \in SentRequests : req[r].id.raw # None => req[r].id.tag \in tags

LoginsAreWhole ==
  \A l \in Login : props[l] # NoProps => props[l].user \in User /\ props[l].profile \in Profile

SentByLogins ==
  \A r \in SentRequests :
    /\ req[r].login \in Login /\ req[r].host \in Host /\ props[req[r].login] # NoProps
    /\ req[r].stale => req[r].login \in ended

\* What the guards of a reviewed host let pass.
PassedGuards ==
  \A r \in Request : req[r].at \in {"guarded", "served"} /\ req[r].host \in Reviewed =>
    /\ ~req[r].stale
    /\ req[r].host = "claude" /\ req[r].method = "POST" => req[r].admitted

ServedWereAccepted == \A r \in Served : InitAccepts(req[r].host, req[r].login)

SessionInv ==
  /\ TypeOK
  /\ TagsNameLogins
  /\ ObjectsAreTagged
  /\ IdsAreTagged
  /\ LoginsAreWhole
  /\ SentByLogins
  /\ PassedGuards
  /\ ServedWereAccepted
  /\ SessionServesItsLogin

RequestType ==
  [at : State, login : Login \cup {None}, host : Host \cup {None},
   id : [raw : RawId \cup {None}, tag : TagType \cup {None}],
   method : {"POST", "DELETE", None}, admitted : BOOLEAN, stale : BOOLEAN]

-----------------------------------------------------------------------------
(* What a request becomes *)

\* A refused request has lost all but its answer.
LEMMA RefusalType ==
  ASSUME NEW how \in State
  PROVE  Unsent(how) \in RequestType /\ Unsent(how).at = how
  BY DEF Unsent, RequestType, NoId

\* Unsent has no request that a property speaks of.
LEMMA RefuseKeeps ==
  ASSUME SessionInv, NEW r \in Request,
         NEW how \in State \ {"sent", "guarded", "served"}, Refuse(r, how),
         UNCHANGED <<props, ended, admitted, object, tags, reached>>
  PROVE  SessionInv'
  <1>1. req' = [req EXCEPT ![r] = Unsent(how)] /\ req \in [Request -> RequestType]
    BY DEF Refuse, SessionInv, TypeOK, RequestType
  <1>2. req' \in [Request -> RequestType]
    BY <1>1, RefusalType
  <1>3. TypeOK'
    BY <1>2 DEF SessionInv, TypeOK, RequestType
  <1>4. \A q \in Request : req'[q].at \in {"sent", "guarded", "served"} => req'[q] = req[q]
    BY <1>1, RefusalType
  <1>5. SentByLogins' /\ IdsAreTagged'
    BY <1>4 DEF SessionInv, SentByLogins, IdsAreTagged, SentRequests
  <1>6. PassedGuards'
    BY <1>4 DEF SessionInv, PassedGuards
  <1>7. ServedWereAccepted'
    BY <1>4 DEF SessionInv, ServedWereAccepted, Served, InitAccepts, Context
  <1>8. QED
    BY <1>3, <1>5, <1>6, <1>7
    DEF SessionInv, TagsNameLogins, ObjectsAreTagged, LoginsAreWhole, SessionServesItsLogin,
        Fingerprint

LEMMA GotoShape ==
  ASSUME SessionInv, NEW r \in Request, NEW to \in State, Goto(r, to)
  PROVE  /\ req' \in [Request -> RequestType]
         /\ \A q \in Request : /\ req'[q].login = req[q].login /\ req'[q].host = req[q].host
                               /\ req'[q].id = req[q].id /\ req'[q].method = req[q].method
                               /\ req'[q].admitted = req[q].admitted
                               /\ req'[q].stale = req[q].stale
                               /\ req'[q].at = IF q = r THEN to ELSE req[q].at
  <1>1. req \in [Request -> RequestType]
    BY DEF SessionInv, TypeOK, RequestType
  <1>2. req' = [req EXCEPT ![r].at = to]
    BY DEF Goto
  <1>3. req' \in [Request -> RequestType]
    BY <1>1, <1>2 DEF RequestType
  <1>4. QED
    BY <1>1, <1>2, <1>3 DEF RequestType

-----------------------------------------------------------------------------
(* Logins, revocations and the policy *)

LEMMA LogInKeeps ==
  ASSUME SessionInv, NEW l \in Login, NEW u \in User, NEW p \in Profile, LogIn(l, u, p)
  PROVE  SessionInv'
  <1>1. /\ props \in [Login -> Props] /\ props[l] = NoProps
        /\ props' = [props EXCEPT ![l] = [user |-> u, profile |-> p]]
        /\ UNCHANGED <<ended, admitted, object, tags, req, reached>>
    BY DEF SessionInv, TypeOK, LogIn
  <1>2. [user |-> u, profile |-> p] \in Props /\ [user |-> u, profile |-> p] # NoProps
    BY SessionAssumption DEF Props, NoProps
  <1>3. props' \in [Login -> Props] /\ \A k \in Login : props[k] # NoProps => props'[k] = props[k]
    BY <1>1, <1>2
  <1>4. TypeOK'
    BY <1>1, <1>3 DEF SessionInv, TypeOK
  <1>5. \A t \in tags : t.mark.key \in Login
    BY DEF SessionInv, TypeOK, TagType
  <1>6. TagsNameLogins'
    BY <1>1, <1>3, <1>5 DEF SessionInv, TagsNameLogins, Fingerprint
  <1>7. SentByLogins'
    BY <1>1, <1>3 DEF SessionInv, SentByLogins, SentRequests
  <1>8. ServedWereAccepted'
    <2> SUFFICES ASSUME NEW r \in Request, req[r].at = "served"
                 PROVE  InitAccepts(req[r].host, req[r].login)'
      BY <1>1 DEF ServedWereAccepted, Served
    <2>1. InitAccepts(req[r].host, req[r].login) /\ req[r].login \in Login
      BY DEF SessionInv, ServedWereAccepted, Served, SentByLogins, SentRequests
    <2>2. props'[req[r].login] = props[req[r].login]
      BY <2>1, <1>3 DEF InitAccepts
    <2>3. QED
      BY <2>1, <2>2, <1>1 DEF InitAccepts, Context
  <1>9. LoginsAreWhole'
    BY <1>1, <1>2 DEF SessionInv, LoginsAreWhole
  <1>10. QED
    BY <1>1, <1>4, <1>6, <1>7, <1>8, <1>9
    DEF SessionInv, ObjectsAreTagged, IdsAreTagged, SentRequests, PassedGuards, SessionServesItsLogin

LEMMA EndFamilyKeeps ==
  ASSUME SessionInv, NEW l \in Login, EndFamily(l)
  PROVE  SessionInv'
  BY DEF EndFamily, SessionInv, TypeOK, TagsNameLogins, ObjectsAreTagged, SentByLogins, SentRequests,
         IdsAreTagged, LoginsAreWhole, PassedGuards, ServedWereAccepted, Served, SessionServesItsLogin, Fingerprint,
         InitAccepts, Context

LEMMA ChangePolicyKeeps ==
  ASSUME SessionInv, NEW users \in SUBSET User, ChangePolicy(users)
  PROVE  SessionInv'
  BY DEF ChangePolicy, SessionInv, TypeOK, TagsNameLogins, ObjectsAreTagged, SentByLogins, SentRequests,
         IdsAreTagged, LoginsAreWhole, PassedGuards, ServedWereAccepted, Served, SessionServesItsLogin, Fingerprint,
         InitAccepts, Context

-----------------------------------------------------------------------------
(* One request *)

LEMMA PresentedIdType ==
  ASSUME SessionInv, NEW id \in PresentedId
  PROVE  id \in [raw : RawId \cup {None}, tag : TagType \cup {None}]
  BY DEF PresentedId, NoId, SessionInv, TypeOK, TagType

LEMMA SendKeeps ==
  ASSUME SessionInv, NEW r \in Request, NEW l \in Login, NEW h \in Host, NEW id \in PresentedId,
         NEW method \in {"POST", "DELETE"}, Send(r, l, h, id, method)
  PROVE  SessionInv'
  <1> DEFINE at == IF h = "full" THEN "guarded" ELSE "sent"
             sent == [at |-> at, login |-> l, host |-> h, id |-> id, method |-> method,
                      admitted |-> props[l].user \in admitted, stale |-> l \in ended]
  <1>1. /\ req \in [Request -> RequestType] /\ req' = [req EXCEPT ![r] = sent]
        /\ props[l] # NoProps
        /\ UNCHANGED <<props, ended, admitted, object, tags, reached>>
    BY DEF SessionInv, TypeOK, RequestType, Send
  <1>2. sent \in RequestType
    BY PresentedIdType DEF RequestType, State
  <1>11. sent.id.raw # None => sent.id.tag \in tags
    BY DEF PresentedId, NoId
  <1>3. sent.at \in {"sent", "guarded"} /\ (sent.at = "guarded" => sent.host = "full")
    OBVIOUS
  <1>4. sent.login = l /\ sent.host = h /\ (sent.stale => l \in ended)
    OBVIOUS
  <1> HIDE DEF sent
  <1>5. \A q \in Request : req'[q] = IF q = r THEN sent ELSE req[q]
    BY <1>1
  <1>6. TypeOK'
    BY <1>1, <1>2 DEF SessionInv, TypeOK, RequestType
  <1>7. SentByLogins' /\ IdsAreTagged'
    BY <1>1, <1>4, <1>5, <1>11 DEF SessionInv, SentByLogins, IdsAreTagged, SentRequests
  <1>8. PassedGuards'
    BY <1>3, <1>5 DEF SessionInv, PassedGuards, Reviewed
  <1>9. ServedWereAccepted'
    BY <1>1, <1>3, <1>5 DEF SessionInv, ServedWereAccepted, Served, InitAccepts, Context
  <1>10. QED
    BY <1>1, <1>6, <1>7, <1>8, <1>9
    DEF SessionInv, TagsNameLogins, ObjectsAreTagged, LoginsAreWhole, SessionServesItsLogin,
        Fingerprint

LEMMA GuardKeeps ==
  ASSUME SessionInv, NEW r \in Request, Guard(r)
  PROVE  SessionInv'
  <1>1. req[r].at = "sent" /\ UNCHANGED <<props, ended, admitted, object, tags, reached>>
    BY DEF Guard
  <1>2. CASE Refuse(r, "unauthorized") \/ Refuse(r, "paused")
    BY <1>1, <1>2, RefuseKeeps DEF State
  <1>3. CASE GuardPasses(r) /\ ~Paused(r) /\ Goto(r, "guarded")
    <2>1. /\ req' \in [Request -> RequestType]
          /\ \A q \in Request : /\ req'[q].login = req[q].login /\ req'[q].host = req[q].host
                                /\ req'[q].id = req[q].id /\ req'[q].method = req[q].method
                                /\ req'[q].admitted = req[q].admitted
                                /\ req'[q].stale = req[q].stale
                                /\ req'[q].at = IF q = r THEN "guarded" ELSE req[q].at
      BY <1>3, GotoShape DEF State
    <2>2. TypeOK'
      BY <1>1, <2>1 DEF SessionInv, TypeOK, RequestType
    <2>3. SentByLogins' /\ IdsAreTagged'
      BY <1>1, <2>1 DEF SessionInv, SentByLogins, IdsAreTagged, SentRequests
    <2>4. PassedGuards'
      <3>1. ~req[r].stale
        BY <1>1, <1>3 DEF GuardPasses, FamilyActive, SessionInv, SentByLogins, SentRequests
      <3>2. req[r].host = "claude" /\ req[r].method = "POST" => req[r].admitted
        BY <1>3 DEF Paused
      <3>3. QED
        BY <2>1, <3>1, <3>2 DEF SessionInv, PassedGuards
    <2>5. ServedWereAccepted'
      BY <1>1, <2>1 DEF SessionInv, ServedWereAccepted, Served, InitAccepts, Context
    <2>6. QED
      BY <1>1, <2>2, <2>3, <2>4, <2>5
      DEF SessionInv, TagsNameLogins, ObjectsAreTagged, LoginsAreWhole, SessionServesItsLogin,
        Fingerprint
  <1>4. QED
    BY <1>2, <1>3 DEF Guard

\* A guarded request that is served was sent by a login the object accepts.
LEMMA ServedKeeps ==
  ASSUME SessionInv, NEW r \in Request, req[r].at = "guarded", Goto(r, "served"),
         InitAccepts(req[r].host, req[r].login), UNCHANGED <<props, ended, admitted>>,
         tags \subseteq tags'
  PROVE  /\ req' \in [Request -> RequestType]
         /\ SentByLogins' /\ IdsAreTagged' /\ PassedGuards' /\ ServedWereAccepted'
  <1>1. /\ req' \in [Request -> RequestType]
        /\ \A q \in Request : /\ req'[q].login = req[q].login /\ req'[q].host = req[q].host
                              /\ req'[q].id = req[q].id /\ req'[q].method = req[q].method
                              /\ req'[q].admitted = req[q].admitted
                              /\ req'[q].stale = req[q].stale
                              /\ req'[q].at = IF q = r THEN "served" ELSE req[q].at
    BY GotoShape DEF State
  <1>2. SentByLogins' /\ IdsAreTagged'
    BY <1>1 DEF SessionInv, SentByLogins, IdsAreTagged, SentRequests
  <1>3. PassedGuards'
    BY <1>1 DEF SessionInv, PassedGuards
  <1>4. ServedWereAccepted'
    BY <1>1 DEF SessionInv, ServedWereAccepted, Served, InitAccepts, Context
  <1>5. QED
    BY <1>1, <1>2, <1>3, <1>4

\* The fresh object is that of the request's login, and so is its tag.
LEMMA OpenSessionKeeps ==
  ASSUME SessionInv, NEW r \in Request, OpenSession(r)
  PROVE  SessionInv'
  <1> DEFINE l == req[r].login
             h == req[r].host
  <1>1. /\ req[r].at = "guarded" /\ UNCHANGED <<props, ended, admitted>>
        /\ l \in Login /\ h \in Host /\ props[l] # NoProps
    BY DEF OpenSession, SessionInv, SentByLogins, SentRequests
  <1>2. CASE Refuse(r, "failed") /\ UNCHANGED <<object, tags, reached>>
    BY <1>1, <1>2, RefuseKeeps DEF State
  <1>3. ASSUME InitAccepts(h, l), Goto(r, "served"),
               reached' = reached \cup {[login |-> l, key |-> l]},
               NEW s \in RawId, \A t \in tags : t.raw # s,
               object' = [object EXCEPT ![s] = [host |-> h, owner |-> l]],
               tags' = tags \cup {Tag(s, l)}
        PROVE  SessionInv'
    <2>1. /\ req' \in [Request -> RequestType]
          /\ SentByLogins' /\ IdsAreTagged' /\ PassedGuards' /\ ServedWereAccepted'
      BY <1>1, <1>3, ServedKeeps
    <2>2. Tag(s, l) \in TagType
      <3>1. props[l] \in Props
        BY <1>1 DEF SessionInv, TypeOK
      <3>2. props[l].user \in User /\ props[l].profile \in Profile
        BY <1>1 DEF SessionInv, LoginsAreWhole
      <3>3. QED
        BY <1>1, <3>2 DEF Tag, Fingerprint, TagType
    <2>3. Tag(s, l).raw = s /\ Tag(s, l).mark = Fingerprint(l) /\ Fingerprint(l).key = l
      BY DEF Tag, Fingerprint
    <2>4. object' \in [RawId -> [host : Host \cup {None}, owner : Login \cup {None}]]
      BY <1>1, <1>3 DEF SessionInv, TypeOK
    <2>5. TypeOK'
      BY <1>1, <1>3, <2>1, <2>2, <2>4 DEF SessionInv, TypeOK, RequestType
    <2>6. TagsNameLogins'
      BY <1>1, <1>3, <2>3 DEF SessionInv, TagsNameLogins, Fingerprint
    <2>7. ObjectsAreTagged'
      <3> SUFFICES ASSUME NEW t \in tags', object'[t.raw] # NoObject
                   PROVE  object'[t.raw].owner = t.mark.key
        BY DEF ObjectsAreTagged
      <3>1. CASE t \in tags
        BY <1>3, <3>1 DEF SessionInv, ObjectsAreTagged, TypeOK, TagType
      <3>2. CASE t = Tag(s, l)
        BY <1>3, <2>3, <3>2 DEF SessionInv, TypeOK
      <3>3. QED
        BY <1>3, <3>1, <3>2
    <2>8. SessionServesItsLogin'
      BY <1>3 DEF SessionInv, SessionServesItsLogin
    <2>9. LoginsAreWhole'
      BY <1>1 DEF SessionInv, LoginsAreWhole
    <2>10. QED
      BY <2>1, <2>5, <2>6, <2>7, <2>8, <2>9 DEF SessionInv
  <1>4. QED
    BY <1>2, <1>3 DEF OpenSession

\* An id that unbinds names an object of the request's own login.
LEMMA UseSessionKeeps ==
  ASSUME SessionInv, NEW r \in Request, UseSession(r)
  PROVE  SessionInv'
  <1> DEFINE l == req[r].login
             h == req[r].host
             s == req[r].id.raw
  <1>1. /\ req[r].at = "guarded" /\ UNCHANGED <<props, ended, admitted, tags>>
        /\ l \in Login /\ h \in Host /\ props[l] # NoProps /\ s # None
    BY DEF UseSession, SessionInv, SentByLogins, SentRequests
  <1>2. CASE (Refuse(r, "forbidden") \/ Refuse(r, "missing")) /\ UNCHANGED <<object, reached>>
    BY <1>1, <1>2, RefuseKeeps DEF State
  <1>3. ASSUME Unbinds(req[r].id, l), object[s].host = h, Goto(r, "served"),
               NEW o \in {object[s].owner, l}, InitAccepts(h, o),
               object' = [object EXCEPT ![s] =
                 IF req[r].method = "DELETE" THEN NoObject ELSE [host |-> h, owner |-> o]],
               reached' = reached \cup {[login |-> l, key |-> o]}
        PROVE  SessionInv'
    <2>1. s \in RawId /\ req[r].id.tag \in tags
      <3>1. req[r] \in RequestType
        BY DEF SessionInv, TypeOK, RequestType
      <3>2. s \in RawId \cup {None}
        BY <3>1 DEF RequestType
      <3>3. QED
        BY <1>1, <3>2 DEF SessionInv, IdsAreTagged, SentRequests
    <2>2. /\ req[r].id.tag.raw = s /\ req[r].id.tag.mark.key = l
      BY <1>3 DEF Unbinds, Tag, Fingerprint
    <2>3. object[s] # NoObject
      BY <1>1, <1>3, SessionAssumption DEF NoObject
    <2>4. o = l /\ object[s].owner = l
      BY <1>3, <2>1, <2>2, <2>3 DEF SessionInv, ObjectsAreTagged
    <2>5. /\ req' \in [Request -> RequestType]
          /\ SentByLogins' /\ IdsAreTagged' /\ PassedGuards' /\ ServedWereAccepted'
      BY <1>1, <1>3, <2>4, ServedKeeps
    <2>6. /\ object' \in [RawId -> [host : Host \cup {None}, owner : Login \cup {None}]]
          /\ \A x \in RawId : \/ object'[x] = object[x]
                              \/ object'[x] = NoObject
                              \/ x = s /\ object'[x].owner = l
      BY <1>1, <1>3, <2>1, <2>4 DEF SessionInv, TypeOK, NoObject
    <2>7. TypeOK'
      BY <1>1, <1>3, <2>4, <2>5, <2>6 DEF SessionInv, TypeOK, RequestType
    <2>8. ObjectsAreTagged'
      BY <1>1, <2>1, <2>2, <2>3, <2>6 DEF SessionInv, ObjectsAreTagged, TypeOK, TagType
    <2>9. SessionServesItsLogin'
      BY <1>3, <2>4 DEF SessionInv, SessionServesItsLogin
    <2>10. TagsNameLogins' /\ LoginsAreWhole'
      BY <1>1 DEF SessionInv, TagsNameLogins, LoginsAreWhole, Fingerprint
    <2>11. QED
      BY <2>5, <2>7, <2>8, <2>9, <2>10 DEF SessionInv
  <1>4. QED
    BY <1>2, <1>3 DEF UseSession

-----------------------------------------------------------------------------
(* The invariant *)

LEMMA SessionInvInit == Init => SessionInv
  <1> SUFFICES ASSUME Init PROVE SessionInv
    OBVIOUS
  <1>1. Unsent("idle") \in RequestType /\ Unsent("idle").at = "idle"
    BY RefusalType DEF State
  <1>2. NoProps \in Props /\ NoObject \in [host : Host \cup {None}, owner : Login \cup {None}]
    BY DEF NoProps, Props, NoObject
  <1>3. \A r \in Request : req[r] = Unsent("idle") /\ req[r].at = "idle"
    BY <1>1 DEF Init
  <1>4. TypeOK
    BY <1>1, <1>2 DEF Init, TypeOK, RequestType
  <1>5. SentByLogins /\ IdsAreTagged /\ PassedGuards /\ ServedWereAccepted
    BY <1>3 DEF SentByLogins, IdsAreTagged, SentRequests, PassedGuards, ServedWereAccepted, Served
  <1>6. TagsNameLogins /\ ObjectsAreTagged /\ LoginsAreWhole /\ SessionServesItsLogin
    BY DEF Init, TagsNameLogins, ObjectsAreTagged, LoginsAreWhole, SessionServesItsLogin
  <1>7. QED
    BY <1>4, <1>5, <1>6 DEF SessionInv

LEMMA SessionInvStep == SessionInv /\ [Next]_vars => SessionInv'
  <1> SUFFICES ASSUME SessionInv, [Next]_vars PROVE SessionInv'
    OBVIOUS
  <1>1. CASE \E l \in Login, u \in User, p \in Profile : LogIn(l, u, p)
    BY <1>1, LogInKeeps
  <1>2. CASE \E l \in Login : EndFamily(l)
    BY <1>2, EndFamilyKeeps
  <1>3. CASE \E users \in SUBSET User : ChangePolicy(users)
    BY <1>3, ChangePolicyKeeps
  <1>4. ASSUME NEW r \in Request, RequestStep(r) PROVE SessionInv'
    BY <1>4, SendKeeps, GuardKeeps, OpenSessionKeeps, UseSessionKeeps DEF RequestStep
  <1>5. CASE UNCHANGED vars
    BY <1>5
    DEF vars, SessionInv, TypeOK, TagsNameLogins, ObjectsAreTagged, IdsAreTagged,
        LoginsAreWhole, SentByLogins, SentRequests, PassedGuards, ServedWereAccepted, Served,
        SessionServesItsLogin, Fingerprint, InitAccepts, Context
  <1>6. QED
    BY <1>1, <1>2, <1>3, <1>4, <1>5 DEF Next

LEMMA SessionInvariant == Spec => []SessionInv
  <1>1. QED
    BY SessionInvInit, SessionInvStep, PTL DEF Spec

\* FrihetMCP and the /mcp handlers: their state keeps its types.
THEOREM SessionTypeCorrect == Spec => []TypeOK
  <1>1. SessionInv => TypeOK
    BY DEF SessionInv
  <1>2. QED
    BY <1>1, SessionInvariant, PTL

\* createPrincipalBoundMcpHandler: a session is reached with its own login only.
THEOREM SessionsStayBound == Spec => []SessionServesItsLogin
  <1>1. SessionInv => SessionServesItsLogin
    BY DEF SessionInv
  <1>2. QED
    BY <1>1, SessionInvariant, PTL

\* FrihetMCP.init: no token reaches a session of another profile's host.
THEOREM ProfilesKeepApart == Spec => []ProfilesStayApart
  <1>1. SessionInv => ProfilesStayApart
    BY SessionAssumption
    DEF SessionInv, ServedWereAccepted, SentByLogins, SentRequests, Served, InitAccepts, Context,
        ProfilesStayApart, Reviewed
  <1>2. QED
    BY <1>1, SessionInvariant, PTL

\* reviewedMcpApiHandler: neither a revoked nor a paused login gets through.
THEOREM RefusedLoginsStayOut == Spec => []RefusedLoginReachesNothing
  <1>1. SessionInv => RefusedLoginReachesNothing
    BY DEF SessionInv, PassedGuards, Served, RefusedLoginReachesNothing
  <1>2. QED
    BY <1>1, SessionInvariant, PTL

-----------------------------------------------------------------------------
(* Routes.  Checks is the sequence of which Route gives the first reply; a  *)
(* route is one of its members, and all before that one passed.             *)

\* The checks of fetch in their order.
Checks(profile, r) ==
  << AccessProfile(profile, r), CanonicalOrigin(profile, r),
     RouteConfusion(profile, r), ClaudePublicSurface(profile, r), McpBody(profile, r),
     OpenApiContained(profile, r), ResourceMetadata(profile, r),
     OpenIdConfiguration(profile, r), LegalPages(profile, r), AnyHead(profile, r),
     Challenge(profile, r), Favicon(profile, r), Health(profile, r),
     StaticDocuments(profile, r), OpenApi(profile, r), Releases(profile, r),
     TokenRequest(profile, r), Registration(profile, r), Provider(profile, r) >>

\* The first reply that does not pass is one of the replies.
LEMMA FirstOfNineteen ==
  ASSUME NEW replies, DOMAIN replies = 1..19, replies[19] # Pass
  PROVE  \E k \in 1..19 : /\ FirstReply(replies) = replies[k]
                          /\ replies[k] # Pass
                          /\ \A j \in 1..(k - 1) : replies[j] = Pass
  <1>1. \E k \in 1..19 : replies[k] # Pass /\ \A j \in 1..(k - 1) : replies[j] = Pass
    OBVIOUS
  <1>2. QED
    BY <1>1 DEF FirstReply

\* The provider answers whatever reaches it.
LEMMA ProviderReplies ==
  ASSUME NEW profile, NEW r
  PROVE  Provider(profile, r) # Pass
  BY DEF Provider, BoundMcpHandler, AuthHandler, Reply, Pass, Bare, Shown

\* A route is one of the checks, and every check before it passed.
LEMMA RouteIsACheck ==
  ASSUME NEW profile, NEW r
  PROVE  \E k \in 1..19 : /\ Route(profile, r) = Checks(profile, r)[k]
                          /\ Checks(profile, r)[k] # Pass
                          /\ \A j \in 1..(k - 1) : Checks(profile, r)[j] = Pass
  <1>1. Route(profile, r) = FirstReply(Checks(profile, r))
    BY DEF Route, Checks
  <1>2. DOMAIN Checks(profile, r) = 1..19 /\ Checks(profile, r)[19] = Provider(profile, r)
    BY DEF Checks
  <1>3. QED
    BY <1>1, <1>2, ProviderReplies, FirstOfNineteen

\* The checks by their places.
LEMMA ChecksByName ==
  ASSUME NEW profile, NEW r
  PROVE  /\ Checks(profile, r)[1] = AccessProfile(profile, r)
         /\ Checks(profile, r)[2] = CanonicalOrigin(profile, r)
         /\ Checks(profile, r)[3] = RouteConfusion(profile, r)
         /\ Checks(profile, r)[4] = ClaudePublicSurface(profile, r)
         /\ Checks(profile, r)[5] = McpBody(profile, r)
         /\ Checks(profile, r)[6] = OpenApiContained(profile, r)
         /\ Checks(profile, r)[7] = ResourceMetadata(profile, r)
         /\ Checks(profile, r)[8] = OpenIdConfiguration(profile, r)
         /\ Checks(profile, r)[9] = LegalPages(profile, r)
         /\ Checks(profile, r)[10] = AnyHead(profile, r)
         /\ Checks(profile, r)[11] = Challenge(profile, r)
         /\ Checks(profile, r)[12] = Favicon(profile, r)
         /\ Checks(profile, r)[13] = Health(profile, r)
         /\ Checks(profile, r)[14] = StaticDocuments(profile, r)
         /\ Checks(profile, r)[15] = OpenApi(profile, r)
         /\ Checks(profile, r)[16] = Releases(profile, r)
         /\ Checks(profile, r)[17] = TokenRequest(profile, r)
         /\ Checks(profile, r)[18] = Registration(profile, r)
         /\ Checks(profile, r)[19] = Provider(profile, r)
  BY DEF Checks

\* A check before the provider passes, refuses or shows something itself.
FromWorker(answer) ==
  \/ answer = Pass
  \/ \E n \in Int, shown \in Profiles \cup {"none", "plain"} :
       answer = Reply("worker", n, shown)

LEMMA WorkerReplies ==
  ASSUME NEW profile, NEW r, NEW k \in 1..18
  PROVE  FromWorker(Checks(profile, r)[k])
  <1>1. /\ FromWorker(Pass) /\ FromWorker(Shown("none")) /\ FromWorker(Shown("plain"))
        /\ FromWorker(Shown("claude")) /\ FromWorker(Shown("openai")) /\ FromWorker(Shown("full"))
    BY DEF FromWorker, Shown, Profiles, ReviewedProfiles
  <1>2. \A n \in Int : FromWorker(Bare(n))
    BY DEF FromWorker, Bare
  <1>3. BodyStatus(r) \in Int
    BY DEF BodyStatus
  <1>4. /\ FromWorker(AccessProfile(profile, r)) /\ FromWorker(CanonicalOrigin(profile, r))
        /\ FromWorker(RouteConfusion(profile, r)) /\ FromWorker(ClaudePublicSurface(profile, r))
    BY <1>1, <1>2 DEF AccessProfile, CanonicalOrigin, RouteConfusion, ClaudePublicSurface, Gate
  <1>5. /\ FromWorker(McpBody(profile, r)) /\ FromWorker(OpenApiContained(profile, r))
        /\ FromWorker(ResourceMetadata(profile, r)) /\ FromWorker(OpenIdConfiguration(profile, r))
    BY <1>1, <1>2, <1>3
    DEF McpBody, OpenApiContained, ResourceMetadata, OpenIdConfiguration, Gate
  <1>6. /\ FromWorker(LegalPages(profile, r)) /\ FromWorker(AnyHead(profile, r))
        /\ FromWorker(Challenge(profile, r)) /\ FromWorker(Favicon(profile, r))
        /\ FromWorker(Health(profile, r))
    BY <1>1, <1>2 DEF LegalPages, AnyHead, Challenge, Favicon, Health, Gate
  <1>7. /\ FromWorker(StaticDocuments(profile, r)) /\ FromWorker(OpenApi(profile, r))
        /\ FromWorker(Releases(profile, r)) /\ FromWorker(TokenRequest(profile, r))
        /\ FromWorker(Registration(profile, r))
    BY <1>1, <1>2, <1>3 DEF StaticDocuments, OpenApi, Releases, TokenRequest, Registration, Gate
  <1>8. QED
    BY ChecksByName, <1>4, <1>5, <1>6, <1>7

\* What the worker does not answer passed all its checks.
LEMMA PassedRoute ==
  ASSUME NEW profile, NEW r, Route(profile, r).by # "worker"
  PROVE  /\ Route(profile, r) = Provider(profile, r)
         /\ \A j \in 1..18 : Checks(profile, r)[j] = Pass
  <1>1. PICK k \in 1..19 : /\ Route(profile, r) = Checks(profile, r)[k]
                           /\ Checks(profile, r)[k] # Pass
                           /\ \A j \in 1..(k - 1) : Checks(profile, r)[j] = Pass
    BY RouteIsACheck
  <1>2. ASSUME k \in 1..18 PROVE FALSE
    <2>1. FromWorker(Checks(profile, r)[k])
      BY <1>2, WorkerReplies
    <2>2. FromWorker(Route(profile, r)) /\ Route(profile, r) # Pass
      BY <1>1, <2>1
    <2>3. Route(profile, r).by = "worker"
      BY <2>2 DEF FromWorker, Reply
    <2>4. QED
      BY <2>3
  <1>3. QED
    BY <1>1, <1>2, ChecksByName

\* Only "/mcp" itself is a session's.
LEMMA SessionRoute ==
  ASSUME NEW profile, NEW r, Route(profile, r).by = "session"
  PROVE  /\ At(r, {"/mcp"}) /\ r.token
         /\ profile \in ReviewedProfiles => r.origin = profile
         /\ profile \in ReviewedProfiles /\ r.method = "POST" => r.body = "rebuilt"
  <1>1. Route(profile, r) = Provider(profile, r)
        /\ \A j \in 1..18 : Checks(profile, r)[j] = Pass
    BY PassedRoute
  <1>2. At(r, {"/mcp"}) /\ r.token
    BY <1>1 DEF Provider, BoundMcpHandler, AuthHandler, Reply, Bare, Shown
  <1>3. CanonicalOrigin(profile, r) = Pass /\ McpBody(profile, r) = Pass
    BY <1>1, ChecksByName
  <1>4. \A n \in Int : Bare(n) # Pass
    BY DEF Bare, Pass, Reply
  <1>5. BodyStatus(r) \in Int
    BY DEF BodyStatus
  <1>6. profile \in ReviewedProfiles => r.origin = profile
    BY <1>3, <1>4 DEF CanonicalOrigin, Gate
  <1>7. ~BodyRefused(profile, r, "/mcp")
    BY <1>3, <1>4, <1>5 DEF McpBody, Gate
  <1>8. QED
    BY <1>2, <1>6, <1>7 DEF BodyRefused

\* A reviewed host shows what names no tool or is its own.
LEMMA ShownOnReviewed ==
  ASSUME NEW profile \in ReviewedProfiles, NEW r
  PROVE  Route(profile, r).shows \in {"none", "plain", profile}
  <1> DEFINE Own(answer) == answer.shows \in {"none", "plain", profile}
  <1>1. PICK k \in 1..19 : /\ Route(profile, r) = Checks(profile, r)[k]
                           /\ Checks(profile, r)[k] # Pass
                           /\ \A j \in 1..(k - 1) : Checks(profile, r)[j] = Pass
    BY RouteIsACheck
  <1>2. Own(Pass) /\ Own(Shown("none")) /\ Own(Shown("plain")) /\ Own(Shown(profile))
    BY DEF Pass, Shown, Reply
  <1>3. \A n \in Int : Own(Bare(n))
    BY DEF Bare, Reply
  <1> HIDE DEF Own
  <1>4. BodyStatus(r) \in Int
    BY DEF BodyStatus
  <1>5. \A j \in 1..13 : Own(Checks(profile, r)[j])
    <2>1. Own(AccessProfile(profile, r)) /\ Own(CanonicalOrigin(profile, r))
          /\ Own(RouteConfusion(profile, r)) /\ Own(ClaudePublicSurface(profile, r))
      BY <1>2, <1>3 DEF AccessProfile, CanonicalOrigin, RouteConfusion, ClaudePublicSurface, Gate
    <2>2. Own(McpBody(profile, r)) /\ Own(OpenApiContained(profile, r))
          /\ Own(ResourceMetadata(profile, r)) /\ Own(OpenIdConfiguration(profile, r))
      BY <1>2, <1>3, <1>4
      DEF McpBody, OpenApiContained, ResourceMetadata, OpenIdConfiguration, Gate
    <2>3. Own(LegalPages(profile, r)) /\ Own(AnyHead(profile, r)) /\ Own(Challenge(profile, r))
          /\ Own(Favicon(profile, r)) /\ Own(Health(profile, r))
      BY <1>2, <1>3 DEF LegalPages, AnyHead, Challenge, Favicon, Health, Gate
    <2>4. QED
      BY ChecksByName, <2>1, <2>2, <2>3
  <1>6. Own(Releases(profile, r)) /\ Own(TokenRequest(profile, r)) /\ Own(Registration(profile, r))
    BY <1>2, <1>3, <1>4 DEF Releases, TokenRequest, Registration, Gate
  \* A host that is not OpenAI's is Claude's, and its closed surface answers.
  <1>7. k \in {14, 15} /\ profile # "openai" => Own(Checks(profile, r)[k])
    <2> SUFFICES ASSUME k \in {14, 15}, profile # "openai" PROVE FALSE
      OBVIOUS
    <2>1. profile = "claude" /\ ClaudePublicSurface(profile, r) = Pass
      BY <1>1, ChecksByName DEF ReviewedProfiles
    <2>2. \A n \in Int : Bare(n) # Pass /\ Shown("claude") # Pass
      BY DEF Bare, Shown, Pass, Reply
    <2>3. At(r, ProviderPaths)
      BY <2>1, <2>2 DEF ClaudePublicSurface, Gate
    <2>4. ~At(r, Documents) /\ ~At(r, OpenApiNames)
      BY <2>3 DEF At, ProviderPaths, Documents, OpenApiNames
    <2>5. QED
      BY <1>1, <2>1, <2>4, ChecksByName DEF StaticDocuments, OpenApi, Gate
  <1>8. profile = "openai" => Own(StaticDocuments(profile, r)) /\ Own(OpenApi(profile, r))
    BY <1>2, <1>3 DEF StaticDocuments, OpenApi, Gate
  <1>9. Own(Provider(profile, r))
    BY <1>4 DEF Own, Provider, BoundMcpHandler, AuthHandler, Reply, Bare, Shown, ReviewedProfiles
  <1>10. Own(Checks(profile, r)[k])
    BY <1>5, <1>6, <1>7, <1>8, <1>9, ChecksByName
  <1>11. QED
    BY <1>1, <1>10 DEF Own

\* A reviewed host refuses every spelling of an OpenAPI path.
LEMMA OpenApiRoute ==
  ASSUME NEW profile \in ReviewedProfiles, NEW r, IsOpenApiLookalikePath(r.path)
  PROVE  Route(profile, r).status >= 400
  <1>1. PICK k \in 1..19 : /\ Route(profile, r) = Checks(profile, r)[k]
                           /\ Checks(profile, r)[k] # Pass
                           /\ \A j \in 1..(k - 1) : Checks(profile, r)[j] = Pass
    BY RouteIsACheck
  <1>2. OpenApiContained(profile, r) = Bare(404) /\ Bare(404) # Pass
    BY DEF OpenApiContained, Gate, Bare, Pass, Reply
  <1>3. k \in 1..6
    BY <1>1, <1>2, ChecksByName
  <1>4. ~At(r, ClaudeSurfaces)
    BY DEF At, ClaudeSurfaces, IsOpenApiLookalikePath, OpenApiNames
  <1>5. BodyStatus(r) \in {400, 413}
    BY DEF BodyStatus
  <1>6. Route(profile, r) \in {Bare(503), Bare(421), Bare(404), Bare(400), Bare(413)}
    BY <1>1, <1>2, <1>3, <1>4, <1>5, ChecksByName
    DEF AccessProfile, CanonicalOrigin, RouteConfusion, ClaudePublicSurface, McpBody, Gate
  <1>7. QED
    BY <1>6 DEF Bare, Reply

\* A form that reaches the provider of a reviewed host is allowed.
LEMMA TokenRoute ==
  ASSUME NEW profile \in ReviewedProfiles, NEW r, At(r, {"/token"}),
         Route(profile, r).by = "provider"
  PROVE  TokenFormAllowed(r.form)
  <1>1. Route(profile, r) = Provider(profile, r) /\ TokenRequest(profile, r) = Pass
    BY PassedRoute, ChecksByName
  <1>2. ~IsApiRequest(r)
    BY DEF At, IsApiRequest, McpNames
  <1>3. r.method = "POST"
    BY <1>1, <1>2 DEF Provider, AuthHandler, Reply, Bare, Shown
  <1>4. Bare(400) # Pass
    BY DEF Bare, Pass, Reply
  <1>5. QED
    BY <1>1, <1>3, <1>4 DEF TokenRequest, Gate

\* Forms whose values are any words.
FormType(Words) == [CriticalParams \cup {"token"} -> Seq(Words)]

\* Short tuples are sequences.
LEMMA TupleIsSequence ==
  ASSUME NEW S, NEW a \in S, NEW b \in S
  PROVE  <<a>> \in Seq(S) /\ <<a, b>> \in Seq(S)
  OBVIOUS

\* A sequence that is neither empty nor longer than one.
LEMMA ShortSequence ==
  ASSUME NEW S, NEW s \in Seq(S), s # << >>, ~(Len(s) > 1)
  PROVE  Len(s) = 1 /\ DOMAIN s = 1..1
  <1>1. Len(s) \in Nat \ {0}
    BY EmptySeq
  <1>2. DOMAIN s = 1..Len(s)
    BY LenProperties
  <1>3. QED
    BY <1>1, <1>2

\* A parameter that is not repeated reads in one way.
LEMMA OneReading ==
  ASSUME NEW Words, NEW form \in FormType(Words), NEW p \in CriticalParams \cup {"token"}, ~Repeated(form, p)
  PROVE  Readings(form, p) = {First(form, p)}
  <1>1. form[p] \in Seq(Words) /\ Len(form[p]) \in Nat /\ ~(Len(form[p]) > 1)
    BY DEF FormType, Repeated
  <1>2. CASE form[p] = << >>
    BY <1>2 DEF Readings, First, Has
  <1>3. CASE form[p] # << >>
    <2>1. Len(form[p]) = 1 /\ DOMAIN form[p] = 1..1
      BY <1>1, <1>3, ShortSequence
    <2>2. QED
      BY <1>3, <2>1 DEF Readings, First, Has
  <1>4. QED
    BY <1>2, <1>3


\* What the guards and the provider make of a form that passed agrees.
LEMMA FormSeen ==
  ASSUME NEW Words, NEW form \in FormType(Words), TokenFormAllowed(form), NEW d \in ProviderDoes(form)
  PROVE  /\ GuardOf(form) =
              [ does |-> d.does, credential |-> d.credential, client |-> d.client ]
         /\ d.resource \in {"none", "own"} /\ d.scope \in {"none", "exact"}
  <1> DEFINE kind == First(form, "grant_type")
             Issues(does, p) ==
               [ does : Readings(form, "grant_type") \cap {does},
                 credential : Readings(form, p) \cap Structured, client : {"none"},
                 resource : Readings(form, "resource"), scope : Readings(form, "scope") ]
             Revokes ==
               [ does : IF Readings(form, "grant_type") \cap {"none", ""} = {} THEN {}
                        ELSE {"revoke"},
                 credential : Readings(form, "token") \cap Structured,
                 client : Readings(form, "client_id"), resource : {"none"}, scope : {"none"} ]
             Agreed ==
               /\ GuardOf(form) =
                    [ does |-> d.does, credential |-> d.credential, client |-> d.client ]
               /\ d.resource \in {"none", "own"} /\ d.scope \in {"none", "exact"}
  <1>1. Readings(form, "grant_type") = {kind}
    BY OneReading DEF TokenFormAllowed, CriticalParams
  <1>2. ASSUME NEW does \in Kinds, NEW p \in {"code", "refresh_token"},
               CredentialParam(does) = p, d \in Issues(does, p)
        PROVE  Agreed
    <2>1. kind = does /\ IssuanceAllowed(form)
      BY <1>1, <1>2 DEF TokenFormAllowed
    <2>2. \A q \in {p, "resource", "scope"} : Readings(form, q) = {First(form, q)}
      BY <1>2, <2>1, OneReading DEF IssuanceAllowed, CriticalParams
    <2>3. /\ d.does = kind /\ d.credential = First(form, p) /\ d.client = "none"
          /\ d.resource = First(form, "resource") /\ d.scope = First(form, "scope")
          /\ d.credential \in Structured
      BY <1>1, <1>2, <2>2
    <2>4. GuardOf(form) = [ does |-> kind, credential |-> d.credential, client |-> "none" ]
      BY <1>2, <2>1, <2>3 DEF GuardOf, Kinds
    <2>5. QED
      BY <2>1, <2>3, <2>4 DEF IssuanceAllowed, WithinBoundary
  <1>3. CASE d \in Issues("authorization_code", "code")
    BY <1>2, <1>3 DEF Kinds, CredentialParam
  <1>4. CASE d \in Issues("refresh_token", "refresh_token")
    BY <1>2, <1>4 DEF Kinds, CredentialParam
  <1>5. CASE d \in Revokes
    <2>1. /\ kind \in {"none", ""} /\ d.does = "revoke"
          /\ d.credential \in Readings(form, "token") /\ d.credential \in Structured
          /\ d.client \in Readings(form, "client_id")
          /\ d.resource = "none" /\ d.scope = "none"
      BY <1>1, <1>5
    <2>2. Has(form, "token")
      BY <2>1 DEF Readings, Structured
    <2>3. ~Repeated(form, "token") /\ ~Repeated(form, "client_id")
      BY <2>1, <2>2 DEF TokenFormAllowed
    <2>4. d.credential = First(form, "token") /\ d.client = First(form, "client_id")
      BY <2>1, <2>3, OneReading DEF CriticalParams
    <2>5. GuardOf(form) =
            [ does |-> "revoke", credential |-> d.credential, client |-> d.client ]
      BY <2>1, <2>4 DEF GuardOf, Kinds
    <2>6. QED
      BY <2>1, <2>5
  <1>6. QED
    BY <1>3, <1>4, <1>5 DEF ProviderDoes

\* The words of the forms that are sent.
SentWords ==
  {"", "authorization_code", "refresh_token", "client_credentials", "x", "y", "junk",
   "own", "foreign", "exact", "other", "a", "b", "valid"}

\* Every form that is sent is a form of words.
LEMMA FormsAreTyped ==
  ASSUME NEW r \in Sent
  PROVE  r.form \in FormType(SentWords)
  <1> DEFINE Texts == Seq(SentWords)
             GrantTypes == {<< >>, <<"">>, <<"authorization_code">>, <<"refresh_token">>,
                            <<"client_credentials">>, <<"", "refresh_token">>,
                            <<"authorization_code", "">>}
             Codes == {<< >>, <<"x">>, <<"x", "y">>, <<"junk">>}
             Refreshes == {<< >>, <<"x">>, <<"junk", "y">>}
             Tokens == {<< >>, <<"y">>, <<"x", "y">>, <<"", "x">>}
             Resources == {<< >>, <<"own">>, <<"foreign">>, <<"own", "foreign">>}
             Scopes == {<< >>, <<"exact">>, <<"other">>}
             Clients == {<<"a">>, <<"a", "b">>}
             Verifiers == {<< >>, <<"valid">>}
  <1>1. /\ << >> \in Texts /\ \A a \in SentWords : <<a>> \in Texts
        /\ \A a, b \in SentWords : <<a, b>> \in Texts
    BY TupleIsSequence, EmptySeq
  <1>2. r.form = FormWith(<< >>) \/ r.form \in Forms
    BY DEF Sent
  <1>3. CASE r.form = FormWith(<< >>)
    BY <1>1, <1>3 DEF FormWith, FormType
  <1>4. CASE r.form \in Forms
    <2>1. PICK values \in
            [ grant_type : GrantTypes, code : Codes, refresh_token : Refreshes, token : Tokens,
              resource : Resources, scope : Scopes, client_id : Clients,
              code_verifier : Verifiers ] :
            r.form = FormWith(values)
      BY <1>4, Zenon DEF Forms
    <2> HIDE DEF Texts
    <2>2. /\ GrantTypes \subseteq Texts /\ Codes \subseteq Texts /\ Refreshes \subseteq Texts
          /\ Tokens \subseteq Texts
      BY <1>1 DEF SentWords
    <2>3. /\ Resources \subseteq Texts /\ Scopes \subseteq Texts /\ Clients \subseteq Texts
          /\ Verifiers \subseteq Texts
      BY <1>1 DEF SentWords
    <2> HIDE DEF GrantTypes, Codes, Refreshes, Tokens, Resources, Scopes, Clients, Verifiers
    <2>4. \A p \in DOMAIN values : values[p] \in Texts
      BY <2>2, <2>3
    <2>5. \A p \in CriticalParams \cup {"token"} :
            (IF p \in DOMAIN values THEN values[p] ELSE << >>) \in Texts
      BY <1>1, <2>4
    <2>6. QED
      BY <2>1, <2>5 DEF FormWith, FormType, Texts
  <1>5. QED
    BY <1>2, <1>3, <1>4

-----------------------------------------------------------------------------
(* The worker: its sessions, and its routes *)

\* What was asked is a request, and the reply is what the worker routes it to.
RouteInv ==
  asked # NotAsked =>
    /\ asked.profile \in Profiles /\ asked.request \in Sent
    /\ reply = Route(asked.profile, asked.request)

LEMMA RouteInvariant == WorkerSpec => []RouteInv
  <1>1. WorkerInit => RouteInv
    BY DEF WorkerInit, RouteInit, RouteInv
  <1>2. RouteInv /\ [SessionStep \/ AskStep]_<<vars, routeVars>> => RouteInv'
    <2> SUFFICES ASSUME RouteInv, [SessionStep \/ AskStep]_<<vars, routeVars>>
                 PROVE  RouteInv'
      OBVIOUS
    <2>1. CASE AskStep
      <3>1. PICK profile \in Profiles, r \in Sent : Ask(profile, r)
        BY <2>1 DEF AskStep, RouteNext
      <3>2. QED
        BY <3>1 DEF Ask, RouteInv
    <2>2. CASE UNCHANGED routeVars
      BY <2>2 DEF RouteInv, routeVars
    <2>3. QED
      BY <2>1, <2>2 DEF SessionStep
  <1>3. QED
    BY <1>1, <1>2, PTL DEF WorkerSpec

\* The composed worker is SessionBinding: no request that is routed elsewhere
\* changes what the sessions keep, so that the theorems above are about it too.
THEOREM WorkerKeepsSessions == WorkerSpec => Spec
  <1>1. WorkerInit => Init
    BY DEF WorkerInit
  <1>2. [SessionStep \/ AskStep]_<<vars, routeVars>> => [Next]_vars
    BY DEF SessionStep, AskStep
  <1>3. QED
    BY <1>1, <1>2, PTL DEF WorkerSpec, Spec

\* fetch: whatever spelling, method or host a request tries, it reaches a session
\* as an authenticated one for "/mcp" itself only, on a reviewed host at its own
\* origin and with its body within the limit.
THEOREM OnlyCanonicalRequestsReachSessions == WorkerSpec => []SessionsSeeCanonicalRequests
  <1>1. RouteInv => SessionsSeeCanonicalRequests
    <2> SUFFICES ASSUME RouteInv, Asked PROVE SessionsSeeCanonicalRequests
      BY DEF SessionsSeeCanonicalRequests
    <2>1. PICK profile \in Profiles, r \in Sent :
            /\ profile = asked.profile /\ r = asked.request /\ reply = Route(profile, r)
      BY DEF RouteInv, Asked
    <2>2. reply.by = "session" =>
            /\ At(r, {"/mcp"}) /\ r.token
            /\ (profile \in ReviewedProfiles => r.origin = profile)
            /\ (profile \in ReviewedProfiles /\ r.method = "POST" => r.body = "rebuilt")
      BY <2>1, SessionRoute
    <2>3. QED
      BY <2>1, <2>2 DEF SessionsSeeCanonicalRequests, OnReviewedHost
  <1>2. QED
    BY <1>1, RouteInvariant, PTL

\* fetch: a reviewed host shows no document of the full catalogue and none of the
\* other reviewed profile, and refuses its OpenAPI document in every spelling.
THEOREM ReviewedHostsShowTheirOwn == WorkerSpec => []ReviewedHostShowsItsOwn
  <1>1. RouteInv => ReviewedHostShowsItsOwn
    <2> SUFFICES ASSUME RouteInv, OnReviewedHost PROVE ReviewedHostShowsItsOwn
      BY DEF ReviewedHostShowsItsOwn
    <2>1. PICK profile \in ReviewedProfiles, r \in Sent :
            /\ profile = asked.profile /\ r = asked.request /\ reply = Route(profile, r)
      BY DEF RouteInv, Asked, OnReviewedHost
    <2>2. reply.shows \in {"none", "plain", profile}
      BY <2>1, ShownOnReviewed
    <2>3. r.path.name \in OpenApiNames => reply.status >= 400
      BY <2>1, OpenApiRoute DEF IsOpenApiLookalikePath
    <2>4. QED
      BY <2>1, <2>2, <2>3 DEF ReviewedHostShowsItsOwn
  <1>2. QED
    BY <1>1, RouteInvariant, PTL

\* The token request of a reviewed host: although the guards of the token family
\* and the OAuth provider each read the form in their own way, what the provider
\* exchanges or revokes is what was guarded, for this host's resource and scopes.
THEOREM TheGuardAndTheProviderAgree == WorkerSpec => []GuardSeesWhatProviderSees
  <1>1. RouteInv => GuardSeesWhatProviderSees
    <2> SUFFICES ASSUME RouteInv, OnReviewedHost, reply.by = "provider",
                        At(asked.request, {"/token"})
                 PROVE  GuardSeesWhatProviderSees
      BY DEF GuardSeesWhatProviderSees
    <2>1. PICK profile \in ReviewedProfiles, r \in Sent :
            /\ profile = asked.profile /\ r = asked.request /\ reply = Route(profile, r)
      BY DEF RouteInv, Asked, OnReviewedHost
    <2>2. TokenFormAllowed(r.form)
      BY <2>1, TokenRoute
    <2>3. r.form \in FormType(SentWords)
      BY FormsAreTyped
    <2>4. QED
      BY <2>1, <2>2, <2>3, FormSeen DEF GuardSeesWhatProviderSees
  <1>2. QED
    BY <1>1, RouteInvariant, PTL

-----------------------------------------------------------------------------
(* The tokens of a reviewed grant *)

\* The seconds of a credential, with the margin, fit in what is left of its key.
LEMMA TtlFits ==
  ASSUME NEW left \in Int
  PROVE  1000 * (left \div 1000 - 60) + 60000 <= left /\ left \div 1000 - 60 \in Int
OBVIOUS

\* Every token an exchange issues lives at least a second, and has expired a
\* minute before the key it stands for: no access or refresh token outlives its
\* key, at whatever millisecond the exchange happens.
THEOREM TokensDieBeforeTheKey ==
  ASSUME NEW options, NEW grant, NEW profile, NEW now \in Nat,
         grant.apiKeyExpiresAt \in Nat, Exchangeable(options, grant, profile, now),
         NEW ttl \in Lifetimes(options, grant, now)
  PROVE  ttl >= 1 /\ now + 1000 * ttl + 60000 <= grant.apiKeyExpiresAt
<1> DEFINE expiry == grant.apiKeyExpiresAt
           seconds == CredentialTtl(grant, now)
<1>1. expiry - now \in Int OBVIOUS
<1>2. seconds = (expiry - now) \div 1000 - 60
  BY DEF CredentialTtl, SafetySeconds
<1>3. 1000 * seconds + 60000 <= expiry - now /\ seconds \in Int
  BY <1>1, <1>2, TtlFits
<1>4. seconds >= 1
  <2>1. seconds \in 1..MaxCredentialSeconds BY DEF Exchangeable
  <2>2. MaxCredentialSeconds \in Int BY DEF MaxCredentialSeconds
  <2> HIDE DEF seconds
  <2> QED BY <1>3, <2>1, <2>2
<1>5. ttl \in {AccessTokenTtl(seconds), seconds}
  BY DEF Lifetimes
<1>6. ttl \in Int /\ 1 <= ttl /\ ttl <= seconds
  BY <1>3, <1>4, <1>5, SMT DEF AccessTokenTtl
<1> HIDE DEF expiry, seconds
<1> QED
  <2>1. now + 1000 * ttl + 60000 <= expiry
    <3>1. expiry \in Nat BY DEF expiry
    <3> QED BY <1>3, <1>6, <3>1, SMT
  <2> QED BY <2>1, <1>6 DEF expiry

\* A grant that one of the two reviewed hosts exchanges is of no use on the other,
\* with whatever options it is presented there.
THEOREM GrantServesOneHost ==
  ASSUME NEW here, NEW there, NEW grant, NEW now, NEW later,
         Exchangeable(here, grant, "openai", now)
  PROVE  ~Exchangeable(there, grant, "claude", later)
BY DEF Exchangeable, BelongsToHost
===============================================================================
