--------------------------- MODULE SessionBinding ----------------------------
(***************************************************************************)
(* The MCP sessions of the remote workers: the guards of the /mcp route    *)
(* (workers/remote-mcp/src/index.ts), the principal-bound session ids      *)
(* (mcp-session-binding.ts) and the session objects of the Agents SDK,     *)
(* each of which calls the ERP with the key it was initialized with.       *)
(*                                                                         *)
(* A login provisions one API key and writes one grant, so that key, grant *)
(* and login have one name; a user who connects again is another login.    *)
(* The workers' KV and signing secret are taken to be shared, the case     *)
(* that the check of FrihetMCP.init is there for.                          *)
(*                                                                         *)
(* A definition whose comment starts with "Mutant" is a plausible bug in   *)
(* the definition after it, used by no specification.                      *)
(***************************************************************************)
CONSTANTS
  Login,     \* logins, and the API keys given to the full host directly
  User,
  Host,      \* the workers, named by their access profile
  Request,   \* requests to /mcp
  RawId,     \* session ids the SDK draws
  None

Reviewed == {"openai", "claude"}

ASSUME SessionAssumption ==
  /\ Host \subseteq Reviewed \cup {"full"}
  /\ None \notin Login \cup User \cup Host \cup RawId

VARIABLES
  props,     \* what the token of each login carries
  ended,     \* logins whose token family is revoked
  admitted,  \* users whom the admission policy of the Claude host lets in
  object,    \* the session objects: their worker and whose key they hold
  tags,      \* tags of the session ids that were handed out
  req,       \* the requests
  reached    \* history: which login reached a session with which key

vars == <<props, ended, admitted, object, tags, req, reached>>

NoProps == [user |-> None, profile |-> None]

NoObject == [host |-> None, owner |-> None]

NoId == [raw |-> None, tag |-> None]

\* A request that was not sent, or of which only the refusal is left.
Unsent(at) ==
  [at |-> at, login |-> None, host |-> None, id |-> NoId, method |-> None,
   admitted |-> FALSE, stale |-> FALSE]

\* The context of a reviewed grant names its host; a grant from before there
\* were profiles names none and is the full host's, as an API key is.
Context(l, h) == props[l].profile = h

\* Mutant: the fingerprint of the user, the same for each login.
FingerprintOfUser(l) == [user |-> props[l].user, profile |-> props[l].profile, key |-> None]

\* fingerprintSessionPrincipal
Fingerprint(l) == [user |-> props[l].user, profile |-> props[l].profile, key |-> l]

\* sessionTag: an HMAC of the raw id and the fingerprint.
Tag(s, l) == [raw |-> s, mark |-> Fingerprint(l)]

\* unbindMcpSessionId
Unbinds(id, l) == id.tag = Tag(id.raw, l)

\* Session ids a client may present: raw ids and tags it has seen, in any pair.
PresentedId ==
  [raw : {t.raw : t \in tags}, tag : tags] \cup {NoId}

-----------------------------------------------------------------------------
(* Logins, revocations and the admission policy *)

LogIn(l, u, p) ==
  /\ props[l] = NoProps
  /\ props' = [props EXCEPT ![l] = [user |-> u, profile |-> p]]
  /\ UNCHANGED <<ended, admitted, object, tags, req, reached>>

EndFamily(l) ==
  /\ props[l].profile \in Reviewed
  /\ ended' = ended \cup {l}
  /\ UNCHANGED <<props, admitted, object, tags, req, reached>>

ChangePolicy(users) ==
  /\ admitted' = users
  /\ UNCHANGED <<props, ended, object, tags, req, reached>>

-----------------------------------------------------------------------------
(* One request to /mcp *)

\* The OAuth provider has authenticated the token, and nothing else it refuses is
\* relied on; direct API keys are resolved by the full host alone.  "POST" is any
\* method but DELETE.  `stale` is history: the family had ended by then.
Send(r, l, h, id, method) ==
  /\ req[r].at = "idle"
  /\ props[l] # NoProps
  /\ props[l].profile = "full" => h = "full"
  /\ req' = [req EXCEPT ![r] =
       [at |-> IF h = "full" THEN "guarded" ELSE "sent", login |-> l, host |-> h, id |-> id,
        method |-> method, admitted |-> props[l].user \in admitted, stale |-> l \in ended]]
  /\ UNCHANGED <<props, ended, admitted, object, tags, reached>>

Goto(r, to) == req' = [req EXCEPT ![r].at = to]

Refuse(r, how) == req' = [req EXCEPT ![r] = Unsent(how)]

\* isOAuthAccessTokenFamilyActive: there is a family, and it is not revoked.
FamilyActive(l) == props[l].profile \in Reviewed /\ l \notin ended

\* Mutant: the family is asked about new sessions only.
GuardPassesNew(r) ==
  /\ req[r].host = "claude" => Context(req[r].login, "claude")
  /\ req[r].id.raw = None => FamilyActive(req[r].login)

GuardPasses(r) ==
  /\ req[r].host = "claude" => Context(req[r].login, "claude")
  /\ FamilyActive(req[r].login)

\* The policy holds a user back but lets him close a session.
Paused(r) == req[r].host = "claude" /\ req[r].method # "DELETE" /\ ~req[r].admitted

\* reviewedMcpApiHandler; the answer of the family may also be lost.
Guard(r) ==
  /\ req[r].at = "sent"
  /\ \/ Refuse(r, "unauthorized")
     \/ GuardPasses(r) /\ Paused(r) /\ Refuse(r, "paused")
     \/ GuardPasses(r) /\ ~Paused(r) /\ Goto(r, "guarded")
  /\ UNCHANGED <<props, ended, admitted, object, tags, reached>>

\* Mutant: init() trusts the guard of the route.
InitTrusts(h, l) == props[l] # NoProps

\* FrihetMCP.init accepts the props it is started with.
InitAccepts(h, l) ==
  /\ props[l] # NoProps
  /\ IF h = "full" THEN props[l].profile \in {"full", "legacy"} ELSE Context(l, h)

\* Without an id the SDK initializes a new object and its id is bound.
OpenSession(r) ==
  LET l == req[r].login  h == req[r].host IN
  /\ req[r].at = "guarded" /\ req[r].id.raw = None
  /\ \/ /\ req[r].method = "DELETE" \/ ~InitAccepts(h, l)
        /\ Refuse(r, "failed")
        /\ UNCHANGED <<object, tags, reached>>
     \/ /\ req[r].method = "POST" /\ InitAccepts(h, l)
        /\ \E s \in RawId :
             /\ \A t \in tags : t.raw # s
             /\ object' = [object EXCEPT ![s] = [host |-> h, owner |-> l]]
             /\ tags' = tags \cup {Tag(s, l)}
        /\ reached' = reached \cup {[login |-> l, key |-> l]}
        /\ Goto(r, "served")
  /\ UNCHANGED <<props, ended, admitted>>

\* With one it goes to the object the id names, if it still exists there.  An
\* object that was evicted starts again, by init(), with the props it stored or
\* with those of the request: the SDK promises neither.
UseSession(r) ==
  LET l == req[r].login  h == req[r].host  s == req[r].id.raw IN
  /\ req[r].at = "guarded" /\ s # None
  /\ \/ /\ ~Unbinds(req[r].id, l)
        /\ Refuse(r, "forbidden")
        /\ UNCHANGED <<object, reached>>
     \/ /\ Unbinds(req[r].id, l) /\ object[s].host # h
        /\ Refuse(r, "missing")
        /\ UNCHANGED <<object, reached>>
     \/ /\ Unbinds(req[r].id, l) /\ object[s].host = h
        /\ \E o \in {object[s].owner, l} :
             /\ InitAccepts(h, o)
             /\ object' = [object EXCEPT ![s] =
                  IF req[r].method = "DELETE" THEN NoObject ELSE [host |-> h, owner |-> o]]
             /\ reached' = reached \cup {[login |-> l, key |-> o]}
        /\ Goto(r, "served")
  /\ UNCHANGED <<props, ended, admitted, tags>>

-----------------------------------------------------------------------------

Init ==
  /\ props = [l \in Login |-> NoProps]
  /\ ended = {}
  /\ admitted = User
  /\ object = [s \in RawId |-> NoObject]
  /\ tags = {}
  /\ req = [r \in Request |-> Unsent("idle")]
  /\ reached = {}

Profile == Reviewed \cup {"full", "legacy"}

RequestStep(r) ==
  \/ \E l \in Login, h \in Host, id \in PresentedId, method \in {"POST", "DELETE"} :
       Send(r, l, h, id, method)
  \/ Guard(r)
  \/ OpenSession(r)
  \/ UseSession(r)

Next ==
  \/ \E l \in Login, u \in User, p \in Profile : LogIn(l, u, p)
  \/ \E l \in Login : EndFamily(l)
  \/ \E users \in SUBSET User : ChangePolicy(users)
  \/ \E r \in Request : RequestStep(r)

Spec == Init /\ [][Next]_vars

-----------------------------------------------------------------------------
(* Properties *)

State == {"idle", "sent", "guarded", "unauthorized", "paused", "forbidden", "missing",
          "failed", "served"}

Props == [user : User \cup {None}, profile : Profile \cup {None}]

TagType == [raw : RawId, mark : [user : User, profile : Profile, key : Login]]

TypeOK ==
  /\ props \in [Login -> Props]
  /\ ended \subseteq Login
  /\ admitted \subseteq User
  /\ object \in [RawId -> [host : Host \cup {None}, owner : Login \cup {None}]]
  /\ tags \subseteq TagType
  /\ req \in [Request -> [at : State, login : Login \cup {None}, host : Host \cup {None},
                         id : [raw : RawId \cup {None}, tag : TagType \cup {None}],
                         method : {"POST", "DELETE", None}, admitted : BOOLEAN, stale : BOOLEAN]]
  /\ reached \subseteq [login : Login, key : Login]

\* A session id is of use only with the login it was handed to: no request
\* reaches or closes a session whose object calls the ERP with another key,
\* not that of another user and not an earlier one of the same user.
SessionServesItsLogin == \A v \in reached : v.login = v.key

Served == {r \in Request : req[r].at = "served"}

\* A token reaches sessions of the host it was issued for only, even if the
\* hosts share the provider's storage.
ProfilesStayApart ==
  \A r \in Served :
    LET p == props[req[r].login].profile IN
    \/ p = req[r].host
    \/ p = "legacy" /\ req[r].host = "full"

\* A reviewed login that was revoked before the request was sent reaches no
\* session, the ones it had opened included, and one that the policy holds back
\* can only close them.
RefusedLoginReachesNothing ==
  \A r \in Served : req[r].host \in Reviewed =>
    /\ ~req[r].stale
    /\ req[r].host = "claude" /\ req[r].method = "POST" => req[r].admitted
=============================================================================
