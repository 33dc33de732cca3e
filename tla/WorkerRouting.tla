---------------------------- MODULE WorkerRouting -----------------------------
(***************************************************************************)
(* What the remote worker does with one request (fetch in                  *)
(* workers/remote-mcp/src/index.ts): the checks it makes one after         *)
(* another, the first that applies giving the reply, and the OAuth         *)
(* provider it hands the others to.  A route keeps no state, so that it is *)
(* a function of the worker's access profile and the request.              *)
(*                                                                         *)
(* A path is a route and how it is spelled: as it is, percent-escaped, in  *)
(* capitals, or with a slash after it.  A form has a sequence of values    *)
(* for each of its parameters; client_secret and token_type_hint, which    *)
(* are treated like client_id, and a client named by a Basic header are    *)
(* left out.                                                               *)
(***************************************************************************)
EXTENDS Integers, Sequences

VARIABLES
  asked,   \* the request: its worker's profile, and what it is
  reply    \* the worker's reply

routeVars == << asked, reply >>

Unset == "unset"
ReviewedProfiles == {"openai", "claude"}
Profiles == ReviewedProfiles \cup {"full", Unset}

(***************************************************************************)
(* A reply: who gives it, its status, and whose documents it shows, those  *)
(* of a profile, those that name no tool ("plain") or none.                *)
(***************************************************************************)
Reply(by, status, shows) == [ by |-> by, status |-> status, shows |-> shows ]
Pass == Reply("nobody", 0, "none")
\* A refusal, a redirection or an empty answer.
Bare(status) == Reply("worker", status, "none")
Shown(profile) == Reply("worker", 200, profile)

Gate(applies, then) == IF applies THEN then ELSE Pass

FirstReply(replies) ==
  replies[CHOOSE k \in DOMAIN replies :
            replies[k] # Pass /\ \A j \in 1..(k - 1) : replies[j] = Pass]

-----------------------------------------------------------------------------
(* Paths *)

At(r, names) == r.path.name \in names /\ r.path.spelled = "plain"

McpNames == {"/mcp", "/mcp.json"}
OpenApiNames == {"/openapi.json", "/openapi.yaml"}

\* decodeURIComponent leaves "/mcp" or "/mcp.json".
DecodesPlainly(path) == path.spelled \in {"plain", "escaped"}

IsMcpRouteConfusion(path) == path.name \in McpNames /\ ~DecodesPlainly(path)

\* Escapes, slashes and capitals are taken off.
IsOpenApiLookalikePath(path) == path.name \in OpenApiNames

-----------------------------------------------------------------------------
(* The checks before the public documents *)

AccessProfile(profile, r) == Gate(profile = Unset, Bare(503))

CanonicalOrigin(profile, r) ==
  Gate(profile \in ReviewedProfiles /\ r.origin # profile, Bare(421))

RouteConfusion(profile, r) == Gate(IsMcpRouteConfusion(r.path), Bare(404))

ProviderPaths ==
  {"/mcp", "/authorize", "/callback", "/token", "/register", "/userinfo",
   "oauth-authorization-server", "oauth-protected-resource",
   "oauth-protected-resource/mcp", "openid-configuration"}

ClaudeSurfaces ==
  {"/", "/.well-known/mcp", "/mcp.json", "/health", "/support", "/privacy", "/robots.txt",
   "/sitemap.xml", "/llms.txt"}

ClaudePublicSurface(profile, r) ==
  Gate(profile = "claude" /\ ~At(r, ProviderPaths),
       CASE ~At(r, ClaudeSurfaces) -> Bare(404)
         [] At(r, ClaudeSurfaces) /\ r.method = "OPTIONS" -> Bare(204)
         [] At(r, ClaudeSurfaces) /\ r.method \in {"POST", "DELETE"} -> Bare(405)
         [] OTHER -> Shown("claude"))

\* r.body is what BoundedBody makes of the body.
BodyRefused(profile, r, name) ==
  /\ profile \in ReviewedProfiles /\ r.method = "POST" /\ At(r, {name})
  /\ r.body # "rebuilt"

BodyStatus(r) == IF r.body = "too_large" THEN 413 ELSE 400

McpBody(profile, r) == Gate(BodyRefused(profile, r, "/mcp"), Bare(BodyStatus(r)))

OpenApiContained(profile, r) ==
  Gate(profile \in ReviewedProfiles /\ IsOpenApiLookalikePath(r.path), Bare(404))

ResourceMetadata(profile, r) ==
  Gate(profile \in ReviewedProfiles /\ At(r, {"oauth-protected-resource/mcp"}),
       CASE r.method = "OPTIONS" -> Bare(204)
         [] r.method \in {"POST", "DELETE"} -> Bare(405)
         [] OTHER -> Shown("plain"))

OpenIdConfiguration(profile, r) ==
  Gate(profile \in ReviewedProfiles /\ At(r, {"openid-configuration"})
         /\ r.method \in {"GET", "HEAD"},
       Shown("plain"))

LegalPages(profile, r) ==
  Gate(profile = "openai" /\ At(r, {"/support", "/privacy"}) /\ r.method \in {"GET", "HEAD"},
       Shown("openai"))

\* Any other HEAD is told that all is well.
AnyHead(profile, r) ==
  Gate(r.method = "HEAD" /\ ~(profile \in ReviewedProfiles /\ At(r, {"/userinfo"})),
       Shown("none"))

-----------------------------------------------------------------------------
(* The public documents; r.upstream tells whether what they ask for answers *)

Challenge(profile, r) == Gate(At(r, {"openai-apps-challenge", "/favicon.svg"}), Shown("plain"))

Favicon(profile, r) == Gate(At(r, {"/favicon.ico"}), Bare(301))

Health(profile, r) ==
  Gate(At(r, {"/health"}), IF r.upstream THEN Shown("plain") ELSE Bare(503))

Documents ==
  {"/llms.txt", "/robots.txt", "/agents.json", "/.well-known/jsonld", "/.well-known/mcp",
   "/mcp.json", "/.well-known/mcp.json", "/sitemap.xml", "/ai.txt"}

\* The documents of the OpenAI host or else those of the full catalogue.
StaticDocuments(profile, r) ==
  Gate(r.method = "GET"
         /\ At(r, IF profile = "openai" THEN Documents \cup {"/"} ELSE Documents),
       Shown(IF profile = "openai" THEN "openai" ELSE "full"))

OpenApi(profile, r) ==
  Gate(r.method = "GET" /\ At(r, OpenApiNames),
       CASE profile = "openai" -> Bare(404)
         [] profile # "openai" /\ At(r, {"/openapi.json"}) /\ ~r.upstream -> Bare(502)
         [] OTHER -> Shown("full"))

Releases(profile, r) ==
  Gate(r.method = "GET" /\ At(r, {"/releases.json"}),
       IF r.upstream THEN Shown("plain") ELSE Bare(503))

-----------------------------------------------------------------------------
(* The token endpoint of the reviewed hosts *)

Has(form, p) == form[p] # << >>
Repeated(form, p) == Len(form[p]) > 1
\* URLSearchParams.get
First(form, p) == IF Has(form, p) THEN form[p][1] ELSE "none"

Kinds == {"authorization_code", "refresh_token"}
CredentialParam(kind) == IF kind = "authorization_code" THEN "code" ELSE "refresh_token"

CriticalParams ==
  {"grant_type", "client_id", "code", "code_verifier", "refresh_token", "resource", "scope"}

\* validateOAuthBoundary, where the grant may have said it already.
WithinBoundary(form) ==
  /\ First(form, "resource") \in {"none", "own"}
  /\ First(form, "scope") \in {"none", "exact"}

\* A form that asks for tokens.
IssuanceAllowed(form) ==
  /\ \A p \in CriticalParams : ~Repeated(form, p)
  /\ First(form, "grant_type") = "authorization_code" => First(form, "code_verifier") = "valid"
  /\ WithinBoundary(form)

\* Mutant: a form with an empty grant_type is not checked as a revocation.
TokenFormAllowedUnlessEmpty(form) ==
  /\ ~Repeated(form, "grant_type")
  /\ First(form, "grant_type") \in Kinds => IssuanceAllowed(form)
  /\ ~Has(form, "grant_type") /\ Has(form, "token") =>
       \A p \in {"token", "client_id"} : ~Repeated(form, p)

\* An absent or an empty grant_type makes it a revocation.
TokenFormAllowed(form) ==
  /\ ~Repeated(form, "grant_type")
  /\ First(form, "grant_type") \in Kinds => IssuanceAllowed(form)
  /\ First(form, "grant_type") \in {"none", ""} /\ Has(form, "token") =>
       \A p \in {"token", "client_id"} : ~Repeated(form, p)

\* A body that is no form is "invalid" too.
TokenRequest(profile, r) ==
  Gate(BodyRefused(profile, r, "/token")
         \/ /\ profile \in ReviewedProfiles /\ r.method = "POST" /\ At(r, {"/token"})
            /\ ~TokenFormAllowed(r.form),
       Bare(400))

\* parseStructuredOAuthCredential: a code or token of the provider.
Structured == {"x", "y"}

NoGuard == [ does |-> "nothing", credential |-> "none", client |-> "none" ]

\* What the guards of the token family make of a form, from its first values.
GuardOf(form) ==
  LET kind == First(form, "grant_type")
      presented == First(form, IF kind \in Kinds THEN CredentialParam(kind) ELSE "token")
  IN  CASE kind \in Kinds /\ presented \in Structured ->
             [ does |-> kind, credential |-> presented, client |-> "none" ]
        [] kind \in {"none", ""} /\ presented \in Structured ->
             [ does |-> "revoke", credential |-> presented, client |-> First(form, "client_id") ]
        [] OTHER -> NoGuard

Registration(profile, r) ==
  Gate(BodyRefused(profile, r, "/register"), Bare(BodyStatus(r)))

-----------------------------------------------------------------------------
(* The provider and its handlers *)

\* A parameter that is repeated may be read as any of its values.
Readings(form, p) ==
  IF Has(form, p) THEN { form[p][k] : k \in DOMAIN form[p] } ELSE {"none"}

\* What the provider may do with a form, for what resource and scope.
ProviderDoes(form) ==
  [ does : Readings(form, "grant_type") \cap {"authorization_code"},
    credential : Readings(form, "code") \cap Structured, client : {"none"},
    resource : Readings(form, "resource"), scope : Readings(form, "scope") ]
  \cup
  [ does : Readings(form, "grant_type") \cap {"refresh_token"},
    credential : Readings(form, "refresh_token") \cap Structured, client : {"none"},
    resource : Readings(form, "resource"), scope : Readings(form, "scope") ]
  \cup
  [ does : IF Readings(form, "grant_type") \cap {"none", ""} = {} THEN {} ELSE {"revoke"},
    credential : Readings(form, "token") \cap Structured,
    client : Readings(form, "client_id"), resource : {"none"}, scope : {"none"} ]

\* The provider takes a prefix for its API route.
IsApiRequest(r) == r.path.name \in McpNames /\ r.path.spelled \in {"plain", "slash"}

\* Mutant: the handler trusts the route the provider found.
BoundMcpHandlerTrusting(r) == Reply("session", 200, "none")

\* createPrincipalBoundMcpHandler looks at the path again.
BoundMcpHandler(r) == IF At(r, {"/mcp"}) THEN Reply("session", 200, "none") ELSE Bare(404)

\* The pages of auth-handler.ts, reached where the provider has no route.
AuthHandler(profile, r) ==
  CASE At(r, {"/"}) /\ r.method = "GET" /\ profile = "full" -> Shown("full")
    [] \/ r.method = "GET" /\ At(r, {"/authorize"})
       \/ r.method = "POST" /\ At(r, {"/callback"}) ->
         IF profile = "full" THEN Bare(503)
         ELSE IF BodyRefused(profile, r, "/callback") THEN Bare(BodyStatus(r))
         ELSE Reply("login", 200, "plain")
    [] At(r, {"/userinfo"}) /\ r.method \in {"GET", "HEAD"} /\ profile # "full" ->
         IF r.token THEN Reply("login", 200, "plain") ELSE Bare(401)
    [] OTHER -> Bare(404)

Provider(profile, r) ==
  CASE IsApiRequest(r) ->
         IF r.method = "OPTIONS" THEN Reply("provider", 204, "none")
         ELSE IF r.token THEN BoundMcpHandler(r) ELSE Bare(401)
    [] At(r, {"/token", "/register"}) /\ r.method = "POST" -> Reply("provider", 200, "plain")
    [] At(r, {"oauth-authorization-server", "oauth-protected-resource"}) -> Shown("plain")
    [] OTHER -> AuthHandler(profile, r)

-----------------------------------------------------------------------------
\* Mutant: the closed surface of the Claude host is asked after the documents.
RouteClaudeLast(profile, r) ==
  FirstReply(<< AccessProfile(profile, r), CanonicalOrigin(profile, r),
    RouteConfusion(profile, r), McpBody(profile, r), OpenApiContained(profile, r),
    ResourceMetadata(profile, r), OpenIdConfiguration(profile, r), LegalPages(profile, r),
    AnyHead(profile, r), Challenge(profile, r), Favicon(profile, r), Health(profile, r),
    StaticDocuments(profile, r), OpenApi(profile, r), Releases(profile, r),
    ClaudePublicSurface(profile, r), TokenRequest(profile, r), Registration(profile, r),
    Provider(profile, r) >>)

\* fetch
Route(profile, r) ==
  FirstReply(<< AccessProfile(profile, r), CanonicalOrigin(profile, r),
    RouteConfusion(profile, r), ClaudePublicSurface(profile, r), McpBody(profile, r),
    OpenApiContained(profile, r), ResourceMetadata(profile, r),
    OpenIdConfiguration(profile, r), LegalPages(profile, r), AnyHead(profile, r),
    Challenge(profile, r), Favicon(profile, r), Health(profile, r),
    StaticDocuments(profile, r), OpenApi(profile, r), Releases(profile, r),
    TokenRequest(profile, r), Registration(profile, r), Provider(profile, r) >>)

-----------------------------------------------------------------------------
(* Requests *)

Names ==
  ProviderPaths \cup ClaudeSurfaces \cup Documents \cup OpenApiNames
    \cup {"/releases.json", "/favicon.ico", "/favicon.svg", "openai-apps-challenge", "/other"}

FormWith(values) ==
  [ p \in CriticalParams \cup {"token"} |->
      IF p \in DOMAIN values THEN values[p] ELSE << >> ]

Forms ==
  { FormWith(values) :
      values \in [ grant_type : {<< >>, <<"">>, <<"authorization_code">>, <<"refresh_token">>,
                                 <<"client_credentials">>, <<"", "refresh_token">>,
                                 <<"authorization_code", "">>},
                   code : {<< >>, <<"x">>, <<"x", "y">>, <<"junk">>},
                   refresh_token : {<< >>, <<"x">>, <<"junk", "y">>},
                   token : {<< >>, <<"y">>, <<"x", "y">>, <<"", "x">>},
                   resource : {<< >>, <<"own">>, <<"foreign">>, <<"own", "foreign">>},
                   scope : {<< >>, <<"exact">>, <<"other">>},
                   client_id : {<<"a">>, <<"a", "b">>},
                   code_verifier : {<< >>, <<"valid">>} ] }

Method == {"GET", "HEAD", "POST", "DELETE", "OPTIONS"}

\* A request of any kind without a form, or one to the token endpoint with one.
Sent ==
  [ origin : ReviewedProfiles \cup {"full", "other"},
    path : [ name : Names, spelled : {"plain", "escaped", "upper", "slash"} ],
    method : Method, body : {"rebuilt", "too_large", "invalid"}, token : BOOLEAN,
    upstream : BOOLEAN, form : {FormWith(<< >>)} ]
  \cup
  [ origin : ReviewedProfiles, path : {[ name |-> "/token", spelled |-> "plain" ]},
    method : {"POST"}, body : {"rebuilt"}, token : {FALSE}, upstream : {TRUE}, form : Forms ]

NotAsked == [ profile |-> "none" ]

RouteInit == asked = NotAsked /\ reply = Pass

Ask(profile, r) ==
  /\ asked' = [ profile |-> profile, request |-> r ]
  /\ reply' = Route(profile, r)

RouteNext == asked = NotAsked /\ \E profile \in Profiles, r \in Sent : Ask(profile, r)

-----------------------------------------------------------------------------
(* Properties *)

Asked == asked # NotAsked
OnReviewedHost == Asked /\ asked.profile \in ReviewedProfiles

\* Whatever spelling, method or host a request tries, only an authenticated one
\* for "/mcp" itself reaches a session, on a reviewed host only at its own
\* origin and with its body read within the limit.
SessionsSeeCanonicalRequests ==
  Asked /\ reply.by = "session" =>
    LET r == asked.request IN
    /\ At(r, {"/mcp"}) /\ r.token
    /\ OnReviewedHost => r.origin = asked.profile
    /\ OnReviewedHost /\ r.method = "POST" => r.body = "rebuilt"

\* A reviewed host shows documents of its own profile alone, never those of the
\* full catalogue, which are what a host that is not OpenAI's shows otherwise;
\* and it has no OpenAPI document in any spelling.
ReviewedHostShowsItsOwn ==
  OnReviewedHost =>
    /\ reply.shows \in {"none", "plain", asked.profile}
    /\ asked.request.path.name \in OpenApiNames => reply.status >= 400

\* A code or token that the provider exchanges or revokes is the one that the
\* token family guards, for this host's resource and scopes, although the two
\* read the form each in its own way.
GuardSeesWhatProviderSees ==
  OnReviewedHost /\ reply.by = "provider" /\ At(asked.request, {"/token"}) =>
    LET form == asked.request.form IN
    \A d \in ProviderDoes(form) :
      /\ GuardOf(form) =
           [ does |-> d.does, credential |-> d.credential, client |-> d.client ]
      /\ d.resource \in {"none", "own"} /\ d.scope \in {"none", "exact"}
=============================================================================
