---------------------------- MODULE ReviewedGrant -----------------------------
(***************************************************************************)
(* What the reviewed hosts' provider asks before it exchanges a code or a  *)
(* refresh token (validateReviewedTokenExchange and                        *)
(* buildReviewedTokenExchangeResult in workers/remote-mcp/src/index.ts):   *)
(* is the grant one of this host, and how long may its tokens live?  The   *)
(* props of a grant are a record, an origin is named by its profile, and   *)
(* times are in milliseconds, lifetimes in seconds.                        *)
(***************************************************************************)
EXTENDS Integers

SafetySeconds == 60
MaxCredentialSeconds == 31 * 24 * 60 * 60

\* Each origin is named by its profile and its resources by pairs with the path.
AcceptedResources(profile) ==
  IF profile = "claude" THEN {<<profile, "/mcp">>} ELSE {<<profile, "/mcp">>, <<profile, "">>}

\* "identified" stands for a verified identity, the key and its id in their
\* form, and a correlation, if there is one, that is a UUID.
BelongsToHost(options, props, profile) ==
  /\ options.scope = "exact" /\ options.requestedScope = "exact"
  /\ props.accessProfile = profile
  /\ props.oauthResource = profile /\ props.oauthIssuer = profile
  /\ props.oauthScope = "exact" /\ props.oauthAudience \in AcceptedResources(profile)
  /\ props.authMethod = "oauth"
  /\ props.userId = options.userId /\ props.identified

CredentialTtl(props, now) == (props.apiKeyExpiresAt - now) \div 1000 - SafetySeconds

Exchangeable(options, props, profile, now) ==
  /\ BelongsToHost(options, props, profile)
  /\ CredentialTtl(props, now) \in 1..MaxCredentialSeconds

AccessTokenTtl(ttl) == IF ttl < 3600 THEN ttl ELSE 3600

\* A refresh token keeps the lifetime its code was given.
Lifetimes(options, props, now) ==
  LET ttl == CredentialTtl(props, now)
  IN  IF options.grantType = "authorization_code" THEN {AccessTokenTtl(ttl), ttl}
      ELSE {AccessTokenTtl(ttl)}
=============================================================================
