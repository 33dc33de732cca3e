------------------------- MODULE OAuthTokenExchange --------------------------
(***************************************************************************)
(* The requests to the token endpoint of one grant                         *)
(* (workers/remote-mcp/src/oauth-token-family.ts and index.ts), the family *)
(* object that guards it, and the OAuth provider's grant in KV.            *)
(*                                                                         *)
(* The provider package validates the presented credential against KV,     *)
(* calls back into reserve(), then writes the rotated grant and answers;   *)
(* the answer is withheld until the family commits the new refresh token.  *)
(* KV is eventually consistent: a read may return any earlier record.  The *)
(* refresh token a request obtains is named by the request.                *)
(*                                                                         *)
(* Calls to the family run and answer, run and lose their answer, or do    *)
(* not run; a worker that dies is a request that takes no further step.    *)
(***************************************************************************)
EXTENDS OAuthTokenFamily

CONSTANT Code   \* the authorization code of the grant

ASSUME ExchangeAssumption ==
  /\ Credential = Request \cup {Code}
  /\ Code \notin Request

VARIABLES
  rpc,         \* where each request is
  presents,    \* the credential it presented
  known,       \* credentials that have been handed out
  used,        \* history: requests whose /begin ran on a stored family
  kv,          \* the provider's grant: its refresh token and the one before
  past,        \* earlier values of kv, which a stale read may return
  keyRevoked   \* the ERP authority has disabled the bound key

requestVars == <<rpc, presents, known, used>>
authorityVars == <<kv, past, keyRevoked>>
vars == <<now, familyVars, requestVars, authorityVars>>

NoGrant == [head |-> None, prev |-> None]

ReadGrant == {kv} \cup past

\* The provider accepts the current refresh token, the one before, or the code.
Accepts(grant, c) == now < GrantExpiry /\ c \in {grant.head, grant.prev}

WriteGrant(grant) == kv' = grant /\ past' = past \cup {kv}

Goto(r, to) == rpc' = [rpc EXCEPT ![r] = to]

NoCall == UNCHANGED <<now, familyVars>>

-----------------------------------------------------------------------------
(* One exchange *)

\* The provider reads the grant and validates the credential, or refuses it.
Present(r, c) ==
  /\ rpc[r] = "idle"
  /\ c \in known
  /\ presents' = [presents EXCEPT ![r] = c]
  /\ \E grant \in ReadGrant : Goto(r, IF Accepts(grant, c) THEN "validated" ELSE "refused")
  /\ NoCall
  /\ UNCHANGED <<known, used, authorityVars>>

\* reserve() calls /begin, a second time once it has created the family.
CallBegin(r) ==
  /\ rpc[r] \in {"validated", "rebegin"}
  /\ \/ \E reply \in BeginReply :
          /\ Begin(r, presents[r], reply)
          /\ used' = IF reply = "missing" THEN used ELSE used \cup {r}
          /\ \/ reply = "started" /\ Goto(r, "reserved")
             \/ reply = "invalid" /\ Goto(r, "revoke")
             \/ reply \in {"revoked", "replay"} /\ Goto(r, "done")
             \/ reply = "missing" /\ rpc[r] = "rebegin" /\ Goto(r, "done")
             \/ /\ reply = "missing" /\ rpc[r] = "validated"
                /\ \E grant \in ReadGrant :
                     Goto(r, IF presents[r] = grant.head THEN "create" ELSE "create_revoked")
             \/ Goto(r, "gave_up")
     \/ Goto(r, "gave_up") /\ NoCall /\ UNCHANGED used
  /\ UNCHANGED <<presents, known, authorityVars>>

\* A family seen for the first time; tombstoned at once if a second read does
\* not confirm the credential as current.
CallInitialize(r) ==
  /\ rpc[r] \in {"create", "create_revoked"}
  /\ \/ \E expiry \in FamilyExpiries, reply \in InitializeReply :
          /\ Initialize(presents[r], expiry, reply)
          /\ \/ /\ reply = "ok"
                /\ Goto(r, IF rpc[r] = "create" THEN "rebegin" ELSE "revoke")
             \/ Goto(r, "gave_up")
     \/ Goto(r, "gave_up") /\ NoCall
  /\ UNCHANGED <<presents, known, used, authorityVars>>

\* The provider writes the rotated grant and answers, or fails before or after.
\* KV refuses a record whose expiry has passed.
ProviderRotates(r) ==
  /\ rpc[r] = "reserved"
  /\ \/ /\ now < GrantExpiry
        /\ WriteGrant([head |-> r, prev |-> IF presents[r] = Code THEN None ELSE presents[r]])
        /\ Goto(r, "settle") \/ Goto(r, "revoke")
     \/ Goto(r, "revoke") /\ UNCHANGED <<kv, past>>
  /\ NoCall
  /\ UNCHANGED <<presents, known, used, keyRevoked>>

\* Mutant: the answer is released before the family has committed.
SettleUncommitted(r) ==
  /\ rpc[r] = "settle"
  /\ known' = known \cup {r}
  /\ Goto(r, "released")
  /\ \/ \E reply \in CommitReply : Commit(r, r, reply)
     \/ NoCall
  /\ UNCHANGED <<presents, used, authorityVars>>

\* settle(): the tokens leave only with a committed family; anything else,
\* a lost answer included, revokes it.
CallCommit(r) ==
  /\ rpc[r] = "settle"
  /\ \/ /\ Commit(r, r, "committed")
        /\ Goto(r, "released")
        /\ known' = known \cup {r}
     \/ /\ \E reply \in CommitReply : Commit(r, r, reply)
        /\ Goto(r, "revoke")
        /\ UNCHANGED known
     \/ Goto(r, "revoke") /\ NoCall /\ UNCHANGED known
  /\ UNCHANGED <<presents, used, authorityVars>>

\* revoke(): after it the request answers invalid_grant.
CallRevoke(r) ==
  /\ rpc[r] = "revoke"
  /\ \/ Revoke /\ Goto(r, "done")
     \/ NoCall /\ Goto(r, "gave_up")
  /\ UNCHANGED <<presents, known, used, authorityVars>>

\* settle() without a lease: a refused credential that is spent is a replay.
CallCheck(r) ==
  /\ rpc[r] = "refused"
  /\ \/ \E reply \in CheckReply :
          /\ CheckAnswers(presents[r], reply)
          /\ Goto(r, IF reply \in {"spent", "revoked"} THEN "revoke" ELSE "done")
     \/ Goto(r, "gave_up")
  /\ NoCall
  /\ UNCHANGED <<presents, known, used, authorityVars>>

\* A revocation request for a refresh token.  protectRequest reads the grant
\* for itself before the provider does, and only its own reading decides
\* whether settle() tombstones the family of the grant the provider deleted.
RevokeToken(r, c) ==
  /\ rpc[r] = "idle"
  /\ c \in known \ {Code}
  /\ presents' = [presents EXCEPT ![r] = c]
  /\ \E seen \in ReadGrant : Goto(r, IF Accepts(seen, c) THEN "revoke" ELSE "done")
  /\ \/ (\E grant \in ReadGrant : Accepts(grant, c)) /\ WriteGrant(NoGrant)
     \/ (\E grant \in ReadGrant : ~Accepts(grant, c)) /\ UNCHANGED <<kv, past>>
  /\ NoCall
  /\ UNCHANGED <<known, used, keyRevoked>>

-----------------------------------------------------------------------------
(* The family's alarm, a newer login, access tokens *)

CleanupGrant ==
  /\ \/ JobAnswer("grant", TRUE) /\ WriteGrant(NoGrant)
     \/ JobAnswer("grant", FALSE) /\ (WriteGrant(NoGrant) \/ UNCHANGED <<kv, past>>)
  /\ UNCHANGED <<requestVars, keyRevoked>>

CleanupKey ==
  /\ \/ JobAnswer("key", TRUE) /\ keyRevoked' = TRUE
     \/ JobAnswer("key", FALSE) /\ keyRevoked' \in {keyRevoked, TRUE}
  /\ UNCHANGED <<requestVars, kv, past>>

\* isOAuthAccessTokenFamilyActive, in front of every MCP request.
UseAccessToken == \E reply \in {"missing", "active", "revoked"} : Status(reply)

FamilyStep ==
  /\ AlarmFires \/ JobFinish \/ FamilyCrash \/ Tick \/ Supersede \/ UseAccessToken
  /\ UNCHANGED <<requestVars, authorityVars>>

-----------------------------------------------------------------------------
Init ==
  /\ FamilyInit
  /\ rpc = [r \in Request |-> "idle"]
  /\ presents = [r \in Request |-> Code]
  /\ known = {Code}
  /\ used = {}
  /\ kv = [head |-> Code, prev |-> None]
  /\ past = {NoGrant}
  /\ keyRevoked = FALSE

RequestStep(r) ==
  \/ \E c \in known : Present(r, c) \/ RevokeToken(r, c)
  \/ CallBegin(r)
  \/ CallInitialize(r)
  \/ ProviderRotates(r)
  \/ CallCommit(r)
  \/ CallRevoke(r)
  \/ CallCheck(r)

Next ==
  \/ \E r \in Request : RequestStep(r)
  \/ CleanupGrant
  \/ CleanupKey
  \/ FamilyStep

Spec == Init /\ [][Next]_vars

-----------------------------------------------------------------------------
(* Properties *)

TypeOK ==
  /\ FamilyTypeOK
  /\ rpc \in [Request -> {"idle", "validated", "rebegin", "create", "create_revoked",
                          "reserved", "settle", "released", "revoke", "refused", "done",
                          "gave_up"}]
  /\ presents \in [Request -> Credential]
  /\ known \in SUBSET Credential
  /\ used \in SUBSET Request
  /\ kv \in [head : Credential \cup {None}, prev : Credential \cup {None}]
  /\ past \subseteq [head : Credential \cup {None}, prev : Credential \cup {None}]
  /\ keyRevoked \in BOOLEAN

Released == {r \in Request : rpc[r] = "released"}

\* A credential buys at most one set of tokens, although the provider itself
\* accepts the previous refresh token again.
SingleUse == \A r, s \in Released : presents[r] = presents[s] => r = s

\* Of all credentials ever handed out, only the family's current one can
\* start an exchange, as long as the grant lasts.
OneUsableCredential ==
  status = "active" /\ now < GrantExpiry => known \subseteq spent \cup {current}

\* Two accepted uses of one credential end the family, however their calls
\* interleave, lose answers or crash half way.
ReplayRevokes ==
  \A r, s \in used :
    r # s /\ presents[r] = presents[s] => status = "revoked" \/ now >= GrantExpiry

\* When a tombstoned family has nothing left to clean up, its key is disabled.
RevokedKeyIsDisabled == status = "revoked" /\ cleanup = {} /\ bound => keyRevoked

\* oauth-token-family.ts says of a tombstoned family that its "cleanup outbox
\* revokes the grant and its backend key": once it is empty, and every request
\* has either released or revoked, the provider's grant is gone.
RevokedGrantIsGone ==
  /\ status = "revoked" /\ cleanup = {}
  /\ \A r \in Request : rpc[r] \in {"idle", "released", "done"}
  => kv = NoGrant

\* The exchanges that may still answer with tokens.
Answering ==
  { r \in Request : /\ HoldsLease(r)
                    /\ rpc[r] = "settle" \/ (rpc[r] = "reserved" /\ now < GrantExpiry) }

\* The token endpoint, the family and the provider together give what a chain
\* of single-use credentials promises.
Chain ==
  INSTANCE TokenChain
    WITH Token <- Credential, First <- Code,
         links <- { << presents[r], r >> : r \in Released },
         tried <- { presents[r] : r \in used },
         pending <- { << presents[r], r >> : r \in Answering },
         revoked <- status = "revoked", expired <- now >= GrantExpiry

ImplementsTokenChain == Chain!Spec
=============================================================================
