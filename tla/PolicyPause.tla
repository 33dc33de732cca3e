----------------------------- MODULE PolicyPause ------------------------------
(***************************************************************************)
(* Exchanges of users whom the admission policy of the Claude host holds   *)
(* back for a while (createGuardedOpenAIProvider in index.ts and           *)
(* assertPolicyPauseIsSafe in oauth-token-family.ts), beside the exchanges *)
(* of OAuthTokenExchange.  A held one is told to come back later if its    *)
(* credential is the family's current one, which it keeps; any other       *)
(* credential the provider accepts ends the family.                        *)
(*                                                                         *)
(* A request that the provider refuses does not come here.  One whose call *)
(* fails, or whose worker dies, takes no further step.                     *)
(***************************************************************************)
EXTENDS OAuthTokenExchange

CONSTANT Held   \* the requests that are held back

VARIABLES
  at,     \* where each held request is
  shows,  \* the credential it presents
  late    \* history: those whose credential was spent before they came

pauseVars == << at, shows, late >>

Move(h, to) == at' = [at EXCEPT ![h] = to]

\* The provider reads the grant and accepts the credential.
Arrive(h, c) ==
  /\ at[h] = "idle"
  /\ \E seen \in ReadGrant : Accepts(seen, c)
  /\ Move(h, "accepted")
  /\ shows' = [shows EXCEPT ![h] = c]
  /\ late' = IF c \in spent THEN late \cup {h} ELSE late
  /\ NoCall

\* Mutant: the grant in KV alone tells whether the credential is current.
JudgeByGrant(h, grant, reply) ==
  IF shows[h] # grant.head THEN "revoke"
  ELSE IF reply = "missing" THEN "paused" ELSE "current"

\* The credential has to be current both for the provider and for the family.
Judge(h, grant, reply) ==
  IF shows[h] = grant.head /\ reply \in {"missing", "current"}
  THEN IF reply = "missing" THEN "paused" ELSE "current"
  ELSE IF reply = "missing" THEN "create" ELSE "revoke"

CallCheckHeld(h) ==
  /\ at[h] = "accepted"
  /\ \E grant \in ReadGrant, reply \in CheckReply :
       CheckAnswers(shows[h], reply) /\ Move(h, Judge(h, grant, reply))
  /\ NoCall
  /\ UNCHANGED << shows, late >>

\* The check does not look at the expiry, which the status does.
CallStatus(h) ==
  /\ at[h] = "current"
  /\ \E reply \in {"missing", "active", "revoked"} :
       Status(reply) /\ Move(h, IF reply = "active" THEN "paused" ELSE "revoke")
  /\ UNCHANGED << shows, late >>

\* A family that is not known is created, to be ended.
CallCreate(h) ==
  /\ at[h] = "create"
  /\ \E expiry \in FamilyExpiries, reply \in InitializeReply :
       /\ Initialize(shows[h], expiry, reply)
       /\ Move(h, IF reply = "ok" THEN "revoke" ELSE "gave_up")
  /\ UNCHANGED << shows, late >>

CallRevokeHeld(h) ==
  /\ at[h] = "revoke"
  /\ Revoke /\ Move(h, "done")
  /\ UNCHANGED << shows, late >>

HeldStep(h) ==
  \/ \E c \in known : Arrive(h, c)
  \/ CallCheckHeld(h) \/ CallStatus(h) \/ CallCreate(h) \/ CallRevokeHeld(h)

PauseInit ==
  /\ Init
  /\ at = [h \in Held |-> "idle"]
  /\ shows = [h \in Held |-> Code]
  /\ late = {}

PauseNext ==
  \/ Next /\ UNCHANGED pauseVars
  \/ (\E h \in Held : HeldStep(h)) /\ UNCHANGED << requestVars, authorityVars >>

PauseSpec == PauseInit /\ [][PauseNext]_<< vars, pauseVars >>

-----------------------------------------------------------------------------
(* Properties *)

PauseTypeOK ==
  /\ at \in [Held -> {"idle", "accepted", "current", "create", "revoke", "paused", "done",
                      "gave_up"}]
  /\ shows \in [Held -> Credential]
  /\ late \in SUBSET Held

\* "Preserve a current credential without a lease/rotation, while a
\* provider-accepted previous refresh still triggers replay revocation": no
\* replay is answered with "try again later", and a family that a held request
\* was told is over is over, as long as the grant lasts.
PauseHidesNoReplay ==
  \A h \in Held :
    now < GrantExpiry =>
      /\ at[h] = "paused" => h \notin late
      /\ at[h] = "done" => status = "revoked"
=============================================================================
