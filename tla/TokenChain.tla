------------------------------ MODULE TokenChain -------------------------------
(***************************************************************************)
(* What the credentials of one grant promise, without requests, leases,    *)
(* caches, alarms or messages: a chain that starts with the authorization  *)
(* code and in which every credential is tried for the next one once.  A   *)
(* second try ends the chain, and so does a revocation; nothing is handed  *)
(* out after that.  When the grant has expired nobody tries for the next   *)
(* one with success, though a try under way may still end well, and the    *)
(* revocation may be forgotten.                                            *)
(***************************************************************************)
CONSTANTS
  Token,
  First      \* the authorization code

VARIABLES
  links,     \* pairs: a credential, and the one that was handed out for it
  tried,     \* credentials that were tried
  pending,   \* the try that may still end well: none or one pair
  revoked,
  expired

vars == << links, tried, pending, revoked, expired >>

Handed == {First} \cup { link[2] : link \in links }

Init ==
  /\ links = {} /\ tried = {} /\ pending = {}
  /\ revoked = FALSE /\ expired = FALSE

\* The only try of a credential that was not tried before.
Start(c, d) ==
  /\ ~revoked /\ ~expired /\ pending = {}
  /\ c \in Handed \ tried /\ d \in Token \ Handed
  /\ pending' = {<< c, d >>}
  /\ tried' = tried \cup {c}
  /\ UNCHANGED << links, revoked, expired >>

Answer ==
  /\ pending # {}
  /\ links' = links \cup pending
  /\ pending' = {}
  /\ UNCHANGED << tried, revoked, expired >>

GiveUp ==
  /\ pending' = {}
  /\ UNCHANGED << links, tried, revoked, expired >>

End == revoked' = TRUE /\ pending' = {}

Revoke == End /\ UNCHANGED << links, tried, expired >>

\* A try that gets nothing; while the grant lasts, a second one ends the chain.
Refuse(c) ==
  /\ c \in Handed
  /\ tried' = tried \cup {c}
  /\ \/ End
     \/ (c \in tried => expired) /\ UNCHANGED << pending, revoked >>
  /\ UNCHANGED << links, expired >>

Expire ==
  /\ expired' = TRUE
  /\ pending' \in {pending, {}}
  /\ UNCHANGED << links, tried, revoked >>

Forget ==
  /\ expired
  /\ revoked' = FALSE
  /\ UNCHANGED << links, tried, pending, expired >>

Next ==
  \/ \E c, d \in Token : Start(c, d)
  \/ \E c \in Token : Refuse(c)
  \/ Answer \/ GiveUp \/ Revoke \/ Expire \/ Forget

Spec == Init /\ [][Next]_vars
=============================================================================
