--------------------------- MODULE MCOAuthCallback ---------------------------
(* Small instances of OAuthCallback for TLC. *)
EXTENDS OAuthCallback, TLC

MCGrant == PriorGrant \cup Callback
CallbackSymmetry == Permutations(Callback)
=============================================================================
