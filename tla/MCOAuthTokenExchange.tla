------------------------ MODULE MCOAuthTokenExchange -------------------------
(* Small instances of OAuthTokenExchange and PolicyPause for TLC. *)
EXTENDS PolicyPause, TLC

MCCredential == Request \cup {Code}
ExchangeSymmetry == Permutations(Request)
=============================================================================
