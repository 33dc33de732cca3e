-------------------------- MODULE MCOAuthStateStore --------------------------
(* A small instance of the state store on its own for TLC: four callbacks    *)
(* against three recorded attempts, so that the limit is reached.            *)
EXTENDS OAuthStateStore
=============================================================================
