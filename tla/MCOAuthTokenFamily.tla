------------------------- MODULE MCOAuthTokenFamily --------------------------
(* A small instance of a token family on its own for TLC: two requests, one  *)
(* code and two refresh tokens.                                              *)
EXTENDS OAuthTokenFamily
=============================================================================
