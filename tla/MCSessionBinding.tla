-------------------------- MODULE MCSessionBinding --------------------------
(* The sessions of the workers, and the routes that lead to them. *)
EXTENDS RemoteWorker, TLC

SessionSymmetry ==
  Permutations(Login) \cup Permutations(Request) \cup Permutations(RawId)
=============================================================================
