---------------------------- MODULE MCApiClient -----------------------------
(* Instances of ApiClient for TLC. *)
EXTENDS ApiClient, TLC

Symmetry == Permutations(Call) \cup Permutations(FreshKey)
=============================================================================
