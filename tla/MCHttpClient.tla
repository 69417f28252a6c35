---------------------------- MODULE MCHttpClient ----------------------------
(* Requests of three domains over a pool that tracks one. *)
EXTENDS HttpClient, TLC

CONSTANTS d1, d2, d3, r1, r2

Symmetry == Permutations(Domains) \cup Permutations(Requests)

=============================================================================
