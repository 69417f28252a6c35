---------------------------- MODULE MCJsonlWriter ----------------------------
(* Two clones of one session, a channel shorter than what they send. *)
EXTENDS JsonlWriter, TLC

CONSTANTS c1, c2

Symmetry == Permutations(Clones)

=============================================================================
