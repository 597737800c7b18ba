---------------------------- MODULE MCWebClient ----------------------------
(* Two readers that are alike. *)
EXTENDS WebClient, TLC

Symmetry == Permutations(Readers)
=============================================================================
