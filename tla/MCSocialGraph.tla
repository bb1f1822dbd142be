--------------------------- MODULE MCSocialGraph ---------------------------
(* SocialGraph on small instances: the symmetries. *)
EXTENDS SocialGraph, TLC

Symmetry == Permutations(Requests)
=============================================================================
