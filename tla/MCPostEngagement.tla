-------------------------- MODULE MCPostEngagement --------------------------
(* PostEngagement on small instances: the seeded posts and the symmetries. *)
EXTENDS PostEngagement, TLC

CONSTANTS p1, p2, p3

\* p1 with one reply.
MCReply == (p1 :> None) @@ (p2 :> p1)

Symmetry == Permutations(Users) \cup Permutations(Requests)
=============================================================================
