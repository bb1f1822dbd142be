------------------------------- MODULE MCGate -------------------------------
(* Gate on small instances: the tokens and the badges shipped. *)
EXTENDS Gate

CONSTANTS root, user, seed

\* The root's token ends in the middle of a second, the user's has no exp.
MCTokens == {[sub |-> root, exp |-> 3], [sub |-> user, exp |-> Null]}

MCSeeded == seed :> [key |-> 1, priority |-> 1]
=============================================================================
