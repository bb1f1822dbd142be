-------------------------- MODULE MCFujuDispatcher --------------------------
(* FujuDispatcher on a small instance. *)
EXTENDS FujuDispatcher, TLC
=============================================================================
