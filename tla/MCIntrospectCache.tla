------------------------- MODULE MCIntrospectCache -------------------------
(* IntrospectCache on a small instance. *)
EXTENDS IntrospectCache, TLC

CONSTANTS t1, t2

\* t1 expires; AuthCore gives no expiry for t2.
MCExpiry == (t1 :> 2) @@ (t2 :> 0)
=============================================================================
