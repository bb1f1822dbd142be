---------------------------- MODULE LossyOutbox ----------------------------
(***************************************************************************)
(* What the fuju dispatcher promises its callers: items of a stream are    *)
(* handed to the emotion model at most once and in the order in which they *)
(* were accepted; an item may be refused, or lost while it waits.          *)
(***************************************************************************)
EXTENDS Integers, Sequences, SequencesExt

CONSTANTS Streams, Items

VARIABLES
    seen,     \* items whose enqueue call has been decided
    pending,  \* accepted and waiting, oldest first
    handed    \* passed to the sender, in that order

outbox == <<seen, pending, handed>>

Init ==
    /\ seen = {}
    /\ pending = [s \in Streams |-> << >>]
    /\ handed = [s \in Streams |-> << >>]

Accept(s, i) ==
    /\ i \notin seen
    /\ seen' = seen \cup {i}
    /\ pending' = [pending EXCEPT ![s] = Append(@, i)]
    /\ UNCHANGED handed

Refuse(i) ==
    /\ i \notin seen
    /\ seen' = seen \cup {i}
    /\ UNCHANGED <<pending, handed>>

Lose(s) ==
    /\ \E k \in 1..Len(pending[s]) :
         pending' = [pending EXCEPT ![s] = RemoveAt(@, k)]
    /\ UNCHANGED <<seen, handed>>

HandOver(s) ==
    /\ \E n \in 1..Len(pending[s]) :
         /\ handed' = [handed EXCEPT ![s] = @ \o SubSeq(pending[s], 1, n)]
         /\ pending' = [pending EXCEPT ![s] = SubSeq(@, n + 1, Len(@))]
    /\ UNCHANGED seen

Next ==
    \/ \E i \in Items : Refuse(i) \/ \E s \in Streams : Accept(s, i)
    \/ \E s \in Streams : Lose(s) \/ HandOver(s)

Spec == Init /\ [][Next]_outbox
=============================================================================
