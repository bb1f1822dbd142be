--------------------------- MODULE FujuDispatcher ---------------------------
(***************************************************************************)
(* internal/usecase/fuju: the outbound queue to the emotion model.         *)
(*                                                                         *)
(* Commit hooks of concurrent requests (`Producers') call EnqueueContent   *)
(* and EnqueueEvent: up to three non-blocking selects on a bounded         *)
(* channel.  One goroutine, loop, moves items from the two channels to two *)
(* batches and passes a batch to the sender when it is full, on a timer,   *)
(* and once more after the context is cancelled.  A Go select on a channel *)
(* is atomic; everything else interleaves.                                 *)
(*                                                                         *)
(* A failed send is only logged, so `handed' is what was passed to the     *)
(* sender, whether it arrived or not.                                      *)
(***************************************************************************)
EXTENDS Integers, Sequences, FiniteSets, SequencesExt

CONSTANTS
    Producers,
    MaxCalls,   \* bound: enqueue calls of one producer
    QueueCapacity, BatchSize

ASSUME DispatcherAssumption ==
    /\ MaxCalls \in Nat
    /\ QueueCapacity \in Nat \ {0} /\ BatchSize \in Nat \ {0}

VARIABLES
    ch,         \* contentsCh and eventsCh
    batch,      \* the loop's two slices
    handed,     \* items passed to RegisterContents / SendEvents
    prod,       \* each producer: pc, stream and number of its latest call
    loop,       \* the loop: phase and, while flushing, the stream
    cancelled   \* the background context

vars == <<ch, batch, handed, prod, loop, cancelled>>

Streams == {"contents", "events"}
Item == [by : Producers, n : 1..MaxCalls]
Select == [phase |-> "select", stream |-> "contents"]
Phase == {"select", "full", "tick", "drain", "final", "closed"}

TypeOK ==
    /\ ch \in [Streams -> Seq(Item)]
    /\ \A s \in Streams : Len(ch[s]) <= QueueCapacity
    /\ batch \in [Streams -> Seq(Item)]
    /\ handed \in [Streams -> Seq(Item)]
    /\ prod \in [Producers -> [pc : {"idle", "drop", "resend"},
                               stream : Streams, n : 0..MaxCalls]]
    /\ loop \in [phase : Phase, stream : Streams]
    /\ cancelled \in BOOLEAN

Init ==
    /\ ch = [s \in Streams |-> << >>]
    /\ batch = [s \in Streams |-> << >>]
    /\ handed = [s \in Streams |-> << >>]
    /\ prod = [r \in Producers |-> [pc |-> "idle", stream |-> "contents", n |-> 0]]
    /\ loop = Select
    /\ cancelled = FALSE

-----------------------------------------------------------------------------
(* EnqueueContent and EnqueueEvent *)

HasRoom(s) == Len(ch[s]) < QueueCapacity

Send(s, i) == ch' = [ch EXCEPT ![s] = Append(@, i)]

Current(r) == [by |-> r, n |-> prod[r].n]

ProdTo(r, at) == prod' = [prod EXCEPT ![r].pc = at]

\* The call, and its first select: sent, or the queue is full.
Enqueue(r, s) ==
    /\ prod[r].pc = "idle" /\ prod[r].n < MaxCalls
    /\ prod' = [prod EXCEPT ![r] = [pc |-> IF HasRoom(s) THEN "idle" ELSE "drop",
                                    stream |-> s, n |-> @.n + 1]]
    /\ IF HasRoom(s) THEN Send(s, [by |-> r, n |-> prod[r].n + 1])
                     ELSE UNCHANGED ch
    /\ UNCHANGED <<batch, handed, loop, cancelled>>

\* The second select drops the oldest entry, if one is still there.
DropOldest(r) ==
    LET s == prod[r].stream IN
    /\ prod[r].pc = "drop"
    /\ ch' = [ch EXCEPT ![s] = IF @ = << >> THEN @ ELSE Tail(@)]
    /\ ProdTo(r, "resend")
    /\ UNCHANGED <<batch, handed, loop, cancelled>>

\* The third select: sent, or the current entry is dropped.
Resend(r) ==
    LET s == prod[r].stream IN
    /\ prod[r].pc = "resend"
    /\ IF HasRoom(s) THEN Send(s, Current(r)) ELSE UNCHANGED ch
    /\ ProdTo(r, "idle")
    /\ UNCHANGED <<batch, handed, loop, cancelled>>

-----------------------------------------------------------------------------
(* loop and flushFinal *)

LoopTo(p, s) == loop' = [phase |-> p, stream |-> s]

\* Mutant: the slice is not truncated after the send.
HandOverKept(s) ==
    /\ handed' = [handed EXCEPT ![s] = @ \o batch[s]]
    /\ UNCHANGED batch

\* flushContents, flushEvents: nothing to do for an empty batch.
HandOver(s) ==
    /\ handed' = [handed EXCEPT ![s] = @ \o batch[s]]
    /\ batch' = [batch EXCEPT ![s] = << >>]

\* Mutant: the drained item is put before the batch.
TakePrepend(s) ==
    /\ ch[s] # << >>
    /\ batch' = [batch EXCEPT ![s] = <<Head(ch[s])>> \o @]
    /\ ch' = [ch EXCEPT ![s] = Tail(@)]

Take(s) ==
    /\ ch[s] # << >>
    /\ batch' = [batch EXCEPT ![s] = Append(@, Head(ch[s]))]
    /\ ch' = [ch EXCEPT ![s] = Tail(@)]

Receive(s) ==
    /\ loop.phase = "select"
    /\ Take(s)
    /\ IF Len(batch[s]) + 1 >= BatchSize THEN LoopTo("full", s) ELSE UNCHANGED loop
    /\ UNCHANGED <<handed, prod, cancelled>>

FlushFull ==
    /\ loop.phase = "full"
    /\ HandOver(loop.stream)
    /\ loop' = Select
    /\ UNCHANGED <<ch, prod, cancelled>>

\* A tick with both batches empty changes nothing.
TimerFires ==
    /\ loop.phase = "select"
    /\ \E s \in Streams : batch[s] # << >>
    /\ LoopTo("tick", "contents")
    /\ UNCHANGED <<ch, batch, handed, prod, cancelled>>

\* Mutant: only the contents are flushed by the timer.
FlushTickContents ==
    /\ loop.phase = "tick"
    /\ HandOver("contents")
    /\ loop' = Select
    /\ UNCHANGED <<ch, prod, cancelled>>

FlushTick ==
    /\ loop.phase = "tick"
    /\ HandOver(loop.stream)
    /\ IF loop.stream = "contents" THEN LoopTo("tick", "events")
                                   ELSE loop' = Select
    /\ UNCHANGED <<ch, prod, cancelled>>

ObserveCancel ==
    /\ loop.phase = "select" /\ cancelled
    /\ LoopTo("drain", "contents")
    /\ UNCHANGED <<ch, batch, handed, prod, cancelled>>

Drain ==
    /\ loop.phase = "drain"
    /\ Take(loop.stream)
    /\ UNCHANGED <<handed, prod, loop, cancelled>>

\* Mutant: a select without default blocks on the empty channel.
DrainedBlocks ==
    /\ loop.phase = "drain" /\ ch[loop.stream] = << >> /\ loop.stream = "contents"
    /\ LoopTo("drain", "events")
    /\ UNCHANGED <<ch, batch, handed, prod, cancelled>>

\* default: goto eventsDrain, goto flush.
Drained ==
    /\ loop.phase = "drain" /\ ch[loop.stream] = << >>
    /\ IF loop.stream = "contents" THEN LoopTo("drain", "events")
                                   ELSE LoopTo("final", "contents")
    /\ UNCHANGED <<ch, batch, handed, prod, cancelled>>

FlushFinal ==
    /\ loop.phase = "final"
    /\ HandOver(loop.stream)
    /\ IF loop.stream = "contents" THEN LoopTo("final", "events")
                                   ELSE LoopTo("closed", "events")
    /\ UNCHANGED <<ch, prod, cancelled>>

\* cancelBackground, once server.Shutdown has returned: when it has timed out,
\* requests are still running and enqueue beside the drain and after it.
Cancel ==
    /\ ~cancelled
    /\ cancelled' = TRUE
    /\ UNCHANGED <<ch, batch, handed, prod, loop>>

-----------------------------------------------------------------------------
LoopStep == FlushFull \/ FlushTick \/ Drain \/ Drained \/ FlushFinal

Next ==
    \/ \E r \in Producers :
         DropOldest(r) \/ Resend(r) \/ \E s \in Streams : Enqueue(r, s)
    \/ \E s \in Streams : Receive(s)
    \/ TimerFires \/ ObserveCancel \/ LoopStep \/ Cancel

Spec == Init /\ [][Next]_vars

\* The goroutine runs and a send ends by its timeout (WF).  Go's select picks
\* among its ready cases at random, so a case that is ready again and again
\* is taken in the end (SF).
FairSpec ==
    /\ Spec
    /\ WF_vars(LoopStep)
    /\ \A s \in Streams : SF_vars(Receive(s))
    /\ SF_vars(TimerFires)
    /\ SF_vars(ObserveCancel)

-----------------------------------------------------------------------------
Pending(s) == batch[s] \o ch[s]

\* In everything a stream has handed over and still holds, the items of one
\* caller appear in the order of its calls, and so each at most once: drops,
\* batches, the timer and the final drain neither repeat nor reorder them.
\* ("caller must not retry the same batch": events are append-only.)
InOrderOnce ==
    \A s \in Streams :
      LET log == handed[s] \o Pending(s) IN
      \A a, b \in 1..Len(log) :
        a < b /\ log[a].by = log[b].by => log[a].n < log[b].n

\* The dispatcher implements a lossy outbox.
Decided == {i \in Item : \/ i.n < prod[i.by].n
                         \/ i.n = prod[i.by].n /\ prod[i.by].pc = "idle"}

Outbox == INSTANCE LossyOutbox WITH
    Items <- Item, seen <- Decided,
    pending <- [s \in Streams |-> Pending(s)], handed <- handed

OutboxSpec == Outbox!Spec

\* An item accepted before the shutdown does not stay behind: it is handed
\* over by a full batch, the timer or the final drain, or a later one
\* displaces it.
AcceptedLeaves ==
    \A s \in Streams : \A i \in Item :
      (~cancelled /\ Contains(Pending(s), i)) ~> ~Contains(Pending(s), i)

\* Wait returns after a cancellation, with requests still enqueuing.
ShutdownCompletes == cancelled ~> loop.phase = "closed"
=============================================================================
