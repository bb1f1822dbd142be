------------------------ MODULE FujuDispatcherProofs ------------------------
(***************************************************************************)
(* Bounded queues, order and at-most-once delivery of the dispatcher, for  *)
(* any number of producers and calls, any capacity and batch size.         *)
(***************************************************************************)
EXTENDS FujuDispatcher, SequenceTheorems, TLAPS

-----------------------------------------------------------------------------
(* How the log of a stream, h \o (b \o c), moves with its three parts.       *)

LEMMA LogType ==
    ASSUME NEW S, NEW h \in Seq(S), NEW b \in Seq(S), NEW c \in Seq(S)
    PROVE  b \o c \in Seq(S) /\ h \o (b \o c) \in Seq(S)
BY ConcatProperties

LEMMA ConcatAppend ==
    ASSUME NEW S, NEW x \in Seq(S), NEW y \in Seq(S), NEW e \in S
    PROVE  x \o Append(y, e) = Append(x \o y, e)
<1>1. <<e>> \in Seq(S)
    OBVIOUS
<1>2. Append(y, e) = y \o <<e>>
    BY AppendIsConcat
<1>3. x \o y \in Seq(S)
    BY ConcatProperties
<1>4. Append(x \o y, e) = (x \o y) \o <<e>>
    BY <1>3, AppendIsConcat
<1> QED
    BY <1>1, <1>2, <1>4, ConcatAssociative

LEMMA LogTake ==
    ASSUME NEW S, NEW h \in Seq(S), NEW b \in Seq(S), NEW c \in Seq(S), c # << >>
    PROVE  Append(b, Head(c)) \o Tail(c) = b \o c
<1>1. Head(c) \in S /\ Tail(c) \in Seq(S) /\ Len(c) \in Nat \ {0}
    BY HeadTailProperties, EmptySeq
<1>2. Append(b, Head(c)) = b \o <<Head(c)>> /\ <<Head(c)>> \in Seq(S)
    BY <1>1, AppendIsConcat
<1>3. <<Head(c)>> \o Tail(c) = c
    BY <1>1
<1> QED
    BY <1>1, <1>2, <1>3, ConcatAssociative

LEMMA LogHandOver ==
    ASSUME NEW S, NEW h \in Seq(S), NEW b \in Seq(S), NEW c \in Seq(S)
    PROVE  (h \o b) \o (<< >> \o c) = h \o (b \o c)
BY ConcatAssociative, ConcatEmptySeq

\* Where the entries of a log are after its channel has lost the oldest.
LEMMA LogDrop ==
    ASSUME NEW S, NEW h \in Seq(S), NEW b \in Seq(S), NEW c \in Seq(S), c # << >>
    PROVE  \A a \in 1..Len(h \o (b \o Tail(c))) :
             LET k == IF a <= Len(h) + Len(b) THEN a ELSE a + 1
             IN  /\ k \in 1..Len(h \o (b \o c))
                 /\ (h \o (b \o Tail(c)))[a] = (h \o (b \o c))[k]
<1>1. /\ Tail(c) \in Seq(S) /\ Len(Tail(c)) = Len(c) - 1 /\ Len(c) \in Nat
      /\ \A i \in 1..Len(Tail(c)) : Tail(c)[i] = c[i + 1]
    BY HeadTailProperties, LenProperties
<1>2. /\ b \o c \in Seq(S) /\ Len(b \o c) = Len(b) + Len(c)
      /\ \A i \in 1..(Len(b) + Len(c)) : (b \o c)[i] = IF i <= Len(b) THEN b[i] ELSE c[i - Len(b)]
    BY ConcatProperties
<1>3. /\ b \o Tail(c) \in Seq(S) /\ Len(b \o Tail(c)) = Len(b) + Len(c) - 1
      /\ \A i \in 1..(Len(b) + Len(Tail(c))) :
           (b \o Tail(c))[i] = IF i <= Len(b) THEN b[i] ELSE Tail(c)[i - Len(b)]
    BY <1>1, ConcatProperties
<1>4. /\ Len(h \o (b \o c)) = Len(h) + Len(b) + Len(c)
      /\ \A i \in 1..(Len(h) + Len(b \o c)) :
           (h \o (b \o c))[i] = IF i <= Len(h) THEN h[i] ELSE (b \o c)[i - Len(h)]
    BY <1>2, ConcatProperties
<1>5. /\ Len(h \o (b \o Tail(c))) = Len(h) + Len(b) + Len(c) - 1
      /\ \A i \in 1..(Len(h) + Len(b \o Tail(c))) :
           (h \o (b \o Tail(c)))[i] = IF i <= Len(h) THEN h[i] ELSE (b \o Tail(c))[i - Len(h)]
    BY <1>3, ConcatProperties
<1>6. Len(h) \in Nat /\ Len(b) \in Nat
    BY LenProperties
<1>7. ASSUME NEW a \in 1..(Len(h) + Len(b) + Len(c) - 1)
      PROVE  (h \o (b \o Tail(c)))[a]
               = (h \o (b \o c))[IF a <= Len(h) + Len(b) THEN a ELSE a + 1]
    <2>1. CASE a <= Len(h)
        BY <1>1, <1>2, <1>3, <1>4, <1>5, <1>6, <2>1
    <2>2. CASE a > Len(h) /\ a <= Len(h) + Len(b)
        BY <1>1, <1>2, <1>3, <1>4, <1>5, <1>6, <2>2
    <2>3. CASE a > Len(h) + Len(b)
        <3>1. (h \o (b \o Tail(c)))[a] = Tail(c)[a - Len(h) - Len(b)]
            BY <1>1, <1>3, <1>5, <1>6, <2>3
        <3>2. (h \o (b \o c))[a + 1] = c[a + 1 - Len(h) - Len(b)]
            BY <1>1, <1>2, <1>4, <1>6, <2>3
        <3> QED
            BY <1>1, <1>6, <2>3, <3>1, <3>2
    <2> QED
        BY <1>6, <2>1, <2>2, <2>3
<1> QED
    BY <1>1, <1>4, <1>5, <1>6, <1>7

-----------------------------------------------------------------------------
(* Types and capacity *)

\* TypeOK without the context, whose value no other action looks at, and that
\* a call in progress has a number.
Typed ==
    /\ ch \in [Streams -> Seq(Item)]
    /\ \A s \in Streams : Len(ch[s]) <= QueueCapacity
    /\ batch \in [Streams -> Seq(Item)]
    /\ handed \in [Streams -> Seq(Item)]
    /\ prod \in [Producers -> [pc : {"idle", "drop", "resend"},
                               stream : Streams, n : 0..MaxCalls]]
    /\ loop \in [phase : Phase, stream : Streams]
    /\ \A r \in Producers : prod[r].pc # "idle" => prod[r].n >= 1

LEMMA TypedInit == Init => Typed
BY DispatcherAssumption DEF Init, Typed, Streams, Select, Phase

\* Taking the head of a channel into its batch.
LEMMA TakeTyped ==
    ASSUME Typed, NEW s \in Streams, Take(s)
    PROVE  /\ ch' \in [Streams -> Seq(Item)] /\ batch' \in [Streams -> Seq(Item)]
           /\ \A t \in Streams : Len(ch'[t]) <= QueueCapacity
<1>1. /\ Head(ch[s]) \in Item /\ Tail(ch[s]) \in Seq(Item)
      /\ Len(Tail(ch[s])) = Len(ch[s]) - 1 /\ Len(ch[s]) \in Nat
    BY HeadTailProperties, LenProperties DEF Typed, Take
<1>2. Append(batch[s], Head(ch[s])) \in Seq(Item)
    BY <1>1, AppendProperties DEF Typed
<1> QED
    BY <1>1, <1>2, DispatcherAssumption DEF Typed, Take

LEMMA HandOverTyped ==
    ASSUME Typed, NEW s \in Streams, HandOver(s)
    PROVE  handed' \in [Streams -> Seq(Item)] /\ batch' \in [Streams -> Seq(Item)]
<1>1. handed[s] \o batch[s] \in Seq(Item)
    BY ConcatProperties DEF Typed
<1> QED
    BY <1>1 DEF Typed, HandOver

LEMMA SendTyped ==
    ASSUME Typed, NEW s \in Streams, NEW i \in Item, HasRoom(s), Send(s, i)
    PROVE  ch' \in [Streams -> Seq(Item)] /\ \A t \in Streams : Len(ch'[t]) <= QueueCapacity
<1>1. Append(ch[s], i) \in Seq(Item) /\ Len(Append(ch[s], i)) = Len(ch[s]) + 1 /\ Len(ch[s]) \in Nat
    BY AppendProperties, LenProperties DEF Typed
<1> QED
    BY <1>1, DispatcherAssumption DEF Typed, HasRoom, Send

LEMMA TypedStep == Typed /\ [Next]_vars => Typed'
<1> SUFFICES ASSUME Typed, [Next]_vars PROVE Typed'
    OBVIOUS
<1>1. ASSUME NEW r \in Producers, NEW s \in Streams, Enqueue(r, s) PROVE Typed'
    <2>1. prod[r] \in [pc : {"idle", "drop", "resend"}, stream : Streams, n : 0..MaxCalls]
        BY DEF Typed
    <2>2. prod[r].n + 1 \in 1..MaxCalls
        BY <1>1, <2>1, DispatcherAssumption DEF Enqueue
    <2>3. /\ prod' \in [Producers -> [pc : {"idle", "drop", "resend"},
                                      stream : Streams, n : 0..MaxCalls]]
          /\ \A q \in Producers : prod'[q].pc # "idle" => prod'[q].n >= 1
        BY <1>1, <2>2, DispatcherAssumption DEF Enqueue, Typed
    <2>4. [by |-> r, n |-> prod[r].n + 1] \in Item
        BY <2>2 DEF Item
    <2>5. ch' \in [Streams -> Seq(Item)] /\ \A t \in Streams : Len(ch'[t]) <= QueueCapacity
        BY <1>1, <2>4, SendTyped DEF Enqueue, Typed
    <2> QED
        BY <1>1, <2>3, <2>5 DEF Enqueue, Typed
<1>2. ASSUME NEW r \in Producers, DropOldest(r) PROVE Typed'
    <2>1. prod[r].stream \in Streams
        BY DEF Typed
    <2>2. ch[prod[r].stream] # << >> =>
            /\ Tail(ch[prod[r].stream]) \in Seq(Item)
            /\ Len(Tail(ch[prod[r].stream])) = Len(ch[prod[r].stream]) - 1
            /\ Len(ch[prod[r].stream]) \in Nat
        BY <2>1, HeadTailProperties, LenProperties DEF Typed
    <2>3. ch' \in [Streams -> Seq(Item)] /\ \A t \in Streams : Len(ch'[t]) <= QueueCapacity
        BY <1>2, <2>1, <2>2, DispatcherAssumption DEF DropOldest, Typed
    <2>4. /\ prod' \in [Producers -> [pc : {"idle", "drop", "resend"},
                                      stream : Streams, n : 0..MaxCalls]]
          /\ \A q \in Producers : prod'[q].pc # "idle" => prod'[q].n >= 1
        BY <1>2 DEF DropOldest, ProdTo, Typed
    <2> QED
        BY <1>2, <2>3, <2>4 DEF DropOldest, Typed
<1>3. ASSUME NEW r \in Producers, Resend(r) PROVE Typed'
    <2>1. prod[r].stream \in Streams /\ Current(r) \in Item
        BY <1>3, DispatcherAssumption DEF Typed, Resend, Current, Item
    <2>2. ch' \in [Streams -> Seq(Item)] /\ \A t \in Streams : Len(ch'[t]) <= QueueCapacity
        BY <1>3, <2>1, SendTyped DEF Resend, Typed
    <2>3. /\ prod' \in [Producers -> [pc : {"idle", "drop", "resend"},
                                      stream : Streams, n : 0..MaxCalls]]
          /\ \A q \in Producers : prod'[q].pc # "idle" => prod'[q].n >= 1
        BY <1>3 DEF Resend, ProdTo, Typed
    <2> QED
        BY <1>3, <2>2, <2>3 DEF Resend, Typed
<1>4. ASSUME NEW s \in Streams, Receive(s) PROVE Typed'
    <2>1. loop' \in [phase : Phase, stream : Streams]
        BY <1>4 DEF Receive, LoopTo, Phase, Typed
    <2> QED
        BY <1>4, <2>1, TakeTyped DEF Receive, Typed
<1>5. CASE FlushFull \/ FlushTick \/ FlushFinal
    <2>1. loop.stream \in Streams
        BY DEF Typed
    <2>2. loop' \in [phase : Phase, stream : Streams]
        BY <1>5 DEF FlushFull, FlushTick, FlushFinal, LoopTo, Select, Phase, Streams
    <2> QED
        BY <1>5, <2>1, <2>2, HandOverTyped DEF FlushFull, FlushTick, FlushFinal, Typed
<1>6. CASE Drain
    BY <1>6, TakeTyped DEF Drain, Typed
<1>7. CASE TimerFires \/ ObserveCancel \/ Drained
    BY <1>7 DEF TimerFires, ObserveCancel, Drained, LoopTo, Phase, Streams, Typed
<1>8. CASE Cancel
    BY <1>8 DEF Cancel, Typed
<1>9. CASE UNCHANGED vars
    BY <1>9 DEF vars, Typed
<1> QED
    BY <1>1, <1>2, <1>3, <1>4, <1>5, <1>6, <1>7, <1>8, <1>9 DEF Next, LoopStep

LEMMA ContextStep == cancelled \in BOOLEAN /\ [Next]_vars => (cancelled \in BOOLEAN)'
<1> SUFFICES ASSUME cancelled \in BOOLEAN, [Next]_vars PROVE cancelled' \in BOOLEAN
    OBVIOUS
<1>1. cancelled' = cancelled \/ cancelled' = TRUE
    BY Zenon DEF Next, LoopStep, vars, Enqueue, DropOldest, Resend, Receive, FlushFull, FlushTick,
           FlushFinal, Drain, Drained, TimerFires, ObserveCancel, Cancel
<1> QED
    BY <1>1

\* The state of the dispatcher is well typed and neither channel ever holds
\* more than its capacity, whatever the producers do (make(chan, capacity)
\* and the three selects of EnqueueContent and EnqueueEvent).
THEOREM TypeCorrect == Spec => []TypeOK
<1>1. Init => cancelled \in BOOLEAN
    BY DEF Init
<1>2. Typed /\ cancelled \in BOOLEAN => TypeOK
    BY DEF Typed, TypeOK
<1> QED
    BY <1>1, <1>2, TypedInit, TypedStep, ContextStep, PTL DEF Spec

-----------------------------------------------------------------------------
(* Order *)

Log(s) == handed[s] \o Pending(s)

Ordered(log) ==
    \A a, b \in 1..Len(log) : a < b /\ log[a].by = log[b].by => log[a].n < log[b].n

\* What is in a log was enqueued by a call that has ended, or by an earlier
\* one of a producer whose call is still going on.
Counted(log, calls) ==
    \A a \in 1..Len(log) :
        /\ log[a].n <= calls[log[a].by].n
        /\ calls[log[a].by].pc # "idle" => log[a].n < calls[log[a].by].n

OrderInv == \A s \in Streams : Ordered(Log(s)) /\ Counted(Log(s), prod)

\* The next call's item may go to the end.
LEMMA OrderedAppend ==
    ASSUME NEW log \in Seq(Item), Ordered(log), NEW i \in Item,
           \A a \in 1..Len(log) : log[a].by = i.by => log[a].n < i.n
    PROVE  Ordered(Append(log, i))
<1>1. /\ Len(Append(log, i)) = Len(log) + 1 /\ Len(log) \in Nat
      /\ \A a \in 1..Len(log) : Append(log, i)[a] = log[a]
      /\ Append(log, i)[Len(log) + 1] = i
    BY AppendProperties, LenProperties
<1> SUFFICES ASSUME NEW a \in 1..(Len(log) + 1), NEW b \in 1..(Len(log) + 1), a < b,
                    Append(log, i)[a].by = Append(log, i)[b].by
             PROVE  Append(log, i)[a].n < Append(log, i)[b].n
    BY <1>1 DEF Ordered
<1>2. a \in 1..Len(log) /\ Append(log, i)[a] = log[a]
    BY <1>1
<1>3. CASE b = Len(log) + 1
    BY <1>1, <1>2, <1>3
<1>4. CASE b \in 1..Len(log)
    BY <1>1, <1>2, <1>4 DEF Ordered
<1> QED
    BY <1>1, <1>3, <1>4

LEMMA CountedAppend ==
    ASSUME NEW log \in Seq(Item), NEW calls, NEW i \in Item, Counted(log, calls),
           i.n <= calls[i.by].n, calls[i.by].pc = "idle"
    PROVE  Counted(Append(log, i), calls)
<1>1. /\ Len(Append(log, i)) = Len(log) + 1 /\ Len(log) \in Nat
      /\ \A a \in 1..Len(log) : Append(log, i)[a] = log[a]
      /\ Append(log, i)[Len(log) + 1] = i
    BY AppendProperties, LenProperties
<1> SUFFICES ASSUME NEW a \in 1..(Len(log) + 1)
             PROVE  /\ Append(log, i)[a].n <= calls[Append(log, i)[a].by].n
                    /\ calls[Append(log, i)[a].by].pc # "idle" =>
                         Append(log, i)[a].n < calls[Append(log, i)[a].by].n
    BY <1>1 DEF Counted
<1>2. CASE a = Len(log) + 1
    BY <1>1, <1>2
<1>3. CASE a \in 1..Len(log)
    BY <1>1, <1>3 DEF Counted
<1> QED
    BY <1>1, <1>2, <1>3

\* The oldest entry of a channel may be lost.
LEMMA OrderedDrop ==
    ASSUME NEW h \in Seq(Item), NEW b \in Seq(Item), NEW c \in Seq(Item), c # << >>,
           NEW calls, Ordered(h \o (b \o c)), Counted(h \o (b \o c), calls)
    PROVE  Ordered(h \o (b \o Tail(c))) /\ Counted(h \o (b \o Tail(c)), calls)
<1> DEFINE k(a) == IF a <= Len(h) + Len(b) THEN a ELSE a + 1
           old == h \o (b \o c)
           new == h \o (b \o Tail(c))
<1>1. \A a \in 1..Len(new) : k(a) \in 1..Len(old) /\ new[a] = old[k(a)]
    BY LogDrop
<1>2. Len(h) \in Nat /\ Len(b) \in Nat /\ new \in Seq(Item)
    BY LenProperties, LogType, HeadTailProperties
<1>3. Len(new) \in Nat
    BY <1>2, LenProperties
<1>4. \A a1, a2 \in 1..Len(new) : a1 < a2 => k(a1) < k(a2)
    BY <1>2, <1>3
<1>5. Ordered(old) /\ Counted(old, calls)
    OBVIOUS
<1> HIDE DEF k, old, new
<1>6. Ordered(new)
    BY <1>1, <1>4, <1>5 DEF Ordered
<1>7. Counted(new, calls)
    BY <1>1, <1>5 DEF Counted
<1> QED
    BY <1>6, <1>7 DEF new

LEMMA OrderInvInit == Init => OrderInv
<1> SUFFICES ASSUME Init, NEW s \in Streams PROVE Ordered(Log(s)) /\ Counted(Log(s), prod)
    BY DEF OrderInv
<1>1. Log(s) = << >> \o (<< >> \o << >>)
    BY DEF Init, Log, Pending
<1>2. Len(Log(s)) = 0
    BY <1>1
<1> QED
    BY <1>2 DEF Ordered, Counted

\* Items that only move between channel, batch and sender.
LEMMA LogsSame ==
    ASSUME OrderInv, prod' = prod, \A s \in Streams : Log(s)' = Log(s)
    PROVE  OrderInv'
BY DEF OrderInv

LEMMA TakeKeepsLogs ==
    ASSUME Typed, NEW s \in Streams, Take(s), UNCHANGED handed
    PROVE  \A t \in Streams : Log(t)' = Log(t) /\ Pending(t)' = Pending(t)
<1>1. Append(batch[s], Head(ch[s])) \o Tail(ch[s]) = batch[s] \o ch[s]
    BY LogTake DEF Typed, Take
<1>2. /\ batch' = [batch EXCEPT ![s] = Append(batch[s], Head(ch[s]))]
      /\ ch' = [ch EXCEPT ![s] = Tail(ch[s])]
    BY DEF Take
<1>3. \A t \in Streams : t # s => batch'[t] = batch[t] /\ ch'[t] = ch[t]
    BY <1>2 DEF Typed
<1>4. batch'[s] = Append(batch[s], Head(ch[s])) /\ ch'[s] = Tail(ch[s])
    BY <1>2 DEF Typed
<1> QED
    BY <1>1, <1>3, <1>4 DEF Log, Pending

LEMMA HandOverKeepsLogs ==
    ASSUME Typed, NEW s \in Streams, HandOver(s), UNCHANGED ch
    PROVE  \A t \in Streams : Log(t)' = Log(t)
<1>0. handed[s] \in Seq(Item) /\ batch[s] \in Seq(Item) /\ ch[s] \in Seq(Item)
    BY DEF Typed
<1>1. (handed[s] \o batch[s]) \o (<< >> \o ch[s]) = handed[s] \o (batch[s] \o ch[s])
    <2> DEFINE h == handed[s]
               b == batch[s]
               c == ch[s]
    <2>1. h \in Seq(Item) /\ b \in Seq(Item) /\ c \in Seq(Item)
        BY <1>0
    <2> HIDE DEF h, b, c
    <2>2. (h \o b) \o (<< >> \o c) = h \o (b \o c)
        BY <2>1, LogHandOver
    <2> QED
        BY <2>2 DEF h, b, c
<1>2. \A t \in Streams : t # s => batch'[t] = batch[t] /\ handed'[t] = handed[t]
    BY DEF HandOver, Typed
<1>3. batch'[s] = << >> /\ handed'[s] = handed[s] \o batch[s]
    BY DEF HandOver, Typed
<1> QED
    BY <1>1, <1>2, <1>3 DEF Log, Pending

\* One item sent at the end of the channel of s, the other streams as before.
LEMMA SendLogs ==
    ASSUME Typed, NEW s \in Streams, NEW i \in Item, Send(s, i), UNCHANGED <<batch, handed>>
    PROVE  /\ Log(s) \in Seq(Item) /\ Log(s)' = Append(Log(s), i)
           /\ Pending(s)' = Append(Pending(s), i)
           /\ \A t \in Streams \ {s} : Log(t)' = Log(t) /\ Pending(t)' = Pending(t)
<1>1. handed[s] \in Seq(Item) /\ batch[s] \in Seq(Item) /\ ch[s] \in Seq(Item)
    BY DEF Typed
<1>2. /\ batch[s] \o Append(ch[s], i) = Append(batch[s] \o ch[s], i)
      /\ handed[s] \o (batch[s] \o Append(ch[s], i)) = Append(handed[s] \o (batch[s] \o ch[s]), i)
    <2> DEFINE h == handed[s]
               b == batch[s]
               c == ch[s]
    <2>1. h \in Seq(Item) /\ b \in Seq(Item) /\ c \in Seq(Item)
        BY <1>1
    <2> HIDE DEF h, b, c
    <2>2. b \o c \in Seq(Item)
        BY <2>1, LogType
    <2>3. b \o Append(c, i) = Append(b \o c, i)
        BY <2>1, ConcatAppend
    <2>4. h \o Append(b \o c, i) = Append(h \o (b \o c), i)
        BY <2>1, <2>2, ConcatAppend
    <2> QED
        BY <2>3, <2>4 DEF h, b, c
<1>3. ch'[s] = Append(ch[s], i) /\ \A t \in Streams \ {s} : ch'[t] = ch[t]
    BY DEF Send, Typed
<1>4. Log(s) \in Seq(Item)
    BY <1>1, LogType DEF Log, Pending
<1> QED
    BY <1>2, <1>3, <1>4 DEF Log, Pending

\* A call of r that is over, or has only been counted, is no news to an item
\* already in a log.
LEMMA CountedStays ==
    ASSUME Typed, NEW log \in Seq(Item), Counted(log, prod), NEW r \in Producers,
           \A q \in Producers \ {r} : prod'[q] = prod[q],
           \/ prod'[r].n = prod[r].n /\ (prod'[r].pc = "idle" \/ prod[r].pc # "idle")
           \/ prod'[r].n = prod[r].n + 1
    PROVE  Counted(log, prod')
<1> SUFFICES ASSUME NEW a \in 1..Len(log)
             PROVE  /\ log[a].n <= prod'[log[a].by].n
                    /\ prod'[log[a].by].pc # "idle" => log[a].n < prod'[log[a].by].n
    BY DEF Counted
<1>1. log[a] \in Item
    BY ElementOfSeq
<1>2. log[a].by \in Producers /\ log[a].n \in 1..MaxCalls
    BY <1>1 DEF Item
<1>2a. prod[log[a].by].n \in 0..MaxCalls
    BY <1>2 DEF Typed
<1>3. /\ log[a].n <= prod[log[a].by].n
      /\ prod[log[a].by].pc # "idle" => log[a].n < prod[log[a].by].n
    BY DEF Counted
<1>4. CASE log[a].by = r
    BY <1>2, <1>2a, <1>3, <1>4, DispatcherAssumption
<1>5. CASE log[a].by # r
    BY <1>2, <1>3, <1>5
<1> QED
    BY <1>4, <1>5

LEMMA OrderInvStep == Typed /\ OrderInv /\ [Next]_vars => OrderInv'
<1> SUFFICES ASSUME Typed, OrderInv, [Next]_vars PROVE OrderInv'
    OBVIOUS
<1>a. \A s \in Streams : Log(s) \in Seq(Item)
    BY LogType DEF Typed, Log, Pending
<1>b. \A s \in Streams : Ordered(Log(s)) /\ Counted(Log(s), prod)
    BY DEF OrderInv
<1>1. ASSUME NEW r \in Producers, NEW s \in Streams, Enqueue(r, s) PROVE OrderInv'
    <2> DEFINE i == [by |-> r, n |-> prod[r].n + 1]
    <2>1. /\ prod[r].n \in Nat /\ prod[r].n + 1 \in 1..MaxCalls /\ prod[r].pc = "idle"
          /\ UNCHANGED <<batch, handed>>
        BY <1>1, DispatcherAssumption DEF Enqueue, Typed
    <2>2. i \in Item /\ i.by = r /\ i.n = prod[r].n + 1
        BY <2>1 DEF Item
    <2>3. /\ prod'[r].n = prod[r].n + 1 /\ \A q \in Producers \ {r} : prod'[q] = prod[q]
          /\ prod'[r].pc = IF HasRoom(s) THEN "idle" ELSE "drop"
        BY <1>1 DEF Enqueue, Typed
    <2>4. \A t \in Streams : Counted(Log(t), prod')
        BY <1>a, <1>b, <2>3, CountedStays
    <2>5. CASE HasRoom(s)
        <3>1. Send(s, i)
            BY <1>1, <2>5 DEF Enqueue
        <3> HIDE DEF i
        <3>2. /\ Log(s)' = Append(Log(s), i)
              /\ \A t \in Streams \ {s} : Log(t)' = Log(t)
            BY <2>1, <2>2, <3>1, SendLogs
        <3>3. \A a \in 1..Len(Log(s)) : Log(s)[a].by = i.by => Log(s)[a].n < i.n
            <4> TAKE a \in 1..Len(Log(s))
            <4>1. Log(s)[a] \in Item
                BY <1>a, ElementOfSeq
            <4>2. Log(s)[a].n <= prod[Log(s)[a].by].n /\ Log(s)[a].n \in Nat
                BY <1>b, <4>1, DispatcherAssumption DEF Counted, Item
            <4> QED
                BY <2>1, <2>2, <4>2
        <3>4. Ordered(Append(Log(s), i))
            BY <1>a, <1>b, <2>2, <3>3, OrderedAppend
        <3>5. i.n <= prod'[i.by].n /\ prod'[i.by].pc = "idle"
            BY <2>1, <2>2, <2>3, <2>5
        <3>6. Counted(Append(Log(s), i), prod')
            BY <1>a, <2>2, <2>4, <3>5, CountedAppend
        <3> QED
            BY <1>b, <2>4, <3>2, <3>4, <3>6 DEF OrderInv
    <2>6. CASE ~HasRoom(s)
        <3>1. \A t \in Streams : Log(t)' = Log(t)
            BY <1>1, <2>6 DEF Enqueue, Log, Pending
        <3> QED
            BY <1>b, <2>4, <3>1 DEF OrderInv
    <2> QED
        BY <2>5, <2>6
<1>2. ASSUME NEW r \in Producers, DropOldest(r) PROVE OrderInv'
    <2>0. PICK s \in Streams : s = prod[r].stream
        BY DEF Typed
    <2>1. prod[r].pc = "drop" /\ UNCHANGED <<batch, handed>>
        BY <1>2 DEF DropOldest
    <2>2. /\ prod'[r].n = prod[r].n /\ prod'[r].pc = "resend"
          /\ \A q \in Producers \ {r} : prod'[q] = prod[q]
        BY <1>2 DEF DropOldest, ProdTo, Typed
    <2>3. \A t \in Streams : Counted(Log(t), prod')
        BY <1>a, <1>b, <2>1, <2>2, CountedStays
    <2>4. /\ ch'[s] = IF ch[s] = << >> THEN ch[s] ELSE Tail(ch[s])
          /\ \A t \in Streams \ {s} : ch'[t] = ch[t]
        BY <1>2, <2>0 DEF DropOldest, Typed
    <2>5. \A t \in Streams \ {s} : Log(t)' = Log(t)
        BY <2>1, <2>4 DEF Log, Pending
    <2>6. CASE ch[s] = << >>
        <3>1. Log(s)' = Log(s)
            BY <2>1, <2>4, <2>6 DEF Log, Pending
        <3> QED
            BY <1>b, <2>3, <2>5, <3>1 DEF OrderInv
    <2>7. CASE ch[s] # << >>
        <3>1. Log(s)' = handed[s] \o (batch[s] \o Tail(ch[s]))
            BY <2>1, <2>4, <2>7 DEF Log, Pending
        <3>2. handed[s] \in Seq(Item) /\ batch[s] \in Seq(Item) /\ ch[s] \in Seq(Item)
            BY <2>1 DEF Typed
        <3>3. /\ Ordered(handed[s] \o (batch[s] \o ch[s]))
              /\ Counted(handed[s] \o (batch[s] \o ch[s]), prod')
            BY <1>b, <2>1, <2>3 DEF Log, Pending
        <3>4. /\ Ordered(handed[s] \o (batch[s] \o Tail(ch[s])))
              /\ Counted(handed[s] \o (batch[s] \o Tail(ch[s])), prod')
            BY <2>7, <3>2, <3>3, OrderedDrop
        <3> QED
            BY <1>b, <2>3, <2>5, <3>1, <3>4 DEF OrderInv
    <2> QED
        BY <2>6, <2>7
<1>3. ASSUME NEW r \in Producers, Resend(r) PROVE OrderInv'
    <2>0. PICK s \in Streams : s = prod[r].stream
        BY DEF Typed
    <2>0a. PICK i : i = Current(r)
        OBVIOUS
    <2>1. prod[r].pc = "resend" /\ prod[r].n \in Nat /\ UNCHANGED <<batch, handed>>
        BY <1>3, DispatcherAssumption DEF Resend, Typed
    <2>2. i \in Item /\ i.by = r /\ i.n = prod[r].n
        BY <1>3, <2>0a, <2>1, DispatcherAssumption DEF Current, Item, Typed
    <2>3. /\ prod'[r].n = prod[r].n /\ prod'[r].pc = "idle"
          /\ \A q \in Producers \ {r} : prod'[q] = prod[q]
        BY <1>3 DEF Resend, ProdTo, Typed
    <2>4. \A t \in Streams : Counted(Log(t), prod')
        BY <1>a, <1>b, <2>3, CountedStays
    <2>5. CASE HasRoom(s)
        <3>1. Send(s, i)
            BY <1>3, <2>0, <2>0a, <2>5 DEF Resend
        <3>2. /\ Log(s)' = Append(Log(s), i)
              /\ \A t \in Streams \ {s} : Log(t)' = Log(t)
            BY <2>1, <2>2, <3>1, SendLogs
        <3>3. \A a \in 1..Len(Log(s)) : Log(s)[a].by = i.by => Log(s)[a].n < i.n
            BY <1>b, <2>1, <2>2 DEF Counted
        <3>4. Ordered(Append(Log(s), i))
            BY <1>a, <1>b, <2>1, <2>2, <3>3, OrderedAppend
        <3>5. i.n <= prod'[i.by].n /\ prod'[i.by].pc = "idle"
            BY <2>1, <2>2, <2>3
        <3>6. Counted(Append(Log(s), i), prod')
            BY <1>a, <2>1, <2>2, <2>4, <3>5, CountedAppend
        <3> QED
            BY <1>b, <2>4, <3>2, <3>4, <3>6 DEF OrderInv
    <2>6. CASE ~HasRoom(s)
        <3>1. \A t \in Streams : Log(t)' = Log(t)
            BY <1>3, <2>0, <2>6 DEF Resend, Log, Pending
        <3> QED
            BY <1>b, <2>4, <3>1 DEF OrderInv
    <2> QED
        BY <2>5, <2>6
<1>4. ASSUME NEW s \in Streams, Receive(s) PROVE OrderInv'
    BY <1>4, TakeKeepsLogs, LogsSame DEF Receive
<1>5. CASE FlushFull \/ FlushTick \/ FlushFinal
    <2>1. loop.stream \in Streams /\ HandOver(loop.stream) /\ UNCHANGED <<ch, prod>>
        BY <1>5 DEF FlushFull, FlushTick, FlushFinal, Typed
    <2> QED
        BY <2>1, HandOverKeepsLogs, LogsSame
<1>6. CASE Drain
    <2>1. loop.stream \in Streams /\ Take(loop.stream) /\ UNCHANGED <<handed, prod>>
        BY <1>6 DEF Drain, Typed
    <2> QED
        BY <2>1, TakeKeepsLogs, LogsSame
<1>7. CASE TimerFires \/ ObserveCancel \/ Drained \/ Cancel \/ UNCHANGED vars
    <2>1. UNCHANGED <<ch, batch, handed, prod>>
        BY <1>7 DEF TimerFires, ObserveCancel, Drained, Cancel, vars
    <2>2. \A s \in Streams : Log(s)' = Log(s)
        BY <2>1 DEF Log, Pending
    <2> QED
        BY <2>1, <2>2, LogsSame
<1> QED
    BY <1>1, <1>2, <1>3, <1>4, <1>5, <1>6, <1>7 DEF Next, LoopStep

\* For every number of producers, calls, capacity and batch size, the items of
\* one caller are handed over in the order of its calls and none of them
\* twice (EnqueueContent, EnqueueEvent, loop, flushFinal).
THEOREM HandedInOrderOnce == Spec => []InOrderOnce
<1>1. OrderInv => InOrderOnce
    BY DEF OrderInv, InOrderOnce, Ordered, Log
<1> QED
    BY <1>1, TypedInit, TypedStep, OrderInvInit, OrderInvStep, PTL DEF Spec

-----------------------------------------------------------------------------
(* The dispatcher implements the outbox. *)

Waiting == [s \in Streams |-> Pending(s)]

\* A call of r that has only been begun, or goes on, decides nothing.
LEMMA NothingDecided ==
    ASSUME Typed, NEW r \in Producers, \A q \in Producers \ {r} : prod'[q] = prod[q],
           prod'[r].pc # "idle",
           \/ prod[r].pc = "idle" /\ prod'[r].n = prod[r].n + 1
           \/ prod[r].pc # "idle" /\ prod'[r].n = prod[r].n
    PROVE  Decided' = Decided
<1> SUFFICES ASSUME NEW j \in Item
             PROVE  /\ (j.n < prod'[j.by].n \/ (j.n = prod'[j.by].n /\ prod'[j.by].pc = "idle"))
                       <=> (j.n < prod[j.by].n \/ (j.n = prod[j.by].n /\ prod[j.by].pc = "idle"))
    BY DEF Decided
<1>1. j.by \in Producers /\ j.n \in 1..MaxCalls
    BY DEF Item
<1>2. prod[j.by].n \in 0..MaxCalls
    BY <1>1 DEF Typed
<1>3. CASE j.by = r
    BY <1>1, <1>2, <1>3, DispatcherAssumption
<1>4. CASE j.by # r
    BY <1>1, <1>4
<1> QED
    BY <1>3, <1>4

\* A call of r that ends has decided its own item.
LEMMA OneDecided ==
    ASSUME Typed, NEW r \in Producers, \A q \in Producers \ {r} : prod'[q] = prod[q],
           prod'[r].pc = "idle", NEW i \in Item, i.by = r, i.n = prod'[r].n,
           \/ prod[r].pc = "idle" /\ prod'[r].n = prod[r].n + 1
           \/ prod[r].pc # "idle" /\ prod'[r].n = prod[r].n
    PROVE  i \notin Decided /\ Decided' = Decided \cup {i}
<1>1. \A j \in Item : j.by \in Producers /\ j.n \in 1..MaxCalls
    BY DEF Item
<1>2. \A j \in Item : prod[j.by].n \in 0..MaxCalls
    BY <1>1 DEF Typed
<1>3. i \notin Decided
    BY <1>1, <1>2, DispatcherAssumption DEF Decided
<1>4. \A j \in Item : j.by = r /\ j.n = prod'[r].n => j = i
    BY DEF Item
<1>5. ASSUME NEW j \in Item
      PROVE  (j.n < prod'[j.by].n \/ (j.n = prod'[j.by].n /\ prod'[j.by].pc = "idle"))
               <=> (j.n < prod[j.by].n \/ (j.n = prod[j.by].n /\ prod[j.by].pc = "idle")) \/ j = i
    <2>1. CASE j.by = r
        BY <1>1, <1>2, <1>4, <2>1, DispatcherAssumption
    <2>2. CASE j.by # r
        BY <1>1, <2>2
    <2> QED
        BY <2>1, <2>2
<1>6. Decided' = Decided \cup {i}
    BY <1>5 DEF Decided
<1> QED
    BY <1>3, <1>6

LEMMA ConcatPrefix ==
    ASSUME NEW b \in Seq(Item), NEW c \in Seq(Item)
    PROVE  SubSeq(b \o c, 1, Len(b)) = b
<1>1. /\ Len(b) \in Nat /\ Len(c) \in Nat
      /\ \A k \in 1..(Len(b) + Len(c)) : (b \o c)[k] = IF k <= Len(b) THEN b[k] ELSE c[k - Len(b)]
      /\ b \in [1..Len(b) -> Item]
    BY LenProperties, ConcatProperties
<1> DEFINE t == SubSeq(b \o c, 1, Len(b))
<1>2. t \in Seq(Item) /\ Len(t) = Len(b) /\ \A k \in 1..Len(b) : t[k] = (b \o c)[k]
    BY <1>1, SubSeqProperties
<1> HIDE DEF t
<1>3. \A k \in 1..Len(t) : t[k] = b[k]
    BY <1>1, <1>2
<1>4. t = b
    BY <1>2, <1>3, SeqEqual
<1> QED
    BY <1>4 DEF t

\* Losing the oldest entry of the channel is removing it from what waits.
LEMMA PendingDrop ==
    ASSUME NEW b \in Seq(Item), NEW c \in Seq(Item), c # << >>
    PROVE  /\ Len(b) + 1 \in 1..Len(b \o c)
           /\ RemoveAt(b \o c, Len(b) + 1) = b \o Tail(c)
<1>1. /\ Len(b) \in Nat /\ Len(c) \in Nat \ {0} /\ Len(b \o c) = Len(b) + Len(c)
      /\ b \o c \in Seq(Item) /\ Tail(c) \in Seq(Item) /\ Len(Tail(c)) = Len(c) - 1
      /\ \A k \in 1..Len(Tail(c)) : Tail(c)[k] = c[k + 1]
      /\ \A k \in 1..(Len(b) + Len(c)) : (b \o c)[k] = IF k <= Len(b) THEN b[k] ELSE c[k - Len(b)]
    BY LenProperties, EmptySeq, ConcatProperties, HeadTailProperties
<1>2. \A k \in 1..(Len(b) + Len(c)) : (b \o c)[k] \in Item
    BY <1>1, ElementOfSeq
<1>3. SubSeq(b \o c, 1, Len(b)) = b
    BY ConcatPrefix
<1>4. SubSeq(b \o c, Len(b) + 2, Len(b) + Len(c)) = Tail(c)
    <2> DEFINE t == SubSeq(b \o c, Len(b) + 2, Len(b) + Len(c))
    <2>1. /\ t \in Seq(Item) /\ Len(t) = Len(c) - 1
          /\ \A k \in 1..(Len(c) - 1) : t[k] = (b \o c)[Len(b) + 1 + k]
        BY <1>1, <1>2, SubSeqProperties
    <2> HIDE DEF t
    <2>2. \A k \in 1..Len(t) : t[k] = Tail(c)[k]
        BY <1>1, <2>1
    <2>3. t = Tail(c)
        BY <1>1, <2>1, <2>2, SeqEqual
    <2> QED
        BY <2>3 DEF t
<1>5. (Len(b) + 1) - 1 = Len(b) /\ (Len(b) + 1) + 1 = Len(b) + 2 /\ Len(b) + 1 \in 1..Len(b \o c)
    BY <1>1
<1>6. RemoveAt(b \o c, Len(b) + 1)
        = SubSeq(b \o c, 1, Len(b)) \o SubSeq(b \o c, Len(b) + 2, Len(b) + Len(c))
    BY <1>1, <1>5, Zenon DEF RemoveAt
<1> QED
    BY <1>3, <1>4, <1>5, <1>6, Zenon

\* Handing over the batch is handing over the first of what waits.
LEMMA PendingHandOver ==
    ASSUME NEW b \in Seq(Item), NEW c \in Seq(Item), b # << >>
    PROVE  /\ Len(b) \in 1..Len(b \o c)
           /\ SubSeq(b \o c, 1, Len(b)) = b
           /\ SubSeq(b \o c, Len(b) + 1, Len(b \o c)) = << >> \o c
<1>1. /\ Len(b) \in Nat \ {0} /\ Len(c) \in Nat /\ Len(b \o c) = Len(b) + Len(c)
      /\ b \o c \in Seq(Item)
      /\ \A k \in 1..(Len(b) + Len(c)) : (b \o c)[k] = IF k <= Len(b) THEN b[k] ELSE c[k - Len(b)]
    BY LenProperties, EmptySeq, ConcatProperties
<1>2. \A k \in 1..(Len(b) + Len(c)) : (b \o c)[k] \in Item
    BY <1>1, ElementOfSeq
<1>3. SubSeq(b \o c, 1, Len(b)) = b
    BY ConcatPrefix
<1>4. SubSeq(b \o c, Len(b) + 1, Len(b) + Len(c)) = c
    <2> DEFINE t == SubSeq(b \o c, Len(b) + 1, Len(b) + Len(c))
    <2>1. /\ t \in Seq(Item) /\ Len(t) = Len(c)
          /\ \A k \in 1..Len(c) : t[k] = (b \o c)[Len(b) + k]
        BY <1>1, <1>2, SubSeqProperties
    <2> HIDE DEF t
    <2>2. \A k \in 1..Len(t) : t[k] = c[k]
        BY <1>1, <2>1
    <2>3. t = c
        BY <1>1, <2>1, <2>2, SeqEqual
    <2> QED
        BY <2>3 DEF t
<1>5. << >> \o c = c
    BY ConcatEmptySeq
<1>6. SubSeq(b \o c, Len(b) + 1, Len(b \o c)) = << >> \o c
    BY <1>1, <1>4, <1>5
<1> QED
    BY <1>1, <1>3, <1>6

LEMMA OutboxInit == Init => Outbox!Init
<1> SUFFICES ASSUME Init PROVE Outbox!Init
    OBVIOUS
<1>1. \A j \in Item : j.by \in Producers /\ j.n \in 1..MaxCalls
    BY DEF Item
<1>2. Decided = {}
    BY <1>1, DispatcherAssumption DEF Decided, Init
<1>3. \A s \in Streams : Pending(s) = << >>
    BY DEF Init, Pending
<1> QED
    BY <1>2, <1>3 DEF Init, Outbox!Init

\* A step after which every item waits where it waited.
LEMMA OutboxStutter ==
    ASSUME Decided' = Decided, \A s \in Streams : Pending(s)' = Pending(s), handed' = handed
    PROVE  UNCHANGED Outbox!outbox
BY DEF Outbox!outbox

LEMMA OutboxAccept ==
    ASSUME Typed, NEW s \in Streams, NEW i \in Item, Send(s, i), UNCHANGED <<batch, handed>>,
           i \notin Decided, Decided' = Decided \cup {i}
    PROVE  Outbox!Next
<1>1. Pending(s)' = Append(Pending(s), i) /\ \A t \in Streams \ {s} : Pending(t)' = Pending(t)
    BY SendLogs
<1>2. Waiting' = [Waiting EXCEPT ![s] = Append(@, i)]
    BY <1>1 DEF Waiting
<1>3. Outbox!Accept(s, i)
    BY <1>2 DEF Outbox!Accept, Waiting
<1> QED
    BY <1>3 DEF Outbox!Next

LEMMA OutboxHandOver ==
    ASSUME Typed, NEW s \in Streams, HandOver(s), UNCHANGED <<ch, prod>>
    PROVE  [Outbox!Next]_(Outbox!outbox)
<1>1. batch[s] \in Seq(Item) /\ ch[s] \in Seq(Item) /\ handed[s] \in Seq(Item)
    BY DEF Typed
<1>2. Decided' = Decided
    BY DEF Decided
<1>3. /\ \A t \in Streams \ {s} : batch'[t] = batch[t] /\ handed'[t] = handed[t]
      /\ batch'[s] = << >> /\ handed' = [handed EXCEPT ![s] = handed[s] \o batch[s]]
    BY DEF HandOver, Typed
<1>4. CASE batch[s] = << >>
    <2>1. handed[s] \o batch[s] = handed[s]
        BY <1>1, <1>4, ConcatEmptySeq
    <2>2. handed' = handed
        BY <1>3, <2>1 DEF Typed
    <2>3. \A t \in Streams : Pending(t)' = Pending(t)
        BY <1>3, <1>4 DEF Pending
    <2> QED
        BY <1>2, <2>2, <2>3, OutboxStutter
<1>5. CASE batch[s] # << >>
    <2> DEFINE p == batch[s] \o ch[s]
               n == Len(batch[s])
    <2>1. n \in 1..Len(p) /\ SubSeq(p, 1, n) = batch[s] /\ SubSeq(p, n + 1, Len(p)) = << >> \o ch[s]
        BY <1>1, <1>5, PendingHandOver
    <2>2. Waiting[s] = p
        BY DEF Waiting, Pending
    <2>3. Waiting' = [Waiting EXCEPT ![s] = SubSeq(@, n + 1, Len(@))]
        BY <1>3, <2>1 DEF Waiting, Pending
    <2>4. handed' = [handed EXCEPT ![s] = @ \o SubSeq(Waiting[s], 1, n)]
        BY <1>3, <2>1, <2>2
    <2>5. Outbox!HandOver(s)
        BY <1>2, <2>1, <2>2, <2>3, <2>4 DEF Outbox!HandOver, Waiting
    <2> QED
        BY <2>5 DEF Outbox!Next
<1> QED
    BY <1>4, <1>5

LEMMA OutboxStep == Typed /\ [Next]_vars => [Outbox!Next]_(Outbox!outbox)
<1> SUFFICES ASSUME Typed, [Next]_vars PROVE [Outbox!Next]_(Outbox!outbox)
    OBVIOUS
<1>1. ASSUME NEW r \in Producers, NEW s \in Streams, Enqueue(r, s)
      PROVE  [Outbox!Next]_(Outbox!outbox)
    <2>1. /\ prod[r].pc = "idle" /\ prod[r].n \in Nat /\ prod[r].n + 1 \in 1..MaxCalls
          /\ UNCHANGED <<batch, handed>>
        BY <1>1, DispatcherAssumption DEF Enqueue, Typed
    <2>2. PICK i \in Item : i = [by |-> r, n |-> prod[r].n + 1]
        BY <2>1 DEF Item
    <2>3. /\ prod'[r].n = prod[r].n + 1 /\ \A q \in Producers \ {r} : prod'[q] = prod[q]
          /\ prod'[r].pc = IF HasRoom(s) THEN "idle" ELSE "drop"
        BY <1>1 DEF Enqueue, Typed
    <2>4. CASE HasRoom(s)
        <3>1. Send(s, i)
            BY <1>1, <2>2, <2>4 DEF Enqueue
        <3>2. i.by = r /\ i.n = prod'[r].n /\ prod'[r].pc = "idle"
            BY <2>2, <2>3, <2>4
        <3>3. i \notin Decided /\ Decided' = Decided \cup {i}
            BY <2>1, <2>3, <3>2, OneDecided
        <3> QED
            BY <2>1, <3>1, <3>3, OutboxAccept
    <2>5. CASE ~HasRoom(s)
        <3>1. Decided' = Decided
            BY <2>1, <2>3, <2>5, NothingDecided
        <3>2. \A t \in Streams : Pending(t)' = Pending(t)
            BY <1>1, <2>5 DEF Enqueue, Pending
        <3> QED
            BY <2>1, <3>1, <3>2, OutboxStutter
    <2> QED
        BY <2>4, <2>5
<1>2. ASSUME NEW r \in Producers, DropOldest(r) PROVE [Outbox!Next]_(Outbox!outbox)
    <2>1. PICK s \in Streams : s = prod[r].stream
        BY DEF Typed
    <2>2. /\ prod[r].pc = "drop" /\ UNCHANGED <<batch, handed>>
          /\ prod'[r].n = prod[r].n /\ prod'[r].pc = "resend"
          /\ \A q \in Producers \ {r} : prod'[q] = prod[q]
        BY <1>2 DEF DropOldest, ProdTo, Typed
    <2>3. Decided' = Decided
        BY <2>2, NothingDecided
    <2>4. /\ ch'[s] = IF ch[s] = << >> THEN ch[s] ELSE Tail(ch[s])
          /\ \A t \in Streams \ {s} : ch'[t] = ch[t]
        BY <1>2, <2>1 DEF DropOldest, Typed
    <2>5. CASE ch[s] = << >>
        <3>1. \A t \in Streams : Pending(t)' = Pending(t)
            BY <2>2, <2>4, <2>5 DEF Pending
        <3> QED
            BY <2>2, <2>3, <3>1, OutboxStutter
    <2>6. CASE ch[s] # << >>
        <3> DEFINE k == Len(batch[s]) + 1
        <3>1. batch[s] \in Seq(Item) /\ ch[s] \in Seq(Item)
            BY DEF Typed
        <3>2. k \in 1..Len(batch[s] \o ch[s])
              /\ RemoveAt(batch[s] \o ch[s], k) = batch[s] \o Tail(ch[s])
            BY <2>6, <3>1, PendingDrop
        <3>3. Waiting' = [Waiting EXCEPT ![s] = RemoveAt(@, k)]
            BY <2>2, <2>4, <2>6, <3>2 DEF Waiting, Pending
        <3>4. k \in 1..Len(Waiting[s])
            BY <3>2 DEF Waiting, Pending
        <3>5. Outbox!Lose(s)
            BY <2>2, <2>3, <3>3, <3>4 DEF Outbox!Lose, Outbox!RemoveAt, RemoveAt, Waiting
        <3> QED
            BY <3>5 DEF Outbox!Next
    <2> QED
        BY <2>5, <2>6
<1>3. ASSUME NEW r \in Producers, Resend(r) PROVE [Outbox!Next]_(Outbox!outbox)
    <2>1. PICK s \in Streams : s = prod[r].stream
        BY DEF Typed
    <2>2. /\ prod[r].pc = "resend" /\ prod[r].n \in 1..MaxCalls /\ UNCHANGED <<batch, handed>>
          /\ prod'[r].n = prod[r].n /\ prod'[r].pc = "idle"
          /\ \A q \in Producers \ {r} : prod'[q] = prod[q]
        BY <1>3, DispatcherAssumption DEF Resend, ProdTo, Typed
    <2>3. PICK i \in Item : i = Current(r) /\ i.by = r /\ i.n = prod[r].n
        <3>1. Current(r) = [by |-> r, n |-> prod[r].n]
            BY DEF Current
        <3>2. [by |-> r, n |-> prod[r].n] \in Item
            BY <2>2 DEF Item
        <3> QED
            BY <3>1, <3>2
    <2>4. i \notin Decided /\ Decided' = Decided \cup {i}
        BY <2>2, <2>3, OneDecided
    <2>5. CASE HasRoom(s)
        <3>1. Send(s, i)
            BY <1>3, <2>1, <2>3, <2>5 DEF Resend
        <3> QED
            BY <2>2, <2>4, <3>1, OutboxAccept
    <2>6. CASE ~HasRoom(s)
        <3>1. ch' = ch
            BY <1>3, <2>1, <2>6 DEF Resend
        <3>2. Waiting' = Waiting
            BY <2>2, <3>1 DEF Waiting, Pending
        <3>3. Outbox!Refuse(i)
            BY <2>2, <2>4, <3>2 DEF Outbox!Refuse, Waiting
        <3> QED
            BY <3>3 DEF Outbox!Next
    <2> QED
        BY <2>5, <2>6
<1>4. CASE Drain \/ \E s \in Streams : Receive(s)
    <2>1. PICK s \in Streams : Take(s) /\ UNCHANGED <<handed, prod>>
        BY <1>4 DEF Drain, Receive, Typed
    <2>2. Decided' = Decided
        BY <2>1 DEF Decided
    <2> QED
        BY <2>1, <2>2, TakeKeepsLogs, OutboxStutter
<1>5. CASE FlushFull \/ FlushTick \/ FlushFinal
    BY <1>5, OutboxHandOver DEF FlushFull, FlushTick, FlushFinal, Typed
<1>6. CASE TimerFires \/ ObserveCancel \/ Drained \/ Cancel \/ UNCHANGED vars
    <2>1. UNCHANGED <<ch, batch, handed, prod>>
        BY <1>6 DEF TimerFires, ObserveCancel, Drained, Cancel, vars
    <2>2. Decided' = Decided /\ \A s \in Streams : Pending(s)' = Pending(s)
        BY <2>1 DEF Decided, Pending
    <2> QED
        BY <2>1, <2>2, OutboxStutter
<1> QED
    BY <1>1, <1>2, <1>3, <1>4, <1>5, <1>6 DEF Next, LoopStep

\* Every behaviour of the dispatcher is one of LossyOutbox: an item is accepted
\* or refused once, may be lost while it waits, and is otherwise handed over
\* once, in the order of acceptance (internal/usecase/fuju/dispatcher.go).
THEOREM ImplementsOutbox == Spec => OutboxSpec
BY OutboxInit, OutboxStep, TypedInit, TypedStep, PTL DEF Spec, OutboxSpec, Outbox!Spec
=============================================================================
