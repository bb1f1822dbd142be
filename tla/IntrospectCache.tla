-------------------------- MODULE IntrospectCache --------------------------
(***************************************************************************)
(* pkg/authcore: the introspection cache that AuthMiddleware asks about    *)
(* every access token, with AuthCore behind it.                            *)
(*                                                                         *)
(* A request reads the clock, then enters the mutex: a fresh entry answers *)
(* it, a call in flight for the token makes it wait, otherwise it becomes  *)
(* the leader of a new call.  A leader stores its answer in a second       *)
(* critical section and then closes the channel its followers wait on.     *)
(* Each critical section is one action; the clock is read outside it.      *)
(*                                                                         *)
(* A call is named by its leader.  The HTTP client ends a call by its      *)
(* timeout; the few instructions between its answer and close(call.done)   *)
(* are counted as part of it.                                              *)
(***************************************************************************)
EXTENDS Integers, FiniteSets

CONSTANTS
    Requests,     \* requests, each served once
    Tokens,
    Expiry,       \* `exp' of each token; 0 when AuthCore sends none
    TTL,          \* introspection cache TTL
    CallTimeout,  \* timeout of the HTTP client
    MaxTime,      \* bound: the clock stops there
    None

ASSUME IntrospectAssumption ==
    /\ None \notin Requests \cup Tokens \cup Nat
    /\ Expiry \in [Tokens -> Nat]
    /\ CallTimeout \in Nat /\ TTL \in Nat /\ CallTimeout < TTL
    /\ MaxTime \in Nat

VARIABLES
    clock,
    revoked,   \* AuthCore: when each token was revoked, or None
    items,     \* fetchedAt of each token's cache entry, or None
    inFlight,  \* the leader of each token's call, or None
    req,       \* each request: pc, token, `now', call it leads or waits for
    call       \* each leader's call: when it began, result, channel closed

vars == <<clock, revoked, items, inFlight, req, call>>

\* What AuthMiddleware does with the answer: next handler, 401, 503.
Verdict == {"accepted", "unauthorized", "unavailable"}
PC == {"idle", "enter", "call", "store", "close", "wait"} \cup Verdict

TypeOK ==
    /\ clock \in Nat
    /\ revoked \in [Tokens -> Nat \cup {None}]
    /\ items \in [Tokens -> Nat \cup {None}]
    /\ inFlight \in [Tokens -> Requests \cup {None}]
    /\ req \in [Requests -> [pc : PC, token : Tokens \cup {None}, now : Nat,
                             lead : Requests \cup {None}]]
    /\ call \in [Requests -> [began : Nat, result : Verdict, closed : BOOLEAN]]

Init ==
    /\ clock = 0
    /\ revoked = [t \in Tokens |-> None]
    /\ items = [t \in Tokens |-> None]
    /\ inFlight = [t \in Tokens |-> None]
    /\ req = [r \in Requests |->
                [pc |-> "idle", token |-> None, now |-> 0, lead |-> None]]
    /\ call = [r \in Requests |->
                 [began |-> 0, result |-> "unavailable", closed |-> FALSE]]

-----------------------------------------------------------------------------
(* AuthCore *)

\* AuthCore says `active' of a token neither revoked nor expired.
Active(t) == revoked[t] = None /\ (Expiry[t] = 0 \/ clock < Expiry[t])

Revoke(t) ==
    /\ revoked[t] = None
    /\ revoked' = [revoked EXCEPT ![t] = clock]
    /\ UNCHANGED <<clock, items, inFlight, req, call>>

-----------------------------------------------------------------------------
(* IntrospectCache.Introspect *)

\* Mutant: the session's own expiry ignored.
IsFreshByAge(t, now) == items[t] # None /\ now - items[t] < TTL

IsFresh(t, now) ==
    /\ items[t] # None
    /\ now - items[t] < TTL
    /\ Expiry[t] = 0 \/ now < Expiry[t]

Goto(r, to) == req' = [req EXCEPT ![r].pc = to]

\* now := c.now(), before the lock is taken.
Begin(r, t) ==
    /\ req[r].pc = "idle"
    /\ req' = [req EXCEPT ![r] = [pc |-> "enter", token |-> t, now |-> clock,
                                  lead |-> None]]
    /\ UNCHANGED <<clock, revoked, items, inFlight, call>>

Hit(r) ==
    /\ req[r].pc = "enter"
    /\ IsFresh(req[r].token, req[r].now)
    /\ Goto(r, "accepted")
    /\ UNCHANGED <<clock, revoked, items, inFlight, call>>

\* A stale entry is dropped on the way to the call.
Join(r) ==
    LET t == req[r].token IN
    /\ req[r].pc = "enter"
    /\ ~IsFresh(t, req[r].now)
    /\ inFlight[t] # None
    /\ items' = [items EXCEPT ![t] = None]
    /\ req' = [req EXCEPT ![r].pc = "wait", ![r].lead = inFlight[t]]
    /\ UNCHANGED <<clock, revoked, inFlight, call>>

\* Mutant: no look at the calls in flight.
LeadAlways(r) ==
    LET t == req[r].token IN
    /\ req[r].pc = "enter"
    /\ ~IsFresh(t, req[r].now)
    /\ items' = [items EXCEPT ![t] = None]
    /\ inFlight' = [inFlight EXCEPT ![t] = r]
    /\ req' = [req EXCEPT ![r].pc = "call", ![r].lead = r]
    /\ call' = [call EXCEPT ![r].began = clock]
    /\ UNCHANGED <<clock, revoked>>

Lead(r) ==
    LET t == req[r].token IN
    /\ req[r].pc = "enter"
    /\ ~IsFresh(t, req[r].now)
    /\ inFlight[t] = None
    /\ items' = [items EXCEPT ![t] = None]
    /\ inFlight' = [inFlight EXCEPT ![t] = r]
    /\ req' = [req EXCEPT ![r].pc = "call", ![r].lead = r]
    /\ call' = [call EXCEPT ![r].began = clock]
    /\ UNCHANGED <<clock, revoked>>

CallEnds(r, result) ==
    /\ req[r].pc = "call"
    /\ call' = [call EXCEPT ![r].result = result]
    /\ Goto(r, "store")
    /\ UNCHANGED <<clock, revoked, items, inFlight>>

AuthCoreAnswers(r) ==
    CallEnds(r, IF Active(req[r].token) THEN "accepted" ELSE "unauthorized")

\* Mutant: any failure taken for an inactive token.
CallFailsClosed(r) == CallEnds(r, "unauthorized")

\* 5xx, a malformed body, the timeout, or the leader's own client gone:
\* the followers are told the same.
CallFails(r) == CallEnds(r, "unavailable")

\* Mutant: the entry is dated when it is stored, not when it was asked for.
StoreDatedNow(r) ==
    LET t == req[r].token IN
    /\ req[r].pc = "store"
    /\ inFlight' = [inFlight EXCEPT ![t] = None]
    /\ items' = IF call[r].result = "accepted" THEN [items EXCEPT ![t] = clock]
                                               ELSE items
    /\ Goto(r, "close")
    /\ UNCHANGED <<clock, revoked, call>>

\* Only a session is kept: there are no negative entries.
Store(r) ==
    LET t == req[r].token IN
    /\ req[r].pc = "store"
    /\ inFlight' = [inFlight EXCEPT ![t] = None]
    /\ items' = IF call[r].result = "accepted"
                THEN [items EXCEPT ![t] = req[r].now] ELSE items
    /\ Goto(r, "close")
    /\ UNCHANGED <<clock, revoked, call>>

\* Mutant: an early return on an error leaves the channel open.
CloseOnSuccess(r) ==
    /\ req[r].pc = "close"
    /\ call' = [call EXCEPT ![r].closed = (call[r].result = "accepted")]
    /\ Goto(r, call[r].result)
    /\ UNCHANGED <<clock, revoked, items, inFlight>>

\* `began' is not read again.
Close(r) ==
    /\ req[r].pc = "close"
    /\ call' = [call EXCEPT ![r] = [began |-> 0, result |-> @.result, closed |-> TRUE]]
    /\ Goto(r, call[r].result)
    /\ UNCHANGED <<clock, revoked, items, inFlight>>

Wake(r) ==
    /\ req[r].pc = "wait"
    /\ call[req[r].lead].closed
    /\ Goto(r, call[req[r].lead].result)
    /\ UNCHANGED <<clock, revoked, items, inFlight, call>>

\* ctx.Done(): the follower's client is gone or its deadline has passed.
WaitCancelled(r) ==
    /\ req[r].pc = "wait"
    /\ Goto(r, "unavailable")
    /\ UNCHANGED <<clock, revoked, items, inFlight, call>>

-----------------------------------------------------------------------------
(* SweepExpired, run by the janitor; Invalidate has no caller. *)

\* Mutant: fresh and expired confused.
SweepFresh(now) ==
    /\ \E t \in Tokens : items[t] # None /\ ~IsFresh(t, now)
    /\ items' = [t \in Tokens |-> IF IsFresh(t, now) THEN None ELSE items[t]]
    /\ UNCHANGED <<clock, revoked, inFlight, req, call>>

\* `now' was read before the lock was taken.  A sweep that finds nothing
\* changes nothing.
SweepExpired(now) ==
    /\ \E t \in Tokens : items[t] # None /\ ~IsFresh(t, now)
    /\ items' = [t \in Tokens |-> IF IsFresh(t, now) THEN items[t] ELSE None]
    /\ UNCHANGED <<clock, revoked, inFlight, req, call>>

\* Time passes, but no call outlives its timeout.
Tick ==
    /\ clock < MaxTime
    /\ \A r \in Requests : req[r].pc \in {"call", "store", "close"}
                             => clock < call[r].began + CallTimeout
    /\ clock' = clock + 1
    /\ UNCHANGED <<revoked, items, inFlight, req, call>>

-----------------------------------------------------------------------------
Answer(r) == AuthCoreAnswers(r) \/ CallFails(r)
Serve(r) == Hit(r) \/ Join(r) \/ Lead(r) \/ Answer(r) \/ Store(r) \/ Close(r) \/ Wake(r)

Next ==
    \/ \E r \in Requests : \/ Serve(r) \/ WaitCancelled(r)
                           \/ \E t \in Tokens : Begin(r, t)
    \/ \E t \in Tokens : Revoke(t)
    \/ \E now \in 0..clock : SweepExpired(now)
    \/ Tick

Spec == Init /\ [][Next]_vars

\* A goroutine that can run does, and a call ends, by its timeout at the
\* latest; the janitor's ticker fires again and again.  No client is
\* assumed to go away (WaitCancelled is not fair).
FairSpec ==
    /\ Spec
    /\ \A r \in Requests : WF_vars(Serve(r))
    /\ WF_vars(SweepExpired(clock))

-----------------------------------------------------------------------------
\* A request that began TTL or more after its token was revoked is never
\* let through, be it by the cache, by its own call or by another's ("its
\* TTL sits below any reasonable revocation SLA"): neither a clock read
\* before the lock nor a call that was slow stretches the TTL.
RevocationWithinTTL ==
    \A r \in Requests :
      LET at == revoked[req[r].token] IN
      req[r].pc = "accepted" /\ at # None => req[r].now < at + TTL

\* A request that began after its token had expired is never let through,
\* except by joining a call that AuthCore has answered already: then for no
\* longer than a call may last.
ExpiryRespected ==
    \A r \in Requests :
      LET e == Expiry[req[r].token] IN
      req[r].pc = "accepted" /\ e # 0 =>
        IF req[r].lead \in {None, r} THEN req[r].now < e
                                     ELSE req[r].now < e + CallTimeout

\* AuthCore is never asked twice at a time about one token.
SingleFlight ==
    \A r, s \in Requests :
      /\ req[r].pc = "call" /\ req[s].pc = "call"
      /\ req[r].token = req[s].token
      => r = s

\* 401 is said only of a token that has ended: an outage, a slow call or a
\* cancelled leader never logs anybody out.
UnauthorizedMeansEnded ==
    \A r \in Requests : req[r].pc = "unauthorized" => ~Active(req[r].token)

\* Every request is answered: a follower is never left waiting for a channel
\* nobody closes.
EveryoneAnswered ==
    \A r \in Requests : req[r].pc # "idle" ~> req[r].pc \in Verdict

\* An entry that has expired is dropped though nobody asks for it again.
ExpiredSwept ==
    \A t \in Tokens :
      (items[t] # None /\ ~IsFresh(t, clock))
        ~> (items[t] = None \/ IsFresh(t, clock))
=============================================================================
