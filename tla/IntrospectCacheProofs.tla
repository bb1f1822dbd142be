----------------------- MODULE IntrospectCacheProofs -----------------------
(***************************************************************************)
(* Proofs about the introspection cache, for every set of requests and     *)
(* tokens, every expiry, and every TTL above the call timeout.             *)
(***************************************************************************)
EXTENDS IntrospectCache, TLAPS

Token(r) == req[r].token
InCall(r) == req[r].pc \in {"call", "store", "close"}

\* The token was not revoked, respectively had not expired, before `time'.
NotRevokedBefore(t, time) == revoked[t] # None => time <= revoked[t]
NotExpiredAt(t, time) == Expiry[t] # 0 => time < Expiry[t]

\* Nothing is dated in the future, and an entry is dated no later than the
\* end of its token.
EntriesDated ==
    /\ \A r \in Requests : req[r].now <= clock
    /\ \A t \in Tokens : items[t] # None =>
         items[t] <= clock /\ NotRevokedBefore(t, items[t])

\* inFlight and the requests agree on who leads the call for a token.
LeadersAgree ==
    /\ \A r \in Requests : req[r].pc # "idle" => Token(r) \in Tokens
    /\ \A r \in Requests : req[r].pc \in {"call", "store"} => inFlight[Token(r)] = r
    /\ \A t \in Tokens : inFlight[t] # None =>
         /\ req[inFlight[t]].pc \in {"call", "store"}
         /\ Token(inFlight[t]) = t

\* A call is younger than its timeout, and its answer was true when it was
\* given.
CallsTrue ==
    \A r \in Requests :
      /\ InCall(r) => /\ req[r].lead = r
                      /\ req[r].now <= call[r].began
                      /\ call[r].began <= clock
                      /\ clock <= call[r].began + CallTimeout
      /\ req[r].pc = "enter" => req[r].lead = None
      /\ req[r].pc \in {"idle", "enter", "call"} => call[r].result = "unavailable"
      /\ InCall(r) /\ call[r].result = "accepted" =>
           /\ NotRevokedBefore(Token(r), call[r].began)
           /\ NotExpiredAt(Token(r), call[r].began)
      /\ call[r].result = "unauthorized" => ~Active(Token(r))

\* What a follower will be told is still true enough of its own `now'.
WaitsTrue ==
    \A r \in Requests : req[r].pc = "wait" =>
      LET l == req[r].lead IN
      /\ l \in Requests /\ l # r
      /\ req[l].pc # "idle" /\ Token(l) = Token(r)
      /\ call[l].result = "accepted" =>
           /\ revoked[Token(r)] # None => req[r].now <= revoked[Token(r)] + CallTimeout
           /\ Expiry[Token(r)] # 0 => req[r].now < Expiry[Token(r)] + CallTimeout

CacheInv ==
    /\ TypeOK /\ EntriesDated /\ LeadersAgree /\ CallsTrue /\ WaitsTrue
    /\ RevocationWithinTTL /\ ExpiryRespected /\ UnauthorizedMeansEnded

\* The cache starts empty and nobody has been told anything.
LEMMA CacheInit == Init => CacheInv
  BY IntrospectAssumption
     DEF Init, CacheInv, TypeOK, EntriesDated, LeadersAgree, CallsTrue, WaitsTrue,
         RevocationWithinTTL, ExpiryRespected, UnauthorizedMeansEnded, PC, Verdict,
         InCall, Token, Active

\* Closing a channel keeps the results of all calls, and the other calls.
LEMMA CloseKeepsCalls ==
  ASSUME call \in [Requests -> [began : Nat, result : Verdict, closed : BOOLEAN]],
         NEW r \in Requests, Close(r)
  PROVE  /\ call' \in [Requests -> [began : Nat, result : Verdict, closed : BOOLEAN]]
         /\ \A q \in Requests : call'[q].result = call[q].result
         /\ \A q \in Requests : q # r => call'[q] = call[q]
  <1>1. call' = [call EXCEPT ![r] = [began |-> 0, result |-> call[r].result, closed |-> TRUE]]
    BY DEF Close
  <1>2. QED
    BY <1>1 DEF Verdict

\* Closing a channel keeps the invariant.
LEMMA CloseStep ==
  ASSUME CacheInv, NEW r \in Requests, Close(r)
  PROVE  CacheInv'
  <1>1. /\ req[r].pc = "close"
        /\ req' = [req EXCEPT ![r].pc = call[r].result]
        /\ UNCHANGED <<clock, revoked, items, inFlight>>
    BY DEF Close, Goto
  <1>2. /\ call' \in [Requests -> [began : Nat, result : Verdict, closed : BOOLEAN]]
        /\ \A q \in Requests : call'[q].result = call[q].result
        /\ \A q \in Requests : q # r => call'[q] = call[q]
    BY CloseKeepsCalls DEF CacheInv, TypeOK
  <1> USE IntrospectAssumption
      DEF CacheInv, TypeOK, InCall, Token, Active, NotRevokedBefore, NotExpiredAt,
          PC, Verdict
  <1>3. TypeOK'
    BY <1>1, <1>2
  <1>4. EntriesDated' /\ LeadersAgree'
    BY <1>1 DEF EntriesDated, LeadersAgree
  <1>5. CallsTrue' /\ WaitsTrue'
    BY <1>1, <1>2 DEF LeadersAgree, CallsTrue, WaitsTrue
  <1>6. RevocationWithinTTL' /\ ExpiryRespected' /\ UnauthorizedMeansEnded'
    BY <1>1 DEF LeadersAgree, EntriesDated, CallsTrue, WaitsTrue,
                RevocationWithinTTL, ExpiryRespected, UnauthorizedMeansEnded
  <1>7. QED
    BY <1>3, <1>4, <1>5, <1>6 DEF CacheInv

\* Every step keeps the invariant.  Each action touches the dates, the calls
\* and the verdicts together, so its case expands all parts of the invariant.
LEMMA CacheStep == CacheInv /\ [Next]_vars => CacheInv'
  <1> SUFFICES ASSUME CacheInv, [Next]_vars PROVE CacheInv'
    OBVIOUS
  <1> USE IntrospectAssumption
      DEF CacheInv, TypeOK, EntriesDated, LeadersAgree, CallsTrue, WaitsTrue,
          RevocationWithinTTL, ExpiryRespected, UnauthorizedMeansEnded, InCall,
          Token, Active, NotRevokedBefore, NotExpiredAt, PC, Verdict
  <1>1. CASE \E t \in Tokens : Revoke(t)
    BY <1>1 DEF Revoke
  <1>2. CASE \E r \in Requests, t \in Tokens : Begin(r, t)
    BY <1>2 DEF Begin
  <1>3. CASE \E r \in Requests : Hit(r)
    BY <1>3 DEF Hit, Goto, IsFresh
  <1>4. CASE \E r \in Requests : Join(r)
    BY <1>4 DEF Join
  <1>5. CASE \E r \in Requests : Lead(r)
    BY <1>5 DEF Lead
  <1>6. CASE \E r \in Requests : AuthCoreAnswers(r)
    BY <1>6 DEF AuthCoreAnswers, CallEnds, Goto
  <1>7. CASE \E r \in Requests : CallFails(r)
    BY <1>7 DEF CallFails, CallEnds, Goto
  <1>8. CASE \E r \in Requests : Store(r)
    BY <1>8 DEF Store, Goto
  <1>9. CASE \E r \in Requests : Close(r)
    BY <1>9, CloseStep
  <1>10. CASE \E r \in Requests : Wake(r)
    BY <1>10 DEF Wake, Goto
  <1>11. CASE \E r \in Requests : WaitCancelled(r)
    BY <1>11 DEF WaitCancelled, Goto
  <1>12. CASE \E now \in 0..clock : SweepExpired(now)
    BY <1>12 DEF SweepExpired
  <1>13. CASE Tick
    BY <1>13 DEF Tick
  <1>14. CASE UNCHANGED vars
    BY <1>14 DEF vars
  <1>15. QED
    BY <1>1, <1>2, <1>3, <1>4, <1>5, <1>6, <1>7, <1>8, <1>9, <1>10, <1>11, <1>12,
       <1>13, <1>14 DEF Next, Serve, Answer

-----------------------------------------------------------------------------
(* The theorems. *)

\* The invariant of the cache, its calls and its followers.
THEOREM CacheInvHolds == Spec => []CacheInv
  BY CacheInit, CacheStep, PTL DEF Spec

\* Every reachable state of cache, calls and requests is well typed.
THEOREM TypeCorrect == Spec => []TypeOK
  BY CacheInvHolds, PTL DEF CacheInv

\* The TTL bounds how long a revoked token is accepted, whichever way a
\* request gets its answer from Introspect.
THEOREM RevocationBounded == Spec => []RevocationWithinTTL
  BY CacheInvHolds, PTL DEF CacheInv

\* An expired token is refused, up to the length of a call that was joined.
THEOREM ExpiryBounded == Spec => []ExpiryRespected
  BY CacheInvHolds, PTL DEF CacheInv

\* Only a token that has ended is answered with 401.
THEOREM NoFalseLogout == Spec => []UnauthorizedMeansEnded
  BY CacheInvHolds, PTL DEF CacheInv

\* The mutex and inFlight leave one call per token at a time.
THEOREM OneCallPerToken == Spec => []SingleFlight
  <1>1. CacheInv => SingleFlight
    BY DEF CacheInv, LeadersAgree, SingleFlight, Token
  <1>2. QED
    BY <1>1, CacheInvHolds, PTL
=============================================================================
