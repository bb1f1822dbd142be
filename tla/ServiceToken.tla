---------------------------- MODULE ServiceToken ----------------------------
(***************************************************************************)
(* CachedServiceTokenSource: one service token, kept in memory and reused  *)
(* until the refresh lead before its expiry.  Every call holds the mutex   *)
(* from beginning to end, the call to AuthCore included.                   *)
(*                                                                         *)
(* AuthCore mints a token somewhere between the request and the answer;    *)
(* time passes on both sides.  A token is known by its scope, the          *)
(* expires_in of the answer and the instant up to which AuthCore vouches   *)
(* for it.  Without a positive expires_in that is not at all: the source   *)
(* takes the token to live for DefaultTTL, and AuthCore may not.           *)
(***************************************************************************)
EXTENDS Integers

CONSTANTS
    Callers,      \* calls of GetServiceToken, each made once
    Scopes,
    TTLs,         \* the expires_in AuthCore may answer
    DefaultTTL,   \* one hour
    Lead,         \* refreshLeadTime
    LastClock     \* bound: the clock stops there

ASSUME TokenAssumption ==
    /\ TTLs \subseteq Nat /\ DefaultTTL \in Nat \ {0}
    /\ Lead \in Nat \ {0} /\ LastClock \in Nat

VARIABLES
    clock,
    holder,   \* the call that holds mu, {} or {c}
    cache,    \* the token kept, {} or {[token, expiresAt]}
    call      \* the calls

tokenVars == <<clock, holder, cache, call>>

\* begun is the reading of the clock at the start of the call, got the token
\* it returned and at when; "hit" is the end of a call the cache answered.
NoCall == [stage |-> "idle", scope |-> {}, begun |-> 0, minted |-> {},
           got |-> {}, at |-> 0]

TokenInit ==
    /\ clock = 0
    /\ holder = {}
    /\ cache = {}
    /\ call = [c \in Callers |-> NoCall]

TTL(expiresIn) == IF expiresIn = 0 THEN DefaultTTL ELSE expiresIn

Fresh(scope) == {e \in cache : e.token.scope = scope /\ clock + Lead < e.expiresAt}

\* Lock, read the clock, and answer from the cache or begin to issue.
GetServiceToken(c) ==
    /\ call[c].stage = "idle" /\ holder = {}
    /\ \E scope \in Scopes :
          IF Fresh(scope) # {}
          THEN /\ call' = [call EXCEPT ![c].stage = "hit", ![c].scope = {scope},
                              ![c].got = {e.token : e \in Fresh(scope)},
                              ![c].at = clock]
               /\ UNCHANGED holder
          ELSE /\ call' = [call EXCEPT ![c].stage = "issue", ![c].scope = {scope},
                              ![c].begun = clock]
               /\ holder' = {c}
    /\ UNCHANGED <<clock, cache>>

Mint(c) ==
    /\ call[c].stage = "issue"
    /\ \E expiresIn \in TTLs, scope \in call[c].scope :
          call' = [call EXCEPT ![c].stage = "minted", ![c].minted =
                     {[scope |-> scope, expiresIn |-> expiresIn,
                       end |-> clock + expiresIn]}]
    /\ UNCHANGED <<clock, holder, cache>>

\* Mutant: the expiry is counted from the answer.
KeepFromAnswer(c) ==
    {[token |-> t, expiresAt |-> clock + TTL(t.expiresIn)] : t \in call[c].minted}

\* The expiry is counted from before the request.
Keep(c) ==
    {[token |-> t, expiresAt |-> call[c].begun + TTL(t.expiresIn)] : t \in call[c].minted}

Issued(c) ==
    /\ call[c].stage = "minted"
    /\ cache' = Keep(c)
    /\ call' = [call EXCEPT ![c].stage = "done", ![c].got = call[c].minted,
                            ![c].at = clock]
    /\ holder' = {}
    /\ UNCHANGED clock

\* A failure keeps the token there was; the caller gets none.
IssueFailed(c) ==
    /\ call[c].stage \in {"issue", "minted"}
    /\ call' = [call EXCEPT ![c].stage = "done", ![c].minted = {}]
    /\ holder' = {}
    /\ UNCHANGED <<clock, cache>>

Clock ==
    /\ clock < LastClock
    /\ clock' = clock + 1
    /\ UNCHANGED <<holder, cache, call>>

TokenNext ==
    \/ Clock
    \/ \E c \in Callers : \/ GetServiceToken(c) \/ Mint(c)
                          \/ Issued(c) \/ IssueFailed(c)

TokenSpec == TokenInit /\ [][TokenNext]_tokenVars

----------------------------------------------------------------------------
\* A token answered from the cache is for the scope asked for and, where
\* AuthCore has said how long it lives, really lives for longer than the
\* refresh lead, whatever time AuthCore took to answer when it was issued and
\* however expires_in and the lead compare (GetServiceToken).
HitHasLead ==
    \A c \in Callers : call[c].stage = "hit" =>
        \A t \in call[c].got :
            /\ {t.scope} = call[c].scope
            /\ t.expiresIn > 0 => t.end > call[c].at + Lead
=============================================================================
