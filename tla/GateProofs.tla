----------------------------- MODULE GateProofs -----------------------------
(***************************************************************************)
(* The ways in and out of the process, for any number of users, requests,  *)
(* tokens, badges, calls and scopes, and for every configuration: the      *)
(* badges and cookies behind the gate, the lead of a cached service token, *)
(* and the OGP worker and the connection pool.                             *)
(***************************************************************************)
EXTENDS Gate, ServiceToken, Lifecycle, TLAPS

-----------------------------------------------------------------------------
(* The gate *)

Pending == {"checked", "loaded", "target"}
GateStages == {"idle", "auth", "authed", "handler", "done"} \cup Pending
BadgeRow == [key : Keys \cup {Null}, priority : Int]

GateReq == [stage : GateStages, route : Routes \cup {"none"}, token : SUBSET Tokens,
            sub : Subs \cup {Null}, key : Keys \cup {Null}, target : Subs \cup {Null},
            id : BadgeIds \cup {Null}, priority : Int, status : Nat]

\* A cookie holds an issued token, and ends with it or with the fallback.
CookieSound(c) ==
    LET lives == c.token.exp - c.setAt >= Second IN
    /\ c.token \in Tokens
    /\ c.end = Null <=> ~lives /\ FallbackMaxAge < Second
    /\ c.end <= IF lives THEN c.token.exp ELSE c.setAt + FallbackMaxAge

\* Behind AuthMiddleware a request has a caller, behind AdminMiddleware it is
\* on an admin route, and past ensureAdmin its caller is an admin still, or
\* was when the flag was last withdrawn.  The status comes with the answer.
Guarded(r, q) ==
    /\ q \in GateReq
    /\ q.stage # "done" => q.status = 0
    /\ q.stage \in {"authed", "handler"} \cup Pending => q.sub \in Subs
    /\ q.stage = "handler" => q.route \in AdminRoutes
    /\ q.stage \in Pending => q.sub \in admins \/ r \in leftover[q.sub]

ReqGuarded(r) == Guarded(r, req[r])

GateInv ==
    /\ tick \in Nat
    /\ known \subseteq Subs /\ leftover \in [Subs -> SUBSET Reqs]
    /\ req \in [Reqs -> GateReq]
    /\ DOMAIN badges \subseteq BadgeIds /\ badges \in [DOMAIN badges -> BadgeRow]
    /\ \A c \in jar : CookieSound(c)
    /\ \A r \in Reqs : ReqGuarded(r)
    /\ KeyHasOneBadge

\* Whole seconds of a lifetime: not more than the lifetime, and none only
\* below a second.
LEMMA WholeSeconds ==
    ASSUME NEW age \in Nat, NEW s \in Nat \ {0}
    PROVE  /\ age \div s \in Nat /\ (age \div s = 0 <=> age < s)
           /\ (age \div s) * s \in Nat /\ (age \div s) * s <= age
           /\ age \div s # 0 => (age \div s) * s > 0
  OBVIOUS

\* The cookie Issue builds is sound.
LEMMA CookieBuilt ==
    ASSUME tick \in Nat, NEW t \in Tokens
    PROVE  CookieSound([token |-> t, setAt |-> tick, end |-> CookieEnd(MaxAge(t))])
  <1> DEFINE age == MaxAge(t)
             lives == t.exp - tick >= Second
             n == (age \div Second) * Second
  <1>1. t.exp \in Nat /\ Second \in Nat \ {0} /\ FallbackMaxAge \in Nat \ {0}
    BY GateAssumption
  <1>2. age \in Nat /\ age = IF lives THEN t.exp - tick ELSE FallbackMaxAge
    BY <1>1 DEF MaxAge
  <1>3. age < Second <=> ~lives /\ FallbackMaxAge < Second
    BY <1>1, <1>2
  <1> HIDE DEF age
  <1>4. /\ age \div Second = 0 <=> age < Second
        /\ n \in Nat /\ n <= age /\ (age \div Second # 0 => n > 0)
    BY <1>1, <1>2, WholeSeconds
  <1>5. CookieEnd(age) = IF age \div Second = 0 THEN Null ELSE tick + n
    BY DEF CookieEnd
  <1> HIDE DEF n
  <1>6. CookieEnd(age) = Null <=> age < Second
    BY <1>4, <1>5 DEF Null
  <1>7. CookieEnd(age) <= tick + age
    BY <1>2, <1>4, <1>5 DEF Null
  <1>8. CookieEnd(age) <= IF lives THEN t.exp ELSE tick + FallbackMaxAge
    <2>1. CASE lives
      BY <1>1, <1>2, <1>7, <2>1
    <2>2. CASE ~lives
      BY <1>2, <1>7, <2>2
    <2> QED
      BY <2>1, <2>2
  <1> QED
    BY <1>3, <1>6, <1>8 DEF CookieSound, age

\* The empty request, and what a client sends, are well typed.
LEMMA InputTyped ==
    /\ NoReq \in GateReq
    /\ \A route \in AdminRoutes \ {"list"} : \A i \in Input(route) :
         /\ i.key \in Keys \cup {Null} /\ i.id \in BadgeIds \cup {Null}
         /\ i.target \in Subs \cup {Null} /\ i.priority \in Int
  <1>1. NoReq \in GateReq
    BY DEF NoReq, GateReq, GateStages, Pending
  <1>2. \A route \in AdminRoutes \ {"list"} : \A i \in Input(route) :
         /\ i.key \in Keys \cup {Null} /\ i.id \in BadgeIds \cup {Null}
         /\ i.target \in Subs \cup {Null} /\ i.priority \in Int
    BY GateAssumption DEF Input, CreateInput, UpdateInput, GrantInput, RevokeInput, AdminRoutes
  <1> QED
    BY <1>1, <1>2

\* The start.
LEMMA GateInvInit == GateInit => GateInv
  <1> SUFFICES ASSUME GateInit PROVE GateInv
    OBVIOUS
  <1>1. /\ tick \in Nat /\ known \subseteq Subs /\ leftover \in [Subs -> SUBSET Reqs]
        /\ req \in [Reqs -> GateReq] /\ \A c \in jar : CookieSound(c)
    BY InputTyped DEF GateInit
  <1>2. DOMAIN badges \subseteq BadgeIds /\ badges \in [DOMAIN badges -> BadgeRow]
    BY GateAssumption DEF GateInit, BadgeIds, BadgeRow
  <1>3. \A r \in Reqs : ReqGuarded(r)
    BY InputTyped DEF GateInit, ReqGuarded, Guarded, NoReq, Pending
  <1>4. KeyHasOneBadge
    BY GateAssumption DEF GateInit, KeyHasOneBadge, NoReq
  <1> QED
    BY <1>1, <1>2, <1>3, <1>4 DEF GateInv

\* A step that only replaces one request keeps the invariant when the new
\* request is guarded and does not claim a creation.
LEMMA RequestServed ==
    ASSUME GateInv, NEW r \in Reqs, NEW q, req' = [req EXCEPT ![r] = q],
           Guarded(r, q), q.route # "create" \/ q.status # 201,
           UNCHANGED <<tick, badges, admins, leftover>>,
           known' \subseteq Subs, \A c \in jar' : CookieSound(c)
    PROVE  GateInv'
  <1>1. /\ req' \in [Reqs -> GateReq] /\ req'[r] = q
        /\ \A s \in Reqs : s # r => req'[s] = req[s]
    BY DEF GateInv, Guarded
  <1>2. \A s \in Reqs : ReqGuarded(s)'
    <2>1. ReqGuarded(r)'
      BY <1>1 DEF ReqGuarded, Guarded
    <2>2. ASSUME NEW s \in Reqs, s # r
          PROVE  ReqGuarded(s)'
      BY <1>1, <2>2 DEF ReqGuarded, Guarded, GateInv
    <2> QED
      BY <2>1, <2>2
  <1>3. KeyHasOneBadge'
    BY <1>1 DEF GateInv, KeyHasOneBadge
  <1> QED
    BY <1>1, <1>2, <1>3 DEF GateInv, CookieSound

\* A request that is answered is finished.
LEMMA Answered ==
    ASSUME GateInv, NEW r \in Reqs, NEW status \in Nat, Answer(r, status),
           UNCHANGED <<tick, badges, admins, leftover>>,
           known' \subseteq Subs, \A c \in jar' : CookieSound(c),
           req[r].route # "create" \/ status # 201
    PROVE  GateInv'
  <1> DEFINE q == [req[r] EXCEPT !.stage = "done", !.status = status]
  <1>1. req[r] \in GateReq
    BY DEF GateInv
  <1>2. /\ q \in GateReq /\ q.stage = "done" /\ q.route = req[r].route
        /\ q.status = status
    BY <1>1 DEF GateReq, GateStages
  <1>3. req' = [req EXCEPT ![r] = q]
    BY <1>1 DEF Answer, GateReq
  <1> HIDE DEF q
  <1>4. Guarded(r, q)
    BY <1>2 DEF Guarded, Pending
  <1> QED
    BY <1>2, <1>3, <1>4, RequestServed

\* A request that goes on keeps its caller and what it has passed.
LEMMA Moved ==
    ASSUME GateInv, NEW r \in Reqs, NEW q \in GateReq, req' = [req EXCEPT ![r] = q],
           UNCHANGED <<tick, badges, admins, leftover, jar>>, known' \subseteq Subs,
           req[r].stage \in Pending, q.stage \in Pending,
           q.sub = req[r].sub, q.route = req[r].route, q.status = req[r].status
    PROVE  GateInv'
  <1>1. /\ req[r].sub \in Subs /\ req[r].status = 0
        /\ req[r].sub \in admins \/ r \in leftover[req[r].sub]
        /\ \A c \in jar' : CookieSound(c)
    BY DEF GateInv, ReqGuarded, Guarded, Pending
  <1>2. Guarded(r, q) /\ q.status # 201
    BY <1>1 DEF Guarded, Pending
  <1> QED
    BY <1>1, <1>2, RequestServed

\* AuthMiddleware, the session handlers and HydrateUserMiddleware.
LEMMA EntryStep ==
    ASSUME GateInv, NEW r \in Reqs,
           Arrive(r) \/ Introspect(r) \/ Issue(r) \/ Logout(r) \/ Hydrate(r)
    PROVE  GateInv'
  <1>0. /\ req[r] \in GateReq /\ ReqGuarded(r) /\ tick \in Nat /\ known \subseteq Subs
        /\ \A c \in jar : CookieSound(c)
    BY DEF GateInv
  <1>1. CASE Arrive(r)
    <2>1. PICK route \in Routes \ {"logout"}, header \in {{}} \cup {{t} : t \in Tokens} :
            req' = [req EXCEPT ![r] =
                      IF ExtractAuthToken(header) = {}
                      THEN [NoReq EXCEPT !.stage = "done", !.route = route, !.status = 401]
                      ELSE [NoReq EXCEPT !.stage = "auth", !.route = route,
                                         !.token = ExtractAuthToken(header)]]
      BY <1>1 DEF Arrive
    <2> DEFINE found == ExtractAuthToken(header)
               n == 401
               q == IF found = {}
                    THEN [NoReq EXCEPT !.stage = "done", !.route = route, !.status = n]
                    ELSE [NoReq EXCEPT !.stage = "auth", !.route = route, !.token = found]
    <2>2. found \subseteq Tokens
      BY <1>0 DEF ExtractAuthToken, CookieSent, CookieSound
    <2>n. n \in Nat /\ n # 201
      OBVIOUS
    <2>4. req' = [req EXCEPT ![r] = q]
      BY <2>1
    <2> HIDE DEF found, n
    <2>3. /\ q \in GateReq /\ q.stage \in {"done", "auth"}
          /\ q.stage # "done" => q.status = 0
          /\ q.status # 201
      <3>1. NoReq \in GateReq /\ NoReq.status = 0 /\ route \in Routes
        BY InputTyped DEF NoReq
      <3>2. CASE found = {}
        BY <2>n, <3>1, <3>2 DEF GateReq, GateStages
      <3>3. CASE found # {}
        <4>1. q = [NoReq EXCEPT !.stage = "auth", !.route = route, !.token = found]
          BY <3>3
        <4> HIDE DEF q
        <4>2. q \in GateReq /\ q.stage = "auth" /\ q.status = NoReq.status
          BY <2>2, <3>1, <4>1 DEF GateReq, GateStages
        <4> QED
          BY <3>1, <4>2
      <3> QED
        BY <3>2, <3>3
    <2> HIDE DEF q
    <2>5. UNCHANGED <<tick, badges, admins, leftover, known, jar>>
      BY <1>1 DEF Arrive, tables
    <2>6. Guarded(r, q)
      BY <2>3 DEF Guarded, Pending
    <2> QED
      BY <1>0, <2>3, <2>4, <2>5, <2>6, RequestServed
  <1>2. CASE Introspect(r)
    <2>1. /\ UNCHANGED <<tick, badges, admins, leftover, known, jar>>
          /\ req[r].stage = "auth"
      BY <1>2 DEF Introspect, tables
    <2>2. ASSUME NEW t \in req[r].token,
                 req' = [req EXCEPT ![r].stage = "authed", ![r].sub = t.sub]
          PROVE  GateInv'
      <3> DEFINE q == [req[r] EXCEPT !.stage = "authed", !.sub = t.sub]
      <3>0. req[r] \in GateReq /\ req[r].status = 0
        BY <1>0, <2>1 DEF ReqGuarded, Guarded
      <3>1. t.sub \in Subs
        <4>1. req[r].token \subseteq Tokens
          BY <3>0 DEF GateReq
        <4> QED
          BY <2>2, <4>1, GateAssumption
      <3>2. q \in GateReq /\ q.stage = "authed" /\ q.sub \in Subs /\ q.status = 0
        BY <3>0, <3>1 DEF GateReq, GateStages
      <3>3. req' = [req EXCEPT ![r] = q]
        BY <2>2, <3>0 DEF GateReq
      <3> HIDE DEF q
      <3>4. Guarded(r, q) /\ q.status # 201
        BY <3>2 DEF Guarded, Pending
      <3> QED
        BY <1>0, <2>1, <3>3, <3>4, RequestServed
    <2>3. ASSUME NEW status \in {401, 503}, Answer(r, status)
          PROVE  GateInv'
      BY <1>0, <2>1, <2>3, Answered
    <2> QED
      BY <1>2, <2>2, <2>3 DEF Introspect
  <1>3. CASE Issue(r)
    <2>1. /\ UNCHANGED <<tick, badges, admins, leftover, known>> /\ Answer(r, 204)
          /\ jar' = {[token |-> t, setAt |-> tick, end |-> CookieEnd(MaxAge(t))] :
                       t \in req[r].token}
      BY <1>3 DEF Issue, tables
    <2>2. req[r].token \subseteq Tokens
      BY <1>0 DEF GateReq
    <2>3. \A c \in jar' : CookieSound(c)
      BY <1>0, <2>1, <2>2, CookieBuilt
    <2> QED
      BY <1>0, <2>1, <2>3, Answered
  <1>4. CASE Logout(r)
    <2> DEFINE n == 204
               q == [NoReq EXCEPT !.stage = "done", !.route = "logout", !.status = n]
    <2>2. /\ req' = [req EXCEPT ![r] = q] /\ jar' = {}
          /\ UNCHANGED <<tick, badges, admins, leftover, known>>
      BY <1>4 DEF Logout, tables
    <2>n. n \in Nat /\ n # 201
      OBVIOUS
    <2> HIDE DEF n
    <2>1. q \in GateReq /\ q.stage = "done" /\ q.status # 201
      <3>1. NoReq \in GateReq /\ "logout" \in Routes
        BY InputTyped DEF Routes
      <3> QED
        BY <2>n, <3>1 DEF GateReq, GateStages
    <2> HIDE DEF q
    <2>3. Guarded(r, q) /\ q.status # 201
      BY <2>1 DEF Guarded, Pending
    <2> QED
      BY <1>0, <2>2, <2>3, RequestServed
  <1>5. CASE Hydrate(r)
    <2>1. /\ UNCHANGED <<tick, badges, admins, leftover, jar>>
          /\ req[r].stage = "authed" /\ req[r].route \in AdminRoutes
          /\ known' = known \cup {req[r].sub}
          /\ Advance(r, "handler") \/ Answer(r, 403)
      BY <1>5 DEF Hydrate
    <2>2. known' \subseteq Subs /\ req[r].sub \in Subs /\ req[r].status = 0
      BY <1>0, <2>1 DEF ReqGuarded, Guarded
    <2>3. CASE Advance(r, "handler")
      <3> DEFINE q == [req[r] EXCEPT !.stage = "handler"]
      <3>0. req[r] \in GateReq
        BY <1>0
      <3>1. /\ q \in GateReq /\ q.stage = "handler" /\ q.sub \in Subs /\ q.status = 0
            /\ q.route \in AdminRoutes
        BY <2>1, <2>2, <3>0 DEF GateReq, GateStages
      <3>2. req' = [req EXCEPT ![r] = q]
        BY <2>3 DEF Advance
      <3> HIDE DEF q
      <3>3. Guarded(r, q) /\ q.status # 201
        BY <3>1 DEF Guarded, Pending
      <3> QED
        BY <1>0, <2>1, <2>2, <3>2, <3>3, RequestServed
    <2>4. CASE Answer(r, 403)
      BY <1>0, <2>1, <2>2, <2>4, Answered
    <2> QED
      BY <2>1, <2>3, <2>4
  <1> QED
    BY <1>1, <1>2, <1>3, <1>4, <1>5

\* The handlers that change no badge.
LEMMA HandlerStep ==
    ASSUME GateInv, NEW r \in Reqs,
           \/ ListBadges(r) \/ BadRequest(r) \/ EnsureAdmin(r) \/ Invalid(r)
           \/ CreateCheck(r) \/ UpdateLoad(r) \/ GrantLoadBadge(r) \/ GrantLoadUser(r)
           \/ GrantBadge(r) \/ RevokeBadge(r) \/ Fail(r)
    PROVE  GateInv'
  <1>0. /\ req[r] \in GateReq /\ ReqGuarded(r) /\ known \subseteq Subs
        /\ \A c \in jar : CookieSound(c)
        /\ DOMAIN badges \subseteq BadgeIds /\ badges \in [DOMAIN badges -> BadgeRow]
    BY DEF GateInv
  <1>1. /\ UNCHANGED <<tick, badges, admins, leftover, known, jar>>
    BY DEF ListBadges, BadRequest, EnsureAdmin, Invalid, CreateCheck, UpdateLoad,
           GrantLoadBadge, GrantLoadUser, GrantBadge, RevokeBadge, Fail, tables
  <1>2. ASSUME NEW status \in Nat \ {201}, Answer(r, status)
        PROVE  GateInv'
    BY <1>0, <1>1, <1>2, Answered
  <1>3. ASSUME NEW stage \in Pending, Advance(r, stage), req[r].stage \in Pending
        PROVE  GateInv'
    <2> DEFINE q == [req[r] EXCEPT !.stage = stage]
    <2>1. /\ q \in GateReq /\ q.stage = stage /\ q.sub = req[r].sub
          /\ q.route = req[r].route /\ q.status = req[r].status
      BY <1>0 DEF GateReq, GateStages
    <2>2. req' = [req EXCEPT ![r] = q]
      BY <1>3 DEF Advance
    <2> HIDE DEF q
    <2> QED
      BY <1>0, <1>1, <1>3, <2>1, <2>2, Moved
  <1>4. CASE ListBadges(r) \/ BadRequest(r) \/ Invalid(r) \/ RevokeBadge(r) \/ Fail(r)
    BY <1>2, <1>4 DEF ListBadges, BadRequest, Invalid, RevokeBadge, Fail
  <1>5. CASE GrantBadge(r)
    <2>1. Answer(r, 201) /\ req[r].route # "create"
      BY <1>5 DEF GrantBadge, OnRoute
    <2> QED
      BY <1>0, <1>1, <2>1, Answered
  <1>6. CASE CreateCheck(r)
    BY <1>2, <1>3, <1>6 DEF CreateCheck, OnRoute, Pending
  <1>7. CASE GrantLoadUser(r)
    BY <1>2, <1>3, <1>7 DEF GrantLoadUser, OnRoute, Pending
  <1>8. CASE UpdateLoad(r)
    <2>1. CASE Answer(r, 404)
      BY <1>2, <2>1
    <2>2. CASE /\ req[r].id \in DOMAIN badges
               /\ req' = [req EXCEPT ![r].stage = "loaded", ![r].key = badges[req[r].id].key]
      <3> DEFINE k == badges[req[r].id].key
                 q == [req[r] EXCEPT !.stage = "loaded", !.key = k]
      <3>1. k \in Keys \cup {Null}
        BY <1>0, <2>2 DEF BadgeRow
      <3> HIDE DEF k
      <3>2. /\ q \in GateReq /\ q.stage = "loaded" /\ q.sub = req[r].sub
            /\ q.route = req[r].route /\ q.status = req[r].status
        BY <1>0, <3>1 DEF GateReq, GateStages, Pending
      <3>3. req' = [req EXCEPT ![r] = q]
        BY <1>0, <2>2 DEF GateReq, k
      <3>4. req[r].stage = "checked"
        BY <1>8 DEF UpdateLoad, OnRoute
      <3> HIDE DEF q
      <3> QED
        BY <1>0, <1>1, <3>2, <3>3, <3>4, Moved DEF Pending
    <2> QED
      BY <1>8, <2>1, <2>2 DEF UpdateLoad
  <1>9. CASE GrantLoadBadge(r)
    <2> DEFINE found == BadgeByKey(badges, req[r].key)
               d == CHOOSE b \in found : TRUE
    <2>1. CASE Answer(r, 404)
      BY <1>2, <2>1
    <2>2. CASE found # {} /\ req' = [req EXCEPT ![r].stage = "loaded", ![r].id = d]
      <3> DEFINE q == [req[r] EXCEPT !.stage = "loaded", !.id = d]
      <3>1. d \in BadgeIds
        <4>1. d \in found
          BY <2>2
        <4>2. found \subseteq DOMAIN badges
          BY DEF BadgeByKey
        <4> QED
          BY <1>0, <4>1, <4>2
      <3> HIDE DEF d
      <3>2. /\ q \in GateReq /\ q.stage = "loaded" /\ q.sub = req[r].sub
            /\ q.route = req[r].route /\ q.status = req[r].status
        BY <1>0, <3>1 DEF GateReq, GateStages, Pending
      <3>3. req' = [req EXCEPT ![r] = q]
        BY <1>0, <2>2 DEF GateReq
      <3>4. req[r].stage = "checked"
        BY <1>9 DEF GrantLoadBadge, OnRoute
      <3> HIDE DEF q
      <3> QED
        BY <1>0, <1>1, <3>2, <3>3, <3>4, Moved DEF Pending
    <2> QED
      BY <1>9, <2>1, <2>2 DEF GrantLoadBadge
  <1>10. CASE EnsureAdmin(r)
    <2>1. CASE Answer(r, 403)
      BY <1>2, <2>1
    <2>2. CASE /\ req[r].sub \in admins
               /\ \E i \in Input(req[r].route) :
                    req' = [req EXCEPT ![r].stage = "checked", ![r].key = i.key, ![r].id = i.id,
                                       ![r].target = i.target, ![r].priority = i.priority]
      <3>1. PICK i \in Input(req[r].route) :
              req' = [req EXCEPT ![r].stage = "checked", ![r].key = i.key, ![r].id = i.id,
                                 ![r].target = i.target, ![r].priority = i.priority]
        BY <2>2
      <3> DEFINE q == [req[r] EXCEPT !.stage = "checked", !.key = i.key, !.id = i.id,
                                     !.target = i.target, !.priority = i.priority]
      <3>2. /\ req[r].route \in AdminRoutes \ {"list"} /\ req[r].sub \in Subs
            /\ req[r].status = 0
        BY <1>0, <1>10 DEF EnsureAdmin, ReqGuarded, Guarded
      <3>3. /\ i.key \in Keys \cup {Null} /\ i.id \in BadgeIds \cup {Null}
            /\ i.target \in Subs \cup {Null} /\ i.priority \in Int
        BY <3>2, InputTyped
      <3>4. /\ q \in GateReq /\ q.stage = "checked" /\ q.sub = req[r].sub
            /\ q.status = 0
        BY <1>0, <3>2, <3>3 DEF GateReq, GateStages, Pending
      <3>5. req' = [req EXCEPT ![r] = q]
        BY <1>0, <3>1 DEF GateReq
      <3> HIDE DEF q
      <3>6. Guarded(r, q) /\ q.status # 201
        BY <2>2, <3>2, <3>4 DEF Guarded, Pending
      <3> QED
        BY <1>0, <1>1, <3>5, <3>6, RequestServed
    <2> QED
      BY <1>10, <2>1, <2>2 DEF EnsureAdmin, IsAdmin
  <1> QED
    BY <1>4, <1>5, <1>6, <1>7, <1>8, <1>9, <1>10

\* A row written keeps the keys apart and the created badges in place.
LEMMA BadgeStep ==
    ASSUME GateInv, NEW r \in Reqs, CreateBadge(r) \/ UpdateBadge(r)
    PROVE  GateInv'
  <1>0. /\ req[r] \in GateReq /\ ReqGuarded(r) /\ known \subseteq Subs
        /\ \A c \in jar : CookieSound(c) /\ req \in [Reqs -> GateReq]
        /\ DOMAIN badges \subseteq BadgeIds /\ badges \in [DOMAIN badges -> BadgeRow]
        /\ KeyHasOneBadge
    BY DEF GateInv
  <1>1. UNCHANGED <<tick, admins, leftover, known, jar>>
    BY DEF CreateBadge, UpdateBadge
  <1>2. ASSUME badges' \in [DOMAIN badges' -> BadgeRow], DOMAIN badges \subseteq DOMAIN badges',
               DOMAIN badges' \subseteq BadgeIds,
               \A b \in DOMAIN badges : badges'[b].key = badges[b].key,
               \A a, b \in DOMAIN badges' : badges'[a].key = badges'[b].key => a = b,
               NEW q \in GateReq, req' = [req EXCEPT ![r] = q], q.stage = "done",
               q.route = "create" /\ q.status = 201
                 => q.id \in DOMAIN badges' /\ badges'[q.id].key = q.key
        PROVE  GateInv'
    <2>1. /\ req' \in [Reqs -> GateReq] /\ req'[r] = q
          /\ \A s \in Reqs : s # r => req'[s] = req[s]
      <3>1. req \in [Reqs -> GateReq] /\ q \in GateReq
        BY <1>2 DEF GateInv
      <3> QED
        BY <1>2, <3>1
    <2>2. \A s \in Reqs : ReqGuarded(s)'
      <3>1. ReqGuarded(r)'
        <4>1. req'[r] \in GateReq /\ req'[r].stage = "done"
          BY <1>2, <2>1
        <4> QED
          BY <4>1 DEF ReqGuarded, Guarded, Pending
      <3>2. ASSUME NEW s \in Reqs, s # r
            PROVE  ReqGuarded(s)'
        BY <1>1, <2>1, <3>2 DEF ReqGuarded, Guarded, GateInv
      <3> QED
        BY <3>1, <3>2
    <2>3. ASSUME NEW s \in Reqs, req'[s].route = "create", req'[s].status = 201
          PROVE  req'[s].id \in DOMAIN badges' /\ badges'[req'[s].id].key = req'[s].key
      <3>1. CASE s = r
        BY <1>2, <2>1, <2>3, <3>1
      <3>2. CASE s # r
        <4>1. req[s].id \in DOMAIN badges /\ badges[req[s].id].key = req[s].key
          BY <1>0, <2>1, <2>3, <3>2 DEF KeyHasOneBadge
        <4> QED
          BY <1>2, <2>1, <3>2, <4>1
      <3> QED
        BY <3>1, <3>2
    <2>4. KeyHasOneBadge'
      BY <1>2, <2>3 DEF KeyHasOneBadge
    <2> QED
      BY <1>1, <1>2, <2>1, <2>2, <2>4 DEF GateInv, CookieSound
  <1>3. CASE CreateBadge(r)
    <2> DEFINE new == [key |-> req[r].key, priority |-> req[r].priority]
    <2>1. /\ badges' = BadgeCreate(badges, r, req[r].key, req[r].priority)
          /\ IF badges' = badges THEN Answer(r, 409)
             ELSE req' = [req EXCEPT ![r].stage = "done", ![r].status = 201, ![r].id = r]
      BY <1>3 DEF CreateBadge
    <2>2. CASE badges' = badges
      <3>1. Answer(r, 409)
        BY <2>1, <2>2
      <3> QED
        BY <1>0, <1>1, <2>2, <3>1, Answered
    <2>3. CASE badges' # badges
      <3>1. BadgeByKey(badges, req[r].key) = {} /\ badges' = Inserted(badges, r, new)
        BY <2>1, <2>3 DEF BadgeCreate
      <3>2. r \notin DOMAIN badges
        BY <1>0, <2>3, <3>1 DEF Inserted
      <3>3. /\ DOMAIN badges' = DOMAIN badges \cup {r} /\ badges'[r] = new
            /\ \A b \in DOMAIN badges : badges'[b] = badges[b]
        BY <3>1, <3>2 DEF Inserted
      <3>4. new.key = req[r].key
        OBVIOUS
      <3> DEFINE n == 201
                 q == [req[r] EXCEPT !.stage = "done", !.status = n, !.id = r]
      <3>0. req[r] \in GateReq /\ r \in BadgeIds
        BY <1>0 DEF BadgeIds
      <3>5. req' = [req EXCEPT ![r] = q]
        BY <2>1, <2>3, <3>0 DEF GateReq
      <3>n. n \in Nat
        OBVIOUS
      <3> HIDE DEF n
      <3>6. /\ q \in GateReq /\ q.stage = "done" /\ q.id = r /\ q.key = req[r].key
        BY <3>0, <3>n DEF GateReq, GateStages
      <3>7. new \in BadgeRow
        BY <1>0 DEF BadgeRow, GateReq
      <3> HIDE DEF q, new
      <3>8. badges' \in [DOMAIN badges' -> BadgeRow]
        BY <1>0, <3>1, <3>3, <3>7 DEF Inserted
      <3>9. \A a, b \in DOMAIN badges' : badges'[a].key = badges'[b].key => a = b
        BY <1>0, <3>1, <3>3, <3>4 DEF KeyHasOneBadge, BadgeByKey
      <3>10. DOMAIN badges' \subseteq BadgeIds
        BY <1>0, <3>3 DEF BadgeIds
      <3> QED
        BY <1>2, <3>3, <3>4, <3>5, <3>6, <3>8, <3>9, <3>10
    <2> QED
      BY <2>2, <2>3
  <1>4. CASE UpdateBadge(r)
    <2>1. /\ badges' = BadgeUpdate(badges, req[r].id, req[r].priority) /\ Answer(r, 200)
      BY <1>4 DEF UpdateBadge
    <2>2. DOMAIN badges' = DOMAIN badges
      BY <2>1 DEF BadgeUpdate
    <2>3. ASSUME NEW b \in DOMAIN badges
          PROVE  badges'[b] \in BadgeRow /\ badges'[b].key = badges[b].key
      <3>1. badges[b] \in BadgeRow /\ req[r].priority \in Int
        BY <1>0 DEF GateReq
      <3>2. badges'[b] = IF b = req[r].id THEN [badges[b] EXCEPT !.priority = req[r].priority]
                                          ELSE badges[b]
        BY <2>1 DEF BadgeUpdate
      <3> QED
        BY <3>1, <3>2 DEF BadgeRow
    <2>4. badges' \in [DOMAIN badges' -> BadgeRow]
      BY <2>1, <2>2, <2>3 DEF BadgeUpdate
    <2> DEFINE n == 200
               q == [req[r] EXCEPT !.stage = "done", !.status = n]
    <2>0. req[r] \in GateReq /\ n \in Nat /\ n # 201
      BY <1>0
    <2>6. req' = [req EXCEPT ![r] = q]
      BY <2>1 DEF Answer
    <2> HIDE DEF n
    <2>5. q \in GateReq /\ q.stage = "done" /\ q.status # 201
      BY <2>0 DEF GateReq, GateStages
    <2>7. \A a, b \in DOMAIN badges' : badges'[a].key = badges'[b].key => a = b
      BY <1>0, <2>2, <2>3 DEF KeyHasOneBadge
    <2> HIDE DEF q
    <2>8. \A b \in DOMAIN badges : badges'[b].key = badges[b].key
      BY <2>3
    <2>9. /\ DOMAIN badges \subseteq DOMAIN badges' /\ DOMAIN badges' \subseteq BadgeIds
          /\ q.route = "create" /\ q.status = 201
               => q.id \in DOMAIN badges' /\ badges'[q.id].key = q.key
      BY <1>0, <2>2, <2>5
    <2> QED
      BY <1>2, <2>4, <2>5, <2>6, <2>7, <2>8, <2>9
  <1> QED
    BY <1>3, <1>4

\* An operator who withdraws a flag notes who is past the check by then.
LEMMA SetAdminStep ==
    ASSUME GateInv, SetAdmin
    PROVE  GateInv'
  <1>1. PICK s \in known :
          /\ admins' = IF s \in admins THEN admins \ {s} ELSE admins \cup {s}
          /\ leftover' = [leftover EXCEPT ![s] = IF s \in admins THEN PastCheck(s) ELSE {}]
          /\ UNCHANGED <<tick, tables, jar, req>>
    BY DEF SetAdmin
  <1>2. UNCHANGED <<tick, known, badges, jar, req>>
    BY <1>1 DEF tables
  <1>3. leftover \in [Subs -> SUBSET Reqs] /\ s \in Subs /\ PastCheck(s) \subseteq Reqs
    BY <1>1 DEF GateInv, PastCheck
  <1>4. /\ leftover' \in [Subs -> SUBSET Reqs]
        /\ leftover'[s] = IF s \in admins THEN PastCheck(s) ELSE {}
        /\ \A u \in Subs : u # s => leftover'[u] = leftover[u]
    BY <1>1, <1>3
  <1>5. ASSUME NEW r \in Reqs
        PROVE  ReqGuarded(r)'
    <2>1. ReqGuarded(r)
      BY DEF GateInv
    <2>2. CASE req[r].stage \notin Pending
      BY <1>2, <2>1, <2>2 DEF ReqGuarded, Guarded
    <2>3. CASE req[r].stage \in Pending
      <3>1. /\ req[r].sub \in Subs
            /\ req[r].sub \in admins \/ r \in leftover[req[r].sub]
        BY <2>1, <2>3 DEF ReqGuarded, Guarded
      <3>2. req[r].sub \in admins' \/ r \in leftover'[req[r].sub]
        BY <1>1, <1>4, <2>3, <3>1 DEF PastCheck, Pending
      <3> QED
        BY <1>2, <2>1, <3>2 DEF ReqGuarded, Guarded
    <2> QED
      BY <2>2, <2>3
  <1>6. KeyHasOneBadge'
    BY <1>2 DEF GateInv, KeyHasOneBadge
  <1> QED
    BY <1>2, <1>4, <1>5, <1>6 DEF GateInv, CookieSound

\* The clock moves nothing but itself.
LEMMA GateTickStep ==
    ASSUME GateInv, Tick \/ UNCHANGED gateVars
    PROVE  GateInv'
  <1>1. tick' \in Nat
    BY DEF GateInv, Tick, gateVars
  <1>2. UNCHANGED <<known, badges, jar, req, admins, leftover>>
    BY DEF Tick, tables, gateVars
  <1> QED
    BY <1>1, <1>2 DEF GateInv, CookieSound, ReqGuarded, Guarded, KeyHasOneBadge

\* Every step.
LEMMA GateInvStep == GateInv /\ [GateNext]_gateVars => GateInv'
  <1> SUFFICES ASSUME GateInv, [GateNext]_gateVars PROVE GateInv'
    OBVIOUS
  <1>1. CASE SetAdmin
    BY <1>1, SetAdminStep
  <1>2. CASE Tick \/ UNCHANGED gateVars
    BY <1>2, GateTickStep
  <1>3. ASSUME NEW r \in Reqs, Serve(r)
        PROVE  GateInv'
    BY <1>3, EntryStep, HandlerStep, BadgeStep DEF Serve
  <1> QED
    BY <1>1, <1>2, <1>3 DEF GateNext

\* The step that changes a badge table is that of one request, which is past
\* ensureAdmin; no other request moves in it.
LEMMA BadgesChange ==
    ASSUME GateInv, [GateNext]_gateVars, <<badges, grants>>' # <<badges, grants>>,
           NEW r \in Reqs, req'[r] # req[r]
    PROVE  req[r].stage \in Pending
  <1>1. ~ (SetAdmin \/ Tick \/ UNCHANGED gateVars)
    BY DEF SetAdmin, Tick, tables, gateVars
  <1>2. PICK s \in Reqs : Serve(s)
    BY <1>1 DEF GateNext
  <1>3. CreateBadge(s) \/ UpdateBadge(s) \/ GrantBadge(s) \/ RevokeBadge(s)
    BY <1>2 DEF Serve, Arrive, Introspect, Issue, Logout, Hydrate, ListBadges, BadRequest,
                EnsureAdmin, Invalid, CreateCheck, UpdateLoad, GrantLoadBadge,
                GrantLoadUser, Fail, tables
  <1>4. req[s].stage \in Pending
    BY <1>3 DEF CreateBadge, UpdateBadge, GrantBadge, RevokeBadge, OnRoute, Pending
  <1>5. \A u \in Reqs : u # s => req'[u] = req[u]
    BY <1>3 DEF CreateBadge, UpdateBadge, GrantBadge, RevokeBadge, Answer, GateInv
  <1> QED
    BY <1>4, <1>5

\* The requests, cookies and badges stay as GateInv says.
THEOREM GateInvHolds == GateSpec => []GateInv
  BY GateInvInit, GateInvStep, PTL DEF GateSpec

\* Whoever races to create a key, one badge has it, the one that was answered
\* 201 for it, and no update takes it away.
THEOREM OneBadgePerKey == GateSpec => []KeyHasOneBadge
  <1>1. GateInv => KeyHasOneBadge
    BY DEF GateInv
  <1> QED
    BY <1>1, GateInvHolds, PTL

\* The session cookie ends by its token or by the fallback, for every fallback
\* that Validate accepts; only a fallback below a second leaves it without end.
THEOREM CookiesEnd == GateSpec => []CookieBounded
  <1>1. GateInv => CookieBounded
    BY DEF GateInv, CookieBounded, CookieSound
  <1> QED
    BY <1>1, GateInvHolds, PTL

\* After is_admin is withdrawn, only requests that had passed ensureAdmin by
\* then still change the badge tables.
THEOREM WithdrawnAdminsStop == GateSpec => WithdrawalStops
  <1>1. GateInv /\ [GateNext]_gateVars =>
          [\A r \in Reqs :
             /\ <<badges, grants>>' # <<badges, grants>>
             /\ req'[r] # req[r]
             /\ req[r].sub \notin admins
             => r \in leftover[req[r].sub]]_gateVars
    <2> SUFFICES ASSUME GateInv, [GateNext]_gateVars, NEW r \in Reqs,
                        <<badges, grants>>' # <<badges, grants>>,
                        req'[r] # req[r], req[r].sub \notin admins
                 PROVE  r \in leftover[req[r].sub]
      OBVIOUS
    <2>1. req[r].stage \in Pending
      BY BadgesChange
    <2>2. ReqGuarded(r)
      BY DEF GateInv
    <2> QED
      BY <2>1, <2>2 DEF ReqGuarded, Guarded
  <1> QED
    BY <1>1, GateInvHolds, PTL DEF GateSpec, WithdrawalStops

-----------------------------------------------------------------------------
(* The service token *)

Stages == {"idle", "issue", "minted", "done", "hit"}
Token == [scope : Scopes, expiresIn : Nat, end : Nat]

\* An entry is dated no later than its token really ends, if that was said.
EntrySound(e) ==
    /\ e.token \in Token /\ e.expiresAt \in Nat
    /\ e.token.expiresIn > 0 => e.expiresAt <= e.token.end

Call == [stage : Stages, scope : SUBSET Scopes, begun : Nat, minted : SUBSET Token,
         got : SUBSET Token, at : Nat]

\* What a call has read of the clock is past, a token minted for it lives at
\* least as long as Keep will say, and what came from the cache had its lead,
\* wherever AuthCore has said how long the token lives.
CallSound(q, now) ==
    /\ q.begun <= now
    /\ q.stage = "idle" => q.minted = {}
    /\ \A t \in q.minted : t.expiresIn > 0 => q.begun + TTL(t.expiresIn) <= t.end
    /\ q.stage = "hit" => \A t \in q.got :
         {t.scope} = q.scope /\ (t.expiresIn > 0 => t.end > q.at + Lead)

TokenInv ==
    /\ clock \in Nat
    /\ \A e \in cache : EntrySound(e)
    /\ call \in [Callers -> Call]
    /\ \A c \in Callers : CallSound(call[c], clock)

LEMMA TTLNat == \A n \in Nat : TTL(n) \in Nat
BY TokenAssumption DEF TTL

LEMMA TokenInvInit == TokenInit => TokenInv
BY DEF TokenInit, TokenInv, NoCall, CallSound, Call, Stages

\* A step that only replaces one call keeps the invariant of the others.
LEMMA OneCallReplaced ==
    ASSUME TokenInv, NEW c \in Callers, NEW q \in Call, CallSound(q, clock),
           call' = [call EXCEPT ![c] = q], clock' = clock,
           \A e \in cache' : EntrySound(e)
    PROVE  TokenInv'
BY DEF TokenInv

LEMMA TokenInvStep == TokenInv /\ [TokenNext]_tokenVars => TokenInv'
<1> SUFFICES ASSUME TokenInv, [TokenNext]_tokenVars PROVE TokenInv'
    OBVIOUS
<1>1. ASSUME NEW c \in Callers, GetServiceToken(c) PROVE TokenInv'
    <2>0. call[c] \in Call /\ CallSound(call[c], clock) /\ clock \in Nat
          /\ \A e \in cache : EntrySound(e)
        BY DEF TokenInv
    <2>1. PICK scope \in Scopes :
            IF Fresh(scope) # {}
            THEN call' = [call EXCEPT ![c].stage = "hit", ![c].scope = {scope},
                              ![c].got = {e.token : e \in Fresh(scope)},
                              ![c].at = clock]
            ELSE call' = [call EXCEPT ![c].stage = "issue", ![c].scope = {scope},
                              ![c].begun = clock]
        BY <1>1 DEF GetServiceToken
    <2>2. clock' = clock /\ cache' = cache /\ call[c].stage = "idle"
        BY <1>1 DEF GetServiceToken
    <2>3. CASE Fresh(scope) # {}
        <3> DEFINE got == {e.token : e \in Fresh(scope)}
                   q == [call[c] EXCEPT !.stage = "hit", !.scope = {scope},
                                        !.got = got, !.at = clock]
        <3>1. got \subseteq Token
            BY <2>0 DEF Fresh, EntrySound
        <3>2. \A t \in got : {t.scope} = {scope} /\ (t.expiresIn > 0 => t.end > clock + Lead)
            BY <2>0, TokenAssumption DEF Fresh, EntrySound, Token
        <3>3. call' = [call EXCEPT ![c] = q]
            BY <2>1, <2>3 DEF TokenInv
        <3> HIDE DEF got
        <3>4. q \in Call
            BY <2>0, <3>1 DEF Call, Stages
        <3>5. /\ q.stage = "hit" /\ q.scope = {scope} /\ q.got = got /\ q.at = clock
              /\ q.begun = call[c].begun /\ q.minted = call[c].minted
            BY <2>0 DEF Call
        <3>6. CallSound(q, clock)
            BY <2>0, <3>2, <3>5 DEF CallSound
        <3> HIDE DEF q
        <3> QED
            BY <2>0, <2>2, <3>3, <3>4, <3>6, OneCallReplaced
    <2>4. CASE Fresh(scope) = {}
        <3> DEFINE q == [call[c] EXCEPT !.stage = "issue", !.scope = {scope}, !.begun = clock]
        <3>1. call' = [call EXCEPT ![c] = q]
            BY <2>1, <2>4 DEF TokenInv
        <3>2. q \in Call
            BY <2>0 DEF Call, Stages
        <3>3. q.stage = "issue" /\ q.begun = clock /\ q.minted = call[c].minted
            BY <2>0 DEF Call
        <3>4. \A t \in q.minted : t.expiresIn > 0 => q.begun + TTL(t.expiresIn) <= t.end
            BY <2>0, <2>2, <3>3 DEF CallSound
        <3>5. CallSound(q, clock)
            BY <2>0, <3>3, <3>4 DEF CallSound
        <3> HIDE DEF q
        <3> QED
            BY <2>0, <2>2, <3>1, <3>2, <3>5, OneCallReplaced
    <2> QED
        BY <2>3, <2>4
<1>2. ASSUME NEW c \in Callers, Mint(c) PROVE TokenInv'
    <2>0. call[c] \in Call /\ CallSound(call[c], clock) /\ clock \in Nat
          /\ \A e \in cache : EntrySound(e)
        BY DEF TokenInv
    <2>1. PICK expiresIn \in TTLs, scope \in call[c].scope :
            call' = [call EXCEPT ![c].stage = "minted", ![c].minted =
                     {[scope |-> scope, expiresIn |-> expiresIn,
                       end |-> clock + expiresIn]}]
        BY <1>2 DEF Mint
    <2>2. clock' = clock /\ cache' = cache
        BY <1>2 DEF Mint
    <2> DEFINE t == [scope |-> scope, expiresIn |-> expiresIn, end |-> clock + expiresIn]
               q == [call[c] EXCEPT !.stage = "minted", !.minted = {t}]
    <2>3. expiresIn \in Nat /\ (expiresIn > 0 => expiresIn = TTL(expiresIn))
        BY TokenAssumption DEF TTL
    <2>4. t \in Token /\ t.expiresIn = expiresIn /\ t.end = clock + expiresIn
        BY <2>0, <2>3 DEF Token, Call
    <2>5. call' = [call EXCEPT ![c] = q]
        BY <2>1 DEF TokenInv
    <2> HIDE DEF t
    <2>6. q \in Call
        BY <2>0, <2>4 DEF Call, Stages
    <2>7. q.begun = call[c].begun /\ q.minted = {t} /\ q.stage = "minted"
        BY <2>0 DEF Call
    <2>8. CallSound(q, clock)
        BY <2>0, <2>3, <2>4, <2>7 DEF CallSound, Call
    <2> HIDE DEF q
    <2> QED
        BY <2>0, <2>2, <2>5, <2>6, <2>8, OneCallReplaced
<1>3. ASSUME NEW c \in Callers, Issued(c) PROVE TokenInv'
    <2>0. call[c] \in Call /\ CallSound(call[c], clock) /\ clock \in Nat
        BY DEF TokenInv
    <2>1. clock' = clock /\ cache' = Keep(c)
          /\ call' = [call EXCEPT ![c].stage = "done", ![c].got = call[c].minted,
                                  ![c].at = clock]
        BY <1>3 DEF Issued
    <2> DEFINE q == [call[c] EXCEPT !.stage = "done", !.got = call[c].minted, !.at = clock]
    <2>2. ASSUME NEW t \in call[c].minted
          PROVE  EntrySound([token |-> t, expiresAt |-> call[c].begun + TTL(t.expiresIn)])
        <3>1. t \in Token /\ t.expiresIn \in Nat /\ t.end \in Nat /\ TTL(t.expiresIn) \in Nat
            BY <2>0, TTLNat DEF Call, Token
        <3>2. /\ t.expiresIn > 0 => call[c].begun + TTL(t.expiresIn) <= t.end
              /\ call[c].begun \in Nat
            BY <2>0 DEF CallSound, Call
        <3> QED
            BY <3>1, <3>2 DEF EntrySound
    <2>3. \A e \in cache' : EntrySound(e)
        BY <2>1, <2>2 DEF Keep
    <2>4. call' = [call EXCEPT ![c] = q]
        BY <2>1 DEF TokenInv
    <2>5. q \in Call
        BY <2>0 DEF Call, Stages
    <2>6. CallSound(q, clock)
        BY <2>0 DEF CallSound, Call
    <2> HIDE DEF q
    <2> QED
        BY <2>1, <2>3, <2>4, <2>5, <2>6, OneCallReplaced
<1>4. ASSUME NEW c \in Callers, IssueFailed(c) PROVE TokenInv'
    <2>0. call[c] \in Call /\ CallSound(call[c], clock) /\ \A e \in cache : EntrySound(e)
        BY DEF TokenInv
    <2>1. clock' = clock /\ cache' = cache
          /\ call' = [call EXCEPT ![c].stage = "done", ![c].minted = {}]
        BY <1>4 DEF IssueFailed
    <2> DEFINE q == [call[c] EXCEPT !.stage = "done", !.minted = {}]
    <2>2. call' = [call EXCEPT ![c] = q]
        BY <2>1 DEF TokenInv
    <2>3. q \in Call
        BY <2>0 DEF Call, Stages
    <2>4. CallSound(q, clock)
        BY <2>0 DEF CallSound, Call
    <2> HIDE DEF q
    <2> QED
        BY <2>0, <2>1, <2>2, <2>3, <2>4, OneCallReplaced
<1>5. CASE Clock
    <2>1. ASSUME NEW c \in Callers PROVE CallSound(call[c], clock + 1)
        BY DEF CallSound, TokenInv, Call
    <2> QED
        BY <1>5, <2>1 DEF Clock, TokenInv
<1>6. CASE UNCHANGED tokenVars
    BY <1>6 DEF tokenVars, TokenInv
<1> QED
    BY <1>1, <1>2, <1>3, <1>4, <1>5, <1>6 DEF TokenNext

\* A service token answered from the cache is for the scope asked for and, if
\* AuthCore said how long it lives, lives for longer than the refresh lead
\* (CachedServiceTokenSource.GetServiceToken): the expiry is counted from a
\* clock reading made before AuthCore was asked.
THEOREM HitsHaveLead == TokenSpec => []HitHasLead
<1>1. TokenInv => HitHasLead
    BY DEF TokenInv, CallSound, HitHasLead
<1> QED
    BY <1>1, TokenInvInit, TokenInvStep, PTL DEF TokenSpec

-----------------------------------------------------------------------------
(* The process *)

\* The pool of the configured backend while it is in use.
Configured == IF RepoBackend(cfg) = "postgres" THEN "open" ELSE "none"

\* Where main is says how far pool and goroutines are: worker and dispatcher do
\* not run before the pool is open, and have stopped before it is closed.
PhaseInv ==
    /\ phase \in {"load", "repos", "build", "exit", "serving", "draining", "drained",
                  "cancelled", "waited", "stopped"}
    /\ phase \in {"load", "repos", "build", "exit"} => worker = "off" /\ sender = "off"
    /\ phase \in {"build", "serving", "draining", "drained", "cancelled"} => pool = Configured
    /\ phase \in {"waited", "stopped"} => worker = "stopped" /\ sender \in {"off", "stopped"}
    /\ sender \in {"off", "running", "stopped"}

LEMMA PhaseInvInit == LifeInit => PhaseInv
BY DEF LifeInit, PhaseInv

LEMMA PhaseInvStep == PhaseInv /\ [LifeNext]_lifeVars => PhaseInv'
<1> SUFFICES ASSUME PhaseInv, [LifeNext]_lifeVars PROVE PhaseInv'
    OBVIOUS
<1> USE DEF PhaseInv, Configured
<1>1. CASE Load
    BY <1>1 DEF Load
<1>2. CASE OpenRepos
    BY <1>2 DEF OpenRepos
<1>3. CASE BuildFails
    BY <1>3 DEF BuildFails
<1>4. CASE StartServing
    BY <1>4 DEF StartServing
<1>5. CASE ListenFails \/ (\E h \in Handlers : Accept(h) \/ Finish(h))
    BY <1>5 DEF ListenFails, Accept, Finish
<1>6. CASE WorkerClaims \/ WorkerRests
    BY <1>6 DEF WorkerClaims, WorkerRests
<1>7. CASE WorkerStops
    BY <1>7 DEF WorkerStops, Cancelled
<1>8. CASE SenderStops
    BY <1>8 DEF SenderStops
<1>9. CASE Signal \/ ShutdownReturns \/ CancelBackground
    BY <1>9 DEF Signal, ShutdownReturns, CancelBackground
<1>10. CASE WaitForWorkers
    BY <1>10 DEF WaitForWorkers
<1>11. CASE CleanupRepos
    BY <1>11 DEF CleanupRepos
<1>12. CASE UNCHANGED lifeVars
    BY <1>12 DEF lifeVars
<1> QED
    BY <1>1, <1>2, <1>3, <1>4, <1>5, <1>6, <1>7, <1>8, <1>9, <1>10, <1>11, <1>12 DEF LifeNext

\* The OGP worker never works on a pool that is closed or not the configured
\* one, however long the requests that Shutdown gave up on keep running
\* (main.go: Shutdown, cancel, Wait, cleanupRepos).
THEOREM PoolOutlives == LifeSpec => []PoolOutlivesWorker
<1>1. PhaseInv => PoolOutlivesWorker
    BY DEF PhaseInv, Configured, PoolOutlivesWorker
<1> QED
    BY <1>1, PhaseInvInit, PhaseInvStep, PTL DEF LifeSpec

\* The pool is closed, and main ends, with or without closing it, only while
\* neither the OGP worker nor the dispatcher runs: no step takes the pool or the
\* process away under them.
THEOREM ClosedUnderNobody ==
    LifeSpec =>
      [][pool' # pool \/ (phase' # phase /\ phase' \in {"exit", "stopped"})
           => worker \in {"off", "stopped"} /\ sender \in {"off", "stopped"}]_lifeVars
<1>1. PhaseInv /\ [LifeNext]_lifeVars =>
        [pool' # pool \/ (phase' # phase /\ phase' \in {"exit", "stopped"})
           => worker \in {"off", "stopped"} /\ sender \in {"off", "stopped"}]_lifeVars
    BY DEF PhaseInv, LifeNext, Load, OpenRepos, BuildFails, StartServing, ListenFails,
           WorkerClaims, WorkerRests, WorkerStops, SenderStops, Signal, ShutdownReturns,
           CancelBackground, WaitForWorkers, CleanupRepos, Accept, Finish, lifeVars
<1> QED
    BY <1>1, PhaseInvInit, PhaseInvStep, PTL DEF LifeSpec
=============================================================================
