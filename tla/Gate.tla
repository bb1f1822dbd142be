------------------------------- MODULE Gate --------------------------------
(***************************************************************************)
(* The way into the service: the session cookie a browser trades its       *)
(* bearer token for, the middleware chain of an admin route                *)
(* (AuthMiddleware, HydrateUserMiddleware, AdminMiddleware), and the badge *)
(* use cases behind it, over the tables of PgTables.                       *)
(*                                                                         *)
(* One action is one SQL statement, one introspection or one reading of    *)
(* the clock; the in-memory work of a handler belongs to the step it       *)
(* leads up to.  A request is served once.  is_admin is written by an      *)
(* operator, directly in the database; nothing in the service writes it.   *)
(*                                                                         *)
(* A token is known by its owner and the instant it expires, Null for one  *)
(* without an exp claim.  Introspect is what IntrospectCache promises: no  *)
(* session past that instant.  Label, description, icon and colour of a    *)
(* badge are written exactly as priority is and are left out, and so is    *)
(* the reason of a grant.                                                  *)
(***************************************************************************)
EXTENDS PgTables

CONSTANTS
    Subs,
    Reqs,            \* requests, each served once; a request also stands for the
                     \* ULID of the badge it creates
    Tokens,          \* access tokens AuthCore has issued, [sub, exp]
    Keys,            \* badge keys
    Seeded,          \* the badges the migrations ship, as rows of badges
    Priorities,
    Second,          \* clock ticks in a second
    FallbackMaxAge,  \* SESSION_COOKIE_FALLBACK_MAX_AGE, in ticks
    LastTick         \* bound: the clock stops there

\* Of the fallback, Validate asks no more than here.
ASSUME GateAssumption ==
    /\ Tokens \subseteq [sub : Subs, exp : Nat]
    /\ Second \in Nat \ {0} /\ LastTick \in Nat
    /\ FallbackMaxAge \in Nat \ {0}
    /\ Priorities \subseteq Int
    /\ \A b \in DOMAIN Seeded : Seeded[b] \in [key : Keys, priority : Int]
    /\ Seeded = [b \in DOMAIN Seeded |-> Seeded[b]]
    /\ \A a, b \in DOMAIN Seeded : Seeded[a].key = Seeded[b].key => a = b

VARIABLES
    tick,      \* the clock
    known,     \* subs that have a users row
    admins,    \* subs whose row has is_admin
    badges,    \* badges : id -> row
    grants,    \* user_badges : <<user, badge>> -> row
    jar,       \* the browser's cookie, {} or {[token, setAt, end]}
    req,       \* the requests
    leftover   \* history: per sub, the requests past ensureAdmin when its
               \* flag was last withdrawn

tables == <<known, badges, grants>>
gateVars == <<tick, known, admins, badges, grants, jar, req, leftover>>

AdminRoutes == {"list", "create", "update", "grant", "revoke"}
Routes == AdminRoutes \cup {"issue", "logout"}

NoReq == [stage |-> "idle", route |-> "none", token |-> {}, sub |-> Null,
          key |-> Null, target |-> Null, id |-> Null, priority |-> 0, status |-> 0]

GateInit ==
    /\ tick = 0
    /\ known \in SUBSET Subs
    /\ admins \in {known, {}}
    /\ badges = Seeded
    /\ grants = << >>
    /\ jar = {}
    /\ req = [r \in Reqs |-> NoReq]
    /\ leftover = [s \in Subs |-> {}]

Answer(r, status) ==
    req' = [req EXCEPT ![r].stage = "done", ![r].status = status]

Advance(r, stage) == req' = [req EXCEPT ![r].stage = stage]

OnRoute(r, stage, route) == req[r].stage = stage /\ req[r].route = route

----------------------------------------------------------------------------
(* AuthMiddleware *)

\* A browser sends its cookie until Max-Age has run out.  A cookie without
\* Max-Age has the end Null.
CookieSent == {c.token : c \in {d \in jar : d.end = Null \/ tick < d.end}}

\* extractAuthToken: the Authorization header wins over the cookie.
ExtractAuthToken(header) == IF header # {} THEN header ELSE CookieSent

Arrive(r) ==
    /\ req[r].stage = "idle"
    /\ \E route \in Routes \ {"logout"}, header \in {{}} \cup {{t} : t \in Tokens} :
          LET found == ExtractAuthToken(header) IN
          req' = [req EXCEPT ![r] =
                    IF found = {}
                    THEN [NoReq EXCEPT !.stage = "done", !.route = route, !.status = 401]
                    ELSE [NoReq EXCEPT !.stage = "auth", !.route = route, !.token = found]]
    /\ UNCHANGED <<tick, tables, admins, jar, leftover>>

\* An expired token is 401, an AuthCore that cannot be reached is 503.
Introspect(r) ==
    /\ req[r].stage = "auth"
    /\ \/ \E t \in req[r].token :
             IF t.exp = Null \/ tick < t.exp
             THEN req' = [req EXCEPT ![r].stage = "authed", ![r].sub = t.sub]
             ELSE Answer(r, 401)
       \/ Answer(r, 503)
    /\ UNCHANGED <<tick, tables, admins, jar, leftover>>

----------------------------------------------------------------------------
(* SessionHandler *)

\* cookie.Build: whole seconds, and net/http writes no Max-Age for zero.
CookieEnd(maxAge) ==
    LET seconds == maxAge \div Second
    IN  IF seconds = 0 THEN Null ELSE tick + seconds * Second

\* Mutant: what is left of the token's life is taken whatever it is.
MaxAgeNoFloor(token) ==
    IF tick < token.exp THEN token.exp - tick ELSE FallbackMaxAge

\* The fallback serves as soon as less than minCookieMaxAge is left, and
\* for a token without exp.
MaxAge(token) ==
    IF token.exp - tick >= Second THEN token.exp - tick ELSE FallbackMaxAge

Issue(r) ==
    /\ OnRoute(r, "authed", "issue")
    /\ jar' = {[token |-> t, setAt |-> tick, end |-> CookieEnd(MaxAge(t))] :
                 t \in req[r].token}
    /\ Answer(r, 204)
    /\ UNCHANGED <<tick, tables, admins, leftover>>

\* Revoke is public: no token is asked for.
Logout(r) ==
    /\ req[r].stage = "idle"
    /\ jar' = {}
    /\ req' = [req EXCEPT ![r] = [NoReq EXCEPT !.stage = "done", !.route = "logout",
                                               !.status = 204]]
    /\ UNCHANGED <<tick, tables, admins, leftover>>

----------------------------------------------------------------------------
(* HydrateUserMiddleware and AdminMiddleware *)

\* The row is read, or created without the flag; SocialGraph has the steps.
Hydrate(r) ==
    /\ req[r].stage = "authed" /\ req[r].route \in AdminRoutes
    /\ known' = known \cup {req[r].sub}
    /\ IF req[r].sub \in admins THEN Advance(r, "handler") ELSE Answer(r, 403)
    /\ UNCHANGED <<tick, admins, badges, grants, jar, leftover>>

----------------------------------------------------------------------------
(* BadgeHandler and the badge use cases *)

\* The list asks for nothing beyond the middleware.
ListBadges(r) ==
    /\ OnRoute(r, "handler", "list")
    /\ Answer(r, 200)
    /\ UNCHANGED <<tick, tables, admins, jar, leftover>>

\* A path or a body that does not parse.
BadRequest(r) ==
    /\ req[r].stage = "handler" /\ req[r].route # "list"
    /\ Answer(r, 400)
    /\ UNCHANGED <<tick, tables, admins, jar, leftover>>

BadgeIds == Reqs \cup DOMAIN Seeded

\* What a client may send, in the body and the path, on each route.
CreateInput == [key : Keys, id : {Null}, target : {Null}, priority : Priorities]
UpdateInput == [key : {Null}, id : BadgeIds, target : {Null}, priority : Priorities]
GrantInput  == [key : Keys, id : {Null}, target : Subs, priority : {0}]
RevokeInput == [key : {Null}, id : BadgeIds, target : Subs, priority : {0}]

Input(route) ==
    CASE route = "create" -> CreateInput
      [] route = "update" -> UpdateInput
      [] route = "grant"  -> GrantInput
      [] route = "revoke" -> RevokeInput

\* Mutant: the use case relies on AdminMiddleware alone.
AnySub(sub) == TRUE

\* admin.Checker.IsAdmin: the users row is read again.
IsAdmin(sub) == sub \in admins

\* ensureAdmin, once the body has arrived.
EnsureAdmin(r) ==
    /\ req[r].stage = "handler" /\ req[r].route # "list"
    /\ IF IsAdmin(req[r].sub)
       THEN \E i \in Input(req[r].route) :
               req' = [req EXCEPT ![r].stage = "checked", ![r].key = i.key, ![r].id = i.id,
                                  ![r].target = i.target, ![r].priority = i.priority]
       ELSE Answer(r, 403)
    /\ UNCHANGED <<tick, tables, admins, jar, leftover>>

\* Badge.Validate or GrantBadgeRequest.Validate refuses the body.  The
\* update validates the row it has read.
Invalid(r) ==
    /\ \/ req[r].stage = "checked" /\ req[r].route \in {"create", "grant"}
       \/ OnRoute(r, "loaded", "update")
    /\ Answer(r, 400)
    /\ UNCHANGED <<tick, tables, admins, jar, leftover>>

\* CreateBadgeUseCase: GetByKey, then the insert.
CreateCheck(r) ==
    /\ OnRoute(r, "checked", "create")
    /\ IF BadgeByKey(badges, req[r].key) # {} THEN Answer(r, 409) ELSE Advance(r, "loaded")
    /\ UNCHANGED <<tick, tables, admins, jar, leftover>>

CreateBadge(r) ==
    /\ OnRoute(r, "loaded", "create")
    /\ badges' = BadgeCreate(badges, r, req[r].key, req[r].priority)
    /\ IF badges' = badges THEN Answer(r, 409)
       ELSE req' = [req EXCEPT ![r].stage = "done", ![r].status = 201, ![r].id = r]
    /\ UNCHANGED <<tick, known, admins, grants, jar, leftover>>

\* UpdateBadgeUseCase: GetByID, then the update of the row read.
UpdateLoad(r) ==
    /\ OnRoute(r, "checked", "update")
    /\ IF req[r].id \in DOMAIN badges
       THEN req' = [req EXCEPT ![r].stage = "loaded", ![r].key = badges[req[r].id].key]
       ELSE Answer(r, 404)
    /\ UNCHANGED <<tick, tables, admins, jar, leftover>>

UpdateBadge(r) ==
    /\ OnRoute(r, "loaded", "update")
    /\ badges' = BadgeUpdate(badges, req[r].id, req[r].priority)
    /\ Answer(r, 200)
    /\ UNCHANGED <<tick, known, admins, grants, jar, leftover>>

\* GrantBadgeUseCase: GetByKey, GetBySub, then the grant.
GrantLoadBadge(r) ==
    /\ OnRoute(r, "checked", "grant")
    /\ LET found == BadgeByKey(badges, req[r].key) IN
       IF found = {} THEN Answer(r, 404)
       ELSE req' = [req EXCEPT ![r].stage = "loaded", ![r].id = CHOOSE b \in found : TRUE]
    /\ UNCHANGED <<tick, tables, admins, jar, leftover>>

GrantLoadUser(r) ==
    /\ OnRoute(r, "loaded", "grant")
    /\ IF req[r].target \in known THEN Advance(r, "target") ELSE Answer(r, 404)
    /\ UNCHANGED <<tick, tables, admins, jar, leftover>>

GrantBadge(r) ==
    /\ OnRoute(r, "target", "grant")
    /\ grants' = BadgeGrant(grants, req[r].target, req[r].id, req[r].sub, Null, 0)
    /\ Answer(r, 201)
    /\ UNCHANGED <<tick, known, admins, badges, jar, leftover>>

RevokeBadge(r) ==
    /\ OnRoute(r, "checked", "revoke")
    /\ grants' = BadgeRevoke(grants, req[r].target, req[r].id)
    /\ Answer(r, 204)
    /\ UNCHANGED <<tick, known, admins, badges, jar, leftover>>

\* A statement that fails, or the 30 s of ContextTimeoutMiddleware.
Fail(r) ==
    /\ req[r].stage \notin {"idle", "done"}
    /\ Answer(r, 500)
    /\ UNCHANGED <<tick, tables, admins, jar, leftover>>

----------------------------------------------------------------------------
(* The surroundings *)

PastCheck(s) == {r \in Reqs : req[r].sub = s
                              /\ req[r].stage \in {"checked", "loaded", "target"}}

SetAdmin ==
    \E s \in known :
        /\ admins' = IF s \in admins THEN admins \ {s} ELSE admins \cup {s}
        /\ leftover' = [leftover EXCEPT ![s] = IF s \in admins THEN PastCheck(s) ELSE {}]
        /\ UNCHANGED <<tick, tables, jar, req>>

Tick ==
    /\ tick < LastTick
    /\ tick' = tick + 1
    /\ UNCHANGED <<tables, admins, jar, req, leftover>>

Serve(r) ==
    \/ Arrive(r) \/ Introspect(r) \/ Issue(r) \/ Logout(r) \/ Hydrate(r)
    \/ ListBadges(r) \/ BadRequest(r) \/ EnsureAdmin(r) \/ Invalid(r)
    \/ CreateCheck(r) \/ CreateBadge(r) \/ UpdateLoad(r) \/ UpdateBadge(r)
    \/ GrantLoadBadge(r) \/ GrantLoadUser(r) \/ GrantBadge(r) \/ RevokeBadge(r)
    \/ Fail(r)

GateNext == SetAdmin \/ Tick \/ \E r \in Reqs : Serve(r)

GateSpec == GateInit /\ [][GateNext]_gateVars

----------------------------------------------------------------------------
(* Properties *)

\* Once an operator has withdrawn is_admin, the badge tables change at the
\* hand of that user only through a request that had passed ensureAdmin by
\* then: a request still waiting for its body behind AdminMiddleware is
\* stopped (usecase/badge/usecase.go, "defense-in-depth").
WithdrawalStops ==
    [][\A r \in Reqs :
          /\ <<badges, grants>>' # <<badges, grants>>
          /\ req'[r] # req[r]
          /\ req[r].sub \notin admins
          => r \in leftover[req[r].sub]]_gateVars

\* Whoever races to create a key, one badge has it, the one request that
\* was answered 201 for it, and no update takes it away
\* (CreateBadgeUseCase, ON CONFLICT (key) DO NOTHING).
KeyHasOneBadge ==
    /\ \A a, b \in DOMAIN badges : badges[a].key = badges[b].key => a = b
    /\ \A r \in Reqs : req[r].route = "create" /\ req[r].status = 201
          => req[r].id \in DOMAIN badges /\ badges[req[r].id].key = req[r].key

\* A cookie ends with its token when the token had a second or more left,
\* and otherwise with the fallback, however late Issue reads the clock.  It
\* has no Max-Age only where neither comes to a second (session.go,
\* minCookieMaxAge; cookie.go, Build).
CookieBounded ==
    \A c \in jar :
        LET lives == c.token.exp - c.setAt >= Second IN
        /\ c.end = Null <=> ~lives /\ FallbackMaxAge < Second
        /\ c.end <= IF lives THEN c.token.exp ELSE c.setAt + FallbackMaxAge

\* What Validate says it sees to: there is no cookie without Max-Age
\* (config.go, "never what we want for an auth cookie.  Reject up-front").
\* It lets a fallback below a second pass, and Build writes none for it.
CookieEnds == \A c \in jar : c.end # Null
============================================================================
