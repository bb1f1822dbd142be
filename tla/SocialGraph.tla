---------------------------- MODULE SocialGraph ----------------------------
(***************************************************************************)
(* The users table: mirror of AuthCore's profiles, the users' own bio, and *)
(* the follow counters, with the follows table they count.                 *)
(*                                                                         *)
(* Every authenticated request first runs HydrateUserMiddleware (read the  *)
(* row, ask AuthCore when it is missing or stale, write it back), then its *)
(* use case: a profile update, a follow, an unfollow, or a read (which     *)
(* changes nothing and has no action).  One action is one SQL statement,   *)
(* one reading of the clock or one call to AuthCore.  There is no          *)
(* transaction around them.                                                *)
(*                                                                         *)
(* A request that is refused (404 of AuthCore, unknown target, following   *)
(* oneself), fails or loses its deadline takes no further step: its pc     *)
(* stays where it stopped, and says what it still owes to a counter.       *)
(*                                                                         *)
(* An AuthCore profile is a version number; 0 is the empty profile.  A     *)
(* missing row is the empty row that lazyCreate starts from.               *)
(* banner_url is written exactly as bio is and is left out.                *)
(***************************************************************************)
EXTENDS Integers, FiniteSets

CONSTANTS
    Users,
    Requests,    \* requests, each served once
    Seed,        \* users that have a row when the process starts
    Bios,        \* what a user may write as a bio
    NoBio,       \* the empty string
    TTL,         \* profile TTL
    MaxTime,     \* bound: the clock stops there
    MaxProfile,  \* bound: versions of a profile
    None

ASSUME SocialAssumption ==
    /\ IsFiniteSet(Users) /\ IsFiniteSet(Requests)
    /\ Seed \subseteq Users
    /\ NoBio \in Bios
    /\ TTL \in Nat \ {0} /\ MaxTime \in Nat /\ TTL <= MaxTime
    /\ MaxProfile \in Nat \ {0}
    /\ None \notin Users \cup Nat

VARIABLES
    clock,      \* starts at TTL: the zero time is never fresh
    profile,    \* AuthCore: the version of each user's profile
    profileAt,  \* history: the version each profile had at each instant
    known,      \* users that have a row
    users,      \* the rows
    follows,    \* rows of follows, <<follower, followee>>
    req         \* requests

vars == <<clock, profile, profileAt, known, users, follows, req>>

Row == [profile : Nat, name : Nat, refreshedAt : Nat, bio : Bios,
        followers : Nat, following : Nat]
NoRow == [profile |-> 0, name |-> 0, refreshedAt |-> 0, bio |-> NoBio,
          followers |-> 0, following |-> 0]

PC == {"idle", "decide", "fetch", "upsert", "hydrated", "insert",
       "incFollowing", "incFollowers", "decFollowing", "decFollowers", "done"}

\* `user' is the caller, `target' whom it follows or unfollows, `existing'
\* whether its row was found, `row' the copy it works on.
Req == [pc : PC, user : Users \cup {None}, target : Users \cup {None},
        existing : {"yes", "no"}, row : Row, now : Nat]
NoReq == [pc |-> "idle", user |-> None, target |-> None,
          existing |-> "no", row |-> NoRow, now |-> 0]

TypeOK ==
    /\ clock \in Nat
    /\ profile \in [Users -> Nat]
    /\ profileAt \in [Users -> [0..MaxTime -> Nat]]
    /\ known \subseteq Users
    /\ users \in [Users -> Row]
    /\ follows \subseteq Users \X Users
    /\ req \in [Requests -> Req]

Init ==
    /\ clock = TTL
    /\ profile = [u \in Users |-> 1]
    /\ profileAt = [u \in Users |-> [t \in 0..MaxTime |-> 1]]
    /\ known = Seed
    /\ \E b \in Bios :
         users = [u \in Users |->
                    IF u \in Seed
                    THEN [NoRow EXCEPT !.profile = 1, !.name = 1,
                                       !.refreshedAt = TTL, !.bio = b]
                    ELSE NoRow]
    /\ follows = {}
    /\ req = [r \in Requests |-> NoReq]

-----------------------------------------------------------------------------
(* The environment: time passes, a user changes its profile at AuthCore. *)

Tick ==
    /\ clock < MaxTime
    /\ clock' = clock + 1
    /\ profileAt' = [u \in Users |-> [profileAt[u] EXCEPT ![clock + 1] = profile[u]]]
    /\ UNCHANGED <<profile, known, users, follows, req>>

ChangeProfile(u) ==
    /\ profile[u] < MaxProfile
    /\ profile' = [profile EXCEPT ![u] = @ + 1]
    /\ UNCHANGED <<clock, profileAt, known, users, follows, req>>

-----------------------------------------------------------------------------
(* GetOrHydrateUserUseCase.Execute, run by HydrateUserMiddleware *)

Goto(r, to) == req' = [req EXCEPT ![r].pc = to]

\* What hydration has read is not read again after it.
Hydrated(r) == req' = [req EXCEPT ![r] = [NoReq EXCEPT !.pc = "hydrated",
                                                       !.user = req[r].user]]

\* A missing row is the empty one lazyCreate starts from.
GetBySub(r, u) ==
    /\ req[r].pc = "idle"
    /\ req' = [req EXCEPT ![r] = [NoReq EXCEPT !.pc = "decide", !.user = u,
                                               !.existing = IF u \in known THEN "yes" ELSE "no",
                                               !.row = users[u]]]
    /\ UNCHANGED <<clock, profile, profileAt, known, users, follows>>

\* Mutant: a row is never refreshed once it has a profile.
FreshForever(row, now) == row.refreshedAt # 0

Fresh(row, now) == now - row.refreshedAt < TTL

Decide(r) ==
    /\ req[r].pc = "decide"
    /\ IF Fresh(req[r].row, clock)
       THEN Hydrated(r)
       ELSE req' = [req EXCEPT ![r].pc = "fetch", ![r].now = clock]
    /\ UNCHANGED <<clock, profile, profileAt, known, users, follows>>

\* applyProfile, and the date.  The display name is only set when empty.
ApplyProfile(row, version, now) ==
    [row EXCEPT !.profile = version, !.refreshedAt = now,
                !.name = IF @ = 0 THEN version ELSE @]

FetchOk(r) ==
    /\ req[r].pc = "fetch"
    /\ req' = [req EXCEPT ![r].pc = "upsert",
                          ![r].row = ApplyProfile(@, profile[req[r].user], req[r].now)]
    /\ UNCHANGED <<clock, profile, profileAt, known, users, follows>>

\* Fail-open: an existing row is used as it is, a new one is saved empty.
FetchFails(r) ==
    /\ req[r].pc = "fetch"
    /\ IF req[r].existing = "yes" THEN Hydrated(r) ELSE Goto(r, "upsert")
    /\ UNCHANGED <<clock, profile, profileAt, known, users, follows>>

\* Mutants of the update path: every column written; the counters written;
\* the date taken by the database.
MergedWhole(row, new) == [new EXCEPT !.followers = row.followers,
                                     !.following = row.following]
MergedCounters(row, new) == [new EXCEPT !.bio = IF @ = NoBio THEN row.bio ELSE @]
MergedNow(row, new) ==
    [row EXCEPT !.profile = new.profile, !.name = new.name,
                !.refreshedAt = IF new.profile = 0 THEN 0 ELSE clock,
                !.bio = IF new.bio = NoBio THEN @ ELSE new.bio]

\* ON CONFLICT DO UPDATE
Merged(row, new) ==
    [row EXCEPT !.profile = new.profile, !.name = new.name,
                !.refreshedAt = new.refreshedAt,
                !.bio = IF new.bio = NoBio THEN @ ELSE new.bio]

Upsert(r) ==
    LET u == req[r].user
        new == req[r].row
    IN
    /\ req[r].pc = "upsert"
    /\ users' = [users EXCEPT ![u] = IF u \in known THEN Merged(@, new) ELSE new]
    /\ known' = known \cup {u}
    /\ Hydrated(r)
    /\ UNCHANGED <<clock, profile, profileAt, follows>>

-----------------------------------------------------------------------------
(* UpdateUserProfileUseCase: only the caller's own row. *)

UpdateProfile(r, b) ==
    /\ req[r].pc = "hydrated"
    /\ users' = [users EXCEPT ![req[r].user].bio = b]
    /\ Goto(r, "done")
    /\ UNCHANGED <<clock, profile, profileAt, known, follows>>

-----------------------------------------------------------------------------
(* follow.UseCase and UnfollowUseCase *)

FollowTarget(r, t) ==
    /\ req[r].pc = "hydrated"
    /\ t # req[r].user
    /\ t \in known
    /\ req' = [req EXCEPT ![r].pc = "insert", ![r].target = t]
    /\ UNCHANGED <<clock, profile, profileAt, known, users, follows>>

InsertFollow(r) ==
    LET edge == <<req[r].user, req[r].target>> IN
    /\ req[r].pc = "insert"
    /\ follows' = follows \cup {edge}
    /\ Goto(r, IF edge \in follows THEN "done" ELSE "incFollowing")
    /\ UNCHANGED <<clock, profile, profileAt, known, users>>

IncrementFollowingCount(r) ==
    /\ req[r].pc = "incFollowing"
    /\ users' = [users EXCEPT ![req[r].user].following = @ + 1]
    /\ Goto(r, "incFollowers")
    /\ UNCHANGED <<clock, profile, profileAt, known, follows>>

\* The commit hook that follows only enqueues an event (FujuDispatcher).
IncrementFollowersCount(r) ==
    /\ req[r].pc = "incFollowers"
    /\ users' = [users EXCEPT ![req[r].target].followers = @ + 1]
    /\ Goto(r, "done")
    /\ UNCHANGED <<clock, profile, profileAt, known, follows>>

DeleteFollow(r, t) ==
    LET edge == <<req[r].user, t>> IN
    /\ req[r].pc = "hydrated"
    /\ t # req[r].user
    /\ follows' = follows \ {edge}
    /\ req' = [req EXCEPT ![r].target = t,
                          ![r].pc = IF edge \in follows THEN "decFollowing" ELSE "done"]
    /\ UNCHANGED <<clock, profile, profileAt, known, users>>

FlooredDecrement(n) == IF n = 0 THEN 0 ELSE n - 1

DecrementFollowingCount(r) ==
    /\ req[r].pc = "decFollowing"
    /\ users' = [users EXCEPT ![req[r].user].following = FlooredDecrement(@)]
    /\ Goto(r, "decFollowers")
    /\ UNCHANGED <<clock, profile, profileAt, known, follows>>

DecrementFollowersCount(r) ==
    /\ req[r].pc = "decFollowers"
    /\ users' = [users EXCEPT ![req[r].target].followers = FlooredDecrement(@)]
    /\ Goto(r, "done")
    /\ UNCHANGED <<clock, profile, profileAt, known, follows>>

-----------------------------------------------------------------------------
Hydrate(r) ==
    \/ \E u \in Users : GetBySub(r, u)
    \/ Decide(r)
    \/ FetchOk(r)
    \/ FetchFails(r)
    \/ Upsert(r)

FollowStep(r) ==
    \/ \E t \in Users : FollowTarget(r, t)
    \/ InsertFollow(r)
    \/ IncrementFollowingCount(r)
    \/ IncrementFollowersCount(r)
    \/ \E t \in Users : DeleteFollow(r, t)
    \/ DecrementFollowingCount(r)
    \/ DecrementFollowersCount(r)

Next ==
    \/ \E r \in Requests : \/ Hydrate(r) \/ FollowStep(r)
                           \/ \E b \in Bios : UpdateProfile(r, b)
    \/ \E u \in Users : ChangeProfile(u)
    \/ Tick

Spec == Init /\ [][Next]_vars

-----------------------------------------------------------------------------
(* What the counters owe to requests in flight or stopped half-way. *)

Following(u) == {v \in Users : <<u, v>> \in follows}
Followers(u) == {v \in Users : <<v, u>> \in follows}

FollowingIncs(u) == {r \in Requests : req[r].pc = "incFollowing" /\ req[r].user = u}
FollowingDecs(u) == {r \in Requests : req[r].pc = "decFollowing" /\ req[r].user = u}
FollowersIncs(u) == {r \in Requests : /\ req[r].pc \in {"incFollowing", "incFollowers"}
                                      /\ req[r].target = u}
FollowersDecs(u) == {r \in Requests : /\ req[r].pc \in {"decFollowing", "decFollowers"}
                                      /\ req[r].target = u}

\* Both counters, with the increments still to come, cover the follow rows
\* and the decrements still to come: a count is too low only by increments
\* that were cut off.  A refresh that read the row before a follow and
\* writes it back after does not undo the follow's increment.
FollowCountsCover ==
    \A u \in known :
      /\ users[u].following + Cardinality(FollowingIncs(u))
           >= Cardinality(Following(u)) + Cardinality(FollowingDecs(u))
      /\ users[u].followers + Cardinality(FollowersIncs(u))
           >= Cardinality(Followers(u)) + Cardinality(FollowersDecs(u))

\* A profile mirrored at a date is at least as new as the one AuthCore had
\* at that date, however late it was written and whatever other hydrations
\* of the user were in flight; its display name is one the user had by then.
MirrorDated ==
    \A u \in known :
      LET row == users[u] IN
      row.refreshedAt # 0 =>
        /\ row.profile >= profileAt[u][row.refreshedAt]
        /\ row.name \in 1..row.profile

\* A request let through without asking AuthCore carries a profile that was
\* current less than TTL ago.
FreshMeansRecent ==
    [][\A r \in Requests :
         req[r].pc = "decide" /\ req'[r].pc = "hydrated" =>
           req[r].row.profile >= profileAt[req[r].user][clock - TTL + 1]]_vars

\* A bio is emptied only by its user: the empty row of a first request,
\* written late, does not erase it.
BioNotErased ==
    [][\A u \in Users :
         users[u].bio # NoBio /\ users'[u].bio = NoBio =>
           \E r \in Requests : req[r].user = u /\ UpdateProfile(r, NoBio)]_vars

\* "update-path only refreshes cached profile + profile_refreshed_at":
\* nothing but an update by its user changes the bio of a row.
BioOnlyByUpdate ==
    [][\A u \in known :
         users'[u].bio # users[u].bio =>
           \E r \in Requests, b \in Bios : req[r].user = u /\ UpdateProfile(r, b)]_vars
=============================================================================
