------------------------- MODULE SocialGraphProofs -------------------------
(***************************************************************************)
(* The mirror of SocialGraph for every set of users and requests, every    *)
(* TTL and every bound: types, the dates of the mirrored profiles, the bio *)
(* against late writes, and the follow counters.                           *)
(***************************************************************************)
EXTENDS SocialGraph, FiniteSetTheorems, TLAPS

\* A row, in the table or in the hands of a request, carries no profile that
\* AuthCore did not have by its date.
RowDated(now, version, history, row) ==
    /\ row.profile <= version
    /\ row.refreshedAt <= now
    /\ row.refreshedAt = 0 => row.profile = 0 /\ row.name = 0
    /\ row.refreshedAt # 0 => /\ history[row.refreshedAt] <= row.profile
                              /\ row.name >= 1 /\ row.name <= row.profile

DatedFor(u, row) == RowDated(clock, profile[u], profileAt[u], row)

\* The clock stays between its start and its bound.
ClockInRange == TTL <= clock /\ clock <= MaxTime

\* Versions only grow, up to the present.
HistoryGrows ==
    \A u \in Users :
      /\ profile[u] >= 1
      /\ \A t \in 0..MaxTime : profileAt[u][t] <= profile[u]
      /\ \A s, t \in 0..MaxTime :
           s <= t /\ t <= clock => profileAt[u][s] <= profileAt[u][t]

\* The rows in the table, and those of users without one.
RowsDated ==
    \A u \in Users : DatedFor(u, users[u]) /\ (u \notin known => users[u] = NoRow)

\* A request holds a dated row; one that found no row holds the empty one
\* until AuthCore has answered; past hydration its users have rows.
Counting == {"insert", "incFollowing", "incFollowers", "decFollowing", "decFollowers"}

ReqSound(q) ==
    /\ q.pc # "idle" => q.user \in Users /\ DatedFor(q.user, q.row)
    /\ q.pc = "fetch" => TTL <= q.now /\ q.now <= clock
    /\ q.existing = "yes" => q.user \in known
    /\ q.pc \in {"decide", "fetch"} /\ q.existing = "no" => q.row = NoRow
    /\ q.pc \in Counting \cup {"hydrated", "done"} => q.user \in known
    /\ q.pc \in Counting => q.target \in known

RequestsSound == \A r \in Requests : ReqSound(req[r])

\* Only users with rows follow or are followed.
EdgesKnown == follows \subseteq known \X known

MirrorInv ==
    /\ TypeOK /\ ClockInRange /\ HistoryGrows
    /\ RowsDated /\ RequestsSound /\ EdgesKnown

-----------------------------------------------------------------------------
(* Types of the values the actions build. *)

\* The empty row and the empty request are well typed.
LEMMA EmptyTypes == NoRow \in Row /\ NoReq \in Req
  BY SocialAssumption DEF NoRow, Row, NoReq, Req, PC

\* A profile applied to a row, and a row merged into another, are rows.
LEMMA RowTypes ==
  ASSUME NEW row \in Row, NEW new \in Row, NEW n \in Nat, NEW t \in Nat
  PROVE  ApplyProfile(row, n, t) \in Row /\ Merged(row, new) \in Row
  BY DEF ApplyProfile, Merged, Row

\* What the two row operations do to the columns.
LEMMA RowColumns ==
  ASSUME NEW row \in Row, NEW new \in Row, NEW n \in Nat, NEW t \in Nat
  PROVE  /\ ApplyProfile(row, n, t).profile = n
         /\ ApplyProfile(row, n, t).refreshedAt = t
         /\ ApplyProfile(row, n, t).name = IF row.name = 0 THEN n ELSE row.name
         /\ ApplyProfile(row, n, t).bio = row.bio
         /\ Merged(row, new).profile = new.profile
         /\ Merged(row, new).refreshedAt = new.refreshedAt
         /\ Merged(row, new).name = new.name
         /\ Merged(row, new).bio = IF new.bio = NoBio THEN row.bio ELSE new.bio
  BY DEF ApplyProfile, Merged, Row

-----------------------------------------------------------------------------
(* The invariant. *)

\* The seeded table satisfies the invariant.
LEMMA MirrorInit == Init => MirrorInv
  <1> SUFFICES ASSUME Init PROVE MirrorInv
    OBVIOUS
  <1> USE SocialAssumption DEF Init
  <1>1. users \in [Users -> Row]
    <2>1. ASSUME NEW b \in Bios
          PROVE  [NoRow EXCEPT !.profile = 1, !.name = 1, !.refreshedAt = TTL,
                               !.bio = b] \in Row
      BY DEF Row, NoRow
    <2> QED
      BY <2>1, EmptyTypes
  <1>2. req \in [Requests -> Req]
    BY EmptyTypes
  <1>3. TypeOK
    BY <1>1, <1>2 DEF TypeOK
  <1>4. RowsDated
    BY DEF RowsDated, DatedFor, RowDated, NoRow
  <1>5. ClockInRange /\ HistoryGrows /\ RequestsSound /\ EdgesKnown
    BY DEF ClockInRange, HistoryGrows, RequestsSound, ReqSound, Counting, NoReq, EdgesKnown
  <1> QED
    BY <1>3, <1>4, <1>5 DEF MirrorInv

\* A step that replaces one request by a dated one, in a world that stands
\* still, keeps all requests dated.
LEMMA RequestReplaced ==
  ASSUME MirrorInv, UNCHANGED <<clock, profile, profileAt>>, known \subseteq known',
         NEW r \in Requests, NEW n \in Req, ReqSound(n),
         req' = [req EXCEPT ![r] = n]
  PROVE  req' \in [Requests -> Req] /\ RequestsSound'
  <1>1. req \in [Requests -> Req] /\ \A q \in Requests : ReqSound(req[q])
    BY DEF MirrorInv, TypeOK, RequestsSound
  <1>2. req' \in [Requests -> Req]
    BY <1>1
  <1>3. ASSUME NEW q \in Requests
        PROVE  ReqSound(req[q])'
    <2>1. ReqSound(req'[q])
      BY <1>1
    <2> QED
      BY <2>1 DEF ReqSound, DatedFor, Counting
  <1> QED
    BY <1>2, <1>3 DEF RequestsSound

\* The empty row is dated, for any user, whatever AuthCore says of it.
LEMMA EmptyDated ==
  ASSUME MirrorInv, NEW u \in Users
  PROVE  DatedFor(u, NoRow)
  BY SocialAssumption
     DEF MirrorInv, TypeOK, ClockInRange, HistoryGrows, DatedFor, RowDated, NoRow

\* A request that ends hydration is dated.
LEMMA HydratedDated ==
  ASSUME MirrorInv, NEW r \in Requests, req[r].pc # "idle", Hydrated(r),
         req[r].user \in known
  PROVE  \E n \in Req : ReqSound(n) /\ req' = [req EXCEPT ![r] = n]
  <1> DEFINE n == [NoReq EXCEPT !.pc = "hydrated", !.user = req[r].user]
  <1>1. req[r].user \in Users
    BY DEF MirrorInv, RequestsSound, ReqSound
  <1>2. /\ n \in Req /\ n.pc = "hydrated" /\ n.user = req[r].user /\ n.row = NoRow
        /\ n.existing = "no"
    BY <1>1, EmptyTypes DEF NoReq, Req, PC
  <1>3. ReqSound(n)
    BY <1>1, <1>2, EmptyDated DEF ReqSound, Counting
  <1>4. req' = [req EXCEPT ![r] = n]
    BY DEF Hydrated
  <1> HIDE DEF n
  <1> QED
    BY <1>2, <1>3, <1>4

\* A step that changes nothing but one request keeps the invariant when the
\* new request is dated.
LEMMA RequestOnly ==
  ASSUME MirrorInv, UNCHANGED <<clock, profile, profileAt, known, users>>,
         follows' \subseteq known \X known,
         NEW r \in Requests,
         \E n \in Req : ReqSound(n) /\ req' = [req EXCEPT ![r] = n]
  PROVE  MirrorInv'
  <1>1. req' \in [Requests -> Req] /\ RequestsSound'
    BY RequestReplaced
  <1>2. RowsDated' /\ HistoryGrows' /\ ClockInRange'
    BY DEF MirrorInv, RowsDated, DatedFor, HistoryGrows, ClockInRange
  <1> QED
    BY <1>1, <1>2 DEF MirrorInv, TypeOK, EdgesKnown

\* The steps of hydration that only move a row into a request or out of it.
LEMMA HydrateStep ==
  ASSUME MirrorInv, NEW r \in Requests, Hydrate(r), ~Upsert(r)
  PROVE  MirrorInv'
  <1>0. /\ UNCHANGED <<clock, profile, profileAt, known, users, follows>>
        /\ follows' \subseteq known \X known
        /\ req[r] \in Req /\ ReqSound(req[r])
    BY DEF Hydrate, GetBySub, Decide, FetchOk, FetchFails, MirrorInv, TypeOK,
           RequestsSound, EdgesKnown
  <1>1. CASE \E u \in Users : GetBySub(r, u)
    <2>1. PICK u \in Users : GetBySub(r, u)
      BY <1>1
    <2> DEFINE n == [NoReq EXCEPT !.pc = "decide", !.user = u,
                       !.existing = IF u \in known THEN "yes" ELSE "no",
                       !.row = users[u]]
    <2>2. users[u] \in Row /\ DatedFor(u, users[u]) /\ (u \notin known => users[u] = NoRow)
      BY DEF MirrorInv, TypeOK, RowsDated
    <2>3. n \in Req /\ n.pc = "decide" /\ n.user = u /\ n.row = users[u]
          /\ n.existing = IF u \in known THEN "yes" ELSE "no"
      BY <2>2, EmptyTypes DEF NoReq, Req, PC
    <2>4. req' = [req EXCEPT ![r] = n]
      BY <2>1 DEF GetBySub
    <2>5. ReqSound(n)
      BY <2>2, <2>3 DEF ReqSound, Counting
    <2> HIDE DEF n
    <2> QED
      BY <1>0, <2>3, <2>4, <2>5, RequestOnly
  <1>2. CASE Decide(r)
    <2>1. CASE Hydrated(r)
      <3>1. req[r].pc = "decide" /\ req[r].user \in Users
        BY <1>0, <1>2 DEF Decide, ReqSound
      <3>2. CASE req[r].existing = "yes"
        BY <1>0, <2>1, <3>1, <3>2, HydratedDated, RequestOnly DEF ReqSound
      <3>3. CASE req[r].existing = "no"
        <4>1. req[r].row = NoRow
          BY <1>0, <3>1, <3>3 DEF ReqSound
        <4>2. ~Fresh(req[r].row, clock)
          BY <4>1, SocialAssumption DEF Fresh, NoRow, MirrorInv, TypeOK, ClockInRange
        <4>3. req'[r].pc = "fetch"
          BY <1>2, <4>2, <1>0 DEF Decide, Req, MirrorInv, TypeOK
        <4>4. req'[r].pc = "hydrated"
          BY <2>1 DEF Hydrated, NoReq, MirrorInv, TypeOK
        <4> QED
          BY <4>3, <4>4
      <3> QED
        BY <1>0, <3>2, <3>3 DEF Req
    <2>2. CASE req' = [req EXCEPT ![r].pc = "fetch", ![r].now = clock]
      <3> DEFINE n == [req[r] EXCEPT !.pc = "fetch", !.now = clock]
      <3>1. /\ n \in Req /\ n.pc = "fetch" /\ n.user = req[r].user
            /\ n.row = req[r].row /\ n.now = clock /\ n.existing = req[r].existing
        BY <1>0 DEF Req, PC, MirrorInv, TypeOK
      <3>2. ReqSound(n)
        BY <1>0, <1>2, <3>1 DEF Decide, ReqSound, Counting, MirrorInv, ClockInRange, TypeOK
      <3>3. req' = [req EXCEPT ![r] = n]
        BY <2>2 DEF MirrorInv, TypeOK
      <3> HIDE DEF n
      <3> QED
        BY <1>0, <3>1, <3>2, <3>3, RequestOnly
    <2> QED
      BY <1>2, <2>1, <2>2 DEF Decide
  <1>3. CASE FetchOk(r)
    <2> DEFINE u == req[r].user
               new == ApplyProfile(req[r].row, profile[u], req[r].now)
               n == [req[r] EXCEPT !.pc = "upsert", !.row = new]
    <2>1. /\ req[r].pc = "fetch" /\ u \in Users /\ DatedFor(u, req[r].row)
          /\ req[r].row \in Row /\ profile[u] \in Nat /\ req[r].now \in Nat
      BY <1>0, <1>3 DEF FetchOk, Req, ReqSound, MirrorInv, TypeOK
    <2>2. new \in Row
      BY <2>1, RowTypes
    <2>3. /\ new.profile = profile[u] /\ new.refreshedAt = req[r].now
          /\ new.name = IF req[r].row.name = 0 THEN profile[u] ELSE req[r].row.name
      BY <2>1, RowColumns
    <2>4. DatedFor(u, new)
      <3>1. /\ req[r].now <= clock /\ req[r].now # 0 /\ req[r].now \in 0..MaxTime
            /\ profile[u] >= 1 /\ profileAt[u][req[r].now] <= profile[u]
        BY <1>0, <2>1, SocialAssumption
           DEF ReqSound, MirrorInv, TypeOK, ClockInRange, HistoryGrows
      <3>2. req[r].row.name \in Nat /\ req[r].row.name <= profile[u]
        BY <2>1 DEF DatedFor, RowDated, Row
      <3> HIDE DEF new
      <3> QED
        BY <2>1, <2>3, <3>1, <3>2 DEF DatedFor, RowDated
    <2>5. req' = [req EXCEPT ![r] = n]
      BY <1>3 DEF FetchOk, MirrorInv, TypeOK
    <2> HIDE DEF new
    <2>6. n \in Req /\ n.pc = "upsert" /\ n.user = u /\ n.row = new
          /\ n.existing = req[r].existing
      BY <1>0, <2>2 DEF Req, PC
    <2>7. ReqSound(n)
      BY <1>0, <2>1, <2>4, <2>6 DEF ReqSound, Counting
    <2> HIDE DEF n
    <2> QED
      BY <1>0, <2>5, <2>6, <2>7, RequestOnly
  <1>4. CASE FetchFails(r)
    <2>1. CASE Hydrated(r)
      <3>1. req[r].existing = "yes"
        BY <1>0, <1>4, <2>1 DEF FetchFails, Hydrated, Goto, NoReq, MirrorInv, TypeOK, Req
      <3> QED
        BY <1>0, <1>4, <2>1, <3>1, HydratedDated, RequestOnly DEF FetchFails, ReqSound
    <2>2. CASE Goto(r, "upsert")
      <3> DEFINE n == [req[r] EXCEPT !.pc = "upsert"]
      <3>1. n \in Req /\ n.pc = "upsert" /\ n.user = req[r].user /\ n.row = req[r].row
            /\ n.existing = req[r].existing
        BY <1>0 DEF Req, PC
      <3>2. ReqSound(n)
        BY <1>0, <1>4, <3>1 DEF FetchFails, ReqSound, Counting
      <3>3. req' = [req EXCEPT ![r] = n]
        BY <2>2 DEF Goto, MirrorInv, TypeOK
      <3> HIDE DEF n
      <3> QED
        BY <1>0, <3>1, <3>2, <3>3, RequestOnly
    <2> QED
      BY <1>4, <2>1, <2>2 DEF FetchFails
  <1> QED
    BY <1>1, <1>2, <1>3, <1>4 DEF Hydrate

\* A step that writes one dated row of a user who then has one, and replaces
\* one request, keeps the invariant.
LEMMA RowWritten ==
  ASSUME MirrorInv, UNCHANGED <<clock, profile, profileAt, follows>>,
         NEW u \in Users, NEW row \in Row, DatedFor(u, row),
         users' = [users EXCEPT ![u] = row], known' = known \cup {u},
         req' \in [Requests -> Req], RequestsSound'
  PROVE  MirrorInv'
  <1>1. TypeOK' /\ EdgesKnown' /\ HistoryGrows' /\ ClockInRange'
    BY DEF MirrorInv, TypeOK, EdgesKnown, HistoryGrows, ClockInRange
  <1>2. ASSUME NEW v \in Users
        PROVE  DatedFor(v, users'[v]) /\ (v \notin known' => users'[v] = NoRow)
    BY DEF MirrorInv, TypeOK, RowsDated
  <1>3. RowsDated'
    BY <1>2 DEF RowsDated, DatedFor
  <1> QED
    BY <1>1, <1>3 DEF MirrorInv

\* Upsert writes the dated row its request holds.
LEMMA UpsertStep ==
  ASSUME MirrorInv, NEW r \in Requests, Upsert(r)
  PROVE  MirrorInv'
  <1> DEFINE u == req[r].user
             new == req[r].row
             row == IF u \in known THEN Merged(users[u], new) ELSE new
             n == [NoReq EXCEPT !.pc = "hydrated", !.user = u]
  <1>1. /\ u \in Users /\ new \in Row /\ DatedFor(u, new) /\ users[u] \in Row
        /\ req[r].pc = "upsert"
    BY DEF Upsert, MirrorInv, TypeOK, RequestsSound, ReqSound, Req
  <1>2. row \in Row
    BY <1>1, RowTypes
  <1>3. DatedFor(u, row)
    <2>1. /\ row.profile = new.profile /\ row.name = new.name
          /\ row.refreshedAt = new.refreshedAt
      BY <1>1, RowColumns
    <2> HIDE DEF row, new
    <2> QED
      BY <1>1, <2>1 DEF DatedFor, RowDated
  <1>4. /\ users' = [users EXCEPT ![u] = row] /\ known' = known \cup {u}
        /\ req' = [req EXCEPT ![r] = n]
        /\ UNCHANGED <<clock, profile, profileAt, follows>>
    BY DEF Upsert, Hydrated
  <1>5. /\ n \in Req /\ n.pc = "hydrated" /\ n.user = u /\ n.row = NoRow
        /\ n.existing = "no"
    BY <1>1, EmptyTypes DEF NoReq, Req, PC
  <1> HIDE DEF row, n, new
  <1>6. req' \in [Requests -> Req]
    BY <1>4, <1>5 DEF MirrorInv, TypeOK
  <1>7. ASSUME NEW q \in Requests
        PROVE  ReqSound(req[q])'
    <2>1. CASE q = r
      <3>1. req'[q] = n
        BY <1>4, <2>1 DEF MirrorInv, TypeOK
      <3>2. DatedFor(u, NoRow)
        BY <1>1, EmptyDated
      <3> QED
        BY <1>1, <1>4, <1>5, <3>1, <3>2 DEF ReqSound, Counting, DatedFor
    <2>2. CASE q # r
      <3>1. req'[q] = req[q] /\ ReqSound(req[q])
        BY <1>4, <2>2 DEF MirrorInv, TypeOK, RequestsSound
      <3> QED
        BY <1>4, <3>1 DEF ReqSound, Counting, DatedFor
    <2> QED
      BY <2>1, <2>2
  <1>8. RequestsSound'
    BY <1>7 DEF RequestsSound
  <1> QED
    BY <1>1, <1>2, <1>3, <1>4, <1>6, <1>8, RowWritten

\* A request past hydration moves on, within the use case it runs.
LEMMA RequestMoves ==
  ASSUME MirrorInv, NEW r \in Requests, NEW to, NEW t \in Users,
         req[r].pc \in Counting \cup {"hydrated"},
         to \in Counting => t \in known,
         to \in Counting \cup {"done"}
  PROVE  LET n == [req[r] EXCEPT !.pc = to, !.target = t] IN n \in Req /\ ReqSound(n)
  <1> DEFINE n == [req[r] EXCEPT !.pc = to, !.target = t]
  <1>1. req[r] \in Req /\ ReqSound(req[r])
    BY DEF MirrorInv, TypeOK, RequestsSound
  <1>2. /\ n \in Req /\ n.pc = to /\ n.target = t /\ n.user = req[r].user
        /\ n.row = req[r].row /\ n.existing = req[r].existing
    BY <1>1 DEF Req, PC, Counting
  <1> HIDE DEF n
  <1>3. ReqSound(n)
    BY <1>1, <1>2 DEF ReqSound, Counting
  <1> QED
    BY <1>2, <1>3 DEF n

\* ... and so does one that only moves its pc.
LEMMA GotoSound ==
  ASSUME MirrorInv, NEW r \in Requests, NEW to, Goto(r, to),
         req[r].pc \in Counting \cup {"hydrated"},
         to \in Counting => req[r].pc \in Counting,
         to \in Counting \cup {"done"}
  PROVE  \E n \in Req : ReqSound(n) /\ req' = [req EXCEPT ![r] = n]
  <1> DEFINE n == [req[r] EXCEPT !.pc = to]
  <1>1. req[r] \in Req /\ ReqSound(req[r])
    BY DEF MirrorInv, TypeOK, RequestsSound
  <1>2. /\ n \in Req /\ n.pc = to /\ n.target = req[r].target /\ n.user = req[r].user
        /\ n.row = req[r].row /\ n.existing = req[r].existing
    BY <1>1 DEF Req, PC, Counting
  <1>3. req' = [req EXCEPT ![r] = n]
    BY DEF Goto, MirrorInv, TypeOK
  <1> HIDE DEF n
  <1>4. ReqSound(n)
    BY <1>1, <1>2 DEF ReqSound, Counting
  <1> QED
    BY <1>2, <1>3, <1>4

\* A statement that writes the bio or a counter of a known user keeps the
\* invariant: the mirrored columns stay.
LEMMA OwnColumnWritten ==
  ASSUME MirrorInv, UNCHANGED <<clock, profile, profileAt, known, follows>>,
         NEW u \in known, NEW row \in Row, users' = [users EXCEPT ![u] = row],
         row.profile = users[u].profile, row.name = users[u].name,
         row.refreshedAt = users[u].refreshedAt,
         NEW r \in Requests, NEW to, Goto(r, to),
         req[r].pc \in Counting \cup {"hydrated"},
         to \in Counting => req[r].pc \in Counting,
         to \in Counting \cup {"done"}
  PROVE  MirrorInv'
  <1>1. u \in Users /\ known' = known \cup {u}
    BY DEF MirrorInv, TypeOK
  <1>2. DatedFor(u, users[u])
    BY <1>1 DEF MirrorInv, RowsDated
  <1>3. DatedFor(u, row)
    BY <1>2 DEF DatedFor, RowDated
  <1>4. PICK n \in Req : ReqSound(n) /\ req' = [req EXCEPT ![r] = n]
    BY GotoSound
  <1>5. req' \in [Requests -> Req] /\ RequestsSound'
    BY <1>4, RequestReplaced
  <1> QED
    BY <1>1, <1>3, <1>5, RowWritten

\* Follow, unfollow and profile update.
LEMMA UseCaseStep ==
  ASSUME MirrorInv, NEW r \in Requests,
         FollowStep(r) \/ \E b \in Bios : UpdateProfile(r, b)
  PROVE  MirrorInv'
  <1>0. /\ req[r] \in Req /\ ReqSound(req[r]) /\ users \in [Users -> Row]
        /\ known \subseteq Users /\ follows \subseteq known \X known
    BY DEF MirrorInv, TypeOK, RequestsSound, EdgesKnown
  <1>u. ASSUME NEW u \in known
        PROVE  users[u] \in Row /\ users[u].following \in Nat /\ users[u].followers \in Nat
               /\ FlooredDecrement(users[u].following) \in Nat
               /\ FlooredDecrement(users[u].followers) \in Nat
    BY <1>0 DEF Row, FlooredDecrement
  <1>1. CASE \E t \in Users : FollowTarget(r, t)
    <2>1. PICK t \in Users : FollowTarget(r, t)
      BY <1>1
    <2> DEFINE n == [req[r] EXCEPT !.pc = "insert", !.target = t]
    <2>2. n \in Req /\ ReqSound(n)
      BY <2>1, RequestMoves DEF FollowTarget, Counting
    <2>3. req' = [req EXCEPT ![r] = n]
      BY <2>1 DEF FollowTarget, MirrorInv, TypeOK
    <2> HIDE DEF n
    <2> QED
      BY <1>0, <2>1, <2>2, <2>3, RequestOnly DEF FollowTarget
  <1>2. CASE InsertFollow(r)
    <2>1. /\ req[r].pc = "insert" /\ req[r].user \in known /\ req[r].target \in known
          /\ UNCHANGED <<clock, profile, profileAt, known, users>>
          /\ follows' \subseteq known \X known
      BY <1>0, <1>2 DEF InsertFollow, ReqSound, Counting
    <2>2. PICK to \in {"done", "incFollowing"} : Goto(r, to)
      BY <1>2 DEF InsertFollow
    <2>3. \E n \in Req : ReqSound(n) /\ req' = [req EXCEPT ![r] = n]
      BY <2>1, <2>2, GotoSound DEF Counting
    <2> QED
      BY <2>1, <2>3, RequestOnly
  <1>3. CASE IncrementFollowingCount(r)
    <2> DEFINE u == req[r].user
               row == [users[u] EXCEPT !.following = @ + 1]
    <2>1. u \in known /\ req[r].pc = "incFollowing"
      BY <1>0, <1>3 DEF IncrementFollowingCount, ReqSound, Counting
    <2>2. /\ row \in Row /\ row.profile = users[u].profile /\ row.name = users[u].name
          /\ row.refreshedAt = users[u].refreshedAt
      BY <1>u, <2>1 DEF Row
    <2>3. users' = [users EXCEPT ![u] = row]
      BY <1>0, <1>3, <2>1 DEF IncrementFollowingCount
    <2> HIDE DEF row
    <2> QED
      BY <1>3, <2>1, <2>2, <2>3, OwnColumnWritten DEF IncrementFollowingCount, Counting
  <1>4. CASE IncrementFollowersCount(r)
    <2> DEFINE u == req[r].target
               row == [users[u] EXCEPT !.followers = @ + 1]
    <2>1. u \in known /\ req[r].pc = "incFollowers"
      BY <1>0, <1>4 DEF IncrementFollowersCount, ReqSound, Counting
    <2>2. /\ row \in Row /\ row.profile = users[u].profile /\ row.name = users[u].name
          /\ row.refreshedAt = users[u].refreshedAt
      BY <1>u, <2>1 DEF Row
    <2>3. users' = [users EXCEPT ![u] = row]
      BY <1>0, <1>4, <2>1 DEF IncrementFollowersCount
    <2> HIDE DEF row
    <2> QED
      BY <1>4, <2>1, <2>2, <2>3, OwnColumnWritten DEF IncrementFollowersCount, Counting
  <1>5. CASE \E t \in Users : DeleteFollow(r, t)
    <2>1. PICK t \in Users : DeleteFollow(r, t)
      BY <1>5
    <2> DEFINE to == IF <<req[r].user, t>> \in follows THEN "decFollowing" ELSE "done"
               n == [req[r] EXCEPT !.pc = to, !.target = t]
    <2>2. req[r].pc = "hydrated" /\ (to \in Counting => t \in known)
      BY <1>0, <2>1 DEF DeleteFollow, Counting
    <2>3. n \in Req /\ ReqSound(n)
      <3>1. to \in Counting \cup {"done"}
        BY DEF Counting
      <3> HIDE DEF to
      <3> QED
        BY <2>2, <3>1, RequestMoves
    <2>4. req' = [req EXCEPT ![r] = n]
      BY <2>1 DEF DeleteFollow, MirrorInv, TypeOK
    <2> HIDE DEF n
    <2> QED
      BY <1>0, <2>1, <2>3, <2>4, RequestOnly DEF DeleteFollow
  <1>6. CASE DecrementFollowingCount(r)
    <2> DEFINE u == req[r].user
               row == [users[u] EXCEPT !.following = FlooredDecrement(@)]
    <2>1. u \in known /\ req[r].pc = "decFollowing"
      BY <1>0, <1>6 DEF DecrementFollowingCount, ReqSound, Counting
    <2>2. /\ row \in Row /\ row.profile = users[u].profile /\ row.name = users[u].name
          /\ row.refreshedAt = users[u].refreshedAt
      BY <1>u, <2>1 DEF Row
    <2>3. users' = [users EXCEPT ![u] = row]
      BY <1>0, <1>6, <2>1 DEF DecrementFollowingCount
    <2> HIDE DEF row
    <2> QED
      BY <1>6, <2>1, <2>2, <2>3, OwnColumnWritten DEF DecrementFollowingCount, Counting
  <1>7. CASE DecrementFollowersCount(r)
    <2> DEFINE u == req[r].target
               row == [users[u] EXCEPT !.followers = FlooredDecrement(@)]
    <2>1. u \in known /\ req[r].pc = "decFollowers"
      BY <1>0, <1>7 DEF DecrementFollowersCount, ReqSound, Counting
    <2>2. /\ row \in Row /\ row.profile = users[u].profile /\ row.name = users[u].name
          /\ row.refreshedAt = users[u].refreshedAt
      BY <1>u, <2>1 DEF Row
    <2>3. users' = [users EXCEPT ![u] = row]
      BY <1>0, <1>7, <2>1 DEF DecrementFollowersCount
    <2> HIDE DEF row
    <2> QED
      BY <1>7, <2>1, <2>2, <2>3, OwnColumnWritten DEF DecrementFollowersCount, Counting
  <1>8. CASE \E b \in Bios : UpdateProfile(r, b)
    <2>0. PICK b \in Bios : UpdateProfile(r, b)
      BY <1>8
    <2> DEFINE u == req[r].user
               row == [users[u] EXCEPT !.bio = b]
    <2>1. u \in known /\ req[r].pc = "hydrated"
      BY <1>0, <2>0 DEF UpdateProfile, ReqSound
    <2>2. /\ row \in Row /\ row.profile = users[u].profile /\ row.name = users[u].name
          /\ row.refreshedAt = users[u].refreshedAt
      BY <1>u, <2>1 DEF Row
    <2>3. users' = [users EXCEPT ![u] = row]
      BY <1>0, <2>0, <2>1 DEF UpdateProfile
    <2> HIDE DEF row
    <2> QED
      BY <2>0, <2>1, <2>2, <2>3, OwnColumnWritten DEF UpdateProfile, Counting
  <1> QED
    BY <1>1, <1>2, <1>3, <1>4, <1>5, <1>6, <1>7, <1>8 DEF FollowStep

\* Rows stay dated when a later instant is recorded or a version is added.
LEMMA DatedLater ==
  ASSUME NEW row \in Row, NEW now \in Nat, NEW later \in Nat, now <= later,
         NEW v \in Nat, NEW w \in Nat, v <= w,
         NEW h, NEW k, \A t \in 0..now : h[t] = k[t],
         RowDated(now, v, h, row)
  PROVE  RowDated(later, w, k, row)
  BY DEF RowDated, Row

\* Time and AuthCore move on.
LEMMA WorldStep ==
  ASSUME MirrorInv, Tick \/ \E u \in Users : ChangeProfile(u)
  PROVE  MirrorInv'
  <1>0. /\ clock \in Nat /\ TTL <= clock /\ clock <= MaxTime
        /\ profile \in [Users -> Nat] /\ profileAt \in [Users -> [0..MaxTime -> Nat]]
        /\ HistoryGrows /\ TTL \in Nat /\ MaxTime \in Nat
    BY SocialAssumption DEF MirrorInv, TypeOK, ClockInRange
  <1>1. /\ UNCHANGED <<known, users, follows, req>>
        /\ clock' \in Nat /\ clock <= clock' /\ clock' <= MaxTime
        /\ profile' \in [Users -> Nat] /\ profileAt' \in [Users -> [0..MaxTime -> Nat]]
        /\ \A u \in Users : /\ profile[u] <= profile'[u]
                            /\ \A t \in 0..clock : profileAt[u][t] = profileAt'[u][t]
        /\ HistoryGrows'
    <2>1. CASE Tick
      <3>1. /\ clock' = clock + 1 /\ clock < MaxTime
            /\ UNCHANGED <<profile, known, users, follows, req>>
            /\ profileAt' = [u \in Users |->
                               [profileAt[u] EXCEPT ![clock + 1] = profile[u]]]
        BY <2>1 DEF Tick
      <3>2. ASSUME NEW u \in Users
            PROVE  /\ profileAt'[u] \in [0..MaxTime -> Nat]
                   /\ \A t \in 0..MaxTime : profileAt'[u][t] =
                        IF t = clock + 1 THEN profile[u] ELSE profileAt[u][t]
        BY <1>0, <3>1
      <3>3. ASSUME NEW u \in Users
            PROVE  /\ profile[u] >= 1
                   /\ \A t \in 0..MaxTime : profileAt'[u][t] <= profile[u]
                   /\ \A s, t \in 0..MaxTime :
                        s <= t /\ t <= clock + 1 => profileAt'[u][s] <= profileAt'[u][t]
        BY <1>0, <3>1, <3>2 DEF HistoryGrows
      <3>4. HistoryGrows'
        BY <3>1, <3>3 DEF HistoryGrows
      <3>5. profileAt' \in [Users -> [0..MaxTime -> Nat]]
        BY <3>1, <3>2
      <3>6. \A u \in Users : \A t \in 0..clock : profileAt[u][t] = profileAt'[u][t]
        BY <1>0, <3>2
      <3> QED
        BY <1>0, <3>1, <3>4, <3>5, <3>6
    <2>2. CASE \E u \in Users : ChangeProfile(u)
      <3>1. PICK u \in Users : ChangeProfile(u)
        BY <2>2
      <3>2. /\ profile' = [profile EXCEPT ![u] = @ + 1]
            /\ UNCHANGED <<clock, profileAt, known, users, follows, req>>
        BY <3>1 DEF ChangeProfile
      <3>3. profile' \in [Users -> Nat] /\ \A v \in Users : profile[v] <= profile'[v]
        BY <1>0, <3>2
      <3>4. HistoryGrows'
        BY <1>0, <3>2, <3>3 DEF HistoryGrows
      <3> QED
        BY <1>0, <3>2, <3>3, <3>4
    <2> QED
      BY <2>1, <2>2
  <1>2. TypeOK' /\ ClockInRange' /\ EdgesKnown'
    <2>1. users \in [Users -> Row] /\ req \in [Requests -> Req]
          /\ known \subseteq Users /\ follows \subseteq Users \X Users /\ EdgesKnown
      BY DEF MirrorInv, TypeOK
    <2>2. TypeOK'
      BY <1>1, <2>1 DEF TypeOK
    <2> QED
      BY <1>0, <1>1, <2>1, <2>2 DEF ClockInRange, EdgesKnown
  <1>3. HistoryGrows'
    BY <1>1
  <1>4. ASSUME NEW u \in Users, NEW row \in Row, DatedFor(u, row)
        PROVE  RowDated(clock', profile'[u], profileAt'[u], row)
    <2>1. /\ profile[u] \in Nat /\ profile'[u] \in Nat /\ profile[u] <= profile'[u]
          /\ \A t \in 0..clock : profileAt[u][t] = profileAt'[u][t]
          /\ RowDated(clock, profile[u], profileAt[u], row)
      BY <1>0, <1>1, <1>4 DEF DatedFor
    <2> QED
      BY <1>0, <1>1, <2>1, DatedLater
  <1>5. RowsDated'
    <2>1. ASSUME NEW u \in Users
          PROVE  (DatedFor(u, users[u]) /\ (u \notin known => users[u] = NoRow))'
      BY <1>1, <1>4 DEF MirrorInv, TypeOK, RowsDated, DatedFor
    <2> QED
      BY <2>1 DEF RowsDated
  <1>6. RequestsSound'
    <2>1. ASSUME NEW r \in Requests
          PROVE  ReqSound(req[r])'
      <3>1. ReqSound(req[r]) /\ req[r].row \in Row /\ req[r].now \in Nat
        BY DEF MirrorInv, TypeOK, RequestsSound, Req
      <3>2. req[r].pc # "idle" =>
              RowDated(clock', profile'[req[r].user], profileAt'[req[r].user], req[r].row)
        BY <1>4, <3>1 DEF ReqSound
      <3> QED
        <4>1. req[r].pc = "fetch" => TTL <= req[r].now /\ req[r].now <= clock'
          BY <1>0, <1>1, <3>1 DEF ReqSound
        <4> QED
          BY <1>1, <3>1, <3>2, <4>1 DEF ReqSound, DatedFor, Counting
    <2> QED
      BY <2>1 DEF RequestsSound
  <1> QED
    BY <1>2, <1>3, <1>5, <1>6 DEF MirrorInv

\* Every step keeps the invariant.
LEMMA MirrorStep == MirrorInv /\ [Next]_vars => MirrorInv'
  <1> SUFFICES ASSUME MirrorInv, [Next]_vars PROVE MirrorInv'
    OBVIOUS
  <1>1. CASE \E r \in Requests : Hydrate(r)
    BY <1>1, HydrateStep, UpsertStep
  <1>2. CASE \E r \in Requests : FollowStep(r) \/ \E b \in Bios : UpdateProfile(r, b)
    BY <1>2, UseCaseStep
  <1>3. CASE Tick \/ \E u \in Users : ChangeProfile(u)
    BY <1>3, WorldStep
  <1>4. CASE UNCHANGED vars
    BY <1>4 DEF vars, MirrorInv, TypeOK, ClockInRange, HistoryGrows, RowsDated,
                DatedFor, RequestsSound, ReqSound, Counting, EdgesKnown
  <1> QED
    BY <1>1, <1>2, <1>3, <1>4 DEF Next

-----------------------------------------------------------------------------
(* The theorems. *)

\* The invariant of rows, requests and history.
THEOREM MirrorInvHolds == Spec => []MirrorInv
  BY MirrorInit, MirrorStep, PTL DEF Spec

\* Every reachable state is well typed: no counter goes below zero.
THEOREM TypeCorrect == Spec => []TypeOK
  <1>1. MirrorInv => TypeOK
    BY DEF MirrorInv
  <1> QED
    BY <1>1, MirrorInvHolds, PTL

\* A mirrored profile is at least as new as its date says, whatever other
\* hydrations of the user were in flight.
THEOREM MirrorIsDated == Spec => []MirrorDated
  <1>1. MirrorInv => MirrorDated
    BY DEF MirrorInv, TypeOK, RowsDated, DatedFor, RowDated, MirrorDated, Row
  <1> QED
    BY <1>1, MirrorInvHolds, PTL

\* A request let through on the mirror alone carries a profile that was
\* current less than TTL ago.
THEOREM FreshIsRecent == Spec => FreshMeansRecent
  <1>1. ASSUME MirrorInv, [Next]_vars, NEW r \in Requests,
               req[r].pc = "decide", req'[r].pc = "hydrated"
        PROVE  req[r].row.profile >= profileAt[req[r].user][clock - TTL + 1]
    <2> DEFINE u == req[r].user
               at == req[r].row.refreshedAt
    <2>1. /\ u \in Users /\ DatedFor(u, req[r].row) /\ req[r].row \in Row
          /\ req[r] \in Req /\ at \in Nat
      BY <1>1 DEF MirrorInv, TypeOK, RequestsSound, ReqSound, Req, Row
    <2>2. Decide(r)
      <3>1. ASSUME NEW q \in Requests, q # r, Hydrate(q) \/ FollowStep(q) \/
                     \E b \in Bios : UpdateProfile(q, b)
            PROVE  req'[r] = req[r]
        BY <3>1, <1>1
           DEF Hydrate, GetBySub, Decide, FetchOk, FetchFails, Upsert, Hydrated, Goto,
               FollowStep, FollowTarget, InsertFollow, IncrementFollowingCount,
               IncrementFollowersCount, DeleteFollow, DecrementFollowingCount,
               DecrementFollowersCount, UpdateProfile, MirrorInv, TypeOK
      <3>2. Hydrate(r) \/ FollowStep(r) \/ \E b \in Bios : UpdateProfile(r, b)
        BY <1>1, <3>1 DEF Next, Tick, ChangeProfile, vars
      <3> QED
        BY <1>1, <3>2
           DEF Hydrate, GetBySub, FetchOk, FetchFails, Upsert, FollowStep, FollowTarget,
               InsertFollow, IncrementFollowingCount, IncrementFollowersCount,
               DeleteFollow, DecrementFollowingCount, DecrementFollowersCount,
               UpdateProfile
    <2>3. Fresh(req[r].row, clock)
      BY <1>1, <2>1, <2>2 DEF Decide, MirrorInv, TypeOK, Req
    <2>4. /\ clock - TTL + 1 \in 0..MaxTime /\ at \in 0..MaxTime
          /\ clock - TTL + 1 <= at /\ at <= clock /\ at # 0
      BY <1>1, <2>1, <2>3, SocialAssumption
         DEF Fresh, MirrorInv, TypeOK, ClockInRange, DatedFor, RowDated
    <2>5. profileAt[u][clock - TTL + 1] <= profileAt[u][at]
      BY <1>1, <2>1, <2>4 DEF MirrorInv, HistoryGrows
    <2>6. /\ profileAt[u][at] <= req[r].row.profile
          /\ profileAt[u][at] \in Nat /\ profileAt[u][clock - TTL + 1] \in Nat
          /\ req[r].row.profile \in Nat
      BY <1>1, <2>1, <2>4 DEF DatedFor, RowDated, Row, MirrorInv, TypeOK
    <2> QED
      BY <2>5, <2>6
  <1>2. MirrorInv /\ [Next]_vars =>
          [\A r \in Requests :
             req[r].pc = "decide" /\ req'[r].pc = "hydrated" =>
               req[r].row.profile >= profileAt[req[r].user][clock - TTL + 1]]_vars
    BY <1>1
  <1> QED
    BY <1>2, MirrorInvHolds, PTL DEF Spec, FreshMeansRecent

\* No late write empties a bio.
THEOREM BioKept == Spec => BioNotErased
  <1> DEFINE Erased(u) == users[u].bio # NoBio /\ users'[u].bio = NoBio
             ByUser(u) == \E r \in Requests : req[r].user = u /\ UpdateProfile(r, NoBio)
  <1>1. ASSUME MirrorInv, [Next]_vars, NEW u \in Users, Erased(u)
        PROVE  ByUser(u)
    <2>0. /\ users \in [Users -> Row] /\ users[u] \in Row
          /\ u \notin known => users[u] = NoRow
      BY <1>1 DEF MirrorInv, TypeOK, RowsDated
    <2>1. ASSUME NEW r \in Requests, Upsert(r)
          PROVE  FALSE
      <3>1. req[r].row \in Row
        BY <1>1 DEF MirrorInv, TypeOK, Req
      <3>2. Merged(users[u], req[r].row).bio
              = IF req[r].row.bio = NoBio THEN users[u].bio ELSE req[r].row.bio
        BY <2>0, <3>1, RowColumns
      <3>3. CASE req[r].user # u
        BY <1>1, <2>0, <2>1, <3>3 DEF Upsert
      <3>4. CASE req[r].user = u /\ u \in known
        <4>1. users'[u] = Merged(users[u], req[r].row)
          BY <2>0, <2>1, <3>4 DEF Upsert
        <4> QED
          BY <1>1, <3>2, <4>1
      <3>5. CASE u \notin known
        BY <1>1, <2>0, <3>5 DEF NoRow
      <3> QED
        BY <3>3, <3>4, <3>5
    <2>2. ASSUME NEW r \in Requests, FollowStep(r)
          PROVE  FALSE
      <3>1. ASSUME NEW v, NEW n,
                   \/ users' = [users EXCEPT ![v].following = n]
                   \/ users' = [users EXCEPT ![v].followers = n]
                   \/ users' = users
            PROVE  users'[u].bio = users[u].bio
        BY <2>0, <3>1 DEF Row
      <3>2. users'[u].bio = users[u].bio
        BY <2>2, <3>1
           DEF FollowStep, FollowTarget, InsertFollow, IncrementFollowingCount,
               IncrementFollowersCount, DeleteFollow, DecrementFollowingCount,
               DecrementFollowersCount
      <3> QED
        BY <1>1, <3>2
    <2>3. ASSUME NEW r \in Requests, NEW b \in Bios, UpdateProfile(r, b)
          PROVE  ByUser(u)
      <3>1. req[r].user = u
        BY <1>1, <2>0, <2>3 DEF UpdateProfile
      <3>2. b = NoBio
        BY <1>1, <2>0, <2>3, <3>1 DEF UpdateProfile, Row
      <3> QED
        BY <2>3, <3>1, <3>2
    <2>4. \E r \in Requests : \/ Upsert(r) \/ FollowStep(r)
                              \/ \E b \in Bios : UpdateProfile(r, b)
      BY <1>1 DEF Next, Hydrate, GetBySub, Decide, FetchOk, FetchFails, Tick,
                  ChangeProfile, vars
    <2> QED
      BY <2>1, <2>2, <2>3, <2>4
  <1>2. MirrorInv /\ [Next]_vars => [\A u \in Users : Erased(u) => ByUser(u)]_vars
    BY <1>1
  <1> QED
    BY <1>2, MirrorInvHolds, PTL DEF Spec, BioNotErased

-----------------------------------------------------------------------------
(* The follow ledger. *)

\* A counter with the increments to come, against the rows and the decrements
\* to come.
Covers(count, incs, rows, decs) ==
    count + Cardinality(incs) >= Cardinality(rows) + Cardinality(decs)

FollowingCovered(u) ==
    Covers(users[u].following, FollowingIncs(u), Following(u), FollowingDecs(u))
FollowersCovered(u) ==
    Covers(users[u].followers, FollowersIncs(u), Followers(u), FollowersDecs(u))

\* The ledger of every user, also of those without a row.
FollowLedger == \A u \in Users : FollowingCovered(u) /\ FollowersCovered(u)

\* The requests that owe a statement to a counter.
Owing == {"incFollowing", "incFollowers", "decFollowing", "decFollowers"}

\* An inserted row is covered by the increment its request owes, and the
\* increment then by the counter.
LEMMA CoversFollow ==
    ASSUME NEW n \in Nat, NEW I, NEW F, NEW D,
           IsFiniteSet(I), IsFiniteSet(F), IsFiniteSet(D), Covers(n, I, F, D)
    PROVE  /\ \A r, v : r \notin I /\ v \notin F => Covers(n, I \cup {r}, F \cup {v}, D)
           /\ \A r \in I : Covers(n + 1, I \ {r}, F, D)
  <1>1. Cardinality(I) \in Nat /\ Cardinality(F) \in Nat /\ Cardinality(D) \in Nat
    BY FS_CardinalityType
  <1>2. ASSUME NEW r, NEW v, r \notin I, v \notin F
        PROVE  Covers(n, I \cup {r}, F \cup {v}, D)
    <2>1. /\ Cardinality(I \cup {r}) = Cardinality(I) + 1
          /\ Cardinality(F \cup {v}) = Cardinality(F) + 1
      BY <1>2, FS_AddElement
    <2> QED
      BY <1>1, <2>1 DEF Covers
  <1>3. ASSUME NEW r \in I
        PROVE  Covers(n + 1, I \ {r}, F, D)
    <2>1. Cardinality(I \ {r}) = Cardinality(I) - 1
      BY FS_RemoveElement
    <2> QED
      BY <1>1, <2>1 DEF Covers
  <1> QED
    BY <1>2, <1>3

\* A deleted row is replaced by the decrement its request owes, and the
\* decrement, floored at zero, never takes more than it owes.
LEMMA CoversUnfollow ==
    ASSUME NEW n \in Nat, NEW I, NEW F, NEW D,
           IsFiniteSet(I), IsFiniteSet(F), IsFiniteSet(D), Covers(n, I, F, D)
    PROVE  /\ \A r, v : r \notin D /\ v \in F => Covers(n, I, F \ {v}, D \cup {r})
           /\ \A r \in D : Covers(FlooredDecrement(n), I, F, D \ {r})
  <1>1. Cardinality(I) \in Nat /\ Cardinality(F) \in Nat /\ Cardinality(D) \in Nat
    BY FS_CardinalityType
  <1>2. ASSUME NEW r, NEW v, r \notin D, v \in F
        PROVE  Covers(n, I, F \ {v}, D \cup {r})
    <2>1. /\ Cardinality(D \cup {r}) = Cardinality(D) + 1
          /\ Cardinality(F \ {v}) = Cardinality(F) - 1
      BY <1>2, FS_AddElement, FS_RemoveElement
    <2> QED
      BY <1>1, <2>1 DEF Covers
  <1>3. ASSUME NEW r \in D
        PROVE  Covers(FlooredDecrement(n), I, F, D \ {r})
    <2>1. Cardinality(D \ {r}) = Cardinality(D) - 1
      BY FS_RemoveElement
    <2> QED
      BY <1>1, <2>1 DEF Covers, FlooredDecrement
  <1> QED
    BY <1>2, <1>3

\* The sets the ledger counts are finite.
LEMMA LedgerSetsFinite ==
    ASSUME NEW u
    PROVE  /\ IsFiniteSet(Following(u)) /\ IsFiniteSet(Followers(u))
           /\ IsFiniteSet(FollowingIncs(u)) /\ IsFiniteSet(FollowingDecs(u))
           /\ IsFiniteSet(FollowersIncs(u)) /\ IsFiniteSet(FollowersDecs(u))
  <1>1. Following(u) \subseteq Users /\ Followers(u) \subseteq Users
    BY DEF Following, Followers
  <1>2. /\ FollowingIncs(u) \subseteq Requests /\ FollowingDecs(u) \subseteq Requests
        /\ FollowersIncs(u) \subseteq Requests /\ FollowersDecs(u) \subseteq Requests
    BY DEF FollowingIncs, FollowingDecs, FollowersIncs, FollowersDecs
  <1> QED
    BY <1>1, <1>2, FS_Subset, SocialAssumption

\* Requests that owe nothing before a step and nothing after leave the
\* ledger's sets alone.
LEMMA OwedAlone ==
    ASSUME NEW u,
           \A q \in Requests : \/ req'[q] = req[q]
                               \/ req[q].pc \notin Owing /\ req'[q].pc \notin Owing
    PROVE  /\ FollowingIncs(u)' = FollowingIncs(u) /\ FollowingDecs(u)' = FollowingDecs(u)
           /\ FollowersIncs(u)' = FollowersIncs(u) /\ FollowersDecs(u)' = FollowersDecs(u)
  BY DEF FollowingIncs, FollowingDecs, FollowersIncs, FollowersDecs, Owing

\* The ledger holds at the start: no rows, no requests.
LEMMA LedgerInit == Init => FollowLedger
  <1> SUFFICES ASSUME Init, NEW u \in Users
               PROVE  FollowingCovered(u) /\ FollowersCovered(u)
    BY DEF FollowLedger
  <1>1. /\ Following(u) = {} /\ Followers(u) = {}
        /\ FollowingIncs(u) = {} /\ FollowingDecs(u) = {}
        /\ FollowersIncs(u) = {} /\ FollowersDecs(u) = {}
    BY DEF Init, Following, Followers, FollowingIncs, FollowingDecs, FollowersIncs,
           FollowersDecs, NoReq
  <1>2. users[u].following \in Nat /\ users[u].followers \in Nat
    BY MirrorInit DEF MirrorInv, TypeOK, Row
  <1> QED
    BY <1>1, <1>2, FS_EmptySet DEF FollowingCovered, FollowersCovered, Covers

\* A user without a row has nothing to cover.
LEMMA UnknownOwesNothing ==
    ASSUME MirrorInv, NEW u \in Users \ known
    PROVE  /\ Following(u) = {} /\ Followers(u) = {}
           /\ FollowingDecs(u) = {} /\ FollowersDecs(u) = {}
  <1>1. Following(u) = {} /\ Followers(u) = {}
    BY DEF MirrorInv, EdgesKnown, Following, Followers
  <1>2. FollowingDecs(u) = {} /\ FollowersDecs(u) = {}
    BY DEF MirrorInv, RequestsSound, ReqSound, Counting, FollowingDecs, FollowersDecs
  <1> QED
    BY <1>1, <1>2

\* Hydration writes a row back without its counters.
LEMMA HydrateLedger ==
    ASSUME MirrorInv, FollowLedger, NEW r \in Requests, Hydrate(r)
    PROVE  FollowLedger'
  <1> SUFFICES ASSUME NEW u \in Users
               PROVE  FollowingCovered(u)' /\ FollowersCovered(u)'
    BY DEF FollowLedger
  <1>0. /\ req \in [Requests -> Req] /\ users \in [Users -> Row] /\ users[u] \in Row
        /\ req[r] \in Req /\ req[r].row \in Row
    BY DEF MirrorInv, TypeOK, Req
  <1>1. \A q \in Requests : \/ req'[q] = req[q]
                            \/ req[q].pc \notin Owing /\ req'[q].pc \notin Owing
    <2>1. \A q \in Requests : q # r => req'[q] = req[q]
      BY <1>0 DEF Hydrate, GetBySub, Decide, FetchOk, FetchFails, Upsert, Hydrated, Goto
    <2>2. req[r].pc \notin Owing
      BY DEF Hydrate, GetBySub, Decide, FetchOk, FetchFails, Upsert, Owing
    <2>3. req'[r].pc \in {"decide", "fetch", "upsert", "hydrated"}
      <3>1. Hydrated(r) => req'[r].pc = "hydrated"
        BY <1>0 DEF Hydrated, NoReq
      <3>2. ASSUME NEW v \in Users, GetBySub(r, v)
            PROVE  req'[r].pc = "decide"
        BY <1>0, <3>2 DEF GetBySub, NoReq
      <3>3. CASE Decide(r) \/ FetchOk(r) \/ FetchFails(r) \/ Upsert(r)
        BY <1>0, <3>1, <3>3 DEF Decide, FetchOk, FetchFails, Upsert, Goto, Req
      <3> QED
        BY <3>2, <3>3 DEF Hydrate
    <2> QED
      BY <2>1, <2>2, <2>3 DEF Owing
  <1>2. follows' = follows
    BY DEF Hydrate, GetBySub, Decide, FetchOk, FetchFails, Upsert
  <1>3. Following(u)' = Following(u) /\ Followers(u)' = Followers(u)
    BY <1>2 DEF Following, Followers
  <1>4. CASE /\ users'[u].following = users[u].following
             /\ users'[u].followers = users[u].followers
    BY <1>1, <1>3, <1>4, OwedAlone DEF FollowLedger, FollowingCovered, FollowersCovered
  <1>5. CASE Upsert(r) /\ req[r].user = u /\ u \in known
    <2>1. users'[u] = Merged(users[u], req[r].row)
      BY <1>0, <1>5 DEF Upsert
    <2>2. /\ users'[u].following = users[u].following
          /\ users'[u].followers = users[u].followers
      BY <1>0, <2>1 DEF Merged, Row
    <2> QED
      BY <1>4, <2>2
  <1>6. CASE Upsert(r) /\ req[r].user = u /\ u \notin known
    <2>1. users'[u] = req[r].row
      BY <1>0, <1>6 DEF Upsert
    <2>2. users'[u].following \in Nat /\ users'[u].followers \in Nat
      BY <1>0, <2>1 DEF Row
    <2>3. /\ Following(u)' = {} /\ Followers(u)' = {}
          /\ FollowingDecs(u)' = {} /\ FollowersDecs(u)' = {}
      BY <1>1, <1>3, <1>6, UnknownOwesNothing, OwedAlone
    <2>4. Cardinality(FollowingIncs(u)') \in Nat /\ Cardinality(FollowersIncs(u)') \in Nat
      BY <1>1, OwedAlone, LedgerSetsFinite, FS_CardinalityType
    <2> QED
      BY <2>2, <2>3, <2>4, FS_EmptySet DEF FollowingCovered, FollowersCovered, Covers
  <1>7. CASE ~Upsert(r) \/ req[r].user # u
    <2>1. users'[u] = users[u]
      BY <1>0, <1>7 DEF Hydrate, GetBySub, Decide, FetchOk, FetchFails, Upsert
    <2> QED
      BY <1>4, <2>1
  <1> QED
    BY <1>5, <1>6, <1>7

\* A follow row and its increments, an unfollow and its decrements.
LEMMA FollowLedgerStep ==
    ASSUME MirrorInv, FollowLedger, NEW r \in Requests, FollowStep(r)
    PROVE  FollowLedger'
  <1> SUFFICES ASSUME NEW u \in Users
               PROVE  FollowingCovered(u)' /\ FollowersCovered(u)'
    BY DEF FollowLedger
  <1>0. /\ req \in [Requests -> Req] /\ users \in [Users -> Row] /\ users[u] \in Row
        /\ req[r] \in Req /\ users[u].following \in Nat /\ users[u].followers \in Nat
        /\ req[r].pc \in Counting => req[r].user \in Users /\ req[r].target \in Users
        /\ FollowingCovered(u) /\ FollowersCovered(u)
    BY DEF MirrorInv, TypeOK, Row, RequestsSound, ReqSound, FollowLedger
  <1> DEFINE me == req[r].user
             to == req[r].target
  <1>1. ASSUME NEW t \in Users, FollowTarget(r, t)
        PROVE  FollowingCovered(u)' /\ FollowersCovered(u)'
    <2>1. \A q \in Requests : \/ req'[q] = req[q]
                              \/ req[q].pc \notin Owing /\ req'[q].pc \notin Owing
      BY <1>0, <1>1 DEF FollowTarget, Owing, Req
    <2>2. /\ UNCHANGED users /\ Following(u)' = Following(u) /\ Followers(u)' = Followers(u)
      BY <1>1 DEF FollowTarget, Following, Followers
    <2> QED
      BY <1>0, <2>1, <2>2, OwedAlone DEF FollowingCovered, FollowersCovered
  <1>2. CASE InsertFollow(r)
    <2>1. /\ req[r].pc = "insert" /\ me \in Users /\ to \in Users
          /\ follows' = follows \cup {<<me, to>>} /\ users' = users
      BY <1>0, <1>2 DEF InsertFollow, Counting
    <2>2. CASE <<me, to>> \in follows
      <3>1. \A q \in Requests : \/ req'[q] = req[q]
                                \/ req[q].pc \notin Owing /\ req'[q].pc \notin Owing
        BY <1>0, <1>2, <2>2 DEF InsertFollow, Goto, Owing, Req
      <3>2. Following(u)' = Following(u) /\ Followers(u)' = Followers(u)
        BY <2>1, <2>2 DEF Following, Followers
      <3> QED
        BY <1>0, <2>1, <3>1, <3>2, OwedAlone DEF FollowingCovered, FollowersCovered
    <2>3. CASE <<me, to>> \notin follows
      <3>1. req' = [req EXCEPT ![r].pc = "incFollowing"]
        BY <1>2, <2>3 DEF InsertFollow, Goto
      <3>2. /\ req'[r].pc = "incFollowing" /\ req'[r].user = me /\ req'[r].target = to
            /\ \A q \in Requests : q # r => req'[q] = req[q]
        BY <1>0, <3>1 DEF Req
      <3>3. FollowingDecs(u)' = FollowingDecs(u) /\ FollowersDecs(u)' = FollowersDecs(u)
        BY <2>1, <3>2 DEF FollowingDecs, FollowersDecs
      <3>4. FollowingCovered(u)'
        <4>1. CASE me = u
          <5>1. /\ FollowingIncs(u)' = FollowingIncs(u) \cup {r} /\ r \notin FollowingIncs(u)
                /\ Following(u)' = Following(u) \cup {to} /\ to \notin Following(u)
            BY <2>1, <2>3, <3>2, <4>1 DEF FollowingIncs, Following
          <5> QED
            BY <1>0, <2>1, <3>3, <5>1, CoversFollow, LedgerSetsFinite DEF FollowingCovered
        <4>2. CASE me # u
          <5>1. FollowingIncs(u)' = FollowingIncs(u) /\ Following(u)' = Following(u)
            BY <2>1, <3>2, <4>2 DEF FollowingIncs, Following
          <5> QED
            BY <1>0, <2>1, <3>3, <5>1 DEF FollowingCovered
        <4> QED
          BY <4>1, <4>2
      <3>5. FollowersCovered(u)'
        <4>1. CASE to = u
          <5>1. /\ FollowersIncs(u)' = FollowersIncs(u) \cup {r} /\ r \notin FollowersIncs(u)
                /\ Followers(u)' = Followers(u) \cup {me} /\ me \notin Followers(u)
            BY <2>1, <2>3, <3>2, <4>1 DEF FollowersIncs, Followers
          <5> QED
            BY <1>0, <2>1, <3>3, <5>1, CoversFollow, LedgerSetsFinite DEF FollowersCovered
        <4>2. CASE to # u
          <5>1. FollowersIncs(u)' = FollowersIncs(u) /\ Followers(u)' = Followers(u)
            BY <2>1, <3>2, <4>2 DEF FollowersIncs, Followers
          <5> QED
            BY <1>0, <2>1, <3>3, <5>1 DEF FollowersCovered
        <4> QED
          BY <4>1, <4>2
      <3> QED
        BY <3>4, <3>5
    <2> QED
      BY <2>2, <2>3
  <1>3. CASE IncrementFollowingCount(r)
    <2>1. /\ req[r].pc = "incFollowing" /\ me \in Users /\ follows' = follows
          /\ users' = [users EXCEPT ![me].following = @ + 1]
          /\ req' = [req EXCEPT ![r].pc = "incFollowers"]
      BY <1>0, <1>3 DEF IncrementFollowingCount, Goto, Counting
    <2>2. /\ req'[r].pc = "incFollowers" /\ req'[r].user = me /\ req'[r].target = to
          /\ \A q \in Requests : q # r => req'[q] = req[q]
      BY <1>0, <2>1 DEF Req
    <2>3. /\ FollowingDecs(u)' = FollowingDecs(u) /\ FollowersDecs(u)' = FollowersDecs(u)
          /\ FollowersIncs(u)' = FollowersIncs(u)
      BY <2>1, <2>2 DEF FollowingDecs, FollowersDecs, FollowersIncs
    <2>4. Following(u)' = Following(u) /\ Followers(u)' = Followers(u)
      BY <2>1 DEF Following, Followers
    <2>5. /\ users'[u].followers = users[u].followers
          /\ users'[u].following = IF me = u THEN users[u].following + 1 ELSE users[u].following
      BY <1>0, <2>1 DEF Row
    <2>6. FollowersCovered(u)'
      BY <1>0, <2>3, <2>4, <2>5 DEF FollowersCovered
    <2>7. CASE me = u
      <3>1. FollowingIncs(u)' = FollowingIncs(u) \ {r} /\ r \in FollowingIncs(u)
        BY <2>1, <2>2, <2>7 DEF FollowingIncs
      <3>2. FollowingCovered(u)'
        BY <1>0, <2>3, <2>4, <2>5, <2>7, <3>1, CoversFollow, LedgerSetsFinite DEF FollowingCovered
      <3> QED
        BY <2>6, <3>2
    <2>8. CASE me # u
      <3>1. FollowingIncs(u)' = FollowingIncs(u)
        BY <2>2, <2>8 DEF FollowingIncs
      <3> QED
        BY <1>0, <2>3, <2>4, <2>5, <2>6, <2>8, <3>1 DEF FollowingCovered
    <2> QED
      BY <2>7, <2>8
  <1>4. CASE IncrementFollowersCount(r)
    <2>1. /\ req[r].pc = "incFollowers" /\ to \in Users /\ follows' = follows
          /\ users' = [users EXCEPT ![to].followers = @ + 1]
          /\ req' = [req EXCEPT ![r].pc = "done"]
      BY <1>0, <1>4 DEF IncrementFollowersCount, Goto, Counting
    <2>2. /\ req'[r].pc = "done" /\ req'[r].user = me /\ req'[r].target = to
          /\ \A q \in Requests : q # r => req'[q] = req[q]
      BY <1>0, <2>1 DEF Req
    <2>3. /\ FollowingDecs(u)' = FollowingDecs(u) /\ FollowersDecs(u)' = FollowersDecs(u)
          /\ FollowingIncs(u)' = FollowingIncs(u)
      BY <2>1, <2>2 DEF FollowingDecs, FollowersDecs, FollowingIncs
    <2>4. Following(u)' = Following(u) /\ Followers(u)' = Followers(u)
      BY <2>1 DEF Following, Followers
    <2>5. /\ users'[u].following = users[u].following
          /\ users'[u].followers = IF to = u THEN users[u].followers + 1 ELSE users[u].followers
      BY <1>0, <2>1 DEF Row
    <2>6. FollowingCovered(u)'
      BY <1>0, <2>3, <2>4, <2>5 DEF FollowingCovered
    <2>7. CASE to = u
      <3>1. FollowersIncs(u)' = FollowersIncs(u) \ {r} /\ r \in FollowersIncs(u)
        BY <2>1, <2>2, <2>7 DEF FollowersIncs
      <3>2. FollowersCovered(u)'
        BY <1>0, <2>3, <2>4, <2>5, <2>7, <3>1, CoversFollow, LedgerSetsFinite DEF FollowersCovered
      <3> QED
        BY <2>6, <3>2
    <2>8. CASE to # u
      <3>1. FollowersIncs(u)' = FollowersIncs(u)
        BY <2>2, <2>8 DEF FollowersIncs
      <3> QED
        BY <1>0, <2>3, <2>4, <2>5, <2>6, <2>8, <3>1 DEF FollowersCovered
    <2> QED
      BY <2>7, <2>8
  <1>5. ASSUME NEW t \in Users, DeleteFollow(r, t)
        PROVE  FollowingCovered(u)' /\ FollowersCovered(u)'
    <2>1. /\ req[r].pc = "hydrated" /\ me \in Users
          /\ follows' = follows \ {<<me, t>>} /\ users' = users
      BY <1>0, <1>5 DEF DeleteFollow, MirrorInv, RequestsSound, ReqSound
    <2>2. CASE <<me, t>> \notin follows
      <3>1. \A q \in Requests : \/ req'[q] = req[q]
                                \/ req[q].pc \notin Owing /\ req'[q].pc \notin Owing
        BY <1>0, <1>5, <2>2 DEF DeleteFollow, Owing, Req
      <3>2. Following(u)' = Following(u) /\ Followers(u)' = Followers(u)
        BY <2>1, <2>2 DEF Following, Followers
      <3> QED
        BY <1>0, <2>1, <3>1, <3>2, OwedAlone DEF FollowingCovered, FollowersCovered
    <2>3. CASE <<me, t>> \in follows
      <3>1. req' = [req EXCEPT ![r].target = t, ![r].pc = "decFollowing"]
        BY <1>5, <2>3 DEF DeleteFollow
      <3>2. /\ req'[r].pc = "decFollowing" /\ req'[r].user = me /\ req'[r].target = t
            /\ \A q \in Requests : q # r => req'[q] = req[q]
        BY <1>0, <3>1 DEF Req
      <3>3. FollowingIncs(u)' = FollowingIncs(u) /\ FollowersIncs(u)' = FollowersIncs(u)
        BY <2>1, <3>2 DEF FollowingIncs, FollowersIncs
      <3>4. FollowingCovered(u)'
        <4>1. CASE me = u
          <5>1. /\ FollowingDecs(u)' = FollowingDecs(u) \cup {r} /\ r \notin FollowingDecs(u)
                /\ Following(u)' = Following(u) \ {t} /\ t \in Following(u)
            BY <2>1, <2>3, <3>2, <4>1 DEF FollowingDecs, Following
          <5> QED
            BY <1>0, <2>1, <3>3, <5>1, CoversUnfollow, LedgerSetsFinite DEF FollowingCovered
        <4>2. CASE me # u
          <5>1. FollowingDecs(u)' = FollowingDecs(u) /\ Following(u)' = Following(u)
            BY <2>1, <3>2, <4>2 DEF FollowingDecs, Following
          <5> QED
            BY <1>0, <2>1, <3>3, <5>1 DEF FollowingCovered
        <4> QED
          BY <4>1, <4>2
      <3>5. FollowersCovered(u)'
        <4>1. CASE t = u
          <5>1. /\ FollowersDecs(u)' = FollowersDecs(u) \cup {r} /\ r \notin FollowersDecs(u)
                /\ Followers(u)' = Followers(u) \ {me} /\ me \in Followers(u)
            BY <2>1, <2>3, <3>2, <4>1 DEF FollowersDecs, Followers
          <5> QED
            BY <1>0, <2>1, <3>3, <5>1, CoversUnfollow, LedgerSetsFinite DEF FollowersCovered
        <4>2. CASE t # u
          <5>1. FollowersDecs(u)' = FollowersDecs(u) /\ Followers(u)' = Followers(u)
            BY <2>1, <3>2, <4>2 DEF FollowersDecs, Followers
          <5> QED
            BY <1>0, <2>1, <3>3, <5>1 DEF FollowersCovered
        <4> QED
          BY <4>1, <4>2
      <3> QED
        BY <3>4, <3>5
    <2> QED
      BY <2>2, <2>3
  <1>6. CASE DecrementFollowingCount(r)
    <2>1. /\ req[r].pc = "decFollowing" /\ me \in Users /\ follows' = follows
          /\ users' = [users EXCEPT ![me].following = FlooredDecrement(@)]
          /\ req' = [req EXCEPT ![r].pc = "decFollowers"]
      BY <1>0, <1>6 DEF DecrementFollowingCount, Goto, Counting
    <2>2. /\ req'[r].pc = "decFollowers" /\ req'[r].user = me /\ req'[r].target = to
          /\ \A q \in Requests : q # r => req'[q] = req[q]
      BY <1>0, <2>1 DEF Req
    <2>3. /\ FollowingIncs(u)' = FollowingIncs(u) /\ FollowersDecs(u)' = FollowersDecs(u)
          /\ FollowersIncs(u)' = FollowersIncs(u)
      BY <2>1, <2>2 DEF FollowingIncs, FollowersDecs, FollowersIncs
    <2>4. Following(u)' = Following(u) /\ Followers(u)' = Followers(u)
      BY <2>1 DEF Following, Followers
    <2>5. /\ users'[u].followers = users[u].followers
          /\ users'[u].following = IF me = u THEN FlooredDecrement(users[u].following)
                                              ELSE users[u].following
      BY <1>0, <2>1 DEF Row
    <2>6. FollowersCovered(u)'
      BY <1>0, <2>3, <2>4, <2>5 DEF FollowersCovered
    <2>7. CASE me = u
      <3>1. FollowingDecs(u)' = FollowingDecs(u) \ {r} /\ r \in FollowingDecs(u)
        BY <2>1, <2>2, <2>7 DEF FollowingDecs
      <3>2. FollowingCovered(u)'
        BY <1>0, <2>3, <2>4, <2>5, <2>7, <3>1, CoversUnfollow, LedgerSetsFinite
           DEF FollowingCovered
      <3> QED
        BY <2>6, <3>2
    <2>8. CASE me # u
      <3>1. FollowingDecs(u)' = FollowingDecs(u)
        BY <2>2, <2>8 DEF FollowingDecs
      <3> QED
        BY <1>0, <2>3, <2>4, <2>5, <2>6, <2>8, <3>1 DEF FollowingCovered
    <2> QED
      BY <2>7, <2>8
  <1>7. CASE DecrementFollowersCount(r)
    <2>1. /\ req[r].pc = "decFollowers" /\ to \in Users /\ follows' = follows
          /\ users' = [users EXCEPT ![to].followers = FlooredDecrement(@)]
          /\ req' = [req EXCEPT ![r].pc = "done"]
      BY <1>0, <1>7 DEF DecrementFollowersCount, Goto, Counting
    <2>2. /\ req'[r].pc = "done" /\ req'[r].user = me /\ req'[r].target = to
          /\ \A q \in Requests : q # r => req'[q] = req[q]
      BY <1>0, <2>1 DEF Req
    <2>3. /\ FollowingIncs(u)' = FollowingIncs(u) /\ FollowingDecs(u)' = FollowingDecs(u)
          /\ FollowersIncs(u)' = FollowersIncs(u)
      BY <2>1, <2>2 DEF FollowingIncs, FollowingDecs, FollowersIncs
    <2>4. Following(u)' = Following(u) /\ Followers(u)' = Followers(u)
      BY <2>1 DEF Following, Followers
    <2>5. /\ users'[u].following = users[u].following
          /\ users'[u].followers = IF to = u THEN FlooredDecrement(users[u].followers)
                                              ELSE users[u].followers
      BY <1>0, <2>1 DEF Row
    <2>6. FollowingCovered(u)'
      BY <1>0, <2>3, <2>4, <2>5 DEF FollowingCovered
    <2>7. CASE to = u
      <3>1. FollowersDecs(u)' = FollowersDecs(u) \ {r} /\ r \in FollowersDecs(u)
        BY <2>1, <2>2, <2>7 DEF FollowersDecs
      <3>2. FollowersCovered(u)'
        BY <1>0, <2>3, <2>4, <2>5, <2>7, <3>1, CoversUnfollow, LedgerSetsFinite
           DEF FollowersCovered
      <3> QED
        BY <2>6, <3>2
    <2>8. CASE to # u
      <3>1. FollowersDecs(u)' = FollowersDecs(u)
        BY <2>2, <2>8 DEF FollowersDecs
      <3> QED
        BY <1>0, <2>3, <2>4, <2>5, <2>6, <2>8, <3>1 DEF FollowersCovered
    <2> QED
      BY <2>7, <2>8
  <1> QED
    BY <1>1, <1>2, <1>3, <1>4, <1>5, <1>6, <1>7 DEF FollowStep

\* What a request still owes to a counter, with the counter, covers the rows,
\* whatever hydrations write back in between.
THEOREM CountsCoverFollows == Spec => []FollowCountsCover
  <1>1. ASSUME MirrorInv, FollowLedger, [Next]_vars
        PROVE  FollowLedger'
    <2>0. req \in [Requests -> Req] /\ users \in [Users -> Row]
      BY <1>1 DEF MirrorInv, TypeOK
    <2>1. ASSUME UNCHANGED <<follows, users, req>>
          PROVE  FollowLedger'
      BY <1>1, <2>1 DEF FollowLedger, FollowingCovered, FollowersCovered, Following, Followers,
                        FollowingIncs, FollowingDecs, FollowersIncs, FollowersDecs
    <2>2. ASSUME NEW r \in Requests, NEW b \in Bios, UpdateProfile(r, b), NEW u \in Users
          PROVE  FollowingCovered(u)' /\ FollowersCovered(u)'
      <3>1. \A q \in Requests : \/ req'[q] = req[q]
                                \/ req[q].pc \notin Owing /\ req'[q].pc \notin Owing
        BY <2>0, <2>2 DEF UpdateProfile, Goto, Owing, Req
      <3>2. /\ users'[u].following = users[u].following
            /\ users'[u].followers = users[u].followers
        BY <2>0, <2>2 DEF UpdateProfile, Row
      <3>3. Following(u)' = Following(u) /\ Followers(u)' = Followers(u)
        BY <2>2 DEF UpdateProfile, Following, Followers
      <3> QED
        BY <1>1, <3>1, <3>2, <3>3, OwedAlone DEF FollowLedger, FollowingCovered, FollowersCovered
    <2> QED
      BY <1>1, <2>1, <2>2, HydrateLedger, FollowLedgerStep
         DEF Next, FollowLedger, Tick, ChangeProfile, vars
  <1>2. Spec => []FollowLedger
    BY <1>1, LedgerInit, MirrorInvHolds, PTL DEF Spec
  <1>3. MirrorInv /\ FollowLedger => FollowCountsCover
    BY DEF MirrorInv, TypeOK, FollowLedger, FollowingCovered, FollowersCovered, Covers,
           FollowCountsCover
  <1> QED
    BY <1>2, <1>3, MirrorInvHolds, PTL

=============================================================================
