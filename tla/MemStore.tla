------------------------------ MODULE MemStore ------------------------------
(***************************************************************************)
(* The in-memory repositories: Go maps behind one mutex per repository,    *)
(* and a LinkStore with its own mutex for the links of posts.  A method    *)
(* that holds one mutex throughout is one action.  Two are not:            *)
(* PostRepository.Create writes the images and the tags of the post in the *)
(* LinkStore and only then publishes its row, and                          *)
(* ImageRepository.ListByPostID reads the links before it takes the lock   *)
(* on the images.                                                          *)
(*                                                                         *)
(* The store implements StoreContract: Contract below maps the maps to the *)
(* tables.  Rows have the columns of PgTables.                             *)
(***************************************************************************)
EXTENDS Integers, FiniteSets, SequencesExt

CONSTANTS
    Suites,
    Subs, UserSubs, PostIds, ImageIds, Names, TagIds, BadgeIds, Keys, Priorities,
    Hashes, Previews, JobIds, ImageChoices, TagChoices,
    MaxNames,     \* bound: the names of one UpsertByNames
    MaxTime,      \* bound: the clock stops there
    MaxCount,     \* bound: a counter is not raised beyond
    MaxAttempts,  \* bound: a job is not claimed more often
    Limits        \* the page sizes and offsets that listings are compared for

ASSUME StoreAssumption ==
    /\ ImageChoices \subseteq Seq(ImageIds)
    /\ MaxNames \in Nat

\* Rows are finitely many, and what orders them is numbered.
ASSUME OrderAssumption ==
    /\ \A ids \in {Subs, UserSubs, PostIds, ImageIds} : ids \subseteq Nat /\ IsFiniteSet(ids)
    /\ Priorities \subseteq Nat
    /\ Limits \subseteq Nat

VARIABLES
    suite, now, ret,
    mem,        \* the maps, one field each
    creating,   \* calls of PostRepository.Create under way, by post id
    reading     \* <<>>, or the call of ListByPostID between its two locks

vars == <<suite, now, ret, mem, creating, reading>>

Null == 0

(***************************************************************************)
(* The refinement mapping.  The links of a post count once its row is      *)
(* published.                                                              *)
(***************************************************************************)
Published(links) == DOMAIN links \cap DOMAIN mem.posts

LikeRows == UNION {{u} \X mem.likes[u] : u \in DOMAIN mem.likes}

ImageLinks ==
    UNION {{<<p, mem.postImages[p][i], i - 1>> : i \in DOMAIN mem.postImages[p]} :
           p \in Published(mem.postImages)}

TagLinks == UNION {{p} \X mem.postTags[p] : p \in Published(mem.postTags)}

OgpLinks ==
    UNION {{<<p, l.hash, l.position>> : l \in ToSet(mem.postOGPs[p])} :
           p \in Published(mem.postOGPs)}

Tables ==
    [users |-> mem.users, follows |-> mem.follows, posts |-> mem.posts,
     images |-> mem.images, tags |-> mem.tags, badges |-> mem.badges,
     grants |-> mem.userBadges, cache |-> mem.rows, jobs |-> mem.jobs,
     likes |-> LikeRows, postImages |-> ImageLinks, postTags |-> TagLinks,
     postOgp |-> OgpLinks]

Contract == INSTANCE StoreContract WITH db <- Tables

(***************************************************************************)
(* Maps                                                                    *)
(***************************************************************************)
Has(map, key) == key \in DOMAIN map
Put(map, key, value) == [k \in DOMAIN map \cup {key} |-> IF k = key THEN value ELSE map[k]]
Without(map, key) == Restrict(map, DOMAIN map \ {key})
Get(map, key, none) == IF Has(map, key) THEN map[key] ELSE none

NewStore ==
    [users |-> Contract!Seeded(suite).users, posts |-> Contract!Seeded(suite).posts,
     tags |-> Contract!Seeded(suite).tags, byName |-> Contract!Seeded(suite).tags,
     follows |-> <<>>, likes |-> <<>>, images |-> <<>>, postImages |-> <<>>,
     postTags |-> <<>>, postOGPs |-> <<>>, badges |-> <<>>, byKey |-> <<>>,
     userBadges |-> <<>>, rows |-> <<>>, jobs |-> <<>>]

Init ==
    /\ suite \in Suites
    /\ now = 1
    /\ ret = <<"none", {}>>
    /\ mem = NewStore
    /\ creating = <<>>
    /\ reading = <<>>

\* Only these suites order or expire rows by the clock.
Tick ==
    /\ suite \in {"follows", "badges", "ogp", "jobs"}
    /\ now < MaxTime /\ now' = now + 1
    /\ UNCHANGED <<suite, ret, mem, creating, reading>>

\* One critical section that leaves the maps as m and returns `value'.
Returns(m, method, value) ==
    /\ mem' = m
    /\ ret' = <<method, value>>
    /\ UNCHANGED <<suite, now, creating, reading>>

(***************************************************************************)
(* UserRepository                                                          *)
(***************************************************************************)
Upsert(u) ==
    LET existing == mem.users[u.sub]
        stored == [profile |-> u.profile, bio |-> u.bio, admin |-> u.admin,
                   followers |-> 0, following |-> 0, createdAt |-> now,
                   deleted |-> FALSE]
        kept == [existing EXCEPT !.profile = u.profile,
                                 !.bio = IF u.bio = Null THEN @ ELSE u.bio]
        row == IF Has(mem.users, u.sub) THEN kept ELSE stored
    IN  Returns([mem EXCEPT !.users = Put(@, u.sub, row)], "Upsert", {u.sub})

UpdateProfile(sub, bios) ==
    IF ~Has(mem.users, sub) THEN Returns(mem, "UpdateProfile", {})
    ELSE Returns([mem EXCEPT !.users[sub].bio = IF bios = {} THEN @
                                                ELSE CHOOSE b \in bios : TRUE],
                 "UpdateProfile", {sub})

IncrementUser(sub, column) ==
    IF ~Has(mem.users, sub) THEN Returns(mem, "CountUser", {})
    ELSE /\ mem.users[sub][column] < MaxCount
         /\ Returns([mem EXCEPT !.users[sub][column] = @ + 1], "CountUser", {})

DecrementUser(sub, column) ==
    IF Has(mem.users, sub) /\ mem.users[sub][column] > 0
    THEN Returns([mem EXCEPT !.users[sub][column] = @ - 1], "CountUser", {})
    ELSE Returns(mem, "CountUser", {})

DeleteUser(sub) ==
    IF Has(mem.users, sub)
    THEN Returns([mem EXCEPT !.users[sub].deleted = TRUE], "DeleteUser", {})
    ELSE Returns(mem, "DeleteUser", {})

UserNext ==
    /\ suite = "users"
    /\ \/ \E u \in Contract!UserInputs : Upsert(u)
       \/ \E s \in UserSubs :
            \/ \E bios \in {{}, {Null}, {1}} : UpdateProfile(s, bios)
            \/ \E c \in {"followers", "following"} :
                 IncrementUser(s, c) \/ DecrementUser(s, c)
            \/ DeleteUser(s)

\* List ranges over the map: the users come in any order.
UserLists(limit, offset) ==
    LET live == {s \in DOMAIN mem.users : ~mem.users[s].deleted}
        total == Cardinality(live)
        from == Min({offset, total})
        to == Min({from + limit, total})
    IN  {<<SubSeq(all, from + 1, to), total>> : all \in SetToSeqs(live)}

UsersBySubs(subs) ==
    Restrict(mem.users, {s \in subs \cap DOMAIN mem.users : ~mem.users[s].deleted})

(***************************************************************************)
(* FollowRepository                                                        *)
(***************************************************************************)
CreateFollow(k) ==
    IF Has(mem.follows, k) THEN Returns(mem, "CreateFollow", FALSE)
    ELSE Returns([mem EXCEPT !.follows = Put(@, k, now)], "CreateFollow", TRUE)

DeleteFollow(k) ==
    IF ~Has(mem.follows, k) THEN Returns(mem, "DeleteFollow", FALSE)
    ELSE Returns([mem EXCEPT !.follows = Without(@, k)], "DeleteFollow", TRUE)

FollowNext ==
    /\ suite = "follows"
    /\ \E a, b \in Subs : a # b /\ (CreateFollow(<<a, b>>) \/ DeleteFollow(<<a, b>>))

FollowingSubs(a) == {k[2] : k \in {x \in DOMAIN mem.follows : x[1] = a}}

AreFollowing(viewer, subs) == {t \in subs : Has(mem.follows, <<viewer, t>>)}

\* isBefore: the row (t, p) comes after the cursor (ct, cp).
IsBefore(t, p, ct, cp) == IF t # ct THEN t < ct ELSE p < cp

\* listSide, with side 1 for the followers of sub and 2 for whom it follows.
ListSide(sub, cursor, limit, side) ==
    LET peer(k) == k[side]
        matches == {k \in DOMAIN mem.follows :
                      /\ k[3 - side] = sub
                      /\ \A c \in Contract!DecodeFollow(cursor) :
                           IsBefore(mem.follows[k], peer(k), c[1], c[2])}
        sorted == Contract!OrderBy(matches, LAMBDA k, l :
                      IF mem.follows[k] # mem.follows[l]
                      THEN mem.follows[k] > mem.follows[l]
                      ELSE peer(k) > peer(l))
        last == sorted[limit]
    IN  IF limit <= 0 THEN <<<<>>, <<>>>>
        ELSE IF Len(sorted) <= limit THEN <<sorted, <<>>>>
        ELSE <<SubSeq(sorted, 1, limit),
               Contract!EncodeFollow(mem.follows[last], peer(last))>>

(***************************************************************************)
(* LikeRepository: a map of maps                                           *)
(***************************************************************************)
CreateLike(u, p) ==
    LET byUser == Get(mem.likes, u, {})
    IN  Returns([mem EXCEPT !.likes = Put(@, u, byUser \cup {p})],
                "CreateLike", p \notin byUser)

DeleteLike(u, p) ==
    IF p \notin Get(mem.likes, u, {}) THEN Returns(mem, "DeleteLike", FALSE)
    ELSE Returns([mem EXCEPT !.likes[u] = @ \ {p}], "DeleteLike", TRUE)

LikeNext ==
    /\ suite = "likes"
    /\ \E u \in Subs, p \in PostIds : CreateLike(u, p) \/ DeleteLike(u, p)

LikedPosts(u, ids) == {p \in ids : p \in Get(mem.likes, u, {})}

(***************************************************************************)
(* PostRepository                                                          *)
(***************************************************************************)
\* Create: the caller has chosen the id and found the parent.
CallCreate(id, author, parent, imgs, tags) ==
    /\ ~Has(mem.posts, id) /\ ~Has(creating, id)
    /\ creating' = Put(creating, id,
            [pc |-> IF imgs # <<>> THEN "images" ELSE IF tags # {} THEN "tags" ELSE "row",
             author |-> author, parent |-> parent, imgs |-> imgs, tags |-> tags])
    /\ UNCHANGED <<suite, now, ret, mem, reading>>

\* attachImages, under the LinkStore's lock.
AttachImages(id) ==
    /\ creating[id].pc = "images"
    /\ mem' = [mem EXCEPT !.postImages = Put(@, id, creating[id].imgs)]
    /\ creating' = [creating EXCEPT ![id].pc = IF creating[id].tags # {} THEN "tags" ELSE "row"]
    /\ UNCHANGED <<suite, now, ret, reading>>

\* attachTags, under the LinkStore's lock.
AttachTags(id) ==
    /\ creating[id].pc = "tags"
    /\ mem' = [mem EXCEPT !.postTags =
                 Put(@, id, Get(@, id, {}) \cup creating[id].tags)]
    /\ creating' = [creating EXCEPT ![id].pc = "row"]
    /\ UNCHANGED <<suite, now, ret, reading>>

\* Mutant: the row first, the links after it.
PublishEarly(id) ==
    /\ creating[id].pc \in {"images", "row"} /\ ~Has(mem.posts, id)
    /\ mem' = [mem EXCEPT !.posts = Put(@, id,
                 [author |-> creating[id].author, parent |-> creating[id].parent,
                  likes |-> 0, replies |-> 0, deleted |-> FALSE])]
    /\ ret' = <<"CreatePost", {id}>>
    /\ UNCHANGED <<suite, now, reading, creating>>

\* The row, under the repository's own lock.
Publish(id) ==
    /\ creating[id].pc = "row"
    /\ mem' = [mem EXCEPT !.posts = Put(@, id,
                 [author |-> creating[id].author, parent |-> creating[id].parent,
                  likes |-> 0, replies |-> 0, deleted |-> FALSE])]
    /\ creating' = Without(creating, id)
    /\ ret' = <<"CreatePost", {id}>>
    /\ UNCHANGED <<suite, now, reading>>

CreateSteps == \E id \in DOMAIN creating : AttachImages(id) \/ AttachTags(id) \/ Publish(id)

DeletePost(id) ==
    Returns([mem EXCEPT !.posts[id].deleted = TRUE], "DeletePost", {})

LivePost(id) == Has(mem.posts, id) /\ ~mem.posts[id].deleted

IncrementPost(id, column) ==
    IF ~LivePost(id) THEN Returns(mem, "CountPost", {})
    ELSE /\ mem.posts[id][column] < MaxCount
         /\ Returns([mem EXCEPT !.posts[id][column] = @ + 1], "CountPost", {})

DecrementPost(id, column) ==
    IF LivePost(id) /\ mem.posts[id][column] > 0
    THEN Returns([mem EXCEPT !.posts[id][column] = @ - 1], "CountPost", {})
    ELSE Returns(mem, "CountPost", {})

PostNext ==
    /\ suite = "posts"
    /\ \/ \E id \in PostIds :
            \/ \E a \in UserSubs, parent \in DOMAIN mem.posts \cup {Null} :
                 CallCreate(id, a, parent, <<>>, {})
            \/ Has(mem.posts, id) /\ DeletePost(id)
            \/ \E c \in {"likes", "replies"} : IncrementPost(id, c) \/ DecrementPost(id, c)
       \/ CreateSteps

\* parseCursorQuery: the cursor of a request as a pointer, {} for nil.
CursorQuery(c) == {c} \ {Null}

\* Mutant: a full page is taken to have a successor.
PaginateFull(matches, cursor, limit) ==
    LET posts == Contract!Descending({p \in matches : \A c \in cursor : p < c})
    IN  IF limit <= 0 THEN <<<<>>, Null>>
        ELSE IF Len(posts) < limit THEN <<posts, Null>>
        ELSE <<SubSeq(posts, 1, limit), posts[limit]>>

\* collectDescending and paginate.  The cursor is a pointer: {Null}, one to the
\* empty string, is before every id.
Paginate(matches, cursor, limit) ==
    LET posts == Contract!Descending({p \in matches : \A c \in cursor : p < c})
    IN  IF limit <= 0 THEN <<<<>>, Null>>
        ELSE IF Len(posts) <= limit THEN <<posts, Null>>
        ELSE <<SubSeq(posts, 1, limit), posts[limit]>>

ListPosts(user, cursor, limit) ==
    Paginate({p \in DOMAIN mem.posts :
                /\ ~mem.posts[p].deleted
                /\ user # Null => mem.posts[p].author = user
                /\ mem.posts[p].parent = Null}, cursor, limit)

ListByUserIDs(users, cursor, limit) ==
    Paginate({p \in DOMAIN mem.posts :
                /\ ~mem.posts[p].deleted
                /\ mem.posts[p].author \in users
                /\ mem.posts[p].parent = Null}, cursor, limit)

ListReplies(id, cursor, limit) ==
    Paginate({p \in DOMAIN mem.posts :
                ~mem.posts[p].deleted /\ mem.posts[p].parent = id}, cursor, limit)

(***************************************************************************)
(* ImageRepository and TagRepository                                       *)
(***************************************************************************)
CreateImage(id, owner) ==
    /\ ~Has(mem.images, id)
    /\ Returns([mem EXCEPT !.images =
                  Put(@, id, [owner |-> owner, createdAt |-> now, deleted |-> FALSE])],
               "CreateImage", {id})

DeleteImage(id) ==
    IF Has(mem.images, id)
    THEN Returns([mem EXCEPT !.images[id].deleted = TRUE], "DeleteImage", {})
    ELSE Returns(mem, "DeleteImage", {})

\* The live ones of a list of images.
Shown(ids) ==
    Contract!Subsequence(ids, {i \in DOMAIN ids :
        Has(mem.images, ids[i]) /\ ~mem.images[ids[i]].deleted})

ImagesOf(id) == Shown(Get(mem.postImages, id, <<>>))

\* ListByPostID: first the links ...
ReadLinks(id) ==
    /\ reading = <<>>
    /\ IF Get(mem.postImages, id, <<>>) = <<>>
       THEN ret' = <<"ListByPostID", <<>>>> /\ UNCHANGED reading
       ELSE reading' = mem.postImages[id] /\ UNCHANGED ret
    /\ UNCHANGED <<suite, now, mem, creating>>

\* ... then the rows they name.
ReadImages ==
    /\ reading # <<>>
    /\ ret' = <<"ListByPostID", Shown(reading)>>
    /\ reading' = <<>>
    /\ UNCHANGED <<suite, now, mem, creating>>

LinkNext ==
    /\ suite = "links"
    /\ \/ \E id \in PostIds, imgs \in ImageChoices, tags \in TagChoices :
            /\ ToSet(imgs) \subseteq DOMAIN mem.images
            /\ CallCreate(id, 1, Null, imgs, tags)
       \/ CreateSteps
       \/ \E id \in ImageIds : CreateImage(id, 1) \/ DeleteImage(id)
       \/ \E id \in DOMAIN mem.posts : ReadLinks(id)
       \/ ReadImages

\* GetByUserID ranges over the map: the images come in any order.
ImagesOfUser(user) ==
    {i \in DOMAIN mem.images : mem.images[i].owner = user /\ ~mem.images[i].deleted}

TagsOf(id) ==
    Contract!OrderBy({t \in Get(mem.postTags, id, {}) : Has(mem.tags, t)},
                     LAMBDA t, u : mem.tags[t] < mem.tags[u])

\* One turn of the loop of UpsertByNames, with `id' the ULID made for the
\* name, if one is.
UpsertName(acc, name, id) ==
    IF name = Null \/ name \in acc.seen THEN acc
    ELSE IF Has(acc.byName, name)
    THEN [acc EXCEPT !.seen = @ \cup {name}, !.out = Append(@, acc.byName[name])]
    ELSE [tags |-> Put(acc.tags, id, name), byName |-> Put(acc.byName, name, id),
          seen |-> acc.seen \cup {name}, out |-> Append(acc.out, id)]

\* The maps and the answer after each turn.
Turns(names, fresh) ==
    LET after[i \in 0..Len(names)] ==
          IF i = 0
          THEN [tags |-> mem.tags, byName |-> mem.byName, seen |-> {}, out |-> <<>>]
          ELSE UpsertName(after[i - 1], names[i], fresh[i])
    IN  after

UpsertByNames(names, fresh) ==
    LET done == Turns(names, fresh)[Len(names)]
    IN  Returns([mem EXCEPT !.tags = done.tags, !.byName = done.byName],
                "UpsertByNames", done.out)

TagNext ==
    /\ suite = "tags"
    /\ \E names \in Contract!TagLists :
       \E fresh \in [DOMAIN names -> TagIds \ DOMAIN mem.tags] :
         IsInjective(fresh) /\ UpsertByNames(names, fresh)

(***************************************************************************)
(* BadgeRepository                                                         *)
(***************************************************************************)
\* Mutant: a key that is taken is not refused.
CreateBadgeAnyKey(id, key, priority) ==
    /\ ~Has(mem.badges, id)
    /\ Returns([mem EXCEPT !.badges = Put(@, id, [key |-> key, priority |-> priority]),
                           !.byKey = Put(@, key, id)], "CreateBadge", {id})

CreateBadge(id, key, priority) ==
    /\ ~Has(mem.badges, id)
    /\ IF Has(mem.byKey, key) THEN Returns(mem, "CreateBadge", {})
       ELSE Returns([mem EXCEPT !.badges = Put(@, id, [key |-> key, priority |-> priority]),
                                !.byKey = Put(@, key, id)], "CreateBadge", {id})

UpdateBadge(id, priority) ==
    IF ~Has(mem.badges, id) THEN Returns(mem, "UpdateBadge", {})
    ELSE Returns([mem EXCEPT !.badges[id].priority = priority], "UpdateBadge", {id})

Grant(u, b, by, expiresAt) ==
    Returns([mem EXCEPT !.userBadges =
               Put(@, <<u, b>>, [at |-> now, by |-> by, expiresAt |-> expiresAt])],
            "Grant", {})

Revoke(u, b) ==
    Returns([mem EXCEPT !.userBadges = Without(@, <<u, b>>)], "Revoke", {})

BadgeNext ==
    /\ suite = "badges"
    /\ \E b \in BadgeIds :
        \/ \E k \in Keys, p \in Priorities : CreateBadge(b, k, p)
        \/ \E p \in Priorities : UpdateBadge(b, p)
        \/ /\ Has(mem.badges, b)
           /\ \E u \in UserSubs : \/ \E t \in {Null, now + 1} : Grant(u, b, 1, t)
                                  \/ Revoke(u, b)

SortBadges(ids) ==
    Contract!OrderBy(ids, LAMBDA a, b :
        IF mem.badges[a].priority # mem.badges[b].priority
        THEN mem.badges[a].priority < mem.badges[b].priority
        ELSE mem.badges[a].key < mem.badges[b].key)

BadgesOf(user) ==
    LET active == {k \in DOMAIN mem.userBadges :
                     /\ k[1] = user
                     /\ LET until == mem.userBadges[k].expiresAt
                        IN  ~(until # Null /\ ~(until > now))}
    IN  SortBadges({k[2] : k \in active} \cap DOMAIN mem.badges)

(***************************************************************************)
(* OGPCacheRepository and OGPJobQueue                                      *)
(***************************************************************************)
UpsertPreview(hash, preview) ==
    Returns([mem EXCEPT !.rows = Put(@, hash, preview)], "UpsertPreview", {})

\* attachOGP: the first link at a position, and of a hash, wins.
LinkPreview(id, hash, position) ==
    LET links == Get(mem.postOGPs, id, <<>>)
        all == ToSet(links) \cup {[hash |-> hash, position |-> position]}
        clash == \E l \in ToSet(links) : l.hash = hash \/ l.position = position
    IN  Returns(IF clash THEN mem
                ELSE [mem EXCEPT !.postOGPs = Put(@, id,
                        Contract!Sorted(all, [l \in all |-> l.position]))],
                "AttachOGP", {})

PreviewsOf(id) ==
    LET links == Get(mem.postOGPs, id, <<>>)
        kept == Contract!Subsequence(links, {i \in DOMAIN links : Has(mem.rows, links[i].hash)})
    IN  [i \in DOMAIN kept |-> kept[i].hash]

Enqueue(j, hash, post, position) ==
    IF Has(mem.jobs, j) THEN Returns(mem, "Enqueue", {})
    ELSE Returns([mem EXCEPT !.jobs = Put(@, j,
                    [hash |-> hash, post |-> post, position |-> position,
                     enqueuedAt |-> now, startedAt |-> Null, finishedAt |-> Null,
                     status |-> "queued", attempts |-> 0, lastError |-> Null])],
                 "Enqueue", {})

\* The scan keeps the first of equally old jobs in map order: any of them.
Oldest(j) ==
    /\ mem.jobs[j].status = "queued"
    /\ \A k \in DOMAIN mem.jobs :
         mem.jobs[k].status = "queued" => ~(mem.jobs[k].enqueuedAt < mem.jobs[j].enqueuedAt)

Claim ==
    \/ /\ \A j \in DOMAIN mem.jobs : mem.jobs[j].status # "queued"
       /\ Returns(mem, "Claim", {})
    \/ \E j \in DOMAIN mem.jobs :
       /\ Oldest(j) /\ mem.jobs[j].attempts < MaxAttempts
       /\ Returns([mem EXCEPT !.jobs[j].status = "running", !.jobs[j].startedAt = now,
                              !.jobs[j].attempts = @ + 1], "Claim", {j})

MarkDone(j) ==
    Returns([mem EXCEPT !.jobs[j].status = "done", !.jobs[j].finishedAt = now],
            "MarkDone", {})

MarkFailed(j, reason, retriable) ==
    Returns(IF retriable
            THEN [mem EXCEPT !.jobs[j].lastError = reason, !.jobs[j].status = "queued",
                             !.jobs[j].startedAt = Null]
            ELSE [mem EXCEPT !.jobs[j].lastError = reason, !.jobs[j].status = "failed",
                             !.jobs[j].finishedAt = now],
            "MarkFailed", {})

OgpNext ==
    \/ /\ suite = "ogp"
       /\ \/ \E h \in Hashes, v \in Previews :
               UpsertPreview(h, [status |-> v, fetchedAt |-> now])
          \/ \E h \in DOMAIN mem.rows, p \in PostIds, i \in 0..1 : LinkPreview(p, h, i)
    \/ /\ suite = "jobs"
       /\ \/ \E j \in JobIds, h \in Hashes : Enqueue(j, h, 1, 0)
          \/ Claim
          \/ \E j \in DOMAIN mem.jobs :
               MarkDone(j) \/ \E retriable \in BOOLEAN : MarkFailed(j, 1, retriable)

Next == \/ Tick \/ UserNext \/ FollowNext \/ LikeNext \/ PostNext \/ LinkNext
        \/ TagNext \/ BadgeNext \/ OgpNext

Spec == Init /\ [][Next]_vars

(***************************************************************************)
(* Properties                                                              *)
(***************************************************************************)
\* None, one that does not decode, and those a page may have returned.
Cursors == {<<>>, <<0>>} \cup {Contract!EncodeFollow(i, q) : i \in 1..MaxTime, q \in Subs}

\* Every read of the in-memory repositories gives the answer the postgres one
\* gives on the same rows: which rows are live, which links of a post are
\* followed, the order, where a page ends and whether there is a next one,
\* for every cursor a handler passes.  The backends differ in two things.
\* User.List and Image.GetByUserID range over a Go map: the postgres answer
\* is one of the orders they may give.  A pointer to the empty string, which
\* parseCursorQuery never makes, lists no post here and all in postgres.
ReadsAgree ==
    LET t == Tables
    IN
    /\ suite = "users" =>
        /\ \A limit \in Limits, offset \in Limits :
             /\ Contract!UserList(t.users, limit, offset) \in UserLists(limit, offset)
             /\ \A l \in UserLists(limit, offset) :
                  l[2] = Contract!UserList(t.users, limit, offset)[2]
        /\ UsersBySubs(Subs) = Contract!UserListBySubs(t.users, Subs)
    /\ suite = "follows" => \A s \in Subs :
        /\ FollowingSubs(s) = Contract!FollowingSubs(t.follows, s)
        /\ AreFollowing(s, Subs) = Contract!AreFollowing(t.follows, s, Subs)
        /\ \A limit \in Limits, side \in {1, 2} :
           \A c \in Cursors :
             ListSide(s, c, limit, side) = Contract!FollowPage(t.follows, s, c, limit, side)
    /\ suite = "likes" => \A u \in Subs :
        LikedPosts(u, PostIds) = Contract!LikedPosts(t.likes, u, PostIds)
    /\ suite = "posts" => \A c \in PostIds \cup {Null}, limit \in Limits :
        /\ \A u \in UserSubs \cup {Null} :
             /\ ListPosts(u, CursorQuery(c), limit) = Contract!PostList(t.posts, u, c, limit)
             /\ ListPosts(u, {Null}, limit) = <<<<>>, Null>>
        /\ \A us \in SUBSET UserSubs :
             ListByUserIDs(us, CursorQuery(c), limit) = Contract!PostListByUserIDs(t.posts, us, c, limit)
        /\ \A p \in PostIds :
             ListReplies(p, CursorQuery(c), limit) = Contract!PostListReplies(t.posts, p, c, limit)
    /\ suite = "links" =>
        /\ \A p \in DOMAIN mem.posts :
             /\ ImagesOf(p) = Contract!ImagesByPost(t.postImages, t.images, p)
             /\ TagsOf(p) = Contract!TagsByPost(t.postTags, t.tags, p)
        /\ \A u \in Subs : ImagesOfUser(u) = ToSet(Contract!ImagesByUser(t.images, u))
    /\ suite = "badges" =>
        /\ SortBadges(DOMAIN mem.badges) = Contract!ByPriority(t.badges, DOMAIN t.badges)
        /\ \A u \in Subs : BadgesOf(u) = Contract!BadgesOf(t.badges, t.grants, u, now)
    /\ suite = "ogp" => \A p \in PostIds :
        PreviewsOf(p) = Contract!PreviewsByPost(t.postOgp, t.cache, p)

\* An index finds each row under its key, and nothing else.
Indexes(index, keyOf) ==
    /\ \A k \in DOMAIN index : Has(keyOf, index[k]) /\ keyOf[index[k]] = k
    /\ \A row \in DOMAIN keyOf : Has(index, keyOf[row]) /\ index[keyOf[row]] = row

\* The secondary maps byName and byKey point back at the rows they index, and
\* at all of them: GetByKey and UpsertByNames dereference what they find
\* there without a check.
IndexesConsistent ==
    /\ Indexes(mem.byName, mem.tags)
    /\ Indexes(mem.byKey, [b \in DOMAIN mem.badges |-> mem.badges[b].key])

\* The in-memory repositories implement the contract that the postgres ones
\* meet: every call, the two that take several locks included, has the effect
\* and the answer of one atomic step on the tables.  No reader finds a post
\* without its links.
ContractSpec == Contract!Spec
=============================================================================
