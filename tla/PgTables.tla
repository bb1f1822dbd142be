------------------------------ MODULE PgTables ------------------------------
(***************************************************************************)
(* What the statements of the postgres repositories do to their tables, as *)
(* operators on the tables: each takes the tables it reads and returns the *)
(* new table, or the rows of a SELECT.                                     *)
(*                                                                         *)
(* Ids, subs, names and instants are natural numbers, so that they can be  *)
(* ordered as ULIDs, strings and timestamps are.  0 is NULL and the empty  *)
(* string.  A row holds the columns that callers tell apart; updated_at,   *)
(* wording and the instant of a soft delete are left out.  A listing of    *)
(* rows is a sequence of their keys.                                       *)
(***************************************************************************)
EXTENDS Integers, FiniteSets, SequencesExt

Null == 0

\* INSERT of a row under a key, and with ON CONFLICT DO NOTHING: the row that
\* is there wins.
Inserted(table, key, row) ==
    [k \in DOMAIN table \cup {key} |-> IF k \in DOMAIN table THEN table[k] ELSE row]

\* INSERT ... ON CONFLICT DO UPDATE of every column.
Replaced(table, key, row) ==
    [k \in DOMAIN table \cup {key} |-> IF k = key THEN row ELSE table[k]]

\* ORDER BY id DESC: the i-th id is the one with i - 1 ids above it.
Descending(ids) ==
    [i \in 1..Cardinality(ids) |->
        CHOOSE x \in ids : Cardinality({y \in ids : y > x}) = i - 1]

\* ORDER BY: the i-th row is the one with i - 1 rows before it.  `before' is a
\* strict total order of the rows, as a set of pairs.
Ranked(rows, before) ==
    [i \in 1..Cardinality(rows) |->
        CHOOSE r \in rows : Cardinality({s \in rows : <<s, r>> \in before}) = i - 1]

OrderBy(rows, before(_, _)) == Ranked(rows, {p \in rows \X rows : before(p[1], p[2])})

\* ORDER BY one column, distinct on the rows.
Sorted(rows, key) == OrderBy(rows, LAMBDA r, s : key[r] < key[s])

\* The members of a sequence at some places, in its order.
Subsequence(seq, places) ==
    LET at == Sorted(places, [i \in places |-> i])
    IN  [i \in 1..Cardinality(places) |-> seq[at[i]]]

\* LIMIT n.
Take(rows, n) == SubSeq(rows, 1, Min({n, Len(rows)}))

\* UPDATE ... SET deleted_at = NOW() WHERE id = $1 AND deleted_at IS NULL.
SoftDelete(table, id) ==
    [k \in DOMAIN table |->
        IF k = id THEN [table[k] EXCEPT !.deleted = TRUE] ELSE table[k]]

Live(table) == {k \in DOMAIN table : ~table[k].deleted}

(***************************************************************************)
(* users : sub -> row                                                      *)
(***************************************************************************)
\* ON CONFLICT keeps is_admin, the counters, created_at and deleted_at, and
\* bio when the caller sends the empty one.
UserUpsert(users, u, now) ==
    IF u.sub \in DOMAIN users
    THEN [users EXCEPT ![u.sub].profile = u.profile,
                       ![u.sub].bio = IF u.bio = Null THEN @ ELSE u.bio]
    ELSE Inserted(users, u.sub, [profile |-> u.profile, bio |-> u.bio,
                                 admin |-> u.admin, followers |-> 0, following |-> 0,
                                 createdAt |-> now, deleted |-> FALSE])

\* COALESCE($2, bio): bios is the set of the bio sent, empty when it is nil.
UserUpdateProfile(users, sub, bios) ==
    [s \in DOMAIN users |->
        IF s = sub /\ bios # {}
        THEN [users[s] EXCEPT !.bio = CHOOSE b \in bios : TRUE]
        ELSE users[s]]

\* followers_count or following_count, GREATEST(count + d, 0).
UserCount(users, sub, column, d) ==
    [s \in DOMAIN users |->
        IF s = sub THEN [users[s] EXCEPT ![column] = Max({@ + d, 0})]
        ELSE users[s]]

\* <<page, total>>.
UserList(users, limit, offset) ==
    LET live == Live(users)
        newer(a, b) == \/ users[a].createdAt > users[b].createdAt
                       \/ users[a].createdAt = users[b].createdAt /\ a > b
        rows == OrderBy(live, newer)
    IN  IF limit <= 0 THEN <<<<>>, Cardinality(live)>>
        ELSE <<SubSeq(rows, offset + 1, Min({offset + limit, Len(rows)})),
               Cardinality(live)>>

UserListBySubs(users, subs) == Restrict(users, subs \cap Live(users))

(***************************************************************************)
(* follows : <<follower, followee>> -> created_at                          *)
(***************************************************************************)
FollowCreate(follows, k, now) == Inserted(follows, k, now)
FollowDelete(follows, k) == Restrict(follows, DOMAIN follows \ {k})
FollowingSubs(follows, a) == {k[2] : k \in {x \in DOMAIN follows : x[1] = a}}
AreFollowing(follows, viewer, subs) == subs \cap FollowingSubs(follows, viewer)

\* A cursor is the encoding of an instant and a sub; <<>> is no cursor, and
\* any other tuple a string that does not decode to such a pair.
EncodeFollow(t, peer) == <<t, "|", peer>>
DecodeFollow(cursor) == IF Len(cursor) = 3 THEN {<<cursor[1], cursor[3]>>} ELSE {}

\* side = 1 lists the followers of sub, side = 2 whom it follows; the peer
\* is the other end of the row.  <<rows, next cursor>>.
FollowPage(follows, sub, cursor, limit, side) ==
    LET peer(k) == k[side]
        less(t, p, u, q) == t < u \/ (t = u /\ p < q)
        wanted == {k \in DOMAIN follows :
                     /\ k[3 - side] = sub
                     /\ \A c \in DecodeFollow(cursor) :
                          less(follows[k], peer(k), c[1], c[2])}
        newer(k, l) == less(follows[l], peer(l), follows[k], peer(k))
        rows == Take(OrderBy(wanted, newer), limit + 1)
        last == rows[limit]
    IN  IF limit <= 0 THEN <<<<>>, <<>>>>
        ELSE IF Len(rows) > limit
        THEN <<Take(rows, limit), EncodeFollow(follows[last], peer(last))>>
        ELSE <<rows, <<>>>>

(***************************************************************************)
(* posts : id -> row, and post_images, post_tags, post_ogp                 *)
(***************************************************************************)
PostCreate(posts, id, author, parent) ==
    Inserted(posts, id, [author |-> author, parent |-> parent,
                         likes |-> 0, replies |-> 0, deleted |-> FALSE])

\* likes_count or replies_count of a live post.
PostCount(posts, id, column, d) ==
    [p \in DOMAIN posts |->
        IF p = id /\ ~posts[p].deleted
        THEN [posts[p] EXCEPT ![column] = Max({@ + d, 0})]
        ELSE posts[p]]

\* Mutants: the cursor's own row again; the row past the limit as the cursor.
PostPageInclusive(rows, cursor, limit) ==
    LET older == {p \in rows : cursor = Null \/ p <= cursor}
        found == Take(Descending(older), limit + 1)
    IN  IF Len(found) > limit THEN <<Take(found, limit), found[limit]>>
        ELSE <<found, Null>>

PostPageProbe(rows, cursor, limit) ==
    LET older == {p \in rows : cursor = Null \/ p < cursor}
        found == Take(Descending(older), limit + 1)
    IN  IF Len(found) > limit THEN <<Take(found, limit), found[limit + 1]>>
        ELSE <<found, Null>>

\* rows : the ids of the posts a WHERE clause selects, whatever the cursor.
\* <<ids, next cursor>>; the row past the limit only says that there are more.
PostPage(rows, cursor, limit) ==
    LET older == {p \in rows : cursor = Null \/ p < cursor}
        found == Take(Descending(older), limit + 1)
    IN  IF limit <= 0 THEN <<<<>>, Null>>
        ELSE IF Len(found) > limit THEN <<Take(found, limit), found[limit]>>
        ELSE <<found, Null>>

\* The main feed holds top-level posts only; user = Null lists everyone's.
PostList(posts, user, cursor, limit) ==
    PostPage({p \in Live(posts) : /\ posts[p].parent = Null
                                  /\ user = Null \/ posts[p].author = user},
             cursor, limit)

PostListByUserIDs(posts, users, cursor, limit) ==
    PostPage({p \in Live(posts) : /\ posts[p].parent = Null
                                  /\ posts[p].author \in users},
             cursor, limit)

PostListReplies(posts, id, cursor, limit) ==
    PostPage({p \in Live(posts) : posts[p].parent = id}, cursor, limit)

\* Rows <<post, image, position>>, numbered from 0 in the order given.
PostImageRows(id, imageIDs) == {<<id, imageIDs[i], i - 1>> : i \in 1..Len(imageIDs)}
PostTagRows(id, tagIDs) == {<<id, t>> : t \in tagIDs}

\* Rows <<post, url_hash, position>>: unique by hash and by position.
AttachOGP(postOgp, id, hash, position) ==
    IF \E r \in postOgp : r[1] = id /\ (r[2] = hash \/ r[3] = position)
    THEN postOgp
    ELSE postOgp \cup {<<id, hash, position>>}

\* The join of post_images or post_ogp with the rows it links, by position.
LinkedRows(links, id, rows) ==
    LET linked == {r \in links : r[1] = id /\ r[2] \in rows}
        sorted == Sorted(linked, [r \in linked |-> r[3]])
    IN  [i \in 1..Cardinality(linked) |-> sorted[i][2]]

ImagesByPost(postImages, images, id) == LinkedRows(postImages, id, Live(images))
PreviewsByPost(postOgp, cache, id) == LinkedRows(postOgp, id, DOMAIN cache)

(***************************************************************************)
(* images, likes, tags                                                     *)
(***************************************************************************)
ImageCreate(images, id, owner, now) ==
    Inserted(images, id, [owner |-> owner, createdAt |-> now, deleted |-> FALSE])

ImagesByUser(images, user) ==
    OrderBy({i \in Live(images) : images[i].owner = user},
        LAMBDA i, j : \/ images[i].createdAt > images[j].createdAt
                      \/ images[i].createdAt = images[j].createdAt /\ i > j)

LikeCreate(likes, user, post) == likes \cup {<<user, post>>}
LikeDelete(likes, user, post) == likes \ {<<user, post>>}
LikedPosts(likes, user, ids) == {p \in ids : <<user, p>> \in likes}

\* tags : id -> name.  names without repetitions, empty ones dropped.
UniqueNames(names) ==
    Subsequence(names, {i \in DOMAIN names :
        names[i] # Null /\ \A j \in 1..(i - 1) : names[j] # names[i]})

\* ON CONFLICT (name): an existing row keeps its id; proposed[i] is the id
\* generated for the i-th name.  These are the rows after the last of the
\* statements, one per name.
TagUpsertByNames(tags, names, proposed) ==
    LET new == {i \in DOMAIN names : names[i] \notin Range(tags)}
        made == {proposed[i] : i \in new}
    IN  [id \in DOMAIN tags \cup made |->
           IF id \in DOMAIN tags THEN tags[id]
           ELSE names[CHOOSE i \in new : proposed[i] = id]]

TagIDs(tags, names) == [i \in DOMAIN names |-> CHOOSE t \in DOMAIN tags : tags[t] = names[i]]

TagsByPost(postTags, tags, id) ==
    OrderBy({t \in DOMAIN tags : <<id, t>> \in postTags},
            LAMBDA t, u : tags[t] < tags[u])

(***************************************************************************)
(* badges : id -> row, user_badges : <<user, badge>> -> row                *)
(***************************************************************************)
BadgeByKey(badges, key) == {b \in DOMAIN badges : badges[b].key = key}

\* Mutant: the key has no unique index.
BadgeCreateAnyKey(badges, id, key, priority) ==
    Inserted(badges, id, [key |-> key, priority |-> priority])

\* ON CONFLICT (key) DO NOTHING.
BadgeCreate(badges, id, key, priority) ==
    IF BadgeByKey(badges, key) # {} THEN badges
    ELSE Inserted(badges, id, [key |-> key, priority |-> priority])

\* The key is frozen.
BadgeUpdate(badges, id, priority) ==
    [b \in DOMAIN badges |->
        IF b = id THEN [badges[b] EXCEPT !.priority = priority] ELSE badges[b]]

\* ON CONFLICT DO UPDATE: a regrant replaces the row.  expiresAt = Null
\* never expires.
BadgeGrant(grants, user, badge, grantedBy, expiresAt, now) ==
    Replaced(grants, <<user, badge>>,
             [at |-> now, by |-> grantedBy, expiresAt |-> expiresAt])

BadgeRevoke(grants, user, badge) == Restrict(grants, DOMAIN grants \ {<<user, badge>>})

ByPriority(badges, ids) ==
    OrderBy(ids, LAMBDA a, b :
        \/ badges[a].priority < badges[b].priority
        \/ badges[a].priority = badges[b].priority /\ badges[a].key < badges[b].key)

BadgesOf(badges, grants, user, now) ==
    ByPriority(badges, {b \in DOMAIN badges :
        /\ <<user, b>> \in DOMAIN grants
        /\ LET until == grants[<<user, b>>].expiresAt
           IN  until = Null \/ until > now})

(***************************************************************************)
(* ogp_cache : url_hash -> row, ogp_jobs : id -> row                       *)
(***************************************************************************)
\* fetched_at = Null is replaced by NOW().
CacheUpsert(cache, hash, preview, now) ==
    Replaced(cache, hash, [preview EXCEPT !.fetchedAt = IF @ = Null THEN now ELSE @])

\* ON CONFLICT (id) DO NOTHING.
JobEnqueue(jobs, id, hash, post, position, now) ==
    Inserted(jobs, id, [hash |-> hash, post |-> post, position |-> position,
                        enqueuedAt |-> now, startedAt |-> Null, finishedAt |-> Null,
                        status |-> "queued", attempts |-> 0, lastError |-> Null])

\* The jobs that ORDER BY enqueued_at LIMIT 1 may return.
OldestQueued(jobs) ==
    LET queued == {j \in DOMAIN jobs : jobs[j].status = "queued"}
    IN  {j \in queued : \A k \in queued : jobs[j].enqueuedAt <= jobs[k].enqueuedAt}

JobClaim(jobs, j, now) ==
    [jobs EXCEPT ![j].status = "running", ![j].startedAt = now, ![j].attempts = @ + 1]

JobDone(jobs, j, now) ==
    [jobs EXCEPT ![j].status = "done", ![j].finishedAt = now]

JobFailed(jobs, j, reason, retriable, now) ==
    IF retriable
    THEN [jobs EXCEPT ![j].status = "queued", ![j].startedAt = Null,
                      ![j].lastError = reason]
    ELSE [jobs EXCEPT ![j].status = "failed", ![j].finishedAt = now,
                      ![j].lastError = reason]
=============================================================================
