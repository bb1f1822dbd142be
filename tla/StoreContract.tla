--------------------------- MODULE StoreContract ---------------------------
(***************************************************************************)
(* The contract of the repository interfaces, as the postgres driver meets *)
(* it: every method is one atomic step on the tables.  `ret' is what the   *)
(* last call that wrote, or that is not atomic in some driver, returned: a *)
(* row is named by its key.  Reads that change nothing have no action.     *)
(*                                                                         *)
(* A behaviour exercises one suite, the methods of the repositories that   *)
(* share tables, as the contract tests of testsupport do.  Arguments name  *)
(* existing rows wherever a foreign key demands it.                        *)
(*                                                                         *)
(* UpsertByNames is the exception to `atomic': the postgres driver commits *)
(* one statement per name, and one that fails leaves the tags before it.   *)
(* The contract asks for the whole batch at once, what the call amounts to *)
(* when no statement fails: a tag is never changed or removed and is read  *)
(* only through the links of a post, which come later.                     *)
(***************************************************************************)
EXTENDS PgTables

CONSTANTS
    Suites,
    Subs,
    UserSubs,       \* the users that the users, posts and badges suites write
    PostIds, ImageIds, Names, TagIds, BadgeIds, Keys, Priorities,
    Hashes, Previews, JobIds,
    ImageChoices,   \* lists of images a post may attach
    TagChoices,     \* sets of tags a post may carry
    MaxNames        \* the most names one UpsertByNames is given

VARIABLES suite, now, db, ret

vars == <<suite, now, db, ret>>

Answer(method, value) == ret' = <<method, value>>

Empty == <<>>

Seed(ids, row) == [id \in ids |-> row]

UserRow == [profile |-> 1, bio |-> Null, admin |-> FALSE, followers |-> 0,
            following |-> 0, createdAt |-> 0, deleted |-> FALSE]
PostRow == [author |-> CHOOSE u \in Subs : TRUE, parent |-> Null, likes |-> 0,
            replies |-> 0, deleted |-> FALSE]

\* What a suite finds in the tables when it starts.
Seeded(s) ==
    [users |-> IF s = "users" THEN Empty ELSE Seed(Subs, UserRow),
     posts |-> IF s \in {"likes", "ogp"} THEN Seed(PostIds, PostRow) ELSE Empty,
     tags |-> IF s = "links" THEN [t \in TagIds |-> t] ELSE Empty,
     follows |-> Empty, images |-> Empty, postImages |-> {}, postTags |-> {},
     postOgp |-> {}, likes |-> {}, badges |-> Empty, grants |-> Empty,
     cache |-> Empty, jobs |-> Empty]

Init ==
    /\ suite \in Suites
    /\ now = 1
    /\ db = Seeded(suite)
    /\ ret = <<"none", {}>>

Tick == now' = now + 1 /\ UNCHANGED <<suite, db, ret>>

Writes == UNCHANGED <<suite, now>>

(***************************************************************************)
(* users                                                                   *)
(***************************************************************************)
UserInputs == [sub : UserSubs, profile : {1, 2}, bio : {Null, 1}, admin : BOOLEAN]

Upsert(u) ==
    /\ db' = [db EXCEPT !.users = UserUpsert(@, u, now)]
    /\ Answer("Upsert", {u.sub}) /\ Writes

UpdateProfile(sub, bios) ==
    /\ db' = [db EXCEPT !.users = UserUpdateProfile(@, sub, bios)]
    /\ Answer("UpdateProfile", DOMAIN db.users \cap {sub}) /\ Writes

CountUser(sub, column, d) ==
    /\ db' = [db EXCEPT !.users = UserCount(@, sub, column, d)]
    /\ Answer("CountUser", {}) /\ Writes

DeleteUser(sub) ==
    /\ db' = [db EXCEPT !.users = SoftDelete(@, sub)]
    /\ Answer("DeleteUser", {}) /\ Writes

UserNext ==
    /\ suite = "users"
    /\ \/ \E u \in UserInputs : Upsert(u)
       \/ \E s \in UserSubs : \/ \E bios \in {{}, {Null}, {1}} : UpdateProfile(s, bios)
                          \/ \E c \in {"followers", "following"}, d \in {-1, 1} :
                               CountUser(s, c, d)
                          \/ DeleteUser(s)

(***************************************************************************)
(* follows, likes                                                          *)
(***************************************************************************)
CreateFollow(k) ==
    /\ db' = [db EXCEPT !.follows = FollowCreate(@, k, now)]
    /\ Answer("CreateFollow", k \notin DOMAIN db.follows) /\ Writes

DeleteFollow(k) ==
    /\ db' = [db EXCEPT !.follows = FollowDelete(@, k)]
    /\ Answer("DeleteFollow", k \in DOMAIN db.follows) /\ Writes

FollowNext ==
    /\ suite = "follows"
    /\ \E a, b \in Subs : a # b /\ (CreateFollow(<<a, b>>) \/ DeleteFollow(<<a, b>>))

CreateLike(u, p) ==
    /\ db' = [db EXCEPT !.likes = LikeCreate(@, u, p)]
    /\ Answer("CreateLike", <<u, p>> \notin db.likes) /\ Writes

DeleteLike(u, p) ==
    /\ db' = [db EXCEPT !.likes = LikeDelete(@, u, p)]
    /\ Answer("DeleteLike", <<u, p>> \in db.likes) /\ Writes

LikeNext ==
    /\ suite = "likes"
    /\ \E u \in Subs, p \in PostIds : CreateLike(u, p) \/ DeleteLike(u, p)

(***************************************************************************)
(* posts, their links, images, tags                                        *)
(***************************************************************************)
\* One transaction: the row and all its links.
CreatePost(id, author, parent, imgs, tagSet) ==
    /\ id \notin DOMAIN db.posts
    /\ db' = [db EXCEPT !.posts = PostCreate(@, id, author, parent),
                        !.postImages = @ \cup PostImageRows(id, imgs),
                        !.postTags = @ \cup PostTagRows(id, tagSet)]
    /\ Answer("CreatePost", {id}) /\ Writes

DeletePost(id) ==
    /\ db' = [db EXCEPT !.posts = SoftDelete(@, id)]
    /\ Answer("DeletePost", {}) /\ Writes

CountPost(id, column, d) ==
    /\ db' = [db EXCEPT !.posts = PostCount(@, id, column, d)]
    /\ Answer("CountPost", {}) /\ Writes

PostNext ==
    /\ suite = "posts"
    /\ \E id \in PostIds :
        \/ \E a \in UserSubs, parent \in DOMAIN db.posts \cup {Null} :
             CreatePost(id, a, parent, <<>>, {})
        \/ id \in DOMAIN db.posts /\ DeletePost(id)
        \/ \E c \in {"likes", "replies"}, d \in {-1, 1} : CountPost(id, c, d)

CreateImage(id, owner) ==
    /\ id \notin DOMAIN db.images
    /\ db' = [db EXCEPT !.images = ImageCreate(@, id, owner, now)]
    /\ Answer("CreateImage", {id}) /\ Writes

DeleteImage(id) ==
    /\ db' = [db EXCEPT !.images = SoftDelete(@, id)]
    /\ Answer("DeleteImage", {}) /\ Writes

\* The images of one post, read while others write.
ListImages(id) ==
    /\ Answer("ListByPostID", ImagesByPost(db.postImages, db.images, id))
    /\ Writes /\ UNCHANGED db

LinkNext ==
    /\ suite = "links"
    /\ \/ \E id \in PostIds, imgs \in ImageChoices, tagSet \in TagChoices :
            /\ ToSet(imgs) \subseteq DOMAIN db.images
            /\ CreatePost(id, 1, Null, imgs, tagSet)
       \/ \E id \in ImageIds : CreateImage(id, 1) \/ DeleteImage(id)
       \/ \E id \in DOMAIN db.posts : ListImages(id)

UpsertTags(names, proposed) ==
    LET unique == UniqueNames(names)
    IN  /\ DOMAIN proposed = DOMAIN unique /\ IsInjective(proposed)
        /\ Range(proposed) \cap DOMAIN db.tags = {}
        /\ db' = [db EXCEPT !.tags = TagUpsertByNames(@, unique, proposed)]
        /\ Answer("UpsertByNames", TagIDs(db'.tags, unique)) /\ Writes

TagLists == BoundedSeq(Names \cup {Null}, MaxNames)

TagNext ==
    /\ suite = "tags"
    /\ \E names \in TagLists, proposed \in BoundedSeq(TagIds, MaxNames) :
         UpsertTags(names, proposed)

(***************************************************************************)
(* badges                                                                  *)
(***************************************************************************)
CreateBadge(id, key, priority) ==
    /\ id \notin DOMAIN db.badges
    /\ db' = [db EXCEPT !.badges = BadgeCreate(@, id, key, priority)]
    /\ Answer("CreateBadge", DOMAIN db'.badges \cap {id}) /\ Writes

UpdateBadge(id, priority) ==
    /\ db' = [db EXCEPT !.badges = BadgeUpdate(@, id, priority)]
    /\ Answer("UpdateBadge", DOMAIN db.badges \cap {id}) /\ Writes

Grant(u, b, by, expiresAt) ==
    /\ db' = [db EXCEPT !.grants = BadgeGrant(@, u, b, by, expiresAt, now)]
    /\ Answer("Grant", {}) /\ Writes

Revoke(u, b) ==
    /\ db' = [db EXCEPT !.grants = BadgeRevoke(@, u, b)]
    /\ Answer("Revoke", {}) /\ Writes

BadgeNext ==
    /\ suite = "badges"
    /\ \E b \in BadgeIds :
        \/ \E k \in Keys, p \in Priorities : CreateBadge(b, k, p)
        \/ \E p \in Priorities : UpdateBadge(b, p)
        \/ /\ b \in DOMAIN db.badges
           /\ \E u \in UserSubs : \/ \E t \in {Null, now + 1} : Grant(u, b, 1, t)
                                  \/ Revoke(u, b)

(***************************************************************************)
(* OGP cache, links and job queue                                          *)
(***************************************************************************)
\* Fetcher and worker always give the time of the fetch.  A zero one, which
\* postgres replaces by NOW() and the maps keep, is outside the contract.
UpsertPreview(hash, preview) ==
    /\ db' = [db EXCEPT !.cache = CacheUpsert(@, hash, preview, now)]
    /\ Answer("UpsertPreview", {}) /\ Writes

LinkPreview(id, hash, position) ==
    /\ db' = [db EXCEPT !.postOgp = AttachOGP(@, id, hash, position)]
    /\ Answer("AttachOGP", {}) /\ Writes

Enqueue(j, hash, post, position) ==
    /\ db' = [db EXCEPT !.jobs = JobEnqueue(@, j, hash, post, position, now)]
    /\ Answer("Enqueue", {}) /\ Writes

Claim ==
    \/ /\ OldestQueued(db.jobs) = {}
       /\ Answer("Claim", {}) /\ Writes /\ UNCHANGED db
    \/ \E j \in OldestQueued(db.jobs) :
       /\ db' = [db EXCEPT !.jobs = JobClaim(@, j, now)]
       /\ Answer("Claim", {j}) /\ Writes

MarkDone(j) ==
    /\ db' = [db EXCEPT !.jobs = JobDone(@, j, now)]
    /\ Answer("MarkDone", {}) /\ Writes

MarkFailed(j, reason, retriable) ==
    /\ db' = [db EXCEPT !.jobs = JobFailed(@, j, reason, retriable, now)]
    /\ Answer("MarkFailed", {}) /\ Writes

OgpNext ==
    \/ /\ suite = "ogp"
       /\ \/ \E h \in Hashes, v \in Previews :
               UpsertPreview(h, [status |-> v, fetchedAt |-> now])
          \/ \E h \in DOMAIN db.cache, p \in PostIds, i \in 0..1 : LinkPreview(p, h, i)
    \/ /\ suite = "jobs"
       /\ \/ \E j \in JobIds, h \in Hashes : Enqueue(j, h, 1, 0)
          \/ Claim
          \/ \E j \in DOMAIN db.jobs :
               \/ MarkDone(j)
               \/ \E retriable \in BOOLEAN : MarkFailed(j, 1, retriable)

Next == \/ Tick \/ UserNext \/ FollowNext \/ LikeNext \/ PostNext \/ LinkNext
        \/ TagNext \/ BadgeNext \/ OgpNext

Spec == Init /\ [][Next]_vars
=============================================================================
