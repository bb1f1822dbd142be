-------------------------------- MODULE Feed --------------------------------
(***************************************************************************)
(* Posts with their images, and the people scrolling through them: image   *)
(* upload and deletion (the bucket and the images table are written one    *)
(* after the other), creation and deletion of posts, follow and unfollow,  *)
(* and the keyset-paginated listings (home, user and global timeline,      *)
(* replies).                                                               *)
(*                                                                         *)
(* One action is one SQL statement or transaction, one call to the bucket  *)
(* or the making of a ULID.  A request that is refused, fails or loses its *)
(* deadline takes no further step: its pc stays where it stopped.  A call  *)
(* whose answer is lost has had its effect.  The counters on posts and     *)
(* users are in PostEngagement and SocialGraph and are left out.  So are   *)
(* tags: their rows are only ever added (StoreContract, UpsertTags).       *)
(*                                                                         *)
(* Ids are natural numbers in the order of their ULIDs.  The storage key   *)
(* of an image is unique as its id is; the id stands for both.             *)
(***************************************************************************)
EXTENDS PgTables

CONSTANTS
    Users,
    Requests,           \* requests, each served once; a scroll is many pages
    SeedPosts,          \* tables when the process starts
    SeedImages,
    SeedFollows,
    ImageLists,         \* image_ids of the create requests
    RawLimits,          \* values of the limit parameter
    DefaultPageLimit, MaxPageLimit, MaxImagesPerPost,
    MaxId,              \* bound: no ULID beyond
    MaxFaults           \* bound: failures of the bucket

PostRow == [author : Users, parent : Nat, likes : Nat, replies : Nat, deleted : BOOLEAN]
ImageRow == [owner : Users, createdAt : Nat, deleted : BOOLEAN]

ASSUME FeedAssumption ==
    /\ Users \subseteq Nat \ {Null}
    /\ MaxPageLimit \in Nat /\ DefaultPageLimit \in 1..MaxPageLimit
    /\ RawLimits \subseteq Int /\ ImageLists \subseteq Seq(Nat)
    /\ MaxId \in Nat /\ MaxFaults \in Nat
    /\ DOMAIN SeedPosts \cup DOMAIN SeedImages \subseteq 1..MaxId
    /\ SeedPosts \in [DOMAIN SeedPosts -> PostRow]
    /\ SeedImages \in [DOMAIN SeedImages -> ImageRow]
    /\ DOMAIN SeedFollows \subseteq Users \X Users

VARIABLES
    posts, postImages, images, follows,   \* tables
    bucket,     \* keys of the objects in R2
    ulid,       \* the last ULID made
    trail,      \* keys named in a WARN
    faults,
    req,        \* requests
    must        \* history: the posts that matched a scroll ever since it began

tables == <<posts, postImages, images, follows>>
vars == <<posts, postImages, images, follows, bucket, ulid, trail, faults, req, must>>

Scrolls == {"home", "user", "global", "replies"}

\* `target' is whom or what the request is about, `id' the row it makes,
\* `rest' the images still to check, `authors' the home timeline's authors,
\* `cursor' what the next page starts from, `page' the page just read and the
\* cursor after it, `shown' what the scroll has delivered.
NoReq == [op |-> "none", pc |-> "idle", user |-> Null, target |-> Null, id |-> Null,
          imgs |-> <<>>, rest |-> <<>>, authors |-> {}, cursor |-> Null,
          page |-> <<<<>>, Null>>, shown |-> <<>>]

Init ==
    /\ posts = SeedPosts /\ images = SeedImages /\ follows = SeedFollows
    /\ postImages = {}
    /\ bucket = Live(SeedImages)
    /\ ulid = Max(DOMAIN SeedPosts \cup DOMAIN SeedImages \cup {Null})
    /\ trail = {} /\ faults = 0
    /\ req = [r \in Requests |-> NoReq]
    /\ must = [r \in Requests |-> {}]

(***************************************************************************)
(* Requests arrive.                                                        *)
(***************************************************************************)
Arrive(r, op, pc, user, target, imgs) ==
    /\ req[r].pc = "idle"
    /\ req' = [req EXCEPT ![r] = [NoReq EXCEPT !.op = op, !.pc = pc, !.user = user,
                                    !.target = target, !.imgs = imgs, !.rest = imgs]]
    /\ UNCHANGED <<tables, bucket, ulid, trail, faults>>

Go(r, pc) == req' = [req EXCEPT ![r].pc = pc]

\* CreatePostRequest.Validate, of a list of images.
Valid(imgs) == Len(imgs) <= MaxImagesPerPost /\ IsInjective(imgs)

ArriveUpload(r) == \E u \in Users : Arrive(r, "upload", "put", u, Null, <<>>)

ArriveDelete(r) == \E u \in Users, i \in DOMAIN images :
    Arrive(r, "deleteImage", "load", u, i, <<>>)

ArriveImage(r) == ArriveUpload(r) \/ ArriveDelete(r)

ArrivePost(r) == \E u \in Users :
    \/ \E imgs \in ImageLists, parent \in DOMAIN posts \cup {Null} :
         Valid(imgs) /\ Arrive(r, "create", "parent", u, parent, imgs)
    \/ \E p \in DOMAIN posts : Arrive(r, "deletePost", "load", u, p, <<>>)

ArriveFollow(r) == \E u \in Users : \E v \in Users \ {u} :
    Arrive(r, "follow", "write", u, v, <<>>) \/ Arrive(r, "unfollow", "write", u, v, <<>>)

ArriveTimeline(r) == \E u \in Users :
    \/ Arrive(r, "home", "followees", u, Null, <<>>)
    \/ Arrive(r, "user", "page", Null, u, <<>>)
    \/ Arrive(r, "global", "page", Null, Null, <<>>)

ArriveReplies(r) == \E p \in DOMAIN posts : Arrive(r, "replies", "page", Null, p, <<>>)

NewUlid == ulid < MaxId /\ ulid' = ulid + 1

(***************************************************************************)
(* UploadImageUseCase: the object, then the row.                           *)
(***************************************************************************)
PutObject(r) ==
    /\ req[r].pc = "put" /\ NewUlid
    /\ bucket' = bucket \cup {ulid'}
    /\ req' = [req EXCEPT ![r].pc = "insertImage", ![r].id = ulid']
    /\ UNCHANGED <<tables, trail, faults>>

InsertImage(r) ==
    /\ req[r].pc = "insertImage"
    /\ images' = ImageCreate(images, req[r].id, req[r].user, Null)
    /\ Go(r, "done")
    /\ UNCHANGED <<posts, postImages, follows, bucket, ulid, trail, faults>>

(***************************************************************************)
(* DeleteImageUseCase: the object, as well as it goes, then the row.       *)
(***************************************************************************)
\* Mutant: anybody's image.
LoadAnyImage(r) ==
    /\ req[r].op = "deleteImage" /\ req[r].pc = "load"
    /\ req[r].target \in Live(images)
    /\ Go(r, "deleteObject")
    /\ UNCHANGED <<tables, bucket, ulid, trail, faults>>

LoadImage(r) ==
    /\ req[r].op = "deleteImage" /\ req[r].pc = "load"
    /\ \E i \in Live(images) : i = req[r].target /\ images[i].owner = req[r].user
    /\ Go(r, "deleteObject")
    /\ UNCHANGED <<tables, bucket, ulid, trail, faults>>

DeleteObject(r) ==
    /\ req[r].pc = "deleteObject"
    /\ bucket' = bucket \ {req[r].target}
    /\ Go(r, "deleteImage")
    /\ UNCHANGED <<tables, ulid, trail, faults>>

\* Mutant: the error is silenced.
DeleteObjectSilent(r) ==
    /\ req[r].pc = "deleteObject"
    /\ faults < MaxFaults /\ faults' = faults + 1
    /\ bucket' \in {bucket, bucket \ {req[r].target}}
    /\ Go(r, "deleteImage")
    /\ UNCHANGED <<tables, ulid, trail>>

\* An error, whether or not the object is gone: a WARN, and on.
DeleteObjectFails(r) ==
    /\ req[r].pc = "deleteObject"
    /\ faults < MaxFaults /\ faults' = faults + 1
    /\ bucket' \in {bucket, bucket \ {req[r].target}}
    /\ trail' = trail \cup {req[r].target}
    /\ Go(r, "deleteImage")
    /\ UNCHANGED <<tables, ulid>>

DeleteImageRow(r) ==
    /\ req[r].pc = "deleteImage"
    /\ images' = SoftDelete(images, req[r].target)
    /\ Go(r, "done")
    /\ UNCHANGED <<posts, postImages, follows, bucket, ulid, trail, faults>>

(***************************************************************************)
(* CreatePostUseCase                                                       *)
(***************************************************************************)
CheckParent(r) ==
    /\ req[r].pc = "parent"
    /\ req[r].target = Null \/ req[r].target \in Live(posts)
    /\ Go(r, "images")
    /\ UNCHANGED <<tables, bucket, ulid, trail, faults>>

\* Mutant: the image need only exist.
CheckAnyImage(r) ==
    /\ req[r].pc = "images" /\ req[r].rest # <<>>
    /\ Head(req[r].rest) \in Live(images)
    /\ req' = [req EXCEPT ![r].rest = Tail(@)]
    /\ UNCHANGED <<tables, bucket, ulid, trail, faults>>

CheckImage(r) ==
    /\ req[r].pc = "images" /\ req[r].rest # <<>>
    /\ \E i \in Live(images) : i = Head(req[r].rest) /\ images[i].owner = req[r].user
    /\ req' = [req EXCEPT ![r].rest = Tail(@)]
    /\ UNCHANGED <<tables, bucket, ulid, trail, faults>>

\* The ULID is made before the transaction starts.
MakeUlid(r) ==
    /\ req[r].pc = "images" /\ req[r].rest = <<>> /\ NewUlid
    /\ req' = [req EXCEPT ![r].pc = "insertPost", ![r].id = ulid']
    /\ UNCHANGED <<tables, bucket, trail, faults>>

\* One transaction: the row and its post_images.
InsertPost(r) ==
    /\ req[r].pc = "insertPost"
    /\ posts' = PostCreate(posts, req[r].id, req[r].user, req[r].target)
    /\ postImages' = postImages \cup PostImageRows(req[r].id, req[r].imgs)
    /\ Go(r, "done")
    /\ UNCHANGED <<images, follows, bucket, ulid, trail, faults>>

(***************************************************************************)
(* DeletePostUseCase, FollowUserUseCase and UnfollowUserUseCase: the row.  *)
(***************************************************************************)
LoadPost(r) ==
    /\ req[r].op = "deletePost" /\ req[r].pc = "load"
    /\ \E p \in Live(posts) : p = req[r].target /\ posts[p].author = req[r].user
    /\ Go(r, "deletePost")
    /\ UNCHANGED <<tables, bucket, ulid, trail, faults>>

DeletePost(r) ==
    /\ req[r].pc = "deletePost"
    /\ posts' = SoftDelete(posts, req[r].target)
    /\ Go(r, "done")
    /\ UNCHANGED <<postImages, images, follows, bucket, ulid, trail, faults>>

WriteFollow(r) ==
    /\ req[r].pc = "write"
    /\ LET row == <<req[r].user, req[r].target>>
       IN  follows' = IF req[r].op = "follow" THEN FollowCreate(follows, row, Null)
                                              ELSE FollowDelete(follows, row)
    /\ Go(r, "done")
    /\ UNCHANGED <<posts, postImages, images, bucket, ulid, trail, faults>>

(***************************************************************************)
(* Scrolling                                                               *)
(***************************************************************************)
NormalizeLimit(raw) == IF raw <= 0 \/ raw > MaxPageLimit THEN DefaultPageLimit ELSE raw

\* HomeTimelineUseCase: the followees, anew for every page, and oneself.
ReadFollowees(r) ==
    /\ req[r].pc = "followees"
    /\ req' = [req EXCEPT ![r].pc = "page",
                          ![r].authors = FollowingSubs(follows, req[r].user) \cup {req[r].user}]
    /\ UNCHANGED <<tables, bucket, ulid, trail, faults>>

PageOf(q, limit) ==
    CASE q.op = "home"    -> PostListByUserIDs(posts, q.authors, q.cursor, limit)
      [] q.op = "user"    -> PostList(posts, q.target, q.cursor, limit)
      [] q.op = "global"  -> PostList(posts, Null, q.cursor, limit)
      [] q.op = "replies" -> PostListReplies(posts, q.target, q.cursor, limit)

ReadPage(r) ==
    /\ req[r].pc = "page"
    /\ \E raw \in RawLimits :
         req' = [req EXCEPT ![r].pc = "deliver", ![r].page = PageOf(req[r], NormalizeLimit(raw))]
    /\ UNCHANGED <<tables, bucket, ulid, trail, faults>>

AskAgain(q) == IF q.op = "home" THEN "followees" ELSE "page"

\* The response arrives, and the client asks for what next_cursor names.
Deliver(r) ==
    /\ req[r].pc = "deliver"
    /\ req' = [req EXCEPT ![r].shown = @ \o req[r].page[1],
                          ![r].cursor = req[r].page[2],
                          ![r].pc = IF req[r].page[2] = Null THEN "done" ELSE AskAgain(req[r])]
    /\ UNCHANGED <<tables, bucket, ulid, trail, faults>>

\* Hydrate fails or the response is lost, and the client repeats the request.
Retry(r) ==
    /\ req[r].pc = "deliver"
    /\ Go(r, AskAgain(req[r]))
    /\ UNCHANGED <<tables, bucket, ulid, trail, faults>>

Scroll(r) == ReadFollowees(r) \/ ReadPage(r) \/ Deliver(r) \/ Retry(r)

\* The posts a scroll is to show, by the tables as they are.
Wanted(q) ==
    CASE q.op = "home"    -> {p \in Live(posts) : posts[p].parent = Null
                               /\ posts[p].author \in FollowingSubs(follows, q.user) \cup {q.user}}
      [] q.op = "user"    -> {p \in Live(posts) : posts[p].parent = Null /\ posts[p].author = q.target}
      [] q.op = "global"  -> {p \in Live(posts) : posts[p].parent = Null}
      [] q.op = "replies" -> {p \in Live(posts) : posts[p].parent = q.target}
      [] OTHER            -> {}

Step(r) ==
    \/ ArriveImage(r) \/ ArrivePost(r) \/ ArriveFollow(r)
    \/ ArriveTimeline(r) \/ ArriveReplies(r)
    \/ PutObject(r) \/ InsertImage(r)
    \/ LoadImage(r) \/ DeleteObject(r) \/ DeleteObjectFails(r) \/ DeleteImageRow(r)
    \/ CheckParent(r) \/ CheckImage(r) \/ MakeUlid(r) \/ InsertPost(r)
    \/ LoadPost(r) \/ DeletePost(r) \/ WriteFollow(r)
    \/ Scroll(r)

Next ==
    /\ \E r \in Requests : Step(r)
    /\ must' = [r \in Requests |->
                  IF req[r].pc = "idle" THEN Wanted(req[r])' ELSE must[r] \cap Wanted(req[r])']

Spec == Init /\ [][Next]_vars

(***************************************************************************)
(* Properties                                                              *)
(***************************************************************************)
\* A scroll goes strictly from newer to older posts: none is shown twice,
\* although posts are made, deleted, followed and unfollowed between two
\* pages, limits change from page to page and lost pages are asked for again.
ShownOnceInOrder ==
    \A r \in Requests : \A i, j \in DOMAIN req[r].shown :
        i < j => req[r].shown[i] > req[r].shown[j]

\* When next_cursor is null, the scroll has shown every post that was there
\* when it began and matched ever since (was not deleted, its author not
\* unfollowed).
ScrollComplete ==
    \A r \in Requests : req[r].op \in Scrolls /\ req[r].pc = "done" =>
        must[r] \subseteq ToSet(req[r].shown)

\* An image that posts still show has its object in the bucket, unless its
\* own owner has asked for its deletion: the object comes first on upload,
\* and nobody else's deletion gets as far as the bucket.
LiveImageBacked ==
    \A i \in Live(images) \ bucket : \E r \in Requests :
        /\ req[r].op = "deleteImage" /\ req[r].target = i
        /\ req[r].user = images[i].owner
        /\ req[r].pc \in {"deleteImage", "done"}

\* An object without a live row is the one of an upload that has not (or not
\* yet) saved its row, or a WARN names it: deletion leaves none silently.
OrphanTraced ==
    \A k \in bucket \ Live(images) :
        \/ k \in trail
        \/ \E r \in Requests : req[r].pc = "insertImage" /\ req[r].id = k

\* A post shows images of its author only, each at a place of its own, however
\* uploads, deletions and other posts run between the check of the images and
\* the insertion of the post.
AttachedOwn ==
    /\ \A l \in postImages : images[l[2]].owner = posts[l[1]].author
    /\ \A k, l \in postImages : k[1] = l[1] /\ k # l => k[2] # l[2] /\ k[3] # l[3]
=============================================================================
