--------------------------- MODULE PostEngagement ---------------------------
(***************************************************************************)
(* Posts, replies, likes and the two denormalised counters.                *)
(*                                                                         *)
(* An HTTP request runs one use case of internal/usecase/post.  A use case *)
(* is a sequence of single SQL statements on a pooled connection, with no  *)
(* transaction around them, so the requests in flight interleave statement *)
(* by statement.  One action is one statement, together with the code that *)
(* runs before the next one.                                               *)
(*                                                                         *)
(* `Requests' is the set of request instances: each is served once.  A     *)
(* request that meets a database error, its deadline, or the end of the    *)
(* process stops between two statements and is in `aborted'; its pc stays  *)
(* where it stopped, so what it left undone can still be named.  (A        *)
(* statement that took effect but whose answer was lost is that statement  *)
(* followed by the abort.)                                                 *)
(*                                                                         *)
(* Images and tags of a new post do not touch this state: their checks are *)
(* one more place where a request can abort.                               *)
(***************************************************************************)
EXTENDS Integers, FiniteSets

CONSTANTS
    Users,       \* AuthCore subs
    Posts,       \* post ids; the ones not yet inserted are "absent"
    Requests,    \* request instances
    Seed,        \* posts that exist when the process starts
    SeedParent,  \* the post each of them replies to, or None
    None         \* the SQL NULL of parent_post_id and root_post_id

ASSUME EngagementAssumption ==
    /\ IsFiniteSet(Users) /\ IsFiniteSet(Posts) /\ IsFiniteSet(Requests)
    /\ None \notin Posts
    /\ Seed \subseteq Posts
    /\ SeedParent \in [Seed -> Seed \cup {None}]
    /\ \A p \in Seed : SeedParent[p] # None => SeedParent[SeedParent[p]] = None

VARIABLES
    status,        \* posts: "absent", "live" (deleted_at IS NULL), "deleted"
    row,           \* posts: user_id, parent_post_id, root_post_id
    likesCount,    \* posts.likes_count
    repliesCount,  \* posts.replies_count
    likes,         \* rows of the likes table, <<user, post>>
    pc,            \* the next statement of each request
    arg,           \* what each request was given or has read
    aborted        \* requests that stopped at their pc

vars == <<status, row, likesCount, repliesCount, likes, pc, arg, aborted>>
table == <<status, row, likesCount, repliesCount, likes>>

Status == {"absent", "live", "deleted"}
PC == {"idle", "done",
       "create", "replyInc", "createHook", "created",
       "delete", "replyDec", "deleted",
       "like", "likeInc", "likeHook", "liked",
       "likeDec", "unliked"}
MaybePost == Posts \cup {None}
Row == [author : Users \cup {None}, parent : MaybePost, root : MaybePost]
Arg == [user : Users \cup {None}, post : MaybePost,
        parent : MaybePost, root : MaybePost]

NoArg == [user |-> None, post |-> None, parent |-> None, root |-> None]
NoRow == [author |-> None, parent |-> None, root |-> None]

TypeOK ==
    /\ status \in [Posts -> Status]
    /\ row \in [Posts -> Row]
    /\ likesCount \in [Posts -> Nat]
    /\ repliesCount \in [Posts -> Nat]
    /\ likes \subseteq Users \X Posts
    /\ pc \in [Requests -> PC]
    /\ arg \in [Requests -> Arg]
    /\ aborted \subseteq Requests

-----------------------------------------------------------------------------
(* Tables and repository statements. *)

\* GetByID: missing and soft-deleted posts are the same to the caller.
IsLive(p) == status[p] = "live"

Likers(p) == {u \in Users : <<u, p>> \in likes}

LiveReplies(p) == {c \in Posts : IsLive(c) /\ row[c].parent = p}

Init ==
    /\ status = [p \in Posts |-> IF p \in Seed THEN "live" ELSE "absent"]
    /\ \E by \in [Seed -> Users] :
         row = [p \in Posts |->
                  IF p \in Seed
                  THEN [author |-> by[p], parent |-> SeedParent[p],
                        root |-> SeedParent[p]]
                  ELSE NoRow]
    /\ likesCount = [p \in Posts |-> 0]
    /\ repliesCount = [p \in Posts |->
                         Cardinality({c \in Seed : SeedParent[c] = p})]
    /\ likes = {}
    /\ pc = [r \in Requests |-> "idle"]
    /\ arg = [r \in Requests |-> NoArg]
    /\ aborted = {}

\* Mutant: the WHERE clause forgotten.
IncrementAny(count, p) == [count EXCEPT ![p] = @ + 1]

\* UPDATE ... SET n = n + 1 / GREATEST(n - 1, 0) WHERE deleted_at IS NULL:
\* one atomic statement that a missing or deleted row makes a no-op.
Increment(count, p) == IF IsLive(p) THEN [count EXCEPT ![p] = @ + 1] ELSE count

Decrement(count, p) ==
    IF IsLive(p) /\ count[p] > 0 THEN [count EXCEPT ![p] = @ - 1] ELSE count

\* Request r goes on to statement `to'.
Goto(r, to) == pc' = [pc EXCEPT ![r] = to]

At(r, at) == pc[r] = at /\ r \notin aborted

-----------------------------------------------------------------------------
(* CreatePostUseCase.Execute *)

\* Mutant: the parent taken for the root, however deep the reply.
ParentAsRoot(p) == p

\* The root a reply inherits: its parent's root, or the parent itself.
InheritedRoot(p) == IF row[p].root # None THEN row[p].root ELSE p

\* Validation and the parent lookup.
BeginCreate(r, u, q) ==
    /\ At(r, "idle")
    /\ \/ /\ q # None => IsLive(q)
          /\ arg' = [arg EXCEPT ![r] =
                       [user |-> u, post |-> None, parent |-> q,
                        root |-> IF q = None THEN None ELSE InheritedRoot(q)]]
          /\ Goto(r, "create")
       \/ /\ q # None /\ ~IsLive(q)        \* 404: parent post not found
          /\ Goto(r, "done")
          /\ UNCHANGED arg
    /\ UNCHANGED <<table, aborted>>

\* postRepo.Create: the post, under a fresh ULID, in one transaction.
InsertPost(r) ==
    /\ At(r, "create")
    /\ \E p \in Posts :
         /\ status[p] = "absent"
         /\ status' = [status EXCEPT ![p] = "live"]
         /\ row' = [row EXCEPT ![p] = [author |-> arg[r].user,
                                       parent |-> arg[r].parent,
                                       root   |-> arg[r].root]]
         /\ arg' = [arg EXCEPT ![r] = [user |-> arg[r].user, post |-> p,
                                       parent |-> arg[r].parent,
                                       root |-> arg[r].root]]
    /\ Goto(r, IF arg[r].parent = None THEN "createHook" ELSE "replyInc")
    /\ UNCHANGED <<likesCount, repliesCount, likes, aborted>>

\* Mutant: the thread's root is counted instead of the parent.
IncrementRootReplies(r) ==
    /\ At(r, "replyInc")
    /\ repliesCount' = Increment(repliesCount, arg[r].root)
    /\ Goto(r, "createHook")
    /\ UNCHANGED <<status, row, likesCount, likes, arg, aborted>>

IncrementRepliesCount(r) ==
    /\ At(r, "replyInc")
    /\ repliesCount' = Increment(repliesCount, arg[r].parent)
    /\ Goto(r, "createHook")
    /\ UNCHANGED <<status, row, likesCount, likes, arg, aborted>>

\* The images are read back and the commit hook hands the post to the OGP
\* enqueuer and the fuju dispatcher.
CreateHook(r) ==
    /\ At(r, "createHook")
    /\ Goto(r, "created")
    /\ UNCHANGED <<table, arg, aborted>>

-----------------------------------------------------------------------------
(* DeletePostUseCase.Execute *)

BeginDelete(r, u, p) ==
    /\ At(r, "idle")
    /\ \/ /\ IsLive(p) /\ row[p].author = u
          /\ arg' = [arg EXCEPT ![r] = [user |-> u, post |-> p,
                                        parent |-> row[p].parent,
                                        root |-> None]]
          /\ Goto(r, "delete")
       \/ /\ ~IsLive(p) \/ row[p].author # u      \* 404 or 403
          /\ Goto(r, "done")
          /\ UNCHANGED arg
    /\ UNCHANGED <<table, aborted>>

\* postRepo.Delete does not report whether its UPDATE matched a live row.
SoftDeletePost(r) ==
    /\ At(r, "delete")
    /\ status' = [status EXCEPT ![arg[r].post] =
                    IF @ = "live" THEN "deleted" ELSE @]
    /\ Goto(r, IF arg[r].parent = None THEN "deleted" ELSE "replyDec")
    /\ UNCHANGED <<row, likesCount, repliesCount, likes, arg, aborted>>

DecrementRepliesCount(r) ==
    /\ At(r, "replyDec")
    /\ repliesCount' = Decrement(repliesCount, arg[r].parent)
    /\ Goto(r, "deleted")
    /\ UNCHANGED <<status, row, likesCount, likes, arg, aborted>>

-----------------------------------------------------------------------------
(* LikePostUseCase.Execute *)

BeginLike(r, u, p) ==
    /\ At(r, "idle")
    /\ \/ /\ IsLive(p)
          /\ arg' = [arg EXCEPT ![r] = [user |-> u, post |-> p,
                                        parent |-> None, root |-> None]]
          /\ Goto(r, "like")
       \/ /\ ~IsLive(p)                    \* 404: post not found
          /\ Goto(r, "done")
          /\ UNCHANGED arg
    /\ UNCHANGED <<table, aborted>>

\* Mutant: `inserted' is not looked at.
InsertLikeUnchecked(r) ==
    /\ At(r, "like")
    /\ likes' = likes \cup {<<arg[r].user, arg[r].post>>}
    /\ Goto(r, "likeInc")
    /\ UNCHANGED <<status, row, likesCount, repliesCount, arg, aborted>>

\* likeRepo.Create: INSERT ... ON CONFLICT DO NOTHING.  Only a row that was
\* really inserted goes on to the counter and the hook.
InsertLike(r) ==
    LET pair == <<arg[r].user, arg[r].post>> IN
    /\ At(r, "like")
    /\ likes' = likes \cup {pair}
    /\ Goto(r, IF pair \in likes THEN "done" ELSE "likeInc")
    /\ UNCHANGED <<status, row, likesCount, repliesCount, arg, aborted>>

IncrementLikesCount(r) ==
    /\ At(r, "likeInc")
    /\ likesCount' = Increment(likesCount, arg[r].post)
    /\ Goto(r, "likeHook")
    /\ UNCHANGED <<status, row, repliesCount, likes, arg, aborted>>

\* The commit hook queues a `like' event for the emotion model.
LikeHook(r) ==
    /\ At(r, "likeHook")
    /\ Goto(r, "liked")
    /\ UNCHANGED <<table, arg, aborted>>

-----------------------------------------------------------------------------
(* UnlikePostUseCase.Execute: likeRepo.Delete is its first statement; the  *)
(* post itself is never looked up.                                         *)

\* Mutant: `deleted' is not looked at.
DeleteLikeUnchecked(r, u, p) ==
    /\ At(r, "idle")
    /\ likes' = likes \ {<<u, p>>}
    /\ arg' = [arg EXCEPT ![r] = [user |-> u, post |-> p,
                                  parent |-> None, root |-> None]]
    /\ Goto(r, "likeDec")
    /\ UNCHANGED <<status, row, likesCount, repliesCount, aborted>>

DeleteLike(r, u, p) ==
    LET pair == <<u, p>> IN
    /\ At(r, "idle")
    /\ likes' = likes \ {pair}
    /\ arg' = [arg EXCEPT ![r] = [user |-> u, post |-> p,
                                  parent |-> None, root |-> None]]
    /\ Goto(r, IF pair \in likes THEN "likeDec" ELSE "done")
    /\ UNCHANGED <<status, row, likesCount, repliesCount, aborted>>

DecrementLikesCount(r) ==
    /\ At(r, "likeDec")
    /\ likesCount' = Decrement(likesCount, arg[r].post)
    /\ Goto(r, "unliked")
    /\ UNCHANGED <<status, row, repliesCount, likes, arg, aborted>>

-----------------------------------------------------------------------------
Finished == {"done", "created", "deleted", "liked", "unliked"}

\* A statement fails, the deadline of ContextTimeoutMiddleware passes, or
\* the process stops: the use case returns its error and does no more.
Abort(r) ==
    /\ r \notin aborted
    /\ pc[r] \notin Finished \cup {"idle"}
    /\ aborted' = aborted \cup {r}
    /\ UNCHANGED <<table, pc, arg>>

Next ==
    \E r \in Requests :
      \/ \E u \in Users, q \in MaybePost : BeginCreate(r, u, q)
      \/ InsertPost(r)
      \/ IncrementRepliesCount(r)
      \/ CreateHook(r)
      \/ \E u \in Users, p \in Posts : BeginDelete(r, u, p)
      \/ SoftDeletePost(r)
      \/ DecrementRepliesCount(r)
      \/ \E u \in Users, p \in Posts : BeginLike(r, u, p)
      \/ InsertLike(r)
      \/ IncrementLikesCount(r)
      \/ LikeHook(r)
      \/ \E u \in Users, p \in Posts : DeleteLike(r, u, p)
      \/ DecrementLikesCount(r)
      \/ Abort(r)

Spec == Init /\ [][Next]_vars

-----------------------------------------------------------------------------
(* What the counters owe to the requests in flight or aborted. *)

LikeIncs(p) == {r \in Requests : pc[r] = "likeInc" /\ arg[r].post = p}
LikeDecs(p) == {r \in Requests : pc[r] = "likeDec" /\ arg[r].post = p}
ReplyIncs(p) == {r \in Requests : pc[r] = "replyInc" /\ arg[r].parent = p}
ReplyDecs(p) == {r \in Requests : pc[r] = "replyDec" /\ arg[r].parent = p}

Unlikes(p) == {r \in Requests : pc[r] \in {"likeDec", "unliked"}
                                /\ arg[r].post = p}

Deletes(p) == {r \in Requests : pc[r] \in {"delete", "replyDec", "deleted"}
                                /\ arg[r].post = p}

\* No request that has changed a like row of p still owes the counter.
LikesSettled(p) == LikeIncs(p) = {} /\ LikeDecs(p) = {}
RepliesSettled(p) == ReplyIncs(p) = {} /\ ReplyDecs(p) = {}

\* Once every like and unlike of a live post has reached its counter, the
\* counter is at least the number of like rows: in no interleaving of
\* LikePost and UnlikePost does a like that is stored go uncounted.
LikesNeverUndercounted ==
    \A p \in Posts : IsLive(p) /\ LikesSettled(p)
                       => likesCount[p] >= Cardinality(Likers(p))

\* While nobody has removed a like of p, the counter and the increments still
\* owed add up to exactly the like rows: concurrent or repeated likes by one
\* user adjust the counter at most once (the `inserted' result of
\* likeRepo.Create).
LikesCountedOnce ==
    \A p \in Posts : IsLive(p) /\ Unlikes(p) = {}
      => likesCount[p] + Cardinality(LikeIncs(p)) = Cardinality(Likers(p))

\* For each user and post the requests that inserted the row alternate with
\* the ones that removed it, so at most one `like' event is queued for each
\* time the post becomes liked.
LikeTransitionsAlternate ==
    \A u \in Users, p \in Posts :
      LET By(states) == {r \in Requests : /\ pc[r] \in states
                                          /\ arg[r].post = p /\ arg[r].user = u}
      IN  Cardinality(By({"likeInc", "likeHook", "liked"}))
            = Cardinality(By({"likeDec", "unliked"}))
              + (IF <<u, p>> \in likes THEN 1 ELSE 0)

\* As long as no reply of p has been the target of two delete requests, the
\* settled replies_count is at least the number of live replies.
RepliesNeverUndercounted ==
    \A p \in Posts :
      /\ IsLive(p) /\ RepliesSettled(p)
      /\ \A c \in Posts : row[c].parent = p => Cardinality(Deletes(c)) <= 1
      => repliesCount[p] >= Cardinality(LiveReplies(p))

\* The root of a reply is its parent's root, or the parent when that is a
\* top-level post; a root is itself top level and its row exists.  It must
\* survive deletes of the parent or the root while the reply is on its way.
ThreadRooted ==
    \A c \in Posts : status[c] # "absent" =>
      IF row[c].parent = None THEN row[c].root = None
      ELSE /\ status[row[c].parent] # "absent"
           /\ row[c].root = InheritedRoot(row[c].parent)
           /\ status[row[c].root] # "absent"
           /\ row[row[c].root].parent = None

\* Soft deletion is final: no late increment, decrement, like or second
\* delete changes the row of a deleted post.
DeletedRowFrozen ==
    [][\A p \in Posts : status[p] = "deleted" =>
         /\ status'[p] = "deleted" /\ row'[p] = row[p]
         /\ likesCount'[p] = likesCount[p]
         /\ repliesCount'[p] = repliesCount[p]]_vars

\* A post only disappears through a delete request of its own author: the
\* ownership read by GetByID is still true when the UPDATE runs.
OnlyAuthorDeletes ==
    [][\A p \in Posts : IsLive(p) /\ ~IsLive(p)' =>
         \E r \in Requests : /\ pc[r] = "delete" /\ arg[r].post = p
                             /\ arg[r].user = row[p].author]_vars

-----------------------------------------------------------------------------
(* What the design notes say, and the code does not keep. *)

\* "likes_count is kept consistent by the application layer": with no request
\* in flight and none failed, the counter is the number of like rows.
LikesCountConsistent ==
    \A p \in Posts : IsLive(p) /\ LikesSettled(p)
                       => likesCount[p] = Cardinality(Likers(p))
=============================================================================
