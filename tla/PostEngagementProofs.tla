------------------------ MODULE PostEngagementProofs ------------------------
(***************************************************************************)
(* The counters, threads and row rules of PostEngagement for every set of  *)
(* users, posts and requests.                                              *)
(***************************************************************************)
EXTENDS PostEngagement, FiniteSetTheorems, TLAPS

\* A request about to touch a like row, or the likes counter of a post, has a
\* real user and a post that was inserted.
TargetsExist ==
    \A r \in Requests : pc[r] \in {"like", "likeInc", "likeDec", "unliked"} =>
      /\ arg[r].user \in Users /\ arg[r].post \in Posts
      /\ status[arg[r].post] # "absent"

\* A like row refers to an inserted post (its foreign key).
LikedExist ==
    \A u \in Users, p \in Posts : <<u, p>> \in likes => status[p] # "absent"

Foundation == TypeOK /\ TargetsExist /\ LikedExist

\* The ledger behind LikesNeverUndercounted: the counter and the increments
\* owed to it cover the like rows and the decrements owed.
LikeLedger ==
    \A p \in Posts : IsLive(p) =>
      likesCount[p] + Cardinality(LikeIncs(p))
        >= Cardinality(Likers(p)) + Cardinality(LikeDecs(p))

-----------------------------------------------------------------------------
(* Sets that are counted are finite, and their sizes are numbers. *)

\* The sets of requests and users that the ledger counts are finite.
LEMMA CountedSetsFinite ==
    ASSUME NEW p
    PROVE  /\ IsFiniteSet(LikeIncs(p)) /\ Cardinality(LikeIncs(p)) \in Nat
           /\ IsFiniteSet(LikeDecs(p)) /\ Cardinality(LikeDecs(p)) \in Nat
           /\ IsFiniteSet(Likers(p)) /\ Cardinality(Likers(p)) \in Nat
  <1>1. LikeIncs(p) \subseteq Requests /\ LikeDecs(p) \subseteq Requests
    BY DEF LikeIncs, LikeDecs
  <1>2. Likers(p) \subseteq Users
    BY DEF Likers
  <1>3. /\ IsFiniteSet(LikeIncs(p)) /\ IsFiniteSet(LikeDecs(p))
        /\ IsFiniteSet(Likers(p))
    BY <1>1, <1>2, FS_Subset, EngagementAssumption
  <1> QED
    BY <1>3, FS_CardinalityType

\* The two counter statements keep a counter column a function to Nat.
LEMMA CounterTypes ==
    ASSUME NEW count \in [Posts -> Nat], NEW p
    PROVE  /\ Increment(count, p) \in [Posts -> Nat]
           /\ Decrement(count, p) \in [Posts -> Nat]
  <1>1. CASE p \in Posts
    BY <1>1 DEF Increment, Decrement
  <1>2. CASE p \notin Posts
    BY <1>2 DEF Increment, Decrement
  <1> QED
    BY <1>1, <1>2

-----------------------------------------------------------------------------
(* The foundation: types, and rows before the things that refer to them. *)

\* Every step keeps the types and the references of requests and likes.
LEMMA FoundationStep == Foundation /\ [Next]_vars => Foundation'
  <1> SUFFICES ASSUME Foundation, [Next]_vars
               PROVE  Foundation'
    OBVIOUS
  <1> USE DEF Foundation, TargetsExist, LikedExist, At, Goto, IsLive
  <1> USE EngagementAssumption DEF TypeOK, Row, Arg, MaybePost, PC, Status, table
  <1>1. ASSUME NEW r \in Requests, NEW u \in Users, NEW q \in MaybePost,
               BeginCreate(r, u, q)
        PROVE  Foundation'
    <2>1. CASE q # None => IsLive(q)
      <3>1. (IF q = None THEN None ELSE InheritedRoot(q)) \in MaybePost
        BY DEF InheritedRoot
      <3>2. CASE /\ arg' = [arg EXCEPT ![r] =
                       [user |-> u, post |-> None, parent |-> q,
                        root |-> IF q = None THEN None ELSE InheritedRoot(q)]]
                 /\ Goto(r, "create")
        BY <1>1, <3>1, <3>2 DEF BeginCreate
      <3> QED
        BY <1>1, <2>1, <3>2 DEF BeginCreate
    <2>2. CASE q # None /\ ~IsLive(q)
      BY <1>1, <2>2 DEF BeginCreate
    <2> QED
      BY <2>1, <2>2
  <1>2. ASSUME NEW r \in Requests, InsertPost(r)
        PROVE  Foundation'
    BY <1>2 DEF InsertPost
  <1>3. ASSUME NEW r \in Requests, IncrementRepliesCount(r)
        PROVE  Foundation'
    BY <1>3, CounterTypes DEF IncrementRepliesCount
  <1>4. ASSUME NEW r \in Requests, CreateHook(r)
        PROVE  Foundation'
    BY <1>4 DEF CreateHook
  <1>5. ASSUME NEW r \in Requests, NEW u \in Users, NEW p \in Posts,
               BeginDelete(r, u, p)
        PROVE  Foundation'
    BY <1>5 DEF BeginDelete
  <1>6. ASSUME NEW r \in Requests, SoftDeletePost(r)
        PROVE  Foundation'
    BY <1>6 DEF SoftDeletePost
  <1>7. ASSUME NEW r \in Requests, DecrementRepliesCount(r)
        PROVE  Foundation'
    BY <1>7, CounterTypes DEF DecrementRepliesCount
  <1>8. ASSUME NEW r \in Requests, NEW u \in Users, NEW p \in Posts,
               BeginLike(r, u, p)
        PROVE  Foundation'
    <2>1. CASE IsLive(p)
      <3>1. arg' = [arg EXCEPT ![r] = [user |-> u, post |-> p,
                                       parent |-> None, root |-> None]]
        BY <1>8, <2>1 DEF BeginLike
      <3>2. arg' \in [Requests -> Arg]
        BY <3>1
      <3>3. TypeOK'
        BY <1>8, <3>2 DEF BeginLike
      <3> QED
        BY <1>8, <2>1, <3>1, <3>3 DEF BeginLike
    <2>2. CASE ~IsLive(p)
      BY <1>8, <2>2 DEF BeginLike
    <2> QED
      BY <2>1, <2>2
  <1>9. ASSUME NEW r \in Requests, InsertLike(r)
        PROVE  Foundation'
    BY <1>9 DEF InsertLike
  <1>10. ASSUME NEW r \in Requests, IncrementLikesCount(r)
         PROVE  Foundation'
    BY <1>10, CounterTypes DEF IncrementLikesCount
  <1>11. ASSUME NEW r \in Requests, LikeHook(r)
         PROVE  Foundation'
    BY <1>11 DEF LikeHook
  <1>12. ASSUME NEW r \in Requests, NEW u \in Users, NEW p \in Posts,
                DeleteLike(r, u, p)
         PROVE  Foundation'
    BY <1>12 DEF DeleteLike
  <1>13. ASSUME NEW r \in Requests, DecrementLikesCount(r)
         PROVE  Foundation'
    BY <1>13, CounterTypes DEF DecrementLikesCount
  <1>14. ASSUME NEW r \in Requests, Abort(r)
         PROVE  Foundation'
    BY <1>14 DEF Abort
  <1>15. CASE UNCHANGED vars
    BY <1>15 DEF vars
  <1> QED
    BY <1>1, <1>2, <1>3, <1>4, <1>5, <1>6, <1>7, <1>8, <1>9, <1>10,
       <1>11, <1>12, <1>13, <1>14, <1>15 DEF Next

\* The seeded tables satisfy the foundation.
LEMMA FoundationInit == Init => Foundation
  <1> SUFFICES ASSUME Init PROVE Foundation
    OBVIOUS
  <1> USE EngagementAssumption DEF Init
  <1>1. ASSUME NEW p \in Posts
        PROVE  Cardinality({c \in Seed : SeedParent[c] = p}) \in Nat
    <2>1. IsFiniteSet({c \in Seed : SeedParent[c] = p})
      BY FS_Subset
    <2> QED
      BY <2>1, FS_CardinalityType
  <1>2. repliesCount \in [Posts -> Nat]
    BY <1>1
  <1>3. row \in [Posts -> Row]
    BY DEF Row, MaybePost, NoRow
  <1>4. arg \in [Requests -> Arg] /\ pc \in [Requests -> PC]
    BY DEF Arg, MaybePost, NoArg, PC
  <1>5. TypeOK
    BY <1>2, <1>3, <1>4 DEF TypeOK, Status
  <1> QED
    BY <1>5 DEF Foundation, TargetsExist, LikedExist

\* The types and references hold in every reachable state.
THEOREM FoundationHolds == Spec => []Foundation
  BY FoundationInit, FoundationStep, PTL DEF Spec

\* Type correctness, for every instance: in particular GREATEST(n - 1, 0)
\* keeps both counters natural numbers whatever the order of statements.
THEOREM TypeCorrect == Spec => []TypeOK
  <1>1. Foundation => TypeOK
    BY DEF Foundation
  <1> QED
    BY <1>1, FoundationHolds, PTL

-----------------------------------------------------------------------------
(* The likes ledger. *)

\* What a step has done to the sets the ledger counts, and to the counter.
LikeSetsUnchanged(p) ==
    /\ LikeIncs(p)' = LikeIncs(p)
    /\ LikeDecs(p)' = LikeDecs(p)
    /\ Likers(p)' = Likers(p)

\* Every step keeps the ledger of every live post.
LEMMA LikeLedgerStep ==
    Foundation /\ LikeLedger /\ [Next]_vars => LikeLedger'
  <1> SUFFICES ASSUME Foundation, LikeLedger, [Next]_vars, Foundation',
                      NEW p \in Posts, IsLive(p)'
               PROVE  (likesCount[p] + Cardinality(LikeIncs(p))
                        >= Cardinality(Likers(p)) + Cardinality(LikeDecs(p)))'
    BY FoundationStep DEF LikeLedger
  <1> DEFINE Owes == likesCount[p] + Cardinality(LikeIncs(p))
                       >= Cardinality(Likers(p)) + Cardinality(LikeDecs(p))
  <1> USE DEF Foundation
  <1>a. /\ Cardinality(LikeIncs(p)) \in Nat /\ Cardinality(LikeIncs(p)') \in Nat
        /\ Cardinality(LikeDecs(p)) \in Nat /\ Cardinality(LikeDecs(p)') \in Nat
        /\ Cardinality(Likers(p)) \in Nat /\ Cardinality(Likers(p)') \in Nat
        /\ likesCount[p] \in Nat
    <2>1. /\ LikeIncs(p)' \subseteq Requests /\ LikeDecs(p)' \subseteq Requests
          /\ Likers(p)' \subseteq Users
      BY DEF LikeIncs, LikeDecs, Likers
    <2>2. /\ IsFiniteSet(LikeIncs(p)') /\ IsFiniteSet(LikeDecs(p)')
          /\ IsFiniteSet(Likers(p)')
      BY <2>1, FS_Subset, EngagementAssumption
    <2> QED
      BY <2>2, CountedSetsFinite, FS_CardinalityType DEF TypeOK
  <1>b. ASSUME LikeSetsUnchanged(p), UNCHANGED likesCount, IsLive(p)
        PROVE  Owes'
    BY <1>b DEF LikeLedger, LikeSetsUnchanged
  <1>1. ASSUME NEW r \in Requests, NEW u \in Users, NEW q \in MaybePost,
               BeginCreate(r, u, q)
        PROVE  Owes'
    <2>1. LikeSetsUnchanged(p)
      BY <1>1 DEF BeginCreate, At, Goto, table, TypeOK, LikeSetsUnchanged,
                  LikeIncs, LikeDecs, Likers
    <2> QED
      BY <1>1, <1>b, <2>1 DEF BeginCreate, table, IsLive
  <1>2. ASSUME NEW r \in Requests, InsertPost(r)
        PROVE  Owes'
    <2>1. LikeSetsUnchanged(p)
      BY <1>2 DEF InsertPost, At, Goto, TypeOK, LikeSetsUnchanged,
                  LikeIncs, LikeDecs, Likers
    <2>2. CASE IsLive(p)
      BY <1>2, <1>b, <2>1, <2>2 DEF InsertPost
    <2>3. CASE ~IsLive(p)
      <3>1. status[p] = "absent"
        BY <1>2, <2>3 DEF InsertPost, IsLive, TypeOK
      <3>2. LikeDecs(p) = {} /\ Likers(p) = {}
        BY <3>1 DEF LikeDecs, Likers, TargetsExist, LikedExist
      <3>3. Cardinality(LikeDecs(p)') = 0 /\ Cardinality(Likers(p)') = 0
        BY <2>1, <3>2, FS_EmptySet DEF LikeSetsUnchanged
      <3>4. likesCount'[p] \in Nat
        BY DEF TypeOK
      <3> QED
        BY <1>a, <3>3, <3>4
    <2> QED
      BY <2>2, <2>3
  <1>3. ASSUME NEW r \in Requests, IncrementRepliesCount(r)
        PROVE  Owes'
    <2>1. LikeSetsUnchanged(p)
      BY <1>3 DEF IncrementRepliesCount, At, Goto, TypeOK, LikeSetsUnchanged,
                  LikeIncs, LikeDecs, Likers
    <2> QED
      BY <1>3, <1>b, <2>1 DEF IncrementRepliesCount, IsLive
  <1>4. ASSUME NEW r \in Requests, CreateHook(r)
        PROVE  Owes'
    <2>1. LikeSetsUnchanged(p)
      BY <1>4 DEF CreateHook, At, Goto, table, TypeOK, LikeSetsUnchanged,
                  LikeIncs, LikeDecs, Likers
    <2> QED
      BY <1>4, <1>b, <2>1 DEF CreateHook, table, IsLive
  <1>5. ASSUME NEW r \in Requests, NEW u \in Users, NEW q \in Posts,
               BeginDelete(r, u, q)
        PROVE  Owes'
    <2>1. LikeSetsUnchanged(p)
      BY <1>5 DEF BeginDelete, At, Goto, table, TypeOK, LikeSetsUnchanged,
                  LikeIncs, LikeDecs, Likers
    <2> QED
      BY <1>5, <1>b, <2>1 DEF BeginDelete, table, IsLive
  <1>6. ASSUME NEW r \in Requests, SoftDeletePost(r)
        PROVE  Owes'
    <2>1. LikeSetsUnchanged(p)
      BY <1>6 DEF SoftDeletePost, At, Goto, TypeOK, LikeSetsUnchanged,
                  LikeIncs, LikeDecs, Likers
    <2>2. IsLive(p)
      BY <1>6 DEF SoftDeletePost, IsLive, TypeOK
    <2> QED
      BY <1>6, <1>b, <2>1, <2>2 DEF SoftDeletePost
  <1>7. ASSUME NEW r \in Requests, DecrementRepliesCount(r)
        PROVE  Owes'
    <2>1. LikeSetsUnchanged(p)
      BY <1>7 DEF DecrementRepliesCount, At, Goto, TypeOK, LikeSetsUnchanged,
                  LikeIncs, LikeDecs, Likers
    <2> QED
      BY <1>7, <1>b, <2>1 DEF DecrementRepliesCount, IsLive
  <1>8. ASSUME NEW r \in Requests, NEW u \in Users, NEW q \in Posts,
               BeginLike(r, u, q)
        PROVE  Owes'
    <2>1. LikeSetsUnchanged(p)
      BY <1>8 DEF BeginLike, At, Goto, table, TypeOK, LikeSetsUnchanged,
                  LikeIncs, LikeDecs, Likers
    <2> QED
      BY <1>8, <1>b, <2>1 DEF BeginLike, table, IsLive
  <1>11. ASSUME NEW r \in Requests, LikeHook(r)
         PROVE  Owes'
    <2>1. LikeSetsUnchanged(p)
      BY <1>11 DEF LikeHook, At, Goto, table, TypeOK, LikeSetsUnchanged,
                   LikeIncs, LikeDecs, Likers
    <2> QED
      BY <1>11, <1>b, <2>1 DEF LikeHook, table, IsLive
  <1>14. ASSUME NEW r \in Requests, Abort(r)
         PROVE  Owes'
    <2>1. LikeSetsUnchanged(p)
      BY <1>14 DEF Abort, table, LikeSetsUnchanged, LikeIncs, LikeDecs, Likers
    <2> QED
      BY <1>14, <1>b, <2>1 DEF Abort, table, IsLive
  <1>15. CASE UNCHANGED vars
    <2>1. LikeSetsUnchanged(p)
      BY <1>15 DEF vars, LikeSetsUnchanged, LikeIncs, LikeDecs, Likers
    <2> QED
      BY <1>15, <1>b, <2>1 DEF vars, IsLive
  <1>9. ASSUME NEW r \in Requests, InsertLike(r)
        PROVE  Owes'
    <2>0. IsLive(p) /\ UNCHANGED likesCount
      BY <1>9 DEF InsertLike, IsLive
    <2> DEFINE u == arg[r].user
               q == arg[r].post
    <2>1. u \in Users /\ q \in Posts
      BY <1>9 DEF InsertLike, At, TargetsExist
    <2>2. CASE q # p \/ <<u, q>> \in likes
      <3>1. LikeSetsUnchanged(p)
        BY <1>9, <2>1, <2>2 DEF InsertLike, At, Goto, TypeOK,
             LikeSetsUnchanged, LikeIncs, LikeDecs, Likers
      <3> QED
        BY <1>b, <2>0, <3>1
    <2>3. CASE q = p /\ <<u, q>> \notin likes
      <3>1. /\ LikeIncs(p)' = LikeIncs(p) \cup {r} /\ r \notin LikeIncs(p)
            /\ LikeDecs(p)' = LikeDecs(p)
        BY <1>9, <2>3 DEF InsertLike, At, Goto, TypeOK, LikeIncs, LikeDecs
      <3>2. Likers(p)' = Likers(p) \cup {u} /\ u \notin Likers(p)
        BY <1>9, <2>1, <2>3 DEF InsertLike, TypeOK, Likers
      <3>3. /\ Cardinality(LikeIncs(p)') = Cardinality(LikeIncs(p)) + 1
            /\ Cardinality(Likers(p)') = Cardinality(Likers(p)) + 1
        BY <3>1, <3>2, CountedSetsFinite, FS_AddElement
      <3> QED
        BY <1>a, <2>0, <3>1, <3>3 DEF LikeLedger
    <2> QED
      BY <2>2, <2>3
  <1>10. ASSUME NEW r \in Requests, IncrementLikesCount(r)
         PROVE  Owes'
    <2>0. IsLive(p) /\ UNCHANGED <<likes, status, arg>>
      BY <1>10 DEF IncrementLikesCount, IsLive
    <2>1. Likers(p)' = Likers(p) /\ LikeDecs(p)' = LikeDecs(p)
      BY <1>10, <2>0 DEF IncrementLikesCount, At, Goto, TypeOK, Likers, LikeDecs
    <2>2. CASE arg[r].post # p
      <3>1. LikeIncs(p)' = LikeIncs(p)
        BY <1>10, <2>2 DEF IncrementLikesCount, At, Goto, TypeOK, LikeIncs
      <3>2. likesCount'[p] = likesCount[p]
        BY <1>10, <2>2 DEF IncrementLikesCount, Increment, TypeOK
      <3> QED
        BY <1>a, <2>0, <2>1, <3>1, <3>2 DEF LikeLedger
    <2>3. CASE arg[r].post = p
      <3>1. LikeIncs(p)' = LikeIncs(p) \ {r} /\ r \in LikeIncs(p)
        BY <1>10, <2>3 DEF IncrementLikesCount, At, Goto, TypeOK, LikeIncs
      <3>2. likesCount'[p] = likesCount[p] + 1
        BY <1>10, <2>0, <2>3 DEF IncrementLikesCount, Increment, TypeOK
      <3>3. Cardinality(LikeIncs(p)') = Cardinality(LikeIncs(p)) - 1
        BY <3>1, CountedSetsFinite, FS_RemoveElement
      <3> QED
        BY <1>a, <2>0, <2>1, <3>2, <3>3 DEF LikeLedger
    <2> QED
      BY <2>2, <2>3
  <1>12. ASSUME NEW r \in Requests, NEW u \in Users, NEW q \in Posts,
                DeleteLike(r, u, q)
         PROVE  Owes'
    <2>0. IsLive(p) /\ UNCHANGED likesCount
      BY <1>12 DEF DeleteLike, IsLive
    <2>2. CASE q # p \/ <<u, q>> \notin likes
      <3>1. LikeSetsUnchanged(p)
        BY <1>12, <2>2 DEF DeleteLike, At, Goto, TypeOK,
             LikeSetsUnchanged, LikeIncs, LikeDecs, Likers
      <3> QED
        BY <1>b, <2>0, <3>1
    <2>3. CASE q = p /\ <<u, q>> \in likes
      <3>1. /\ LikeDecs(p)' = LikeDecs(p) \cup {r} /\ r \notin LikeDecs(p)
            /\ LikeIncs(p)' = LikeIncs(p)
        BY <1>12, <2>3 DEF DeleteLike, At, Goto, TypeOK, LikeIncs, LikeDecs
      <3>2. Likers(p)' = Likers(p) \ {u} /\ u \in Likers(p)
        BY <1>12, <2>3 DEF DeleteLike, TypeOK, Likers
      <3>3. Cardinality(LikeDecs(p)') = Cardinality(LikeDecs(p)) + 1
        BY <3>1, CountedSetsFinite, FS_AddElement
      <3>4. Cardinality(Likers(p)') = Cardinality(Likers(p)) - 1
        BY <3>2, CountedSetsFinite, FS_RemoveElement
      <3> QED
        BY <1>a, <2>0, <3>1, <3>3, <3>4 DEF LikeLedger
    <2> QED
      BY <2>2, <2>3
  <1>13. ASSUME NEW r \in Requests, DecrementLikesCount(r)
         PROVE  Owes'
    <2>0. IsLive(p) /\ UNCHANGED <<likes, status, arg>>
      BY <1>13 DEF DecrementLikesCount, IsLive
    <2>1. Likers(p)' = Likers(p) /\ LikeIncs(p)' = LikeIncs(p)
      BY <1>13, <2>0 DEF DecrementLikesCount, At, Goto, TypeOK, Likers, LikeIncs
    <2>2. CASE arg[r].post # p
      <3>1. LikeDecs(p)' = LikeDecs(p)
        BY <1>13, <2>2 DEF DecrementLikesCount, At, Goto, TypeOK, LikeDecs
      <3>2. likesCount'[p] = likesCount[p]
        BY <1>13, <2>2 DEF DecrementLikesCount, Decrement, TypeOK
      <3> QED
        BY <1>a, <2>0, <2>1, <3>1, <3>2 DEF LikeLedger
    <2>3. CASE arg[r].post = p
      <3>1. LikeDecs(p)' = LikeDecs(p) \ {r} /\ r \in LikeDecs(p)
        BY <1>13, <2>3 DEF DecrementLikesCount, At, Goto, TypeOK, LikeDecs
      <3>2. likesCount'[p] >= likesCount[p] - 1 /\ likesCount'[p] \in Nat
        BY <1>13, <2>0, <2>3 DEF DecrementLikesCount, Decrement, TypeOK
      <3>3. Cardinality(LikeDecs(p)') = Cardinality(LikeDecs(p)) - 1
        BY <3>1, CountedSetsFinite, FS_RemoveElement
      <3> QED
        BY <1>a, <2>0, <2>1, <3>2, <3>3 DEF LikeLedger
    <2> QED
      BY <2>2, <2>3
  <1> QED
    BY <1>1, <1>2, <1>3, <1>4, <1>5, <1>6, <1>7, <1>8, <1>9, <1>10,
       <1>11, <1>12, <1>13, <1>14, <1>15 DEF Next

\* The ledger holds of the seeded tables: no like, no counter, no request.
LEMMA LikeLedgerInit == Init => LikeLedger
  <1> SUFFICES ASSUME Init, NEW p \in Posts
               PROVE  likesCount[p] + Cardinality(LikeIncs(p))
                        >= Cardinality(Likers(p)) + Cardinality(LikeDecs(p))
    BY DEF LikeLedger
  <1>1. LikeIncs(p) = {} /\ LikeDecs(p) = {} /\ Likers(p) = {}
    BY DEF Init, LikeIncs, LikeDecs, Likers
  <1> QED
    BY <1>1, FS_EmptySet DEF Init

\* For any number of users, posts and concurrent like / unlike / delete
\* requests, aborted anywhere: a settled likes_count is never below the
\* number of like rows.
THEOREM LikesCovered == Spec => []LikesNeverUndercounted
  <1>1. Spec => []LikeLedger
    BY LikeLedgerInit, LikeLedgerStep, FoundationHolds, PTL DEF Spec
  <1>2. Foundation /\ LikeLedger => LikesNeverUndercounted
    <2> SUFFICES ASSUME Foundation, LikeLedger, NEW p \in Posts, IsLive(p),
                        LikesSettled(p)
                 PROVE  likesCount[p] >= Cardinality(Likers(p))
      BY DEF LikesNeverUndercounted
    <2>1. Cardinality(LikeIncs(p)) = 0 /\ Cardinality(LikeDecs(p)) = 0
      BY FS_EmptySet DEF LikesSettled
    <2>2. likesCount[p] \in Nat /\ Cardinality(Likers(p)) \in Nat
      BY CountedSetsFinite DEF Foundation, TypeOK
    <2> QED
      BY <2>1, <2>2 DEF LikeLedger
  <1> QED
    BY <1>1, <1>2, FoundationHolds, PTL

-----------------------------------------------------------------------------
(* Threads, ownership and the finality of a soft delete. *)

\* What CreatePost read about the parent is still true when it inserts.
ReplyReady ==
    \A r \in Requests : pc[r] = "create" =>
      IF arg[r].parent = None THEN arg[r].root = None
      ELSE /\ arg[r].parent \in Posts /\ status[arg[r].parent] # "absent"
           /\ arg[r].root = InheritedRoot(arg[r].parent)
           /\ arg[r].root \in Posts /\ status[arg[r].root] # "absent"
           /\ row[arg[r].root].parent = None

\* What DeletePost read about the author is still true when it deletes.
DeleteOwned ==
    \A r \in Requests : pc[r] = "delete" =>
      /\ arg[r].post \in Posts /\ status[arg[r].post] # "absent"
      /\ arg[r].user = row[arg[r].post].author

ThreadInv == ThreadRooted /\ ReplyReady /\ DeleteOwned

\* Rows that exist are never rewritten and never become absent again.
LEMMA RowsKept ==
    ASSUME Foundation, [Next]_vars, NEW p \in Posts, status[p] # "absent"
    PROVE  row'[p] = row[p] /\ status'[p] # "absent"
  <1> USE DEF Foundation, TypeOK, table
  <1>1. ASSUME NEW r \in Requests, InsertPost(r)
        PROVE  row'[p] = row[p] /\ status'[p] # "absent"
    BY <1>1 DEF InsertPost
  <1>2. ASSUME NEW r \in Requests, SoftDeletePost(r)
        PROVE  row'[p] = row[p] /\ status'[p] # "absent"
    BY <1>2 DEF SoftDeletePost
  <1>3. CASE UNCHANGED <<row, status>>
    BY <1>3
  <1> QED
    BY <1>1, <1>2, <1>3
       DEF Next, vars, BeginCreate, IncrementRepliesCount, CreateHook,
           BeginDelete, DecrementRepliesCount, BeginLike, InsertLike,
           IncrementLikesCount, LikeHook, DeleteLike, DecrementLikesCount, Abort

\* A request that stands before its insert or its delete got there by its own
\* first step, and keeps what it read until it moves on.
LEMMA HowRequestsArrive ==
    ASSUME TypeOK, [Next]_vars, NEW r \in Requests
    PROVE  /\ pc'[r] = "create" =>
                \/ pc[r] = "create" /\ arg'[r] = arg[r]
                \/ \E u \in Users, q \in MaybePost : BeginCreate(r, u, q)
           /\ pc'[r] = "delete" =>
                \/ pc[r] = "delete" /\ arg'[r] = arg[r]
                \/ \E u \in Users, p \in Posts : BeginDelete(r, u, p)
  <1> DEFINE Goal ==
        /\ pc'[r] = "create" =>
             \/ pc[r] = "create" /\ arg'[r] = arg[r]
             \/ \E u \in Users, q \in MaybePost : BeginCreate(r, u, q)
        /\ pc'[r] = "delete" =>
             \/ pc[r] = "delete" /\ arg'[r] = arg[r]
             \/ \E u \in Users, p \in Posts : BeginDelete(r, u, p)
  <1> USE DEF TypeOK, At, Goto
  <1>1. ASSUME NEW s \in Requests, NEW u \in Users, NEW q \in MaybePost,
               BeginCreate(s, u, q)
        PROVE  Goal
    <2>1. CASE s = r
      BY <1>1, <2>1 DEF BeginCreate
    <2>2. CASE s # r
      BY <1>1, <2>2 DEF BeginCreate
    <2> QED
      BY <2>1, <2>2
  <1>2. ASSUME NEW s \in Requests,
               InsertPost(s)
        PROVE  Goal
    BY <1>2 DEF InsertPost
  <1>3. ASSUME NEW s \in Requests,
               IncrementRepliesCount(s)
        PROVE  Goal
    BY <1>3 DEF IncrementRepliesCount
  <1>4. ASSUME NEW s \in Requests,
               CreateHook(s)
        PROVE  Goal
    BY <1>4 DEF CreateHook
  <1>5. ASSUME NEW s \in Requests, NEW u \in Users, NEW p \in Posts,
               BeginDelete(s, u, p)
        PROVE  Goal
    <2>1. CASE s = r
      BY <1>5, <2>1 DEF BeginDelete
    <2>2. CASE s # r
      BY <1>5, <2>2 DEF BeginDelete
    <2> QED
      BY <2>1, <2>2
  <1>6. ASSUME NEW s \in Requests,
               SoftDeletePost(s)
        PROVE  Goal
    BY <1>6 DEF SoftDeletePost
  <1>7. ASSUME NEW s \in Requests,
               DecrementRepliesCount(s)
        PROVE  Goal
    BY <1>7 DEF DecrementRepliesCount
  <1>8. ASSUME NEW s \in Requests, NEW u \in Users, NEW p \in Posts,
               BeginLike(s, u, p)
        PROVE  Goal
    BY <1>8 DEF BeginLike
  <1>9. ASSUME NEW s \in Requests,
               InsertLike(s)
        PROVE  Goal
    BY <1>9 DEF InsertLike
  <1>10. ASSUME NEW s \in Requests,
                IncrementLikesCount(s)
        PROVE  Goal
    BY <1>10 DEF IncrementLikesCount
  <1>11. ASSUME NEW s \in Requests,
                LikeHook(s)
        PROVE  Goal
    BY <1>11 DEF LikeHook
  <1>12. ASSUME NEW s \in Requests, NEW u \in Users, NEW p \in Posts,
                DeleteLike(s, u, p)
        PROVE  Goal
    BY <1>12 DEF DeleteLike
  <1>13. ASSUME NEW s \in Requests,
                DecrementLikesCount(s)
        PROVE  Goal
    BY <1>13 DEF DecrementLikesCount
  <1>14. ASSUME NEW s \in Requests,
                Abort(s)
        PROVE  Goal
    BY <1>14 DEF Abort
  <1>15. CASE UNCHANGED vars
    BY <1>15 DEF vars
  <1> QED
    BY <1>1, <1>2, <1>3, <1>4, <1>5, <1>6, <1>7, <1>8,
       <1>9, <1>10, <1>11, <1>12, <1>13, <1>14, <1>15
       DEF Next

\* A live post has a top-level root to hand to its replies.
LEMMA RootOfParent ==
    ASSUME TypeOK, ThreadRooted, NEW q \in Posts, status[q] # "absent"
    PROVE  /\ InheritedRoot(q) \in Posts /\ status[InheritedRoot(q)] # "absent"
           /\ row[InheritedRoot(q)].parent = None
  <1>1. row[q].parent \in MaybePost /\ row[q].root \in MaybePost
    BY DEF TypeOK, Row
  <1>2. CASE row[q].parent = None
    BY <1>2 DEF ThreadRooted, InheritedRoot
  <1>3. CASE row[q].parent # None
    <2>1. row[q].parent \in Posts
      BY <1>1, <1>3 DEF MaybePost
    <2>2. row[row[q].parent].root \in MaybePost
      BY <2>1 DEF TypeOK, Row
    <2>3. row[q].root = InheritedRoot(row[q].parent)
      BY <1>3 DEF ThreadRooted
    <2>4. row[q].root \in Posts /\ row[q].root # None
      BY <2>1, <2>2, <2>3, EngagementAssumption DEF InheritedRoot, MaybePost
    <2> QED
      BY <1>3, <2>4 DEF ThreadRooted, InheritedRoot
  <1> QED
    BY <1>2, <1>3

\* Every step keeps threads rooted and what in-flight requests have read.
LEMMA ThreadStep == Foundation /\ ThreadInv /\ [Next]_vars => ThreadInv'
  <1> SUFFICES ASSUME Foundation, ThreadInv, [Next]_vars, Foundation'
               PROVE  ThreadInv'
    BY FoundationStep
  <1> USE DEF ThreadInv, Foundation
  <1>1. ThreadRooted'
    <2> SUFFICES ASSUME NEW c \in Posts, status'[c] # "absent"
                 PROVE  (IF row[c].parent = None THEN row[c].root = None
                         ELSE /\ status[row[c].parent] # "absent"
                              /\ row[c].root = InheritedRoot(row[c].parent)
                              /\ status[row[c].root] # "absent"
                              /\ row[row[c].root].parent = None)'
      BY DEF ThreadRooted
    <2>1. CASE status[c] # "absent"
      <3>1. row'[c] = row[c]
        BY <2>1, RowsKept
      <3>2. CASE row[c].parent = None
        BY <2>1, <3>1, <3>2 DEF ThreadRooted
      <3>3. CASE row[c].parent # None
        <4>1. row[c].parent \in Posts /\ status[row[c].parent] # "absent"
          BY <2>1, <3>3 DEF ThreadRooted, TypeOK, Row, MaybePost
        <4>2. row[c].root = InheritedRoot(row[c].parent)
          BY <2>1, <3>3 DEF ThreadRooted
        <4>3. /\ row[c].root \in Posts /\ status[row[c].root] # "absent"
              /\ row[row[c].root].parent = None
          BY <4>1, <4>2, RootOfParent
        <4>4. /\ row'[row[c].parent] = row[row[c].parent]
              /\ status'[row[c].parent] # "absent"
              /\ row'[row[c].root] = row[row[c].root]
              /\ status'[row[c].root] # "absent"
          BY <4>1, <4>3, RowsKept
        <4> QED
          BY <3>1, <3>3, <4>2, <4>3, <4>4 DEF InheritedRoot
      <3> QED
        BY <3>2, <3>3
    <2>2. CASE status[c] = "absent"
      <3>1. PICK r \in Requests : InsertPost(r)
        <4>1. ASSUME NEW r \in Requests, SoftDeletePost(r)
              PROVE  FALSE
          BY <2>2, <4>1 DEF SoftDeletePost, TypeOK
        <4> QED
          BY <2>2, <4>1
             DEF Next, vars, table, BeginCreate, IncrementRepliesCount,
                 CreateHook, BeginDelete, DecrementRepliesCount, BeginLike,
                 InsertLike, IncrementLikesCount, LikeHook, DeleteLike,
                 DecrementLikesCount, Abort
      <3>2. row'[c] = [author |-> arg[r].user, parent |-> arg[r].parent,
                       root |-> arg[r].root]
        BY <2>2, <3>1 DEF InsertPost, TypeOK
      <3>3. pc[r] = "create"
        BY <3>1 DEF InsertPost, At
      <3>4. CASE arg[r].parent = None
        BY <3>2, <3>3, <3>4 DEF ReplyReady
      <3>5. CASE arg[r].parent # None
        <4>1. /\ arg[r].parent \in Posts /\ status[arg[r].parent] # "absent"
              /\ arg[r].root = InheritedRoot(arg[r].parent)
              /\ arg[r].root \in Posts /\ status[arg[r].root] # "absent"
              /\ row[arg[r].root].parent = None
          BY <3>3, <3>5 DEF ReplyReady
        <4>2. /\ row'[arg[r].parent] = row[arg[r].parent]
              /\ status'[arg[r].parent] # "absent"
              /\ row'[arg[r].root] = row[arg[r].root]
              /\ status'[arg[r].root] # "absent"
          BY <4>1, RowsKept
        <4> QED
          BY <3>2, <3>5, <4>1, <4>2 DEF InheritedRoot
      <3> QED
        BY <3>4, <3>5
    <2> QED
      BY <2>1, <2>2
  <1>2. ReplyReady'
    <2> SUFFICES ASSUME NEW r \in Requests, pc'[r] = "create"
                 PROVE  (IF arg[r].parent = None THEN arg[r].root = None
                         ELSE /\ arg[r].parent \in Posts
                              /\ status[arg[r].parent] # "absent"
                              /\ arg[r].root = InheritedRoot(arg[r].parent)
                              /\ arg[r].root \in Posts
                              /\ status[arg[r].root] # "absent"
                              /\ row[arg[r].root].parent = None)'
      BY DEF ReplyReady
    <2>1. CASE pc[r] = "create" /\ arg'[r] = arg[r]
      <3>1. CASE arg[r].parent = None
        BY <2>1, <3>1 DEF ReplyReady
      <3>2. CASE arg[r].parent # None
        <4>1. /\ arg[r].parent \in Posts /\ status[arg[r].parent] # "absent"
              /\ arg[r].root = InheritedRoot(arg[r].parent)
              /\ arg[r].root \in Posts /\ status[arg[r].root] # "absent"
              /\ row[arg[r].root].parent = None
          BY <2>1, <3>2 DEF ReplyReady
        <4>2. /\ row'[arg[r].parent] = row[arg[r].parent]
              /\ status'[arg[r].parent] # "absent"
              /\ row'[arg[r].root] = row[arg[r].root]
              /\ status'[arg[r].root] # "absent"
          BY <4>1, RowsKept
        <4> QED
          BY <2>1, <3>2, <4>1, <4>2 DEF InheritedRoot
      <3> QED
        BY <3>1, <3>2
    <2>2. ASSUME NEW u \in Users, NEW q \in MaybePost, BeginCreate(r, u, q)
          PROVE  (IF arg[r].parent = None THEN arg[r].root = None
                  ELSE /\ arg[r].parent \in Posts
                       /\ status[arg[r].parent] # "absent"
                       /\ arg[r].root = InheritedRoot(arg[r].parent)
                       /\ arg[r].root \in Posts
                       /\ status[arg[r].root] # "absent"
                       /\ row[arg[r].root].parent = None)'
      <3>1. /\ q # None => IsLive(q)
            /\ arg'[r].parent = q
            /\ arg'[r].root = IF q = None THEN None ELSE InheritedRoot(q)
            /\ UNCHANGED <<row, status>>
        BY <2>2 DEF BeginCreate, At, Goto, table, TypeOK
      <3>2. CASE q = None
        BY <3>1, <3>2
      <3>3. CASE q # None
        <4>1. q \in Posts /\ status[q] # "absent"
          BY <3>1, <3>3 DEF MaybePost, IsLive
        <4> QED
          BY <3>1, <3>3, <4>1, RootOfParent DEF InheritedRoot
      <3> QED
        BY <3>2, <3>3
    <2>3. \/ pc[r] = "create" /\ arg'[r] = arg[r]
          \/ \E u \in Users, q \in MaybePost : BeginCreate(r, u, q)
      BY HowRequestsArrive
    <2> QED
      BY <2>1, <2>2, <2>3
  <1>3. DeleteOwned'
    <2> SUFFICES ASSUME NEW r \in Requests, pc'[r] = "delete"
                 PROVE  (/\ arg[r].post \in Posts
                         /\ status[arg[r].post] # "absent"
                         /\ arg[r].user = row[arg[r].post].author)'
      BY DEF DeleteOwned
    <2>1. CASE pc[r] = "delete" /\ arg'[r] = arg[r]
      BY <2>1, RowsKept DEF DeleteOwned
    <2>2. ASSUME NEW u \in Users, NEW p \in Posts, BeginDelete(r, u, p)
          PROVE  (/\ arg[r].post \in Posts
                  /\ status[arg[r].post] # "absent"
                  /\ arg[r].user = row[arg[r].post].author)'
      BY <2>2 DEF BeginDelete, At, Goto, IsLive, table, TypeOK
    <2>3. \/ pc[r] = "delete" /\ arg'[r] = arg[r]
          \/ \E u \in Users, p \in Posts : BeginDelete(r, u, p)
      BY HowRequestsArrive
    <2> QED
      BY <2>1, <2>2, <2>3
  <1> QED
    BY <1>1, <1>2, <1>3

\* The seeded threads are rooted and no request has read anything.
LEMMA ThreadInit == Init => ThreadInv
  <1> SUFFICES ASSUME Init PROVE ThreadInv
    OBVIOUS
  <1>1. ASSUME NEW c \in Posts, status[c] # "absent"
        PROVE  /\ c \in Seed
               /\ row[c].parent = SeedParent[c] /\ row[c].root = SeedParent[c]
    BY <1>1, EngagementAssumption DEF Init
  <1>2. \A c \in Seed : status[c] # "absent"
    BY EngagementAssumption DEF Init
  <1>3. ThreadRooted
    <2> SUFFICES ASSUME NEW c \in Posts, status[c] # "absent",
                        row[c].parent # None
                 PROVE  /\ status[row[c].parent] # "absent"
                        /\ row[c].root = InheritedRoot(row[c].parent)
                        /\ status[row[c].root] # "absent"
                        /\ row[row[c].root].parent = None
      BY <1>1 DEF ThreadRooted
    <2>1. SeedParent[c] \in Seed /\ SeedParent[SeedParent[c]] = None
      BY <1>1, EngagementAssumption
    <2> QED
      BY <1>1, <1>2, <2>1, EngagementAssumption DEF InheritedRoot
  <1> QED
    BY <1>3 DEF Init, ThreadInv, ReplyReady, DeleteOwned

\* In every instance each reply is filed under the top of its thread, however
\* deep it is and whatever was deleted while it was being created.
THEOREM ThreadsStayRooted == Spec => []ThreadRooted
  <1>1. Spec => []ThreadInv
    BY ThreadInit, ThreadStep, FoundationHolds, PTL DEF Spec
  <1>2. ThreadInv => ThreadRooted
    BY DEF ThreadInv
  <1> QED
    BY <1>1, <1>2, PTL

\* In every instance a live post only disappears through the delete request
\* of its author.
THEOREM OnlyTheAuthorDeletes == Spec => OnlyAuthorDeletes
  <1>1. Spec => []ThreadInv
    BY ThreadInit, ThreadStep, FoundationHolds, PTL DEF Spec
  <1>2. Foundation /\ ThreadInv /\ [Next]_vars =>
          [\A p \in Posts : IsLive(p) /\ ~IsLive(p)' =>
             \E r \in Requests : /\ pc[r] = "delete" /\ arg[r].post = p
                                 /\ arg[r].user = row[p].author]_vars
    <2> SUFFICES ASSUME Foundation, ThreadInv, [Next]_vars, NEW p \in Posts,
                        IsLive(p), ~IsLive(p)'
                 PROVE  \E r \in Requests :
                          /\ pc[r] = "delete" /\ arg[r].post = p
                          /\ arg[r].user = row[p].author
      OBVIOUS
    <2>1. ASSUME NEW r \in Requests, InsertPost(r)
          PROVE  FALSE
      BY <2>1 DEF InsertPost, IsLive, Foundation, TypeOK
    <2>2. PICK r \in Requests : SoftDeletePost(r)
      BY <2>1 DEF Next, vars, table, IsLive, BeginCreate,
           IncrementRepliesCount, CreateHook, BeginDelete,
           DecrementRepliesCount, BeginLike, InsertLike, IncrementLikesCount,
           LikeHook, DeleteLike, DecrementLikesCount, Abort
    <2>3. pc[r] = "delete" /\ arg[r].post = p
      BY <2>2 DEF SoftDeletePost, At, IsLive, Foundation, TypeOK
    <2> QED
      BY <2>3 DEF ThreadInv, DeleteOwned
  <1> QED
    BY <1>1, <1>2, FoundationHolds, PTL DEF Spec, OnlyAuthorDeletes

\* In every instance nothing changes the row of a soft-deleted post.
THEOREM DeletedRowsFrozen == Spec => DeletedRowFrozen
  <1>1. Foundation /\ [Next]_vars =>
          [\A p \in Posts : status[p] = "deleted" =>
             /\ status'[p] = "deleted" /\ row'[p] = row[p]
             /\ likesCount'[p] = likesCount[p]
             /\ repliesCount'[p] = repliesCount[p]]_vars
    <2> SUFFICES ASSUME Foundation, [Next]_vars, NEW p \in Posts,
                        status[p] = "deleted"
                 PROVE  /\ status'[p] = "deleted" /\ row'[p] = row[p]
                        /\ likesCount'[p] = likesCount[p]
                        /\ repliesCount'[p] = repliesCount[p]
      OBVIOUS
    <2> USE DEF Foundation, TypeOK
    <2>1. row'[p] = row[p]
      BY RowsKept
    <2>2. ASSUME NEW count \in [Posts -> Nat], NEW q
          PROVE  Increment(count, q)[p] = count[p] /\ Decrement(count, q)[p] = count[p]
      BY <2>2 DEF Increment, Decrement, IsLive
    <2> DEFINE Kept == /\ status'[p] = "deleted"
                       /\ likesCount'[p] = likesCount[p]
                       /\ repliesCount'[p] = repliesCount[p]
    <2>3. ASSUME NEW r \in Requests, InsertPost(r)
          PROVE  Kept
      BY <2>3 DEF InsertPost
    <2>4. ASSUME NEW r \in Requests, SoftDeletePost(r)
          PROVE  Kept
      BY <2>4 DEF SoftDeletePost
    <2>5. ASSUME NEW r \in Requests,
                 \/ IncrementRepliesCount(r) \/ DecrementRepliesCount(r)
          PROVE  Kept
      BY <2>2, <2>5 DEF IncrementRepliesCount, DecrementRepliesCount
    <2>6. ASSUME NEW r \in Requests,
                 \/ IncrementLikesCount(r) \/ DecrementLikesCount(r)
          PROVE  Kept
      BY <2>2, <2>6 DEF IncrementLikesCount, DecrementLikesCount
    <2>7. ASSUME UNCHANGED <<status, likesCount, repliesCount>>
          PROVE  Kept
      BY <2>7
    <2>8. Kept
      BY <2>3, <2>4, <2>5, <2>6, <2>7
         DEF Next, vars, table, BeginCreate, CreateHook, BeginDelete,
             BeginLike, InsertLike, LikeHook, DeleteLike, Abort
    <2> QED
      BY <2>1, <2>8
  <1> QED
    BY <1>1, FoundationHolds, PTL DEF Spec, DeletedRowFrozen

-----------------------------------------------------------------------------
(* The likes ledger. *)

\* A post that is not inserted has the empty row and empty counters.
AbsentEmpty ==
    \A p \in Posts : status[p] = "absent" =>
      row[p] = NoRow /\ likesCount[p] = 0 /\ repliesCount[p] = 0

\* Statements on counters pass over the posts that are not live.
LEMMA DeadUncounted ==
    ASSUME NEW count \in [Posts -> Nat], NEW q, NEW p \in Posts, ~IsLive(p)
    PROVE  Increment(count, q)[p] = count[p] /\ Decrement(count, q)[p] = count[p]
  BY DEF Increment, Decrement

\* The empty posts stay empty until they are inserted.
LEMMA AbsentEmptyStep == Foundation /\ AbsentEmpty /\ [Next]_vars => AbsentEmpty'
  <1> SUFFICES ASSUME Foundation, AbsentEmpty, [Next]_vars,
                      NEW p \in Posts, status'[p] = "absent"
               PROVE  row'[p] = NoRow /\ likesCount'[p] = 0 /\ repliesCount'[p] = 0
    BY DEF AbsentEmpty
  <1> USE DEF Foundation
  <1>1. status[p] = "absent"
    BY RowsKept
  <1>2. row[p] = NoRow /\ likesCount[p] = 0 /\ repliesCount[p] = 0 /\ ~IsLive(p)
    BY <1>1 DEF AbsentEmpty, IsLive
  <1>3. ASSUME NEW r \in Requests, InsertPost(r)
        PROVE  row'[p] = NoRow /\ likesCount'[p] = 0 /\ repliesCount'[p] = 0
    BY <1>1, <1>2, <1>3 DEF InsertPost, TypeOK
  <1>4. ASSUME NEW r \in Requests,
               \/ IncrementRepliesCount(r) \/ DecrementRepliesCount(r)
        PROVE  row'[p] = NoRow /\ likesCount'[p] = 0 /\ repliesCount'[p] = 0
    BY <1>2, <1>4, DeadUncounted DEF IncrementRepliesCount, DecrementRepliesCount, TypeOK
  <1>5. ASSUME NEW r \in Requests,
               \/ IncrementLikesCount(r) \/ DecrementLikesCount(r)
        PROVE  row'[p] = NoRow /\ likesCount'[p] = 0 /\ repliesCount'[p] = 0
    BY <1>2, <1>5, DeadUncounted DEF IncrementLikesCount, DecrementLikesCount, TypeOK
  <1>6. ASSUME UNCHANGED <<row, likesCount, repliesCount>>
        PROVE  row'[p] = NoRow /\ likesCount'[p] = 0 /\ repliesCount'[p] = 0
    BY <1>2, <1>6
  <1> QED
    BY <1>3, <1>4, <1>5, <1>6
       DEF Next, vars, table, BeginCreate, CreateHook, BeginDelete, SoftDeletePost,
           BeginLike, InsertLike, LikeHook, DeleteLike, Abort

\* Only the seeded posts have rows at the start, and they have no likes.
LEMMA AbsentEmptyInit == Init => AbsentEmpty
  <1> SUFFICES ASSUME Init, NEW p \in Posts, status[p] = "absent"
               PROVE  row[p] = NoRow /\ likesCount[p] = 0 /\ repliesCount[p] = 0
    BY DEF AbsentEmpty
  <1>1. p \notin Seed
    BY DEF Init
  <1>2. {c \in Seed : SeedParent[c] = p} = {}
    BY <1>1, EngagementAssumption
  <1> QED
    BY <1>1, <1>2, FS_EmptySet DEF Init

\* Nothing refers to a post that is not inserted: no like row, no request
\* about to count one.
LEMMA LikersOfAbsent ==
    ASSUME Foundation, NEW p \in Posts, status[p] = "absent"
    PROVE  LikeIncs(p) = {} /\ LikeDecs(p) = {} /\ Likers(p) = {} /\ Unlikes(p) = {}
  BY DEF Foundation, LikeIncs, LikeDecs, Likers, Unlikes, TargetsExist, LikedExist

\* Where a request goes from each statement but its first and InsertPost.
Moves ==
    {<<"replyInc", "createHook">>, <<"createHook", "created">>,
     <<"delete", "deleted">>, <<"delete", "replyDec">>, <<"replyDec", "deleted">>,
     <<"like", "done">>, <<"like", "likeInc">>, <<"likeInc", "likeHook">>,
     <<"likeHook", "liked">>, <<"likeDec", "unliked">>}

\* A request stands still, begins, has its post inserted, or goes on with
\* what it has read.
LEMMA RequestMoves ==
    ASSUME Foundation, [Next]_vars, NEW r \in Requests
    PROVE  \/ pc'[r] = pc[r] /\ arg'[r] = arg[r]
           \/ pc[r] = "idle"
           \/ pc[r] = "create" /\ pc'[r] \in {"replyInc", "createHook"}
           \/ <<pc[r], pc'[r]>> \in Moves /\ arg'[r] = arg[r]
  <1> DEFINE Goal == \/ pc'[r] = pc[r] /\ arg'[r] = arg[r]
                     \/ pc[r] = "idle"
                     \/ pc[r] = "create" /\ pc'[r] \in {"replyInc", "createHook"}
                     \/ <<pc[r], pc'[r]>> \in Moves /\ arg'[r] = arg[r]
  <1> USE DEF Foundation, TypeOK, At, Goto, table, Moves
  <1>1. ASSUME NEW s \in Requests, NEW u \in Users, NEW q \in MaybePost,
               BeginCreate(s, u, q)
        PROVE  Goal
    BY <1>1 DEF BeginCreate
  <1>2. ASSUME NEW s \in Requests, NEW u \in Users, NEW q \in Posts,
               BeginDelete(s, u, q) \/ BeginLike(s, u, q) \/ DeleteLike(s, u, q)
        PROVE  Goal
    BY <1>2 DEF BeginDelete, BeginLike, DeleteLike
  <1>3. ASSUME NEW s \in Requests, InsertPost(s)
        PROVE  Goal
    BY <1>3 DEF InsertPost
  <1>4. ASSUME NEW s \in Requests,
               \/ IncrementRepliesCount(s) \/ CreateHook(s) \/ DecrementRepliesCount(s)
               \/ IncrementLikesCount(s) \/ LikeHook(s) \/ DecrementLikesCount(s)
        PROVE  Goal
    BY <1>4 DEF IncrementRepliesCount, CreateHook, DecrementRepliesCount,
                IncrementLikesCount, LikeHook, DecrementLikesCount
  <1>5. ASSUME NEW s \in Requests, SoftDeletePost(s) \/ InsertLike(s)
        PROVE  Goal
    BY <1>5 DEF SoftDeletePost, InsertLike
  <1>6. ASSUME NEW s \in Requests, Abort(s)
        PROVE  Goal
    BY <1>6 DEF Abort
  <1>7. CASE UNCHANGED vars
    BY <1>7 DEF vars
  <1> QED
    BY <1>1, <1>2, <1>3, <1>4, <1>5, <1>6, <1>7 DEF Next

\* A request that has removed a like, or set out to delete a post, stays one
\* that has.
LEMMA UnlikesStay ==
    ASSUME Foundation, [Next]_vars, NEW p
    PROVE  Unlikes(p) \subseteq Unlikes(p)' /\ Deletes(p) \subseteq Deletes(p)'
  <1>1. ASSUME NEW r \in Unlikes(p) PROVE r \in Unlikes(p)'
    BY <1>1, RequestMoves DEF Unlikes, Moves
  <1>2. ASSUME NEW r \in Deletes(p) PROVE r \in Deletes(p)'
    BY <1>2, RequestMoves DEF Deletes, Moves
  <1> QED
    BY <1>1, <1>2

\* The steps that leave the likes alone leave the sets counted for them.
LEMMA LikesUntouched ==
    ASSUME Foundation, NEW p \in Posts, NEW r \in Requests,
           \/ \E u \in Users, q \in MaybePost : BeginCreate(r, u, q)
           \/ InsertPost(r) \/ IncrementRepliesCount(r) \/ CreateHook(r)
           \/ \E u \in Users, q \in Posts : BeginDelete(r, u, q)
           \/ SoftDeletePost(r) \/ DecrementRepliesCount(r)
           \/ \E u \in Users, q \in Posts : BeginLike(r, u, q)
           \/ LikeHook(r) \/ Abort(r)
    PROVE  LikeSetsUnchanged(p) /\ likesCount' = likesCount
  <1> USE DEF Foundation, TypeOK, At, Goto, table, LikeSetsUnchanged, LikeIncs, LikeDecs, Likers
  <1>1. ASSUME NEW u \in Users, NEW q \in MaybePost, BeginCreate(r, u, q)
        PROVE  LikeSetsUnchanged(p) /\ likesCount' = likesCount
    BY <1>1 DEF BeginCreate
  <1>2. ASSUME InsertPost(r)
        PROVE  LikeSetsUnchanged(p) /\ likesCount' = likesCount
    BY <1>2 DEF InsertPost
  <1>3. ASSUME NEW u \in Users, NEW q \in Posts,
               BeginDelete(r, u, q)
        PROVE  LikeSetsUnchanged(p) /\ likesCount' = likesCount
    BY <1>3 DEF BeginDelete
  <1>4. ASSUME NEW u \in Users, NEW q \in Posts,
               BeginLike(r, u, q)
        PROVE  LikeSetsUnchanged(p) /\ likesCount' = likesCount
    BY <1>4 DEF BeginLike
  <1>5. ASSUME \/ IncrementRepliesCount(r) \/ CreateHook(r) \/ SoftDeletePost(r)
               \/ DecrementRepliesCount(r) \/ LikeHook(r)
        PROVE  LikeSetsUnchanged(p) /\ likesCount' = likesCount
    BY <1>5 DEF IncrementRepliesCount, CreateHook, SoftDeletePost, DecrementRepliesCount, LikeHook
  <1>6. ASSUME Abort(r)
        PROVE  LikeSetsUnchanged(p) /\ likesCount' = likesCount
    BY <1>6 DEF Abort
  <1> QED
    BY <1>1, <1>2, <1>3, <1>4, <1>5, <1>6

\* Every step keeps the likes counted once where no like was removed.
LEMMA LikesOnceStep ==
    Foundation /\ AbsentEmpty /\ LikesCountedOnce /\ [Next]_vars => LikesCountedOnce'
  <1> SUFFICES ASSUME Foundation, AbsentEmpty, LikesCountedOnce, [Next]_vars, Foundation',
                      NEW p \in Posts, IsLive(p)', Unlikes(p)' = {}
               PROVE  (likesCount[p] + Cardinality(LikeIncs(p)) = Cardinality(Likers(p)))'
    BY FoundationStep DEF LikesCountedOnce
  <1> DEFINE Once == likesCount[p] + Cardinality(LikeIncs(p)) = Cardinality(Likers(p))
  <1>0. /\ Unlikes(p) = {}
        /\ Cardinality(LikeIncs(p)) \in Nat /\ Cardinality(Likers(p)) \in Nat
        /\ likesCount \in [Posts -> Nat] /\ pc \in [Requests -> PC]
    BY UnlikesStay, CountedSetsFinite DEF Foundation, TypeOK
  <1>a. IsLive(p) => Once
    BY <1>0 DEF LikesCountedOnce
  <1>1. ASSUME LikeSetsUnchanged(p), UNCHANGED likesCount, IsLive(p)
        PROVE  Once'
    BY <1>a, <1>1 DEF LikeSetsUnchanged
  <1>2. ASSUME NEW r \in Requests, InsertPost(r), ~IsLive(p)
        PROVE  Once'
    <2>1. status[p] = "absent"
      BY <1>2 DEF InsertPost, IsLive, Foundation, TypeOK
    <2>2. LikeIncs(p)' = {} /\ Likers(p)' = {} /\ likesCount'[p] = 0
      BY <1>2, <2>1, LikersOfAbsent, LikesUntouched DEF LikeSetsUnchanged, AbsentEmpty
    <2> QED
      BY <2>2, FS_EmptySet
  <1>3. ASSUME NEW r \in Requests, InsertLike(r)
        PROVE  Once'
    <2> DEFINE u == arg[r].user
               q == arg[r].post
    <2>0. IsLive(p) /\ likesCount' = likesCount /\ u \in Users /\ q \in Posts
      BY <1>3 DEF InsertLike, At, Foundation, TargetsExist, IsLive
    <2>1. CASE q # p \/ <<u, q>> \in likes
      <3>1. LikeSetsUnchanged(p)
        BY <1>3, <2>0, <2>1 DEF InsertLike, At, Goto, Foundation, TypeOK, LikeSetsUnchanged,
             LikeIncs, LikeDecs, Likers
      <3> QED
        BY <1>1, <2>0, <3>1
    <2>2. CASE q = p /\ <<u, q>> \notin likes
      <3>1. LikeIncs(p)' = LikeIncs(p) \cup {r} /\ r \notin LikeIncs(p)
        BY <1>3, <2>2 DEF InsertLike, At, Goto, Foundation, TypeOK, LikeIncs
      <3>2. Likers(p)' = Likers(p) \cup {u} /\ u \notin Likers(p)
        BY <1>3, <2>0, <2>2 DEF InsertLike, Foundation, TypeOK, Likers
      <3>3. /\ Cardinality(LikeIncs(p)') = Cardinality(LikeIncs(p)) + 1
            /\ Cardinality(Likers(p)') = Cardinality(Likers(p)) + 1
        BY <3>1, <3>2, CountedSetsFinite, FS_AddElement
      <3> QED
        BY <1>0, <1>a, <2>0, <3>3
    <2> QED
      BY <2>1, <2>2
  <1>4. ASSUME NEW r \in Requests, IncrementLikesCount(r)
        PROVE  Once'
    <2>0. IsLive(p) /\ UNCHANGED <<likes, status, arg>>
      BY <1>4 DEF IncrementLikesCount, IsLive
    <2>1. Likers(p)' = Likers(p)
      BY <2>0 DEF Likers
    <2>2. CASE arg[r].post # p
      <3>1. LikeIncs(p)' = LikeIncs(p) /\ likesCount'[p] = likesCount[p]
        BY <1>0, <1>4, <2>2 DEF IncrementLikesCount, At, Goto, Increment, LikeIncs
      <3> QED
        BY <1>a, <2>0, <2>1, <3>1
    <2>3. CASE arg[r].post = p
      <3>1. LikeIncs(p)' = LikeIncs(p) \ {r} /\ r \in LikeIncs(p)
        BY <1>0, <1>4, <2>3 DEF IncrementLikesCount, At, Goto, LikeIncs
      <3>2. likesCount'[p] = likesCount[p] + 1
        BY <1>0, <1>4, <2>0, <2>3 DEF IncrementLikesCount, Increment
      <3>3. Cardinality(LikeIncs(p)') = Cardinality(LikeIncs(p)) - 1
        BY <3>1, CountedSetsFinite, FS_RemoveElement
      <3> QED
        BY <1>0, <1>a, <2>0, <2>1, <3>2, <3>3
    <2> QED
      BY <2>2, <2>3
  <1>5. ASSUME NEW r \in Requests, NEW u \in Users, NEW q \in Posts, DeleteLike(r, u, q)
        PROVE  Once'
    <2>0. IsLive(p) /\ UNCHANGED likesCount
      BY <1>5 DEF DeleteLike, IsLive
    <2>1. ~(q = p /\ <<u, q>> \in likes)
      <3> SUFFICES ASSUME q = p, <<u, q>> \in likes PROVE r \in Unlikes(p)'
        OBVIOUS
      <3> QED
        BY <1>5 DEF DeleteLike, At, Goto, Foundation, TypeOK, Unlikes
    <2>2. LikeSetsUnchanged(p)
      BY <1>5, <2>1 DEF DeleteLike, At, Goto, Foundation, TypeOK,
           LikeSetsUnchanged, LikeIncs, LikeDecs, Likers
    <2> QED
      BY <1>1, <2>0, <2>2
  <1>6. ASSUME NEW r \in Requests, DecrementLikesCount(r)
        PROVE  Once'
    <2>0. IsLive(p) /\ UNCHANGED <<likes, status, arg>>
      BY <1>6 DEF DecrementLikesCount, IsLive
    <2>1. arg[r].post # p
      BY <1>0, <1>6 DEF DecrementLikesCount, At, Unlikes
    <2>2. LikeIncs(p)' = LikeIncs(p) /\ Likers(p)' = Likers(p)
      BY <1>0, <1>6, <2>0 DEF DecrementLikesCount, At, Goto, LikeIncs, Likers
    <2>3. likesCount'[p] = likesCount[p]
      BY <1>0, <1>6, <2>1 DEF DecrementLikesCount, Decrement
    <2> QED
      BY <1>a, <2>0, <2>2, <2>3
  <1>7. CASE UNCHANGED vars
    BY <1>1, <1>7 DEF vars, IsLive, LikeSetsUnchanged, LikeIncs, LikeDecs, Likers
  <1>8. ASSUME NEW r \in Requests, SoftDeletePost(r)
        PROVE  IsLive(p)
    BY <1>8 DEF SoftDeletePost, IsLive, Foundation, TypeOK
  <1>9. ASSUME NEW r \in Requests,
           \/ \E u \in Users, q \in MaybePost : BeginCreate(r, u, q)
           \/ InsertPost(r) \/ IncrementRepliesCount(r) \/ CreateHook(r)
           \/ \E u \in Users, q \in Posts : BeginDelete(r, u, q)
           \/ SoftDeletePost(r) \/ DecrementRepliesCount(r)
           \/ \E u \in Users, q \in Posts : BeginLike(r, u, q)
           \/ LikeHook(r) \/ Abort(r)
        PROVE  Once'
    <2>1. LikeSetsUnchanged(p) /\ likesCount' = likesCount
      BY <1>9, LikesUntouched
    <2>2. IsLive(p) \/ InsertPost(r)
      BY <1>8, <1>9 DEF IsLive, table, BeginCreate, IncrementRepliesCount, CreateHook,
           BeginDelete, DecrementRepliesCount, BeginLike, LikeHook, Abort
    <2> QED
      BY <1>1, <1>2, <2>1, <2>2
  <1> QED
    BY <1>3, <1>4, <1>5, <1>6, <1>7, <1>9 DEF Next

\* In every instance, as long as nobody has removed a like of a live post, its
\* counter and the increments still owed are exactly its likes.
THEOREM LikesCountOnce == Spec => []LikesCountedOnce
  <1>1. Init => LikesCountedOnce
    <2> SUFFICES ASSUME Init, NEW p \in Posts
                 PROVE  likesCount[p] + Cardinality(LikeIncs(p)) = Cardinality(Likers(p))
      BY DEF LikesCountedOnce
    <2>1. LikeIncs(p) = {} /\ Likers(p) = {}
      BY DEF Init, LikeIncs, Likers
    <2> QED
      BY <2>1, FS_EmptySet DEF Init
  <1>2. Spec => []AbsentEmpty
    BY AbsentEmptyInit, AbsentEmptyStep, FoundationHolds, PTL DEF Spec
  <1> QED
    BY <1>1, <1>2, LikesOnceStep, FoundationHolds, PTL DEF Spec

-----------------------------------------------------------------------------
(* Likes and their removals take turns. *)

\* The requests that have inserted the like row of u and p, and removed it.
LikedBy(u, p) == {r \in Requests : /\ pc[r] \in {"likeInc", "likeHook", "liked"}
                                   /\ arg[r].post = p /\ arg[r].user = u}
UnlikedBy(u, p) == {r \in Requests : /\ pc[r] \in {"likeDec", "unliked"}
                                     /\ arg[r].post = p /\ arg[r].user = u}

TurnsTaken(u, p) ==
    Cardinality(LikedBy(u, p))
      = Cardinality(UnlikedBy(u, p)) + (IF <<u, p>> \in likes THEN 1 ELSE 0)

\* The sets of requests that took turns are finite.
LEMMA TurnsFinite ==
    ASSUME NEW u, NEW p
    PROVE  /\ IsFiniteSet(LikedBy(u, p)) /\ Cardinality(LikedBy(u, p)) \in Nat
           /\ IsFiniteSet(UnlikedBy(u, p)) /\ Cardinality(UnlikedBy(u, p)) \in Nat
  <1>1. LikedBy(u, p) \subseteq Requests /\ UnlikedBy(u, p) \subseteq Requests
    BY DEF LikedBy, UnlikedBy
  <1>2. IsFiniteSet(LikedBy(u, p)) /\ IsFiniteSet(UnlikedBy(u, p))
    BY <1>1, FS_Subset, EngagementAssumption
  <1> QED
    BY <1>2, FS_CardinalityType

\* Only the two statements on the likes table begin or end a turn.
LEMMA TurnsKept ==
    ASSUME Foundation, [Next]_vars, NEW u \in Users, NEW p \in Posts,
           \A r \in Requests : ~InsertLike(r),
           \A r \in Requests, v \in Users, q \in Posts : ~DeleteLike(r, v, q)
    PROVE  /\ LikedBy(u, p)' = LikedBy(u, p) /\ UnlikedBy(u, p)' = UnlikedBy(u, p)
           /\ likes' = likes
  <1> DEFINE Goal == /\ LikedBy(u, p)' = LikedBy(u, p)
                     /\ UnlikedBy(u, p)' = UnlikedBy(u, p)
                     /\ likes' = likes
  <1> USE DEF Foundation, TypeOK, At, Goto, table, LikedBy, UnlikedBy
  <1>1. ASSUME NEW r \in Requests, NEW v \in Users, NEW q \in MaybePost,
               BeginCreate(r, v, q)
        PROVE  Goal
    BY <1>1 DEF BeginCreate
  <1>2. ASSUME NEW r \in Requests, NEW v \in Users, NEW q \in Posts,
               BeginDelete(r, v, q)
        PROVE  Goal
    BY <1>2 DEF BeginDelete
  <1>3. ASSUME NEW r \in Requests, NEW v \in Users, NEW q \in Posts,
               BeginLike(r, v, q)
        PROVE  Goal
    BY <1>3 DEF BeginLike
  <1>4. ASSUME NEW r \in Requests, InsertPost(r)
        PROVE  Goal
    BY <1>4 DEF InsertPost
  <1>5. ASSUME NEW r \in Requests,
               \/ IncrementRepliesCount(r) \/ CreateHook(r) \/ SoftDeletePost(r)
               \/ DecrementRepliesCount(r)
        PROVE  Goal
    BY <1>5 DEF IncrementRepliesCount, CreateHook, SoftDeletePost, DecrementRepliesCount
  <1>6. ASSUME NEW r \in Requests,
               IncrementLikesCount(r) \/ LikeHook(r) \/ DecrementLikesCount(r)
        PROVE  Goal
    BY <1>6 DEF IncrementLikesCount, LikeHook, DecrementLikesCount
  <1>7. ASSUME NEW r \in Requests, Abort(r)
        PROVE  Goal
    BY <1>7 DEF Abort
  <1>8. CASE UNCHANGED vars
    BY <1>8 DEF vars
  <1> QED
    BY <1>1, <1>2, <1>3, <1>4, <1>5, <1>6, <1>7, <1>8 DEF Next

\* Every step keeps the turns of every user and post.
LEMMA TurnsStep ==
    ASSUME Foundation, [Next]_vars, NEW u \in Users, NEW p \in Posts, TurnsTaken(u, p)
    PROVE  TurnsTaken(u, p)'
  <1> USE DEF Foundation
  <1>1. ASSUME NEW r \in Requests, InsertLike(r)
        PROVE  TurnsTaken(u, p)'
    <2> DEFINE pair == <<arg[r].user, arg[r].post>>
    <2>1. UnlikedBy(u, p)' = UnlikedBy(u, p)
      BY <1>1 DEF InsertLike, At, Goto, TypeOK, UnlikedBy
    <2>2. CASE pair = <<u, p>> /\ pair \notin likes
      <3>1. LikedBy(u, p)' = LikedBy(u, p) \cup {r} /\ r \notin LikedBy(u, p)
        BY <1>1, <2>2 DEF InsertLike, At, Goto, TypeOK, LikedBy
      <3>2. Cardinality(LikedBy(u, p)') = Cardinality(LikedBy(u, p)) + 1
        BY <3>1, TurnsFinite, FS_AddElement
      <3>3. <<u, p>> \notin likes /\ <<u, p>> \in likes'
        BY <1>1, <2>2 DEF InsertLike
      <3> QED
        BY <2>1, <3>2, <3>3, TurnsFinite DEF TurnsTaken
    <2>3. CASE ~(pair = <<u, p>> /\ pair \notin likes)
      <3>1. LikedBy(u, p)' = LikedBy(u, p)
        BY <1>1, <2>3 DEF InsertLike, At, Goto, TypeOK, LikedBy
      <3>2. <<u, p>> \in likes' <=> <<u, p>> \in likes
        BY <1>1, <2>3 DEF InsertLike
      <3> QED
        BY <2>1, <3>1, <3>2 DEF TurnsTaken
    <2> QED
      BY <2>2, <2>3
  <1>2. ASSUME NEW r \in Requests, NEW v \in Users, NEW q \in Posts, DeleteLike(r, v, q)
        PROVE  TurnsTaken(u, p)'
    <2>1. LikedBy(u, p)' = LikedBy(u, p)
      BY <1>2 DEF DeleteLike, At, Goto, TypeOK, LikedBy
    <2>2. CASE v = u /\ q = p /\ <<u, p>> \in likes
      <3>1. UnlikedBy(u, p)' = UnlikedBy(u, p) \cup {r} /\ r \notin UnlikedBy(u, p)
        BY <1>2, <2>2 DEF DeleteLike, At, Goto, TypeOK, UnlikedBy
      <3>2. Cardinality(UnlikedBy(u, p)') = Cardinality(UnlikedBy(u, p)) + 1
        BY <3>1, TurnsFinite, FS_AddElement
      <3>3. <<u, p>> \notin likes'
        BY <1>2, <2>2 DEF DeleteLike
      <3> QED
        BY <2>1, <2>2, <3>2, <3>3, TurnsFinite DEF TurnsTaken
    <2>3. CASE ~(v = u /\ q = p /\ <<u, p>> \in likes)
      <3>1. UnlikedBy(u, p)' = UnlikedBy(u, p)
        BY <1>2, <2>3 DEF DeleteLike, At, Goto, TypeOK, UnlikedBy
      <3>2. <<u, p>> \in likes' <=> <<u, p>> \in likes
        BY <1>2, <2>3 DEF DeleteLike
      <3> QED
        BY <2>1, <3>1, <3>2 DEF TurnsTaken
    <2> QED
      BY <2>2, <2>3
  <1>3. CASE /\ \A r \in Requests : ~InsertLike(r)
             /\ \A r \in Requests, v \in Users, q \in Posts : ~DeleteLike(r, v, q)
    BY <1>3, TurnsKept DEF TurnsTaken
  <1> QED
    BY <1>1, <1>2, <1>3

\* In every instance the requests that inserted a like row and the ones that
\* removed it take turns, so a like event stands for one time the post became
\* liked.
THEOREM LikesTakeTurns == Spec => []LikeTransitionsAlternate
  <1> DEFINE Inv == \A u \in Users, p \in Posts : TurnsTaken(u, p)
  <1>1. Init => Inv
    <2> SUFFICES ASSUME Init, NEW u \in Users, NEW p \in Posts
                 PROVE  TurnsTaken(u, p)
      OBVIOUS
    <2>1. LikedBy(u, p) = {} /\ UnlikedBy(u, p) = {} /\ <<u, p>> \notin likes
      BY DEF Init, LikedBy, UnlikedBy
    <2> QED
      BY <2>1, FS_EmptySet DEF TurnsTaken
  <1>2. Foundation /\ Inv /\ [Next]_vars => Inv'
    BY TurnsStep
  <1>3. Inv <=> LikeTransitionsAlternate
    BY DEF LikeTransitionsAlternate, TurnsTaken, LikedBy, UnlikedBy
  <1> HIDE DEF Inv
  <1> QED
    BY <1>1, <1>2, <1>3, FoundationHolds, PTL DEF Spec

-----------------------------------------------------------------------------
(* The replies ledger. *)

DeletingPC == {"delete", "replyDec", "deleted"}

\* A delete request knows the parent of its post, and past its UPDATE the
\* post is deleted.
DeleteKnows ==
    \A r \in Requests : pc[r] \in DeletingPC =>
      /\ arg[r].post \in Posts /\ status[arg[r].post] # "absent"
      /\ arg[r].parent = row[arg[r].post].parent
      /\ pc[r] # "delete" => status[arg[r].post] = "deleted"
      /\ pc[r] = "replyDec" => arg[r].parent # None

\* A deleted post was deleted by a request.
DeletedByRequest ==
    \A p \in Posts : status[p] = "deleted" =>
      \E r \in Requests : pc[r] \in {"replyDec", "deleted"} /\ arg[r].post = p

\* No reply of p is the target of two delete requests.
DeletedOnce(p) ==
    \A c \in Posts : row[c].parent = p => Cardinality(Deletes(c)) <= 1

\* The counter and the increments owed to it cover the live replies and the
\* decrements owed.
RepliesCovered(p) ==
    repliesCount[p] + Cardinality(ReplyIncs(p))
      >= Cardinality(LiveReplies(p)) + Cardinality(ReplyDecs(p))

ReplyLedger ==
    \A p \in Posts : IsLive(p) /\ DeletedOnce(p) => RepliesCovered(p)

ReplyInv == DeleteKnows /\ DeletedByRequest /\ ReplyLedger

\* A deleted post stays deleted.
LEMMA DeletedStays ==
    ASSUME Foundation, [Next]_vars, NEW p \in Posts, status[p] = "deleted"
    PROVE  status'[p] = "deleted"
  <1> USE DEF Foundation, TypeOK
  <1>1. ASSUME NEW r \in Requests, InsertPost(r) PROVE status'[p] = "deleted"
    BY <1>1 DEF InsertPost
  <1>2. ASSUME NEW r \in Requests, SoftDeletePost(r) PROVE status'[p] = "deleted"
    BY <1>2 DEF SoftDeletePost
  <1> QED
    BY <1>1, <1>2 DEF Next, vars, table, BeginCreate, IncrementRepliesCount, CreateHook,
         BeginDelete, DecrementRepliesCount, BeginLike, InsertLike, IncrementLikesCount,
         LikeHook, DeleteLike, DecrementLikesCount, Abort

\* How a request comes to be deleting.
LEMMA DeleteMoves ==
    ASSUME Foundation, [Next]_vars, NEW r \in Requests, pc'[r] \in DeletingPC
    PROVE  \/ /\ pc[r] \in DeletingPC /\ arg'[r] = arg[r]
              /\ pc'[r] = pc[r] \/ (pc[r] = "replyDec" /\ pc'[r] = "deleted")
           \/ SoftDeletePost(r)
           \/ \E u \in Users, p \in Posts : BeginDelete(r, u, p) /\ pc'[r] = "delete"
  <1> DEFINE Goal ==
           \/ /\ pc[r] \in DeletingPC /\ arg'[r] = arg[r]
              /\ pc'[r] = pc[r] \/ (pc[r] = "replyDec" /\ pc'[r] = "deleted")
           \/ SoftDeletePost(r)
           \/ \E u \in Users, p \in Posts : BeginDelete(r, u, p) /\ pc'[r] = "delete"
  <1> USE DEF Foundation, TypeOK, At, Goto, table, DeletingPC
  <1>1. ASSUME NEW s \in Requests, NEW u \in Users, NEW q \in MaybePost,
               BeginCreate(s, u, q)
        PROVE  Goal
    BY <1>1 DEF BeginCreate
  <1>2. ASSUME NEW s \in Requests, NEW u \in Users, NEW q \in Posts,
               BeginLike(s, u, q) \/ DeleteLike(s, u, q)
        PROVE  Goal
    BY <1>2 DEF BeginLike, DeleteLike
  <1>3. ASSUME NEW s \in Requests, NEW u \in Users, NEW q \in Posts,
               BeginDelete(s, u, q)
        PROVE  Goal
    <2>1. CASE s = r
      BY <1>3, <2>1 DEF BeginDelete
    <2>2. CASE s # r
      BY <1>3, <2>2 DEF BeginDelete
    <2> QED
      BY <2>1, <2>2
  <1>4. ASSUME NEW s \in Requests, InsertPost(s) \/ InsertLike(s)
        PROVE  Goal
    BY <1>4 DEF InsertPost, InsertLike
  <1>5. ASSUME NEW s \in Requests,
               \/ IncrementRepliesCount(s) \/ CreateHook(s) \/ DecrementRepliesCount(s)
               \/ IncrementLikesCount(s) \/ LikeHook(s) \/ DecrementLikesCount(s)
        PROVE  Goal
    BY <1>5 DEF IncrementRepliesCount, CreateHook, DecrementRepliesCount,
                IncrementLikesCount, LikeHook, DecrementLikesCount
  <1>6. ASSUME NEW s \in Requests, SoftDeletePost(s)
        PROVE  Goal
    <2>1. CASE s = r
      BY <1>6, <2>1
    <2>2. CASE s # r
      <3>1. pc'[r] = pc[r] /\ arg'[r] = arg[r]
        BY <1>6, <2>2 DEF SoftDeletePost
      <3> QED
        BY <3>1
    <2> QED
      BY <2>1, <2>2
  <1>7. ASSUME NEW s \in Requests, Abort(s)
        PROVE  Goal
    BY <1>7 DEF Abort
  <1>8. CASE UNCHANGED vars
    BY <1>8 DEF vars
  <1> QED
    BY <1>1, <1>2, <1>3, <1>4, <1>5, <1>6, <1>7, <1>8 DEF Next

\* Every step keeps what the delete requests know.
LEMMA DeleteKnowsStep == Foundation /\ DeleteKnows /\ [Next]_vars => DeleteKnows'
  <1> SUFFICES ASSUME Foundation, DeleteKnows, [Next]_vars, NEW r \in Requests,
                      pc'[r] \in DeletingPC
               PROVE  /\ arg'[r].post \in Posts /\ status'[arg'[r].post] # "absent"
                      /\ arg'[r].parent = row'[arg'[r].post].parent
                      /\ pc'[r] # "delete" => status'[arg'[r].post] = "deleted"
                      /\ pc'[r] = "replyDec" => arg'[r].parent # None
    BY DEF DeleteKnows
  <1>1. CASE /\ pc[r] \in DeletingPC /\ arg'[r] = arg[r]
             /\ pc'[r] = pc[r] \/ (pc[r] = "replyDec" /\ pc'[r] = "deleted")
    <2> DEFINE p == arg[r].post
    <2>1. /\ p \in Posts /\ status[p] # "absent" /\ arg[r].parent = row[p].parent
          /\ pc[r] # "delete" => status[p] = "deleted"
          /\ pc[r] = "replyDec" => arg[r].parent # None
      BY <1>1 DEF DeleteKnows
    <2>2. row'[p] = row[p] /\ status'[p] # "absent"
      BY <2>1, RowsKept
    <2>3. status[p] = "deleted" => status'[p] = "deleted"
      BY <2>1, DeletedStays
    <2> QED
      BY <1>1, <2>1, <2>2, <2>3
  <1>2. CASE SoftDeletePost(r)
    <2>1. /\ pc[r] = "delete" /\ arg' = arg /\ row' = row
          /\ pc'[r] = IF arg[r].parent = None THEN "deleted" ELSE "replyDec"
      BY <1>2 DEF SoftDeletePost, At, Goto, Foundation, TypeOK
    <2>2. /\ arg[r].post \in Posts /\ status[arg[r].post] # "absent"
          /\ arg[r].parent = row[arg[r].post].parent
      BY <2>1 DEF DeleteKnows, DeletingPC
    <2>3. status'[arg[r].post] = "deleted"
      BY <1>2, <2>2 DEF SoftDeletePost, Foundation, TypeOK, Status
    <2> QED
      BY <2>1, <2>2, <2>3
  <1>3. CASE \E u \in Users, p \in Posts : BeginDelete(r, u, p) /\ pc'[r] = "delete"
    BY <1>3 DEF BeginDelete, At, Goto, IsLive, table, Foundation, TypeOK
  <1> QED
    BY <1>1, <1>2, <1>3, DeleteMoves

\* Every step keeps a request behind every deleted post.
LEMMA DeletedByRequestStep ==
    Foundation /\ DeletedByRequest /\ [Next]_vars => DeletedByRequest'
  <1> SUFFICES ASSUME Foundation, DeletedByRequest, [Next]_vars, NEW p \in Posts,
                      status'[p] = "deleted"
               PROVE  \E r \in Requests : /\ pc'[r] \in {"replyDec", "deleted"}
                                          /\ arg'[r].post = p
    BY DEF DeletedByRequest
  <1>1. CASE status[p] = "deleted"
    <2>1. PICK r \in Requests : pc[r] \in {"replyDec", "deleted"} /\ arg[r].post = p
      BY <1>1 DEF DeletedByRequest
    <2>2. pc'[r] \in {"replyDec", "deleted"} /\ arg'[r].post = p
      BY <2>1, RequestMoves DEF Moves
    <2> QED
      BY <2>2
  <1>2. CASE status[p] # "deleted"
    <2>1. ASSUME NEW r \in Requests, InsertPost(r) PROVE FALSE
      BY <1>2, <2>1 DEF InsertPost, Foundation, TypeOK
    <2>2. PICK r \in Requests : SoftDeletePost(r)
      BY <1>2, <2>1 DEF Next, vars, table, BeginCreate, IncrementRepliesCount, CreateHook,
         BeginDelete, DecrementRepliesCount, BeginLike, InsertLike, IncrementLikesCount,
         LikeHook, DeleteLike, DecrementLikesCount, Abort
    <2>3. arg'[r].post = p /\ pc'[r] \in {"replyDec", "deleted"}
      BY <1>2, <2>2 DEF SoftDeletePost, Goto, Foundation, TypeOK
    <2> QED
      BY <2>3
  <1> QED
    BY <1>1, <1>2

\* The sets of requests and replies that the ledger counts are finite.
LEMMA ReplySetsFinite ==
    ASSUME NEW p
    PROVE  /\ IsFiniteSet(ReplyIncs(p)) /\ Cardinality(ReplyIncs(p)) \in Nat
           /\ IsFiniteSet(ReplyDecs(p)) /\ Cardinality(ReplyDecs(p)) \in Nat
           /\ IsFiniteSet(LiveReplies(p)) /\ Cardinality(LiveReplies(p)) \in Nat
           /\ IsFiniteSet(Deletes(p)) /\ Cardinality(Deletes(p)) \in Nat
  <1>1. /\ ReplyIncs(p) \subseteq Requests /\ ReplyDecs(p) \subseteq Requests
        /\ Deletes(p) \subseteq Requests
    BY DEF ReplyIncs, ReplyDecs, Deletes
  <1>2. LiveReplies(p) \subseteq Posts
    BY DEF LiveReplies
  <1>3. /\ IsFiniteSet(ReplyIncs(p)) /\ IsFiniteSet(ReplyDecs(p))
        /\ IsFiniteSet(LiveReplies(p)) /\ IsFiniteSet(Deletes(p))
    BY <1>1, <1>2, FS_Subset, EngagementAssumption
  <1> QED
    BY <1>3, FS_CardinalityType

\* What has been deleted once now had been deleted at most once before.
LEMMA OnceBefore ==
    ASSUME Foundation, AbsentEmpty, [Next]_vars, NEW p \in Posts, DeletedOnce(p)'
    PROVE  DeletedOnce(p)
  <1> SUFFICES ASSUME NEW c \in Posts, row[c].parent = p
               PROVE  Cardinality(Deletes(c)) <= 1
    BY DEF DeletedOnce
  <1>1. status[c] # "absent"
    BY EngagementAssumption DEF AbsentEmpty, NoRow
  <1>2. Cardinality(Deletes(c)') <= 1
    BY <1>1, RowsKept DEF DeletedOnce
  <1>3. IsFiniteSet(Deletes(c)')
    <2>1. Deletes(c)' \subseteq Requests
      BY DEF Deletes
    <2> QED
      BY <2>1, FS_Subset, EngagementAssumption
  <1>4. Deletes(c) \subseteq Deletes(c)'
    BY UnlikesStay
  <1>5. Cardinality(Deletes(c)) <= Cardinality(Deletes(c)')
    BY <1>3, <1>4, FS_Subset
  <1>6. Cardinality(Deletes(c)') \in Nat
    BY <1>3, FS_CardinalityType
  <1> QED
    BY <1>2, <1>5, <1>6, ReplySetsFinite

\* The steps that leave replies alone leave the sets counted for them.
LEMMA RepliesUntouched ==
    ASSUME Foundation, [Next]_vars, NEW p \in Posts,
           \A r \in Requests : /\ ~InsertPost(r) /\ ~SoftDeletePost(r)
                               /\ ~IncrementRepliesCount(r) /\ ~DecrementRepliesCount(r)
    PROVE  /\ ReplyIncs(p)' = ReplyIncs(p) /\ ReplyDecs(p)' = ReplyDecs(p)
           /\ LiveReplies(p)' = LiveReplies(p)
           /\ UNCHANGED <<status, row, repliesCount>>
  <1> DEFINE Goal == /\ ReplyIncs(p)' = ReplyIncs(p) /\ ReplyDecs(p)' = ReplyDecs(p)
                     /\ UNCHANGED <<status, row, repliesCount>>
  <1> USE DEF Foundation, TypeOK, At, Goto, table, ReplyIncs, ReplyDecs
  <1>1. ASSUME NEW r \in Requests, NEW u \in Users, NEW q \in MaybePost, BeginCreate(r, u, q)
        PROVE  Goal
    BY <1>1 DEF BeginCreate
  <1>2. ASSUME NEW r \in Requests, NEW u \in Users, NEW q \in Posts, BeginDelete(r, u, q)
        PROVE  Goal
    BY <1>2 DEF BeginDelete
  <1>3. ASSUME NEW r \in Requests, NEW u \in Users, NEW q \in Posts, BeginLike(r, u, q)
        PROVE  Goal
    BY <1>3 DEF BeginLike
  <1>4. ASSUME NEW r \in Requests, NEW u \in Users, NEW q \in Posts, DeleteLike(r, u, q)
        PROVE  Goal
    BY <1>4 DEF DeleteLike
  <1>5. ASSUME NEW r \in Requests,
               \/ CreateHook(r) \/ LikeHook(r) \/ InsertLike(r)
               \/ IncrementLikesCount(r) \/ DecrementLikesCount(r)
        PROVE  Goal
    BY <1>5 DEF CreateHook, LikeHook, InsertLike, IncrementLikesCount, DecrementLikesCount
  <1>6. ASSUME NEW r \in Requests, Abort(r)
        PROVE  Goal
    BY <1>6 DEF Abort
  <1>7. ASSUME UNCHANGED vars
        PROVE  Goal
    BY <1>7 DEF vars
  <1>8. Goal
    BY <1>1, <1>2, <1>3, <1>4, <1>5, <1>6, <1>7 DEF Next
  <1> QED
    BY <1>8 DEF LiveReplies, IsLive

\* Every step keeps the replies ledger.
LEMMA ReplyLedgerStep ==
    ASSUME Foundation, ThreadInv, AbsentEmpty, ReplyInv, [Next]_vars
    PROVE  ReplyLedger'
  <1> SUFFICES ASSUME Foundation', NEW p \in Posts, IsLive(p)', DeletedOnce(p)'
               PROVE  RepliesCovered(p)'
    BY FoundationStep DEF ReplyLedger
  <1>0. /\ repliesCount \in [Posts -> Nat] /\ pc \in [Requests -> PC]
        /\ arg \in [Requests -> Arg] /\ repliesCount'[p] \in Nat
        /\ status \in [Posts -> Status] /\ row \in [Posts -> Row]
        /\ Cardinality(ReplyIncs(p)) \in Nat /\ Cardinality(ReplyDecs(p)) \in Nat
        /\ Cardinality(LiveReplies(p)) \in Nat /\ p # None
    BY ReplySetsFinite, EngagementAssumption DEF Foundation, TypeOK
  <1>i. Cardinality(ReplyIncs(p)') \in Nat
    <2>1. ReplyIncs(p)' \subseteq Requests
      BY DEF ReplyIncs
    <2> QED
      BY <2>1, FS_Subset, FS_CardinalityType, EngagementAssumption
  <1>a. IsLive(p) => RepliesCovered(p)
    BY OnceBefore DEF ReplyInv, ReplyLedger
  <1>1. CASE \A r \in Requests : /\ ~InsertPost(r) /\ ~SoftDeletePost(r)
                                 /\ ~IncrementRepliesCount(r) /\ ~DecrementRepliesCount(r)
    BY <1>1, <1>a, RepliesUntouched DEF IsLive, RepliesCovered
  <1>2. ASSUME NEW r \in Requests, InsertPost(r)
        PROVE  RepliesCovered(p)'
    <2>0. PICK c \in Posts :
            /\ status[c] = "absent" /\ status' = [status EXCEPT ![c] = "live"]
            /\ row' = [row EXCEPT ![c] = [author |-> arg[r].user, parent |-> arg[r].parent,
                                          root |-> arg[r].root]]
            /\ arg' = [arg EXCEPT ![r] = [user |-> arg[r].user, post |-> c,
                                          parent |-> arg[r].parent, root |-> arg[r].root]]
            /\ repliesCount' = repliesCount /\ pc[r] = "create"
            /\ pc' = [pc EXCEPT ![r] = IF arg[r].parent = None THEN "createHook" ELSE "replyInc"]
      BY <1>2 DEF InsertPost, At, Goto
    <2>1. ReplyDecs(p)' = ReplyDecs(p)
      BY <1>0, <2>0 DEF ReplyDecs
    <2>2. CASE status[p] = "absent"
      <3>1. arg[r].parent # p
        BY <1>0, <2>0, <2>2 DEF ThreadInv, ReplyReady
      <3>2. LiveReplies(p)' = {}
        BY <1>0, <2>0, <2>2, <3>1 DEF LiveReplies, IsLive, ThreadInv, ThreadRooted
      <3>3. ReplyDecs(p) = {}
        <4> SUFFICES ASSUME NEW s \in ReplyDecs(p) PROVE FALSE
          OBVIOUS
        <4>1. /\ arg[s].post \in Posts /\ status[arg[s].post] # "absent"
              /\ row[arg[s].post].parent = p
          BY DEF ReplyDecs, ReplyInv, DeleteKnows, DeletingPC
        <4> QED
          BY <1>0, <2>2, <4>1 DEF ThreadInv, ThreadRooted
      <3> QED
        BY <1>0, <1>i, <2>1, <3>2, <3>3, FS_EmptySet DEF RepliesCovered
    <2>3. CASE status[p] # "absent" /\ arg[r].parent = p
      <3>1. IsLive(p) /\ c # p
        BY <1>0, <2>0, <2>3 DEF IsLive
      <3>2. LiveReplies(p)' = LiveReplies(p) \cup {c} /\ c \notin LiveReplies(p)
        BY <1>0, <2>0, <2>3 DEF LiveReplies, IsLive
      <3>3. ReplyIncs(p)' = ReplyIncs(p) \cup {r} /\ r \notin ReplyIncs(p)
        BY <1>0, <2>0, <2>3 DEF ReplyIncs
      <3>4. /\ Cardinality(LiveReplies(p)') = Cardinality(LiveReplies(p)) + 1
            /\ Cardinality(ReplyIncs(p)') = Cardinality(ReplyIncs(p)) + 1
        BY <3>2, <3>3, ReplySetsFinite, FS_AddElement
      <3> QED
        BY <1>0, <1>a, <2>0, <2>1, <3>1, <3>4 DEF RepliesCovered
    <2>4. CASE status[p] # "absent" /\ arg[r].parent # p
      <3>1. IsLive(p)
        BY <1>0, <2>0, <2>4 DEF IsLive
      <3>2. LiveReplies(p)' = LiveReplies(p)
        BY <1>0, <2>0, <2>4 DEF LiveReplies, IsLive
      <3>3. ReplyIncs(p)' = ReplyIncs(p)
        BY <1>0, <2>0, <2>4 DEF ReplyIncs
      <3> QED
        BY <1>a, <2>0, <2>1, <3>1, <3>2, <3>3 DEF RepliesCovered
    <2> QED
      BY <2>2, <2>3, <2>4
  <1>3. ASSUME NEW r \in Requests, SoftDeletePost(r)
        PROVE  RepliesCovered(p)'
    <2> DEFINE c == arg[r].post
    <2>0. /\ pc[r] = "delete" /\ UNCHANGED <<row, repliesCount, arg>>
          /\ status' = [status EXCEPT ![c] = IF @ = "live" THEN "deleted" ELSE @]
          /\ pc' = [pc EXCEPT ![r] = IF arg[r].parent = None THEN "deleted" ELSE "replyDec"]
      BY <1>3 DEF SoftDeletePost, At, Goto
    <2>1. c \in Posts /\ status[c] # "absent" /\ arg[r].parent = row[c].parent
      BY <2>0 DEF ReplyInv, DeleteKnows, DeletingPC
    <2>2. IsLive(p) /\ ReplyIncs(p)' = ReplyIncs(p)
      BY <1>0, <2>0, <2>1 DEF IsLive, ReplyIncs
    <2>3. CASE row[c].parent # p
      <3>1. LiveReplies(p)' = LiveReplies(p) /\ ReplyDecs(p)' = ReplyDecs(p)
        BY <1>0, <2>0, <2>1, <2>3 DEF LiveReplies, IsLive, ReplyDecs
      <3> QED
        BY <1>a, <2>0, <2>2, <3>1 DEF RepliesCovered
    <2>4. CASE row[c].parent = p
      <3>1. IsLive(c)
        <4> SUFFICES ASSUME ~IsLive(c) PROVE FALSE
          OBVIOUS
        <4>1. status[c] = "deleted"
          BY <1>0, <2>1 DEF IsLive, Status
        <4>2. PICK s \in Requests : pc[s] \in {"replyDec", "deleted"} /\ arg[s].post = c
          BY <2>1, <4>1 DEF ReplyInv, DeletedByRequest
        <4>3. s # r /\ {r, s} \subseteq Deletes(c)'
          BY <1>0, <2>0, <4>2 DEF Deletes
        <4>4. IsFiniteSet(Deletes(c)') /\ Cardinality(Deletes(c)') \in Nat
          <5>1. Deletes(c)' \subseteq Requests
            BY DEF Deletes
          <5> QED
            BY <5>1, FS_Subset, FS_CardinalityType, EngagementAssumption
        <4>5. Cardinality({r, s}) = 2
          <5>1. Cardinality({r}) = 1 /\ IsFiniteSet({r})
            BY FS_Singleton
          <5>a. s \notin {r}
            BY <4>3
          <5>2. Cardinality({r} \cup {s}) = 2
            BY <5>a, <5>1, FS_AddElement
          <5>3. {r} \cup {s} = {r, s}
            OBVIOUS
          <5> QED
            BY <5>2, <5>3
        <4>6. 2 <= Cardinality(Deletes(c)')
          BY <4>3, <4>4, <4>5, FS_Subset
        <4>7. Cardinality(Deletes(c)') <= 1
          BY <2>0, <2>1, <2>4 DEF DeletedOnce
        <4> QED
          BY <4>4, <4>6, <4>7
      <3>2. LiveReplies(p)' = LiveReplies(p) \ {c} /\ c \in LiveReplies(p)
        BY <1>0, <2>0, <2>1, <2>4, <3>1 DEF LiveReplies, IsLive
      <3>3. ReplyDecs(p)' = ReplyDecs(p) \cup {r} /\ r \notin ReplyDecs(p)
        BY <1>0, <2>0, <2>1, <2>4 DEF ReplyDecs
      <3>f. IsFiniteSet(LiveReplies(p))
        BY ReplySetsFinite
      <3>4. Cardinality(LiveReplies(p)') = Cardinality(LiveReplies(p)) - 1
        BY <3>2, <3>f, FS_RemoveElement
      <3>5. Cardinality(ReplyDecs(p)') = Cardinality(ReplyDecs(p)) + 1
        BY <3>3, ReplySetsFinite, FS_AddElement
      <3> QED
        BY <1>0, <1>a, <2>0, <2>2, <3>4, <3>5 DEF RepliesCovered
    <2> QED
      BY <2>3, <2>4
  <1>4. ASSUME NEW r \in Requests, IncrementRepliesCount(r)
        PROVE  RepliesCovered(p)'
    <2>0. /\ pc[r] = "replyInc" /\ UNCHANGED <<status, row, arg>>
          /\ repliesCount' = Increment(repliesCount, arg[r].parent)
          /\ pc' = [pc EXCEPT ![r] = "createHook"] /\ IsLive(p)
      BY <1>4 DEF IncrementRepliesCount, At, Goto, IsLive
    <2>1. LiveReplies(p)' = LiveReplies(p) /\ ReplyDecs(p)' = ReplyDecs(p)
      BY <1>0, <2>0 DEF LiveReplies, IsLive, ReplyDecs
    <2>2. CASE arg[r].parent # p
      <3>1. ReplyIncs(p)' = ReplyIncs(p) /\ repliesCount'[p] = repliesCount[p]
        BY <1>0, <2>0, <2>2 DEF ReplyIncs, Increment
      <3> QED
        BY <1>a, <2>0, <2>1, <3>1 DEF RepliesCovered
    <2>3. CASE arg[r].parent = p
      <3>1. ReplyIncs(p)' = ReplyIncs(p) \ {r} /\ r \in ReplyIncs(p)
        BY <1>0, <2>0, <2>3 DEF ReplyIncs
      <3>2. repliesCount'[p] = repliesCount[p] + 1
        BY <1>0, <2>0, <2>3 DEF Increment
      <3>3. Cardinality(ReplyIncs(p)') = Cardinality(ReplyIncs(p)) - 1
        BY <3>1, ReplySetsFinite, FS_RemoveElement
      <3> QED
        BY <1>0, <1>a, <2>0, <2>1, <3>2, <3>3 DEF RepliesCovered
    <2> QED
      BY <2>2, <2>3
  <1>5. ASSUME NEW r \in Requests, DecrementRepliesCount(r)
        PROVE  RepliesCovered(p)'
    <2>0. /\ pc[r] = "replyDec" /\ UNCHANGED <<status, row, arg>>
          /\ repliesCount' = Decrement(repliesCount, arg[r].parent)
          /\ pc' = [pc EXCEPT ![r] = "deleted"] /\ IsLive(p)
      BY <1>5 DEF DecrementRepliesCount, At, Goto, IsLive
    <2>1. LiveReplies(p)' = LiveReplies(p) /\ ReplyIncs(p)' = ReplyIncs(p)
      BY <1>0, <2>0 DEF LiveReplies, IsLive, ReplyIncs
    <2>2. CASE arg[r].parent # p
      <3>1. ReplyDecs(p)' = ReplyDecs(p) /\ repliesCount'[p] = repliesCount[p]
        BY <1>0, <2>0, <2>2 DEF ReplyDecs, Decrement
      <3> QED
        BY <1>a, <2>0, <2>1, <3>1 DEF RepliesCovered
    <2>3. CASE arg[r].parent = p
      <3>1. ReplyDecs(p)' = ReplyDecs(p) \ {r} /\ r \in ReplyDecs(p)
        BY <1>0, <2>0, <2>3 DEF ReplyDecs
      <3>2. repliesCount'[p] >= repliesCount[p] - 1
        BY <1>0, <2>0, <2>3 DEF Decrement
      <3>3. Cardinality(ReplyDecs(p)') = Cardinality(ReplyDecs(p)) - 1
        BY <3>1, ReplySetsFinite, FS_RemoveElement
      <3> QED
        BY <1>0, <1>a, <2>0, <2>1, <3>2, <3>3 DEF RepliesCovered
    <2> QED
      BY <2>2, <2>3
  <1> QED
    BY <1>1, <1>2, <1>3, <1>4, <1>5

\* The seeded replies are all counted and no request has started.
LEMMA ReplyInit == Init => ReplyInv
  <1> SUFFICES ASSUME Init PROVE ReplyInv
    OBVIOUS
  <1>1. DeleteKnows /\ DeletedByRequest
    BY DEF Init, DeleteKnows, DeletedByRequest, DeletingPC
  <1>2. ASSUME NEW p \in Posts
        PROVE  RepliesCovered(p)
    <2>1. ReplyIncs(p) = {} /\ ReplyDecs(p) = {}
      BY DEF Init, ReplyIncs, ReplyDecs
    <2>2. LiveReplies(p) = {c \in Seed : SeedParent[c] = p}
      BY EngagementAssumption DEF Init, LiveReplies, IsLive
    <2>3. repliesCount[p] = Cardinality(LiveReplies(p))
      BY <2>2 DEF Init
    <2> QED
      BY <2>1, <2>3, ReplySetsFinite, FS_EmptySet DEF RepliesCovered
  <1> QED
    BY <1>1, <1>2 DEF ReplyInv, ReplyLedger

\* For any thread and any interleaving of replies and deletions, aborted
\* anywhere: a settled replies_count is never below the number of live
\* replies, as long as no reply was deleted by two requests at once.
THEOREM RepliesAreCovered == Spec => []RepliesNeverUndercounted
  <1>1. Spec => []AbsentEmpty
    BY AbsentEmptyInit, AbsentEmptyStep, FoundationHolds, PTL DEF Spec
  <1>2. Spec => []ThreadInv
    BY ThreadInit, ThreadStep, FoundationHolds, PTL DEF Spec
  <1>3. Foundation /\ ThreadInv /\ AbsentEmpty /\ ReplyInv /\ [Next]_vars => ReplyInv'
    BY DeleteKnowsStep, DeletedByRequestStep, ReplyLedgerStep DEF ReplyInv
  <1>4. Spec => []ReplyInv
    BY <1>1, <1>2, <1>3, ReplyInit, FoundationHolds, PTL DEF Spec
  <1>5. Foundation /\ ReplyInv => RepliesNeverUndercounted
    <2> SUFFICES ASSUME Foundation, ReplyInv, NEW p \in Posts, IsLive(p), RepliesSettled(p),
                        DeletedOnce(p)
                 PROVE  repliesCount[p] >= Cardinality(LiveReplies(p))
      BY DEF RepliesNeverUndercounted, DeletedOnce
    <2>1. Cardinality(ReplyIncs(p)) = 0 /\ Cardinality(ReplyDecs(p)) = 0
      BY FS_EmptySet DEF RepliesSettled
    <2>2. repliesCount[p] \in Nat /\ Cardinality(LiveReplies(p)) \in Nat
      BY ReplySetsFinite DEF Foundation, TypeOK
    <2>3. RepliesCovered(p)
      BY DEF ReplyInv, ReplyLedger
    <2> QED
      BY <2>1, <2>2, <2>3 DEF RepliesCovered
  <1> QED
    BY <1>4, <1>5, FoundationHolds, PTL

=============================================================================
