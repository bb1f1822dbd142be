----------------------------- MODULE FeedProofs -----------------------------
(***************************************************************************)
(* The listings and the images of Feed, for any number of users, requests, *)
(* posts, images and limits.                                               *)
(*                                                                         *)
(* The inductive invariant has three parts.  Types: rows and requests have *)
(* their shapes, each pc belongs to its use case, and every id was made    *)
(* before.  ScrollInv: what a scroll has still to show is older than its   *)
(* cursor (or on the page in flight), and older than all it has shown.     *)
(* ImageInv: an id in flight is fresh, a deletion past the ownership check *)
(* is the owner's, and a post in flight has checked the images that it no  *)
(* longer has to check.                                                    *)
(***************************************************************************)
EXTENDS Feed, FiniteSetTheorems, SequenceTheorems, TLAPS

-----------------------------------------------------------------------------
(* ORDER BY id DESC, LIMIT and the pages made of them *)

Ids == Nat \ {Null}

\* The number of ids above x.
Rank(S, x) == Cardinality({y \in S : y > x})

\* A greater id has fewer ids above it.
LEMMA RankDecreases ==
    ASSUME NEW S \in SUBSET Ids, IsFiniteSet(S), NEW x \in S, NEW y \in S, x < y
    PROVE  Rank(S, y) < Rank(S, x)
  <1> DEFINE A == {z \in S : z > x}
             B == {z \in S : z > y}
  <1>1. x \in Nat /\ y \in Nat /\ S \subseteq Nat
    BY DEF Ids
  <1>2. B \subseteq A /\ y \in A /\ y \notin B
    <2>1. \A z \in S : z > y => z > x
      BY <1>1
    <2>2. y > x /\ ~(y > y)
      BY <1>1
    <2> QED
      BY <2>1, <2>2
  <1>3. IsFiniteSet(A) /\ A \subseteq S
    BY FS_Subset
  <1> HIDE DEF A, B
  <1>4. B # A
    BY <1>2
  <1>5. Cardinality(B) < Cardinality(A)
    <2>1. IsFiniteSet(B) /\ Cardinality(B) <= Cardinality(A)
          /\ (Cardinality(B) = Cardinality(A) => B = A)
      BY <1>2, <1>3, FS_Subset
    <2>2. Cardinality(B) \in Nat /\ Cardinality(A) \in Nat
      BY <1>3, <2>1, FS_CardinalityType
    <2> QED
      BY <1>4, <2>1, <2>2
  <1> QED
    BY <1>5 DEF Rank, A, B

\* The rank of an id is a place of the listing, counted from 0.
LEMMA RankRange ==
    ASSUME NEW S \in SUBSET Ids, IsFiniteSet(S), NEW x \in S
    PROVE  Cardinality(S) \in Nat /\ Rank(S, x) \in 0..(Cardinality(S) - 1)
  <1> DEFINE A == {z \in S : z > x}
  <1>1. A \subseteq S /\ x \notin A
    BY DEF Ids
  <1> HIDE DEF A
  <1>2. IsFiniteSet(A) /\ Cardinality(A) <= Cardinality(S)
        /\ (Cardinality(A) = Cardinality(S) => A = S)
    BY <1>1, FS_Subset
  <1>3. Cardinality(S) \in Nat /\ Cardinality(A) \in Nat
    BY <1>2, FS_CardinalityType
  <1> QED
    BY <1>1, <1>2, <1>3 DEF Rank, A

\* Every place of the listing is the rank of some id.
LEMMA RankOnto ==
    ASSUME NEW S \in SUBSET Ids, IsFiniteSet(S), NEW k \in 0..(Cardinality(S) - 1)
    PROVE  \E x \in S : Rank(S, x) = k
  <1> SUFFICES ASSUME \A x \in S : Rank(S, x) # k
               PROVE  FALSE
    OBVIOUS
  <1> DEFINE n == Cardinality(S)
             T == (0..(n - 1)) \ {k}
             f == [x \in S |-> Rank(S, x)]
  <1>1. n \in Nat
    BY FS_CardinalityType
  <1>2. f \in [S -> T]
    BY RankRange
  <1>3. IsFiniteSet(T) /\ Cardinality(T) < n
    <2>1. IsFiniteSet(0..(n - 1)) /\ Cardinality(0..(n - 1)) = n
      BY <1>1, FS_Interval
    <2>2. IsFiniteSet(T) /\ Cardinality(T) = n - 1
      BY <2>1, FS_RemoveElement
    <2> QED
      BY <1>1, <2>2
  <1>4. PICK x, y \in S : x # y /\ f[x] = f[y]
    <2> HIDE DEF f, T
    <2> QED
      BY <1>2, <1>3, FS_PigeonHole
  <1>5. Rank(S, x) = Rank(S, y) /\ x \in Nat /\ y \in Nat
    BY <1>4 DEF Ids
  <1>6. Rank(S, x) \in Nat
    BY RankRange
  <1>7. x < y \/ y < x
    BY <1>4, <1>5
  <1> QED
    BY <1>5, <1>6, <1>7, RankDecreases

\* ORDER BY id DESC lists every id once, the greatest first.
LEMMA DescendingSorts ==
    ASSUME NEW S \in SUBSET Ids, IsFiniteSet(S)
    PROVE  /\ Cardinality(S) \in Nat
           /\ Descending(S) \in [1..Cardinality(S) -> S]
           /\ \A i, j \in 1..Cardinality(S) : i < j => Descending(S)[i] > Descending(S)[j]
           /\ \A x \in S : \E i \in 1..Cardinality(S) : Descending(S)[i] = x
  <1> DEFINE n == Cardinality(S)
             d == Descending(S)
  <1>1. n \in Nat
    BY FS_CardinalityType
  <1>2. \A i \in 1..n : d[i] \in S /\ Rank(S, d[i]) = i - 1
    <2> SUFFICES ASSUME NEW i \in 1..n PROVE d[i] \in S /\ Rank(S, d[i]) = i - 1
      OBVIOUS
    <2>1. i - 1 \in 0..(n - 1)
      BY <1>1
    <2>2. \E x \in S : Rank(S, x) = i - 1
      BY <2>1, RankOnto
    <2>3. d[i] = CHOOSE x \in S : Rank(S, x) = i - 1
      BY DEF Descending, Rank
    <2> QED
      BY <2>2, <2>3
  <1>3. d \in [1..n -> S]
    BY <1>2 DEF Descending
  <1>4. ASSUME NEW x \in S, NEW y \in S, Rank(S, x) < Rank(S, y)
        PROVE  x > y
    <2>1. x \in Nat /\ y \in Nat /\ Rank(S, x) \in Nat /\ Rank(S, y) \in Nat
      BY RankRange DEF Ids
    <2>2. CASE x < y
      BY <1>4, <2>1, <2>2, RankDecreases
    <2>3. CASE x = y
      BY <1>4, <2>1, <2>3
    <2> QED
      BY <2>1, <2>2, <2>3
  <1>5. ASSUME NEW i \in 1..n, NEW j \in 1..n, i < j
        PROVE  d[i] > d[j]
    <2>1. Rank(S, d[i]) < Rank(S, d[j])
      BY <1>1, <1>2, <1>5
    <2> QED
      BY <1>2, <1>4, <2>1
  <1>6. ASSUME NEW x \in S
        PROVE  \E i \in 1..n : d[i] = x
    <2>1. Rank(S, x) \in 0..(n - 1)
      BY RankRange
    <2> DEFINE i == Rank(S, x) + 1
    <2>2. i \in 1..n /\ Rank(S, x) = i - 1
      BY <1>1, <2>1
    <2> HIDE DEF i
    <2>3. d[i] \in S /\ Rank(S, d[i]) = Rank(S, x)
      BY <1>2, <2>2
    <2>4. d[i] = x
      <3> DEFINE y == d[i]
      <3>1. y \in S /\ y \in Nat /\ x \in Nat /\ Rank(S, x) \in Nat /\ Rank(S, y) = Rank(S, x)
        <4>1. Rank(S, x) \in Nat /\ x \in Nat
          BY <1>1, <2>1 DEF Ids
        <4>2. y \in S /\ Rank(S, y) = Rank(S, x)
          BY <2>3
        <4> QED
          BY <4>1, <4>2 DEF Ids
      <3> HIDE DEF y
      <3>2. ASSUME y < x PROVE FALSE
        <4>1. Rank(S, x) < Rank(S, y)
          BY <3>1, <3>2, RankDecreases
        <4> QED
          BY <3>1, <4>1
      <3>3. ASSUME x < y PROVE FALSE
        <4>1. Rank(S, y) < Rank(S, x)
          BY <3>1, <3>3, RankDecreases
        <4> QED
          BY <3>1, <4>1
      <3>4. y = x
        BY <3>1, <3>2, <3>3
      <3> QED
        BY <3>4 DEF y
    <2> QED
      BY <2>2, <2>4
  <1> QED
    BY <1>1, <1>3, <1>5, <1>6

\* The least of two numbers.
LEMMA MinOfTwo ==
    ASSUME NEW a \in Nat, NEW b \in Nat
    PROVE  Min({a, b}) = IF a <= b THEN a ELSE b
  <1> DEFINE m == IF a <= b THEN a ELSE b
  <1>1. m \in {a, b} /\ \A y \in {a, b} : m <= y
    OBVIOUS
  <1>2. \A x \in {a, b} : (\A y \in {a, b} : x <= y) => x = m
    OBVIOUS
  <1> HIDE DEF m
  <1>3. Min({a, b}) \in {a, b} /\ \A y \in {a, b} : Min({a, b}) <= y
    BY <1>1 DEF Min
  <1>4. Min({a, b}) = m
    BY <1>2, <1>3
  <1> QED
    BY <1>4 DEF m

\* LIMIT n of a listing.
LEMMA TakeFirst ==
    ASSUME NEW S, NEW rows \in Seq(S), NEW n \in Nat
    PROVE  /\ Take(rows, n) \in Seq(S)
           /\ Len(Take(rows, n)) = IF n <= Len(rows) THEN n ELSE Len(rows)
           /\ \A i \in 1..Len(Take(rows, n)) : i \in 1..Len(rows) /\ Take(rows, n)[i] = rows[i]
  <1> DEFINE m == Min({n, Len(rows)})
             t == Take(rows, n)
  <1>1. Len(rows) \in Nat /\ \A i \in 1..Len(rows) : rows[i] \in S
    BY LenProperties, ElementOfSeq
  <1>2. m = IF n <= Len(rows) THEN n ELSE Len(rows)
    BY <1>1, MinOfTwo
  <1>3. m \in Nat /\ m <= Len(rows)
    BY <1>1, <1>2
  <1> HIDE DEF m
  <1>4. \A i \in 1..m : rows[i] \in S
    BY <1>1, <1>3
  <1>5. t = SubSeq(rows, 1, m)
    BY DEF Take, m
  <1>6. /\ t \in Seq(S) /\ Len(t) = IF 1 <= m THEN m - 1 + 1 ELSE 0
        /\ \A i \in 1..(m - 1 + 1) : t[i] = rows[1 + i - 1]
    BY <1>3, <1>4, <1>5, SubSeqProperties
  <1> HIDE DEF t
  <1>7. Len(t) = m
    BY <1>3, <1>6
  <1>8. \A i \in 1..m : i \in 1..Len(rows) /\ t[i] = rows[i]
    <2> SUFFICES ASSUME NEW i \in 1..m PROVE i \in 1..Len(rows) /\ t[i] = rows[i]
      OBVIOUS
    <2>1. i \in 1..(m - 1 + 1) /\ 1 + i - 1 = i /\ i \in 1..Len(rows)
      BY <1>1, <1>3
    <2> QED
      BY <1>6, <2>1
  <1> QED
    BY <1>2, <1>6, <1>7, <1>8 DEF t

\* A sequence that goes strictly down.
Falling(s) == \A i, j \in DOMAIN s : i < j => s[i] > s[j]

\* The rows a page with this cursor is taken from.
Older(rows, cursor) == {p \in rows : cursor = Null \/ p < cursor}

\* What a page promises about the rows it is taken from.
PageSound(page, older) ==
    /\ page[1] \in Seq(older) /\ page[2] \in older \cup {Null}
    /\ Falling(page[1])
    /\ page[2] # Null => page[2] \in ToSet(page[1]) /\ \A p \in ToSet(page[1]) : p >= page[2]
    /\ \A p \in older : p \in ToSet(page[1]) \/ (page[2] # Null /\ p < page[2])

\* A page of the keyset listing is sound (PageSound): it holds ids of the rows
\* older than its cursor only, in falling order, and a next cursor, its last id,
\* beyond which are exactly the older rows it does not show.
LEMMA PostPageSound ==
    ASSUME NEW rows \in SUBSET Ids, IsFiniteSet(rows), NEW cursor \in Nat,
           NEW limit \in Nat, limit > 0
    PROVE  PageSound(PostPage(rows, cursor, limit), Older(rows, cursor))
  <1> DEFINE older == Older(rows, cursor)
             n == Cardinality(older)
             d == Descending(older)
             found == Take(d, limit + 1)
             page == PostPage(rows, cursor, limit)
  <1> SUFFICES PageSound(page, older)
    OBVIOUS
  <1>1. older \in SUBSET Ids /\ IsFiniteSet(older)
    <2>1. older \subseteq rows
      BY DEF Older
    <2> QED
      BY <2>1, FS_Subset
  <1>2. /\ n \in Nat /\ d \in [1..n -> older]
        /\ \A i, j \in 1..n : i < j => d[i] > d[j]
        /\ \A x \in older : \E i \in 1..n : d[i] = x
    <2> HIDE DEF older
    <2> QED
      BY <1>1, DescendingSorts
  <1>3. page = IF Len(found) > limit THEN <<Take(found, limit), found[limit]>>
               ELSE <<found, Null>>
    BY DEF PostPage, Older
  <1> HIDE DEF older, n, d, page
  <1>4. d \in Seq(older) /\ Len(d) = n /\ DOMAIN d = 1..n
    BY <1>2
  <1>5. /\ found \in Seq(older)
        /\ Len(found) = IF limit + 1 <= n THEN limit + 1 ELSE n
        /\ \A i \in 1..Len(found) : i \in 1..n /\ found[i] = d[i]
    BY <1>4, TakeFirst
  <1>6. DOMAIN found = 1..Len(found) /\ Len(found) \in Nat
    BY <1>5, LenProperties
  <1> HIDE DEF found
  <1>7. CASE Len(found) <= limit
    <2>1. page[1] = found /\ page[2] = Null
      BY <1>3, <1>6, <1>7
    <2>2. Len(found) = n
      BY <1>2, <1>5, <1>7
    <2>3. Falling(found)
      BY <1>2, <1>5, <1>6 DEF Falling
    <2>4. \A p \in older : p \in ToSet(found)
      BY <1>2, <1>5, <1>6, <2>2 DEF ToSet
    <2> QED
      BY <1>5, <2>1, <2>3, <2>4 DEF PageSound
  <1>8. CASE Len(found) > limit
    <2> DEFINE first == Take(found, limit)
    <2>1. page[1] = first /\ page[2] = found[limit]
      BY <1>3, <1>8
    <2>2. Len(found) = limit + 1 /\ limit + 1 <= n
      BY <1>2, <1>5, <1>8
    <2>3. /\ first \in Seq(older) /\ Len(first) = IF limit <= Len(found) THEN limit ELSE Len(found)
          /\ \A i \in 1..Len(first) : i \in 1..Len(found) /\ first[i] = found[i]
      BY <1>5, TakeFirst
    <2>4. Len(first) = limit
      BY <2>2, <2>3
    <2>5. DOMAIN first = 1..limit
      BY <2>3, <2>4, LenProperties
    <2> HIDE DEF first
    <2>6. \A i \in 1..limit : i \in 1..n /\ first[i] = d[i]
      BY <1>5, <2>3, <2>4
    <2>7. limit \in 1..limit /\ limit \in 1..n /\ page[2] = d[limit]
      BY <1>5, <2>1, <2>2
    <2>8. Falling(first)
      BY <1>2, <2>5, <2>6 DEF Falling
    <2>9. page[2] \in older /\ page[2] \in ToSet(first) /\ page[2] # Null
      BY <1>1, <1>2, <2>5, <2>6, <2>7 DEF ToSet, Ids
    <2>10. \A p \in ToSet(first) : p >= page[2]
      <3> SUFFICES ASSUME NEW i \in 1..limit PROVE first[i] >= page[2]
        BY <2>5 DEF ToSet
      <3>1. first[i] = d[i] /\ d[i] \in Nat /\ d[limit] \in Nat /\ i \in 1..n
        BY <1>1, <1>2, <2>6, <2>7 DEF Ids
      <3>2. i = limit \/ d[i] > d[limit]
        BY <1>2, <2>7, <3>1
      <3> QED
        BY <2>7, <3>1, <3>2
    <2>11. ASSUME NEW p \in older, p \notin ToSet(first)
           PROVE  p < page[2]
      <3>1. PICK i \in 1..n : d[i] = p
        BY <1>2
      <3>2. i > limit
        BY <2>5, <2>6, <2>11, <3>1 DEF ToSet
      <3>3. d[limit] > d[i]
        BY <1>2, <2>7, <3>2
      <3>4. p \in Nat /\ page[2] \in Nat
        BY <1>1, <2>9 DEF Ids
      <3> QED
        BY <2>7, <3>1, <3>3, <3>4
    <2> QED
      BY <2>1, <2>3, <2>8, <2>9, <2>10, <2>11 DEF PageSound
  <1>9. Len(found) <= limit \/ Len(found) > limit
    BY <1>6
  <1> QED
    BY <1>7, <1>8, <1>9

-----------------------------------------------------------------------------
(* Requests *)

Ops == {"none", "upload", "deleteImage", "create", "deletePost", "follow", "unfollow"}
         \cup Scrolls
Pcs == {"idle", "put", "insertImage", "load", "deleteObject", "deleteImage", "parent",
        "images", "insertPost", "deletePost", "write", "followees", "page", "deliver", "done"}

Request == [op : Ops, pc : Pcs, user : Users \cup {Null}, target : Nat, id : Nat,
            imgs : Seq(Nat), rest : Seq(Nat), authors : SUBSET Nat, cursor : Nat,
            page : Seq(Nat) \X Nat, shown : Seq(Nat)]

\* Which steps belong to which use case.
Staged(q) ==
    /\ q.pc = "idle" => q.op = "none" /\ q.shown = <<>>
    /\ q.pc \in {"put", "insertImage"} => q.op = "upload" /\ q.user \in Users
    /\ q.pc \in {"deleteObject", "deleteImage"} => q.op = "deleteImage"
    /\ q.pc \in {"parent", "images", "insertPost"} => q.op = "create" /\ q.user \in Users
    /\ q.pc = "load" => q.op \in {"deleteImage", "deletePost"}
    /\ q.pc = "deletePost" => q.op = "deletePost"
    /\ q.pc = "write" => /\ q.op \in {"follow", "unfollow"}
                         /\ q.user \in Users /\ q.target \in Users
    /\ q.pc = "followees" => q.op = "home"
    /\ q.pc \in {"page", "deliver"} => q.op \in Scrolls

\* A row about to be inserted has a ULID that was made.
Numbered(q, last) == q.pc \in {"insertImage", "insertPost"} => q.id \in 1..last

Types ==
    /\ ulid \in Nat
    /\ posts \in [DOMAIN posts -> PostRow] /\ DOMAIN posts \subseteq 1..ulid
    /\ images \in [DOMAIN images -> ImageRow] /\ DOMAIN images \subseteq 1..ulid
    /\ DOMAIN follows \subseteq Users \X Users
    /\ req \in [Requests -> Request]
    /\ \A r \in Requests : Staged(req[r]) /\ Numbered(req[r], ulid)

\* Only the request r moves in a step, and what it was asked stays.
Turn(r) ==
    /\ req' \in [Requests -> Request]
    /\ \A s \in Requests : s # r => req'[s] = req[s]

Asked(q, p) == q.op = p.op /\ q.user = p.user /\ q.target = p.target /\ q.imgs = p.imgs
Scrolled(q, p) == q.cursor = p.cursor /\ q.shown = p.shown /\ q.authors = p.authors /\ q.page = p.page

\* Go(r, pc) moves the request r and changes its pc only.
LEMMA GoTurn ==
    ASSUME Types, NEW r \in Requests, NEW pc \in Pcs, Go(r, pc)
    PROVE  /\ Turn(r) /\ req'[r].pc = pc
           /\ Asked(req'[r], req[r]) /\ Scrolled(req'[r], req[r])
           /\ req'[r].id = req[r].id /\ req'[r].rest = req[r].rest
  <1>1. req \in [Requests -> Request] /\ req[r] \in Request
    BY DEF Types
  <1>2. req' = [req EXCEPT ![r] = [req[r] EXCEPT !.pc = pc]]
    BY DEF Go
  <1>3. [req[r] EXCEPT !.pc = pc] \in Request
    BY <1>1 DEF Request
  <1>4. req'[r] = [req[r] EXCEPT !.pc = pc]
    BY <1>1, <1>2
  <1>5. Turn(r)
    BY <1>1, <1>2, <1>3 DEF Turn
  <1> QED
    BY <1>1, <1>4, <1>5 DEF Request, Asked, Scrolled

\* A new ULID goes into the request that made it, with its pc.
LEMMA IdTurn ==
    ASSUME Types, NEW r \in Requests, NEW pc \in Pcs, NEW n \in Nat,
           req' = [req EXCEPT ![r].pc = pc, ![r].id = n]
    PROVE  /\ Turn(r) /\ req'[r].pc = pc
           /\ Asked(req'[r], req[r]) /\ Scrolled(req'[r], req[r])
           /\ req'[r].id = n /\ req'[r].rest = req[r].rest
  <1>1. req \in [Requests -> Request] /\ req[r] \in Request
    BY DEF Types
  <1>2. req' = [req EXCEPT ![r] = [req[r] EXCEPT !.pc = pc, !.id = n]]
    BY <1>1
  <1>3. [req[r] EXCEPT !.pc = pc, !.id = n] \in Request
    BY <1>1 DEF Request
  <1>4. req'[r] = [req[r] EXCEPT !.pc = pc, !.id = n]
    BY <1>1, <1>2
  <1>5. Turn(r)
    BY <1>1, <1>2, <1>3 DEF Turn
  <1> QED
    BY <1>1, <1>4, <1>5 DEF Request, Asked, Scrolled

\* Checking an image takes it off the images still to check.
LEMMA RestTurn ==
    ASSUME Types, NEW r \in Requests, req[r].rest # <<>>,
           req' = [req EXCEPT ![r].rest = Tail(@)]
    PROVE  /\ Turn(r) /\ req'[r].pc = req[r].pc
           /\ Asked(req'[r], req[r]) /\ Scrolled(req'[r], req[r])
           /\ req'[r].id = req[r].id /\ req'[r].rest = Tail(req[r].rest)
  <1> DEFINE t == Tail(req[r].rest)
  <1>1. req \in [Requests -> Request] /\ req[r] \in Request
    BY DEF Types
  <1>2. req' = [req EXCEPT ![r] = [req[r] EXCEPT !.rest = t]]
    BY <1>1
  <1>3. t \in Seq(Nat)
    <2>1. req[r].rest \in Seq(Nat)
      BY <1>1 DEF Request
    <2> QED
      BY <2>1, HeadTailProperties
  <1> HIDE DEF t
  <1>4. [req[r] EXCEPT !.rest = t] \in Request
    BY <1>1, <1>3 DEF Request
  <1>5. req'[r] = [req[r] EXCEPT !.rest = t]
    BY <1>1, <1>2
  <1>6. Turn(r)
    BY <1>1, <1>2, <1>4 DEF Turn
  <1> QED
    BY <1>1, <1>5, <1>6 DEF Request, Asked, Scrolled, t

\* An arriving request has what it was sent, and nothing shown yet.
LEMMA ArriveTurn ==
    ASSUME Types, NEW r \in Requests, NEW op \in Ops, NEW pc \in Pcs, NEW user \in Users \cup {Null},
           NEW target \in Nat, NEW imgs \in Seq(Nat), Arrive(r, op, pc, user, target, imgs)
    PROVE  /\ Turn(r) /\ req'[r].pc = pc /\ req'[r].op = op /\ req'[r].user = user
           /\ req'[r].target = target /\ req'[r].imgs = imgs /\ req'[r].rest = imgs
           /\ req'[r].cursor = Null /\ req'[r].shown = <<>>
           /\ req[r].pc = "idle"
           /\ UNCHANGED <<posts, postImages, images, follows, bucket, ulid, trail, faults>>
  <1> DEFINE q == [NoReq EXCEPT !.op = op, !.pc = pc, !.user = user,
                                !.target = target, !.imgs = imgs, !.rest = imgs]
  <1>1. req \in [Requests -> Request]
    BY DEF Types
  <1>2. req' = [req EXCEPT ![r] = q]
    BY DEF Arrive
  <1>3. NoReq \in Request
    <2>1. <<>> \in Seq(Nat) /\ Null \in Nat /\ "none" \in Ops /\ "idle" \in Pcs
      BY DEF Null, Ops, Pcs
    <2>2. <<<<>>, Null>> \in Seq(Nat) \X Nat
      BY <2>1
    <2> QED
      BY <2>1, <2>2 DEF NoReq, Request
  <1>4. q \in Request
    BY <1>3 DEF Request
  <1>5. /\ q.op = op /\ q.pc = pc /\ q.user = user /\ q.target = target
        /\ q.imgs = imgs /\ q.rest = imgs /\ q.cursor = Null /\ q.shown = <<>>
    BY DEF NoReq
  <1> HIDE DEF q
  <1>6. Turn(r) /\ req'[r] = q
    BY <1>1, <1>2, <1>4 DEF Turn
  <1> QED
    BY <1>5, <1>6 DEF Arrive, tables

-----------------------------------------------------------------------------
(* Tables *)

\* ReadFollowees sets the authors of the next page.
LEMMA FolloweesTurn ==
    ASSUME Types, NEW r \in Requests, ReadFollowees(r)
    PROVE  /\ Turn(r) /\ req'[r].pc = "page" /\ Asked(req'[r], req[r])
           /\ req'[r].authors = FollowingSubs(follows, req[r].user) \cup {req[r].user}
           /\ req'[r].cursor = req[r].cursor /\ req'[r].shown = req[r].shown
  <1> DEFINE a == FollowingSubs(follows, req[r].user) \cup {req[r].user}
             pc == "page"
  <1>1. req \in [Requests -> Request] /\ req[r] \in Request
    BY DEF Types
  <1>2. req' = [req EXCEPT ![r] = [req[r] EXCEPT !.pc = pc, !.authors = a]]
    BY <1>1 DEF ReadFollowees
  <1>3. a \subseteq Nat
    <2>1. FollowingSubs(follows, req[r].user) \subseteq Users
      BY DEF FollowingSubs, Types
    <2>2. req[r].user \in Nat
      BY <1>1, FeedAssumption DEF Request, Null
    <2> QED
      BY <2>1, <2>2, FeedAssumption
  <1>p. pc \in Pcs
    BY DEF Pcs
  <1> HIDE DEF a, pc
  <1>4. [req[r] EXCEPT !.pc = pc, !.authors = a] \in Request
    BY <1>1, <1>3, <1>p DEF Request
  <1>5. req'[r] = [req[r] EXCEPT !.pc = pc, !.authors = a]
    BY <1>1, <1>2
  <1>6. Turn(r)
    BY <1>1, <1>2, <1>4 DEF Turn
  <1>7. /\ req'[r].pc = pc /\ Asked(req'[r], req[r]) /\ req'[r].authors = a
        /\ req'[r].cursor = req[r].cursor /\ req'[r].shown = req[r].shown
    BY <1>1, <1>5 DEF Request, Asked
  <1> QED
    BY <1>6, <1>7 DEF a, pc

\* ReadPage sets the page.
LEMMA PageTurn ==
    ASSUME Types, NEW r \in Requests, NEW pg \in Seq(Nat) \X Nat,
           req' = [req EXCEPT ![r].pc = "deliver", ![r].page = pg]
    PROVE  /\ Turn(r) /\ req'[r].pc = "deliver" /\ Asked(req'[r], req[r])
           /\ req'[r].page = pg
           /\ req'[r].cursor = req[r].cursor /\ req'[r].shown = req[r].shown
  <1> DEFINE pc == "deliver"
  <1>1. req \in [Requests -> Request] /\ req[r] \in Request
    BY DEF Types
  <1>2. req' = [req EXCEPT ![r] = [req[r] EXCEPT !.pc = pc, !.page = pg]]
    BY <1>1
  <1>p. pc \in Pcs
    BY DEF Pcs
  <1> HIDE DEF pc
  <1>4. [req[r] EXCEPT !.pc = pc, !.page = pg] \in Request
    BY <1>1, <1>p DEF Request
  <1>5. req'[r] = [req[r] EXCEPT !.pc = pc, !.page = pg]
    BY <1>1, <1>2
  <1>6. Turn(r)
    BY <1>1, <1>2, <1>4 DEF Turn
  <1>7. /\ req'[r].pc = pc /\ Asked(req'[r], req[r]) /\ req'[r].page = pg
        /\ req'[r].cursor = req[r].cursor /\ req'[r].shown = req[r].shown
    BY <1>1, <1>5 DEF Request, Asked
  <1> QED
    BY <1>6, <1>7 DEF pc

\* Deliver appends the page and moves the cursor.
LEMMA DeliverTurn ==
    ASSUME Types, NEW r \in Requests, Deliver(r)
    PROVE  /\ Turn(r) /\ Asked(req'[r], req[r])
           /\ req'[r].pc = IF req[r].page[2] = Null THEN "done" ELSE AskAgain(req[r])
           /\ req'[r].cursor = req[r].page[2]
           /\ req'[r].shown = req[r].shown \o req[r].page[1]
  <1> DEFINE pc == IF req[r].page[2] = Null THEN "done" ELSE AskAgain(req[r])
             sh == req[r].shown \o req[r].page[1]
             cu == req[r].page[2]
  <1>1. req \in [Requests -> Request] /\ req[r] \in Request
    BY DEF Types
  <1>2. req' = [req EXCEPT ![r] = [req[r] EXCEPT !.shown = sh, !.cursor = cu, !.pc = pc]]
    BY <1>1 DEF Deliver
  <1>3. req[r].page \in Seq(Nat) \X Nat /\ req[r].shown \in Seq(Nat)
    BY <1>1 DEF Request
  <1>4. cu \in Nat /\ req[r].page[1] \in Seq(Nat)
    BY <1>3
  <1>5. sh \in Seq(Nat)
    BY <1>3, <1>4, ConcatProperties
  <1>p. pc \in Pcs
    BY DEF Pcs, AskAgain
  <1> HIDE DEF pc, sh, cu
  <1>6. [req[r] EXCEPT !.shown = sh, !.cursor = cu, !.pc = pc] \in Request
    BY <1>1, <1>4, <1>5, <1>p DEF Request
  <1>7. req'[r] = [req[r] EXCEPT !.shown = sh, !.cursor = cu, !.pc = pc]
    BY <1>1, <1>2
  <1>8. Turn(r)
    BY <1>1, <1>2, <1>6 DEF Turn
  <1>9. /\ req'[r].pc = pc /\ Asked(req'[r], req[r]) /\ req'[r].shown = sh
        /\ req'[r].cursor = cu
    BY <1>1, <1>7 DEF Request, Asked
  <1> QED
    BY <1>8, <1>9 DEF pc, sh, cu

\* Rows are only added, and keep who wrote them.
TablesGrow ==
    /\ DOMAIN posts \subseteq DOMAIN posts' /\ DOMAIN images \subseteq DOMAIN images'
    /\ \A p \in DOMAIN posts : posts'[p].author = posts[p].author
    /\ \A i \in DOMAIN images : images'[i].owner = images[i].owner
    /\ ulid' \in Nat /\ ulid <= ulid'

\* A step of a request that is no scroll, or of a scroll that begins.
ScrollFree(r) ==
    \/ /\ req'[r].op \notin Scrolls /\ req'[r].pc \notin {"followees", "page", "deliver"}
       /\ req'[r].shown = req[r].shown
    \/ /\ req[r].pc = "idle" /\ req'[r].cursor = Null /\ req'[r].shown = <<>>
       /\ req'[r].pc \in {"followees", "page"}
       /\ req'[r].pc = "page" => req'[r].op # "home"

TypedStep(r) == Types' /\ Turn(r) /\ TablesGrow

\* What a step must keep for the types to hold after it.
LEMMA TypesKept ==
    ASSUME Types, NEW r \in Requests, Turn(r), Staged(req'[r]), Numbered(req'[r], ulid'),
           TablesGrow, DOMAIN follows' \subseteq Users \X Users,
           posts' \in [DOMAIN posts' -> PostRow], DOMAIN posts' \subseteq 1..ulid',
           images' \in [DOMAIN images' -> ImageRow], DOMAIN images' \subseteq 1..ulid'
    PROVE  TypedStep(r)
  <1>1. ASSUME NEW s \in Requests
        PROVE  Staged(req'[s]) /\ Numbered(req'[s], ulid')
    <2>1. CASE s = r
      BY <2>1
    <2>2. CASE s # r
      <3>1. Staged(req[s]) /\ Numbered(req[s], ulid) /\ req'[s] = req[s] /\ ulid \in Nat
        BY <2>2 DEF Types, Turn
      <3> QED
        BY <3>1 DEF Numbered, TablesGrow
    <2> QED
      BY <2>1, <2>2
  <1>2. Types'
    <2>1. \A s \in Requests : Staged(req[s])' /\ Numbered(req[s], ulid)'
      BY <1>1 DEF Staged, Numbered
    <2> QED
      BY <2>1 DEF Types, Turn, TablesGrow
  <1> QED
    BY <1>2 DEF TypedStep

\* The same, when posts and images stay.
LEMMA TypesQuiet ==
    ASSUME Types, NEW r \in Requests, Turn(r), Staged(req'[r]), Numbered(req'[r], ulid'),
           UNCHANGED <<posts, images>>, ulid' \in Nat, ulid <= ulid',
           DOMAIN follows' \subseteq Users \X Users
    PROVE  TypedStep(r)
  <1>1. ulid \in Nat /\ DOMAIN posts' \subseteq 1..ulid' /\ DOMAIN images' \subseteq 1..ulid'
    BY DEF Types
  <1>2. TablesGrow
    BY DEF TablesGrow
  <1>3. posts' \in [DOMAIN posts' -> PostRow] /\ images' \in [DOMAIN images' -> ImageRow]
    BY DEF Types
  <1> QED
    BY <1>1, <1>2, <1>3, TypesKept

\* DELETE of a post marks its row and keeps its author.
LEMMA PostDeleted ==
    ASSUME Types, NEW id, posts' = SoftDelete(posts, id)
    PROVE  /\ DOMAIN posts' = DOMAIN posts /\ posts' \in [DOMAIN posts -> PostRow]
           /\ \A p \in DOMAIN posts : posts'[p].author = posts[p].author
  <1>1. \A p \in DOMAIN posts : posts[p] \in PostRow
    BY DEF Types
  <1>2. \A x \in PostRow : [x EXCEPT !.deleted = TRUE] \in PostRow
                           /\ [x EXCEPT !.deleted = TRUE].author = x.author
    BY DEF PostRow
  <1>3. DOMAIN posts' = DOMAIN posts
    BY DEF SoftDelete
  <1>4. \A k \in DOMAIN posts : posts'[k] =
                IF k = id THEN [posts[k] EXCEPT !.deleted = TRUE] ELSE posts[k]
    BY DEF SoftDelete
  <1>5. posts' = [k \in DOMAIN posts |-> posts'[k]]
    BY DEF SoftDelete
  <1>6. \A k \in DOMAIN posts : posts'[k] \in PostRow /\ posts'[k].author = posts[k].author
    BY <1>1, <1>2, <1>4
  <1> QED
    BY <1>3, <1>5, <1>6

\* DELETE of an image marks its row, keeps its owner, and no other row changes.
LEMMA ImageDeleted ==
    ASSUME Types, NEW id, images' = SoftDelete(images, id)
    PROVE  /\ DOMAIN images' = DOMAIN images /\ images' \in [DOMAIN images -> ImageRow]
           /\ \A i \in DOMAIN images : images'[i].owner = images[i].owner
           /\ \A i \in DOMAIN images : i # id => images'[i] = images[i]
           /\ Live(images') = Live(images) \ {id}
  <1>1. \A p \in DOMAIN images : images[p] \in ImageRow
    BY DEF Types
  <1>2. \A x \in ImageRow : [x EXCEPT !.deleted = TRUE] \in ImageRow
                           /\ [x EXCEPT !.deleted = TRUE].owner = x.owner
                           /\ [x EXCEPT !.deleted = TRUE].deleted = TRUE
    BY DEF ImageRow
  <1>3. DOMAIN images' = DOMAIN images
    BY DEF SoftDelete
  <1>4. \A k \in DOMAIN images : images'[k] =
                IF k = id THEN [images[k] EXCEPT !.deleted = TRUE] ELSE images[k]
    BY DEF SoftDelete
  <1>5. images' = [k \in DOMAIN images |-> images'[k]]
    BY DEF SoftDelete
  <1>6. \A k \in DOMAIN images : images'[k] \in ImageRow /\ images'[k].owner = images[k].owner
    BY <1>1, <1>2, <1>4
  <1>7. Live(images') = Live(images) \ {id}
    BY <1>1, <1>2, <1>3, <1>4 DEF Live
  <1> QED
    BY <1>3, <1>4, <1>5, <1>6, <1>7

\* INSERT of a post adds its row and changes no other.
LEMMA PostInserted ==
    ASSUME Types, NEW id \in 1..ulid, NEW u \in Users, NEW parent \in Nat,
           posts' = PostCreate(posts, id, u, parent)
    PROVE  /\ DOMAIN posts' = DOMAIN posts \cup {id}
           /\ posts' \in [DOMAIN posts' -> PostRow]
           /\ \A p \in DOMAIN posts : posts'[p] = posts[p]
           /\ id \notin DOMAIN posts => posts'[id].author = u
  <1> DEFINE row == [author |-> u, parent |-> parent, likes |-> 0, replies |-> 0,
                     deleted |-> FALSE]
  <1>1. row \in PostRow /\ row.author = u
    BY DEF PostRow
  <1>2. posts' = Inserted(posts, id, row)
    BY DEF PostCreate
  <1> HIDE DEF row
  <1>3. \A p \in DOMAIN posts : posts[p] \in PostRow
    BY DEF Types
  <1> QED
    BY <1>1, <1>2, <1>3 DEF Inserted

\* INSERT of an image adds its live row and changes no other.
LEMMA ImageInserted ==
    ASSUME Types, NEW id \in 1..ulid, NEW u \in Users,
           images' = ImageCreate(images, id, u, Null)
    PROVE  /\ DOMAIN images' = DOMAIN images \cup {id}
           /\ images' \in [DOMAIN images' -> ImageRow]
           /\ \A i \in DOMAIN images : images'[i] = images[i]
           /\ id \notin DOMAIN images => Live(images') = Live(images) \cup {id}
  <1> DEFINE row == [owner |-> u, createdAt |-> Null, deleted |-> FALSE]
  <1>1. row \in ImageRow /\ row.owner = u /\ row.deleted = FALSE
    BY DEF ImageRow, Null
  <1>2. images' = Inserted(images, id, row)
    BY DEF ImageCreate
  <1> HIDE DEF row
  <1>3. \A i \in DOMAIN images : images[i] \in ImageRow
    BY DEF Types
  <1>4. /\ DOMAIN images' = DOMAIN images \cup {id}
        /\ images' \in [DOMAIN images' -> ImageRow]
        /\ \A i \in DOMAIN images : images'[i] = images[i]
        /\ id \notin DOMAIN images => images'[id] = row
    BY <1>1, <1>2, <1>3 DEF Inserted
  <1>5. id \notin DOMAIN images => Live(images') = Live(images) \cup {id}
    BY <1>1, <1>4 DEF Live
  <1> QED
    BY <1>4, <1>5

-----------------------------------------------------------------------------
(* Types *)

\* The rows a page of a scroll is taken from.
Selected(q) ==
    CASE q.op = "home"    -> {p \in Live(posts) : /\ posts[p].parent = Null
                                                  /\ posts[p].author \in q.authors}
      [] q.op = "user"    -> {p \in Live(posts) : /\ posts[p].parent = Null
                                                  /\ q.target = Null \/ posts[p].author = q.target}
      [] q.op = "global"  -> {p \in Live(posts) : /\ posts[p].parent = Null
                                                  /\ Null = Null \/ posts[p].author = Null}
      [] q.op = "replies" -> {p \in Live(posts) : posts[p].parent = q.target}

\* NormalizeLimit returns a positive number, whatever the limit parameter.
LEMMA LimitNormal ==
    ASSUME NEW raw \in RawLimits
    PROVE  NormalizeLimit(raw) \in Nat /\ NormalizeLimit(raw) > 0
  BY FeedAssumption DEF NormalizeLimit

\* A sequence of some numbers is a sequence of numbers.
LEMMA SeqOfNat ==
    ASSUME NEW S \in SUBSET Nat, NEW s \in Seq(S)
    PROVE  s \in Seq(Nat)
  <1>1. Len(s) \in Nat /\ s \in [1..Len(s) -> S]
    BY LenProperties
  <1>2. s \in [1..Len(s) -> Nat]
    BY <1>1
  <1> QED
    BY <1>1, <1>2

\* The page of any scroll is a sound page of the rows it is taken from.
LEMMA PageRead ==
    ASSUME Types, NEW r \in Requests, req[r].pc = "page", NEW raw \in RawLimits
    PROVE  LET pg == PageOf(req[r], NormalizeLimit(raw))
           IN  /\ pg \in Seq(Nat) \X Nat
               /\ Selected(req[r]) \subseteq DOMAIN posts
               /\ PageSound(pg, Older(Selected(req[r]), req[r].cursor))
  <1> DEFINE q == req[r]
             limit == NormalizeLimit(raw)
             rows == Selected(q)
             pg == PageOf(q, limit)
             older == Older(rows, q.cursor)
  <1>1. q.op \in Scrolls /\ q.cursor \in Nat
    BY DEF Types, Staged, Request
  <1>2. rows \subseteq DOMAIN posts
    BY <1>1 DEF Selected, Scrolls, Live
  <1>3. rows \in SUBSET Ids /\ IsFiniteSet(rows)
    <2>1. ulid \in Nat /\ rows \subseteq 1..ulid
      BY <1>2 DEF Types
    <2>2. IsFiniteSet(1..ulid)
      BY <2>1, FS_Interval
    <2>3. IsFiniteSet(rows)
      <3> HIDE DEF rows
      <3> QED
        BY <2>1, <2>2, FS_Subset
    <2>4. 1..ulid \subseteq Ids
      BY <2>1 DEF Ids, Null
    <2> QED
      BY <2>1, <2>3, <2>4
  <1>4. pg = PostPage(rows, q.cursor, limit)
    BY <1>1 DEF PageOf, Selected, Scrolls, PostList, PostListByUserIDs, PostListReplies
  <1>5. limit \in Nat /\ limit > 0
    BY LimitNormal
  <1> HIDE DEF rows, limit, pg, q
  <1>6. PageSound(pg, older)
    BY <1>1, <1>3, <1>4, <1>5, PostPageSound
  <1>7. pg = <<pg[1], pg[2]>>
    BY <1>4 DEF PostPage
  <1>8. older \subseteq Nat
    BY <1>3 DEF Older, Ids
  <1>9. pg[1] \in Seq(Nat) /\ pg[2] \in Nat
    <2>1. pg[1] \in Seq(older) /\ pg[2] \in older \cup {Null}
      BY <1>6 DEF PageSound
    <2> HIDE DEF older
    <2>2. Null \in Nat
      BY DEF Null
    <2>3. pg[2] \in Nat
      BY <1>8, <2>1, <2>2
    <2>4. pg[1] \in Seq(Nat)
      BY <1>8, <2>1, SeqOfNat
    <2> QED
      BY <2>3, <2>4
  <1>10. pg \in Seq(Nat) \X Nat
    BY <1>7, <1>9
  <1> QED
    BY <1>2, <1>6, <1>10 DEF rows, limit, pg, q

\* Arrivals keep the types; a scroll that arrives has shown nothing.
LEMMA ArrivalTyped ==
    ASSUME Types, NEW r \in Requests,
           ArriveImage(r) \/ ArrivePost(r) \/ ArriveFollow(r) \/ ArriveTimeline(r)
           \/ ArriveReplies(r)
    PROVE  TypedStep(r) /\ ScrollFree(r)
  <1>0. Users \subseteq Nat /\ Null \in Nat /\ <<>> \in Seq(Nat) /\ Null \in Users \cup {Null}
    BY FeedAssumption DEF Null
  <1>1. ASSUME NEW op \in Ops, NEW pc \in Pcs, NEW user \in Users \cup {Null}, NEW target \in Nat,
               NEW imgs \in Seq(Nat), Arrive(r, op, pc, user, target, imgs),
               \/ op = "upload" /\ pc = "put" /\ user \in Users
               \/ op = "deleteImage" /\ pc = "load"
               \/ op = "create" /\ pc = "parent" /\ user \in Users
               \/ op = "deletePost" /\ pc = "load"
               \/ op \in {"follow", "unfollow"} /\ pc = "write" /\ user \in Users /\ target \in Users
               \/ op = "home" /\ pc = "followees"
               \/ op \in {"user", "global", "replies"} /\ pc = "page"
        PROVE  TypedStep(r) /\ ScrollFree(r)
    <2>1. /\ Turn(r) /\ req'[r].pc = pc /\ req'[r].op = op /\ req'[r].user = user
          /\ req'[r].target = target /\ req'[r].cursor = Null /\ req'[r].shown = <<>> /\ req[r].pc = "idle"
          /\ UNCHANGED <<posts, postImages, images, follows, bucket, ulid, trail, faults>>
      BY <1>1, ArriveTurn
    <2>2. Staged(req'[r]) /\ Numbered(req'[r], ulid')
      BY <1>1, <2>1 DEF Staged, Numbered, Scrolls
    <2>3. ulid' \in Nat /\ ulid <= ulid' /\ DOMAIN follows' \subseteq Users \X Users
      BY <2>1 DEF Types
    <2>4. req[r].shown = <<>>
      BY <2>1 DEF Types, Staged
    <2>5. ScrollFree(r)
      BY <1>1, <2>1, <2>4 DEF ScrollFree, Scrolls
    <2>6. UNCHANGED <<posts, images>>
      BY <2>1
    <2> QED
      BY <2>1, <2>2, <2>3, <2>5, <2>6, TypesQuiet
  <1>2. DOMAIN posts \subseteq Nat /\ DOMAIN images \subseteq Nat
    BY DEF Types
  <1>3. CASE ArriveImage(r)
    BY <1>0, <1>1, <1>2, <1>3 DEF ArriveImage, ArriveUpload, ArriveDelete, Ops, Pcs
  <1>4. CASE ArrivePost(r)
    <2>1. ImageLists \subseteq Seq(Nat)
      BY FeedAssumption
    <2> QED
      BY <1>0, <1>1, <1>2, <1>4, <2>1 DEF ArrivePost, Ops, Pcs
  <1>5. CASE ArriveFollow(r)
    BY <1>0, <1>1, <1>2, <1>5 DEF ArriveFollow, Ops, Pcs
  <1>6. CASE ArriveTimeline(r)
    BY <1>0, <1>1, <1>2, <1>6 DEF ArriveTimeline, Ops, Pcs, Scrolls
  <1>7. CASE ArriveReplies(r)
    BY <1>0, <1>1, <1>2, <1>7 DEF ArriveReplies, Ops, Pcs, Scrolls
  <1> QED
    BY <1>3, <1>4, <1>5, <1>6, <1>7

\* The steps of a scroll keep the types and what was asked.
LEMMA ScrollTyped ==
    ASSUME Types, NEW r \in Requests, Scroll(r)
    PROVE  TypedStep(r) /\ Asked(req'[r], req[r])
  <1>0. /\ UNCHANGED <<posts, images, ulid, follows, postImages, bucket, trail>>
        /\ req[r].op \in Scrolls /\ ulid \in Nat
        /\ DOMAIN follows' \subseteq Users \X Users
    BY DEF Types, Scroll, ReadFollowees, ReadPage, Deliver, Retry, tables, Staged, Scrolls
  <1>1. ASSUME Turn(r), Asked(req'[r], req[r]),
               req'[r].pc \in {"followees", "page", "deliver", "done"},
               req'[r].pc = "followees" => req[r].op = "home"
        PROVE  TypedStep(r) /\ Asked(req'[r], req[r])
    <2>1. Staged(req'[r]) /\ Numbered(req'[r], ulid')
      BY <1>0, <1>1 DEF Staged, Numbered, Asked
    <2>2. ulid' \in Nat /\ ulid <= ulid' /\ UNCHANGED <<posts, images>>
      BY <1>0
    <2> QED
      BY <1>0, <1>1, <2>1, <2>2, TypesQuiet
  <1>2. AskAgain(req[r]) \in Pcs /\ AskAgain(req[r]) \in {"followees", "page"}
        /\ (AskAgain(req[r]) = "followees" => req[r].op = "home")
    BY DEF AskAgain, Pcs
  <1>3. CASE ReadFollowees(r)
    <2>1. req[r].op = "home"
      BY <1>3 DEF ReadFollowees, Types, Staged
    <2>2. Turn(r) /\ Asked(req'[r], req[r]) /\ req'[r].pc = "page"
      BY <1>3, FolloweesTurn
    <2> QED
      BY <1>1, <2>1, <2>2
  <1>4. CASE ReadPage(r)
    <2>1. PICK raw \in RawLimits :
            req' = [req EXCEPT ![r].pc = "deliver", ![r].page = PageOf(req[r], NormalizeLimit(raw))]
      BY <1>4 DEF ReadPage
    <2>2. PageOf(req[r], NormalizeLimit(raw)) \in Seq(Nat) \X Nat
      BY <1>4, PageRead DEF ReadPage
    <2>3. Turn(r) /\ Asked(req'[r], req[r]) /\ req'[r].pc = "deliver"
      BY <2>1, <2>2, PageTurn
    <2> QED
      BY <1>1, <2>3
  <1>5. CASE Deliver(r)
    <2>1. /\ Turn(r) /\ Asked(req'[r], req[r])
          /\ req'[r].pc = IF req[r].page[2] = Null THEN "done" ELSE AskAgain(req[r])
      BY <1>5, DeliverTurn
    <2> QED
      BY <1>1, <1>2, <2>1
  <1>6. CASE Retry(r)
    <2>1. Turn(r) /\ Asked(req'[r], req[r]) /\ req'[r].pc = AskAgain(req[r])
      BY <1>2, <1>6, GoTurn DEF Retry
    <2> QED
      BY <1>1, <1>2, <2>1
  <1> QED
    BY <1>3, <1>4, <1>5, <1>6 DEF Scroll

\* The steps of the other use cases.
Work(r) ==
    \/ PutObject(r) \/ InsertImage(r) \/ LoadImage(r) \/ DeleteObject(r)
    \/ DeleteObjectFails(r) \/ DeleteImageRow(r) \/ CheckParent(r) \/ CheckImage(r)
    \/ MakeUlid(r) \/ InsertPost(r) \/ LoadPost(r) \/ DeletePost(r) \/ WriteFollow(r)

\* Follow rows stay pairs of users.
LEMMA FollowTyped ==
    ASSUME Types, NEW r \in Requests, WriteFollow(r)
    PROVE  DOMAIN follows' \subseteq Users \X Users
  <1> DEFINE row == <<req[r].user, req[r].target>>
  <1>1. DOMAIN follows \subseteq Users \X Users
    BY DEF Types
  <1>2. CASE req[r].op = "follow"
    <2>1. DOMAIN follows' = DOMAIN follows \cup {row}
      BY <1>2 DEF WriteFollow, FollowCreate, Inserted
    <2>2. row \in Users \X Users
      BY <1>2 DEF Types, Staged, WriteFollow
    <2> QED
      BY <1>1, <2>1, <2>2
  <1>3. CASE req[r].op # "follow"
    BY <1>1, <1>3 DEF WriteFollow, FollowDelete, Restrict
  <1> QED
    BY <1>2, <1>3

\* The steps of the other use cases keep the types and are no part of a scroll.
LEMMA WorkTyped ==
    ASSUME Types, NEW r \in Requests, Work(r)
    PROVE  TypedStep(r) /\ ScrollFree(r)
  <1>0. /\ Staged(req[r]) /\ Numbered(req[r], ulid) /\ ulid \in Nat
        /\ req[r].user \in Users \cup {Null} /\ req[r].target \in Nat
        /\ DOMAIN follows \subseteq Users \X Users
    BY DEF Types, Request
  <1>1. ASSUME Turn(r), Asked(req'[r], req[r]), req'[r].shown = req[r].shown,
               req[r].op \notin Scrolls, UNCHANGED <<posts, images>>,
               ulid' \in Nat, ulid <= ulid', DOMAIN follows' \subseteq Users \X Users,
               Staged(req'[r]), Numbered(req'[r], ulid')
        PROVE  TypedStep(r) /\ ScrollFree(r)
    <2>1. req'[r].op \notin Scrolls /\ req'[r].pc \notin {"followees", "page", "deliver"}
      BY <1>1 DEF Asked, Staged, Scrolls
    <2>2. ScrollFree(r)
      BY <1>1, <2>1 DEF ScrollFree
    <2> QED
      BY <1>1, <2>2, TypesQuiet
  <1>2. ASSUME NEW pc \in Pcs, Go(r, pc), req[r].op \notin Scrolls, UNCHANGED <<posts, images>>,
               ulid' = ulid, DOMAIN follows' \subseteq Users \X Users,
               \/ pc = "done"
               \/ pc = "images" /\ req[r].pc = "parent"
               \/ pc \in {"deleteObject", "deleteImage"} /\ req[r].op = "deleteImage"
               \/ pc = "deletePost" /\ req[r].op = "deletePost"
        PROVE  TypedStep(r) /\ ScrollFree(r)
    <2>1. Turn(r) /\ req'[r].pc = pc /\ Asked(req'[r], req[r]) /\ req'[r].shown = req[r].shown
      BY <1>2, GoTurn DEF Scrolled
    <2>2. Staged(req'[r]) /\ Numbered(req'[r], ulid')
      BY <1>0, <1>2, <2>1 DEF Staged, Numbered, Asked
    <2> QED
      BY <1>0, <1>1, <1>2, <2>1, <2>2
  <1>3. CASE PutObject(r) \/ MakeUlid(r)
    <2> DEFINE pc == IF PutObject(r) THEN "insertImage" ELSE "insertPost"
    <2>1. /\ req[r].pc = IF PutObject(r) THEN "put" ELSE "images"
          /\ ulid' = ulid + 1 /\ req' = [req EXCEPT ![r].pc = pc, ![r].id = ulid']
          /\ UNCHANGED <<posts, images, follows>>
      BY <1>3 DEF PutObject, MakeUlid, NewUlid, tables
    <2>2. pc \in {"insertImage", "insertPost"} /\ pc \in Pcs
      BY DEF Pcs
    <2>3. ulid' \in Nat /\ ulid <= ulid' /\ ulid' \in 1..ulid'
      BY <1>0, <2>1
    <2>4. /\ Turn(r) /\ req'[r].pc = pc /\ Asked(req'[r], req[r]) /\ req'[r].id = ulid'
          /\ req'[r].shown = req[r].shown
      <3> HIDE DEF pc
      <3> QED
        BY <2>1, <2>2, <2>3, IdTurn DEF Scrolled
    <2>5. Staged(req'[r]) /\ req[r].op \notin Scrolls
      BY <1>0, <2>1, <2>4 DEF Staged, Asked, Scrolls
    <2>6. Numbered(req'[r], ulid')
      BY <2>3, <2>4 DEF Numbered
    <2> QED
      BY <1>0, <1>1, <2>1, <2>3, <2>4, <2>5, <2>6
  <1>4. CASE CheckImage(r)
    <2>1. /\ req[r].pc = "images" /\ req[r].rest # <<>> /\ req' = [req EXCEPT ![r].rest = Tail(@)]
          /\ UNCHANGED <<posts, images, follows, ulid>>
      BY <1>4 DEF CheckImage, tables
    <2>2. /\ Turn(r) /\ req'[r].pc = req[r].pc /\ Asked(req'[r], req[r])
          /\ req'[r].id = req[r].id /\ req'[r].shown = req[r].shown
      BY <2>1, RestTurn DEF Scrolled
    <2>3. Staged(req'[r]) /\ Numbered(req'[r], ulid') /\ req[r].op \notin Scrolls
      BY <1>0, <2>1, <2>2 DEF Staged, Numbered, Asked, Scrolls
    <2> QED
      BY <1>0, <1>1, <2>1, <2>2, <2>3
  <1>5. CASE LoadImage(r) \/ DeleteObject(r) \/ DeleteObjectFails(r) \/ CheckParent(r)
             \/ LoadPost(r)
    <2>1. /\ UNCHANGED <<posts, images, follows, ulid>>
          /\ req[r].op \in {"deleteImage", "create", "deletePost"}
      BY <1>0, <1>5 DEF LoadImage, DeleteObject, DeleteObjectFails, CheckParent, LoadPost,
                        tables, Staged
    <2>2. \/ Go(r, "deleteObject") /\ req[r].op = "deleteImage"
          \/ Go(r, "deleteImage") /\ req[r].op = "deleteImage"
          \/ Go(r, "images") /\ req[r].pc = "parent"
          \/ Go(r, "deletePost") /\ req[r].op = "deletePost"
      BY <1>0, <1>5 DEF LoadImage, DeleteObject, DeleteObjectFails, CheckParent, LoadPost, Staged
    <2>3. req[r].op \notin Scrolls
      BY <2>1 DEF Scrolls
    <2> QED
      BY <1>0, <1>2, <2>1, <2>2, <2>3 DEF Pcs
  <1>6. CASE WriteFollow(r)
    <2>1. /\ UNCHANGED <<posts, images, ulid>> /\ Go(r, "done")
          /\ req[r].op \in {"follow", "unfollow"}
      BY <1>0, <1>6 DEF WriteFollow, Staged
    <2>2. DOMAIN follows' \subseteq Users \X Users
      BY <1>0, <1>6, FollowTyped
    <2> QED
      BY <1>0, <1>2, <2>1, <2>2 DEF Pcs, Scrolls
  <1>7. CASE InsertImage(r) \/ DeleteImageRow(r) \/ InsertPost(r) \/ DeletePost(r)
    <2>1. /\ UNCHANGED <<follows, ulid>> /\ Go(r, "done") /\ req[r].op \notin Scrolls
      BY <1>0, <1>7 DEF InsertImage, DeleteImageRow, InsertPost, DeletePost, Staged, Scrolls
    <2>2. /\ TablesGrow
          /\ posts' \in [DOMAIN posts' -> PostRow] /\ DOMAIN posts' \subseteq 1..ulid
          /\ images' \in [DOMAIN images' -> ImageRow] /\ DOMAIN images' \subseteq 1..ulid
      <3>1. /\ posts \in [DOMAIN posts -> PostRow] /\ DOMAIN posts \subseteq 1..ulid
            /\ images \in [DOMAIN images -> ImageRow] /\ DOMAIN images \subseteq 1..ulid
        BY DEF Types
      <3>2. CASE InsertImage(r)
        <4>1. /\ images' = ImageCreate(images, req[r].id, req[r].user, Null) /\ posts' = posts
              /\ req[r].id \in 1..ulid /\ req[r].user \in Users
          BY <1>0, <3>2 DEF InsertImage, Staged, Numbered
        <4>2. /\ DOMAIN images' = DOMAIN images \cup {req[r].id}
              /\ images' \in [DOMAIN images' -> ImageRow]
              /\ \A i \in DOMAIN images : images'[i] = images[i]
          BY <4>1, ImageInserted
        <4> QED
          BY <1>0, <2>1, <3>1, <4>1, <4>2 DEF TablesGrow
      <3>3. CASE DeleteImageRow(r)
        <4>1. images' = SoftDelete(images, req[r].target) /\ posts' = posts
          BY <3>3 DEF DeleteImageRow
        <4> QED
          BY <1>0, <2>1, <3>1, <4>1, ImageDeleted DEF TablesGrow
      <3>4. CASE InsertPost(r)
        <4>1. /\ posts' = PostCreate(posts, req[r].id, req[r].user, req[r].target)
              /\ images' = images
              /\ req[r].id \in 1..ulid /\ req[r].user \in Users
          BY <1>0, <3>4 DEF InsertPost, Staged, Numbered
        <4>2. /\ DOMAIN posts' = DOMAIN posts \cup {req[r].id}
              /\ posts' \in [DOMAIN posts' -> PostRow]
              /\ \A p \in DOMAIN posts : posts'[p] = posts[p]
          BY <1>0, <4>1, PostInserted
        <4> QED
          BY <1>0, <2>1, <3>1, <4>1, <4>2 DEF TablesGrow
      <3>5. CASE DeletePost(r)
        <4>1. posts' = SoftDelete(posts, req[r].target) /\ images' = images
          BY <3>5 DEF DeletePost
        <4> QED
          BY <1>0, <2>1, <3>1, <4>1, PostDeleted DEF TablesGrow
      <3> QED
        BY <1>7, <3>2, <3>3, <3>4, <3>5
    <2>3. Turn(r) /\ req'[r].pc = "done" /\ Asked(req'[r], req[r]) /\ req'[r].shown = req[r].shown
      BY <2>1, GoTurn DEF Scrolled, Pcs
    <2>4. Staged(req'[r]) /\ Numbered(req'[r], ulid')
      BY <1>0, <2>1, <2>3 DEF Staged, Numbered, Asked
    <2>5. ScrollFree(r)
      BY <2>1, <2>3 DEF ScrollFree, Asked
    <2>6. TypedStep(r)
      BY <1>0, <2>1, <2>2, <2>3, <2>4, TypesKept
    <2> QED
      BY <2>5, <2>6
  <1> QED
    BY <1>3, <1>4, <1>5, <1>6, <1>7 DEF Work

-----------------------------------------------------------------------------
(* Scrolls *)

Running == {"followees", "page", "deliver"}

\* Where a scroll stands: of the posts m it is to show, those that are not shown
\* yet are older than its cursor, or on the page in flight, or older than the
\* cursor that comes with it; and what is still to come is older than all that was
\* shown.
Reached(q, m) ==
    /\ Falling(q.shown)
    /\ q.pc \in Running =>
         /\ q.cursor = Null => q.shown = <<>>
         /\ q.cursor # Null => \A p \in ToSet(q.shown) : p >= q.cursor
         /\ \A p \in m : p \in ToSet(q.shown) \/ q.cursor = Null \/ p < q.cursor
    /\ q.pc = "deliver" =>
         /\ Falling(q.page[1])
         /\ \A p \in ToSet(q.page[1]) : q.cursor = Null \/ p < q.cursor
         /\ q.page[2] # Null =>
              q.page[2] \in ToSet(q.page[1]) /\ \A p \in ToSet(q.page[1]) : p >= q.page[2]
         /\ \A p \in m : \/ p \in ToSet(q.shown) \/ p \in ToSet(q.page[1])
                         \/ q.page[2] # Null /\ p < q.page[2]
    /\ q.op \in Scrolls /\ q.pc = "done" => m \subseteq ToSet(q.shown)

\* The authors read for the next page of the home timeline still cover what the
\* scroll is to show: who is unfollowed after they were read is no longer wanted.
By(q, m) == q.op = "home" /\ q.pc = "page" => \A p \in m : posts[p].author \in q.authors

ScrollInv ==
    \A r \in Requests :
        /\ must[r] \subseteq Wanted(req[r])
        /\ Reached(req[r], must[r])
        /\ By(req[r], must[r])

\* Fewer posts to show are shown as well.
LEMMA ReachedLess ==
    ASSUME NEW q, NEW m, NEW n \in SUBSET m, Reached(q, m)
    PROVE  Reached(q, n)
  BY DEF Reached

\* A page appended to what was shown shows the posts of both.
LEMMA ConcatSet ==
    ASSUME NEW s \in Seq(Nat), NEW t \in Seq(Nat)
    PROVE  /\ ToSet(s \o t) = ToSet(s) \cup ToSet(t)
           /\ ToSet(s) \subseteq Nat /\ ToSet(t) \subseteq Nat
  <1> DEFINE c == s \o t
  <1>1. /\ c \in Seq(Nat) /\ Len(c) = Len(s) + Len(t)
        /\ \A i \in 1..(Len(s) + Len(t)) : c[i] = IF i <= Len(s) THEN s[i] ELSE t[i - Len(s)]
    BY ConcatProperties
  <1>2. /\ Len(s) \in Nat /\ DOMAIN s = 1..Len(s) /\ Len(t) \in Nat /\ DOMAIN t = 1..Len(t)
        /\ DOMAIN c = 1..(Len(s) + Len(t))
    BY <1>1, LenProperties
  <1> HIDE DEF c
  <1>3. ToSet(c) \subseteq ToSet(s) \cup ToSet(t)
    <2> SUFFICES ASSUME NEW i \in 1..(Len(s) + Len(t))
                 PROVE  c[i] \in ToSet(s) \cup ToSet(t)
      BY <1>2 DEF ToSet
    <2>1. CASE i <= Len(s)
      <3>1. i \in DOMAIN s /\ c[i] = s[i]
        BY <1>1, <1>2, <2>1
      <3> QED
        BY <3>1 DEF ToSet
    <2>2. CASE i > Len(s)
      <3>1. i - Len(s) \in 1..Len(t) /\ c[i] = t[i - Len(s)]
        BY <1>1, <1>2, <2>2
      <3> QED
        BY <1>2, <3>1 DEF ToSet
    <2> QED
      BY <1>2, <2>1, <2>2
  <1>4. ToSet(s) \subseteq ToSet(c)
    <2> SUFFICES ASSUME NEW i \in 1..Len(s) PROVE s[i] \in ToSet(c)
      BY <1>2 DEF ToSet
    <2>1. i \in 1..(Len(s) + Len(t)) /\ c[i] = s[i]
      BY <1>1, <1>2
    <2> QED
      BY <1>2, <2>1 DEF ToSet
  <1>5. ToSet(t) \subseteq ToSet(c)
    <2> SUFFICES ASSUME NEW i \in 1..Len(t) PROVE t[i] \in ToSet(c)
      BY <1>2 DEF ToSet
    <2> DEFINE k == i + Len(s)
    <2>1. k \in 1..(Len(s) + Len(t)) /\ ~(k <= Len(s)) /\ k - Len(s) = i
      BY <1>2
    <2>2. c[k] = t[i]
      BY <1>1, <2>1
    <2> QED
      BY <1>2, <2>1, <2>2 DEF ToSet
  <1>6. ToSet(s) \subseteq Nat /\ ToSet(t) \subseteq Nat
    BY DEF ToSet
  <1> QED
    BY <1>3, <1>4, <1>5, <1>6 DEF c

\* Falling ids followed by falling ids below them all fall.
LEMMA ConcatFalling ==
    ASSUME NEW s \in Seq(Nat), NEW t \in Seq(Nat), Falling(s), Falling(t),
           \A a \in ToSet(s) : \A b \in ToSet(t) : a > b
    PROVE  Falling(s \o t)
  <1> DEFINE c == s \o t
  <1>1. /\ c \in Seq(Nat) /\ Len(c) = Len(s) + Len(t)
        /\ \A i \in 1..(Len(s) + Len(t)) : c[i] = IF i <= Len(s) THEN s[i] ELSE t[i - Len(s)]
    BY ConcatProperties
  <1>2. /\ Len(s) \in Nat /\ DOMAIN s = 1..Len(s) /\ Len(t) \in Nat /\ DOMAIN t = 1..Len(t)
        /\ DOMAIN c = 1..(Len(s) + Len(t))
    BY <1>1, LenProperties
  <1> HIDE DEF c
  <1>3. ASSUME NEW i \in 1..(Len(s) + Len(t)), NEW j \in 1..(Len(s) + Len(t)), i < j
        PROVE  c[i] > c[j]
    <2>1. CASE j <= Len(s)
      <3>1. i \in DOMAIN s /\ j \in DOMAIN s /\ c[i] = s[i] /\ c[j] = s[j]
        BY <1>1, <1>2, <1>3, <2>1
      <3> QED
        BY <1>3, <3>1 DEF Falling
    <2>2. CASE i <= Len(s) /\ j > Len(s)
      <3>1. i \in DOMAIN s /\ j - Len(s) \in DOMAIN t /\ c[i] = s[i] /\ c[j] = t[j - Len(s)]
        BY <1>1, <1>2, <2>2
      <3>2. c[i] \in ToSet(s) /\ c[j] \in ToSet(t)
        BY <3>1 DEF ToSet
      <3> QED
        BY <3>2
    <2>3. CASE i > Len(s)
      <3> DEFINE a == i - Len(s)
                 b == j - Len(s)
      <3>1. a \in DOMAIN t /\ b \in DOMAIN t /\ a < b /\ c[i] = t[a] /\ c[j] = t[b]
        BY <1>1, <1>2, <1>3, <2>3
      <3> QED
        BY <3>1 DEF Falling
    <2> QED
      BY <1>2, <2>1, <2>2, <2>3
  <1> QED
    BY <1>2, <1>3 DEF Falling, c

\* A page that arrives takes the scroll on.
LEMMA DeliverReached ==
    ASSUME NEW q \in Request, NEW p \in Request, NEW m, NEW n \in SUBSET m,
           q.pc = "deliver", Reached(q, m), q.op \in Scrolls, m \subseteq Nat,
           p.op = q.op, p.cursor = q.page[2], p.shown = q.shown \o q.page[1],
           p.pc = IF q.page[2] = Null THEN "done" ELSE AskAgain(q)
    PROVE  Reached(p, n) /\ By(p, n)
  <1> DEFINE s == q.shown
             t == q.page[1]
             e == q.page[2]
  <1>1. s \in Seq(Nat) /\ q.cursor \in Nat /\ q.page \in Seq(Nat) \X Nat
    BY DEF Request
  <1>2. t \in Seq(Nat) /\ e \in Nat
    BY <1>1
  <1>3. /\ Falling(s) /\ Falling(t)
        /\ q.cursor = Null => s = <<>>
        /\ q.cursor # Null => \A x \in ToSet(s) : x >= q.cursor
        /\ \A x \in ToSet(t) : q.cursor = Null \/ x < q.cursor
        /\ e # Null => e \in ToSet(t) /\ \A x \in ToSet(t) : x >= e
        /\ \A x \in m : \/ x \in ToSet(s) \/ x \in ToSet(t)
                        \/ e # Null /\ x < e
    BY DEF Reached, Running
  <1>a. p.pc \in {"done", "followees", "page"}
    BY DEF AskAgain
  <1>b. p.op = "home" => p.pc # "page"
    BY DEF AskAgain
  <1>c. p.shown = s \o t /\ p.cursor = e /\ (p.pc = "done" => e = Null)
    BY DEF AskAgain
  <1> HIDE DEF s, t, e
  <1>4. ToSet(s \o t) = ToSet(s) \cup ToSet(t) /\ ToSet(s) \subseteq Nat /\ ToSet(t) \subseteq Nat
    BY <1>1, <1>2, ConcatSet
  <1>5. \A a \in ToSet(s) : \A b \in ToSet(t) : a > b
    <2>1. CASE q.cursor = Null
      BY <1>3, <2>1 DEF ToSet
    <2>2. CASE q.cursor # Null
      BY <1>1, <1>3, <1>4, <2>2
    <2> QED
      BY <2>1, <2>2
  <1>6. Falling(s \o t)
    BY <1>1, <1>2, <1>3, <1>5, ConcatFalling
  <1>7. e # Null => \A x \in ToSet(s \o t) : x >= e
    BY <1>2, <1>3, <1>4, <1>5
  <1>8. \A x \in n : x \in ToSet(s \o t) \/ (e # Null /\ x < e)
    BY <1>3, <1>4
  <1>9. e = Null => n \subseteq ToSet(s \o t)
    BY <1>8
  <1>10. p.pc # "done" => e # Null
    BY DEF AskAgain, e
  <1>11. Reached(p, n)
    BY <1>6, <1>7, <1>8, <1>9, <1>10, <1>a, <1>c DEF Reached, Running
  <1> QED
    BY <1>11, <1>b DEF By

\* How Next keeps the record of what each scroll is to show.
MustStep ==
    must' = [r \in Requests |->
               IF req[r].pc = "idle" THEN Wanted(req[r])' ELSE must[r] \cap Wanted(req[r])']

\* What a scroll is to show are posts.
LEMMA WantedPosts ==
    ASSUME NEW q
    PROVE  Wanted(q) \subseteq DOMAIN posts
  BY DEF Wanted, Live

\* A step of a scroll keeps its place: what it is to show is shown, or older
\* than its cursor.
LEMMA ScrollReached ==
    ASSUME Types, ScrollInv, NEW r \in Requests, Scroll(r), NEW n \in SUBSET must[r],
           n \subseteq Wanted(req[r])', TypedStep(r), Asked(req'[r], req[r])
    PROVE  Reached(req'[r], n) /\ By(req[r], n)'
  <1> DEFINE q == req[r]
             m == must[r]
  <1>1. q \in Request /\ Staged(q) /\ Reached(q, m) /\ By(q, m) /\ m \subseteq Wanted(q)
    BY DEF Types, ScrollInv
  <1>2. req'[r] \in Request /\ req'[r].op = q.op /\ req'[r].user = q.user
    BY DEF TypedStep, Turn, Asked
  <1>3. m \subseteq DOMAIN posts /\ m \subseteq Nat
    BY <1>1, WantedPosts DEF Types
  <1>4. UNCHANGED <<posts, follows>>
    BY DEF Scroll, ReadFollowees, ReadPage, Deliver, Retry, tables
  <1>5. CASE ReadFollowees(r)
    <2>1. /\ req'[r].pc = "page" /\ q.pc = "followees"
          /\ req'[r].authors = FollowingSubs(follows, q.user) \cup {q.user}
          /\ req'[r].cursor = q.cursor /\ req'[r].shown = q.shown
      BY <1>5, FolloweesTurn DEF ReadFollowees
    <2>2. Reached(req'[r], n)
      BY <1>1, <2>1 DEF Reached, Running
    <2>3. q.op = "home"
      BY <1>1, <2>1 DEF Staged
    <2>4. \A p \in n : posts'[p].author \in FollowingSubs(follows', req'[r].user) \cup {req'[r].user}
      BY <1>2, <2>3 DEF Wanted
    <2>5. By(req[r], n)'
      BY <1>2, <1>4, <2>1, <2>4 DEF By
    <2> QED
      BY <2>2, <2>5
  <1>6. CASE ReadPage(r)
    <2>0. q.pc = "page" /\ q.op \in Scrolls /\ q.cursor \in Nat
      BY <1>1, <1>6 DEF ReadPage, Staged, Request
    <2>1. PICK raw \in RawLimits :
            req' = [req EXCEPT ![r].pc = "deliver", ![r].page = PageOf(req[r], NormalizeLimit(raw))]
      BY <1>6 DEF ReadPage
    <2> DEFINE pg == PageOf(req[r], NormalizeLimit(raw))
               older == Older(Selected(q), q.cursor)
    <2>2. pg \in Seq(Nat) \X Nat /\ PageSound(pg, older)
      BY <2>0, PageRead
    <2>3. /\ req'[r].pc = "deliver" /\ req'[r].page = pg
          /\ req'[r].cursor = q.cursor /\ req'[r].shown = q.shown
      BY <2>1, <2>2, PageTurn
    <2>4. m \subseteq Selected(q)
      BY <1>1, <2>0 DEF Wanted, Selected, By, Scrolls
    <2>5. \A p \in n : p \in ToSet(q.shown) \/ p \in older
      BY <1>1, <2>0, <2>4 DEF Reached, Running, Older
    <2> HIDE DEF pg
    <2>6. ToSet(pg[1]) \subseteq older
      BY <2>2 DEF PageSound, ToSet
    <2>7. \A p \in ToSet(pg[1]) : q.cursor = Null \/ p < q.cursor
      BY <2>6 DEF Older
    <2>8. /\ Falling(pg[1])
          /\ pg[2] # Null => pg[2] \in ToSet(pg[1]) /\ \A p \in ToSet(pg[1]) : p >= pg[2]
          /\ \A p \in older : p \in ToSet(pg[1]) \/ (pg[2] # Null /\ p < pg[2])
      BY <2>2 DEF PageSound
    <2>9. Reached(req'[r], n)
      <3>1. /\ Falling(q.shown) /\ (q.cursor = Null => q.shown = <<>>)
            /\ q.cursor # Null => \A p \in ToSet(q.shown) : p >= q.cursor
            /\ \A p \in n : p \in ToSet(q.shown) \/ q.cursor = Null \/ p < q.cursor
        BY <1>1, <2>0 DEF Reached, Running
      <3> HIDE DEF older, q
      <3> QED
        BY <2>3, <2>5, <2>7, <2>8, <3>1 DEF Reached, Running
    <2>10. By(req[r], n)'
      BY <2>3 DEF By
    <2> QED
      BY <2>9, <2>10
  <1>7. CASE Deliver(r)
    <2>1. /\ q.pc = "deliver" /\ q.op \in Scrolls
          /\ req'[r].pc = IF q.page[2] = Null THEN "done" ELSE AskAgain(q)
          /\ req'[r].cursor = q.page[2] /\ req'[r].shown = q.shown \o q.page[1]
      BY <1>1, <1>7, DeliverTurn DEF Deliver, Staged
    <2> DEFINE p == req'[r]
    <2>2. Reached(p, n) /\ By(p, n)
      <3> HIDE DEF p, q, m
      <3>1. p \in Request /\ p.op = q.op
        BY <1>2 DEF p
      <3>2. /\ p.pc = IF q.page[2] = Null THEN "done" ELSE AskAgain(q)
            /\ p.cursor = q.page[2] /\ p.shown = q.shown \o q.page[1]
        BY <2>1 DEF p
      <3>3. n \in SUBSET m
        BY DEF m
      <3> QED
        BY <1>1, <1>3, <2>1, <3>1, <3>2, <3>3, DeliverReached
    <2>3. By(req[r], n)'
      BY <1>4, <2>2 DEF By
    <2> QED
      BY <2>2, <2>3
  <1>8. CASE Retry(r)
    <2>1. AskAgain(q) \in Pcs
      BY DEF AskAgain, Pcs
    <2>2. /\ q.pc = "deliver" /\ req'[r].pc = AskAgain(q)
          /\ req'[r].cursor = q.cursor /\ req'[r].shown = q.shown
      BY <1>8, <2>1, GoTurn DEF Retry, Scrolled
    <2>3. req'[r].pc \in {"followees", "page"} /\ (q.op = "home" => req'[r].pc = "followees")
      BY <2>2 DEF AskAgain
    <2>4. Reached(req'[r], n)
      BY <1>1, <2>2, <2>3 DEF Reached, Running
    <2>5. By(req[r], n)'
      BY <1>2, <2>3 DEF By
    <2> QED
      BY <2>4, <2>5
  <1> QED
    BY <1>5, <1>6, <1>7, <1>8 DEF Scroll

\* Every step keeps every scroll, the ones it is no step of too.
LEMMA ScrollInvStep ==
    ASSUME Types, ScrollInv, NEW r \in Requests, TypedStep(r), MustStep,
           ScrollFree(r) \/ (Scroll(r) /\ Asked(req'[r], req[r]))
    PROVE  ScrollInv'
  <1>1. ASSUME NEW s \in Requests
        PROVE  /\ must'[s] \subseteq Wanted(req[s])'
               /\ req[s].pc # "idle" => must'[s] \subseteq must[s]
    BY DEF MustStep
  <1>2. ASSUME NEW s \in Requests, s # r
        PROVE  Reached(req[s], must[s])' /\ By(req[s], must[s])'
    <2>1. req'[s] = req[s] /\ Staged(req[s]) /\ TablesGrow
      BY <1>2 DEF TypedStep, Turn, Types
    <2>2. CASE req[s].pc = "idle"
      <3>1. req[s].op = "none" /\ req[s].shown = <<>>
        BY <2>1, <2>2 DEF Staged
      <3> QED
        BY <2>1, <2>2, <3>1 DEF Reached, By, Running, Falling, Scrolls
    <2>3. CASE req[s].pc # "idle"
      <3>1. Reached(req[s], must[s]) /\ By(req[s], must[s]) /\ must[s] \subseteq DOMAIN posts
        BY WantedPosts DEF ScrollInv
      <3>2. Reached(req[s], must'[s])
        BY <1>1, <2>3, <3>1, ReachedLess
      <3>3. Reached(req[s], must[s])'
        BY <2>1, <3>2 DEF Reached
      <3>4. By(req[s], must[s])'
        BY <1>1, <2>1, <2>3, <3>1 DEF By, TablesGrow
      <3> QED
        BY <3>3, <3>4
    <2> QED
      BY <2>2, <2>3
  <1>3. Reached(req[r], must[r])' /\ By(req[r], must[r])'
    <2>1. CASE Scroll(r) /\ Asked(req'[r], req[r])
      <3>1. req[r].pc # "idle"
        BY <2>1 DEF Scroll, ReadFollowees, ReadPage, Deliver, Retry
      <3>2. ASSUME NEW n, n = must'[r]
            PROVE  Reached(req'[r], n) /\ By(req[r], n)'
        <4>1. n \in SUBSET must[r] /\ n \subseteq Wanted(req[r])'
          BY <1>1, <3>1, <3>2
        <4> QED
          BY <2>1, <4>1, ScrollReached
      <3> QED
        BY <3>2 DEF Reached, By
    <2>2. CASE ScrollFree(r)
      <3>1. Falling(req'[r].shown)
        BY <2>2 DEF ScrollFree, ScrollInv, Reached, Falling
      <3>2. By(req[r], must[r])'
        BY <2>2 DEF ScrollFree, By, Scrolls
      <3>3. \/ req'[r].pc \in {"followees", "page"} /\ req'[r].cursor = Null /\ req'[r].shown = <<>>
            \/ req'[r].op \notin Scrolls /\ req'[r].pc \notin Running
        BY <2>2 DEF ScrollFree, Running
      <3>4. Reached(req[r], must[r])'
        BY <3>1, <3>3 DEF Reached, Running
      <3> QED
        BY <3>2, <3>4
    <2> QED
      BY <2>1, <2>2
  <1>4. ASSUME NEW s \in Requests
        PROVE  Reached(req[s], must[s])' /\ By(req[s], must[s])' /\ must'[s] \subseteq Wanted(req[s])'
    BY <1>1, <1>2, <1>3
  <1> QED
    BY <1>4 DEF ScrollInv

-----------------------------------------------------------------------------
(* Images *)

\* Images keep their rows, and their owners, when they are deleted.
Own(i, u) == i \in DOMAIN images /\ images[i].owner = u

\* The ULID of an upload or a post in flight is its own, and has no row yet.
Fresh(r) ==
    /\ req[r].pc = "insertImage" =>
         /\ req[r].id \in bucket /\ req[r].id \notin DOMAIN images
         /\ \A s \in Requests : s # r /\ req[s].pc = "insertImage" => req[s].id # req[r].id
    /\ req[r].pc = "insertPost" =>
         /\ req[r].id \notin DOMAIN posts
         /\ \A s \in Requests : s # r /\ req[s].pc = "insertPost" => req[s].id # req[r].id

\* Whoever got to the bucket with a deletion owns the image; the object is then
\* gone, or a WARN names it.
Deleting(r) ==
    /\ req[r].op = "deleteImage" => req[r].target \in DOMAIN images
    /\ req[r].pc \in {"deleteObject", "deleteImage"} => Own(req[r].target, req[r].user)
    /\ req[r].pc = "deleteImage" => req[r].target \notin bucket \/ req[r].target \in trail

\* The images of a post in flight are distinct, and the ones not still to be
\* checked belong to its author.
Attaching(r) ==
    /\ req[r].pc \in {"parent", "images", "insertPost"} =>
         /\ IsInjective(req[r].imgs)
         /\ \A i \in DOMAIN req[r].imgs :
              req[r].imgs[i] \in ToSet(req[r].rest) \/ Own(req[r].imgs[i], req[r].user)
    /\ req[r].pc = "insertPost" => req[r].rest = <<>>

\* post_images refers to rows that are there.
Links == \A l \in postImages : l[1] \in DOMAIN posts /\ l[2] \in DOMAIN images

ImageInv ==
    /\ \A r \in Requests : Fresh(r) /\ Deleting(r) /\ Attaching(r)
    /\ Links /\ LiveImageBacked /\ OrphanTraced /\ AttachedOwn

\* A step that leaves the images and the bucket alone.
LEMMA ImagesQuiet ==
    ASSUME Types, ImageInv, NEW r \in Requests, TypedStep(r),
           UNCHANGED <<images, bucket, trail, postImages>>, DOMAIN posts' = DOMAIN posts,
           req[r].pc \notin {"insertImage", "deleteImage", "done"},
           Fresh(r)', Deleting(r)', Attaching(r)'
    PROVE  ImageInv'
  <1>1. /\ \A s \in Requests : s # r => req'[s] = req[s]
        /\ \A p \in DOMAIN posts : posts'[p].author = posts[p].author
    BY DEF TypedStep, Turn, TablesGrow
  <1>2. ASSUME NEW s \in Requests, s # r
        PROVE  Fresh(s)' /\ Deleting(s)' /\ Attaching(s)'
    <2>1. req'[s] = req[s] /\ Fresh(s) /\ Deleting(s) /\ Attaching(s)
      BY <1>1, <1>2 DEF ImageInv
    <2>2. Fresh(s)'
      BY <1>1, <1>2, <2>1 DEF Fresh
    <2>3. Deleting(s)'
      BY <2>1 DEF Deleting, Own
    <2>4. Attaching(s)'
      BY <2>1 DEF Attaching, Own
    <2> QED
      BY <2>2, <2>3, <2>4
  <1>3. LiveImageBacked'
    <2> SUFFICES ASSUME NEW i \in Live(images) \ bucket
                 PROVE  \E s \in Requests : /\ req'[s].op = "deleteImage" /\ req'[s].target = i
                                            /\ req'[s].user = images[i].owner
                                            /\ req'[s].pc \in {"deleteImage", "done"}
      BY DEF LiveImageBacked, Live
    <2>1. PICK s \in Requests : /\ req[s].op = "deleteImage" /\ req[s].target = i
                                /\ req[s].user = images[i].owner
                                /\ req[s].pc \in {"deleteImage", "done"}
      BY DEF ImageInv, LiveImageBacked
    <2> QED
      BY <1>1, <2>1
  <1>4. OrphanTraced'
    <2> SUFFICES ASSUME NEW k \in bucket \ Live(images), k \notin trail
                 PROVE  \E s \in Requests : req'[s].pc = "insertImage" /\ req'[s].id = k
      BY DEF OrphanTraced, Live
    <2>1. PICK s \in Requests : req[s].pc = "insertImage" /\ req[s].id = k
      BY DEF ImageInv, OrphanTraced
    <2> QED
      BY <1>1, <2>1
  <1>5. AttachedOwn' /\ Links'
    BY <1>1 DEF ImageInv, AttachedOwn, Links
  <1> QED
    BY <1>2, <1>3, <1>4, <1>5 DEF ImageInv

\* Arrivals touch no image.
LEMMA ArrivalImages ==
    ASSUME Types, ImageInv, NEW r \in Requests,
           ArriveImage(r) \/ ArrivePost(r) \/ ArriveFollow(r) \/ ArriveTimeline(r)
           \/ ArriveReplies(r)
    PROVE  ImageInv'
  <1>0. Users \subseteq Nat /\ Null \in Nat /\ <<>> \in Seq(Nat) /\ Null \in Users \cup {Null}
    BY FeedAssumption DEF Null
  <1>t. TypedStep(r)
    BY ArrivalTyped
  <1>1. ASSUME NEW op \in Ops, NEW pc \in Pcs, NEW user \in Users \cup {Null}, NEW target \in Nat,
               NEW imgs \in Seq(Nat), Arrive(r, op, pc, user, target, imgs),
               op = "deleteImage" => target \in DOMAIN images, IsInjective(imgs),
               pc \in {"put", "load", "parent", "write", "followees", "page"}
        PROVE  ImageInv'
    <2>1. /\ Turn(r) /\ req'[r].pc = pc /\ req'[r].op = op /\ req'[r].user = user
          /\ req'[r].target = target /\ req'[r].imgs = imgs /\ req'[r].rest = imgs
          /\ req[r].pc = "idle"
          /\ UNCHANGED <<posts, postImages, images, follows, bucket, ulid, trail, faults>>
      BY <1>1, ArriveTurn
    <2>2. Fresh(r)'
      BY <1>1, <2>1 DEF Fresh
    <2>3. Deleting(r)'
      BY <1>1, <2>1 DEF Deleting
    <2>4. Attaching(r)'
      BY <1>1, <2>1 DEF Attaching, ToSet
    <2> QED
      BY <1>t, <2>1, <2>2, <2>3, <2>4, ImagesQuiet
  <1>2. DOMAIN posts \subseteq Nat /\ DOMAIN images \subseteq Nat
    BY DEF Types
  <1>e. IsInjective(<<>>)
    BY DEF IsInjective
  <1>3. CASE ArriveImage(r)
    BY <1>0, <1>1, <1>2, <1>3, <1>e DEF ArriveImage, ArriveUpload, ArriveDelete, Ops, Pcs
  <1>4. CASE ArrivePost(r)
    <2>1. ImageLists \subseteq Seq(Nat)
      BY FeedAssumption
    <2>2. CASE \E u \in Users : \E imgs \in ImageLists, parent \in DOMAIN posts \cup {Null} :
                 Valid(imgs) /\ Arrive(r, "create", "parent", u, parent, imgs)
      BY <1>0, <1>1, <1>2, <2>1, <2>2 DEF Ops, Pcs, Valid
    <2>3. CASE \E u \in Users : \E p \in DOMAIN posts : Arrive(r, "deletePost", "load", u, p, <<>>)
      BY <1>0, <1>1, <1>2, <1>e, <2>3 DEF Ops, Pcs
    <2> QED
      BY <1>4, <2>2, <2>3 DEF ArrivePost
  <1>5. CASE ArriveFollow(r)
    BY <1>0, <1>1, <1>2, <1>5, <1>e DEF ArriveFollow, Ops, Pcs
  <1>6. CASE ArriveTimeline(r)
    BY <1>0, <1>1, <1>2, <1>6, <1>e DEF ArriveTimeline, Ops, Pcs, Scrolls
  <1>7. CASE ArriveReplies(r)
    BY <1>0, <1>1, <1>2, <1>7, <1>e DEF ArriveReplies, Ops, Pcs, Scrolls
  <1> QED
    BY <1>3, <1>4, <1>5, <1>6, <1>7

\* Scrolls touch no image.
LEMMA ScrollImages ==
    ASSUME Types, ImageInv, NEW r \in Requests, Scroll(r)
    PROVE  ImageInv'
  <1>1. TypedStep(r) /\ Asked(req'[r], req[r])
    BY ScrollTyped
  <1>2. /\ UNCHANGED <<posts, images, bucket, trail, postImages>>
        /\ req[r].pc \in {"followees", "page", "deliver"} /\ req[r].op \in Scrolls
    BY DEF Types, Scroll, ReadFollowees, ReadPage, Deliver, Retry, tables, Staged, Scrolls
  <1>3. req'[r].op \in Scrolls /\ Staged(req'[r])
    BY <1>1, <1>2 DEF Asked, TypedStep, Types, Staged
  <1>4. Fresh(r)' /\ Deleting(r)' /\ Attaching(r)'
    BY <1>3 DEF Fresh, Deleting, Attaching, Staged, Scrolls
  <1> QED
    BY <1>1, <1>2, <1>4, ImagesQuiet

\* What is left of a list of images, its first one checked.
LEMMA TailRest ==
    ASSUME NEW s \in Seq(Nat), s # <<>>
    PROVE  \A x \in ToSet(s) : x = Head(s) \/ x \in ToSet(Tail(s))
  <1>1. /\ Tail(s) \in Seq(Nat) /\ Len(Tail(s)) = Len(s) - 1
        /\ \A i \in 1..Len(Tail(s)) : Tail(s)[i] = s[i + 1]
    BY HeadTailProperties
  <1>2. Len(s) \in Nat /\ DOMAIN s = 1..Len(s) /\ DOMAIN Tail(s) = 1..(Len(s) - 1)
    BY <1>1, LenProperties
  <1> SUFFICES ASSUME NEW i \in 1..Len(s)
               PROVE  s[i] = Head(s) \/ s[i] \in ToSet(Tail(s))
    BY <1>2 DEF ToSet
  <1>3. CASE i = 1
    BY <1>3
  <1>4. CASE i # 1
    <2>1. i - 1 \in 1..(Len(s) - 1) /\ Tail(s)[i - 1] = s[i]
      BY <1>1, <1>2, <1>4
    <2> QED
      BY <1>2, <2>1 DEF ToSet
  <1> QED
    BY <1>3, <1>4

\* The checks, and the steps of other use cases.
LEMMA CheckImages ==
    ASSUME Types, ImageInv, NEW r \in Requests,
           LoadImage(r) \/ CheckParent(r) \/ CheckImage(r) \/ MakeUlid(r)
           \/ LoadPost(r) \/ DeletePost(r) \/ WriteFollow(r)
    PROVE  ImageInv'
  <1>1. TypedStep(r)
    BY WorkTyped DEF Work
  <1>2. Staged(req[r]) /\ Fresh(r) /\ Deleting(r) /\ Attaching(r) /\ req[r] \in Request
    BY DEF Types, ImageInv
  <1>3. UNCHANGED <<images, bucket, trail, postImages>>
    BY DEF LoadImage, CheckParent, CheckImage, MakeUlid, LoadPost, DeletePost, WriteFollow, tables
  <1>4. DOMAIN posts' = DOMAIN posts
    BY DEF LoadImage, CheckParent, CheckImage, MakeUlid, LoadPost, DeletePost, WriteFollow,
           tables, SoftDelete
  <1>5. req[r].pc \notin {"insertImage", "deleteImage", "done"}
    BY DEF LoadImage, CheckParent, CheckImage, MakeUlid, LoadPost, DeletePost, WriteFollow
  <1>6. ASSUME Fresh(r)', Deleting(r)', Attaching(r)'
        PROVE  ImageInv'
    BY <1>1, <1>3, <1>4, <1>5, <1>6, ImagesQuiet
  <1>7. CASE LoadImage(r)
    <2>1. /\ req[r].op = "deleteImage" /\ Own(req[r].target, req[r].user) /\ Go(r, "deleteObject")
      BY <1>7 DEF LoadImage, Own, Live
    <2>2. req'[r].pc = "deleteObject" /\ Asked(req'[r], req[r])
      BY <2>1, GoTurn DEF Pcs
    <2>3. Deleting(r)'
      BY <1>2, <1>3, <2>1, <2>2 DEF Deleting, Own, Asked
    <2> QED
      BY <1>6, <2>2, <2>3 DEF Fresh, Attaching
  <1>8. CASE CheckParent(r)
    <2>1. req'[r].pc = "images" /\ Asked(req'[r], req[r]) /\ req[r].pc = "parent"
          /\ req'[r].rest = req[r].rest
      BY <1>8, GoTurn DEF Pcs, CheckParent
    <2>2. Attaching(r)'
      BY <1>2, <1>3, <2>1 DEF Attaching, Own, Asked
    <2>3. Deleting(r)'
      BY <1>2, <1>3, <2>1 DEF Deleting, Own, Asked
    <2> QED
      BY <1>6, <2>1, <2>2, <2>3 DEF Fresh
  <1>9. CASE CheckImage(r)
    <2>1. /\ req[r].pc = "images" /\ req[r].rest # <<>>
          /\ Own(Head(req[r].rest), req[r].user) /\ req' = [req EXCEPT ![r].rest = Tail(@)]
      BY <1>9 DEF CheckImage, Own, Live
    <2>2. /\ req'[r].pc = "images" /\ Asked(req'[r], req[r])
          /\ req'[r].rest = Tail(req[r].rest)
      BY <2>1, RestTurn
    <2>3. \A x \in ToSet(req[r].rest) : x = Head(req[r].rest) \/ x \in ToSet(Tail(req[r].rest))
      <3> DEFINE s == req[r].rest
      <3>1. s \in Seq(Nat) /\ s # <<>>
        BY <1>2, <2>1 DEF Request
      <3> HIDE DEF s
      <3>2. \A x \in ToSet(s) : x = Head(s) \/ x \in ToSet(Tail(s))
        BY <3>1, TailRest
      <3> QED
        BY <3>2 DEF s
    <2>4. Attaching(r)'
      <3>1. /\ req'[r].imgs = req[r].imgs /\ req'[r].user = req[r].user
            /\ IsInjective(req[r].imgs)
        BY <1>2, <2>1, <2>2 DEF Attaching, Asked
      <3>2. ASSUME NEW i \in DOMAIN req[r].imgs
            PROVE  req[r].imgs[i] \in ToSet(req'[r].rest) \/ Own(req[r].imgs[i], req[r].user)
        <4>1. req[r].imgs[i] \in ToSet(req[r].rest) \/ Own(req[r].imgs[i], req[r].user)
          BY <1>2, <2>1 DEF Attaching
        <4> QED
          BY <2>1, <2>2, <2>3, <4>1
      <3> QED
        BY <1>3, <2>2, <3>1, <3>2 DEF Attaching, Own
    <2>5. Deleting(r)'
      BY <1>2, <1>3, <2>2 DEF Deleting, Own, Asked
    <2> QED
      BY <1>6, <2>2, <2>4, <2>5 DEF Fresh
  <1>10. CASE MakeUlid(r)
    <2>0. ulid \in Nat
      BY DEF Types
    <2>1. /\ req[r].pc = "images" /\ req[r].rest = <<>> /\ ulid' = ulid + 1
          /\ req' = [req EXCEPT ![r].pc = "insertPost", ![r].id = ulid + 1]
      BY <1>10 DEF MakeUlid, NewUlid
    <2>2. /\ req'[r].pc = "insertPost" /\ Asked(req'[r], req[r]) /\ req'[r].id = ulid'
          /\ req'[r].rest = req[r].rest
      <3>1. ulid + 1 \in Nat /\ "insertPost" \in Pcs
        BY <2>0 DEF Pcs
      <3> QED
        BY <2>1, <3>1, IdTurn
    <2>3. Attaching(r)'
      BY <1>2, <1>3, <2>1, <2>2 DEF Attaching, Own, Asked
    <2>4. Deleting(r)'
      BY <1>2, <1>3, <2>2 DEF Deleting, Own, Asked
    <2>5. Fresh(r)'
      <3>1. req'[r].id \notin DOMAIN posts'
        BY <1>4, <2>0, <2>1, <2>2 DEF Types
      <3>2. ASSUME NEW s \in Requests, s # r, req'[s].pc = "insertPost"
            PROVE  req'[s].id # req'[r].id
        <4>1. req'[s] = req[s] /\ Numbered(req[s], ulid)
          BY <1>1, <3>2 DEF TypedStep, Turn, Types
        <4> QED
          BY <2>0, <2>1, <2>2, <3>2, <4>1 DEF Numbered
      <3> QED
        BY <2>2, <3>1, <3>2 DEF Fresh
    <2> QED
      BY <1>6, <2>3, <2>4, <2>5
  <1>11. CASE LoadPost(r) \/ DeletePost(r) \/ WriteFollow(r)
    <2>1. /\ req[r].op \in {"deletePost", "follow", "unfollow"}
          /\ Go(r, "deletePost") \/ Go(r, "done")
      BY <1>2, <1>11 DEF LoadPost, DeletePost, WriteFollow, Staged
    <2>2. req'[r].pc \in {"deletePost", "done"} /\ Asked(req'[r], req[r])
      BY <2>1, GoTurn DEF Pcs
    <2> QED
      BY <1>6, <2>1, <2>2 DEF Fresh, Deleting, Attaching, Asked
  <1> QED
    BY <1>7, <1>8, <1>9, <1>10, <1>11

\* PutObject makes an orphan that its upload will give a row.
LEMMA PutImages ==
    ASSUME Types, ImageInv, NEW r \in Requests, PutObject(r)
    PROVE  ImageInv'
  <1>0. TypedStep(r) /\ ulid \in Nat
    BY WorkTyped DEF Work, Types
  <1>1. /\ req[r].pc = "put" /\ ulid' = ulid + 1 /\ bucket' = bucket \cup {ulid'}
        /\ req' = [req EXCEPT ![r].pc = "insertImage", ![r].id = ulid + 1]
        /\ UNCHANGED <<posts, postImages, images, follows, trail>>
    BY DEF PutObject, NewUlid, tables
  <1>2. /\ req'[r].pc = "insertImage" /\ Asked(req'[r], req[r]) /\ req'[r].id = ulid'
        /\ \A s \in Requests : s # r => req'[s] = req[s]
    <2>1. ulid + 1 \in Nat /\ "insertImage" \in Pcs
      BY <1>0 DEF Pcs
    <2> QED
      BY <1>1, <2>1, IdTurn DEF Turn
  <1>3. ulid' \notin DOMAIN images /\ ulid' \in bucket'
    BY <1>0, <1>1 DEF Types
  <1>4. \A s \in Requests : req[s].pc = "insertImage" => req[s].id # ulid'
    BY <1>0, <1>1 DEF Types, Numbered
  <1>5. req[r].op = "upload"
    BY <1>1 DEF Types, Staged
  <1>6. Fresh(r)' /\ Deleting(r)' /\ Attaching(r)'
    BY <1>1, <1>2, <1>3, <1>4, <1>5 DEF Fresh, Deleting, Attaching, Asked
  <1>7. ASSUME NEW s \in Requests, s # r
        PROVE  Fresh(s)' /\ Deleting(s)' /\ Attaching(s)'
    <2>1. req'[s] = req[s] /\ Fresh(s) /\ Deleting(s) /\ Attaching(s)
      BY <1>2, <1>7 DEF ImageInv
    <2>2. Fresh(s)'
      <3>1. ASSUME req[s].pc = "insertImage", NEW t \in Requests, t # s, req'[t].pc = "insertImage"
            PROVE  req'[t].id # req[s].id
        <4>1. CASE t = r
          BY <1>2, <1>4, <3>1, <4>1
        <4>2. CASE t # r
          BY <1>2, <2>1, <3>1, <4>2 DEF Fresh
        <4> QED
          BY <4>1, <4>2
      <3>2. ASSUME req[s].pc = "insertPost", NEW t \in Requests, t # s, req'[t].pc = "insertPost"
            PROVE  req'[t].id # req[s].id
        <4>1. t # r
          BY <1>2, <3>2
        <4> QED
          BY <1>2, <2>1, <3>2, <4>1 DEF Fresh
      <3>3. bucket \subseteq bucket' /\ images' = images /\ posts' = posts
        BY <1>1
      <3> QED
        BY <2>1, <3>1, <3>2, <3>3 DEF Fresh
    <2>3. Deleting(s)'
      <3>1. req[s].op = "deleteImage" => req[s].target # ulid'
        BY <1>3, <2>1 DEF Deleting
      <3>2. req[s].pc = "deleteImage" => req[s].op = "deleteImage"
        BY DEF Types, Staged
      <3> QED
        BY <1>1, <2>1, <3>1, <3>2 DEF Deleting, Own
    <2>4. Attaching(s)'
      BY <1>1, <2>1 DEF Attaching, Own
    <2> QED
      BY <2>2, <2>3, <2>4
  <1>8. LiveImageBacked'
    <2>0. Live(images)' = Live(images) /\ bucket \subseteq bucket' /\ images' = images
      BY <1>1 DEF Live
    <2> SUFFICES ASSUME NEW i \in Live(images) \ bucket
                 PROVE  \E s \in Requests : /\ req'[s].op = "deleteImage" /\ req'[s].target = i
                                            /\ req'[s].user = images[i].owner
                                            /\ req'[s].pc \in {"deleteImage", "done"}
      BY <2>0 DEF LiveImageBacked
    <2>1. PICK s \in Requests : /\ req[s].op = "deleteImage" /\ req[s].target = i
                                /\ req[s].user = images[i].owner
                                /\ req[s].pc \in {"deleteImage", "done"}
      BY DEF ImageInv, LiveImageBacked
    <2> QED
      <3>1. s # r
        BY <1>1, <2>1
      <3> QED
        BY <1>2, <2>1, <3>1
  <1>9. OrphanTraced'
    <2> SUFFICES ASSUME NEW k \in bucket' \ Live(images), k \notin trail
                 PROVE  \E s \in Requests : req'[s].pc = "insertImage" /\ req'[s].id = k
      BY <1>1 DEF OrphanTraced, Live
    <2>1. CASE k = ulid'
      BY <1>2, <2>1
    <2>2. CASE k # ulid'
      <3>1. PICK s \in Requests : req[s].pc = "insertImage" /\ req[s].id = k
        BY <1>1, <2>2 DEF ImageInv, OrphanTraced
      <3> QED
        BY <1>1, <1>2, <3>1
    <2> QED
      BY <2>1, <2>2
  <1>10. AttachedOwn' /\ Links'
    BY <1>1 DEF ImageInv, AttachedOwn, Links
  <1> QED
    BY <1>6, <1>7, <1>8, <1>9, <1>10 DEF ImageInv

\* InsertImage gives the object its row.
LEMMA InsertImages ==
    ASSUME Types, ImageInv, NEW r \in Requests, InsertImage(r)
    PROVE  ImageInv'
  <1> DEFINE id == req[r].id
  <1>0. TypedStep(r) /\ Fresh(r) /\ Staged(req[r]) /\ Numbered(req[r], ulid)
    BY WorkTyped DEF Work, Types, ImageInv
  <1>1. /\ req[r].pc = "insertImage" /\ images' = ImageCreate(images, id, req[r].user, Null)
        /\ Go(r, "done")
        /\ UNCHANGED <<posts, postImages, bucket, trail>>
    BY DEF InsertImage
  <1>2. /\ req'[r].pc = "done" /\ Asked(req'[r], req[r])
        /\ \A s \in Requests : s # r => req'[s] = req[s]
    BY <1>1, GoTurn DEF Pcs, Turn
  <1>3. /\ id \in 1..ulid /\ req[r].user \in Users /\ id \notin DOMAIN images /\ id \in bucket
        /\ req[r].op = "upload"
        /\ \A s \in Requests : s # r /\ req[s].pc = "insertImage" => req[s].id # id
    BY <1>0, <1>1 DEF Fresh, Staged, Numbered
  <1>4. /\ DOMAIN images' = DOMAIN images \cup {id}
        /\ \A i \in DOMAIN images : images'[i] = images[i]
        /\ Live(images') = Live(images) \cup {id}
    BY <1>1, <1>3, ImageInserted
  <1>5. Fresh(r)' /\ Deleting(r)' /\ Attaching(r)'
    BY <1>2, <1>3 DEF Fresh, Deleting, Attaching, Asked
  <1>6. ASSUME NEW s \in Requests, s # r
        PROVE  Fresh(s)' /\ Deleting(s)' /\ Attaching(s)'
    <2>1. req'[s] = req[s] /\ Fresh(s) /\ Deleting(s) /\ Attaching(s)
      BY <1>2, <1>6 DEF ImageInv
    <2>2. Fresh(s)'
      BY <1>1, <1>2, <1>3, <1>4, <1>6, <2>1 DEF Fresh
    <2>3. Deleting(s)'
      BY <1>1, <1>4, <2>1 DEF Deleting, Own
    <2>4. Attaching(s)'
      BY <1>4, <2>1 DEF Attaching, Own
    <2> QED
      BY <2>2, <2>3, <2>4
  <1>7. LiveImageBacked'
    <2> SUFFICES ASSUME NEW i \in Live(images') \ bucket'
                 PROVE  \E s \in Requests : /\ req'[s].op = "deleteImage" /\ req'[s].target = i
                                            /\ req'[s].user = images'[i].owner
                                            /\ req'[s].pc \in {"deleteImage", "done"}
      BY DEF LiveImageBacked, Live
    <2>0. i \in Live(images) \ bucket
      BY <1>1, <1>3, <1>4
    <2>1. PICK s \in Requests : /\ req[s].op = "deleteImage" /\ req[s].target = i
                                /\ req[s].user = images[i].owner
                                /\ req[s].pc \in {"deleteImage", "done"}
      BY <2>0 DEF ImageInv, LiveImageBacked
    <2> QED
      BY <1>2, <1>3, <1>4, <2>0, <2>1 DEF Live
  <1>8. OrphanTraced'
    <2> SUFFICES ASSUME NEW k \in bucket' \ Live(images'), k \notin trail'
                 PROVE  \E s \in Requests : req'[s].pc = "insertImage" /\ req'[s].id = k
      BY DEF OrphanTraced, Live
    <2>1. PICK s \in Requests : req[s].pc = "insertImage" /\ req[s].id = k
      BY <1>1, <1>4 DEF ImageInv, OrphanTraced
    <2>2. s # r
      BY <1>4, <2>1
    <2> QED
      BY <1>2, <2>1, <2>2
  <1>9. AttachedOwn' /\ Links'
    BY <1>1, <1>4 DEF ImageInv, AttachedOwn, Links
  <1> QED
    BY <1>5, <1>6, <1>7, <1>8, <1>9 DEF ImageInv

\* DeleteObject takes the object of an image of the caller, or leaves a WARN.
LEMMA DropImages ==
    ASSUME Types, ImageInv, NEW r \in Requests, DeleteObject(r) \/ DeleteObjectFails(r)
    PROVE  ImageInv'
  <1> DEFINE i == req[r].target
  <1>0. TypedStep(r) /\ Deleting(r) /\ Staged(req[r])
    BY WorkTyped DEF Work, Types, ImageInv
  <1>1. /\ req[r].pc = "deleteObject" /\ Go(r, "deleteImage")
        /\ bucket' \subseteq bucket /\ bucket \subseteq bucket' \cup {i} /\ trail \subseteq trail'
        /\ i \notin bucket' \/ i \in trail'
        /\ UNCHANGED <<posts, postImages, images>>
    BY DEF DeleteObject, DeleteObjectFails, tables
  <1>2. /\ req'[r].pc = "deleteImage" /\ Asked(req'[r], req[r])
        /\ \A s \in Requests : s # r => req'[s] = req[s]
    BY <1>1, GoTurn DEF Pcs, Turn
  <1>3. req[r].op = "deleteImage" /\ Own(i, req[r].user)
    BY <1>0, <1>1 DEF Staged, Deleting
  <1>4. Fresh(r)' /\ Deleting(r)' /\ Attaching(r)'
    BY <1>1, <1>2, <1>3 DEF Fresh, Deleting, Attaching, Asked, Own
  <1>5. ASSUME NEW s \in Requests, s # r
        PROVE  Fresh(s)' /\ Deleting(s)' /\ Attaching(s)'
    <2>1. req'[s] = req[s] /\ Fresh(s) /\ Deleting(s) /\ Attaching(s)
      BY <1>2, <1>5 DEF ImageInv
    <2>2. Fresh(s)'
      BY <1>1, <1>2, <1>3, <1>5, <2>1 DEF Fresh, Own
    <2>3. Deleting(s)'
      BY <1>1, <2>1 DEF Deleting, Own
    <2>4. Attaching(s)'
      BY <1>1, <2>1 DEF Attaching, Own
    <2> QED
      BY <2>2, <2>3, <2>4
  <1>6. LiveImageBacked'
    <2> SUFFICES ASSUME NEW k \in Live(images) \ bucket'
                 PROVE  \E s \in Requests : /\ req'[s].op = "deleteImage" /\ req'[s].target = k
                                            /\ req'[s].user = images[k].owner
                                            /\ req'[s].pc \in {"deleteImage", "done"}
      BY <1>1 DEF LiveImageBacked, Live
    <2>1. CASE k = i
      BY <1>2, <1>3, <2>1 DEF Own, Asked
    <2>2. CASE k # i
      <3>1. PICK s \in Requests : /\ req[s].op = "deleteImage" /\ req[s].target = k
                                  /\ req[s].user = images[k].owner
                                  /\ req[s].pc \in {"deleteImage", "done"}
        BY <1>1, <2>2 DEF ImageInv, LiveImageBacked
      <3> QED
        BY <1>1, <1>2, <3>1
    <2> QED
      BY <2>1, <2>2
  <1>7. OrphanTraced'
    <2> SUFFICES ASSUME NEW k \in bucket' \ Live(images), k \notin trail'
                 PROVE  \E s \in Requests : req'[s].pc = "insertImage" /\ req'[s].id = k
      BY <1>1 DEF OrphanTraced, Live
    <2>1. PICK s \in Requests : req[s].pc = "insertImage" /\ req[s].id = k
      BY <1>1 DEF ImageInv, OrphanTraced
    <2> QED
      BY <1>1, <1>2, <2>1
  <1>8. AttachedOwn' /\ Links'
    BY <1>1 DEF ImageInv, AttachedOwn, Links
  <1> QED
    BY <1>4, <1>5, <1>6, <1>7, <1>8 DEF ImageInv

\* DeleteImageRow deletes a row whose object is gone or named in a WARN.
LEMMA DeleteImages ==
    ASSUME Types, ImageInv, NEW r \in Requests, DeleteImageRow(r)
    PROVE  ImageInv'
  <1> DEFINE i == req[r].target
  <1>0. TypedStep(r) /\ Deleting(r) /\ Staged(req[r])
    BY WorkTyped DEF Work, Types, ImageInv
  <1>1. /\ req[r].pc = "deleteImage" /\ Go(r, "done") /\ images' = SoftDelete(images, i)
        /\ UNCHANGED <<posts, postImages, bucket, trail>>
    BY DEF DeleteImageRow
  <1>2. /\ req'[r].pc = "done" /\ Asked(req'[r], req[r])
        /\ \A s \in Requests : s # r => req'[s] = req[s]
    BY <1>1, GoTurn DEF Pcs, Turn
  <1>3. /\ req[r].op = "deleteImage" /\ Own(i, req[r].user)
        /\ i \notin bucket \/ i \in trail
    BY <1>0, <1>1 DEF Staged, Deleting
  <1>4. /\ DOMAIN images' = DOMAIN images
        /\ \A k \in DOMAIN images : images'[k].owner = images[k].owner
        /\ Live(images') = Live(images) \ {i}
    BY <1>1, ImageDeleted
  <1>5. Fresh(r)' /\ Deleting(r)' /\ Attaching(r)'
    BY <1>2, <1>3, <1>4 DEF Fresh, Deleting, Attaching, Asked, Own
  <1>6. ASSUME NEW s \in Requests, s # r
        PROVE  Fresh(s)' /\ Deleting(s)' /\ Attaching(s)'
    <2>1. req'[s] = req[s] /\ Fresh(s) /\ Deleting(s) /\ Attaching(s)
      BY <1>2, <1>6 DEF ImageInv
    <2>2. Fresh(s)'
      BY <1>1, <1>2, <1>4, <1>6, <2>1 DEF Fresh
    <2>3. Deleting(s)'
      BY <1>1, <1>4, <2>1 DEF Deleting, Own
    <2>4. Attaching(s)'
      BY <1>4, <2>1 DEF Attaching, Own
    <2> QED
      BY <2>2, <2>3, <2>4
  <1>7. LiveImageBacked'
    <2> SUFFICES ASSUME NEW k \in Live(images') \ bucket'
                 PROVE  \E s \in Requests : /\ req'[s].op = "deleteImage" /\ req'[s].target = k
                                            /\ req'[s].user = images'[k].owner
                                            /\ req'[s].pc \in {"deleteImage", "done"}
      BY DEF LiveImageBacked, Live
    <2>0. k \in Live(images) \ bucket /\ k \in DOMAIN images
      BY <1>1, <1>4 DEF Live
    <2>1. PICK s \in Requests : /\ req[s].op = "deleteImage" /\ req[s].target = k
                                /\ req[s].user = images[k].owner
                                /\ req[s].pc \in {"deleteImage", "done"}
      BY <2>0 DEF ImageInv, LiveImageBacked
    <2> QED
      BY <1>2, <1>4, <2>0, <2>1 DEF Asked
  <1>8. OrphanTraced'
    <2> SUFFICES ASSUME NEW k \in bucket' \ Live(images'), k \notin trail'
                 PROVE  \E s \in Requests : req'[s].pc = "insertImage" /\ req'[s].id = k
      BY DEF OrphanTraced, Live
    <2>1. PICK s \in Requests : req[s].pc = "insertImage" /\ req[s].id = k
      BY <1>1, <1>3, <1>4 DEF ImageInv, OrphanTraced
    <2> QED
      BY <1>1, <1>2, <2>1
  <1>9. AttachedOwn' /\ Links'
    BY <1>1, <1>4 DEF ImageInv, AttachedOwn, Links
  <1> QED
    BY <1>5, <1>6, <1>7, <1>8, <1>9 DEF ImageInv

\* InsertPost attaches images that were checked to be of its author, once each.
LEMMA AttachImages ==
    ASSUME Types, ImageInv, NEW r \in Requests, InsertPost(r)
    PROVE  ImageInv'
  <1> DEFINE id == req[r].id
             imgs == req[r].imgs
             new == PostImageRows(id, imgs)
  <1>0. /\ TypedStep(r) /\ Fresh(r) /\ Attaching(r) /\ Staged(req[r]) /\ Numbered(req[r], ulid)
        /\ req[r].target \in Nat /\ imgs \in Seq(Nat)
    BY WorkTyped DEF Work, Types, ImageInv, Request
  <1>1. /\ req[r].pc = "insertPost" /\ Go(r, "done")
        /\ posts' = PostCreate(posts, id, req[r].user, req[r].target)
        /\ postImages' = postImages \cup new
        /\ UNCHANGED <<images, bucket, trail>>
    BY DEF InsertPost
  <1>2. /\ req'[r].pc = "done" /\ Asked(req'[r], req[r])
        /\ \A s \in Requests : s # r => req'[s] = req[s]
    BY <1>1, GoTurn DEF Pcs, Turn
  <1>3. /\ id \in 1..ulid /\ req[r].user \in Users /\ id \notin DOMAIN posts
        /\ req[r].op = "create"
        /\ \A s \in Requests : s # r /\ req[s].pc = "insertPost" => req[s].id # id
        /\ IsInjective(imgs) /\ \A i \in DOMAIN imgs : Own(imgs[i], req[r].user)
    BY <1>0, <1>1 DEF Fresh, Staged, Numbered, Attaching, ToSet
  <1>4. /\ DOMAIN posts' = DOMAIN posts \cup {id}
        /\ \A p \in DOMAIN posts : posts'[p] = posts[p]
        /\ posts'[id].author = req[r].user
    BY <1>0, <1>1, <1>3, PostInserted
  <1>5. Fresh(r)' /\ Deleting(r)' /\ Attaching(r)'
    BY <1>2, <1>3 DEF Fresh, Deleting, Attaching, Asked
  <1>6. ASSUME NEW s \in Requests, s # r
        PROVE  Fresh(s)' /\ Deleting(s)' /\ Attaching(s)'
    <2>1. req'[s] = req[s] /\ Fresh(s) /\ Deleting(s) /\ Attaching(s)
      BY <1>2, <1>6 DEF ImageInv
    <2>2. Fresh(s)'
      BY <1>1, <1>2, <1>3, <1>4, <1>6, <2>1 DEF Fresh
    <2>3. Deleting(s)'
      BY <1>1, <2>1 DEF Deleting, Own
    <2>4. Attaching(s)'
      BY <1>1, <2>1 DEF Attaching, Own
    <2> QED
      BY <2>2, <2>3, <2>4
  <1>7. LiveImageBacked'
    <2> SUFFICES ASSUME NEW k \in Live(images) \ bucket
                 PROVE  \E s \in Requests : /\ req'[s].op = "deleteImage" /\ req'[s].target = k
                                            /\ req'[s].user = images[k].owner
                                            /\ req'[s].pc \in {"deleteImage", "done"}
      BY <1>1 DEF LiveImageBacked, Live
    <2>1. PICK s \in Requests : /\ req[s].op = "deleteImage" /\ req[s].target = k
                                /\ req[s].user = images[k].owner
                                /\ req[s].pc \in {"deleteImage", "done"}
      BY DEF ImageInv, LiveImageBacked
    <2> QED
      BY <1>1, <1>2, <2>1
  <1>8. OrphanTraced'
    <2> SUFFICES ASSUME NEW k \in bucket \ Live(images), k \notin trail
                 PROVE  \E s \in Requests : req'[s].pc = "insertImage" /\ req'[s].id = k
      BY <1>1 DEF OrphanTraced, Live
    <2>1. PICK s \in Requests : req[s].pc = "insertImage" /\ req[s].id = k
      BY DEF ImageInv, OrphanTraced
    <2> QED
      BY <1>1, <1>2, <2>1
  <1>9. Len(imgs) \in Nat /\ DOMAIN imgs = 1..Len(imgs)
    BY <1>0, LenProperties
  <1>10. ASSUME NEW l \in new
         PROVE  \E i \in DOMAIN imgs : l[1] = id /\ l[2] = imgs[i] /\ l[3] = i - 1
                                       /\ l = <<id, imgs[i], i - 1>>
    BY <1>9 DEF PostImageRows
  <1> HIDE DEF new, imgs, id
  <1>11. ASSUME NEW l \in postImages
         PROVE  l[1] \in DOMAIN posts /\ l[1] # id /\ l[2] \in DOMAIN images
                /\ images[l[2]].owner = posts[l[1]].author
    BY <1>3 DEF ImageInv, Links, AttachedOwn
  <1>12. ASSUME NEW l \in new
         PROVE  l[1] = id /\ l[2] \in DOMAIN images /\ images[l[2]].owner = req[r].user
    BY <1>3, <1>10 DEF Own
  <1>13. Links'
    BY <1>1, <1>4, <1>11, <1>12 DEF Links
  <1>14. \A l \in postImages' : images'[l[2]].owner = posts'[l[1]].author
    BY <1>1, <1>4, <1>11, <1>12
  <1>15. ASSUME NEW k \in postImages', NEW l \in postImages', k[1] = l[1], k # l
         PROVE  k[2] # l[2] /\ k[3] # l[3]
    <2>1. CASE k \in postImages /\ l \in postImages
      BY <1>15, <2>1 DEF ImageInv, AttachedOwn
    <2>2. CASE k \in new /\ l \in new
      <3>1. PICK i \in DOMAIN imgs : k[2] = imgs[i] /\ k[3] = i - 1 /\ k = <<id, imgs[i], i - 1>>
        BY <1>10, <2>2
      <3>2. PICK j \in DOMAIN imgs : l[2] = imgs[j] /\ l[3] = j - 1 /\ l = <<id, imgs[j], j - 1>>
        BY <1>10, <2>2
      <3>3. i # j /\ i \in Nat /\ j \in Nat
        BY <1>9, <1>15, <3>1, <3>2
      <3>4. imgs[i] # imgs[j]
        BY <1>3, <3>3 DEF IsInjective
      <3>5. i - 1 # j - 1
        BY <3>3
      <3> QED
        BY <3>1, <3>2, <3>4, <3>5
    <2> QED
      BY <1>1, <1>11, <1>12, <1>15, <2>1, <2>2
  <1>16. AttachedOwn'
    BY <1>14, <1>15 DEF AttachedOwn
  <1> QED
    BY <1>5, <1>6, <1>7, <1>8, <1>13, <1>16 DEF ImageInv

-----------------------------------------------------------------------------
(* The theorems *)

\* The last ULID made is the greatest id of the tables.
LEMMA MaxOfIds ==
    ASSUME NEW S \in SUBSET (1..MaxId)
    PROVE  Max(S \cup {Null}) \in Nat /\ S \subseteq 1..Max(S \cup {Null})
  <1>0. MaxId \in Nat /\ S \in SUBSET Ids /\ S \subseteq Nat
    BY FeedAssumption DEF Ids, Null
  <1>1. IsFiniteSet(S)
    <2>1. IsFiniteSet(1..MaxId)
      BY <1>0, FS_Interval
    <2> QED
      BY <2>1, FS_Subset
  <1>2. ASSUME NEW m \in S \cup {Null}, \A y \in S \cup {Null} : m >= y
        PROVE  Max(S \cup {Null}) \in Nat /\ S \subseteq 1..Max(S \cup {Null})
    <2> DEFINE M == Max(S \cup {Null})
    <2>1. M \in S \cup {Null} /\ \A y \in S \cup {Null} : M >= y
      BY <1>2 DEF Max
    <2> HIDE DEF M
    <2>2. M \in Nat
      BY <1>0, <2>1 DEF Null
    <2>3. S \subseteq 1..M
      BY <1>0, <2>1, <2>2
    <2> QED
      BY <2>2, <2>3 DEF M
  <1>3. CASE S = {}
    BY <1>2, <1>3 DEF Null
  <1>4. CASE S # {}
    <2> DEFINE c == Cardinality(S)
               m == Descending(S)[1]
    <2>1. /\ c \in Nat
          /\ Descending(S) \in [1..c -> S]
          /\ \A i, j \in 1..c : i < j => Descending(S)[i] > Descending(S)[j]
          /\ \A x \in S : \E i \in 1..c : Descending(S)[i] = x
      BY <1>0, <1>1, DescendingSorts
    <2> HIDE DEF c
    <2>2. 1 \in 1..c
      <3>1. PICK x \in S : TRUE
        BY <1>4
      <3>2. PICK i \in 1..c : Descending(S)[i] = x
        BY <2>1
      <3> QED
        BY <2>1, <3>2
    <2>3. m \in S
      BY <2>1, <2>2
    <2>4. ASSUME NEW y \in S
          PROVE  m >= y
      <3>1. PICK i \in 1..c : Descending(S)[i] = y
        BY <2>1
      <3>2. i = 1 \/ 1 < i
        BY <2>1
      <3>3. CASE i = 1
        BY <1>0, <2>3, <3>1, <3>3
      <3>4. CASE 1 < i
        <4>1. Descending(S)[1] > Descending(S)[i]
          BY <2>1, <2>2, <3>4
        <4>2. m > y /\ m \in Nat /\ y \in Nat
          BY <1>0, <2>3, <3>1, <4>1
        <4> HIDE DEF m
        <4> QED
          BY <4>2
      <3> QED
        BY <3>2, <3>3, <3>4
    <2> HIDE DEF m
    <2>5. \A y \in S \cup {Null} : m >= y
      BY <1>0, <2>3, <2>4 DEF Null
    <2> QED
      BY <1>2, <2>3, <2>5
  <1> QED
    BY <1>3, <1>4

\* The inductive invariant.
FeedInv == Types /\ ScrollInv /\ ImageInv

\* The tables the process starts with are typed.
LEMMA InitTypes ==
    ASSUME Init
    PROVE  Types
  <1> DEFINE S == DOMAIN SeedPosts \cup DOMAIN SeedImages
  <1>1. /\ posts = SeedPosts /\ images = SeedImages /\ follows = SeedFollows
        /\ ulid = Max(S \cup {Null}) /\ req = [r \in Requests |-> NoReq]
    BY DEF Init
  <1>2. /\ S \in SUBSET (1..MaxId) /\ DOMAIN SeedPosts \subseteq S /\ DOMAIN SeedImages \subseteq S
    BY FeedAssumption
  <1> HIDE DEF S
  <1>3. ulid \in Nat /\ S \subseteq 1..ulid
    BY <1>1, <1>2, MaxOfIds
  <1>4. /\ posts \in [DOMAIN posts -> PostRow] /\ DOMAIN posts \subseteq 1..ulid
        /\ images \in [DOMAIN images -> ImageRow] /\ DOMAIN images \subseteq 1..ulid
        /\ DOMAIN follows \subseteq Users \X Users
    BY <1>1, <1>2, <1>3, FeedAssumption
  <1>5. NoReq \in Request
    <2> DEFINE e == <<>>
               z == Null
    <2>1. e \in Seq(Nat) /\ z \in Nat /\ z \in Users \cup {Null}
      BY DEF Null
    <2>2. "none" \in Ops /\ "idle" \in Pcs
      BY DEF Ops, Pcs
    <2>3. NoReq = [op |-> "none", pc |-> "idle", user |-> z, target |-> z, id |-> z,
                   imgs |-> e, rest |-> e, authors |-> {}, cursor |-> z,
                   page |-> <<e, z>>, shown |-> e]
      BY DEF NoReq
    <2> HIDE DEF e, z
    <2>4. <<e, z>> \in Seq(Nat) \X Nat
      BY <2>1
    <2> QED
      BY <2>1, <2>2, <2>3, <2>4 DEF Request
  <1>6. NoReq.pc = "idle" /\ NoReq.op = "none" /\ NoReq.shown = <<>>
    BY DEF NoReq
  <1>7. Staged(NoReq) /\ Numbered(NoReq, ulid)
    BY <1>6 DEF Staged, Numbered
  <1> HIDE DEF NoReq
  <1> QED
    BY <1>1, <1>3, <1>4, <1>5, <1>7 DEF Types

\* FeedInv holds at the start.
LEMMA InitFeed ==
    ASSUME Init
    PROVE  FeedInv
  <1>0. Types
    BY InitTypes
  <1>1. /\ NoReq.pc = "idle" /\ NoReq.op = "none" /\ NoReq.shown = <<>>
    BY DEF NoReq
  <1>2. ASSUME NEW r \in Requests
        PROVE  req[r] = NoReq /\ must[r] = {}
    BY DEF Init
  <1>3. Falling(<<>>)
    BY DEF Falling
  <1>4. ScrollInv
    <2> SUFFICES ASSUME NEW r \in Requests
                 PROVE  /\ {} \subseteq Wanted(NoReq)
                        /\ Reached(NoReq, {}) /\ By(NoReq, {})
      BY <1>2 DEF ScrollInv
    <2>1. Reached(NoReq, {})
      BY <1>1, <1>3 DEF Reached, Running
    <2>2. By(NoReq, {})
      BY <1>1 DEF By
    <2> QED
      BY <2>1, <2>2
  <1>5. ASSUME NEW r \in Requests
        PROVE  Fresh(r) /\ Deleting(r) /\ Attaching(r)
    BY <1>1, <1>2 DEF Fresh, Deleting, Attaching
  <1>6. postImages = {} /\ bucket = Live(images)
    BY DEF Init
  <1>7. Links /\ LiveImageBacked /\ OrphanTraced /\ AttachedOwn
    BY <1>6 DEF Links, LiveImageBacked, OrphanTraced, AttachedOwn
  <1> QED
    BY <1>0, <1>4, <1>5, <1>7 DEF FeedInv, ImageInv

\* Every step of a request preserves FeedInv.
LEMMA FeedStep ==
    ASSUME FeedInv, NEW r \in Requests, Step(r), MustStep
    PROVE  FeedInv'
  <1>0. Types /\ ScrollInv /\ ImageInv
    BY DEF FeedInv
  <1>1. CASE ArriveImage(r) \/ ArrivePost(r) \/ ArriveFollow(r) \/ ArriveTimeline(r)
             \/ ArriveReplies(r)
    <2>1. TypedStep(r) /\ ScrollFree(r)
      BY <1>0, <1>1, ArrivalTyped
    <2>2. ImageInv'
      BY <1>0, <1>1, ArrivalImages
    <2>3. ScrollInv'
      BY <1>0, <2>1, ScrollInvStep
    <2> QED
      BY <2>1, <2>2, <2>3 DEF FeedInv, TypedStep
  <1>2. CASE Work(r)
    <2>1. TypedStep(r) /\ ScrollFree(r)
      BY <1>0, <1>2, WorkTyped
    <2>2. ImageInv'
      BY <1>0, <1>2, PutImages, InsertImages, DropImages, DeleteImages, AttachImages, CheckImages
         DEF Work
    <2>3. ScrollInv'
      BY <1>0, <2>1, ScrollInvStep
    <2> QED
      BY <2>1, <2>2, <2>3 DEF FeedInv, TypedStep
  <1>3. CASE Scroll(r)
    <2>1. TypedStep(r) /\ Asked(req'[r], req[r])
      BY <1>0, <1>3, ScrollTyped
    <2>2. ImageInv'
      BY <1>0, <1>3, ScrollImages
    <2>3. ScrollInv'
      BY <1>0, <1>3, <2>1, ScrollInvStep
    <2> QED
      BY <2>1, <2>2, <2>3 DEF FeedInv, TypedStep
  <1> QED
    BY <1>1, <1>2, <1>3 DEF Step, Work

\* A stuttering step preserves FeedInv.
LEMMA FeedStutter ==
    ASSUME FeedInv, UNCHANGED vars
    PROVE  FeedInv'
  <1>0. UNCHANGED <<posts, postImages, images, follows, bucket, ulid, trail, faults, req, must>>
    BY DEF vars
  <1>1. Types'
    BY <1>0 DEF FeedInv, Types
  <1>2. ScrollInv'
    BY <1>0 DEF FeedInv, ScrollInv, Wanted, By, Live, FollowingSubs
  <1>3. \A r \in Requests : Fresh(r)' /\ Deleting(r)' /\ Attaching(r)'
    BY <1>0 DEF FeedInv, ImageInv, Fresh, Deleting, Attaching, Own
  <1>4. Links' /\ LiveImageBacked' /\ OrphanTraced' /\ AttachedOwn'
    BY <1>0 DEF FeedInv, ImageInv, Links, LiveImageBacked, OrphanTraced, AttachedOwn, Live
  <1> QED
    BY <1>1, <1>2, <1>3, <1>4 DEF FeedInv, ImageInv

\* FeedInv is an invariant, whatever users, requests, seed tables, limits and
\* image lists.
THEOREM FeedInvHolds == Spec => []FeedInv
  <1>1. Init => FeedInv
    BY InitFeed
  <1>2. FeedInv /\ [Next]_vars => FeedInv'
    <2>1. ASSUME FeedInv, Next
          PROVE  FeedInv'
      <3>1. (\E r \in Requests : Step(r)) /\ MustStep
        BY <2>1 DEF Next, MustStep
      <3> QED
        BY <2>1, <3>1, FeedStep
    <2> QED
      BY <2>1, FeedStutter
  <1> QED
    BY <1>1, <1>2, PTL DEF Spec

\* Every scroll of every timeline goes strictly from newer to older posts and
\* shows none twice (ShownOnceInOrder), for any number of requests that post,
\* delete, follow and unfollow between its pages.
THEOREM ScrollsFall == Spec => []ShownOnceInOrder
  <1>1. FeedInv => ShownOnceInOrder
    BY DEF FeedInv, ScrollInv, Reached, Falling, ShownOnceInOrder
  <1> QED
    BY <1>1, FeedInvHolds, PTL

\* A scroll that has come to a null next_cursor has shown every post that matched
\* from its beginning on (ScrollComplete).
THEOREM ScrollsShowAll == Spec => []ScrollComplete
  <1>1. FeedInv => ScrollComplete
    BY DEF FeedInv, ScrollInv, Reached, ScrollComplete
  <1> QED
    BY <1>1, FeedInvHolds, PTL

\* The object of a live image is in the bucket, unless its own owner has gone past
\* the deletion of the object (LiveImageBacked).
THEOREM LiveImagesAreBacked == Spec => []LiveImageBacked
  <1>1. FeedInv => LiveImageBacked
    BY DEF FeedInv, ImageInv
  <1> QED
    BY <1>1, FeedInvHolds, PTL

\* An object without a live row belongs to an upload between PutObject and the
\* INSERT, or a WARN names it (OrphanTraced).
THEOREM OrphansAreTraced == Spec => []OrphanTraced
  <1>1. FeedInv => OrphanTraced
    BY DEF FeedInv, ImageInv
  <1> QED
    BY <1>1, FeedInvHolds, PTL

\* A post shows images of its author only, each once and at a place of its own
\* (AttachedOwn).
THEOREM AttachedAreOwn == Spec => []AttachedOwn
  <1>1. FeedInv => AttachedOwn
    BY DEF FeedInv, ImageInv
  <1> QED
    BY <1>1, FeedInvHolds, PTL
=============================================================================
