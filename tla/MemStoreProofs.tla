--------------------------- MODULE MemStoreProofs ---------------------------
(***************************************************************************)
(* The in-memory stores implement the contract of the repositories, for    *)
(* any sets of users, posts, tags, images, badges, urls and jobs and any   *)
(* bound on the clock and on the names of one call.                        *)
(*                                                                         *)
(* The inductive invariant StoreInv has four parts: every map holds rows   *)
(* of its kind (RowsInv); a post has one preview link per position, in     *)
(* order (OgpInv); links that a call of Create has written before its post *)
(* are that call's, so nobody reads them (LinksInv); and the indexes of    *)
(* the tags and the badges agree with the rows (IndexesConsistent).  Each  *)
(* action has a lemma that it is Sound: it keeps StoreInv, and under the   *)
(* refinement mapping Tables it is a step of the contract or a stutter.    *)
(*                                                                         *)
(* With KeysInv, which the steps of the contract keep, every read answers  *)
(* what the SELECT of the contract does on the same rows.                  *)
(***************************************************************************)
EXTENDS MemStore, FiniteSetTheorems, FunctionTheorems, SequenceTheorems,
        WellFoundedInduction, TLAPS

(***************************************************************************)
(* ORDER BY                                                                *)
(***************************************************************************)
\* What ORDER BY relies on: finitely many rows, put in line by `before'.
Line(S, before) ==
    /\ IsFiniteSet(S)
    /\ \A x \in S : <<x, x>> \notin before
    /\ \A x, y \in S : x # y => <<x, y>> \in before \/ <<y, x>> \in before
    /\ \A x, y, z \in S : (<<x, y>> \in before /\ <<y, z>> \in before) => <<x, z>> \in before

\* The rows before one.
Ahead(S, before, x) == {y \in S : <<y, x>> \in before}

\* A one-to-one correspondence with a finite set: the same number of members.
LEMMA SameSize ==
    ASSUME NEW S, NEW T, IsFiniteSet(S), NEW f \in [S -> T],
           \A x, y \in S : f[x] = f[y] => x = y, \A t \in T : \E x \in S : f[x] = t
    PROVE  IsFiniteSet(T) /\ Cardinality(T) = Cardinality(S)
  <1>1. f \in Bijection(S, T)
    BY Fun_IsBij
  <1>2. ExistsBijection(S, T)
    BY <1>1, Fun_ExistsBij
  <1> QED
    BY <1>2, FS_Bijection

\* A later row has more rows ahead of it.
LEMMA AheadGrows ==
    ASSUME NEW S, NEW before, Line(S, before), NEW x \in S, NEW y \in S, <<x, y>> \in before
    PROVE  Cardinality(Ahead(S, before, x)) < Cardinality(Ahead(S, before, y))
  <1> DEFINE A == Ahead(S, before, x)
             B == Ahead(S, before, y)
  <1>1. A \subseteq B /\ x \in B /\ x \notin A /\ B \subseteq S /\ IsFiniteSet(S)
    BY DEF Ahead, Line
  <1> HIDE DEF A, B
  <1>2. IsFiniteSet(B)
    BY <1>1, FS_Subset
  <1>3. /\ IsFiniteSet(A) /\ Cardinality(A) <= Cardinality(B)
        /\ Cardinality(B) = Cardinality(A) => B = A
    BY <1>1, <1>2, FS_Subset
  <1>4. Cardinality(A) \in Nat /\ Cardinality(B) \in Nat
    BY <1>2, <1>3, FS_CardinalityType
  <1>5. A # B
    BY <1>1
  <1> QED
    BY <1>3, <1>4, <1>5 DEF A, B

\* The number of rows ahead of one is a place of the listing, counted from 0.
LEMMA AheadRange ==
    ASSUME NEW S, NEW before, Line(S, before), NEW x \in S
    PROVE  /\ Cardinality(S) \in Nat
           /\ Cardinality(Ahead(S, before, x)) \in 0..(Cardinality(S) - 1)
  <1> DEFINE A == Ahead(S, before, x)
  <1>1. A \subseteq S /\ x \notin A /\ IsFiniteSet(S)
    BY DEF Ahead, Line
  <1> HIDE DEF A
  <1>2. /\ IsFiniteSet(A) /\ Cardinality(A) <= Cardinality(S)
        /\ Cardinality(S) = Cardinality(A) => S = A
    BY <1>1, FS_Subset
  <1>3. Cardinality(S) \in Nat /\ Cardinality(A) \in Nat
    BY <1>1, <1>2, FS_CardinalityType
  <1> QED
    BY <1>1, <1>2, <1>3 DEF A

\* Two rows never have the same place.
LEMMA AheadOnce ==
    ASSUME NEW S, NEW before, Line(S, before), NEW x \in S, NEW y \in S,
           Cardinality(Ahead(S, before, x)) = Cardinality(Ahead(S, before, y))
    PROVE  x = y
  <1>1. Cardinality(Ahead(S, before, x)) \in Nat
    BY AheadRange
  <1>2. ASSUME <<x, y>> \in before PROVE FALSE
    BY <1>1, <1>2, AheadGrows
  <1>3. ASSUME <<y, x>> \in before PROVE FALSE
    BY <1>1, <1>3, AheadGrows
  <1> QED
    BY <1>2, <1>3 DEF Line

\* Every place of the listing is the place of some row.
LEMMA AheadOnto ==
    ASSUME NEW S, NEW before, Line(S, before), NEW k \in 0..(Cardinality(S) - 1)
    PROVE  \E x \in S : Cardinality(Ahead(S, before, x)) = k
  <1> SUFFICES ASSUME \A x \in S : Cardinality(Ahead(S, before, x)) # k
               PROVE  FALSE
    OBVIOUS
  <1> DEFINE n == Cardinality(S)
             T == (0..(n - 1)) \ {k}
             f == [x \in S |-> Cardinality(Ahead(S, before, x))]
  <1>1. IsFiniteSet(S)
    BY DEF Line
  <1>2. n \in Nat
    BY <1>1, FS_CardinalityType
  <1>3. f \in [S -> T]
    BY AheadRange
  <1>4. IsFiniteSet(T) /\ Cardinality(T) < n
    <2>1. IsFiniteSet(0..(n - 1)) /\ Cardinality(0..(n - 1)) = n
      BY <1>2, FS_Interval
    <2>2. k \in 0..(n - 1)
      OBVIOUS
    <2> DEFINE I == 0..(n - 1)
    <2> HIDE DEF I, n
    <2>3. IsFiniteSet(I \ {k}) /\ Cardinality(I \ {k}) = Cardinality(I) - 1
      BY <2>1, <2>2, FS_RemoveElement DEF I
    <2> QED
      BY <1>2, <2>1, <2>3 DEF I
  <1>5. PICK x, y \in S : x # y /\ f[x] = f[y]
    <2> HIDE DEF f, T
    <2> QED
      BY <1>1, <1>3, <1>4, FS_PigeonHole
  <1> QED
    BY <1>5, AheadOnce

\* Cardinality is the same operator in the contract's own modules.
LEMMA SameCardinality == \A S : Contract!Cardinality(S) = Cardinality(S)
  BY DEF Contract!Cardinality, Cardinality

\* ORDER BY lists every row once, in the order given.
LEMMA RankedSorts ==
    ASSUME NEW S, NEW before, Line(S, before)
    PROVE  LET n == Cardinality(S)
               d == Contract!Ranked(S, before)
           IN  /\ n \in Nat /\ d \in [1..n -> S]
               /\ \A i \in 1..n : Cardinality(Ahead(S, before, d[i])) = i - 1
               /\ \A i, j \in 1..n : i < j => <<d[i], d[j]>> \in before
               /\ \A x \in S : \E i \in 1..n : d[i] = x
  <1> DEFINE n == Cardinality(S)
             d == Contract!Ranked(S, before)
  <1>1. n \in Nat
    BY FS_CardinalityType DEF Line
  <1>2. d = [i \in 1..n |-> CHOOSE x \in S : Cardinality(Ahead(S, before, x)) = i - 1]
    BY DEF Contract!Ranked, Ahead, Contract!Cardinality, Cardinality
  <1> HIDE DEF d
  <1>3. ASSUME NEW i \in 1..n PROVE d[i] \in S /\ Cardinality(Ahead(S, before, d[i])) = i - 1
    <2>1. i - 1 \in 0..(n - 1)
      BY <1>1
    <2>2. \E x \in S : Cardinality(Ahead(S, before, x)) = i - 1
      BY <2>1, AheadOnto
    <2>3. d[i] = CHOOSE x \in S : Cardinality(Ahead(S, before, x)) = i - 1
      BY <1>2
    <2> QED
      BY <2>2, <2>3
  <1>4. d \in [1..n -> S]
    BY <1>2, <1>3
  <1>5. ASSUME NEW i \in 1..n, NEW j \in 1..n, i < j
        PROVE  <<d[i], d[j]>> \in before
    <2>1. d[i] \in S /\ d[j] \in S
      BY <1>4
    <2>2. /\ Cardinality(Ahead(S, before, d[i])) < Cardinality(Ahead(S, before, d[j]))
          /\ Cardinality(Ahead(S, before, d[i])) \in Nat /\ Cardinality(Ahead(S, before, d[j])) \in Nat
      BY <1>1, <1>3, <1>5
    <2>3. ASSUME <<d[j], d[i]>> \in before PROVE FALSE
      <3>1. Cardinality(Ahead(S, before, d[j])) < Cardinality(Ahead(S, before, d[i]))
        BY <2>1, <2>3, AheadGrows
      <3> QED
        BY <2>2, <3>1
    <2>4. d[i] # d[j]
      BY <2>2
    <2> QED
      BY <2>1, <2>3, <2>4 DEF Line
  <1>6. ASSUME NEW x \in S
        PROVE  \E i \in 1..n : d[i] = x
    <2>1. Cardinality(Ahead(S, before, x)) \in 0..(n - 1)
      BY AheadRange
    <2> DEFINE i == Cardinality(Ahead(S, before, x)) + 1
    <2>2. i \in 1..n /\ Cardinality(Ahead(S, before, x)) = i - 1
      BY <1>1, <2>1
    <2> HIDE DEF i
    <2>3. d[i] \in S /\ Cardinality(Ahead(S, before, d[i])) = Cardinality(Ahead(S, before, x))
      BY <1>3, <2>2
    <2>4. d[i] = x
      BY <2>3, AheadOnce
    <2> QED
      BY <2>2, <2>4
  <1> QED
    BY <1>1, <1>3, <1>4, <1>5, <1>6 DEF d

\* And nothing else is such a list.
LEMMA RankedOnly ==
    ASSUME NEW S, NEW before, Line(S, before), NEW n \in Nat, NEW s \in [1..n -> S],
           \A i, j \in 1..n : i < j => <<s[i], s[j]>> \in before,
           \A x \in S : \E i \in 1..n : s[i] = x
    PROVE  n = Cardinality(S) /\ s = Contract!Ranked(S, before)
  <1> DEFINE d == Contract!Ranked(S, before)
  <1>1. \A i, j \in 1..n : s[i] = s[j] => i = j
    <2> SUFFICES ASSUME NEW i \in 1..n, NEW j \in 1..n, s[i] = s[j], i # j
                 PROVE  FALSE
      OBVIOUS
    <2>1. i < j \/ j < i
      OBVIOUS
    <2> QED
      BY <2>1 DEF Line
  <1>2. IsFiniteSet(1..n) /\ Cardinality(1..n) = n
    BY FS_Interval
  <1>3. n = Cardinality(S)
    BY <1>1, <1>2, SameSize
  <1>4. /\ d \in [1..n -> S]
        /\ \A i \in 1..n : Cardinality(Ahead(S, before, d[i])) = i - 1
    BY <1>3, RankedSorts
  <1> HIDE DEF d
  <1>5. ASSUME NEW i \in 1..n
        PROVE  s[i] = d[i]
    <2> DEFINE P == 1..(i - 1)
               B == Ahead(S, before, s[i])
               g == [j \in P |-> s[j]]
    <2>1. IsFiniteSet(P) /\ Cardinality(P) = i - 1
      BY FS_Interval
    <2>2. P \subseteq 1..n
      OBVIOUS
    <2>3. g \in [P -> B]
      BY <2>2 DEF Ahead
    <2>4. \A j, k \in P : g[j] = g[k] => j = k
      BY <1>1, <2>2
    <2>5. ASSUME NEW b \in B
          PROVE  \E j \in P : g[j] = b
      <3>1. b \in S /\ <<b, s[i]>> \in before
        BY DEF Ahead
      <3>2. PICK j \in 1..n : s[j] = b
        BY <3>1
      <3>3. j # i
        BY <3>1, <3>2 DEF Line
      <3>4. ASSUME i < j PROVE FALSE
        <4>1. <<s[i], b>> \in before
          BY <3>2, <3>4
        <4> QED
          BY <3>1, <4>1 DEF Line
      <3>5. j \in P
        BY <3>3, <3>4
      <3> QED
        BY <3>2, <3>5
    <2> HIDE DEF g, B, P
    <2>6. Cardinality(B) = i - 1
      BY <2>1, <2>3, <2>4, <2>5, SameSize
    <2>7. Cardinality(Ahead(S, before, s[i])) = Cardinality(Ahead(S, before, d[i]))
      BY <1>4, <2>6 DEF B
    <2> QED
      BY <1>4, <2>7, AheadOnce
  <1>6. s = d
    BY <1>4, <1>5
  <1> QED
    BY <1>3, <1>6 DEF d

\* Finitely many rows, told apart by their keys.
Keyed(S, key) == /\ IsFiniteSet(S) /\ key \in [S -> Nat]
                 /\ \A x, y \in S : key[x] = key[y] => x = y

\* The order of the keys.
ByKey(S, key) == {p \in S \X S : key[p[1]] < key[p[2]]}

\* Distinct keys put the rows in line.
LEMMA KeyedLine ==
    ASSUME NEW S, NEW key, Keyed(S, key)
    PROVE  /\ Line(S, ByKey(S, key))
           /\ Contract!Sorted(S, key) = Contract!Ranked(S, ByKey(S, key))
           /\ \A x, y \in S : <<x, y>> \in ByKey(S, key) <=> key[x] < key[y]
  <1>1. \A x, y \in S : <<x, y>> \in ByKey(S, key) <=> key[x] < key[y]
    BY DEF ByKey
  <1>2. Line(S, ByKey(S, key))
    BY <1>1 DEF Line, Keyed
  <1>3. Contract!Sorted(S, key) = Contract!Ranked(S, ByKey(S, key))
    BY DEF Contract!Sorted, Contract!OrderBy, ByKey
  <1> QED
    BY <1>1, <1>2, <1>3

\* Sorted lists every row once, in the order of the keys.
LEMMA SortedSorts ==
    ASSUME NEW S, NEW key, Keyed(S, key)
    PROVE  LET n == Cardinality(S)
               d == Contract!Sorted(S, key)
           IN  /\ n \in Nat /\ d \in [1..n -> S]
               /\ \A i, j \in 1..n : i < j => key[d[i]] < key[d[j]]
               /\ \A x \in S : \E i \in 1..n : d[i] = x
  <1> DEFINE n == Cardinality(S)
             b == ByKey(S, key)
             d == Contract!Ranked(S, b)
  <1>1. /\ Line(S, b) /\ Contract!Sorted(S, key) = d
        /\ \A x, y \in S : <<x, y>> \in b <=> key[x] < key[y]
    BY KeyedLine
  <1> HIDE DEF b
  <1>2. /\ n \in Nat /\ d \in [1..n -> S]
        /\ \A i, j \in 1..n : i < j => <<d[i], d[j]>> \in b
        /\ \A x \in S : \E i \in 1..n : d[i] = x
    BY <1>1, RankedSorts
  <1> HIDE DEF d, n
  <1>3. \A i, j \in 1..n : i < j => key[d[i]] < key[d[j]]
    BY <1>1, <1>2
  <1> QED
    BY <1>1, <1>2, <1>3 DEF n

\* And nothing else is such a list.
LEMMA SortedOnly ==
    ASSUME NEW S, NEW key, Keyed(S, key), NEW n \in Nat, NEW s \in [1..n -> S],
           \A i, j \in 1..n : i < j => key[s[i]] < key[s[j]],
           \A x \in S : \E i \in 1..n : s[i] = x
    PROVE  n = Cardinality(S) /\ s = Contract!Sorted(S, key)
  <1> DEFINE b == ByKey(S, key)
  <1>1. /\ Line(S, b) /\ Contract!Sorted(S, key) = Contract!Ranked(S, b)
        /\ \A x, y \in S : <<x, y>> \in b <=> key[x] < key[y]
    BY KeyedLine
  <1> HIDE DEF b
  <1>2. \A i, j \in 1..n : i < j => <<s[i], s[j]>> \in b
    BY <1>1
  <1>3. n = Cardinality(S) /\ s = Contract!Ranked(S, b)
    BY <1>1, <1>2, RankedOnly
  <1> QED
    BY <1>1, <1>3

(***************************************************************************)
(* The maps and their invariant                                            *)
(***************************************************************************)
\* The maps of the stores.
Fields == {"users", "posts", "tags", "byName", "follows", "likes", "images", "postImages",
           "postTags", "postOGPs", "badges", "byKey", "userBadges", "rows", "jobs"}

\* Writing one map of the store leaves the others as they were.
LEMMA Wrote ==
    ASSUME NEW m, NEW f \in Fields, NEW v, m = [g \in Fields |-> m[g]],
           NEW w, w = [m EXCEPT ![f] = v]
    PROVE  /\ w = [g \in Fields |-> w[g]]
           /\ w[f] = v
           /\ \A g \in Fields : g # f => w[g] = m[g]
  OBVIOUS

\* A map that holds only rows of R.
IsMap(map, R) == map \in [DOMAIN map -> R]

\* m[key] = v adds or replaces one row.
LEMMA MapPut ==
    ASSUME NEW map, NEW R, IsMap(map, R), NEW key, NEW v \in R
    PROVE  /\ IsMap(Put(map, key, v), R)
           /\ DOMAIN Put(map, key, v) = DOMAIN map \cup {key}
           /\ Put(map, key, v)[key] = v
           /\ \A k \in DOMAIN map : k # key => Put(map, key, v)[k] = map[k]
  BY DEF Put, IsMap

\* delete(m, key) takes one row away.
LEMMA MapWithout ==
    ASSUME NEW map, NEW R, IsMap(map, R), NEW key
    PROVE  /\ IsMap(Without(map, key), R)
           /\ DOMAIN Without(map, key) = DOMAIN map \ {key}
           /\ \A k \in DOMAIN map \ {key} : Without(map, key)[k] = map[k]
  BY DEF Without, IsMap, Restrict

\* A write to a row that may be absent.
LEMMA MapEdit ==
    ASSUME NEW map, NEW R, IsMap(map, R), NEW key, NEW v, key \in DOMAIN map => v \in R
    PROVE  /\ IsMap([map EXCEPT ![key] = v], R)
           /\ DOMAIN [map EXCEPT ![key] = v] = DOMAIN map
           /\ \A k \in DOMAIN map : [map EXCEPT ![key] = v][k] = IF k = key THEN v ELSE map[k]
  BY DEF IsMap

(***************************************************************************)
(* The rows                                                                *)
(***************************************************************************)
\* What the rows of the maps hold.
UserRec == [profile : Nat, bio : Nat, admin : BOOLEAN, followers : Nat, following : Nat,
            createdAt : Nat, deleted : BOOLEAN]
Authors == UserSubs \cup {1, CHOOSE u \in Subs : TRUE}
PostRec == [author : Authors, parent : PostIds \cup {Null}, likes : Nat, replies : Nat,
            deleted : BOOLEAN]
ImageRec == [owner : Nat, createdAt : Nat, deleted : BOOLEAN]
BadgeRec == [key : Keys, priority : Priorities]
LinkRec == [hash : Hashes, position : Nat]
JobRec == [hash : Hashes, post : Nat, position : Nat, enqueuedAt : Nat, startedAt : Nat,
           finishedAt : Nat, status : {"queued", "running", "done", "failed"},
           attempts : Nat, lastError : Nat]
CallRec == [pc : {"images", "tags", "row"}, author : Authors, parent : PostIds \cup {Null},
            imgs : ImageChoices \cup {<<>>}, tags : TagChoices \cup {{}}]

GrantRec == [at : Nat, by : Nat, expiresAt : Nat]
CacheRec == [status : Previews, fetchedAt : Nat]

\* Every map holds rows of its own kind.
RowsInv ==
    /\ suite \in Suites /\ now \in Nat /\ now # 0
    /\ mem = [f \in Fields |-> mem[f]]
    /\ IsMap(mem.users, UserRec) /\ IsMap(mem.follows, Nat)
    /\ IsMap(mem.likes, SUBSET PostIds)
    /\ IsMap(mem.posts, PostRec) /\ DOMAIN mem.posts \subseteq PostIds
    /\ IsMap(mem.images, ImageRec)
    /\ IsMap(mem.postImages, ImageChoices) /\ IsMap(mem.postTags, TagChoices)
    /\ IsMap(mem.badges, BadgeRec) /\ IsMap(mem.userBadges, GrantRec)
    /\ IsMap(mem.rows, CacheRec) /\ DOMAIN mem.rows \subseteq Hashes
    /\ IsMap(mem.jobs, JobRec)
    /\ IsMap(mem.tags, TagIds \cup Names) /\ IsMap(mem.byName, TagIds)
    /\ IsMap(mem.byKey, BadgeIds)

\* A list of links in the order of their positions.
ByPosition(links) == \A i, j \in DOMAIN links : i < j => links[i].position < links[j].position

\* The previews of a post: one link per position, in order.
OgpInv ==
    /\ IsMap(mem.postOGPs, Seq(LinkRec))
    /\ \A p \in DOMAIN mem.postOGPs : ByPosition(mem.postOGPs[p])
    /\ DOMAIN mem.postOGPs \subseteq DOMAIN mem.posts
    /\ suite = "ogp" => DOMAIN mem.posts = PostIds

\* A call of Create has a row of its own to publish, and the LinkStore holds
\* of its links what the call has written.
CallInv(id) ==
    LET c == creating[id]
    IN  /\ id \in PostIds \ DOMAIN mem.posts
        /\ id \in DOMAIN mem.postImages <=> (c.pc # "images" /\ c.imgs # <<>>)
        /\ id \in DOMAIN mem.postImages => mem.postImages[id] = c.imgs
        /\ id \in DOMAIN mem.postTags <=> (c.pc = "row" /\ c.tags # {})
        /\ id \in DOMAIN mem.postTags => mem.postTags[id] = c.tags
        /\ c.pc = "images" => c.imgs # <<>>
        /\ c.pc = "tags" => c.tags # {}
        /\ \/ /\ suite = "posts" /\ c.author \in UserSubs
              /\ c.parent \in DOMAIN mem.posts \cup {Null}
              /\ c.imgs = <<>> /\ c.tags = {}
           \/ /\ suite = "links" /\ c.author = 1 /\ c.parent = Null
              /\ c.imgs \in ImageChoices /\ c.tags \in TagChoices
              /\ ToSet(c.imgs) \subseteq DOMAIN mem.images

\* Links belong to a post that is there, or to the call that is about to insert it;
\* the links a reader has taken are still those of their post.
LinksInv ==
    /\ IsMap(creating, CallRec)
    /\ \A id \in DOMAIN creating : CallInv(id)
    /\ DOMAIN mem.postImages \subseteq DOMAIN mem.posts \cup DOMAIN creating
    /\ DOMAIN mem.postTags \subseteq DOMAIN mem.posts \cup DOMAIN creating
    /\ reading # <<>> => \E id \in Published(mem.postImages) : mem.postImages[id] = reading

\* The inductive invariant.
StoreInv == RowsInv /\ OgpInv /\ LinksInv /\ IndexesConsistent

(***************************************************************************)
(* Writes to one map                                                       *)
(***************************************************************************)
\* One critical section leaves alone the clock and the calls under way.
Quiet == UNCHANGED <<suite, now, creating, reading>>

\* Every map but those of F is as it was.
OnlyIn(F) == /\ mem' = [f \in Fields |-> mem'[f]]
             /\ \A f \in Fields \ F : mem'[f] = mem[f]

\* A critical section that writes one map changes that map only.
LEMMA OneField ==
    ASSUME RowsInv, NEW f \in Fields, NEW t, mem' = [mem EXCEPT ![f] = t]
    PROVE  OnlyIn({f}) /\ mem'[f] = t
  <1>1. mem = [g \in Fields |-> mem[g]]
    BY DEF RowsInv
  <1> QED
    BY <1>1 DEF OnlyIn

\* A map that no other part of the store looks into.
Flat == {"users", "follows", "userBadges", "rows", "jobs"}

\* A write to a flat map keeps the parts of the invariant about the others.
LEMMA FlatKeeps ==
    ASSUME StoreInv, NEW f \in Flat, OnlyIn({f}), Quiet
    PROVE  /\ OgpInv' /\ LinksInv' /\ IndexesConsistent'
           /\ LikeRows' = LikeRows /\ ImageLinks' = ImageLinks
           /\ TagLinks' = TagLinks /\ OgpLinks' = OgpLinks
  <1>1. /\ mem'.posts = mem.posts /\ mem'.images = mem.images /\ mem'.postImages = mem.postImages
        /\ mem'.postTags = mem.postTags /\ mem'.postOGPs = mem.postOGPs
        /\ mem'.tags = mem.tags /\ mem'.byName = mem.byName /\ mem'.badges = mem.badges
        /\ mem'.byKey = mem.byKey /\ mem'.likes = mem.likes
    BY DEF OnlyIn, Flat, Fields
  <1>2. OgpInv'
    BY <1>1 DEF StoreInv, OgpInv, Quiet
  <1>3. LinksInv'
    BY <1>1 DEF StoreInv, LinksInv, CallInv, Quiet, Published
  <1>4. IndexesConsistent'
    BY <1>1 DEF StoreInv, IndexesConsistent, Indexes
  <1> QED
    BY <1>1, <1>2, <1>3, <1>4 DEF LikeRows, ImageLinks, TagLinks, OgpLinks, Published

\* A write to the users is a write to the table users, and to no other.
LEMMA UsersWritten ==
    ASSUME StoreInv, NEW t, IsMap(t, UserRec), mem' = [mem EXCEPT !.users = t], Quiet
    PROVE  StoreInv' /\ Tables' = [Tables EXCEPT !.users = t]
  <1>1. OnlyIn({"users"}) /\ mem'.users = t
    BY OneField DEF StoreInv, Fields
  <1>2. /\ OgpInv' /\ LinksInv' /\ IndexesConsistent'
        /\ LikeRows' = LikeRows /\ ImageLinks' = ImageLinks
        /\ TagLinks' = TagLinks /\ OgpLinks' = OgpLinks
    BY <1>1, FlatKeeps DEF Flat
  <1>3. RowsInv'
    BY <1>1 DEF StoreInv, RowsInv, OnlyIn, Fields, Quiet
  <1>4. Tables' = [Tables EXCEPT !.users = t]
    BY <1>1, <1>2 DEF OnlyIn, Fields, Tables
  <1> QED
    BY <1>2, <1>3, <1>4 DEF StoreInv

\* The same for follows.
LEMMA FollowsWritten ==
    ASSUME StoreInv, NEW t, IsMap(t, Nat), mem' = [mem EXCEPT !.follows = t], Quiet
    PROVE  StoreInv' /\ Tables' = [Tables EXCEPT !.follows = t]
  <1>1. OnlyIn({"follows"}) /\ mem'.follows = t
    BY OneField DEF StoreInv, Fields
  <1>2. /\ OgpInv' /\ LinksInv' /\ IndexesConsistent'
        /\ LikeRows' = LikeRows /\ ImageLinks' = ImageLinks
        /\ TagLinks' = TagLinks /\ OgpLinks' = OgpLinks
    BY <1>1, FlatKeeps DEF Flat
  <1>3. RowsInv'
    BY <1>1 DEF StoreInv, RowsInv, OnlyIn, Fields, Quiet
  <1>4. Tables' = [Tables EXCEPT !.follows = t]
    BY <1>1, <1>2 DEF OnlyIn, Fields, Tables
  <1> QED
    BY <1>2, <1>3, <1>4 DEF StoreInv

\* The same for the grants of badges.
LEMMA GrantsWritten ==
    ASSUME StoreInv, NEW t, IsMap(t, GrantRec), mem' = [mem EXCEPT !.userBadges = t], Quiet
    PROVE  StoreInv' /\ Tables' = [Tables EXCEPT !.grants = t]
  <1>1. OnlyIn({"userBadges"}) /\ mem'.userBadges = t
    BY OneField DEF StoreInv, Fields
  <1>2. /\ OgpInv' /\ LinksInv' /\ IndexesConsistent'
        /\ LikeRows' = LikeRows /\ ImageLinks' = ImageLinks
        /\ TagLinks' = TagLinks /\ OgpLinks' = OgpLinks
    BY <1>1, FlatKeeps DEF Flat
  <1>3. RowsInv'
    BY <1>1 DEF StoreInv, RowsInv, OnlyIn, Fields, Quiet
  <1>4. Tables' = [Tables EXCEPT !.grants = t]
    BY <1>1, <1>2 DEF OnlyIn, Fields, Tables
  <1> QED
    BY <1>2, <1>3, <1>4 DEF StoreInv

\* The same for the cache of previews.
LEMMA CacheWritten ==
    ASSUME StoreInv, NEW t, IsMap(t, CacheRec), DOMAIN t \subseteq Hashes, mem' = [mem EXCEPT !.rows = t], Quiet
    PROVE  StoreInv' /\ Tables' = [Tables EXCEPT !.cache = t]
  <1>1. OnlyIn({"rows"}) /\ mem'.rows = t
    BY OneField DEF StoreInv, Fields
  <1>2. /\ OgpInv' /\ LinksInv' /\ IndexesConsistent'
        /\ LikeRows' = LikeRows /\ ImageLinks' = ImageLinks
        /\ TagLinks' = TagLinks /\ OgpLinks' = OgpLinks
    BY <1>1, FlatKeeps DEF Flat
  <1>3. RowsInv'
    BY <1>1 DEF StoreInv, RowsInv, OnlyIn, Fields, Quiet
  <1>4. Tables' = [Tables EXCEPT !.cache = t]
    BY <1>1, <1>2 DEF OnlyIn, Fields, Tables
  <1> QED
    BY <1>2, <1>3, <1>4 DEF StoreInv

\* The same for the jobs.
LEMMA JobsWritten ==
    ASSUME StoreInv, NEW t, IsMap(t, JobRec), mem' = [mem EXCEPT !.jobs = t], Quiet
    PROVE  StoreInv' /\ Tables' = [Tables EXCEPT !.jobs = t]
  <1>1. OnlyIn({"jobs"}) /\ mem'.jobs = t
    BY OneField DEF StoreInv, Fields
  <1>2. /\ OgpInv' /\ LinksInv' /\ IndexesConsistent'
        /\ LikeRows' = LikeRows /\ ImageLinks' = ImageLinks
        /\ TagLinks' = TagLinks /\ OgpLinks' = OgpLinks
    BY <1>1, FlatKeeps DEF Flat
  <1>3. RowsInv'
    BY <1>1 DEF StoreInv, RowsInv, OnlyIn, Fields, Quiet
  <1>4. Tables' = [Tables EXCEPT !.jobs = t]
    BY <1>1, <1>2 DEF OnlyIn, Fields, Tables
  <1> QED
    BY <1>2, <1>3, <1>4 DEF StoreInv

\* A call that writes nothing keeps the invariant and the tables.
LEMMA NothingWritten ==
    ASSUME StoreInv, mem' = mem, Quiet
    PROVE  StoreInv' /\ Tables' = Tables
  <1>1. RowsInv' /\ OgpInv' /\ LinksInv'
    BY DEF StoreInv, RowsInv, OgpInv, LinksInv, CallInv, Quiet, Published
  <1>2. StoreInv'
    BY <1>1 DEF StoreInv, IndexesConsistent
  <1>3. Tables' = Tables
    BY DEF Tables, LikeRows, ImageLinks, TagLinks, OgpLinks, Published
  <1> QED
    BY <1>2, <1>3

\* The value of GREATEST(count + d, 0).
LEMMA Greatest ==
    /\ \A n \in Nat : Contract!Max({n + 1, 0}) = n + 1
    /\ \A n \in Nat : Contract!Max({n + (-1), 0}) = IF n > 0 THEN n - 1 ELSE 0
  BY DEF Contract!Max

(***************************************************************************)
(* Users and follows                                                       *)
(***************************************************************************)
\* What a step of the store must be: it keeps the invariant and is a step of
\* the contract, or none.
Sound == StoreInv' /\ (Contract!Next \/ UNCHANGED Contract!vars)

\* UserRepo.Upsert is INSERT ... ON CONFLICT DO UPDATE: an empty bio keeps the
\* stored one, and the counters survive.
LEMMA UpsertSound ==
    ASSUME StoreInv, suite = "users", NEW u \in Contract!UserInputs, Upsert(u)
    PROVE  Sound
  <1> DEFINE t == Contract!UserUpsert(mem.users, u, now)
  <1>1. IsMap(mem.users, UserRec) /\ now \in Nat
    BY DEF StoreInv, RowsInv
  <1>2. u \in [sub : UserSubs, profile : Nat, bio : Nat, admin : BOOLEAN]
    BY DEF Contract!UserInputs, Contract!Null
  <1> DEFINE old == mem.users[u.sub]
             kept == [old EXCEPT !.profile = u.profile, !.bio = IF u.bio = Null THEN @ ELSE u.bio]
             made == [profile |-> u.profile, bio |-> u.bio, admin |-> u.admin, followers |-> 0,
                      following |-> 0, createdAt |-> now, deleted |-> FALSE]
             row == IF u.sub \in DOMAIN mem.users THEN kept ELSE made
  <1>3. made \in UserRec
    BY <1>1, <1>2 DEF UserRec
  <1>4. u.sub \in DOMAIN mem.users => kept \in UserRec
    <2> SUFFICES ASSUME u.sub \in DOMAIN mem.users PROVE kept \in UserRec
      OBVIOUS
    <2>1. old \in UserRec
      BY <1>1 DEF IsMap
    <2> HIDE DEF old
    <2> QED
      BY <1>2, <2>1 DEF UserRec, Null
  <1>5. row \in UserRec
    BY <1>3, <1>4
  <1>6. t = Put(mem.users, u.sub, row)
    <2>1. CASE u.sub \in DOMAIN mem.users
      <3>1. old \in UserRec
        BY <1>1, <2>1 DEF IsMap
      <3>2. t = [mem.users EXCEPT ![u.sub] = kept]
        BY <1>1, <1>2, <2>1, <3>1 DEF Contract!UserUpsert, Contract!Null, Null, IsMap, UserRec
      <3> HIDE DEF kept, t
      <3> QED
        BY <1>1, <2>1, <3>2 DEF Put, IsMap
    <2>2. CASE u.sub \notin DOMAIN mem.users
      <3>1. t = Contract!Inserted(mem.users, u.sub, made)
        BY <2>2 DEF Contract!UserUpsert
      <3> HIDE DEF made, t
      <3> QED
        BY <2>2, <3>1 DEF Contract!Inserted, Put
    <2> QED
      BY <2>1, <2>2
  <1>7. mem' = [mem EXCEPT !.users = t]
    <2>1. mem' = [mem EXCEPT !.users = Put(mem.users, u.sub, row)]
      BY DEF Upsert, Returns, Has
    <2> HIDE DEF t, row
    <2> QED
      BY <1>6, <2>1
  <1>8. IsMap(t, UserRec)
    <2> HIDE DEF t, row
    <2> QED
      BY <1>1, <1>5, <1>6, MapPut
  <1>9. Quiet /\ ret' = <<"Upsert", {u.sub}>>
    BY DEF Upsert, Returns, Quiet
  <1> HIDE DEF t
  <1>10. StoreInv' /\ Tables' = [Tables EXCEPT !.users = t]
    BY <1>8, <1>7, <1>9, UsersWritten
  <1>11. Tables.users = mem.users
    BY DEF Tables
  <1>12. Contract!Upsert(u)
    BY <1>9, <1>10, <1>11 DEF Contract!Upsert, Contract!Answer, Contract!Writes, Quiet, t
  <1>13. Contract!Next
    BY <1>12 DEF Contract!Next, Contract!UserNext
  <1> QED
    BY <1>10, <1>13 DEF Sound

\* UpdateProfile writes a bio that is given, and answers ErrNotFound for a row that
\* is not there.
LEMMA UpdateProfileSound ==
    ASSUME StoreInv, suite = "users", NEW s \in UserSubs, NEW bios \in {{}, {Null}, {1}},
           UpdateProfile(s, bios)
    PROVE  Sound
  <1> DEFINE t == Contract!UserUpdateProfile(mem.users, s, bios)
             b == CHOOSE x \in bios : TRUE
  <1>1. IsMap(mem.users, UserRec) /\ now \in Nat
    BY DEF StoreInv, RowsInv
  <1>2. bios # {} => b \in Nat
    BY DEF Null
  <1> HIDE DEF b
  <1>3. IsMap(t, UserRec)
    BY <1>1, <1>2 DEF Contract!UserUpdateProfile, IsMap, UserRec, b
  <1>4. mem' = [mem EXCEPT !.users = t]
    <2>1. CASE s \notin DOMAIN mem.users
      <3>1. t = mem.users
        BY <1>1, <2>1 DEF Contract!UserUpdateProfile, IsMap
      <3>2. mem' = mem
        BY <2>1 DEF UpdateProfile, Returns, Has
      <3> QED
        BY <3>1, <3>2 DEF StoreInv, RowsInv, Fields
    <2>2. CASE s \in DOMAIN mem.users
      BY <1>1, <1>2, <2>2
         DEF UpdateProfile, Returns, Has, Contract!UserUpdateProfile, IsMap, UserRec, b
    <2> QED
      BY <2>1, <2>2
  <1>5. Quiet /\ ret' = <<"UpdateProfile", DOMAIN mem.users \cap {s}>>
    BY DEF UpdateProfile, Returns, Quiet, Has
  <1> HIDE DEF t
  <1>6. StoreInv' /\ Tables' = [Tables EXCEPT !.users = t]
    BY <1>3, <1>4, <1>5, UsersWritten
  <1>7. Tables.users = mem.users
    BY DEF Tables
  <1>8. Contract!UpdateProfile(s, bios)
    BY <1>5, <1>6, <1>7 DEF Contract!UpdateProfile, Contract!Answer, Contract!Writes, Quiet, t
  <1>9. Contract!Next
    BY <1>8 DEF Contract!Next, Contract!UserNext, Contract!Null, Null
  <1> QED
    BY <1>6, <1>9 DEF Sound

\* Incrementing a counter of a user.
LEMMA IncrementUserSound ==
    ASSUME StoreInv, suite = "users", NEW s \in UserSubs, NEW c \in {"followers", "following"},
           IncrementUser(s, c)
    PROVE  Sound
  <1> DEFINE t == Contract!UserCount(mem.users, s, c, 1)
  <1>1. IsMap(mem.users, UserRec) /\ now \in Nat
    BY DEF StoreInv, RowsInv
  <1>2. \A x \in DOMAIN mem.users : mem.users[x][c] \in Nat
    BY <1>1 DEF IsMap, UserRec
  <1>3. t = [x \in DOMAIN mem.users |-> IF x = s THEN [mem.users[x] EXCEPT ![c] = @ + 1] ELSE mem.users[x]]
    BY <1>2, Greatest DEF Contract!UserCount
  <1> HIDE DEF t
  <1>4. IsMap(t, UserRec)
    BY <1>1, <1>2, <1>3 DEF IsMap, UserRec
  <1>5. mem' = [mem EXCEPT !.users = t]
    <2>1. CASE s \notin DOMAIN mem.users
      <3>1. t = mem.users
        BY <1>1, <1>3, <2>1 DEF IsMap
      <3>2. mem' = mem
        BY <2>1 DEF IncrementUser, Returns, Has
      <3> QED
        BY <3>1, <3>2 DEF StoreInv, RowsInv, Fields
    <2>2. CASE s \in DOMAIN mem.users
      BY <1>1, <1>2, <1>3, <2>2 DEF IncrementUser, Returns, Has, IsMap, UserRec
    <2> QED
      BY <2>1, <2>2
  <1>6. Quiet /\ ret' = <<"CountUser", {}>>
    BY DEF IncrementUser, Returns, Quiet, Has
  <1>7. StoreInv' /\ Tables' = [Tables EXCEPT !.users = t]
    BY <1>4, <1>5, <1>6, UsersWritten
  <1>8. Tables.users = mem.users
    BY DEF Tables
  <1>9. Contract!CountUser(s, c, 1)
    BY <1>6, <1>7, <1>8 DEF Contract!CountUser, Contract!Answer, Contract!Writes, Quiet, t
  <1>10. Contract!Next
    BY <1>9 DEF Contract!Next, Contract!UserNext
  <1> QED
    BY <1>7, <1>10 DEF Sound

\* Decrementing a counter of a user stops at 0.
LEMMA DecrementUserSound ==
    ASSUME StoreInv, suite = "users", NEW s \in UserSubs, NEW c \in {"followers", "following"},
           DecrementUser(s, c)
    PROVE  Sound
  <1> DEFINE t == Contract!UserCount(mem.users, s, c, -1)
  <1>1. IsMap(mem.users, UserRec) /\ now \in Nat
    BY DEF StoreInv, RowsInv
  <1>2. \A x \in DOMAIN mem.users : mem.users[x][c] \in Nat
    BY <1>1 DEF IsMap, UserRec
  <1>3. t = [x \in DOMAIN mem.users |->
                IF x = s THEN [mem.users[x] EXCEPT ![c] = IF @ > 0 THEN @ - 1 ELSE 0]
                ELSE mem.users[x]]
    BY <1>2, Greatest DEF Contract!UserCount
  <1> HIDE DEF t
  <1>4. IsMap(t, UserRec)
    BY <1>1, <1>2, <1>3 DEF IsMap, UserRec
  <1>5. mem' = [mem EXCEPT !.users = t]
    <2>1. CASE ~(s \in DOMAIN mem.users /\ mem.users[s][c] > 0)
      <3>1. t = mem.users
        BY <1>1, <1>2, <1>3, <2>1 DEF IsMap, UserRec
      <3>2. mem' = mem
        BY <2>1 DEF DecrementUser, Returns, Has
      <3> QED
        BY <3>1, <3>2 DEF StoreInv, RowsInv, Fields
    <2>2. CASE s \in DOMAIN mem.users /\ mem.users[s][c] > 0
      BY <1>1, <1>2, <1>3, <2>2 DEF DecrementUser, Returns, Has, IsMap, UserRec
    <2> QED
      BY <2>1, <2>2
  <1>6. Quiet /\ ret' = <<"CountUser", {}>>
    BY DEF DecrementUser, Returns, Quiet, Has
  <1>7. StoreInv' /\ Tables' = [Tables EXCEPT !.users = t]
    BY <1>4, <1>5, <1>6, UsersWritten
  <1>8. Tables.users = mem.users
    BY DEF Tables
  <1>9. Contract!CountUser(s, c, -1)
    BY <1>6, <1>7, <1>8 DEF Contract!CountUser, Contract!Answer, Contract!Writes, Quiet, t
  <1>10. Contract!Next
    BY <1>9 DEF Contract!Next, Contract!UserNext
  <1> QED
    BY <1>7, <1>10 DEF Sound

\* Deleting a user marks the row.
LEMMA DeleteUserSound ==
    ASSUME StoreInv, suite = "users", NEW s \in UserSubs, DeleteUser(s)
    PROVE  Sound
  <1> DEFINE t == Contract!SoftDelete(mem.users, s)
  <1>1. IsMap(mem.users, UserRec) /\ now \in Nat
    BY DEF StoreInv, RowsInv
  <1>2. IsMap(t, UserRec)
    BY <1>1 DEF IsMap, UserRec, Contract!SoftDelete
  <1>3. mem' = [mem EXCEPT !.users = t]
    <2>1. CASE s \notin DOMAIN mem.users
      <3>1. t = mem.users
        BY <1>1, <2>1 DEF IsMap, Contract!SoftDelete
      <3>2. mem' = mem
        BY <2>1 DEF DeleteUser, Returns, Has
      <3> QED
        BY <3>1, <3>2 DEF StoreInv, RowsInv, Fields
    <2>2. CASE s \in DOMAIN mem.users
      BY <1>1, <2>2 DEF DeleteUser, Returns, Has, IsMap, UserRec, Contract!SoftDelete
    <2> QED
      BY <2>1, <2>2
  <1>4. Quiet /\ ret' = <<"DeleteUser", {}>>
    BY DEF DeleteUser, Returns, Quiet, Has
  <1> HIDE DEF t
  <1>5. StoreInv' /\ Tables' = [Tables EXCEPT !.users = t]
    BY <1>2, <1>3, <1>4, UsersWritten
  <1>6. Tables.users = mem.users
    BY DEF Tables
  <1>7. Contract!DeleteUser(s)
    BY <1>4, <1>5, <1>6 DEF Contract!DeleteUser, Contract!Answer, Contract!Writes, Quiet, t
  <1>8. Contract!Next
    BY <1>7 DEF Contract!Next, Contract!UserNext
  <1> QED
    BY <1>5, <1>8 DEF Sound

\* The steps of the user repository.
LEMMA UserSound ==
    ASSUME StoreInv, UserNext
    PROVE  Sound
  <1>1. suite = "users"
    BY DEF UserNext
  <1>2. CASE \E u \in Contract!UserInputs : Upsert(u)
    BY <1>1, <1>2, UpsertSound
  <1>3. CASE \E s \in UserSubs : \E bios \in {{}, {Null}, {1}} : UpdateProfile(s, bios)
    BY <1>1, <1>3, UpdateProfileSound
  <1>4. CASE \E s \in UserSubs : \E c \in {"followers", "following"} :
               IncrementUser(s, c) \/ DecrementUser(s, c)
    BY <1>1, <1>4, IncrementUserSound, DecrementUserSound
  <1>5. CASE \E s \in UserSubs : DeleteUser(s)
    BY <1>1, <1>5, DeleteUserSound
  <1> QED
    BY <1>2, <1>3, <1>4, <1>5 DEF UserNext

\* Time passes in both.
LEMMA TickSound ==
    ASSUME StoreInv, Tick
    PROVE  Sound
  <1>1. /\ now' = now + 1 /\ suite' = suite /\ mem' = mem /\ creating' = creating
        /\ reading' = reading /\ ret' = ret
    BY DEF Tick
  <1>2. RowsInv'
    BY <1>1 DEF StoreInv, RowsInv
  <1>3. StoreInv'
    BY <1>1, <1>2 DEF StoreInv, OgpInv, LinksInv, CallInv, IndexesConsistent, Indexes, Published
  <1>4. Tables' = Tables
    BY <1>1 DEF Tables, LikeRows, ImageLinks, TagLinks, OgpLinks, Published
  <1>5. Contract!Tick
    BY <1>1, <1>4 DEF Contract!Tick
  <1> QED
    BY <1>3, <1>5 DEF Sound, Contract!Next

\* Creating a follow reports whether the edge is new, as the INSERT does.
LEMMA CreateFollowSound ==
    ASSUME StoreInv, suite = "follows", NEW a \in Subs, NEW b \in Subs, a # b,
           CreateFollow(<<a, b>>)
    PROVE  Sound
  <1> DEFINE k == <<a, b>>
             t == Contract!FollowCreate(mem.follows, k, now)
             new == k \notin DOMAIN mem.follows
  <1>1. IsMap(mem.follows, Nat) /\ now \in Nat
    BY DEF StoreInv, RowsInv
  <1> HIDE DEF k
  <1>2. CreateFollow(k)
    BY DEF k
  <1>3. IsMap(t, Nat)
    BY <1>1 DEF IsMap, Contract!FollowCreate, Contract!Inserted
  <1>4. mem' = [mem EXCEPT !.follows = t]
    <2>1. CASE k \in DOMAIN mem.follows
      <3>1. t = mem.follows
        BY <1>1, <2>1 DEF IsMap, Contract!FollowCreate, Contract!Inserted
      <3>2. mem' = mem
        BY <1>2, <2>1 DEF CreateFollow, Returns, Has
      <3> QED
        BY <3>1, <3>2 DEF StoreInv, RowsInv, Fields
    <2>2. CASE k \notin DOMAIN mem.follows
      <3>1. t = Put(mem.follows, k, now)
        BY <1>1, <2>2 DEF IsMap, Contract!FollowCreate, Contract!Inserted, Put
      <3>2. mem' = [mem EXCEPT !.follows = Put(mem.follows, k, now)]
        BY <1>2, <2>2 DEF CreateFollow, Returns, Has
      <3> QED
        BY <3>1, <3>2
    <2> QED
      BY <2>1, <2>2
  <1>5. Quiet
    BY <1>2 DEF CreateFollow, Returns, Quiet, Has
  <1>6. ret' = <<"CreateFollow", new>>
    <2>1. CASE k \in DOMAIN mem.follows
      <3>1. new = FALSE
        BY <2>1
      <3>2. ret' = <<"CreateFollow", FALSE>>
        BY <1>2, <2>1, Zenon DEF CreateFollow, Returns, Has
      <3> QED
        BY <3>1, <3>2, Zenon
    <2>2. CASE k \notin DOMAIN mem.follows
      <3>1. new = TRUE
        BY <2>2
      <3>2. ret' = <<"CreateFollow", TRUE>>
        BY <1>2, <2>2, Zenon DEF CreateFollow, Returns, Has
      <3> QED
        BY <3>1, <3>2, Zenon
    <2> QED
      BY <2>1, <2>2, Zenon
  <1> HIDE DEF t
  <1>7. StoreInv' /\ Tables' = [Tables EXCEPT !.follows = t]
    BY <1>3, <1>4, <1>5, FollowsWritten
  <1>8. Tables.follows = mem.follows
    BY DEF Tables
  <1>9. Tables' = [Tables EXCEPT !.follows = Contract!FollowCreate(Tables.follows, k, now)]
    BY <1>7, <1>8 DEF t
  <1>10. ret' = <<"CreateFollow", k \notin DOMAIN Tables.follows>>
    BY <1>6, <1>8, Zenon
  <1>11. Contract!CreateFollow(k)
    BY <1>5, <1>9, <1>10, Zenon DEF Contract!CreateFollow, Contract!Answer, Contract!Writes, Quiet
  <1>12. Contract!Next
    BY <1>2, <1>11, Zenon DEF Contract!Next, Contract!FollowNext, k
  <1> QED
    BY <1>7, <1>12 DEF Sound

\* Deleting a follow reports whether there was an edge.
LEMMA DeleteFollowSound ==
    ASSUME StoreInv, suite = "follows", NEW a \in Subs, NEW b \in Subs, a # b,
           DeleteFollow(<<a, b>>)
    PROVE  Sound
  <1> DEFINE k == <<a, b>>
             t == Contract!FollowDelete(mem.follows, k)
             old == k \in DOMAIN mem.follows
  <1>1. IsMap(mem.follows, Nat) /\ now \in Nat
    BY DEF StoreInv, RowsInv
  <1> HIDE DEF k
  <1>2. DeleteFollow(k)
    BY DEF k
  <1>3. IsMap(t, Nat)
    BY <1>1 DEF IsMap, Contract!FollowDelete, Contract!Restrict
  <1>4. mem' = [mem EXCEPT !.follows = t]
    <2>1. CASE k \notin DOMAIN mem.follows
      <3>1. t = mem.follows
        BY <1>1, <2>1 DEF IsMap, Contract!FollowDelete, Contract!Restrict
      <3>2. mem' = mem
        BY <1>2, <2>1 DEF DeleteFollow, Returns, Has
      <3> QED
        BY <3>1, <3>2 DEF StoreInv, RowsInv, Fields
    <2>2. CASE k \in DOMAIN mem.follows
      <3>1. t = Without(mem.follows, k)
        BY <1>1, <2>2 DEF IsMap, Contract!FollowDelete, Contract!Restrict, Without, Restrict
      <3>2. mem' = [mem EXCEPT !.follows = Without(mem.follows, k)]
        BY <1>2, <2>2 DEF DeleteFollow, Returns, Has
      <3> QED
        BY <3>1, <3>2
    <2> QED
      BY <2>1, <2>2
  <1>5. Quiet
    BY <1>2 DEF DeleteFollow, Returns, Quiet, Has
  <1>6. ret' = <<"DeleteFollow", old>>
    <2>1. CASE k \notin DOMAIN mem.follows
      <3>1. old = FALSE
        BY <2>1
      <3>2. ret' = <<"DeleteFollow", FALSE>>
        BY <1>2, <2>1, Zenon DEF DeleteFollow, Returns, Has
      <3> QED
        BY <3>1, <3>2, Zenon
    <2>2. CASE k \in DOMAIN mem.follows
      <3>1. old = TRUE
        BY <2>2
      <3>2. ret' = <<"DeleteFollow", TRUE>>
        BY <1>2, <2>2, Zenon DEF DeleteFollow, Returns, Has
      <3> QED
        BY <3>1, <3>2, Zenon
    <2> QED
      BY <2>1, <2>2, Zenon
  <1> HIDE DEF t
  <1>7. StoreInv' /\ Tables' = [Tables EXCEPT !.follows = t]
    BY <1>3, <1>4, <1>5, FollowsWritten
  <1>8. Tables.follows = mem.follows
    BY DEF Tables
  <1>9. Tables' = [Tables EXCEPT !.follows = Contract!FollowDelete(Tables.follows, k)]
    BY <1>7, <1>8 DEF t
  <1>10. ret' = <<"DeleteFollow", k \in DOMAIN Tables.follows>>
    BY <1>6, <1>8, Zenon
  <1>11. Contract!DeleteFollow(k)
    BY <1>5, <1>9, <1>10, Zenon DEF Contract!DeleteFollow, Contract!Answer, Contract!Writes, Quiet
  <1>12. Contract!Next
    BY <1>2, <1>11, Zenon DEF Contract!Next, Contract!FollowNext, k
  <1> QED
    BY <1>7, <1>12 DEF Sound

\* The steps of the follow repository.
LEMMA FollowSound ==
    ASSUME StoreInv, FollowNext
    PROVE  Sound
  BY CreateFollowSound, DeleteFollowSound DEF FollowNext

(***************************************************************************)
(* Likes                                                                   *)
(***************************************************************************)
\* A write to the map of maps of likes is a write to the table likes.
LEMMA LikesWritten ==
    ASSUME StoreInv, NEW t, IsMap(t, SUBSET PostIds), mem' = [mem EXCEPT !.likes = t], Quiet
    PROVE  StoreInv' /\ Tables' = [Tables EXCEPT !.likes = UNION {{u} \X t[u] : u \in DOMAIN t}]
  <1>1. OnlyIn({"likes"}) /\ mem'.likes = t
    BY OneField DEF StoreInv, Fields
  <1>2. /\ mem'.posts = mem.posts /\ mem'.images = mem.images /\ mem'.postImages = mem.postImages
        /\ mem'.postTags = mem.postTags /\ mem'.postOGPs = mem.postOGPs
        /\ mem'.tags = mem.tags /\ mem'.byName = mem.byName /\ mem'.badges = mem.badges
        /\ mem'.byKey = mem.byKey
    BY <1>1 DEF OnlyIn, Fields
  <1>3. RowsInv'
    BY <1>1 DEF StoreInv, RowsInv, OnlyIn, Fields, Quiet
  <1>4. OgpInv' /\ LinksInv' /\ IndexesConsistent'
    BY <1>2 DEF StoreInv, OgpInv, LinksInv, CallInv, IndexesConsistent, Indexes, Quiet, Published
  <1>5. ImageLinks' = ImageLinks /\ TagLinks' = TagLinks /\ OgpLinks' = OgpLinks
    BY <1>2 DEF ImageLinks, TagLinks, OgpLinks, Published
  <1>6. LikeRows' = UNION {{u} \X t[u] : u \in DOMAIN t}
    BY <1>1 DEF LikeRows
  <1> DEFINE r == UNION {{u} \X t[u] : u \in DOMAIN t}
  <1>7. LikeRows' = r
    BY <1>6
  <1> HIDE DEF r
  <1>8. Tables' = [Tables EXCEPT !.likes = r]
    BY <1>1, <1>2, <1>5, <1>7 DEF OnlyIn, Fields, Tables
  <1> QED
    BY <1>3, <1>4, <1>8 DEF StoreInv, r

\* Creating a like reports whether the row is new.
LEMMA CreateLikeSound ==
    ASSUME StoreInv, suite = "likes", NEW u \in Subs, NEW p \in PostIds, CreateLike(u, p)
    PROVE  Sound
  <1> DEFINE old == Get(mem.likes, u, {})
             t == Put(mem.likes, u, old \cup {p})
             r == UNION {{v} \X t[v] : v \in DOMAIN t}
  <1>1. IsMap(mem.likes, SUBSET PostIds)
    BY DEF StoreInv, RowsInv
  <1>2. old \in SUBSET PostIds
    BY <1>1 DEF Get, Has, IsMap
  <1>3. \A q : q \in old <=> <<u, q>> \in LikeRows
    BY <1>1 DEF Get, Has, IsMap, LikeRows
  <1>4. IsMap(t, SUBSET PostIds)
    <2> HIDE DEF old
    <2>1. old \cup {p} \in SUBSET PostIds
      BY <1>2
    <2> QED
      BY <1>1, <2>1, MapPut
  <1>5. r = LikeRows \cup {<<u, p>>}
    <2>1. ASSUME NEW x \in r PROVE x \in LikeRows \cup {<<u, p>>}
      <3>1. PICK v \in DOMAIN t : x \in {v} \X t[v]
        OBVIOUS
      <3>2. CASE v = u
        BY <1>3, <3>1, <3>2 DEF Put
      <3>3. CASE v # u
        BY <3>1, <3>3 DEF Put, LikeRows
      <3> QED
        BY <3>2, <3>3
    <2>2. ASSUME NEW x \in LikeRows PROVE x \in r
      <3>1. PICK v \in DOMAIN mem.likes : x \in {v} \X mem.likes[v]
        BY DEF LikeRows
      <3>2. v \in DOMAIN t /\ mem.likes[v] \subseteq t[v]
        BY <3>1 DEF Put, Get, Has
      <3> QED
        BY <3>1, <3>2
    <2>3. <<u, p>> \in r
      <3>1. u \in DOMAIN t /\ p \in t[u]
        BY DEF Put
      <3> QED
        BY <3>1
    <2> QED
      BY <2>1, <2>2, <2>3
  <1>6. mem' = [mem EXCEPT !.likes = t] /\ Quiet
    BY DEF CreateLike, Returns, Quiet
  <1>7. ret' = <<"CreateLike", p \notin old>>
    BY Zenon DEF CreateLike, Returns
  <1> HIDE DEF t
  <1>8. StoreInv' /\ Tables' = [Tables EXCEPT !.likes = r]
    BY <1>4, <1>6, LikesWritten
  <1> HIDE DEF r, old
  <1>9. Tables.likes = LikeRows
    BY DEF Tables
  <1>10. Tables' = [Tables EXCEPT !.likes = Contract!LikeCreate(Tables.likes, u, p)]
    BY <1>5, <1>8, <1>9 DEF Contract!LikeCreate
  <1>11. ret' = <<"CreateLike", <<u, p>> \notin Tables.likes>>
    <2>1. (p \notin old) = (<<u, p>> \notin Tables.likes)
      BY <1>3, <1>9
    <2> QED
      BY <1>7, <2>1, Zenon
  <1>12. Contract!CreateLike(u, p)
    BY <1>6, <1>10, <1>11, Zenon DEF Contract!CreateLike, Contract!Answer, Contract!Writes, Quiet
  <1>13. Contract!Next
    BY <1>12, Zenon DEF Contract!Next, Contract!LikeNext
  <1> QED
    BY <1>8, <1>13 DEF Sound

\* Deleting a like reports whether there was a row.
LEMMA DeleteLikeSound ==
    ASSUME StoreInv, suite = "likes", NEW u \in Subs, NEW p \in PostIds, DeleteLike(u, p)
    PROVE  Sound
  <1> DEFINE old == Get(mem.likes, u, {})
             r == LikeRows \ {<<u, p>>}
  <1>1. IsMap(mem.likes, SUBSET PostIds)
    BY DEF StoreInv, RowsInv
  <1>2. \A q : q \in old <=> <<u, q>> \in LikeRows
    BY <1>1 DEF Get, Has, IsMap, LikeRows
  <1>3. Quiet
    BY DEF DeleteLike, Returns, Quiet
  <1>4. Tables.likes = LikeRows
    BY DEF Tables
  <1>5. StoreInv' /\ Tables' = [Tables EXCEPT !.likes = r]
    <2>1. CASE p \notin old
      <3>1. mem' = mem
        BY <2>1 DEF DeleteLike, Returns
      <3>2. r = LikeRows
        BY <1>2, <2>1
      <3>3. StoreInv' /\ Tables' = Tables
        BY <1>3, <3>1, NothingWritten
      <3> HIDE DEF r
      <3> QED
        BY <1>4, <3>2, <3>3 DEF Tables
    <2>2. CASE p \in old
      <3> DEFINE t == [mem.likes EXCEPT ![u] = @ \ {p}]
                 s == UNION {{v} \X t[v] : v \in DOMAIN t}
      <3>1. u \in DOMAIN mem.likes
        BY <2>2 DEF Get, Has
      <3>2. mem' = [mem EXCEPT !.likes = t]
        BY <2>2 DEF DeleteLike, Returns
      <3>3. IsMap(t, SUBSET PostIds)
        BY <1>1, <3>1 DEF IsMap
      <3>4. s = r
        <4>1. ASSUME NEW x \in s PROVE x \in r
          <5>1. PICK v \in DOMAIN t : x \in {v} \X t[v]
            OBVIOUS
          <5> QED
            BY <1>1, <3>1, <5>1 DEF IsMap, LikeRows
        <4>2. ASSUME NEW x \in r PROVE x \in s
          <5>1. PICK v \in DOMAIN mem.likes : x \in {v} \X mem.likes[v]
            BY DEF LikeRows
          <5>2. v \in DOMAIN t /\ x \in {v} \X t[v]
            BY <1>1, <5>1 DEF IsMap
          <5> QED
            BY <5>2
        <4> QED
          BY <4>1, <4>2
      <3> HIDE DEF t
      <3>5. StoreInv' /\ Tables' = [Tables EXCEPT !.likes = s]
        BY <1>3, <3>2, <3>3, LikesWritten
      <3> HIDE DEF r, s
      <3> QED
        BY <3>4, <3>5
    <2> QED
      BY <2>1, <2>2
  <1> HIDE DEF r, old
  <1>6. ret' = <<"DeleteLike", p \in old>>
    <2>1. CASE p \notin old
      <3>1. (p \in old) = FALSE
        BY <2>1
      <3>2. ret' = <<"DeleteLike", FALSE>>
        BY <2>1, Zenon DEF DeleteLike, Returns, old
      <3> QED
        BY <3>1, <3>2, Zenon
    <2>2. CASE p \in old
      <3>1. (p \in old) = TRUE
        BY <2>2
      <3>2. ret' = <<"DeleteLike", TRUE>>
        BY <2>2, Zenon DEF DeleteLike, Returns, old
      <3> QED
        BY <3>1, <3>2, Zenon
    <2> QED
      BY <2>1, <2>2, Zenon
  <1>7. Tables' = [Tables EXCEPT !.likes = Contract!LikeDelete(Tables.likes, u, p)]
    BY <1>4, <1>5 DEF Contract!LikeDelete, r
  <1>8. ret' = <<"DeleteLike", <<u, p>> \in Tables.likes>>
    <2>1. (p \in old) = (<<u, p>> \in Tables.likes)
      BY <1>2, <1>4
    <2> QED
      BY <1>6, <2>1, Zenon
  <1>9. Contract!DeleteLike(u, p)
    BY <1>3, <1>7, <1>8, Zenon DEF Contract!DeleteLike, Contract!Answer, Contract!Writes, Quiet
  <1>10. Contract!Next
    BY <1>9, Zenon DEF Contract!Next, Contract!LikeNext
  <1> QED
    BY <1>5, <1>10 DEF Sound

\* The steps of the like repository.
LEMMA LikeSound ==
    ASSUME StoreInv, LikeNext
    PROVE  Sound
  BY CreateLikeSound, DeleteLikeSound DEF LikeNext

(***************************************************************************)
(* Badges                                                                  *)
(***************************************************************************)
\* A write to the badges and to their index is one write to the table badges.
LEMMA BadgesWritten ==
    ASSUME StoreInv, NEW t, NEW k, IsMap(t, BadgeRec), IsMap(k, BadgeIds),
           Indexes(k, [b \in DOMAIN t |-> t[b].key]),
           mem' = [mem EXCEPT !.badges = t, !.byKey = k], Quiet
    PROVE  StoreInv' /\ Tables' = [Tables EXCEPT !.badges = t]
  <1>1. OnlyIn({"badges", "byKey"}) /\ mem'.badges = t /\ mem'.byKey = k
    BY DEF StoreInv, RowsInv, Fields, OnlyIn
  <1>2. /\ mem'.posts = mem.posts /\ mem'.images = mem.images /\ mem'.postImages = mem.postImages
        /\ mem'.postTags = mem.postTags /\ mem'.postOGPs = mem.postOGPs
        /\ mem'.tags = mem.tags /\ mem'.byName = mem.byName /\ mem'.likes = mem.likes
    BY <1>1 DEF OnlyIn, Fields
  <1>3. RowsInv'
    BY <1>1 DEF StoreInv, RowsInv, OnlyIn, Fields, Quiet
  <1>4. OgpInv' /\ LinksInv'
    BY <1>2 DEF StoreInv, OgpInv, LinksInv, CallInv, Quiet, Published
  <1>5. LikeRows' = LikeRows /\ ImageLinks' = ImageLinks /\ TagLinks' = TagLinks /\ OgpLinks' = OgpLinks
    BY <1>2 DEF LikeRows, ImageLinks, TagLinks, OgpLinks, Published
  <1>6. IndexesConsistent'
    BY <1>1, <1>2 DEF StoreInv, IndexesConsistent
  <1>7. Tables' = [Tables EXCEPT !.badges = t]
    BY <1>1, <1>2, <1>5 DEF OnlyIn, Fields, Tables
  <1> QED
    BY <1>3, <1>4, <1>6, <1>7 DEF StoreInv

\* Create refuses a key that the index holds, as UNIQUE(key) does.
LEMMA CreateBadgeSound ==
    ASSUME StoreInv, suite = "badges", NEW b \in BadgeIds, NEW key \in Keys,
           NEW pr \in Priorities, CreateBadge(b, key, pr)
    PROVE  Sound
  <1> DEFINE t == Contract!BadgeCreate(mem.badges, b, key, pr)
             row == [key |-> key, priority |-> pr]
  <1>1. /\ IsMap(mem.badges, BadgeRec) /\ IsMap(mem.byKey, BadgeIds)
        /\ Indexes(mem.byKey, [x \in DOMAIN mem.badges |-> mem.badges[x].key])
    BY DEF StoreInv, RowsInv, IndexesConsistent
  <1>2. b \notin DOMAIN mem.badges /\ Quiet
    BY DEF CreateBadge, Returns, Quiet, Has
  <1>3. Tables.badges = mem.badges
    BY DEF Tables
  <1>4. (Contract!BadgeByKey(mem.badges, key) # {}) <=> key \in DOMAIN mem.byKey
    BY <1>1 DEF Contract!BadgeByKey, Indexes, Has
  <1>5. /\ StoreInv' /\ Tables' = [Tables EXCEPT !.badges = t]
        /\ ret' = <<"CreateBadge", DOMAIN t \cap {b}>>
    <2>1. CASE key \in DOMAIN mem.byKey
      <3>1. t = mem.badges
        BY <1>4, <2>1 DEF Contract!BadgeCreate
      <3>2. mem' = mem /\ ret' = <<"CreateBadge", {}>>
        BY <2>1 DEF CreateBadge, Returns, Has
      <3>3. StoreInv' /\ Tables' = Tables
        BY <1>2, <3>2, NothingWritten
      <3> HIDE DEF t
      <3>4. Tables' = [Tables EXCEPT !.badges = t]
        BY <1>3, <3>1, <3>3 DEF Tables
      <3>5. DOMAIN t \cap {b} = {}
        BY <1>2, <3>1
      <3> QED
        BY <3>2, <3>3, <3>4, <3>5
    <2>2. CASE key \notin DOMAIN mem.byKey
      <3> DEFINE k == Put(mem.byKey, key, b)
      <3>1. row \in BadgeRec /\ row.key = key
        BY DEF BadgeRec
      <3> HIDE DEF row
      <3>2. t = Put(mem.badges, b, row)
        BY <1>2, <1>4, <2>2 DEF Contract!BadgeCreate, Contract!Inserted, Put, row
      <3>3. mem' = [mem EXCEPT !.badges = Put(mem.badges, b, row), !.byKey = k] /\ ret' = <<"CreateBadge", {b}>>
        BY <2>2 DEF CreateBadge, Returns, Has, row
      <3> HIDE DEF t, k
      <3>4. /\ IsMap(t, BadgeRec) /\ DOMAIN t = DOMAIN mem.badges \cup {b} /\ t[b] = row
            /\ \A x \in DOMAIN mem.badges : x # b => t[x] = mem.badges[x]
        <4>1. /\ IsMap(Put(mem.badges, b, row), BadgeRec)
              /\ DOMAIN Put(mem.badges, b, row) = DOMAIN mem.badges \cup {b}
              /\ Put(mem.badges, b, row)[b] = row
              /\ \A x \in DOMAIN mem.badges : x # b => Put(mem.badges, b, row)[x] = mem.badges[x]
          BY <1>1, <3>1 DEF Put, IsMap
        <4> QED
          BY <3>2, <4>1
      <3>5. /\ IsMap(k, BadgeIds) /\ DOMAIN k = DOMAIN mem.byKey \cup {key} /\ k[key] = b
            /\ \A x \in DOMAIN mem.byKey : x # key => k[x] = mem.byKey[x]
        <4>1. /\ IsMap(Put(mem.byKey, key, b), BadgeIds)
              /\ DOMAIN Put(mem.byKey, key, b) = DOMAIN mem.byKey \cup {key}
              /\ Put(mem.byKey, key, b)[key] = b
              /\ \A x \in DOMAIN mem.byKey : x # key => Put(mem.byKey, key, b)[x] = mem.byKey[x]
          BY <1>1 DEF Put, IsMap
        <4> QED
          BY <4>1 DEF k
      <3>6. Indexes(k, [x \in DOMAIN t |-> t[x].key])
        <4>1. /\ \A x \in DOMAIN mem.byKey :
                   mem.byKey[x] \in DOMAIN mem.badges /\ mem.badges[mem.byKey[x]].key = x
              /\ \A x \in DOMAIN mem.badges :
                   mem.badges[x].key \in DOMAIN mem.byKey /\ mem.byKey[mem.badges[x].key] = x
          BY <1>1 DEF Indexes, Has
        <4>2. ASSUME NEW x \in DOMAIN k PROVE k[x] \in DOMAIN t /\ t[k[x]].key = x
          <5>1. CASE x = key
            BY <3>1, <3>4, <3>5, <5>1
          <5>2. CASE x # key
            BY <1>2, <3>4, <3>5, <4>1, <5>2
          <5> QED
            BY <5>1, <5>2
        <4>3. ASSUME NEW x \in DOMAIN t PROVE t[x].key \in DOMAIN k /\ k[t[x].key] = x
          <5>1. CASE x = b
            BY <3>1, <3>4, <3>5, <5>1
          <5>2. CASE x # b
            BY <2>2, <3>4, <3>5, <4>1, <5>2
          <5> QED
            BY <5>1, <5>2
        <4> QED
          BY <4>2, <4>3 DEF Indexes, Has
      <3>7. mem' = [mem EXCEPT !.badges = t, !.byKey = k]
        BY <3>2, <3>3
      <3>8. StoreInv' /\ Tables' = [Tables EXCEPT !.badges = t]
        BY <1>2, <3>4, <3>5, <3>6, <3>7, BadgesWritten
      <3>9. DOMAIN t \cap {b} = {b}
        BY <3>4
      <3> QED
        BY <3>3, <3>8, <3>9
    <2> QED
      BY <2>1, <2>2
  <1> HIDE DEF t
  <1>6. Tables'.badges = t
    BY <1>5 DEF Tables
  <1>7. Contract!CreateBadge(b, key, pr)
    BY <1>2, <1>3, <1>5, <1>6 DEF Contract!CreateBadge, Contract!Answer, Contract!Writes, Quiet, t
  <1>8. Contract!Next
    BY <1>7 DEF Contract!Next, Contract!BadgeNext
  <1> QED
    BY <1>5, <1>8 DEF Sound

\* Update changes the priority and keeps the key.
LEMMA UpdateBadgeSound ==
    ASSUME StoreInv, suite = "badges", NEW b \in BadgeIds, NEW pr \in Priorities,
           UpdateBadge(b, pr)
    PROVE  Sound
  <1> DEFINE t == Contract!BadgeUpdate(mem.badges, b, pr)
  <1>1. /\ IsMap(mem.badges, BadgeRec) /\ IsMap(mem.byKey, BadgeIds)
        /\ Indexes(mem.byKey, [x \in DOMAIN mem.badges |-> mem.badges[x].key])
    BY DEF StoreInv, RowsInv, IndexesConsistent
  <1>2. Quiet /\ ret' = <<"UpdateBadge", DOMAIN mem.badges \cap {b}>>
    BY DEF UpdateBadge, Returns, Quiet, Has
  <1>3. Tables.badges = mem.badges
    BY DEF Tables
  <1>4. /\ IsMap(t, BadgeRec) /\ DOMAIN t = DOMAIN mem.badges
        /\ \A x \in DOMAIN t : t[x].key = mem.badges[x].key
    BY <1>1 DEF Contract!BadgeUpdate, IsMap, BadgeRec
  <1>5. Indexes(mem.byKey, [x \in DOMAIN t |-> t[x].key])
    <2> HIDE DEF t
    <2> QED
      BY <1>1, <1>4 DEF Indexes, Has
  <1>6. mem' = [mem EXCEPT !.badges = t, !.byKey = mem.byKey]
    <2>1. CASE b \notin DOMAIN mem.badges
      <3>1. t = mem.badges
        BY <1>1, <2>1 DEF IsMap, Contract!BadgeUpdate
      <3>2. mem' = mem
        BY <2>1 DEF UpdateBadge, Returns, Has
      <3> QED
        BY <3>1, <3>2 DEF StoreInv, RowsInv, Fields
    <2>2. CASE b \in DOMAIN mem.badges
      <3>1. t = [mem.badges EXCEPT ![b].priority = pr]
        BY <1>1, <2>2 DEF IsMap, BadgeRec, Contract!BadgeUpdate
      <3>2. mem' = [mem EXCEPT !.badges = [mem.badges EXCEPT ![b].priority = pr]]
        BY <2>2 DEF UpdateBadge, Returns, Has
      <3> QED
        BY <3>1, <3>2 DEF StoreInv, RowsInv, Fields
    <2> QED
      BY <2>1, <2>2
  <1> HIDE DEF t
  <1>7. StoreInv' /\ Tables' = [Tables EXCEPT !.badges = t]
    BY <1>1, <1>2, <1>4, <1>5, <1>6, BadgesWritten
  <1>8. Contract!UpdateBadge(b, pr)
    BY <1>2, <1>3, <1>7 DEF Contract!UpdateBadge, Contract!Answer, Contract!Writes, Quiet, t
  <1>9. Contract!Next
    BY <1>8 DEF Contract!Next, Contract!BadgeNext
  <1> QED
    BY <1>7, <1>9 DEF Sound

\* Grant inserts or replaces the grant of a badge.
LEMMA GrantSound ==
    ASSUME StoreInv, suite = "badges", NEW b \in BadgeIds, b \in DOMAIN mem.badges,
           NEW u \in UserSubs, NEW until \in {Null, now + 1}, Grant(u, b, 1, until)
    PROVE  Sound
  <1> DEFINE row == [at |-> now, by |-> 1, expiresAt |-> until]
             t == Put(mem.userBadges, <<u, b>>, row)
  <1>1. IsMap(mem.userBadges, GrantRec) /\ now \in Nat /\ until \in Nat
    BY DEF StoreInv, RowsInv, Null
  <1>2. row \in GrantRec
    BY <1>1 DEF GrantRec
  <1>3. /\ Quiet /\ ret' = <<"Grant", {}>> /\ mem' = [mem EXCEPT !.userBadges = t]
    BY DEF Grant, Returns, Quiet
  <1>4. t = Contract!BadgeGrant(mem.userBadges, u, b, 1, until, now)
    BY DEF Contract!BadgeGrant, Contract!Replaced, Put
  <1> HIDE DEF row
  <1>5. IsMap(t, GrantRec)
    BY <1>1, <1>2, MapPut
  <1> HIDE DEF t
  <1>6. StoreInv' /\ Tables' = [Tables EXCEPT !.grants = t]
    BY <1>3, <1>5, GrantsWritten
  <1>7. Tables.grants = mem.userBadges /\ Tables.badges = mem.badges
    BY DEF Tables
  <1>8. Contract!Grant(u, b, 1, until)
    BY <1>3, <1>4, <1>6, <1>7 DEF Contract!Grant, Contract!Answer, Contract!Writes, Quiet
  <1>9. Contract!Next
    BY <1>7, <1>8 DEF Contract!Next, Contract!BadgeNext, Contract!Null, Null
  <1> QED
    BY <1>6, <1>9 DEF Sound

\* Revoke answers ErrNotFound for a grant that is not there.
LEMMA RevokeSound ==
    ASSUME StoreInv, suite = "badges", NEW b \in BadgeIds, b \in DOMAIN mem.badges,
           NEW u \in UserSubs, Revoke(u, b)
    PROVE  Sound
  <1> DEFINE t == Without(mem.userBadges, <<u, b>>)
  <1>1. IsMap(mem.userBadges, GrantRec)
    BY DEF StoreInv, RowsInv
  <1>2. /\ Quiet /\ ret' = <<"Revoke", {}>> /\ mem' = [mem EXCEPT !.userBadges = t]
    BY DEF Revoke, Returns, Quiet
  <1>3. t = Contract!BadgeRevoke(mem.userBadges, u, b)
    BY DEF Contract!BadgeRevoke, Contract!Restrict, Without, Restrict
  <1>4. IsMap(t, GrantRec)
    BY <1>1, MapWithout
  <1> HIDE DEF t
  <1>5. StoreInv' /\ Tables' = [Tables EXCEPT !.grants = t]
    BY <1>2, <1>4, GrantsWritten
  <1>6. Tables.grants = mem.userBadges /\ Tables.badges = mem.badges
    BY DEF Tables
  <1>7. Contract!Revoke(u, b)
    BY <1>2, <1>3, <1>5, <1>6 DEF Contract!Revoke, Contract!Answer, Contract!Writes, Quiet
  <1>8. Contract!Next
    BY <1>6, <1>7 DEF Contract!Next, Contract!BadgeNext
  <1> QED
    BY <1>5, <1>8 DEF Sound

\* The steps of the badge repository.
LEMMA BadgeSound ==
    ASSUME StoreInv, BadgeNext
    PROVE  Sound
  <1>1. suite = "badges"
    BY DEF BadgeNext
  <1> QED
    BY <1>1, CreateBadgeSound, UpdateBadgeSound, GrantSound, RevokeSound DEF BadgeNext, Has

(***************************************************************************)
(* Previews and their jobs                                                 *)
(***************************************************************************)
\* An upsert of a preview.
LEMMA UpsertPreviewSound ==
    ASSUME StoreInv, suite = "ogp", NEW h \in Hashes, NEW v \in Previews,
           UpsertPreview(h, [status |-> v, fetchedAt |-> now])
    PROVE  Sound
  <1> DEFINE row == [status |-> v, fetchedAt |-> now]
             t == Put(mem.rows, h, row)
  <1>1. IsMap(mem.rows, CacheRec) /\ DOMAIN mem.rows \subseteq Hashes /\ now \in Nat /\ now # 0
    BY DEF StoreInv, RowsInv
  <1>2. row \in CacheRec
    BY <1>1 DEF CacheRec
  <1>3. /\ Quiet /\ ret' = <<"UpsertPreview", {}>> /\ mem' = [mem EXCEPT !.rows = t]
    BY DEF UpsertPreview, Returns, Quiet
  <1>4. [row EXCEPT !.fetchedAt = IF @ = Contract!Null THEN now ELSE @] = row
    BY <1>1 DEF Contract!Null
  <1>5. t = Contract!CacheUpsert(mem.rows, h, row, now)
    <2> HIDE DEF row
    <2> QED
      BY <1>4 DEF Contract!CacheUpsert, Contract!Replaced, Put
  <1> HIDE DEF row
  <1>6. IsMap(t, CacheRec) /\ DOMAIN t \subseteq Hashes
    BY <1>1, <1>2 DEF Put, IsMap
  <1> HIDE DEF t
  <1>7. StoreInv' /\ Tables' = [Tables EXCEPT !.cache = t]
    BY <1>3, <1>6, CacheWritten
  <1>8. Tables.cache = mem.rows
    BY DEF Tables
  <1>9. Contract!UpsertPreview(h, row)
    BY <1>3, <1>5, <1>7, <1>8 DEF Contract!UpsertPreview, Contract!Answer, Contract!Writes, Quiet
  <1>10. Contract!Next
    BY <1>9 DEF Contract!Next, Contract!OgpNext, row
  <1> QED
    BY <1>7, <1>10 DEF Sound

\* Enqueue adds a queued job.
LEMMA EnqueueSound ==
    ASSUME StoreInv, suite = "jobs", NEW j \in JobIds, NEW h \in Hashes, Enqueue(j, h, 1, 0)
    PROVE  Sound
  <1> DEFINE row == [hash |-> h, post |-> 1, position |-> 0, enqueuedAt |-> now, startedAt |-> Null,
                     finishedAt |-> Null, status |-> "queued", attempts |-> 0, lastError |-> Null]
             t == Contract!Inserted(mem.jobs, j, row)
  <1>1. IsMap(mem.jobs, JobRec) /\ now \in Nat
    BY DEF StoreInv, RowsInv
  <1>2. row \in JobRec
    BY <1>1 DEF JobRec, Null
  <1>3. Quiet /\ ret' = <<"Enqueue", {}>>
    BY DEF Enqueue, Returns, Quiet
  <1>4. t = Contract!JobEnqueue(mem.jobs, j, h, 1, 0, now)
    BY DEF Contract!JobEnqueue, Contract!Null, Null
  <1>5. mem' = [mem EXCEPT !.jobs = t]
    <2>1. CASE j \in DOMAIN mem.jobs
      <3>1. t = mem.jobs
        BY <1>1, <2>1 DEF IsMap, Contract!Inserted
      <3>2. mem' = mem
        BY <2>1 DEF Enqueue, Returns, Has
      <3> QED
        BY <3>1, <3>2 DEF StoreInv, RowsInv, Fields
    <2>2. CASE j \notin DOMAIN mem.jobs
      <3>1. mem' = [mem EXCEPT !.jobs = Put(mem.jobs, j, row)]
        BY <2>2 DEF Enqueue, Returns, Has
      <3> HIDE DEF row
      <3>2. t = Put(mem.jobs, j, row)
        BY <1>1, <2>2 DEF IsMap, Contract!Inserted, Put
      <3> QED
        BY <3>1, <3>2
    <2> QED
      BY <2>1, <2>2
  <1> HIDE DEF row
  <1>6. IsMap(t, JobRec)
    BY <1>1, <1>2 DEF IsMap, Contract!Inserted
  <1> HIDE DEF t
  <1>7. StoreInv' /\ Tables' = [Tables EXCEPT !.jobs = t]
    BY <1>3, <1>5, <1>6, JobsWritten
  <1>8. Tables.jobs = mem.jobs
    BY DEF Tables
  <1>9. Contract!Enqueue(j, h, 1, 0)
    BY <1>3, <1>4, <1>7, <1>8 DEF Contract!Enqueue, Contract!Answer, Contract!Writes, Quiet
  <1>10. Contract!Next
    BY <1>9 DEF Contract!Next, Contract!OgpNext
  <1> QED
    BY <1>7, <1>10 DEF Sound

\* Claim takes the oldest queued job, as ORDER BY enqueued_at LIMIT 1 FOR UPDATE
\* SKIP LOCKED does.
LEMMA ClaimSound ==
    ASSUME StoreInv, suite = "jobs", Claim
    PROVE  Sound
  <1>1. IsMap(mem.jobs, JobRec) /\ now \in Nat
    BY DEF StoreInv, RowsInv
  <1>2. Tables.jobs = mem.jobs
    BY DEF Tables
  <1>3. CASE /\ \A j \in DOMAIN mem.jobs : mem.jobs[j].status # "queued"
             /\ Returns(mem, "Claim", {})
    <2>1. mem' = mem /\ Quiet /\ ret' = <<"Claim", {}>>
      BY <1>3 DEF Returns, Quiet
    <2>2. StoreInv' /\ Tables' = Tables
      BY <2>1, NothingWritten
    <2>3. Contract!OldestQueued(mem.jobs) = {}
      BY <1>3 DEF Contract!OldestQueued
    <2>4. Contract!Claim
      BY <1>2, <2>1, <2>2, <2>3 DEF Contract!Claim, Contract!Answer, Contract!Writes, Quiet
    <2>5. Contract!Next
      BY <2>4 DEF Contract!Next, Contract!OgpNext
    <2> QED
      BY <2>2, <2>5 DEF Sound
  <1>4. ASSUME NEW j \in DOMAIN mem.jobs, Oldest(j),
               Returns([mem EXCEPT !.jobs[j].status = "running", !.jobs[j].startedAt = now,
                                   !.jobs[j].attempts = @ + 1], "Claim", {j})
        PROVE  Sound
    <2> DEFINE t == Contract!JobClaim(mem.jobs, j, now)
    <2>1. Quiet /\ ret' = <<"Claim", {j}>>
      BY <1>4 DEF Returns, Quiet
    <2>2. mem' = [mem EXCEPT !.jobs = t]
      BY <1>1, <1>4 DEF Returns, Contract!JobClaim, IsMap, JobRec, StoreInv, RowsInv, Fields
    <2>3. IsMap(t, JobRec)
      BY <1>1, <1>4 DEF Contract!JobClaim, IsMap, JobRec
    <2>4. j \in Contract!OldestQueued(mem.jobs)
      <3>1. \A k \in DOMAIN mem.jobs : mem.jobs[k].enqueuedAt \in Nat
        BY <1>1 DEF IsMap, JobRec
      <3> QED
        BY <1>4, <3>1 DEF Oldest, Contract!OldestQueued
    <2> HIDE DEF t
    <2>5. StoreInv' /\ Tables' = [Tables EXCEPT !.jobs = t]
      BY <2>1, <2>2, <2>3, JobsWritten
    <2>6. Contract!Claim
      BY <1>2, <2>1, <2>4, <2>5 DEF Contract!Claim, Contract!Answer, Contract!Writes, Quiet, t
    <2>7. Contract!Next
      BY <2>6 DEF Contract!Next, Contract!OgpNext
    <2> QED
      BY <2>5, <2>7 DEF Sound
  <1> QED
    BY <1>3, <1>4 DEF Claim

\* MarkDone finishes a job.
LEMMA MarkDoneSound ==
    ASSUME StoreInv, suite = "jobs", NEW j \in DOMAIN mem.jobs, MarkDone(j)
    PROVE  Sound
  <1> DEFINE t == Contract!JobDone(mem.jobs, j, now)
  <1>1. IsMap(mem.jobs, JobRec) /\ now \in Nat
    BY DEF StoreInv, RowsInv
  <1>2. Quiet /\ ret' = <<"MarkDone", {}>>
    BY DEF MarkDone, Returns, Quiet
  <1>3. mem' = [mem EXCEPT !.jobs = t]
    BY <1>1 DEF MarkDone, Returns, Contract!JobDone, IsMap, JobRec, StoreInv, RowsInv, Fields
  <1>4. IsMap(t, JobRec)
    BY <1>1 DEF Contract!JobDone, IsMap, JobRec
  <1> HIDE DEF t
  <1>5. StoreInv' /\ Tables' = [Tables EXCEPT !.jobs = t]
    BY <1>2, <1>3, <1>4, JobsWritten
  <1>6. Tables.jobs = mem.jobs
    BY DEF Tables
  <1>7. Contract!MarkDone(j)
    BY <1>2, <1>5, <1>6 DEF Contract!MarkDone, Contract!Answer, Contract!Writes, Quiet, t
  <1>8. Contract!Next
    BY <1>6, <1>7 DEF Contract!Next, Contract!OgpNext
  <1> QED
    BY <1>5, <1>8 DEF Sound

\* MarkFailed queues a retriable job again and fails the others.
LEMMA MarkFailedSound ==
    ASSUME StoreInv, suite = "jobs", NEW j \in DOMAIN mem.jobs, NEW retriable \in BOOLEAN,
           MarkFailed(j, 1, retriable)
    PROVE  Sound
  <1> DEFINE t == Contract!JobFailed(mem.jobs, j, 1, retriable, now)
  <1>1. IsMap(mem.jobs, JobRec) /\ now \in Nat
    BY DEF StoreInv, RowsInv
  <1>2. Quiet /\ ret' = <<"MarkFailed", {}>>
    BY DEF MarkFailed, Returns, Quiet
  <1>3. mem' = [mem EXCEPT !.jobs = t]
    <2>1. CASE retriable
      BY <1>1, <2>1
         DEF MarkFailed, Returns, Contract!JobFailed, Contract!Null, Null, IsMap, JobRec,
             StoreInv, RowsInv, Fields
    <2>2. CASE ~retriable
      BY <1>1, <2>2
         DEF MarkFailed, Returns, Contract!JobFailed, Contract!Null, Null, IsMap, JobRec,
             StoreInv, RowsInv, Fields
    <2> QED
      BY <2>1, <2>2
  <1>4. IsMap(t, JobRec)
    <2>1. CASE retriable
      BY <1>1, <2>1 DEF Contract!JobFailed, Contract!Null, IsMap, JobRec
    <2>2. CASE ~retriable
      BY <1>1, <2>2 DEF Contract!JobFailed, Contract!Null, IsMap, JobRec
    <2> QED
      BY <2>1, <2>2
  <1> HIDE DEF t
  <1>5. StoreInv' /\ Tables' = [Tables EXCEPT !.jobs = t]
    BY <1>2, <1>3, <1>4, JobsWritten
  <1>6. Tables.jobs = mem.jobs
    BY DEF Tables
  <1>7. Contract!MarkFailed(j, 1, retriable)
    BY <1>2, <1>5, <1>6 DEF Contract!MarkFailed, Contract!Answer, Contract!Writes, Quiet, t
  <1>8. Contract!Next
    BY <1>6, <1>7 DEF Contract!Next, Contract!OgpNext
  <1> QED
    BY <1>5, <1>8 DEF Sound

\* The rows of post_ogp that the links t of the posts of P stand for.
OgpRows(t, P) == UNION {{<<p, l.hash, l.position>> : l \in ToSet(t[p])} : p \in DOMAIN t \cap P}

\* A write to the links of one post is a write to the table post_ogp.
LEMMA PreviewLinksWritten ==
    ASSUME StoreInv, NEW t, IsMap(t, Seq(LinkRec)), DOMAIN t \subseteq DOMAIN mem.posts,
           \A p \in DOMAIN t : ByPosition(t[p]),
           mem' = [mem EXCEPT !.postOGPs = t], Quiet
    PROVE  StoreInv' /\ Tables' = [Tables EXCEPT !.postOgp = OgpRows(t, DOMAIN mem.posts)]
  <1>1. OnlyIn({"postOGPs"}) /\ mem'.postOGPs = t
    BY OneField DEF StoreInv, Fields
  <1>2. /\ mem'.posts = mem.posts /\ mem'.images = mem.images /\ mem'.postImages = mem.postImages
        /\ mem'.postTags = mem.postTags /\ mem'.likes = mem.likes
        /\ mem'.tags = mem.tags /\ mem'.byName = mem.byName /\ mem'.badges = mem.badges
        /\ mem'.byKey = mem.byKey
    BY <1>1 DEF OnlyIn, Fields
  <1>3. RowsInv'
    BY <1>1 DEF StoreInv, RowsInv, OnlyIn, Fields, Quiet
  <1>4. LinksInv' /\ IndexesConsistent'
    BY <1>2 DEF StoreInv, LinksInv, CallInv, IndexesConsistent, Quiet, Published
  <1>5. OgpInv'
    BY <1>1, <1>2 DEF StoreInv, OgpInv, Quiet
  <1>6. ImageLinks' = ImageLinks /\ TagLinks' = TagLinks /\ LikeRows' = LikeRows
    BY <1>2 DEF ImageLinks, TagLinks, LikeRows, Published
  <1>7. OgpLinks' = OgpRows(t, DOMAIN mem.posts)
    BY <1>1, <1>2 DEF OgpLinks, OgpRows, Published
  <1>8. Tables' = [Tables EXCEPT !.postOgp = OgpRows(t, DOMAIN mem.posts)]
    BY <1>1, <1>2, <1>6, <1>7 DEF OnlyIn, Fields, Tables
  <1> QED
    BY <1>3, <1>4, <1>5, <1>8 DEF StoreInv

\* A sequence has finitely many members.
LEMMA FiniteRange ==
    ASSUME NEW s, NEW n \in Nat, DOMAIN s = 1..n
    PROVE  IsFiniteSet(ToSet(s))
  <1>1. IsFiniteSet(1..n)
    BY FS_Interval
  <1> DEFINE f == [i \in 1..n |-> s[i]]
  <1>2. f \in Surjection(1..n, ToSet(s))
    BY Fun_IsSurj DEF ToSet
  <1> HIDE DEF f
  <1> QED
    BY <1>1, <1>2, FS_Surjection

\* attachOGP is INSERT ... ON CONFLICT DO NOTHING under the two unique indexes of
\* post_ogp: the first link of a hash, and at a position, wins.
LEMMA LinkPreviewSound ==
    ASSUME StoreInv, suite = "ogp", NEW h \in DOMAIN mem.rows, NEW p \in PostIds,
           NEW i \in 0..1, LinkPreview(p, h, i)
    PROVE  Sound
  <1> DEFINE links == Get(mem.postOGPs, p, <<>>)
             new == [hash |-> h, position |-> i]
             all == ToSet(links) \cup {new}
             key == [l \in all |-> l.position]
             clash == \E l \in ToSet(links) : l.hash = h \/ l.position = i
             d == Contract!Sorted(all, key)
  <1>1. /\ IsMap(mem.postOGPs, Seq(LinkRec)) /\ p \in DOMAIN mem.posts /\ h \in Hashes
        /\ DOMAIN mem.postOGPs \subseteq DOMAIN mem.posts
        /\ \A x \in DOMAIN mem.postOGPs : ByPosition(mem.postOGPs[x])
    BY DEF StoreInv, OgpInv, RowsInv
  <1>2. Quiet /\ ret' = <<"AttachOGP", {}>>
    BY DEF LinkPreview, Returns, Quiet
  <1>3. Tables.postOgp = OgpLinks /\ Tables.cache = mem.rows
    BY DEF Tables
  <1>4. new \in LinkRec /\ new.hash = h /\ new.position = i
    BY <1>1 DEF LinkRec
  <1> HIDE DEF new
  <1>5. links \in Seq(LinkRec) /\ \A a, b \in DOMAIN links : links[a].position = links[b].position => a = b
    <2>1. links \in Seq(LinkRec) /\ ByPosition(links)
      BY <1>1 DEF Get, Has, IsMap, ByPosition
    <2> HIDE DEF links
    <2>2. ASSUME NEW a \in DOMAIN links, NEW b \in DOMAIN links, links[a].position = links[b].position
          PROVE  a = b
      <3>1. a \in Nat /\ b \in Nat /\ links[a] \in LinkRec
        BY <2>1
      <3>2. links[a].position \in Nat
        BY <3>1 DEF LinkRec
      <3>3. a < b => links[a].position < links[b].position
        BY <2>1 DEF ByPosition
      <3>4. b < a => links[b].position < links[a].position
        BY <2>1 DEF ByPosition
      <3> QED
        BY <2>2, <3>1, <3>2, <3>3, <3>4
    <2> QED
      BY <2>1, <2>2
  <1>6. \A l : l \in ToSet(links) => l \in LinkRec
    <2> HIDE DEF links
    <2> QED
      BY <1>5 DEF ToSet
  <1>7. \A x : (x \in OgpLinks /\ x[1] = p) <=> (\E l \in ToSet(links) : x = <<p, l.hash, l.position>>)
    <2> SUFFICES ASSUME NEW x
                 PROVE  (x \in OgpLinks /\ x[1] = p) <=> (\E l \in ToSet(links) : x = <<p, l.hash, l.position>>)
      OBVIOUS
    <2>1. CASE p \in DOMAIN mem.postOGPs
      <3>1. links = mem.postOGPs[p]
        BY <2>1 DEF Get, Has
      <3> HIDE DEF links
      <3> QED
        BY <1>1, <2>1, <3>1 DEF OgpLinks, Published
    <2>2. CASE p \notin DOMAIN mem.postOGPs
      <3>1. links = <<>>
        BY <2>2 DEF Get, Has
      <3>2. ToSet(links) = {}
        BY <3>1 DEF ToSet
      <3> QED
        BY <2>2, <3>2 DEF OgpLinks, Published
    <2> QED
      BY <2>1, <2>2
  <1>8. (\E r \in OgpLinks : r[1] = p /\ (r[2] = h \/ r[3] = i)) <=> clash
    <2> HIDE DEF links
    <2>1. ASSUME NEW r \in OgpLinks, r[1] = p, r[2] = h \/ r[3] = i
          PROVE  clash
      <3>1. PICK l \in ToSet(links) : r = <<p, l.hash, l.position>>
        BY <1>7, <2>1
      <3> QED
        BY <2>1, <3>1
    <2>2. ASSUME NEW l \in ToSet(links), l.hash = h \/ l.position = i
          PROVE  \E r \in OgpLinks : r[1] = p /\ (r[2] = h \/ r[3] = i)
      <3> DEFINE r == <<p, l.hash, l.position>>
      <3>1. r \in OgpLinks
        BY <1>7
      <3>2. r[1] = p /\ r[2] = l.hash /\ r[3] = l.position
        OBVIOUS
      <3> QED
        BY <2>2, <3>1, <3>2
    <2> QED
      BY <2>1, <2>2
  <1>9. CASE clash
    <2>1. mem' = mem
      BY <1>9 DEF LinkPreview, Returns
    <2>2. StoreInv' /\ Tables' = Tables
      BY <1>2, <2>1, NothingWritten
    <2>3. Contract!AttachOGP(OgpLinks, p, h, i) = OgpLinks
      BY <1>8, <1>9 DEF Contract!AttachOGP
    <2>4. Tables' = [Tables EXCEPT !.postOgp = Contract!AttachOGP(OgpLinks, p, h, i)]
      BY <1>3, <2>2, <2>3 DEF Tables
    <2>5. Contract!LinkPreview(p, h, i)
      BY <1>2, <1>3, <2>4 DEF Contract!LinkPreview, Contract!Answer, Contract!Writes, Quiet
    <2>6. Contract!Next
      BY <1>3, <2>5 DEF Contract!Next, Contract!OgpNext
    <2> QED
      BY <2>2, <2>6 DEF Sound
  <1>10. CASE ~clash
    <2> DEFINE t == Put(mem.postOGPs, p, d)
               n == Cardinality(all)
    <2>1. mem' = [mem EXCEPT !.postOGPs = t]
      BY <1>10 DEF LinkPreview, Returns, new
    <2>2. Keyed(all, key)
      <3>1. IsFiniteSet(ToSet(links))
        <4> HIDE DEF links
        <4>1. DOMAIN links = 1..Len(links) /\ Len(links) \in Nat
          BY <1>5
        <4> QED
          BY <4>1, FiniteRange
      <3>2. IsFiniteSet(all)
        BY <3>1, FS_AddElement
      <3>3. \A x \in all : x \in LinkRec
        BY <1>4, <1>6
      <3>4. key \in [all -> Nat]
        BY <3>3 DEF LinkRec
      <3>5. ASSUME NEW x \in all, NEW y \in all, key[x] = key[y] PROVE x = y
        <4>1. x.position = y.position
          BY <3>5
        <4>2. CASE x \in ToSet(links) /\ y \in ToSet(links)
          <5> HIDE DEF links
          <5>1. PICK a \in DOMAIN links : x = links[a]
            BY <4>2 DEF ToSet
          <5>2. PICK b \in DOMAIN links : y = links[b]
            BY <4>2 DEF ToSet
          <5> QED
            BY <1>5, <4>1, <5>1, <5>2
        <4>3. CASE x = new /\ y # new
          BY <1>4, <1>10, <4>1, <4>3
        <4>4. CASE y = new /\ x # new
          BY <1>4, <1>10, <4>1, <4>4
        <4> QED
          BY <4>2, <4>3, <4>4
      <3> HIDE DEF all, key
      <3> QED
        BY <3>2, <3>4, <3>5 DEF Keyed
    <2>3. /\ n \in Nat /\ d \in [1..n -> all]
          /\ \A a, b \in 1..n : a < b => key[d[a]] < key[d[b]]
          /\ \A x \in all : \E a \in 1..n : d[a] = x
      <3> HIDE DEF all, key
      <3> QED
        BY <2>2, SortedSorts
    <2>4. all \subseteq LinkRec
      BY <1>4, <1>6
    <2>5. \A x \in all : key[x] = x.position /\ x.position \in Nat
      BY <2>4 DEF LinkRec
    <2> HIDE DEF d, key
    <2>6. d \in Seq(LinkRec) /\ DOMAIN d = 1..n
      <3> HIDE DEF all, n
      <3> QED
        BY <2>3, <2>4
    <2>7. ByPosition(d)
      <3> HIDE DEF all
      <3> SUFFICES ASSUME NEW a \in 1..n, NEW b \in 1..n, a < b
                   PROVE  d[a].position < d[b].position
        BY <2>6 DEF ByPosition
      <3>1. d[a] \in all /\ d[b] \in all
        BY <2>3
      <3> QED
        BY <2>3, <2>5, <3>1
    <2>8. ToSet(d) = all
      <3> HIDE DEF all
      <3> QED
        BY <2>3, <2>6 DEF ToSet
    <2>9. /\ IsMap(t, Seq(LinkRec)) /\ DOMAIN t = DOMAIN mem.postOGPs \cup {p} /\ t[p] = d
          /\ \A x \in DOMAIN mem.postOGPs : x # p => t[x] = mem.postOGPs[x]
      BY <1>1, <2>6 DEF Put, IsMap
    <2> HIDE DEF t
    <2>10. \A x \in DOMAIN t : ByPosition(t[x])
      <3> SUFFICES ASSUME NEW x \in DOMAIN t
                   PROVE  ByPosition(t[x])
        OBVIOUS
      <3>1. CASE x = p
        BY <2>7, <2>9, <3>1
      <3>2. CASE x # p
        BY <1>1, <2>9, <3>2
      <3> QED
        BY <3>1, <3>2
    <2>11. DOMAIN t \subseteq DOMAIN mem.posts
      BY <1>1, <2>9
    <2> DEFINE rows == OgpRows(t, DOMAIN mem.posts)
    <2>12. StoreInv' /\ Tables' = [Tables EXCEPT !.postOgp = rows]
      BY <1>2, <2>1, <2>9, <2>10, <2>11, PreviewLinksWritten
    <2>13. rows = OgpLinks \cup {<<p, h, i>>}
      <3>1. ASSUME NEW x \in rows PROVE x \in OgpLinks \cup {<<p, h, i>>}
        <4>1. PICK q \in DOMAIN t : \E l \in ToSet(t[q]) : x = <<q, l.hash, l.position>>
          BY DEF OgpRows
        <4>2. CASE q = p
          <5>1. PICK l \in all : x = <<p, l.hash, l.position>>
            BY <2>8, <2>9, <4>1, <4>2
          <5>2. CASE l = new
            BY <1>4, <5>1, <5>2
          <5>3. CASE l \in ToSet(links)
            <6> HIDE DEF links
            <6> QED
              BY <1>7, <5>1, <5>3
          <5> QED
            BY <5>2, <5>3
        <4>3. CASE q # p
          <5>1. q \in DOMAIN mem.postOGPs /\ q \in DOMAIN mem.posts /\ t[q] = mem.postOGPs[q]
            BY <1>1, <2>9, <4>3
          <5> QED
            BY <4>1, <5>1 DEF OgpLinks, Published
        <4> QED
          BY <4>2, <4>3
      <3>2. ASSUME NEW x \in OgpLinks PROVE x \in rows
        <4>1. PICK q \in DOMAIN mem.postOGPs \cap DOMAIN mem.posts :
                \E l \in ToSet(mem.postOGPs[q]) : x = <<q, l.hash, l.position>>
          BY DEF OgpLinks, Published
        <4>2. CASE q = p
          <5>1. PICK l \in ToSet(links) : x = <<p, l.hash, l.position>>
            BY <4>1, <4>2 DEF Get, Has
          <5>2. l \in ToSet(t[p])
            BY <2>8, <2>9, <5>1
          <5> QED
            BY <1>1, <2>9, <5>1, <5>2 DEF OgpRows
        <4>3. CASE q # p
          BY <1>1, <2>9, <4>1, <4>3 DEF OgpRows
        <4> QED
          BY <4>2, <4>3
      <3>3. <<p, h, i>> \in rows
        <4>1. new \in ToSet(t[p])
          BY <2>8, <2>9
        <4> QED
          BY <1>1, <1>4, <2>9, <4>1 DEF OgpRows
      <3> QED
        BY <3>1, <3>2, <3>3
    <2> HIDE DEF rows
    <2>14. Contract!AttachOGP(OgpLinks, p, h, i) = OgpLinks \cup {<<p, h, i>>}
      BY <1>8, <1>10 DEF Contract!AttachOGP
    <2>15. Contract!LinkPreview(p, h, i)
      BY <1>2, <1>3, <2>12, <2>13, <2>14
         DEF Contract!LinkPreview, Contract!Answer, Contract!Writes, Quiet
    <2>16. Contract!Next
      BY <1>3, <2>15 DEF Contract!Next, Contract!OgpNext
    <2> QED
      BY <2>12, <2>16 DEF Sound
  <1> QED
    BY <1>9, <1>10

\* The steps of the cache and of the job queue.
LEMMA OgpSound ==
    ASSUME StoreInv, OgpNext
    PROVE  Sound
  <1>1. CASE suite = "ogp"
    BY <1>1, UpsertPreviewSound, LinkPreviewSound DEF OgpNext
  <1>2. CASE suite = "jobs"
    BY <1>2, EnqueueSound, ClaimSound, MarkDoneSound, MarkFailedSound DEF OgpNext
  <1> QED
    BY <1>1, <1>2 DEF OgpNext

(***************************************************************************)
(* Posts                                                                   *)
(***************************************************************************)
\* A write to rows of posts that are there already.
LEMMA PostsEdited ==
    ASSUME StoreInv, NEW t, IsMap(t, PostRec), DOMAIN t = DOMAIN mem.posts,
           mem' = [mem EXCEPT !.posts = t], Quiet
    PROVE  StoreInv' /\ Tables' = [Tables EXCEPT !.posts = t]
  <1>1. OnlyIn({"posts"}) /\ mem'.posts = t
    BY OneField DEF StoreInv, Fields
  <1>2. /\ mem'.images = mem.images /\ mem'.postImages = mem.postImages
        /\ mem'.postTags = mem.postTags /\ mem'.postOGPs = mem.postOGPs /\ mem'.likes = mem.likes
        /\ mem'.tags = mem.tags /\ mem'.byName = mem.byName /\ mem'.badges = mem.badges
        /\ mem'.byKey = mem.byKey /\ DOMAIN mem'.posts = DOMAIN mem.posts
    BY <1>1 DEF OnlyIn, Fields
  <1>3. RowsInv'
    BY <1>1 DEF StoreInv, RowsInv, OnlyIn, Fields, Quiet
  <1>4. OgpInv' /\ LinksInv' /\ IndexesConsistent'
    BY <1>2 DEF StoreInv, OgpInv, LinksInv, CallInv, IndexesConsistent, Quiet, Published
  <1>5. ImageLinks' = ImageLinks /\ TagLinks' = TagLinks /\ OgpLinks' = OgpLinks /\ LikeRows' = LikeRows
    BY <1>2 DEF ImageLinks, TagLinks, OgpLinks, LikeRows, Published
  <1>6. Tables' = [Tables EXCEPT !.posts = t]
    BY <1>1, <1>2, <1>5 DEF OnlyIn, Fields, Tables
  <1> QED
    BY <1>3, <1>4, <1>6 DEF StoreInv

\* Deleting a post marks the row.
LEMMA DeletePostSound ==
    ASSUME StoreInv, suite = "posts", NEW id \in PostIds, id \in DOMAIN mem.posts, DeletePost(id)
    PROVE  Sound
  <1> DEFINE t == Contract!SoftDelete(mem.posts, id)
  <1>1. IsMap(mem.posts, PostRec)
    BY DEF StoreInv, RowsInv
  <1>2. IsMap(t, PostRec) /\ DOMAIN t = DOMAIN mem.posts
    BY <1>1 DEF IsMap, PostRec, Contract!SoftDelete
  <1>3. mem' = [mem EXCEPT !.posts = t]
    BY <1>1 DEF DeletePost, Returns, IsMap, PostRec, Contract!SoftDelete
  <1>4. Quiet /\ ret' = <<"DeletePost", {}>>
    BY DEF DeletePost, Returns, Quiet
  <1> HIDE DEF t
  <1>5. StoreInv' /\ Tables' = [Tables EXCEPT !.posts = t]
    BY <1>2, <1>3, <1>4, PostsEdited
  <1>6. Tables.posts = mem.posts
    BY DEF Tables
  <1>7. Contract!DeletePost(id)
    BY <1>4, <1>5, <1>6 DEF Contract!DeletePost, Contract!Answer, Contract!Writes, Quiet, t
  <1>8. Contract!Next
    BY <1>6, <1>7 DEF Contract!Next, Contract!PostNext
  <1> QED
    BY <1>5, <1>8 DEF Sound

\* Incrementing a counter of a post.
LEMMA IncrementPostSound ==
    ASSUME StoreInv, suite = "posts", NEW id \in PostIds, NEW c \in {"likes", "replies"},
           IncrementPost(id, c)
    PROVE  Sound
  <1> DEFINE t == Contract!PostCount(mem.posts, id, c, 1)
  <1>1. IsMap(mem.posts, PostRec)
    BY DEF StoreInv, RowsInv
  <1>2. \A x \in DOMAIN mem.posts : mem.posts[x][c] \in Nat /\ mem.posts[x].deleted \in BOOLEAN
    BY <1>1 DEF IsMap, PostRec
  <1>3. t = [x \in DOMAIN mem.posts |->
                IF x = id /\ ~mem.posts[x].deleted THEN [mem.posts[x] EXCEPT ![c] = @ + 1]
                ELSE mem.posts[x]]
    BY <1>2, Greatest DEF Contract!PostCount
  <1> HIDE DEF t
  <1>4. IsMap(t, PostRec) /\ DOMAIN t = DOMAIN mem.posts
    BY <1>1, <1>2, <1>3 DEF IsMap, PostRec
  <1>5. mem' = [mem EXCEPT !.posts = t]
    <2>1. CASE ~LivePost(id)
      <3>1. t = mem.posts
        BY <1>1, <1>3, <2>1 DEF IsMap, LivePost, Has
      <3>2. mem' = mem
        BY <2>1 DEF IncrementPost, Returns
      <3> QED
        BY <3>1, <3>2 DEF StoreInv, RowsInv, Fields
    <2>2. CASE LivePost(id)
      BY <1>1, <1>2, <1>3, <2>2 DEF IncrementPost, Returns, LivePost, Has, IsMap, PostRec
    <2> QED
      BY <2>1, <2>2
  <1>6. Quiet /\ ret' = <<"CountPost", {}>>
    BY DEF IncrementPost, Returns, Quiet
  <1>7. StoreInv' /\ Tables' = [Tables EXCEPT !.posts = t]
    BY <1>4, <1>5, <1>6, PostsEdited
  <1>8. Tables.posts = mem.posts
    BY DEF Tables
  <1>9. Contract!CountPost(id, c, 1)
    BY <1>6, <1>7, <1>8 DEF Contract!CountPost, Contract!Answer, Contract!Writes, Quiet, t
  <1>10. Contract!Next
    BY <1>9 DEF Contract!Next, Contract!PostNext
  <1> QED
    BY <1>7, <1>10 DEF Sound

\* Decrementing a counter of a post stops at 0.
LEMMA DecrementPostSound ==
    ASSUME StoreInv, suite = "posts", NEW id \in PostIds, NEW c \in {"likes", "replies"},
           DecrementPost(id, c)
    PROVE  Sound
  <1> DEFINE t == Contract!PostCount(mem.posts, id, c, -1)
             down == LivePost(id) /\ mem.posts[id][c] > 0
  <1>1. IsMap(mem.posts, PostRec)
    BY DEF StoreInv, RowsInv
  <1>2. \A x \in DOMAIN mem.posts : mem.posts[x][c] \in Nat /\ mem.posts[x].deleted \in BOOLEAN
    BY <1>1 DEF IsMap, PostRec
  <1>3. t = [x \in DOMAIN mem.posts |->
                IF x = id /\ ~mem.posts[x].deleted
                THEN [mem.posts[x] EXCEPT ![c] = IF @ > 0 THEN @ - 1 ELSE 0]
                ELSE mem.posts[x]]
    BY <1>2, Greatest DEF Contract!PostCount
  <1> HIDE DEF t
  <1>4. IsMap(t, PostRec) /\ DOMAIN t = DOMAIN mem.posts
    BY <1>1, <1>2, <1>3 DEF IsMap, PostRec
  <1>5. mem' = [mem EXCEPT !.posts = t]
    <2>1. CASE ~down
      <3>1. t = mem.posts
        BY <1>1, <1>2, <1>3, <2>1 DEF IsMap, LivePost, Has, PostRec
      <3>2. mem' = mem
        BY <2>1 DEF DecrementPost, Returns
      <3> QED
        BY <3>1, <3>2 DEF StoreInv, RowsInv, Fields
    <2>2. CASE down
      BY <1>1, <1>2, <1>3, <2>2 DEF DecrementPost, Returns, LivePost, Has, IsMap, PostRec
    <2> QED
      BY <2>1, <2>2
  <1>6. Quiet /\ ret' = <<"CountPost", {}>>
    BY DEF DecrementPost, Returns, Quiet
  <1>7. StoreInv' /\ Tables' = [Tables EXCEPT !.posts = t]
    BY <1>4, <1>5, <1>6, PostsEdited
  <1>8. Tables.posts = mem.posts
    BY DEF Tables
  <1>9. Contract!CountPost(id, c, -1)
    BY <1>6, <1>7, <1>8 DEF Contract!CountPost, Contract!Answer, Contract!Writes, Quiet, t
  <1>10. Contract!Next
    BY <1>9 DEF Contract!Next, Contract!PostNext
  <1> QED
    BY <1>7, <1>10 DEF Sound

(***************************************************************************)
(* PostRepository.Create                                                   *)
(***************************************************************************)
\* A call of PostRepo.Create begins: nothing is to be seen of it yet.
LEMMA CallCreateSound ==
    ASSUME StoreInv, NEW id \in PostIds, NEW author, NEW parent, NEW imgs, NEW tags,
           \/ /\ suite = "posts" /\ author \in UserSubs /\ parent \in DOMAIN mem.posts \cup {Null}
              /\ imgs = <<>> /\ tags = {}
           \/ /\ suite = "links" /\ author = 1 /\ parent = Null
              /\ imgs \in ImageChoices /\ tags \in TagChoices
              /\ ToSet(imgs) \subseteq DOMAIN mem.images,
           CallCreate(id, author, parent, imgs, tags)
    PROVE  Sound
  <1> DEFINE pc == IF imgs # <<>> THEN "images" ELSE IF tags # {} THEN "tags" ELSE "row"
             c == [pc |-> pc, author |-> author, parent |-> parent, imgs |-> imgs, tags |-> tags]
             n == Put(creating, id, c)
  <1>1. /\ id \notin DOMAIN mem.posts /\ id \notin DOMAIN creating /\ creating' = n
        /\ suite' = suite /\ now' = now /\ ret' = ret /\ mem' = mem /\ reading' = reading
    BY DEF CallCreate, Has
  <1>2. c \in CallRec
    <2>1. pc \in {"images", "tags", "row"} /\ author \in Authors /\ parent \in PostIds \cup {Null}
          /\ imgs \in ImageChoices \cup {<<>>} /\ tags \in TagChoices \cup {{}}
      BY DEF StoreInv, RowsInv, Authors
    <2> HIDE DEF pc
    <2> QED
      BY <2>1 DEF CallRec
  <1>3. c.pc = pc /\ c.author = author /\ c.parent = parent /\ c.imgs = imgs /\ c.tags = tags
    OBVIOUS
  <1> HIDE DEF c
  <1>4. IsMap(creating, CallRec)
    BY DEF StoreInv, LinksInv
  <1>5. /\ IsMap(n, CallRec) /\ DOMAIN n = DOMAIN creating \cup {id} /\ n[id] = c
        /\ \A x \in DOMAIN creating : n[x] = creating[x]
    BY <1>1, <1>2, <1>4 DEF Put, IsMap
  <1> HIDE DEF n
  <1>6. id \notin DOMAIN mem.postImages /\ id \notin DOMAIN mem.postTags
    BY <1>1 DEF StoreInv, LinksInv
  <1>7. ASSUME NEW x \in DOMAIN n PROVE CallInv(x)'
    <2>1. CASE x = id
      BY <1>1, <1>3, <1>5, <1>6, <2>1 DEF CallInv
    <2>2. CASE x # id
      <3>1. x \in DOMAIN creating /\ n[x] = creating[x]
        BY <1>5, <2>2
      <3>2. CallInv(x)
        BY <3>1 DEF StoreInv, LinksInv
      <3> QED
        BY <1>1, <3>1, <3>2 DEF CallInv
    <2> QED
      BY <2>1, <2>2
  <1>8. LinksInv'
    BY <1>1, <1>5, <1>7 DEF StoreInv, LinksInv, Published
  <1>9. RowsInv' /\ OgpInv' /\ IndexesConsistent'
    BY <1>1 DEF StoreInv, RowsInv, OgpInv, IndexesConsistent
  <1>10. Tables' = Tables
    BY <1>1 DEF Tables, LikeRows, ImageLinks, TagLinks, OgpLinks, Published
  <1> QED
    BY <1>1, <1>8, <1>9, <1>10 DEF Sound, StoreInv, Contract!vars

\* The first critical section of Create: the image links of a post that nobody can
\* read yet are no rows of post_images.
LEMMA AttachImagesSound ==
    ASSUME StoreInv, NEW id \in DOMAIN creating, AttachImages(id)
    PROVE  Sound
  <1> DEFINE c == creating[id]
             t == Put(mem.postImages, id, c.imgs)
             pc == IF c.tags # {} THEN "tags" ELSE "row"
             n == [creating EXCEPT ![id].pc = pc]
  <1>1. /\ IsMap(creating, CallRec) /\ IsMap(mem.postImages, ImageChoices) /\ CallInv(id)
        /\ c \in CallRec
    BY DEF StoreInv, LinksInv, RowsInv, IsMap
  <1>2. /\ c.pc = "images" /\ mem' = [mem EXCEPT !.postImages = t] /\ creating' = n
        /\ suite' = suite /\ now' = now /\ ret' = ret /\ reading' = reading
    BY DEF AttachImages
  <1>3. OnlyIn({"postImages"}) /\ mem'.postImages = t
    BY <1>2, OneField DEF StoreInv, Fields
  <1>4. /\ mem'.posts = mem.posts /\ mem'.images = mem.images
        /\ mem'.postTags = mem.postTags /\ mem'.postOGPs = mem.postOGPs /\ mem'.likes = mem.likes
        /\ mem'.tags = mem.tags /\ mem'.byName = mem.byName /\ mem'.badges = mem.badges
        /\ mem'.byKey = mem.byKey
    BY <1>3 DEF OnlyIn, Fields
  <1>5. /\ id \in PostIds \ DOMAIN mem.posts /\ id \notin DOMAIN mem.postImages
        /\ c.imgs # <<>> /\ c.imgs \in ImageChoices /\ id \notin DOMAIN mem.postTags
    BY <1>1, <1>2 DEF CallInv
  <1>6. /\ IsMap(n, CallRec) /\ DOMAIN n = DOMAIN creating
        /\ \A x \in DOMAIN creating : x # id => n[x] = creating[x]
        /\ n[id] = [c EXCEPT !.pc = pc]
    BY <1>1 DEF IsMap, CallRec
  <1>7. /\ n[id].pc = pc /\ n[id].author = c.author /\ n[id].parent = c.parent
        /\ n[id].imgs = c.imgs /\ n[id].tags = c.tags
    BY <1>1, <1>6 DEF CallRec
  <1>8. /\ IsMap(t, ImageChoices) /\ DOMAIN t = DOMAIN mem.postImages \cup {id} /\ t[id] = c.imgs
        /\ \A x \in DOMAIN mem.postImages : t[x] = mem.postImages[x]
    BY <1>1, <1>5 DEF IsMap, Put
  <1> HIDE DEF n, t, c
  <1>9. ASSUME NEW x \in DOMAIN n PROVE CallInv(x)'
    <2>1. CASE x = id
      BY <1>1, <1>2, <1>3, <1>4, <1>5, <1>7, <1>8, <2>1 DEF CallInv, c
    <2>2. CASE x # id
      <3>1. x \in DOMAIN creating /\ n[x] = creating[x]
        BY <1>6, <2>2
      <3>2. CallInv(x)
        BY <3>1 DEF StoreInv, LinksInv
      <3>3. /\ x \in DOMAIN t <=> x \in DOMAIN mem.postImages
            /\ x \in DOMAIN t => t[x] = mem.postImages[x]
        BY <1>8, <2>2
      <3> QED
        BY <1>2, <1>3, <1>4, <3>1, <3>2, <3>3 DEF CallInv
    <2> QED
      BY <2>1, <2>2
  <1>10. LinksInv'
    <2>1. /\ IsMap(n, CallRec) /\ \A x \in DOMAIN n : CallInv(x)'
          /\ DOMAIN t \subseteq DOMAIN mem.posts \cup DOMAIN n
          /\ DOMAIN mem.postTags \subseteq DOMAIN mem.posts \cup DOMAIN n
      BY <1>6, <1>8, <1>9 DEF StoreInv, LinksInv
    <2>2. reading # <<>> => \E x \in DOMAIN t \cap DOMAIN mem.posts : t[x] = reading
      BY <1>8 DEF StoreInv, LinksInv, Published
    <2> QED
      BY <1>2, <1>3, <1>4, <2>1, <2>2 DEF LinksInv, Published
  <1>11. RowsInv'
    BY <1>2, <1>3, <1>8 DEF StoreInv, RowsInv, OnlyIn, Fields
  <1>12. OgpInv' /\ IndexesConsistent'
    BY <1>2, <1>4 DEF StoreInv, OgpInv, IndexesConsistent
  <1>13. ImageLinks' = ImageLinks
    <2>1. DOMAIN t \cap DOMAIN mem.posts = DOMAIN mem.postImages \cap DOMAIN mem.posts
      BY <1>5, <1>8
    <2>2. ImageLinks' = UNION {{<<p, t[p][i], i - 1>> : i \in DOMAIN t[p]} :
                                 p \in DOMAIN t \cap DOMAIN mem.posts}
      BY <1>3, <1>4 DEF ImageLinks, Published
    <2> QED
      BY <1>8, <2>1, <2>2 DEF ImageLinks, Published
  <1>14. LikeRows' = LikeRows /\ TagLinks' = TagLinks /\ OgpLinks' = OgpLinks
    BY <1>4 DEF LikeRows, TagLinks, OgpLinks, Published
  <1>15. Tables' = Tables
    BY <1>3, <1>4, <1>13, <1>14 DEF OnlyIn, Fields, Tables
  <1> QED
    BY <1>2, <1>10, <1>11, <1>12, <1>15 DEF Sound, StoreInv, Contract!vars

\* The second: the same for its tags.
LEMMA AttachTagsSound ==
    ASSUME StoreInv, NEW id \in DOMAIN creating, AttachTags(id)
    PROVE  Sound
  <1> DEFINE c == creating[id]
             t == Put(mem.postTags, id, c.tags)
             n == [creating EXCEPT ![id].pc = "row"]
  <1>1. /\ IsMap(creating, CallRec) /\ IsMap(mem.postTags, TagChoices) /\ CallInv(id)
        /\ c \in CallRec
    BY DEF StoreInv, LinksInv, RowsInv, IsMap
  <1>2. /\ c.pc = "tags" /\ creating' = n
        /\ mem' = [mem EXCEPT !.postTags = Put(@, id, Get(@, id, {}) \cup c.tags)]
        /\ suite' = suite /\ now' = now /\ ret' = ret /\ reading' = reading
    BY DEF AttachTags
  <1>3. /\ id \in PostIds \ DOMAIN mem.posts /\ id \notin DOMAIN mem.postTags
        /\ c.tags # {} /\ c.tags \in TagChoices
        /\ id \in DOMAIN mem.postImages <=> c.imgs # <<>>
    BY <1>1, <1>2 DEF CallInv
  <1>4. Get(mem.postTags, id, {}) \cup c.tags = c.tags
    BY <1>3 DEF Get, Has
  <1>5. mem' = [mem EXCEPT !.postTags = t]
    BY <1>2, <1>4
  <1>6. OnlyIn({"postTags"}) /\ mem'.postTags = t
    BY <1>5, OneField DEF StoreInv, Fields
  <1>7. /\ mem'.posts = mem.posts /\ mem'.images = mem.images
        /\ mem'.postImages = mem.postImages /\ mem'.postOGPs = mem.postOGPs /\ mem'.likes = mem.likes
        /\ mem'.tags = mem.tags /\ mem'.byName = mem.byName /\ mem'.badges = mem.badges
        /\ mem'.byKey = mem.byKey
    BY <1>6 DEF OnlyIn, Fields
  <1>8. /\ IsMap(n, CallRec) /\ DOMAIN n = DOMAIN creating
        /\ \A x \in DOMAIN creating : x # id => n[x] = creating[x]
        /\ n[id] = [c EXCEPT !.pc = "row"]
    BY <1>1 DEF IsMap, CallRec
  <1>9. /\ n[id].pc = "row" /\ n[id].author = c.author /\ n[id].parent = c.parent
        /\ n[id].imgs = c.imgs /\ n[id].tags = c.tags
    BY <1>1, <1>8 DEF CallRec
  <1>10. /\ IsMap(t, TagChoices) /\ DOMAIN t = DOMAIN mem.postTags \cup {id} /\ t[id] = c.tags
        /\ \A x \in DOMAIN mem.postTags : t[x] = mem.postTags[x]
    BY <1>1, <1>3 DEF IsMap, Put
  <1> HIDE DEF n, t, c
  <1>11. ASSUME NEW x \in DOMAIN n PROVE CallInv(x)'
    <2>1. CASE x = id
      BY <1>1, <1>2, <1>6, <1>7, <1>3, <1>9, <1>10, <2>1 DEF CallInv, c
    <2>2. CASE x # id
      <3>1. x \in DOMAIN creating /\ n[x] = creating[x]
        BY <1>8, <2>2
      <3>2. CallInv(x)
        BY <3>1 DEF StoreInv, LinksInv
      <3>3. /\ x \in DOMAIN t <=> x \in DOMAIN mem.postTags
            /\ x \in DOMAIN t => t[x] = mem.postTags[x]
        BY <1>10, <2>2
      <3> QED
        BY <1>2, <1>6, <1>7, <3>1, <3>2, <3>3 DEF CallInv
    <2> QED
      BY <2>1, <2>2
  <1>12. LinksInv'
    <2>1. /\ IsMap(n, CallRec) /\ \A x \in DOMAIN n : CallInv(x)'
          /\ DOMAIN t \subseteq DOMAIN mem.posts \cup DOMAIN n
          /\ DOMAIN mem.postImages \subseteq DOMAIN mem.posts \cup DOMAIN n
      BY <1>8, <1>10, <1>11 DEF StoreInv, LinksInv
    <2>2. reading # <<>> => \E x \in DOMAIN mem.postImages \cap DOMAIN mem.posts : mem.postImages[x] = reading
      BY DEF StoreInv, LinksInv, Published
    <2> QED
      BY <1>2, <1>6, <1>7, <2>1, <2>2 DEF LinksInv, Published
  <1>13. RowsInv'
    BY <1>2, <1>6, <1>10 DEF StoreInv, RowsInv, OnlyIn, Fields
  <1>14. OgpInv' /\ IndexesConsistent'
    BY <1>2, <1>7 DEF StoreInv, OgpInv, IndexesConsistent
  <1>15. TagLinks' = TagLinks
    <2>1. DOMAIN t \cap DOMAIN mem.posts = DOMAIN mem.postTags \cap DOMAIN mem.posts
      BY <1>3, <1>10
    <2>2. TagLinks' = UNION {{p} \X t[p] : p \in DOMAIN t \cap DOMAIN mem.posts}
      BY <1>6, <1>7 DEF TagLinks, Published
    <2> QED
      BY <1>10, <2>1, <2>2 DEF TagLinks, Published
  <1>16. LikeRows' = LikeRows /\ ImageLinks' = ImageLinks /\ OgpLinks' = OgpLinks
    BY <1>7 DEF LikeRows, ImageLinks, OgpLinks, Published
  <1>17. Tables' = Tables
    BY <1>6, <1>7, <1>15, <1>16 DEF OnlyIn, Fields, Tables
  <1> QED
    BY <1>2, <1>12, <1>13, <1>14, <1>17 DEF Sound, StoreInv, Contract!vars

\* The third makes the post and all its links visible in one step, as the COMMIT
\* of the transaction does.
LEMMA PublishSound ==
    ASSUME StoreInv, NEW id \in DOMAIN creating, Publish(id)
    PROVE  Sound
  <1> DEFINE c == creating[id]
             row == [author |-> c.author, parent |-> c.parent, likes |-> 0, replies |-> 0,
                     deleted |-> FALSE]
             t == Put(mem.posts, id, row)
             n == Without(creating, id)
  <1>1. /\ IsMap(creating, CallRec) /\ IsMap(mem.posts, PostRec) /\ CallInv(id)
        /\ c \in CallRec /\ DOMAIN mem.posts \subseteq PostIds
    BY DEF StoreInv, LinksInv, RowsInv, IsMap
  <1>2. /\ c.pc = "row" /\ mem' = [mem EXCEPT !.posts = t] /\ creating' = n
        /\ suite' = suite /\ now' = now /\ ret' = <<"CreatePost", {id}>> /\ reading' = reading
    BY DEF Publish
  <1>3. OnlyIn({"posts"}) /\ mem'.posts = t
    BY <1>2, OneField DEF StoreInv, Fields
  <1>4. /\ mem'.postImages = mem.postImages /\ mem'.images = mem.images
        /\ mem'.postTags = mem.postTags /\ mem'.postOGPs = mem.postOGPs /\ mem'.likes = mem.likes
        /\ mem'.tags = mem.tags /\ mem'.byName = mem.byName /\ mem'.badges = mem.badges
        /\ mem'.byKey = mem.byKey
    BY <1>3 DEF OnlyIn, Fields
  <1>5. /\ id \in PostIds \ DOMAIN mem.posts
        /\ id \in DOMAIN mem.postImages <=> c.imgs # <<>>
        /\ id \in DOMAIN mem.postImages => mem.postImages[id] = c.imgs
        /\ id \in DOMAIN mem.postTags <=> c.tags # {}
        /\ id \in DOMAIN mem.postTags => mem.postTags[id] = c.tags
    BY <1>1, <1>2 DEF CallInv
  <1>6. row \in PostRec
    BY <1>1 DEF CallRec, PostRec
  <1>7. t = Contract!PostCreate(mem.posts, id, c.author, c.parent)
    BY <1>5 DEF Contract!PostCreate, Contract!Inserted, Put
  <1> HIDE DEF row
  <1>8. /\ IsMap(t, PostRec) /\ DOMAIN t = DOMAIN mem.posts \cup {id}
    BY <1>1, <1>6 DEF IsMap, Put
  <1>9. /\ IsMap(n, CallRec) /\ DOMAIN n = DOMAIN creating \ {id}
        /\ \A x \in DOMAIN n : n[x] = creating[x]
    BY <1>1 DEF IsMap, Without, Restrict
  <1> HIDE DEF n, t
  <1>10. ASSUME NEW x \in DOMAIN n PROVE CallInv(x)'
    <2>1. x \in DOMAIN creating /\ n[x] = creating[x] /\ x # id
      BY <1>9
    <2>2. CallInv(x)
      BY <2>1 DEF StoreInv, LinksInv
    <2> QED
      BY <1>2, <1>3, <1>4, <1>8, <2>1, <2>2 DEF CallInv
  <1>11. LinksInv'
    <2>1. /\ IsMap(n, CallRec) /\ \A x \in DOMAIN n : CallInv(x)'
          /\ DOMAIN mem.postImages \subseteq DOMAIN t \cup DOMAIN n
          /\ DOMAIN mem.postTags \subseteq DOMAIN t \cup DOMAIN n
      BY <1>8, <1>9, <1>10 DEF StoreInv, LinksInv
    <2>2. reading # <<>> => \E x \in DOMAIN mem.postImages \cap DOMAIN t : mem.postImages[x] = reading
      BY <1>8 DEF StoreInv, LinksInv, Published
    <2> QED
      BY <1>2, <1>3, <1>4, <2>1, <2>2 DEF LinksInv, Published
  <1>12. RowsInv'
    BY <1>1, <1>2, <1>3, <1>5, <1>8 DEF StoreInv, RowsInv, OnlyIn, Fields
  <1>13. suite \in {"posts", "links"}
    BY <1>1 DEF CallInv
  <1>14. OgpInv' /\ IndexesConsistent'
    BY <1>2, <1>3, <1>4, <1>8, <1>13 DEF StoreInv, OgpInv, IndexesConsistent
  <1>15. c.imgs \in Seq(ImageIds) \/ c.imgs = <<>>
    BY <1>1, StoreAssumption DEF CallRec
  <1>16. DOMAIN c.imgs = 1..Len(c.imgs)
    BY <1>15
  <1> HIDE DEF c
  <1>17. ImageLinks' = ImageLinks \cup Contract!PostImageRows(id, c.imgs)
    <2> DEFINE P(p) == {<<p, mem.postImages[p][i], i - 1>> : i \in DOMAIN mem.postImages[p]}
    <2>1. ImageLinks' = UNION {P(p) : p \in DOMAIN mem.postImages \cap DOMAIN t}
      BY <1>3, <1>4 DEF ImageLinks, Published
    <2>2. ImageLinks = UNION {P(p) : p \in DOMAIN mem.postImages \cap DOMAIN mem.posts}
      BY DEF ImageLinks, Published
    <2>3. CASE id \in DOMAIN mem.postImages
      <3>1. Contract!PostImageRows(id, c.imgs) = P(id)
        BY <1>5, <1>16, <2>3 DEF Contract!PostImageRows
      <3> HIDE DEF P
      <3> QED
        BY <1>8, <2>1, <2>2, <2>3, <3>1
    <2>4. CASE id \notin DOMAIN mem.postImages
      <3>1. Contract!PostImageRows(id, c.imgs) = {}
        BY <1>5, <2>4 DEF Contract!PostImageRows
      <3> HIDE DEF P
      <3>2. DOMAIN mem.postImages \cap DOMAIN t = DOMAIN mem.postImages \cap DOMAIN mem.posts
        BY <1>8, <2>4
      <3> QED
        BY <2>1, <2>2, <3>1, <3>2
    <2> QED
      BY <2>3, <2>4
  <1>18. TagLinks' = TagLinks \cup Contract!PostTagRows(id, c.tags)
    <2> DEFINE P(p) == {p} \X mem.postTags[p]
    <2>1. TagLinks' = UNION {P(p) : p \in DOMAIN mem.postTags \cap DOMAIN t}
      BY <1>3, <1>4 DEF TagLinks, Published
    <2>2. TagLinks = UNION {P(p) : p \in DOMAIN mem.postTags \cap DOMAIN mem.posts}
      BY DEF TagLinks, Published
    <2>3. CASE id \in DOMAIN mem.postTags
      <3>1. Contract!PostTagRows(id, c.tags) = P(id)
        BY <1>5, <2>3 DEF Contract!PostTagRows
      <3> HIDE DEF P
      <3> QED
        BY <1>8, <2>1, <2>2, <2>3, <3>1
    <2>4. CASE id \notin DOMAIN mem.postTags
      <3>1. Contract!PostTagRows(id, c.tags) = {}
        BY <1>5, <2>4 DEF Contract!PostTagRows
      <3> HIDE DEF P
      <3>2. DOMAIN mem.postTags \cap DOMAIN t = DOMAIN mem.postTags \cap DOMAIN mem.posts
        BY <1>8, <2>4
      <3> QED
        BY <2>1, <2>2, <3>1, <3>2
    <2> QED
      BY <2>3, <2>4
  <1>19. OgpLinks' = OgpLinks /\ LikeRows' = LikeRows
    <2>1. DOMAIN mem.postOGPs \cap DOMAIN t = DOMAIN mem.postOGPs \cap DOMAIN mem.posts
      BY <1>5, <1>8 DEF StoreInv, OgpInv
    <2> QED
      BY <1>3, <1>4, <2>1 DEF OgpLinks, LikeRows, Published
  <1> DEFINE im == Contract!PostImageRows(id, c.imgs)
             tg == Contract!PostTagRows(id, c.tags)
  <1> HIDE DEF im, tg
  <1>20. ImageLinks' = ImageLinks \cup im /\ TagLinks' = TagLinks \cup tg
    BY <1>17, <1>18 DEF im, tg
  <1>21. Tables' = [Tables EXCEPT !.posts = t, !.postImages = @ \cup im, !.postTags = @ \cup tg]
    <2> DEFINE a == ImageLinks \cup im
               b == TagLinks \cup tg
    <2>1. ImageLinks' = a /\ TagLinks' = b
      BY <1>20
    <2>2. Tables.postImages = ImageLinks /\ Tables.postTags = TagLinks
      BY DEF Tables
    <2> HIDE DEF a, b
    <2>3. /\ mem'.users = mem.users /\ mem'.follows = mem.follows /\ mem'.userBadges = mem.userBadges
          /\ mem'.rows = mem.rows /\ mem'.jobs = mem.jobs
      BY <1>3 DEF OnlyIn, Fields
    <2>4. Tables' = [users |-> mem.users, follows |-> mem.follows, posts |-> t,
                     images |-> mem.images, tags |-> mem.tags, badges |-> mem.badges,
                     grants |-> mem.userBadges, cache |-> mem.rows, jobs |-> mem.jobs,
                     likes |-> LikeRows, postImages |-> a, postTags |-> b, postOgp |-> OgpLinks]
      BY <1>3, <1>4, <1>19, <2>1, <2>3 DEF Tables
    <2> DEFINE x == [Tables EXCEPT !.posts = t]
               y == [x EXCEPT !.postImages = a]
               z == [y EXCEPT !.postTags = b]
    <2>5. x = [users |-> mem.users, follows |-> mem.follows, posts |-> t,
                 images |-> mem.images, tags |-> mem.tags, badges |-> mem.badges,
                 grants |-> mem.userBadges, cache |-> mem.rows, jobs |-> mem.jobs,
                 likes |-> LikeRows, postImages |-> ImageLinks, postTags |-> TagLinks, postOgp |-> OgpLinks]
      BY DEF Tables
    <2>6. y = [users |-> mem.users, follows |-> mem.follows, posts |-> t,
                 images |-> mem.images, tags |-> mem.tags, badges |-> mem.badges,
                 grants |-> mem.userBadges, cache |-> mem.rows, jobs |-> mem.jobs,
                 likes |-> LikeRows, postImages |-> a, postTags |-> TagLinks, postOgp |-> OgpLinks]
      <3> HIDE DEF x
      <3> QED
        BY <2>5
    <2>7. z = [users |-> mem.users, follows |-> mem.follows, posts |-> t,
                 images |-> mem.images, tags |-> mem.tags, badges |-> mem.badges,
                 grants |-> mem.userBadges, cache |-> mem.rows, jobs |-> mem.jobs,
                 likes |-> LikeRows, postImages |-> a, postTags |-> b, postOgp |-> OgpLinks]
      <3> HIDE DEF y
      <3> QED
        BY <2>6
    <2>8. z = [Tables EXCEPT !.posts = t, !.postImages = a, !.postTags = b]
      OBVIOUS
    <2> QED
      BY <2>2, <2>4, <2>7, <2>8 DEF a, b
  <1>22. Tables.posts = mem.posts /\ Tables.images = mem.images
    BY DEF Tables
  <1>23. Contract!CreatePost(id, c.author, c.parent, c.imgs, c.tags)
    BY <1>2, <1>5, <1>7, <1>21, <1>22
       DEF Contract!CreatePost, Contract!Answer, Contract!Writes, im, tg
  <1>24. Contract!Next
    <2>1. CASE suite = "posts"
      <3>1. c.author \in UserSubs /\ c.parent \in DOMAIN mem.posts \cup {Null} /\ c.imgs = <<>> /\ c.tags = {}
        BY <1>1, <2>1 DEF CallInv, c
      <3>2. Contract!CreatePost(id, c.author, c.parent, <<>>, {})
        BY <1>23, <3>1
      <3> QED
        BY <1>5, <1>22, <2>1, <3>1, <3>2 DEF Contract!Next, Contract!PostNext, Contract!Null, Null
    <2>2. CASE suite = "links"
      <3>1. c.author = 1 /\ c.parent = Null /\ c.imgs \in ImageChoices /\ c.tags \in TagChoices
            /\ ToSet(c.imgs) \subseteq DOMAIN mem.images
        BY <1>1, <2>2 DEF CallInv, c
      <3>2. Contract!CreatePost(id, 1, Null, c.imgs, c.tags)
        BY <1>23, <3>1
      <3>3. Contract!ToSet(c.imgs) \subseteq DOMAIN Tables.images
        BY <1>22, <3>1 DEF Contract!ToSet, ToSet
      <3> QED
        BY <1>5, <2>2, <3>1, <3>2, <3>3 DEF Contract!Next, Contract!LinkNext, Contract!Null, Null
    <2> QED
      BY <1>13, <2>1, <2>2
  <1> QED
    BY <1>11, <1>12, <1>14, <1>24 DEF Sound, StoreInv

\* The steps of the post repository.
LEMMA PostSound ==
    ASSUME StoreInv, PostNext
    PROVE  Sound
  <1>1. suite = "posts"
    BY DEF PostNext
  <1>2. ASSUME NEW id \in PostIds, NEW a \in UserSubs, NEW parent \in DOMAIN mem.posts \cup {Null},
               CallCreate(id, a, parent, <<>>, {})
        PROVE  Sound
    <2> DEFINE im == <<>>
               tg == {}
    <2>1. /\ suite = "posts" /\ a \in UserSubs /\ parent \in DOMAIN mem.posts \cup {Null}
          /\ im = <<>> /\ tg = {} /\ CallCreate(id, a, parent, im, tg)
      BY <1>1, <1>2
    <2> HIDE DEF im, tg
    <2> QED
      BY <2>1, CallCreateSound
  <1>3. CASE CreateSteps
    BY <1>3, AttachImagesSound, AttachTagsSound, PublishSound DEF CreateSteps
  <1> QED
    BY <1>1, <1>2, <1>3, DeletePostSound, IncrementPostSound, DecrementPostSound DEF PostNext, Has

(***************************************************************************)
(* Images                                                                  *)
(***************************************************************************)
\* A write to the images.
LEMMA ImagesWritten ==
    ASSUME StoreInv, NEW t, IsMap(t, ImageRec), DOMAIN mem.images \subseteq DOMAIN t,
           mem' = [mem EXCEPT !.images = t], Quiet
    PROVE  StoreInv' /\ Tables' = [Tables EXCEPT !.images = t]
  <1>1. OnlyIn({"images"}) /\ mem'.images = t
    BY OneField DEF StoreInv, Fields
  <1>2. /\ mem'.posts = mem.posts /\ mem'.postImages = mem.postImages
        /\ mem'.postTags = mem.postTags /\ mem'.postOGPs = mem.postOGPs /\ mem'.likes = mem.likes
        /\ mem'.tags = mem.tags /\ mem'.byName = mem.byName /\ mem'.badges = mem.badges
        /\ mem'.byKey = mem.byKey
    BY <1>1 DEF OnlyIn, Fields
  <1>3. RowsInv'
    BY <1>1 DEF StoreInv, RowsInv, OnlyIn, Fields, Quiet
  <1>4. OgpInv' /\ IndexesConsistent'
    BY <1>2 DEF StoreInv, OgpInv, IndexesConsistent, Quiet
  <1>5. LinksInv'
    <2>1. ASSUME NEW x \in DOMAIN creating PROVE CallInv(x)'
      <3>1. CallInv(x)
        BY DEF StoreInv, LinksInv
      <3>2. creating' = creating /\ suite' = suite
        BY DEF Quiet
      <3> QED
        BY <1>1, <1>2, <3>1, <3>2 DEF CallInv
    <2> QED
      BY <1>2, <2>1 DEF StoreInv, LinksInv, Quiet, Published
  <1>6. ImageLinks' = ImageLinks /\ TagLinks' = TagLinks /\ OgpLinks' = OgpLinks /\ LikeRows' = LikeRows
    BY <1>2 DEF ImageLinks, TagLinks, OgpLinks, LikeRows, Published
  <1>7. Tables' = [Tables EXCEPT !.images = t]
    BY <1>1, <1>2, <1>6 DEF OnlyIn, Fields, Tables
  <1> QED
    BY <1>3, <1>4, <1>5, <1>7 DEF StoreInv

\* Creating an image.
LEMMA CreateImageSound ==
    ASSUME StoreInv, suite = "links", NEW id \in ImageIds, CreateImage(id, 1)
    PROVE  Sound
  <1> DEFINE row == [owner |-> 1, createdAt |-> now, deleted |-> FALSE]
             t == Put(mem.images, id, row)
  <1>1. IsMap(mem.images, ImageRec) /\ now \in Nat
    BY DEF StoreInv, RowsInv
  <1>2. /\ id \notin DOMAIN mem.images /\ Quiet /\ ret' = <<"CreateImage", {id}>>
        /\ mem' = [mem EXCEPT !.images = t]
    BY DEF CreateImage, Returns, Quiet, Has
  <1>3. row \in ImageRec
    BY <1>1 DEF ImageRec
  <1>4. t = Contract!ImageCreate(mem.images, id, 1, now)
    BY <1>2 DEF Contract!ImageCreate, Contract!Inserted, Put
  <1> HIDE DEF row
  <1>5. IsMap(t, ImageRec) /\ DOMAIN mem.images \subseteq DOMAIN t
    BY <1>1, <1>3 DEF IsMap, Put
  <1> HIDE DEF t
  <1>6. StoreInv' /\ Tables' = [Tables EXCEPT !.images = t]
    BY <1>2, <1>5, ImagesWritten
  <1>7. Tables.images = mem.images
    BY DEF Tables
  <1>8. Contract!CreateImage(id, 1)
    BY <1>2, <1>4, <1>6, <1>7 DEF Contract!CreateImage, Contract!Answer, Contract!Writes, Quiet
  <1>9. Contract!Next
    BY <1>8 DEF Contract!Next, Contract!LinkNext
  <1> QED
    BY <1>6, <1>9 DEF Sound

\* Deleting an image marks the row, once.
LEMMA DeleteImageSound ==
    ASSUME StoreInv, suite = "links", NEW id \in ImageIds, DeleteImage(id)
    PROVE  Sound
  <1> DEFINE t == Contract!SoftDelete(mem.images, id)
  <1>1. IsMap(mem.images, ImageRec)
    BY DEF StoreInv, RowsInv
  <1>2. IsMap(t, ImageRec) /\ DOMAIN mem.images \subseteq DOMAIN t
    BY <1>1 DEF IsMap, ImageRec, Contract!SoftDelete
  <1>3. mem' = [mem EXCEPT !.images = t]
    <2>1. CASE id \notin DOMAIN mem.images
      <3>1. t = mem.images
        BY <1>1, <2>1 DEF IsMap, Contract!SoftDelete
      <3>2. mem' = mem
        BY <2>1 DEF DeleteImage, Returns, Has
      <3> QED
        BY <3>1, <3>2 DEF StoreInv, RowsInv, Fields
    <2>2. CASE id \in DOMAIN mem.images
      BY <1>1, <2>2 DEF DeleteImage, Returns, Has, IsMap, ImageRec, Contract!SoftDelete
    <2> QED
      BY <2>1, <2>2
  <1>4. Quiet /\ ret' = <<"DeleteImage", {}>>
    BY DEF DeleteImage, Returns, Quiet
  <1> HIDE DEF t
  <1>5. StoreInv' /\ Tables' = [Tables EXCEPT !.images = t]
    BY <1>2, <1>3, <1>4, ImagesWritten
  <1>6. Tables.images = mem.images
    BY DEF Tables
  <1>7. Contract!DeleteImage(id)
    BY <1>4, <1>5, <1>6 DEF Contract!DeleteImage, Contract!Answer, Contract!Writes, Quiet, t
  <1>8. Contract!Next
    BY <1>7 DEF Contract!Next, Contract!LinkNext
  <1> QED
    BY <1>5, <1>8 DEF Sound

(***************************************************************************)
(* What a reader of the links finds                                        *)
(***************************************************************************)
\* The links of an id are a list of targets at rising positions.
LinkList(links, id, n, what, pos) ==
    /\ n \in Nat /\ pos \in [1..n -> Nat]
    /\ \A i, j \in 1..n : i < j => pos[i] < pos[j]
    /\ \A r : (r \in links /\ r[1] = id) <=> (\E i \in 1..n : r = <<id, what[i], pos[i]>>)

\* The places of a list that hold rows.
Kept(n, what, rows) == {i \in 1..n : what[i] \in rows}

\* The join of a link table with the rows it links: the targets that are rows,
\* in the order of the list.
LEMMA JoinInOrder ==
    ASSUME NEW links, NEW id, NEW rows, NEW n, NEW what, NEW pos, LinkList(links, id, n, what, pos)
    PROVE  Contract!LinkedRows(links, id, rows) = Contract!Subsequence(what, Kept(n, what, rows))
  <1> DEFINE P == Kept(n, what, rows)
             pk == [i \in P |-> i]
             L == {r \in links : r[1] = id /\ r[2] \in rows}
             lk == [r \in L |-> r[3]]
             m == Cardinality(P)
             at == Contract!Sorted(P, pk)
             d == [i \in 1..m |-> <<id, what[at[i]], pos[at[i]]>>]
  <1>1. /\ n \in Nat /\ pos \in [1..n -> Nat]
        /\ \A i, j \in 1..n : i < j => pos[i] < pos[j]
    BY DEF LinkList
  <1>2. P \subseteq 1..n
    BY DEF Kept
  <1>3. Keyed(P, pk)
    <2> HIDE DEF P
    <2>1. IsFiniteSet(P)
      <3>1. IsFiniteSet(1..n)
        BY <1>1, FS_Interval
      <3> QED
        BY <1>2, <3>1, FS_Subset
    <2>2. \A i \in P : i \in Nat
      BY <1>1, <1>2
    <2> QED
      BY <2>1, <2>2 DEF Keyed
  <1>4. /\ m \in Nat /\ at \in [1..m -> P]
        /\ \A i, j \in 1..m : i < j => pk[at[i]] < pk[at[j]]
        /\ \A x \in P : \E i \in 1..m : at[i] = x
    <2> HIDE DEF P, pk
    <2> QED
      BY <1>3, SortedSorts
  <1>5. \A i \in P : pk[i] = i
    OBVIOUS
  <1>6. \A r : r \in L <=> \E i \in P : r = <<id, what[i], pos[i]>>
    <2> SUFFICES ASSUME NEW r PROVE r \in L <=> \E i \in P : r = <<id, what[i], pos[i]>>
      OBVIOUS
    <2>1. ASSUME r \in L PROVE \E i \in P : r = <<id, what[i], pos[i]>>
      <3>1. PICK i \in 1..n : r = <<id, what[i], pos[i]>>
        BY <2>1 DEF LinkList
      <3>2. what[i] \in rows
        BY <2>1, <3>1
      <3> QED
        BY <3>1, <3>2 DEF Kept
    <2>2. ASSUME NEW i \in P, r = <<id, what[i], pos[i]>> PROVE r \in L
      <3>1. i \in 1..n /\ what[i] \in rows
        BY DEF Kept
      <3>2. r \in links /\ r[1] = id
        BY <2>2, <3>1 DEF LinkList
      <3> QED
        BY <2>2, <3>1, <3>2
    <2> QED
      BY <2>1, <2>2
  <1>7. /\ d \in [1..m -> L]
        /\ \A x \in L : \E i \in 1..m : d[i] = x
        /\ \A i \in 1..m : d[i] = <<id, what[at[i]], pos[at[i]]>> /\ at[i] \in P
    <2> HIDE DEF L, at, m, P
    <2>1. \A i \in 1..m : d[i] = <<id, what[at[i]], pos[at[i]]>> /\ at[i] \in P /\ d[i] \in L
      BY <1>4, <1>6
    <2>2. ASSUME NEW x \in L PROVE \E i \in 1..m : d[i] = x
      <3>1. PICK k \in P : x = <<id, what[k], pos[k]>>
        BY <1>6
      <3>2. PICK i \in 1..m : at[i] = k
        BY <1>4
      <3> QED
        BY <2>1, <3>1, <3>2
    <2> QED
      BY <2>1, <2>2
  <1> HIDE DEF d, at, P
  <1>8. \A i, j \in P : pos[i] = pos[j] => i = j
    <2> SUFFICES ASSUME NEW i \in P, NEW j \in P, pos[i] = pos[j], i # j PROVE FALSE
      OBVIOUS
    <2>1. i \in 1..n /\ j \in 1..n /\ pos[i] \in Nat
      BY <1>1, <1>2
    <2>2. i < j \/ j < i
      BY <1>1, <2>1
    <2> QED
      BY <1>1, <2>1, <2>2
  <1>9. Keyed(L, lk)
    <2>1. ASSUME NEW r \in L PROVE lk[r] \in Nat /\ \A q \in L : lk[q] = lk[r] => q = r
      <3> HIDE DEF L
      <3>1. PICK i \in P : r = <<id, what[i], pos[i]>>
        BY <1>6
      <3>2. pos[i] \in Nat
        BY <1>1, <1>2
      <3>3. lk[r] = pos[i]
        BY <3>1
      <3>4. ASSUME NEW q \in L, lk[q] = lk[r] PROVE q = r
        <4>1. PICK j \in P : q = <<id, what[j], pos[j]>>
          BY <1>6
        <4>2. lk[q] = pos[j]
          BY <4>1
        <4>3. i = j
          BY <1>8, <3>3, <3>4, <4>2
        <4> QED
          BY <3>1, <4>1, <4>3
      <3> QED
        BY <3>2, <3>3, <3>4
    <2>2. IsFiniteSet(L)
      <3> HIDE DEF L
      <3>1. d \in Surjection(1..m, L)
        BY <1>7, Fun_IsSurj
      <3>2. IsFiniteSet(1..m)
        BY <1>4, FS_Interval
      <3> QED
        BY <3>1, <3>2, FS_Surjection
    <2> HIDE DEF L
    <2> QED
      BY <2>1, <2>2 DEF Keyed
  <1>10. \A i, j \in 1..m : i < j => lk[d[i]] < lk[d[j]]
    <2> SUFFICES ASSUME NEW i \in 1..m, NEW j \in 1..m, i < j PROVE lk[d[i]] < lk[d[j]]
      OBVIOUS
    <2>1. /\ d[i] \in L /\ d[j] \in L /\ at[i] \in P /\ at[j] \in P
          /\ d[i] = <<id, what[at[i]], pos[at[i]]>> /\ d[j] = <<id, what[at[j]], pos[at[j]]>>
      BY <1>7
    <2>2. at[i] < at[j]
      <3> HIDE DEF m, pk
      <3>1. pk[at[i]] < pk[at[j]]
        BY <1>4
      <3>2. pk[at[i]] = at[i] /\ pk[at[j]] = at[j]
        BY <1>5, <2>1
      <3> QED
        BY <3>1, <3>2
    <2>3. pos[at[i]] < pos[at[j]]
      BY <1>1, <1>2, <2>1, <2>2
    <2> HIDE DEF L
    <2>4. lk[d[i]] = pos[at[i]] /\ lk[d[j]] = pos[at[j]]
      BY <2>1
    <2> QED
      BY <2>3, <2>4
  <1>11. m = Cardinality(L) /\ d = Contract!Sorted(L, lk)
    <2> HIDE DEF L, lk, m
    <2>1. m \in Nat /\ d \in [1..m -> L]
      BY <1>4, <1>7
    <2>2. \A x \in L : \E i \in 1..m : d[i] = x
      BY <1>7
    <2> QED
      BY <1>9, <1>10, <2>1, <2>2, SortedOnly
  <1>12. Contract!LinkedRows(links, id, rows) = [i \in 1..Contract!Cardinality(L) |-> Contract!Sorted(L, lk)[i][2]]
    BY DEF Contract!LinkedRows
  <1>13. Contract!Cardinality(L) = m
    BY <1>11, SameCardinality
  <1> HIDE DEF L, lk, m
  <1>14. Contract!LinkedRows(links, id, rows) = [i \in 1..m |-> d[i][2]]
    BY <1>11, <1>12, <1>13
  <1>15. [i \in 1..m |-> d[i][2]] = [i \in 1..m |-> what[at[i]]]
    BY <1>7
  <1>16. Contract!Subsequence(what, P) = [i \in 1..Contract!Cardinality(P) |-> what[Contract!Sorted(P, pk)[i]]]
    BY DEF Contract!Subsequence
  <1>17. Contract!Cardinality(P) = m
    BY SameCardinality DEF m
  <1> QED
    BY <1>14, <1>15, <1>16, <1>17 DEF at, P

\* The live ones of the images of a post, by the joins of the tables.
LEMMA ShownIsJoin ==
    ASSUME StoreInv, NEW id \in DOMAIN mem.posts, NEW s \in Seq(ImageIds),
           Get(mem.postImages, id, <<>>) = s
    PROVE  Contract!ImagesByPost(ImageLinks, mem.images, id) = Shown(s)
  <1> DEFINE live == Contract!Live(mem.images)
             P == {i \in DOMAIN s : Has(mem.images, s[i]) /\ ~mem.images[s[i]].deleted}
             n == Len(s)
             pos == [i \in 1..n |-> i - 1]
  <1>1. DOMAIN s = 1..n /\ n \in Nat
    OBVIOUS
  <1>2. P = Kept(n, s, live)
    BY <1>1 DEF Contract!Live, Has, Kept
  <1>3. \A r : (r \in ImageLinks /\ r[1] = id) <=> (\E i \in 1..n : r = <<id, s[i], i - 1>>)
    <2> HIDE DEF n
    <2> SUFFICES ASSUME NEW r
                 PROVE  (r \in ImageLinks /\ r[1] = id) <=> (\E i \in 1..n : r = <<id, s[i], i - 1>>)
      OBVIOUS
    <2>1. CASE id \in DOMAIN mem.postImages
      <3>1. s = mem.postImages[id]
        BY <2>1 DEF Get, Has
      <3>2. ASSUME r \in ImageLinks, r[1] = id PROVE \E i \in 1..n : r = <<id, s[i], i - 1>>
        <4>1. PICK p \in DOMAIN mem.postImages :
                \E i \in DOMAIN mem.postImages[p] : r = <<p, mem.postImages[p][i], i - 1>>
          BY <3>2 DEF ImageLinks, Published
        <4>2. p = id
          BY <3>2, <4>1
        <4> QED
          BY <1>1, <3>1, <4>1, <4>2
      <3>3. ASSUME NEW i \in 1..n, r = <<id, s[i], i - 1>> PROVE r \in ImageLinks /\ r[1] = id
        BY <1>1, <2>1, <3>1, <3>3 DEF ImageLinks, Published
      <3> QED
        BY <3>2, <3>3
    <2>2. CASE id \notin DOMAIN mem.postImages
      <3>1. s = <<>> /\ 1..n = {}
        BY <2>2 DEF Get, Has, n
      <3>2. ~(r \in ImageLinks /\ r[1] = id)
        BY <2>2 DEF ImageLinks, Published
      <3> QED
        BY <3>1, <3>2
    <2> QED
      BY <2>1, <2>2
  <1> HIDE DEF n
  <1>4. /\ pos \in [1..n -> Nat] /\ \A i, j \in 1..n : i < j => pos[i] < pos[j]
        /\ \A i \in 1..n : pos[i] = i - 1
    BY <1>1
  <1> HIDE DEF pos
  <1>5. \A r : (r \in ImageLinks /\ r[1] = id) <=> (\E i \in 1..n : r = <<id, s[i], pos[i]>>)
    BY <1>3, <1>4
  <1>6. LinkList(ImageLinks, id, n, s, pos)
    BY <1>1, <1>4, <1>5 DEF LinkList
  <1>7. Shown(s) = Contract!Subsequence(s, P)
    BY DEF Shown
  <1> HIDE DEF P, live
  <1>8. Contract!LinkedRows(ImageLinks, id, live) = Contract!Subsequence(s, Kept(n, s, live))
    BY <1>6, JoinInOrder
  <1>9. Contract!ImagesByPost(ImageLinks, mem.images, id) = Contract!LinkedRows(ImageLinks, id, live)
    BY DEF Contract!ImagesByPost, live
  <1> QED
    BY <1>2, <1>7, <1>8, <1>9

\* The first critical section of ListByPost takes the links of a post; none of
\* them changes once the post is published.
LEMMA ReadLinksSound ==
    ASSUME StoreInv, suite = "links", NEW id \in DOMAIN mem.posts, ReadLinks(id)
    PROVE  Sound
  <1> DEFINE s == Get(mem.postImages, id, <<>>)
  <1>1. s \in Seq(ImageIds)
    BY StoreAssumption DEF StoreInv, RowsInv, IsMap, Get, Has
  <1>2. mem' = mem /\ suite' = suite /\ now' = now /\ creating' = creating
    BY DEF ReadLinks
  <1>3. RowsInv' /\ OgpInv' /\ IndexesConsistent'
    BY <1>2 DEF StoreInv, RowsInv, OgpInv, IndexesConsistent
  <1>4. Tables' = Tables
    BY <1>2 DEF Tables, LikeRows, ImageLinks, TagLinks, OgpLinks, Published
  <1>5. CASE s = <<>>
    <2>1. ret' = <<"ListByPostID", <<>>>> /\ reading' = reading
      BY <1>5 DEF ReadLinks
    <2>2. LinksInv'
      BY <1>2, <2>1 DEF StoreInv, LinksInv, CallInv, Published
    <2>3. Contract!ImagesByPost(ImageLinks, mem.images, id) = Shown(s)
      <3> HIDE DEF s
      <3> QED
        BY <1>1, ShownIsJoin DEF s
    <2>4. Shown(s) = <<>>
      <3>1. {i \in DOMAIN s : Has(mem.images, s[i]) /\ ~mem.images[s[i]].deleted} = {}
        BY <1>5
      <3>2. Contract!Cardinality({}) = 0
        BY SameCardinality, FS_EmptySet
      <3> DEFINE P == {i \in DOMAIN s : Has(mem.images, s[i]) /\ ~mem.images[s[i]].deleted}
      <3>3. Shown(s) = [i \in 1..Contract!Cardinality(P) |-> s[Contract!Sorted(P, [k \in P |-> k])[i]]]
        BY DEF Shown, Contract!Subsequence
      <3> HIDE DEF P
      <3>4. Contract!Cardinality(P) = 0
        BY <3>1, <3>2 DEF P
      <3> QED
        BY <3>3, <3>4
    <2>5. Tables.postImages = ImageLinks /\ Tables.images = mem.images /\ Tables.posts = mem.posts
      BY DEF Tables
    <2>6. Contract!ListImages(id)
      BY <1>2, <1>4, <2>1, <2>3, <2>4, <2>5
         DEF Contract!ListImages, Contract!Answer, Contract!Writes
    <2>7. Contract!Next
      BY <2>5, <2>6 DEF Contract!Next, Contract!LinkNext
    <2> QED
      BY <1>3, <2>2, <2>7 DEF Sound, StoreInv
  <1>6. CASE s # <<>>
    <2>1. reading' = mem.postImages[id] /\ ret' = ret
      BY <1>6 DEF ReadLinks
    <2>2. id \in DOMAIN mem.postImages
      BY <1>6 DEF Get, Has
    <2>3. LinksInv'
      BY <1>2, <2>1, <2>2 DEF StoreInv, LinksInv, CallInv, Published
    <2> QED
      BY <1>2, <1>3, <1>4, <2>1, <2>3 DEF Sound, StoreInv, Contract!vars
  <1> QED
    BY <1>5, <1>6

\* The second filters the live ones: the answer is that of the JOIN at this moment,
\* whatever was deleted between the two.
LEMMA ReadImagesSound ==
    ASSUME StoreInv, suite = "links", ReadImages
    PROVE  Sound
  <1>1. /\ mem' = mem /\ suite' = suite /\ now' = now /\ creating' = creating
        /\ ret' = <<"ListByPostID", Shown(reading)>> /\ reading' = <<>> /\ reading # <<>>
    BY DEF ReadImages
  <1>2. RowsInv' /\ OgpInv' /\ IndexesConsistent'
    BY <1>1 DEF StoreInv, RowsInv, OgpInv, IndexesConsistent
  <1>3. Tables' = Tables
    BY <1>1 DEF Tables, LikeRows, ImageLinks, TagLinks, OgpLinks, Published
  <1>4. LinksInv'
    BY <1>1 DEF StoreInv, LinksInv, CallInv, Published
  <1>5. PICK id \in Published(mem.postImages) : mem.postImages[id] = reading
    BY <1>1 DEF StoreInv, LinksInv
  <1>6. /\ id \in DOMAIN mem.posts /\ Get(mem.postImages, id, <<>>) = reading
        /\ reading \in Seq(ImageIds)
    BY <1>5, StoreAssumption DEF Published, Get, Has, StoreInv, RowsInv, IsMap
  <1>7. Contract!ImagesByPost(ImageLinks, mem.images, id) = Shown(reading)
    BY <1>6, ShownIsJoin
  <1>8. Tables.postImages = ImageLinks /\ Tables.images = mem.images /\ Tables.posts = mem.posts
    BY DEF Tables
  <1>9. Contract!ListImages(id)
    BY <1>1, <1>3, <1>7, <1>8 DEF Contract!ListImages, Contract!Answer, Contract!Writes
  <1>10. Contract!Next
    BY <1>6, <1>8, <1>9 DEF Contract!Next, Contract!LinkNext
  <1> QED
    BY <1>2, <1>4, <1>10 DEF Sound, StoreInv

\* The steps of the image repository.
LEMMA LinkSound ==
    ASSUME StoreInv, LinkNext
    PROVE  Sound
  <1>1. suite = "links"
    BY DEF LinkNext
  <1>2. ASSUME NEW id \in PostIds, NEW imgs \in ImageChoices, NEW tags \in TagChoices,
               ToSet(imgs) \subseteq DOMAIN mem.images, CallCreate(id, 1, Null, imgs, tags)
        PROVE  Sound
    <2> DEFINE a == 1
               p == Null
    <2>1. /\ suite = "links" /\ a = 1 /\ p = Null /\ CallCreate(id, a, p, imgs, tags)
      BY <1>1, <1>2
    <2> HIDE DEF a, p
    <2> QED
      BY <1>2, <2>1, CallCreateSound
  <1>3. CASE CreateSteps
    BY <1>3, AttachImagesSound, AttachTagsSound, PublishSound DEF CreateSteps
  <1> QED
    BY <1>1, <1>2, <1>3, CreateImageSound, DeleteImageSound, ReadLinksSound, ReadImagesSound
       DEF LinkNext

(***************************************************************************)
(* The loop of UpsertByNames                                               *)
(***************************************************************************)
\* Induction up to n, over a set.
LEMMA UpTo ==
    ASSUME NEW n \in Nat, NEW S, 0 \in S,
           \A i \in 0..n : (i < n /\ i \in S) => i + 1 \in S
    PROVE  \A i \in 0..n : i \in S
  <1> DEFINE T == {i \in 0..n : i \notin S}
  <1> SUFFICES ASSUME T # {} PROVE FALSE
    OBVIOUS
  <1>1. T \subseteq Nat
    OBVIOUS
  <1>2. PICK x \in T : \A y \in T : ~(<<y, x>> \in OpToRel(<, Nat))
    <2> HIDE DEF T
    <2> QED BY <1>1, NatLessThanWellFounded, WFMin
  <1>3. \A y \in T : ~(y < x)
    BY <1>1, <1>2 DEF OpToRel
  <1>4. x # 0 /\ x \in 0..n
    OBVIOUS
  <1>5. x - 1 \in 0..n /\ x - 1 \notin T
    BY <1>3, <1>4
  <1> QED
    BY <1>4, <1>5

\* What the loop starts from.
Start == [tags |-> mem.tags, byName |-> mem.byName, seen |-> {}, out |-> <<>>]

\* g holds the first k turns.
IsLoop(g, names, fresh, k) ==
    g = [i \in 0..k |-> IF i = 0 THEN Start ELSE UpsertName(g[i - 1], names[i], fresh[i])]

\* There is a function that holds the first k turns.
LEMMA LoopExists ==
    ASSUME NEW names, NEW fresh, NEW n \in Nat
    PROVE  \E g : IsLoop(g, names, fresh, n)
  <1> DEFINE S == {k \in 0..n : \E g : IsLoop(g, names, fresh, k)}
  <1>1. 0 \in S
    <2> DEFINE g == [i \in 0..0 |-> Start]
    <2>1. IsLoop(g, names, fresh, 0)
      BY DEF IsLoop
    <2> QED
      BY <2>1
  <1>2. ASSUME NEW k \in 0..n, k < n, k \in S PROVE k + 1 \in S
    <2>1. PICK g : IsLoop(g, names, fresh, k)
      BY <1>2
    <2> DEFINE v == UpsertName(g[k], names[k + 1], fresh[k + 1])
               h == [i \in 0..(k + 1) |-> IF i = k + 1 THEN v ELSE g[i]]
    <2> HIDE DEF v
    <2>2. ASSUME NEW i \in 0..(k + 1)
          PROVE  h[i] = IF i = 0 THEN Start ELSE UpsertName(h[i - 1], names[i], fresh[i])
      <3>1. CASE i = k + 1
        <4>1. h[i] = v /\ h[i - 1] = g[k] /\ i # 0
          BY <1>2, <3>1
        <4> QED
          BY <3>1, <4>1 DEF v
      <3>2. CASE i # k + 1
        <4>1. i \in 0..k /\ h[i] = g[i]
          BY <3>2
        <4>2. i # 0 => h[i - 1] = g[i - 1]
          BY <4>1
        <4>3. g[i] = IF i = 0 THEN Start ELSE UpsertName(g[i - 1], names[i], fresh[i])
          BY <2>1, <4>1 DEF IsLoop
        <4> QED
          BY <4>1, <4>2, <4>3
      <3> QED
        BY <3>1, <3>2
    <2>3. h = [i \in 0..(k + 1) |-> h[i]]
      OBVIOUS
    <2> HIDE DEF h
    <2>4. IsLoop(h, names, fresh, k + 1)
      BY <2>2, <2>3 DEF IsLoop
    <2>5. k + 1 \in 0..n
      BY <1>2
    <2> QED
      BY <2>4, <2>5
  <1> HIDE DEF S
  <1>3. \A i \in 0..n : i \in S
    BY <1>1, <1>2, UpTo
  <1>4. n \in S
    BY <1>3
  <1> QED
    BY <1>4 DEF S

\* Turns holds every turn of the loop.
LEMMA TurnsLoop ==
    ASSUME NEW names, NEW fresh, NEW n \in Nat, Len(names) = n
    PROVE  IsLoop(Turns(names, fresh), names, fresh, n)
  <1>1. PICK g : IsLoop(g, names, fresh, n)
    BY LoopExists
  <1>2. g = [i \in 0..Len(names) |-> IF i = 0 THEN Start ELSE UpsertName(g[i - 1], names[i], fresh[i])]
    BY <1>1 DEF IsLoop
  <1>3. Turns(names, fresh) = CHOOSE f : f = [i \in 0..Len(names) |->
          IF i = 0 THEN Start ELSE UpsertName(f[i - 1], names[i], fresh[i])]
    BY DEF Turns, Start
  <1>4. Turns(names, fresh) = [i \in 0..Len(names) |->
          IF i = 0 THEN Start ELSE UpsertName(Turns(names, fresh)[i - 1], names[i], fresh[i])]
    BY <1>2, <1>3, Zenon
  <1> QED
    BY <1>4 DEF IsLoop

\* The places among the first k where a name comes up for the first time.
Places(names, k) == {i \in 1..k : names[i] # Null /\ \A j \in 1..(i - 1) : names[j] # names[i]}

\* A numbering of them in order.
Lists(at, m, names, k) ==
    /\ m \in Nat /\ at \in [1..m -> Places(names, k)]
    /\ \A i, j \in 1..m : i < j => at[i] < at[j]
    /\ \A p \in Places(names, k) : \E i \in 1..m : at[i] = p

\* What k turns of the loop have done.
TurnsInv(acc, names, fresh, k) ==
    /\ acc = [tags |-> acc.tags, byName |-> acc.byName, seen |-> acc.seen, out |-> acc.out]
    /\ IsMap(acc.tags, TagIds \cup Names) /\ IsMap(acc.byName, TagIds)
    /\ Indexes(acc.byName, acc.tags)
    /\ acc.seen = {names[i] : i \in Places(names, k)}
    /\ DOMAIN acc.byName = DOMAIN mem.byName \cup acc.seen
    /\ DOMAIN acc.tags = DOMAIN mem.tags
         \cup {fresh[i] : i \in {p \in Places(names, k) : names[p] \notin DOMAIN mem.byName}}
    /\ \A t \in DOMAIN mem.tags : acc.tags[t] = mem.tags[t]
    /\ \A i \in Places(names, k) : names[i] \notin DOMAIN mem.byName => acc.tags[fresh[i]] = names[i]
    /\ \E m \in Nat : \E at : Lists(at, m, names, k) /\ acc.out = [j \in 1..m |-> acc.byName[names[at[j]]]]

\* One more name is one more place, or none.
LEMMA PlacesGrow ==
    ASSUME NEW names, NEW k \in Nat,
           NEW S, S = {names[i] : i \in Places(names, k)}
    PROVE  /\ (names[k + 1] = Null \/ names[k + 1] \in S) => Places(names, k + 1) = Places(names, k)
           /\ ~(names[k + 1] = Null \/ names[k + 1] \in S)
                => Places(names, k + 1) = Places(names, k) \cup {k + 1}
           /\ k + 1 \notin Places(names, k)
  <1>1. Places(names, k + 1) \ {k + 1} = Places(names, k)
    BY DEF Places
  <1>2. k + 1 \notin Places(names, k)
    BY DEF Places
  <1>3. ASSUME names[k + 1] = Null \/ names[k + 1] \in S PROVE k + 1 \notin Places(names, k + 1)
    <2>1. CASE names[k + 1] = Null
      BY <2>1 DEF Places
    <2>2. CASE names[k + 1] \in S
      <3>1. PICK i \in Places(names, k) : names[i] = names[k + 1]
        BY <2>2
      <3> QED
        BY <3>1 DEF Places
    <2> QED
      BY <1>3, <2>1, <2>2
  <1>4. ASSUME ~(names[k + 1] = Null \/ names[k + 1] \in S) PROVE k + 1 \in Places(names, k + 1)
    <2> SUFFICES ASSUME NEW j \in 1..k, names[j] = names[k + 1] PROVE FALSE
      BY <1>4 DEF Places
    \* the first place of that name
    <2> DEFINE T == {i \in 1..k : names[i] = names[k + 1]}
    <2>1. T \subseteq Nat /\ T # {}
      OBVIOUS
    <2>2. PICK x \in T : \A y \in T : ~(<<y, x>> \in OpToRel(<, Nat))
      <3> HIDE DEF T
      <3> QED BY <2>1, NatLessThanWellFounded, WFMin
    <2>3. \A y \in T : ~(y < x)
      BY <2>1, <2>2 DEF OpToRel
    <2>4. x \in Places(names, k)
      <3>1. x \in 1..k /\ names[x] # Null
        BY <1>4
      <3>2. ASSUME NEW y \in 1..(x - 1) PROVE names[y] # names[x]
        <4>1. y \in 1..k /\ y < x
          BY <3>1
        <4> QED
          BY <2>3, <4>1
      <3> QED
        BY <3>1, <3>2 DEF Places
    <2>5. names[x] \in S
      BY <2>4
    <2> QED
      BY <1>4, <2>5
  <1> QED
    BY <1>1, <1>2, <1>3, <1>4

\* A new place comes last.
LEMMA ListsGrow ==
    ASSUME NEW names, NEW k \in Nat, NEW at, NEW m \in Nat, Lists(at, m, names, k),
           Places(names, k + 1) = Places(names, k) \cup {k + 1},
           NEW a, a = [j \in 1..(m + 1) |-> IF j = m + 1 THEN k + 1 ELSE at[j]]
    PROVE  Lists(a, m + 1, names, k + 1)
  <1>1. Places(names, k) \subseteq 1..k
    BY DEF Places
  <1>2. a \in [1..(m + 1) -> Places(names, k + 1)]
    BY DEF Lists
  <1>3. ASSUME NEW i \in 1..(m + 1), NEW j \in 1..(m + 1), i < j PROVE a[i] < a[j]
    <2>1. i \in 1..m /\ a[i] = at[i] /\ at[i] \in 1..k
      BY <1>1, <1>3 DEF Lists
    <2>2. CASE j = m + 1
      BY <2>1, <2>2
    <2>3. CASE j # m + 1
      BY <1>3, <2>1, <2>3 DEF Lists
    <2> QED
      BY <2>2, <2>3
  <1>4. ASSUME NEW p \in Places(names, k + 1) PROVE \E i \in 1..(m + 1) : a[i] = p
    <2>1. CASE p = k + 1
      <3>1. m + 1 \in 1..(m + 1) /\ a[m + 1] = p
        BY <2>1
      <3> QED
        BY <3>1
    <2>2. CASE p # k + 1
      <3>1. PICK i \in 1..m : at[i] = p
        BY <2>2 DEF Lists
      <3>2. i \in 1..(m + 1) /\ a[i] = p
        BY <3>1
      <3> QED
        BY <3>2
    <2> QED
      BY <2>1, <2>2
  <1> QED
    BY <1>2, <1>3, <1>4 DEF Lists

\* A row and its entry of the index are added together.
LEMMA IndexGrows ==
    ASSUME NEW index, NEW keyOf, Indexes(index, keyOf), NEW key, NEW row,
           key \notin DOMAIN index, row \notin DOMAIN keyOf
    PROVE  Indexes(Put(index, key, row), Put(keyOf, row, key))
  <1> DEFINE ix == Put(index, key, row)
             ko == Put(keyOf, row, key)
  <1>1. /\ DOMAIN ix = DOMAIN index \cup {key} /\ ix[key] = row
        /\ \A x \in DOMAIN index : ix[x] = index[x]
    BY DEF Put
  <1>2. /\ DOMAIN ko = DOMAIN keyOf \cup {row} /\ ko[row] = key
        /\ \A x \in DOMAIN keyOf : ko[x] = keyOf[x]
    BY DEF Put
  <1> HIDE DEF ix, ko
  <1>3. Indexes(ix, ko)
    BY <1>1, <1>2 DEF Indexes, Has
  <1> QED
    BY <1>3 DEF ix, ko

\* What was answered stays answered.
LEMMA OutGrows ==
    ASSUME NEW m \in Nat, NEW out \in [1..m -> TagIds], NEW v \in TagIds
    PROVE  Append(out, v) = [j \in 1..(m + 1) |-> IF j = m + 1 THEN v ELSE out[j]]
  <1> DEFINE b == Append(out, v)
  <1>1. out \in Seq(TagIds) /\ Len(out) = m
    OBVIOUS
  <1>2. /\ b \in Seq(TagIds) /\ Len(b) = m + 1 /\ b[m + 1] = v
        /\ \A j \in 1..m : b[j] = out[j]
    BY <1>1, AppendProperties
  <1> HIDE DEF b
  <1>3. b = [j \in 1..(m + 1) |-> b[j]]
    BY <1>2
  <1>4. \A j \in 1..(m + 1) : b[j] = IF j = m + 1 THEN v ELSE out[j]
    BY <1>2
  <1>5. b = [j \in 1..(m + 1) |-> IF j = m + 1 THEN v ELSE out[j]]
    BY <1>3, <1>4
  <1> QED
    BY <1>5 DEF b

\* One turn of the loop keeps what the turns before it did.
LEMMA TurnKeeps ==
    ASSUME NEW names, NEW fresh, NEW n \in Nat, names \in [1..n -> Names \cup {Null}],
           fresh \in [1..n -> TagIds \ DOMAIN mem.tags],
           \A i, j \in 1..n : fresh[i] = fresh[j] => i = j,
           NEW k \in 0..n, k < n, NEW acc, TurnsInv(acc, names, fresh, k)
    PROVE  TurnsInv(UpsertName(acc, names[k + 1], fresh[k + 1]), names, fresh, k + 1)
  <1> DEFINE name == names[k + 1]
             id == fresh[k + 1]
             new == UpsertName(acc, name, id)
             P == Places(names, k)
             Q == Places(names, k + 1)
             N(X) == {p \in X : names[p] \notin DOMAIN mem.byName}
  <1>1. k \in Nat /\ k + 1 \in 1..n /\ P \subseteq 1..k /\ id \in TagIds \ DOMAIN mem.tags
        /\ \A i \in 1..k : fresh[i] # id
    BY DEF Places
  <1>2. /\ (name = Null \/ name \in acc.seen) => Q = P
        /\ ~(name = Null \/ name \in acc.seen) => Q = P \cup {k + 1}
        /\ k + 1 \notin P
    BY <1>1, PlacesGrow DEF TurnsInv
  <1>3. CASE name = Null \/ name \in acc.seen
    <2>1. new = acc
      BY <1>3 DEF UpsertName
    <2>2. Q = P
      BY <1>2, <1>3
    <2>3. \A at, m : Lists(at, m, names, k) => Lists(at, m, names, k + 1)
      BY <2>2 DEF Lists
    <2> QED
      BY <2>1, <2>2, <2>3 DEF TurnsInv
  <1>4. CASE ~(name = Null \/ name \in acc.seen)
    <2>1. Q = P \cup {k + 1} /\ name \in Names
      BY <1>1, <1>2, <1>4
    <2>2. PICK m \in Nat : \E at : Lists(at, m, names, k) /\ acc.out = [j \in 1..m |-> acc.byName[names[at[j]]]]
      BY DEF TurnsInv
    <2>3. PICK at : Lists(at, m, names, k) /\ acc.out = [j \in 1..m |-> acc.byName[names[at[j]]]]
      BY <2>2
    <2> DEFINE a == [j \in 1..(m + 1) |-> IF j = m + 1 THEN k + 1 ELSE at[j]]
    <2>4. Lists(a, m + 1, names, k + 1)
      BY <1>1, <2>1, <2>3, ListsGrow
    <2>5. acc.seen \cup {name} = {names[i] : i \in Q}
      BY <2>1 DEF TurnsInv
    <2>6. acc.out \in [1..m -> TagIds]
      <3>1. ASSUME NEW j \in 1..m PROVE names[at[j]] \in DOMAIN acc.byName
        <4>1. at[j] \in P
          BY <2>3 DEF Lists
        <4>2. names[at[j]] \in acc.seen
          BY <4>1 DEF TurnsInv
        <4> QED
          BY <4>2 DEF TurnsInv
      <3>2. IsMap(acc.byName, TagIds)
        BY DEF TurnsInv
      <3> QED
        BY <2>3, <3>1, <3>2 DEF IsMap
    <2>7. CASE name \in DOMAIN acc.byName
      <3> DEFINE v == acc.byName[name]
      <3>1. new = [acc EXCEPT !.seen = @ \cup {name}, !.out = Append(@, v)]
        BY <1>4, <2>7 DEF UpsertName, Has
      <3>2. /\ new.tags = acc.tags /\ new.byName = acc.byName /\ new.seen = acc.seen \cup {name}
            /\ new.out = Append(acc.out, v)
            /\ new = [tags |-> new.tags, byName |-> new.byName, seen |-> new.seen, out |-> new.out]
        BY <3>1 DEF TurnsInv
      <3>3. name \in DOMAIN mem.byName
        BY <1>4, <2>7 DEF TurnsInv
      <3>4. N(Q) = N(P)
        BY <2>1, <3>3
      <3>5. v \in TagIds
        BY <2>7 DEF TurnsInv, IsMap
      <3> HIDE DEF v
      <3>6. Append(acc.out, v) = [j \in 1..(m + 1) |-> IF j = m + 1 THEN v ELSE acc.out[j]]
        BY <2>6, <3>5, OutGrows
      <3>7. new.out = [j \in 1..(m + 1) |-> new.byName[names[a[j]]]]
        <4>1. ASSUME NEW j \in 1..(m + 1) PROVE Append(acc.out, v)[j] = acc.byName[names[a[j]]]
          <5>1. CASE j = m + 1
            BY <3>6, <5>1 DEF v
          <5>2. CASE j # m + 1
            BY <2>3, <3>6, <5>2
          <5> QED
            BY <5>1, <5>2
        <4>2. Append(acc.out, v) = [j \in 1..(m + 1) |-> Append(acc.out, v)[j]]
          BY <3>6
        <4> HIDE DEF a, new
        <4> QED
          BY <3>2, <4>1, <4>2
      <3>8. DOMAIN new.byName = DOMAIN mem.byName \cup new.seen
        BY <2>7, <3>2 DEF TurnsInv
      <3>9. DOMAIN new.tags = DOMAIN mem.tags \cup {fresh[i] : i \in N(Q)}
        BY <3>2, <3>4 DEF TurnsInv
      <3>10. \A i \in Q : names[i] \notin DOMAIN mem.byName => new.tags[fresh[i]] = names[i]
        BY <2>1, <3>2, <3>3 DEF TurnsInv
      <3>11. \E mm \in Nat : \E at1 :
               Lists(at1, mm, names, k + 1) /\ new.out = [j \in 1..mm |-> new.byName[names[at1[j]]]]
        <4> HIDE DEF a, new
        <4>1. m + 1 \in Nat
          OBVIOUS
        <4> QED
          BY <2>4, <3>7, <4>1
      <3>12. /\ IsMap(new.tags, TagIds \cup Names) /\ IsMap(new.byName, TagIds)
             /\ Indexes(new.byName, new.tags)
             /\ \A t \in DOMAIN mem.tags : new.tags[t] = mem.tags[t]
             /\ new.seen = {names[i] : i \in Q}
        BY <2>5, <3>2 DEF TurnsInv
      <3> HIDE DEF new
      <3>13. TurnsInv(new, names, fresh, k + 1)
        BY <3>2, <3>8, <3>9, <3>10, <3>11, <3>12 DEF TurnsInv
      <3> QED
        BY <3>13 DEF new
    <2>8. CASE name \notin DOMAIN acc.byName
      <3>1. new = [tags |-> Put(acc.tags, id, name), byName |-> Put(acc.byName, name, id),
                   seen |-> acc.seen \cup {name}, out |-> Append(acc.out, id)]
        BY <1>4, <2>8 DEF UpsertName, Has
      <3>2. /\ new.tags = Put(acc.tags, id, name) /\ new.byName = Put(acc.byName, name, id)
            /\ new.seen = acc.seen \cup {name} /\ new.out = Append(acc.out, id)
            /\ new = [tags |-> new.tags, byName |-> new.byName, seen |-> new.seen, out |-> new.out]
        BY <3>1
      <3>3. name \notin DOMAIN mem.byName
        BY <2>8 DEF TurnsInv
      <3>4. N(Q) = N(P) \cup {k + 1}
        BY <2>1, <3>3
      <3>5. id \notin DOMAIN acc.tags
        BY <1>1 DEF TurnsInv
      <3> HIDE DEF new
      <3>6. /\ IsMap(new.tags, TagIds \cup Names) /\ DOMAIN new.tags = DOMAIN acc.tags \cup {id}
            /\ new.tags[id] = name /\ \A t \in DOMAIN acc.tags : new.tags[t] = acc.tags[t]
        BY <2>1, <3>2, <3>5 DEF TurnsInv, Put, IsMap
      <3>7. /\ IsMap(new.byName, TagIds) /\ DOMAIN new.byName = DOMAIN acc.byName \cup {name}
            /\ new.byName[name] = id /\ \A x \in DOMAIN acc.byName : new.byName[x] = acc.byName[x]
        BY <1>1, <2>8, <3>2 DEF TurnsInv, Put, IsMap
      <3>8. Indexes(new.byName, new.tags)
        <4>1. Indexes(acc.byName, acc.tags)
          BY DEF TurnsInv
        <4>2. Indexes(Put(acc.byName, name, id), Put(acc.tags, id, name))
          <5> HIDE DEF name, id
          <5> QED
            BY <2>8, <3>5, <4>1, IndexGrows
        <4> QED
          BY <3>2, <4>2
      <3>9. Append(acc.out, id) = [j \in 1..(m + 1) |-> IF j = m + 1 THEN id ELSE acc.out[j]]
        <4> HIDE DEF id
        <4> QED
          BY <1>1, <2>6, OutGrows
      <3>10. new.out = [j \in 1..(m + 1) |-> new.byName[names[a[j]]]]
        <4>1. ASSUME NEW j \in 1..(m + 1) PROVE new.out[j] = new.byName[names[a[j]]]
          <5>1. CASE j = m + 1
            BY <3>2, <3>7, <3>9, <5>1
          <5>2. CASE j # m + 1
            <6>1. j \in 1..m /\ a[j] = at[j] /\ new.out[j] = acc.out[j]
              BY <3>2, <3>9, <5>2
            <6>2. names[at[j]] \in DOMAIN acc.byName
              BY <2>3, <6>1 DEF Lists, TurnsInv
            <6> QED
              BY <2>3, <3>7, <6>1, <6>2
          <5> QED
            BY <5>1, <5>2
        <4>2. new.out = [j \in 1..(m + 1) |-> new.out[j]]
          BY <3>2, <3>9
        <4> HIDE DEF a
        <4> QED
          BY <4>1, <4>2
      <3>11. \E mm \in Nat : \E at1 :
               Lists(at1, mm, names, k + 1) /\ new.out = [j \in 1..mm |-> new.byName[names[at1[j]]]]
        <4> HIDE DEF a
        <4>1. m + 1 \in Nat
          OBVIOUS
        <4> QED
          BY <2>4, <3>10, <4>1
      <3>12. DOMAIN new.byName = DOMAIN mem.byName \cup new.seen
        BY <3>2, <3>7 DEF TurnsInv
      <3>13. DOMAIN new.tags = DOMAIN mem.tags \cup {fresh[i] : i \in N(Q)}
        BY <3>4, <3>6 DEF TurnsInv
      <3>14. \A i \in Q : names[i] \notin DOMAIN mem.byName => new.tags[fresh[i]] = names[i]
        <4> SUFFICES ASSUME NEW i \in Q, names[i] \notin DOMAIN mem.byName
                     PROVE  new.tags[fresh[i]] = names[i]
          OBVIOUS
        <4>1. CASE i = k + 1
          BY <3>6, <4>1
        <4>2. CASE i # k + 1
          <5>1. i \in P /\ fresh[i] \in DOMAIN acc.tags /\ acc.tags[fresh[i]] = names[i]
            BY <2>1, <4>2 DEF TurnsInv
          <5> QED
            BY <3>6, <5>1
        <4> QED
          BY <4>1, <4>2
      <3>15. \A t \in DOMAIN mem.tags : new.tags[t] = mem.tags[t]
        BY <3>6 DEF TurnsInv
      <3>16. new.seen = {names[i] : i \in Q}
        BY <2>5, <3>2
      <3>17. TurnsInv(new, names, fresh, k + 1)
        BY <3>2, <3>6, <3>7, <3>8, <3>11, <3>12, <3>13, <3>14, <3>15, <3>16 DEF TurnsInv
      <3> QED
        BY <3>17 DEF new
    <2> QED
      BY <2>7, <2>8
  <1> QED
    BY <1>3, <1>4

\* A write to the tags and to their index is one write to the table tags.
LEMMA TagsWritten ==
    ASSUME StoreInv, NEW t, NEW k, IsMap(t, TagIds \cup Names), IsMap(k, TagIds),
           Indexes(k, t),
           mem' = [mem EXCEPT !.tags = t, !.byName = k], Quiet
    PROVE  StoreInv' /\ Tables' = [Tables EXCEPT !.tags = t]
  <1>1. OnlyIn({"tags", "byName"}) /\ mem'.tags = t /\ mem'.byName = k
    BY DEF StoreInv, RowsInv, Fields, OnlyIn
  <1>2. /\ mem'.posts = mem.posts /\ mem'.images = mem.images /\ mem'.postImages = mem.postImages
        /\ mem'.postTags = mem.postTags /\ mem'.postOGPs = mem.postOGPs
        /\ mem'.badges = mem.badges /\ mem'.byKey = mem.byKey /\ mem'.likes = mem.likes
    BY <1>1 DEF OnlyIn, Fields
  <1>3. RowsInv'
    BY <1>1 DEF StoreInv, RowsInv, OnlyIn, Fields, Quiet
  <1>4. OgpInv' /\ LinksInv'
    BY <1>2 DEF StoreInv, OgpInv, LinksInv, CallInv, Quiet, Published
  <1>5. LikeRows' = LikeRows /\ ImageLinks' = ImageLinks /\ TagLinks' = TagLinks /\ OgpLinks' = OgpLinks
    BY <1>2 DEF LikeRows, ImageLinks, TagLinks, OgpLinks, Published
  <1>6. IndexesConsistent'
    BY <1>1, <1>2 DEF StoreInv, IndexesConsistent
  <1>7. Tables' = [Tables EXCEPT !.tags = t]
    BY <1>1, <1>2, <1>5 DEF OnlyIn, Fields, Tables
  <1> QED
    BY <1>3, <1>4, <1>6, <1>7 DEF StoreInv

\* All turns of the loop keep TurnsInv.
LEMMA LoopDone ==
    ASSUME StoreInv, NEW n \in Nat, NEW names \in [1..n -> Names \cup {Null}],
           NEW fresh \in [1..n -> TagIds \ DOMAIN mem.tags],
           \A i, j \in 1..n : fresh[i] = fresh[j] => i = j
    PROVE  TurnsInv(Turns(names, fresh)[n], names, fresh, n)
  <1> DEFINE g == Turns(names, fresh)
             S == {k \in 0..n : TurnsInv(g[k], names, fresh, k)}
  <1>1. Len(names) = n
    OBVIOUS
  <1>2. g = [i \in 0..n |-> IF i = 0 THEN Start ELSE UpsertName(g[i - 1], names[i], fresh[i])]
    BY <1>1, TurnsLoop DEF IsLoop
  <1> HIDE DEF g
  <1>3. g[0] = Start /\ \A k \in 0..n : k < n => g[k + 1] = UpsertName(g[k], names[k + 1], fresh[k + 1])
    BY <1>2
  <1>4. TurnsInv(Start, names, fresh, 0)
    <2>1. Places(names, 0) = {}
      BY DEF Places
    <2>2. /\ Start.tags = mem.tags /\ Start.byName = mem.byName /\ Start.seen = {} /\ Start.out = <<>>
          /\ Start = [tags |-> Start.tags, byName |-> Start.byName, seen |-> Start.seen, out |-> Start.out]
      BY DEF Start
    <2>3. /\ IsMap(mem.tags, TagIds \cup Names) /\ IsMap(mem.byName, TagIds)
          /\ Indexes(mem.byName, mem.tags)
      BY DEF StoreInv, RowsInv, IndexesConsistent
    <2>4. Lists(<<>>, 0, names, 0)
      BY <2>1 DEF Lists
    <2>5. \E m \in Nat : \E at :
            Lists(at, m, names, 0) /\ Start.out = [j \in 1..m |-> Start.byName[names[at[j]]]]
      <3>1. Start.out = [j \in 1..0 |-> Start.byName[names[<<>>[j]]]]
        BY <2>2
      <3> QED
        BY <2>4, <3>1
    <2> QED
      BY <2>1, <2>2, <2>3, <2>5 DEF TurnsInv
  <1>5. ASSUME NEW k \in 0..n, k < n, k \in S PROVE k + 1 \in S
    <2>1. TurnsInv(g[k], names, fresh, k)
      BY <1>5
    <2>2. TurnsInv(UpsertName(g[k], names[k + 1], fresh[k + 1]), names, fresh, k + 1)
      BY <1>5, <2>1, TurnKeeps
    <2> QED
      BY <1>3, <1>5, <2>2
  <1>6. 0 \in S
    BY <1>3, <1>4
  <1> HIDE DEF S
  <1>7. \A i \in 0..n : i \in S
    BY <1>5, <1>6, UpTo
  <1> QED
    BY <1>7 DEF S, g

\* UpsertByNames, one name at a time, does what one step of the contract does with
\* all of them: the distinct names that have no row get one each, under the
\* ids made for them, and the answer lists the ids of the distinct names in the
\* order in which they first come up.
LEMMA UpsertByNamesSound ==
    ASSUME StoreInv, suite = "tags", NEW names \in Contract!TagLists,
           NEW fresh \in [DOMAIN names -> TagIds \ DOMAIN mem.tags], IsInjective(fresh),
           UpsertByNames(names, fresh)
    PROVE  Sound
  <1>1. PICK n \in 0..MaxNames : names \in [1..n -> Names \cup {Null}]
    BY DEF Contract!TagLists, Contract!BoundedSeq, Contract!SeqOf, Contract!Null, Null
  <1>2. n \in Nat /\ DOMAIN names = 1..n /\ Len(names) = n /\ MaxNames \in Nat
    BY <1>1, StoreAssumption
  <1>3. fresh \in [1..n -> TagIds \ DOMAIN mem.tags] /\ \A i, j \in 1..n : fresh[i] = fresh[j] => i = j
    BY <1>2 DEF IsInjective
  <1> DEFINE done == Turns(names, fresh)[n]
             P == Places(names, n)
             T == mem.tags
             B == mem.byName
  <1>4. TurnsInv(done, names, fresh, n)
    BY <1>1, <1>2, <1>3, LoopDone
  <1>5. /\ Quiet /\ ret' = <<"UpsertByNames", done.out>>
        /\ mem' = [mem EXCEPT !.tags = done.tags, !.byName = done.byName]
    BY <1>2 DEF UpsertByNames, Returns, Quiet
  <1> HIDE DEF done
  <1>6. /\ IsMap(done.tags, TagIds \cup Names) /\ IsMap(done.byName, TagIds)
        /\ Indexes(done.byName, done.tags)
    BY <1>4 DEF TurnsInv
  <1>7. StoreInv' /\ Tables' = [Tables EXCEPT !.tags = done.tags]
    BY <1>5, <1>6, TagsWritten
  <1>8. PICK m \in Nat : \E at : Lists(at, m, names, n) /\ done.out = [j \in 1..m |-> done.byName[names[at[j]]]]
    BY <1>4 DEF TurnsInv
  <1>9. PICK at : Lists(at, m, names, n) /\ done.out = [j \in 1..m |-> done.byName[names[at[j]]]]
    BY <1>8
  <1>10. P \subseteq 1..n
    BY DEF Places
  <1>11. at \in [1..m -> P] /\ \A i, j \in 1..m : at[i] = at[j] => i = j
    <2>1. at \in [1..m -> P] /\ \A i, j \in 1..m : i < j => at[i] < at[j]
      BY <1>9 DEF Lists
    <2>2. \A i \in 1..m : at[i] \in Nat
      BY <1>10, <2>1
    <2> SUFFICES ASSUME NEW i \in 1..m, NEW j \in 1..m, at[i] = at[j], i # j PROVE FALSE
      BY <2>1
    <2>3. i < j \/ j < i
      OBVIOUS
    <2> QED
      BY <2>1, <2>2, <2>3
  <1>12. m = Cardinality(P) /\ at = Contract!Sorted(P, [i \in P |-> i]) /\ m <= n
    <2> DEFINE pk == [i \in P |-> i]
    <2>1. IsFiniteSet(1..n) /\ Cardinality(1..n) = n
      BY <1>2, FS_Interval
    <2>2. IsFiniteSet(P) /\ Cardinality(P) <= Cardinality(1..n)
      BY <1>10, <2>1, FS_Subset
    <2>3. Keyed(P, pk)
      <3>1. P \subseteq Nat
        BY <1>10
      <3> HIDE DEF P
      <3> QED
        BY <2>2, <3>1 DEF Keyed
    <2>4. \A i, j \in 1..m : i < j => pk[at[i]] < pk[at[j]]
      <3> HIDE DEF P
      <3>1. \A i \in 1..m : pk[at[i]] = at[i]
        BY <1>11
      <3> QED
        BY <1>9, <3>1 DEF Lists
    <2>5. \A x \in P : \E i \in 1..m : at[i] = x
      BY <1>9 DEF Lists
    <2>6. at \in [1..m -> P]
      BY <1>11
    <2> HIDE DEF P, pk
    <2>7. m = Cardinality(P) /\ at = Contract!Sorted(P, pk)
      BY <2>3, <2>4, <2>5, <2>6, SortedOnly
    <2> QED
      BY <2>1, <2>2, <2>7 DEF pk
  <1> DEFINE unique == [j \in 1..m |-> names[at[j]]]
             proposed == [j \in 1..m |-> fresh[at[j]]]
  <1>13. Contract!UniqueNames(names) = unique
    <2> DEFINE C == {i \in DOMAIN names : names[i] # Contract!Null /\ \A j \in 1..(i - 1) : names[j] # names[i]}
    <2>1. C = P
      BY <1>2 DEF Places, Contract!Null, Null
    <2>2. Contract!UniqueNames(names) = Contract!Subsequence(names, C)
      BY DEF Contract!UniqueNames
    <2> HIDE DEF C, P
    <2>3. Contract!UniqueNames(names) = Contract!Subsequence(names, P)
      BY <2>1, <2>2
    <2>4. Contract!Subsequence(names, P)
            = [i \in 1..Contract!Cardinality(P) |-> names[Contract!Sorted(P, [k \in P |-> k])[i]]]
      BY DEF Contract!Subsequence
    <2>5. Contract!Cardinality(P) = m
      BY <1>12, SameCardinality
    <2> QED
      BY <1>12, <2>3, <2>4, <2>5
  <1>14. /\ proposed \in [1..m -> TagIds] /\ \A i, j \in 1..m : proposed[i] = proposed[j] => i = j
         /\ \A i \in 1..m : proposed[i] \notin DOMAIN T
    BY <1>3, <1>10, <1>11
  <1>15. Range(T) = DOMAIN B
    BY DEF StoreInv, IndexesConsistent, Indexes, Has, Range
  <1>16. /\ \A j \in 1..m : unique[j] = names[at[j]] /\ proposed[j] = fresh[at[j]]
         /\ DOMAIN unique = 1..m /\ DOMAIN proposed = 1..m
    OBVIOUS
  <1> DEFINE new == {i \in DOMAIN unique : unique[i] \notin Contract!Range(T)}
             made == {proposed[j] : j \in new}
             N == {p \in P : names[p] \notin DOMAIN B}
  <1>17. \A j : j \in new <=> j \in 1..m /\ unique[j] \notin DOMAIN B
    <2> HIDE DEF unique
    <2>1. \A x : x \in Contract!Range(T) <=> x \in DOMAIN B
      BY <1>15 DEF Range, Contract!Range
    <2> QED
      BY <1>16, <2>1
  <1>18. made = {fresh[p] : p \in N}
    <2> HIDE DEF unique, proposed, P, new
    <2>1. ASSUME NEW j \in new PROVE \E p \in N : fresh[p] = proposed[j]
      BY <1>11, <1>16, <1>17
    <2>2. ASSUME NEW p \in N PROVE \E j \in new : proposed[j] = fresh[p]
      <3>1. PICK j \in 1..m : at[j] = p
        BY <1>9 DEF Lists, P
      <3> QED
        BY <1>16, <1>17, <3>1
    <2> QED
      BY <2>1, <2>2
  <1>19. done.tags = Contract!TagUpsertByNames(T, unique, proposed)
    <2> HIDE DEF unique, proposed
    <2>1. Contract!TagUpsertByNames(T, unique, proposed)
            = [x \in DOMAIN T \cup made |-> IF x \in DOMAIN T THEN T[x]
                                            ELSE unique[CHOOSE j \in new : proposed[j] = x]]
      BY DEF Contract!TagUpsertByNames
    <2> HIDE DEF new
    <2>2. DOMAIN done.tags = DOMAIN T \cup made
      <3> HIDE DEF made
      <3> QED
        BY <1>4, <1>18 DEF TurnsInv
    <2>3. ASSUME NEW x \in DOMAIN T \cup made
          PROVE  done.tags[x] = IF x \in DOMAIN T THEN T[x] ELSE unique[CHOOSE j \in new : proposed[j] = x]
      <3>1. CASE x \in DOMAIN T
        BY <1>4, <3>1 DEF TurnsInv
      <3>2. CASE x \notin DOMAIN T
        <4> DEFINE j == CHOOSE i \in new : proposed[i] = x
        <4>1. \E i \in new : proposed[i] = x
          BY <3>2
        <4>2. j \in new /\ proposed[j] = x
          BY <4>1
        <4> HIDE DEF j
        <4>3. at[j] \in P /\ names[at[j]] \notin DOMAIN B /\ x = fresh[at[j]] /\ unique[j] = names[at[j]]
          BY <1>11, <1>16, <1>17, <4>2
        <4>4. done.tags[x] = unique[j]
          BY <1>4, <4>3 DEF TurnsInv
        <4> QED
          BY <3>2, <4>4 DEF j
      <3> QED
        BY <3>1, <3>2
    <2>4. done.tags = [x \in DOMAIN done.tags |-> done.tags[x]]
      BY <1>6 DEF IsMap
    <2> HIDE DEF new, made
    <2> QED
      BY <2>1, <2>2, <2>3, <2>4
  <1>20. done.out = Contract!TagIDs(done.tags, unique)
    <2>1. ASSUME NEW j \in 1..m
          PROVE  done.byName[names[at[j]]] = CHOOSE t \in DOMAIN done.tags : done.tags[t] = unique[j]
      <3>1. unique[j] = names[at[j]] /\ at[j] \in P
        BY <1>11, <1>16
      <3>2. names[at[j]] \in DOMAIN done.byName
        <4>1. names[at[j]] \in done.seen
          BY <1>4, <3>1 DEF TurnsInv
        <4> QED
          BY <1>4, <4>1 DEF TurnsInv
      <3> DEFINE v == done.byName[names[at[j]]]
                 w == CHOOSE t \in DOMAIN done.tags : done.tags[t] = unique[j]
      <3>3. v \in DOMAIN done.tags /\ done.tags[v] = unique[j]
        BY <1>6, <3>1, <3>2 DEF Indexes, Has
      <3>4. w \in DOMAIN done.tags /\ done.tags[w] = unique[j]
        BY <3>3
      <3> HIDE DEF w
      <3>5. \A x \in DOMAIN done.tags : done.byName[done.tags[x]] = x
        BY <1>6 DEF Indexes, Has
      <3>6. w = v
        BY <3>1, <3>4, <3>5
      <3> QED
        BY <3>6 DEF w
    <2>2. Contract!TagIDs(done.tags, unique)
            = [j \in 1..m |-> CHOOSE t \in DOMAIN done.tags : done.tags[t] = unique[j]]
      <3> HIDE DEF unique
      <3> QED
        BY <1>16 DEF Contract!TagIDs
    <2> HIDE DEF unique
    <2> QED
      BY <1>9, <2>1, <2>2
  <1> HIDE DEF unique, proposed
  <1>21. Tables.tags = mem.tags /\ Tables'.tags = done.tags
    BY <1>7 DEF Tables
  <1>22. /\ DOMAIN proposed = DOMAIN unique /\ Contract!IsInjective(proposed)
         /\ Contract!Range(proposed) \cap DOMAIN T = {}
    BY <1>14, <1>16 DEF Contract!IsInjective, Contract!Range
  <1>23. Contract!UpsertTags(names, proposed)
    BY <1>5, <1>7, <1>13, <1>19, <1>20, <1>21, <1>22
       DEF Contract!UpsertTags, Contract!Answer, Contract!Writes, Quiet
  <1>24. proposed \in Contract!BoundedSeq(TagIds, MaxNames)
    BY <1>2, <1>12, <1>14 DEF Contract!BoundedSeq, Contract!SeqOf
  <1>25. Contract!Next
    BY <1>23, <1>24 DEF Contract!Next, Contract!TagNext
  <1> QED
    BY <1>7, <1>25 DEF Sound

\* The steps of the tag repository.
LEMMA TagSound ==
    ASSUME StoreInv, TagNext
    PROVE  Sound
  BY UpsertByNamesSound DEF TagNext

(***************************************************************************)
(* The theorems                                                            *)
(***************************************************************************)
\* A new store is an empty database, or the seeded one.
LEMMA StoreInit ==
    ASSUME Init
    PROVE  StoreInv /\ Contract!Init
  <1>1. /\ suite \in Suites /\ now = 1 /\ ret = <<"none", {}>> /\ creating = <<>> /\ reading = <<>>
        /\ mem = NewStore
    BY DEF Init
  <1> DEFINE u == Contract!Seeded(suite).users
             p == Contract!Seeded(suite).posts
             g == Contract!Seeded(suite).tags
  <1>2. /\ u = IF suite = "users" THEN <<>> ELSE [s \in Subs |-> Contract!UserRow]
        /\ p = IF suite \in {"likes", "ogp"} THEN [s \in PostIds |-> Contract!PostRow] ELSE <<>>
        /\ g = IF suite = "links" THEN [t \in TagIds |-> t] ELSE <<>>
    BY DEF Contract!Seeded, Contract!Seed, Contract!Empty
  <1>3. Contract!UserRow \in UserRec /\ Contract!PostRow \in PostRec
    BY DEF Contract!UserRow, Contract!PostRow, UserRec, PostRec, Authors, Contract!Null, Null
  <1>4. mem = [users |-> u, posts |-> p, tags |-> g, byName |-> g,
               follows |-> <<>>, likes |-> <<>>, images |-> <<>>, postImages |-> <<>>,
               postTags |-> <<>>, postOGPs |-> <<>>, badges |-> <<>>, byKey |-> <<>>,
               userBadges |-> <<>>, rows |-> <<>>, jobs |-> <<>>]
    BY <1>1 DEF NewStore
  <1> HIDE DEF u, p, g
  <1>5. /\ mem = [f \in Fields |-> mem[f]]
        /\ mem.users = u /\ mem.posts = p /\ mem.tags = g /\ mem.byName = g
        /\ mem.follows = <<>> /\ mem.likes = <<>> /\ mem.images = <<>> /\ mem.postImages = <<>>
        /\ mem.postTags = <<>> /\ mem.postOGPs = <<>> /\ mem.badges = <<>> /\ mem.byKey = <<>>
        /\ mem.userBadges = <<>> /\ mem.rows = <<>> /\ mem.jobs = <<>>
    BY <1>4 DEF Fields
  <1>6. \A R : IsMap(<<>>, R)
    BY DEF IsMap
  <1>7. /\ IsMap(u, UserRec) /\ IsMap(p, PostRec) /\ DOMAIN p \subseteq PostIds
        /\ IsMap(g, TagIds \cup Names) /\ IsMap(g, TagIds) /\ \A t \in DOMAIN g : g[t] = t
        /\ suite = "ogp" => DOMAIN p = PostIds
    BY <1>2, <1>3 DEF IsMap
  <1>8. RowsInv
    BY <1>1, <1>5, <1>6, <1>7 DEF RowsInv
  <1>9. OgpInv
    BY <1>5, <1>6, <1>7 DEF OgpInv
  <1>10. LinksInv
    BY <1>1, <1>5, <1>6 DEF LinksInv
  <1>11. IndexesConsistent
    BY <1>5, <1>7 DEF IndexesConsistent, Indexes, Has
  <1>12. LikeRows = {} /\ ImageLinks = {} /\ TagLinks = {} /\ OgpLinks = {}
    BY <1>5 DEF LikeRows, ImageLinks, TagLinks, OgpLinks, Published
  <1>13. Tables = Contract!Seeded(suite)
    BY <1>5, <1>12 DEF Tables, Contract!Seeded, Contract!Empty, u, p, g
  <1> QED
    BY <1>1, <1>8, <1>9, <1>10, <1>11, <1>13 DEF StoreInv, Contract!Init

\* Every step of the store keeps StoreInv and is a step of the contract, or none.
LEMMA StepSound ==
    ASSUME StoreInv, Next
    PROVE  Sound
  BY TickSound, UserSound, FollowSound, LikeSound, PostSound, LinkSound, TagSound, BadgeSound,
     OgpSound DEF Next

\* So is a stuttering step.
LEMMA StutterSound ==
    ASSUME StoreInv, UNCHANGED vars
    PROVE  Sound
  <1>1. mem' = mem /\ Quiet /\ ret' = ret
    BY DEF vars, Quiet
  <1>2. StoreInv' /\ Tables' = Tables
    BY <1>1, NothingWritten
  <1> QED
    BY <1>1, <1>2 DEF Sound, Quiet, Contract!vars

\* The invariant of the stores, whatever the sets of ids, names and choices.
THEOREM StoreInvHolds == Spec => []StoreInv
  <1>1. Init => StoreInv
    BY StoreInit
  <1>2. StoreInv /\ [Next]_vars => StoreInv'
    BY StepSound, StutterSound DEF Sound
  <1> QED
    BY <1>1, <1>2, PTL DEF Spec

\* The byName index of the tags and the byKey index of the badges find each row
\* under its own key and nothing else (IndexesConsistent), after any number of
\* calls in any order.
THEOREM IndexesStayConsistent == Spec => []IndexesConsistent
  <1>1. StoreInv => IndexesConsistent
    BY DEF StoreInv
  <1> QED
    BY <1>1, StoreInvHolds, PTL

\* The in-memory stores implement the contract that the Postgres repositories keep
\* (ContractSpec): each critical section is one step on the tables, or invisible,
\* and every call that writes answers what the contract answers.
THEOREM StoreImplementsContract == Spec => ContractSpec
  <1>1. Init => Contract!Init
    BY StoreInit
  <1>2. StoreInv /\ [Next]_vars => [Contract!Next]_Contract!vars
    BY StepSound, StutterSound DEF Sound
  <1> QED
    BY <1>1, <1>2, StoreInvHolds, PTL DEF Spec, ContractSpec, Contract!Spec

(***************************************************************************)
(* The keys of the tables                                                  *)
(***************************************************************************)
\* Finitely many users, follows, images and grants.
KeysInv ==
    /\ DOMAIN mem.users \subseteq Subs \cup UserSubs
    /\ DOMAIN mem.follows \subseteq Subs \X Subs
    /\ DOMAIN mem.images \subseteq ImageIds
    /\ DOMAIN mem.userBadges \subseteq UserSubs \X BadgeIds

\* The four tables whose keys KeysInv bounds.
LEMMA KeyedTables ==
    /\ Tables.users = mem.users /\ Tables.follows = mem.follows
    /\ Tables.images = mem.images /\ Tables.grants = mem.userBadges
    /\ Tables'.users = mem'.users /\ Tables'.follows = mem'.follows
    /\ Tables'.images = mem'.images /\ Tables'.grants = mem'.userBadges
  BY DEF Tables

\* A step that keeps the keys of the four tables keeps KeysInv.
SameKeys ==
    /\ DOMAIN Tables'.users = DOMAIN Tables.users
    /\ DOMAIN Tables'.follows = DOMAIN Tables.follows
    /\ DOMAIN Tables'.images = DOMAIN Tables.images
    /\ DOMAIN Tables'.grants = DOMAIN Tables.grants

\* Such a step keeps KeysInv.
LEMMA SameKeysKept ==
    ASSUME KeysInv, SameKeys
    PROVE  KeysInv'
  BY KeyedTables DEF SameKeys, KeysInv

\* A statement that writes the users, and keeps their subs within the known ones.
LEMMA WroteUsers ==
    ASSUME KeysInv, NEW t, Tables' = [Tables EXCEPT !.users = t],
           DOMAIN t \subseteq Subs \cup UserSubs
    PROVE  KeysInv'
  <1>1. /\ Tables'.users = t /\ Tables'.follows = Tables.follows
        /\ Tables'.images = Tables.images /\ Tables'.grants = Tables.grants
    BY DEF Tables
  <1> QED
    BY <1>1, KeyedTables DEF KeysInv

\* The same for follows.
LEMMA WroteFollows ==
    ASSUME KeysInv, NEW t, Tables' = [Tables EXCEPT !.follows = t], DOMAIN t \subseteq Subs \X Subs
    PROVE  KeysInv'
  <1>1. /\ Tables'.users = Tables.users /\ Tables'.follows = t
        /\ Tables'.images = Tables.images /\ Tables'.grants = Tables.grants
    BY DEF Tables
  <1> QED
    BY <1>1, KeyedTables DEF KeysInv

\* The same for images.
LEMMA WroteImages ==
    ASSUME KeysInv, NEW t, Tables' = [Tables EXCEPT !.images = t], DOMAIN t \subseteq ImageIds
    PROVE  KeysInv'
  <1>1. /\ Tables'.users = Tables.users /\ Tables'.follows = Tables.follows
        /\ Tables'.images = t /\ Tables'.grants = Tables.grants
    BY DEF Tables
  <1> QED
    BY <1>1, KeyedTables DEF KeysInv

\* The same for grants.
LEMMA WroteGrants ==
    ASSUME KeysInv, NEW t, Tables' = [Tables EXCEPT !.grants = t], DOMAIN t \subseteq UserSubs \X BadgeIds
    PROVE  KeysInv'
  <1>1. /\ Tables'.users = Tables.users /\ Tables'.follows = Tables.follows
        /\ Tables'.images = Tables.images /\ Tables'.grants = t
    BY DEF Tables
  <1> QED
    BY <1>1, KeyedTables DEF KeysInv

\* A statement that writes none of the four.
LEMMA WroteOther ==
    ASSUME KeysInv, NEW f \in {"posts", "tags", "badges", "cache", "jobs", "likes", "postOgp"},
           NEW t, Tables' = [Tables EXCEPT ![f] = t]
    PROVE  KeysInv'
  <1>1. /\ Tables'.users = Tables.users /\ Tables'.follows = Tables.follows
        /\ Tables'.images = Tables.images /\ Tables'.grants = Tables.grants
    BY DEF Tables
  <1> QED
    BY <1>1, KeyedTables DEF KeysInv

\* The statements on users.
LEMMA UserKeys ==
    ASSUME KeysInv, Contract!UserNext
    PROVE  KeysInv'
  <1>1. DOMAIN Tables.users \subseteq Subs \cup UserSubs
    BY KeyedTables DEF KeysInv
  <1>2. ASSUME NEW u \in Contract!UserInputs, Contract!Upsert(u) PROVE KeysInv'
    <2> DEFINE t == Contract!UserUpsert(Tables.users, u, now)
    <2>1. u.sub \in UserSubs
      BY DEF Contract!UserInputs
    <2>2. DOMAIN t \subseteq DOMAIN Tables.users \cup {u.sub}
      BY DEF Contract!UserUpsert, Contract!Inserted
    <2>3. Tables' = [Tables EXCEPT !.users = t]
      BY <1>2 DEF Contract!Upsert
    <2> HIDE DEF t
    <2> QED
      BY <1>1, <2>1, <2>2, <2>3, WroteUsers
  <1>3. ASSUME NEW s \in UserSubs, NEW bios, Contract!UpdateProfile(s, bios) PROVE KeysInv'
    <2> DEFINE t == Contract!UserUpdateProfile(Tables.users, s, bios)
    <2>1. DOMAIN t = DOMAIN Tables.users
      BY DEF Contract!UserUpdateProfile
    <2>2. Tables' = [Tables EXCEPT !.users = t]
      BY <1>3 DEF Contract!UpdateProfile
    <2> HIDE DEF t
    <2> QED
      BY <1>1, <2>1, <2>2, WroteUsers
  <1>4. ASSUME NEW s \in UserSubs, NEW c, NEW d, Contract!CountUser(s, c, d) PROVE KeysInv'
    <2> DEFINE t == Contract!UserCount(Tables.users, s, c, d)
    <2>1. DOMAIN t = DOMAIN Tables.users
      BY DEF Contract!UserCount
    <2>2. Tables' = [Tables EXCEPT !.users = t]
      BY <1>4 DEF Contract!CountUser
    <2> HIDE DEF t
    <2> QED
      BY <1>1, <2>1, <2>2, WroteUsers
  <1>5. ASSUME NEW s \in UserSubs, Contract!DeleteUser(s) PROVE KeysInv'
    <2> DEFINE t == Contract!SoftDelete(Tables.users, s)
    <2>1. DOMAIN t = DOMAIN Tables.users
      BY DEF Contract!SoftDelete
    <2>2. Tables' = [Tables EXCEPT !.users = t]
      BY <1>5 DEF Contract!DeleteUser
    <2> HIDE DEF t
    <2> QED
      BY <1>1, <2>1, <2>2, WroteUsers
  <1> QED
    BY <1>2, <1>3, <1>4, <1>5 DEF Contract!UserNext

\* The statements on follows.
LEMMA FollowKeys ==
    ASSUME KeysInv, Contract!FollowNext
    PROVE  KeysInv'
  <1>1. DOMAIN Tables.follows \subseteq Subs \X Subs
    BY KeyedTables DEF KeysInv
  <1>2. ASSUME NEW a \in Subs, NEW b \in Subs, Contract!CreateFollow(<<a, b>>) PROVE KeysInv'
    <2> DEFINE t == Contract!FollowCreate(Tables.follows, <<a, b>>, now)
    <2>1. DOMAIN t = DOMAIN Tables.follows \cup {<<a, b>>}
      BY DEF Contract!FollowCreate, Contract!Inserted
    <2>2. Tables' = [Tables EXCEPT !.follows = t]
      BY <1>2 DEF Contract!CreateFollow
    <2> HIDE DEF t
    <2> QED
      BY <1>1, <2>1, <2>2, WroteFollows
  <1>3. ASSUME NEW a \in Subs, NEW b \in Subs, Contract!DeleteFollow(<<a, b>>) PROVE KeysInv'
    <2> DEFINE t == Contract!FollowDelete(Tables.follows, <<a, b>>)
    <2>1. DOMAIN t \subseteq DOMAIN Tables.follows
      BY DEF Contract!FollowDelete, Contract!Restrict
    <2>2. Tables' = [Tables EXCEPT !.follows = t]
      BY <1>3 DEF Contract!DeleteFollow
    <2> HIDE DEF t
    <2> QED
      BY <1>1, <2>1, <2>2, WroteFollows
  <1> QED
    BY <1>2, <1>3 DEF Contract!FollowNext

\* The transaction that creates a post.
LEMMA PostKeys ==
    ASSUME KeysInv, NEW id, NEW a, NEW parent, NEW imgs, NEW tags,
           Contract!CreatePost(id, a, parent, imgs, tags)
    PROVE  KeysInv'
  <1> DEFINE p == Contract!PostCreate(Tables.posts, id, a, parent)
             i == Tables.postImages \cup Contract!PostImageRows(id, imgs)
             g == Tables.postTags \cup Contract!PostTagRows(id, tags)
  <1>1. Tables' = [Tables EXCEPT !.posts = p, !.postImages = i, !.postTags = g]
    BY DEF Contract!CreatePost
  <1> HIDE DEF p, i, g
  <1>2. /\ Tables'.users = Tables.users /\ Tables'.follows = Tables.follows
        /\ Tables'.images = Tables.images /\ Tables'.grants = Tables.grants
    BY <1>1 DEF Tables
  <1> QED
    BY <1>2, KeyedTables DEF KeysInv

\* The statements on posts with links, and on images.
LEMMA LinkKeys ==
    ASSUME KeysInv, Contract!LinkNext
    PROVE  KeysInv'
  <1>1. DOMAIN Tables.images \subseteq ImageIds
    BY KeyedTables DEF KeysInv
  <1>2. ASSUME NEW id \in ImageIds, Contract!CreateImage(id, 1) PROVE KeysInv'
    <2> DEFINE t == Contract!ImageCreate(Tables.images, id, 1, now)
    <2>1. DOMAIN t = DOMAIN Tables.images \cup {id}
      BY DEF Contract!ImageCreate, Contract!Inserted
    <2>2. Tables' = [Tables EXCEPT !.images = t]
      BY <1>2 DEF Contract!CreateImage
    <2> HIDE DEF t
    <2> QED
      BY <1>1, <2>1, <2>2, WroteImages
  <1>3. ASSUME NEW id \in ImageIds, Contract!DeleteImage(id) PROVE KeysInv'
    <2> DEFINE t == Contract!SoftDelete(Tables.images, id)
    <2>1. DOMAIN t = DOMAIN Tables.images
      BY DEF Contract!SoftDelete
    <2>2. Tables' = [Tables EXCEPT !.images = t]
      BY <1>3 DEF Contract!DeleteImage
    <2> HIDE DEF t
    <2> QED
      BY <1>1, <2>1, <2>2, WroteImages
  <1>4. ASSUME NEW id, Contract!ListImages(id) PROVE KeysInv'
    <2>1. Tables' = Tables
      BY <1>4 DEF Contract!ListImages
    <2> QED
      BY <2>1, SameKeysKept DEF SameKeys
  <1> QED
    BY <1>2, <1>3, <1>4, PostKeys DEF Contract!LinkNext

\* The statements on badges and grants.
LEMMA BadgeKeys ==
    ASSUME KeysInv, Contract!BadgeNext
    PROVE  KeysInv'
  <1>1. DOMAIN Tables.grants \subseteq UserSubs \X BadgeIds
    BY KeyedTables DEF KeysInv
  <1>2. ASSUME NEW b, NEW k, NEW p, Contract!CreateBadge(b, k, p) PROVE KeysInv'
    <2> DEFINE t == Contract!BadgeCreate(Tables.badges, b, k, p)
    <2>1. Tables' = [Tables EXCEPT !.badges = t]
      BY <1>2 DEF Contract!CreateBadge
    <2> HIDE DEF t
    <2> QED
      BY <2>1, WroteOther
  <1>3. ASSUME NEW b, NEW p, Contract!UpdateBadge(b, p) PROVE KeysInv'
    <2> DEFINE t == Contract!BadgeUpdate(Tables.badges, b, p)
    <2>1. Tables' = [Tables EXCEPT !.badges = t]
      BY <1>3 DEF Contract!UpdateBadge
    <2> HIDE DEF t
    <2> QED
      BY <2>1, WroteOther
  <1>4. ASSUME NEW u \in UserSubs, NEW b \in BadgeIds, NEW e, Contract!Grant(u, b, 1, e) PROVE KeysInv'
    <2> DEFINE t == Contract!BadgeGrant(Tables.grants, u, b, 1, e, now)
    <2>1. DOMAIN t = DOMAIN Tables.grants \cup {<<u, b>>}
      BY DEF Contract!BadgeGrant, Contract!Replaced
    <2>2. Tables' = [Tables EXCEPT !.grants = t]
      BY <1>4 DEF Contract!Grant
    <2> HIDE DEF t
    <2> QED
      BY <1>1, <2>1, <2>2, WroteGrants
  <1>5. ASSUME NEW u \in UserSubs, NEW b \in BadgeIds, Contract!Revoke(u, b) PROVE KeysInv'
    <2> DEFINE t == Contract!BadgeRevoke(Tables.grants, u, b)
    <2>1. DOMAIN t \subseteq DOMAIN Tables.grants
      BY DEF Contract!BadgeRevoke, Contract!Restrict
    <2>2. Tables' = [Tables EXCEPT !.grants = t]
      BY <1>5 DEF Contract!Revoke
    <2> HIDE DEF t
    <2> QED
      BY <1>1, <2>1, <2>2, WroteGrants
  <1> QED
    BY <1>2, <1>3, <1>4, <1>5 DEF Contract!BadgeNext

\* Likes, posts without links, tags, previews and jobs.
LEMMA OtherKeys ==
    ASSUME KeysInv, Contract!LikeNext \/ Contract!PostNext \/ Contract!TagNext \/ Contract!OgpNext
    PROVE  KeysInv'
  <1>1. ASSUME Contract!LikeNext PROVE KeysInv'
    BY <1>1, WroteOther DEF Contract!LikeNext, Contract!CreateLike, Contract!DeleteLike
  <1>2. ASSUME Contract!PostNext PROVE KeysInv'
    BY <1>2, PostKeys, WroteOther DEF Contract!PostNext, Contract!DeletePost, Contract!CountPost
  <1>3. ASSUME Contract!TagNext PROVE KeysInv'
    BY <1>3, WroteOther DEF Contract!TagNext, Contract!UpsertTags
  <1>4. ASSUME Contract!OgpNext PROVE KeysInv'
    <2>1. ASSUME Contract!Claim PROVE KeysInv'
      <3>1. ASSUME Tables' = Tables PROVE KeysInv'
        BY <3>1, SameKeysKept DEF SameKeys
      <3> QED
        BY <2>1, <3>1, WroteOther DEF Contract!Claim
    <2> QED
      BY <1>4, <2>1, WroteOther
         DEF Contract!OgpNext, Contract!UpsertPreview, Contract!LinkPreview,
         Contract!Enqueue, Contract!MarkDone, Contract!MarkFailed
  <1> QED
    BY <1>1, <1>2, <1>3, <1>4

\* Every step of the store, by the step of the contract that it is.
LEMMA StepKeys ==
    ASSUME KeysInv, Sound
    PROVE  KeysInv'
  <1>1. ASSUME Tables' = Tables PROVE KeysInv'
    BY <1>1, SameKeysKept DEF SameKeys
  <1>2. ASSUME Contract!Next PROVE KeysInv'
    BY <1>1, <1>2, UserKeys, FollowKeys, LinkKeys, BadgeKeys, OtherKeys
       DEF Contract!Next, Contract!Tick
  <1> QED
    BY <1>1, <1>2 DEF Sound, Contract!vars

\* No row of users, follows, images or grants is ever stored under a key that no
\* call was given, so the listings of these tables are finite (KeysInv).
THEOREM KeysInvHolds == Spec => []KeysInv
  <1>1. Init => KeysInv
    BY DEF Init, NewStore, KeysInv, Contract!Seeded, Contract!Seed, Contract!Empty
  <1>2. StoreInv /\ KeysInv /\ [Next]_vars => KeysInv'
    BY StepSound, StutterSound, StepKeys
  <1> QED
    BY <1>1, <1>2, StoreInvHolds, PTL DEF Spec

(***************************************************************************)
(* Pages                                                                   *)
(***************************************************************************)
\* The least of two numbers, in both modules.
LEMMA LeastOfTwo ==
    ASSUME NEW a \in Nat, NEW b \in Nat
    PROVE  /\ Min({a, b}) = IF a <= b THEN a ELSE b
           /\ Contract!Min({a, b}) = IF a <= b THEN a ELSE b
  <1> DEFINE m == IF a <= b THEN a ELSE b
  <1>1. m \in {a, b} /\ \A y \in {a, b} : m <= y
    OBVIOUS
  <1>2. \A x \in {a, b} : (\A y \in {a, b} : x <= y) => x = m
    OBVIOUS
  <1> HIDE DEF m
  <1>3. Min({a, b}) \in {a, b} /\ \A y \in {a, b} : Min({a, b}) <= y
    BY <1>1 DEF Min
  <1>4. Contract!Min({a, b}) \in {a, b} /\ \A y \in {a, b} : Contract!Min({a, b}) <= y
    BY <1>1 DEF Contract!Min
  <1>5. Min({a, b}) = m /\ Contract!Min({a, b}) = m
    BY <1>2, <1>3, <1>4
  <1> QED
    BY <1>5 DEF m

\* A function on 1..n is a sequence of its values.
LEMMA ListedSeq ==
    ASSUME NEW s, NEW n \in Nat, s = [i \in 1..n |-> s[i]]
    PROVE  s \in Seq(ToSet(s)) /\ Len(s) = n
  <1>1. DOMAIN s = 1..n /\ \A i \in 1..n : s[i] \in ToSet(s)
    BY DEF ToSet
  <1>2. s \in [1..n -> ToSet(s)]
    BY <1>1
  <1> QED
    BY <1>2

\* LIMIT n.
LEMMA TakeSome ==
    ASSUME NEW S, NEW rows \in Seq(S), NEW n \in Nat
    PROVE  /\ n <= Len(rows) => Contract!Take(rows, n) = SubSeq(rows, 1, n)
           /\ Len(rows) <= n => Contract!Take(rows, n) = rows
  <1>1. Len(rows) \in Nat
    OBVIOUS
  <1>2. Contract!Min({n, Len(rows)}) = IF n <= Len(rows) THEN n ELSE Len(rows)
    BY <1>1, LeastOfTwo
  <1>3. Contract!Take(rows, n) = SubSeq(rows, 1, IF n <= Len(rows) THEN n ELSE Len(rows))
    BY <1>2 DEF Contract!Take
  <1>4. SubSeq(rows, 1, Len(rows)) = rows
    BY SubSeqFull
  <1>5. Len(rows) <= n => (IF n <= Len(rows) THEN n ELSE Len(rows)) = Len(rows)
    BY <1>1
  <1> QED
    BY <1>3, <1>4, <1>5

\* Asking for one row more than the page holds tells whether there is a next
\* page, as the length of the whole listing does.
LEMMA ProbedPage ==
    ASSUME NEW S, NEW all \in Seq(S), NEW limit \in Nat
    PROVE  LET found == Contract!Take(all, limit + 1)
           IN  /\ Len(all) <= limit => found = all /\ ~(Len(found) > limit)
               /\ ~(Len(all) <= limit) => /\ Len(found) > limit
                                          /\ Contract!Take(found, limit) = SubSeq(all, 1, limit)
                                          /\ limit # 0 => found[limit] = all[limit]
  <1> DEFINE found == Contract!Take(all, limit + 1)
  <1>1. Len(all) \in Nat
    OBVIOUS
  <1>2. CASE Len(all) <= limit
    <2>1. found = all
      BY <1>1, <1>2, TakeSome
    <2> QED
      BY <1>1, <1>2, <2>1
  <1>3. CASE ~(Len(all) <= limit)
    <2>1. found = SubSeq(all, 1, limit + 1)
      BY <1>1, <1>3, TakeSome
    <2>2. \A i \in 1..(limit + 1) : all[i] \in S
      BY <1>1, <1>3
    <2>3. /\ found \in Seq(S) /\ Len(found) = limit + 1
          /\ \A i \in 1..(limit + 1) : found[i] = all[i]
      <3>1. /\ found \in Seq(S)
            /\ Len(found) = IF 1 <= limit + 1 THEN (limit + 1) - 1 + 1 ELSE 0
            /\ \A i \in 1..((limit + 1) - 1 + 1) : found[i] = all[1 + i - 1]
        BY <2>1, <2>2, SubSeqProperties
      <3> HIDE DEF found
      <3>2. (limit + 1) - 1 + 1 = limit + 1 /\ \A i \in 1..(limit + 1) : 1 + i - 1 = i
        OBVIOUS
      <3> QED
        BY <3>1, <3>2
    <2> HIDE DEF found
    <2>4. Contract!Take(found, limit) = SubSeq(found, 1, limit)
      BY <2>3, TakeSome
    <2>5. SubSeq(found, 1, limit) = SubSeq(all, 1, limit)
      <3>1. \A i \in 1..limit : all[i] \in S /\ found[i] \in S /\ found[i] = all[i]
        BY <2>2, <2>3
      <3>2. /\ SubSeq(all, 1, limit) \in Seq(S)
            /\ Len(SubSeq(all, 1, limit)) = limit
            /\ \A i \in 1..limit : SubSeq(all, 1, limit)[i] = all[i]
        <4>1. /\ SubSeq(all, 1, limit) \in Seq(S)
              /\ Len(SubSeq(all, 1, limit)) = IF 1 <= limit THEN limit - 1 + 1 ELSE 0
              /\ \A i \in 1..(limit - 1 + 1) : SubSeq(all, 1, limit)[i] = all[1 + i - 1]
          BY <3>1, SubSeqProperties
        <4>2. limit - 1 + 1 = limit /\ \A i \in 1..limit : 1 + i - 1 = i
          OBVIOUS
        <4> QED
          BY <4>1, <4>2
      <3>3. /\ SubSeq(found, 1, limit) \in Seq(S)
            /\ Len(SubSeq(found, 1, limit)) = limit
            /\ \A i \in 1..limit : SubSeq(found, 1, limit)[i] = found[i]
        <4>1. /\ SubSeq(found, 1, limit) \in Seq(S)
              /\ Len(SubSeq(found, 1, limit)) = IF 1 <= limit THEN limit - 1 + 1 ELSE 0
              /\ \A i \in 1..(limit - 1 + 1) : SubSeq(found, 1, limit)[i] = found[1 + i - 1]
          BY <2>3, <3>1, SubSeqProperties
        <4>2. limit - 1 + 1 = limit /\ \A i \in 1..limit : 1 + i - 1 = i
          OBVIOUS
        <4> QED
          BY <4>1, <4>2
      <3> DEFINE a == SubSeq(all, 1, limit)
                 b == SubSeq(found, 1, limit)
      <3> HIDE DEF a, b
      <3>4. a \in Seq(S) /\ b \in Seq(S) /\ Len(a) = Len(b) /\ \A i \in 1..Len(a) : b[i] = a[i]
        BY <3>1, <3>2, <3>3 DEF a, b
      <3>5. a = b
        BY <3>4, SeqEqual
      <3> QED
        BY <3>5 DEF a, b
    <2> QED
      BY <1>3, <2>3, <2>4, <2>5 DEF found
  <1> QED
    BY <1>2, <1>3

\* A listing of finitely many rows is a sequence of as many.
LEMMA RankedSeq ==
    ASSUME NEW S, IsFiniteSet(S), NEW before
    PROVE  LET s == Contract!Ranked(S, before)
           IN  s \in Seq(ToSet(s)) /\ Len(s) = Cardinality(S) /\ Cardinality(S) \in Nat
  <1> DEFINE s == Contract!Ranked(S, before)
  <1>1. Cardinality(S) \in Nat
    BY FS_CardinalityType
  <1>2. s = [i \in 1..Cardinality(S) |-> CHOOSE x \in S : Cardinality(Ahead(S, before, x)) = i - 1]
    BY DEF Contract!Ranked, Ahead, Contract!Cardinality, Cardinality
  <1> HIDE DEF s
  <1>3. s = [i \in 1..Cardinality(S) |-> s[i]]
    BY <1>2
  <1>4. s \in Seq(ToSet(s)) /\ Len(s) = Cardinality(S)
    BY <1>1, <1>3, ListedSeq
  <1> QED
    BY <1>1, <1>4 DEF s

\* The page that paginate cuts out of the whole listing is the one that LIMIT n + 1
\* finds: the same rows, the same cursor, and a cursor exactly when rows are left.
LEMMA PaginateIsPage ==
    ASSUME NEW S, IsFiniteSet(S), NEW cursor, NEW limit \in Nat
    PROVE  Paginate(S, CursorQuery(cursor), limit) = Contract!PostPage(S, cursor, limit)
  <1> DEFINE older == {p \in S : cursor = Null \/ p < cursor}
             all == Contract!Descending(older)
             n == Cardinality(older)
             found == Contract!Take(all, limit + 1)
  <1>1. n \in Nat
    <2>1. older \subseteq S
      OBVIOUS
    <2> HIDE DEF older
    <2> QED
      BY <2>1, FS_Subset, FS_CardinalityType
  <1>2. all = [i \in 1..n |-> all[i]]
    <2> HIDE DEF older
    <2>1. all = [i \in DOMAIN all |-> all[i]] /\ DOMAIN all = 1..Contract!Cardinality(older)
      BY DEF Contract!Descending
    <2> HIDE DEF all
    <2> QED
      BY <2>1, SameCardinality
  <1>a. {p \in S : \A c \in CursorQuery(cursor) : p < c} = older
    BY DEF CursorQuery
  <1>3. /\ Paginate(S, CursorQuery(cursor), limit) =
             (IF limit <= 0 THEN <<<<>>, Null>>
              ELSE IF Len(all) <= limit THEN <<all, Null>>
              ELSE <<SubSeq(all, 1, limit), all[limit]>>)
        /\ Contract!PostPage(S, cursor, limit) =
             (IF limit <= 0 THEN <<<<>>, Null>>
              ELSE IF Len(found) > limit THEN <<Contract!Take(found, limit), found[limit]>>
              ELSE <<found, Null>>)
    BY <1>a DEF Paginate, Contract!PostPage, Null, Contract!Null
  <1> HIDE DEF all, n
  <1>4. all \in Seq(ToSet(all)) /\ Len(all) \in Nat
    BY <1>1, <1>2, ListedSeq
  <1>5. /\ Len(all) <= limit => found = all /\ ~(Len(found) > limit)
        /\ ~(Len(all) <= limit) => /\ Len(found) > limit
                                   /\ Contract!Take(found, limit) = SubSeq(all, 1, limit)
                                   /\ limit # 0 => found[limit] = all[limit]
    BY <1>4, ProbedPage
  <1> HIDE DEF found
  <1> QED
    BY <1>3, <1>5

(***************************************************************************)
(* The reads of one suite                                                  *)
(***************************************************************************)
\* No post is before the empty string.
LEMMA EmptyCursorReads ==
    ASSUME StoreInv, NEW u, NEW limit \in Nat
    PROVE  ListPosts(u, {Null}, limit) = <<<<>>, Null>>
  <1> DEFINE S == {p \in DOMAIN mem.posts :
                     /\ ~mem.posts[p].deleted
                     /\ u # Null => mem.posts[p].author = u
                     /\ mem.posts[p].parent = Null}
             none == Contract!Descending({})
  <1>1. S \subseteq Nat
    BY OrderAssumption DEF StoreInv, RowsInv
  <1>2. ListPosts(u, {Null}, limit) = Paginate(S, {Null}, limit)
    BY DEF ListPosts
  <1> HIDE DEF S
  <1>3. {p \in S : \A c \in {Null} : p < c} = {}
    <2>1. \A p \in S : ~(p < Null)
      BY <1>1 DEF Null
    <2> QED
      BY <2>1
  <1>4. none = << >>
    <2>1. none = [i \in DOMAIN none |-> none[i]] /\ DOMAIN none = 1..Contract!Cardinality({})
      BY DEF Contract!Descending
    <2>2. Contract!Cardinality({}) = 0
      BY FS_EmptySet, SameCardinality
    <2> QED
      BY <2>1, <2>2
  <1>5. Paginate(S, {Null}, limit) = IF limit <= 0 THEN <<<<>>, Null>>
                                     ELSE IF Len(none) <= limit THEN <<none, Null>>
                                     ELSE <<SubSeq(none, 1, limit), none[limit]>>
    BY <1>3, Zenon DEF Paginate
  <1> HIDE DEF none
  <1>6. Len(none) <= limit
    BY <1>4
  <1> QED
    BY <1>2, <1>4, <1>5, <1>6, Zenon

\* The feed, the posts of some users, and the replies.
LEMMA PostReads ==
    ASSUME StoreInv, NEW c, NEW limit \in Nat
    PROVE  /\ \A u : ListPosts(u, CursorQuery(c), limit) =
                       Contract!PostList(mem.posts, u, c, limit)
           /\ \A us : ListByUserIDs(us, CursorQuery(c), limit) =
                        Contract!PostListByUserIDs(mem.posts, us, c, limit)
           /\ \A p : ListReplies(p, CursorQuery(c), limit) =
                       Contract!PostListReplies(mem.posts, p, c, limit)
  <1> DEFINE cursor == CursorQuery(c)
  <1>1. IsFiniteSet(DOMAIN mem.posts)
    BY OrderAssumption, FS_Subset DEF StoreInv, RowsInv
  <1>2. ASSUME NEW S, NEW T, S = T, S \subseteq DOMAIN mem.posts
        PROVE  Paginate(S, cursor, limit) = Contract!PostPage(T, c, limit)
    <2>1. IsFiniteSet(S)
      BY <1>1, <1>2, FS_Subset
    <2> QED
      BY <1>2, <2>1, PaginateIsPage
  <1> HIDE DEF cursor
  <1>3. ASSUME NEW u PROVE ListPosts(u, cursor, limit) = Contract!PostList(mem.posts, u, c, limit)
    <2> DEFINE S == {p \in DOMAIN mem.posts :
                       /\ ~mem.posts[p].deleted
                       /\ u # Null => mem.posts[p].author = u
                       /\ mem.posts[p].parent = Null}
               T == {p \in Contract!Live(mem.posts) : /\ mem.posts[p].parent = Contract!Null
                                                      /\ u = Contract!Null \/ mem.posts[p].author = u}
    <2>1. S = T /\ S \subseteq DOMAIN mem.posts
      BY DEF Contract!Live, Null, Contract!Null
    <2>2. /\ ListPosts(u, cursor, limit) = Paginate(S, cursor, limit)
          /\ Contract!PostList(mem.posts, u, c, limit) = Contract!PostPage(T, c, limit)
      BY DEF ListPosts, Contract!PostList
    <2> HIDE DEF S, T
    <2> QED
      BY <1>2, <2>1, <2>2
  <1>4. ASSUME NEW us
        PROVE  ListByUserIDs(us, cursor, limit) = Contract!PostListByUserIDs(mem.posts, us, c, limit)
    <2> DEFINE S == {p \in DOMAIN mem.posts :
                       /\ ~mem.posts[p].deleted
                       /\ mem.posts[p].author \in us
                       /\ mem.posts[p].parent = Null}
               T == {p \in Contract!Live(mem.posts) : /\ mem.posts[p].parent = Contract!Null
                                                      /\ mem.posts[p].author \in us}
    <2>1. S = T /\ S \subseteq DOMAIN mem.posts
      BY DEF Contract!Live, Null, Contract!Null
    <2>2. /\ ListByUserIDs(us, cursor, limit) = Paginate(S, cursor, limit)
          /\ Contract!PostListByUserIDs(mem.posts, us, c, limit) = Contract!PostPage(T, c, limit)
      BY DEF ListByUserIDs, Contract!PostListByUserIDs
    <2> HIDE DEF S, T
    <2> QED
      BY <1>2, <2>1, <2>2
  <1>5. ASSUME NEW q
        PROVE  ListReplies(q, cursor, limit) = Contract!PostListReplies(mem.posts, q, c, limit)
    <2> DEFINE S == {p \in DOMAIN mem.posts : ~mem.posts[p].deleted /\ mem.posts[p].parent = q}
               T == {p \in Contract!Live(mem.posts) : mem.posts[p].parent = q}
    <2>1. S = T /\ S \subseteq DOMAIN mem.posts
      BY DEF Contract!Live
    <2>2. /\ ListReplies(q, cursor, limit) = Paginate(S, cursor, limit)
          /\ Contract!PostListReplies(mem.posts, q, c, limit) = Contract!PostPage(T, c, limit)
      BY DEF ListReplies, Contract!PostListReplies
    <2> HIDE DEF S, T
    <2> QED
      BY <1>2, <2>1, <2>2
  <1> QED
    BY <1>3, <1>4, <1>5 DEF cursor

\* The posts a user likes.
LEMMA LikeReads ==
    ASSUME StoreInv, NEW u, NEW ids
    PROVE  LikedPosts(u, ids) = Contract!LikedPosts(LikeRows, u, ids)
  <1>1. \A p : <<u, p>> \in LikeRows <=> (u \in DOMAIN mem.likes /\ p \in mem.likes[u])
    BY DEF LikeRows
  <1>2. \A p : p \in Get(mem.likes, u, {}) <=> <<u, p>> \in LikeRows
    BY <1>1 DEF Get, Has
  <1> QED
    BY <1>2 DEF LikedPosts, Contract!LikedPosts

\* The tags of a post, by name.
LEMMA TagReads ==
    ASSUME StoreInv, NEW p \in DOMAIN mem.posts
    PROVE  TagsOf(p) = Contract!TagsByPost(TagLinks, mem.tags, p)
  <1> DEFINE A == {t \in Get(mem.postTags, p, {}) : Has(mem.tags, t)}
             B == {t \in DOMAIN mem.tags : <<p, t>> \in TagLinks}
  <1>1. \A t : <<p, t>> \in TagLinks <=> (p \in DOMAIN mem.postTags /\ t \in mem.postTags[p])
    BY DEF TagLinks, Published
  <1>2. A = B
    BY <1>1 DEF Get, Has
  <1>3. /\ TagsOf(p) = Contract!Ranked(A, {q \in A \X A : mem.tags[q[1]] < mem.tags[q[2]]})
        /\ Contract!TagsByPost(TagLinks, mem.tags, p) =
             Contract!Ranked(B, {q \in B \X B : mem.tags[q[1]] < mem.tags[q[2]]})
    BY DEF TagsOf, Contract!TagsByPost, Contract!OrderBy
  <1> HIDE DEF A, B
  <1> QED
    BY <1>2, <1>3

\* The same order twice, under any set of badges.
LEMMA BadgeOrder ==
    ASSUME StoreInv, NEW ids \in SUBSET DOMAIN mem.badges
    PROVE  SortBadges(ids) = Contract!ByPriority(mem.badges, ids)
  <1> DEFINE A == {q \in ids \X ids :
                     IF mem.badges[q[1]].priority # mem.badges[q[2]].priority
                     THEN mem.badges[q[1]].priority < mem.badges[q[2]].priority
                     ELSE mem.badges[q[1]].key < mem.badges[q[2]].key}
             B == {q \in ids \X ids :
                     \/ mem.badges[q[1]].priority < mem.badges[q[2]].priority
                     \/ /\ mem.badges[q[1]].priority = mem.badges[q[2]].priority
                        /\ mem.badges[q[1]].key < mem.badges[q[2]].key}
  <1>1. \A b \in ids : mem.badges[b].priority \in Nat
    <2>1. IsMap(mem.badges, BadgeRec)
      BY DEF StoreInv, RowsInv
    <2>2. \A b \in ids : mem.badges[b] \in BadgeRec
      BY <2>1 DEF IsMap
    <2> QED
      BY <2>2, OrderAssumption DEF BadgeRec
  <1>2. A = B
    <2>1. ASSUME NEW a \in ids, NEW b \in ids
          PROVE  <<a, b>> \in A <=> <<a, b>> \in B
      BY <1>1
    <2>2. A \subseteq ids \X ids /\ B \subseteq ids \X ids
      OBVIOUS
    <2> HIDE DEF A, B
    <2> QED
      BY <2>1, <2>2
  <1>3. SortBadges(ids) = Contract!Ranked(ids, A) /\ Contract!ByPriority(mem.badges, ids) = Contract!Ranked(ids, B)
    BY DEF SortBadges, Contract!ByPriority, Contract!OrderBy
  <1> HIDE DEF A, B
  <1> QED
    BY <1>2, <1>3

\* All badges, and the unexpired ones of a user.
LEMMA BadgeReads ==
    ASSUME StoreInv, KeysInv, NEW u
    PROVE  /\ SortBadges(DOMAIN mem.badges) = Contract!ByPriority(mem.badges, DOMAIN mem.badges)
           /\ BadgesOf(u) = Contract!BadgesOf(mem.badges, mem.userBadges, u, now)
  <1> DEFINE A == {k \in DOMAIN mem.userBadges :
                     /\ k[1] = u
                     /\ ~(mem.userBadges[k].expiresAt # Null /\ ~(mem.userBadges[k].expiresAt > now))}
             S == {k[2] : k \in A} \cap DOMAIN mem.badges
             T == {b \in DOMAIN mem.badges :
                     /\ <<u, b>> \in DOMAIN mem.userBadges
                     /\ \/ mem.userBadges[<<u, b>>].expiresAt = Contract!Null
                        \/ mem.userBadges[<<u, b>>].expiresAt > now}
  <1>1. \A k \in DOMAIN mem.userBadges : k = <<k[1], k[2]>>
    BY DEF KeysInv
  <1>2. S = T
    <2>1. ASSUME NEW b \in S PROVE b \in T
      <3>1. PICK k \in A : b = k[2]
        OBVIOUS
      <3>2. k = <<u, b>> /\ k \in DOMAIN mem.userBadges
        BY <1>1, <3>1
      <3> QED
        BY <3>1, <3>2 DEF Null, Contract!Null
    <2>2. ASSUME NEW b \in T PROVE b \in S
      <3> DEFINE k == <<u, b>>
      <3>1. k \in A /\ k[2] = b
        BY DEF Null, Contract!Null
      <3> QED
        BY <3>1
    <2> QED
      BY <2>1, <2>2
  <1>3. T \in SUBSET DOMAIN mem.badges
    OBVIOUS
  <1>4. BadgesOf(u) = SortBadges(S) /\ Contract!BadgesOf(mem.badges, mem.userBadges, u, now) = Contract!ByPriority(mem.badges, T)
    BY DEF BadgesOf, Contract!BadgesOf
  <1> HIDE DEF A, S, T
  <1> QED
    BY <1>2, <1>3, <1>4, BadgeOrder

\* Rows with a date and a number, newest first and the higher number first of
\* equally old ones: no two tie.
LEMMA NewestFirst ==
    ASSUME NEW S, IsFiniteSet(S), NEW at, \A x \in S : x \in Nat /\ at[x] \in Nat,
           NEW before,
           \A x, y \in S : <<x, y>> \in before <=> (at[x] > at[y] \/ (at[x] = at[y] /\ x > y))
    PROVE  Line(S, before)
  <1>1. \A x \in S : <<x, x>> \notin before
    OBVIOUS
  <1>2. ASSUME NEW x \in S, NEW y \in S, x # y PROVE <<x, y>> \in before \/ <<y, x>> \in before
    BY <1>2
  <1>3. ASSUME NEW x \in S, NEW y \in S, NEW z \in S, <<x, y>> \in before, <<y, z>> \in before
        PROVE  <<x, z>> \in before
    <2>1. at[x] > at[y] \/ (at[x] = at[y] /\ x > y)
      BY <1>3
    <2>2. at[y] > at[z] \/ (at[y] = at[z] /\ y > z)
      BY <1>3
    <2>3. at[x] > at[z] \/ (at[x] = at[z] /\ x > z)
      BY <2>1, <2>2
    <2> QED
      BY <2>3
  <1> QED
    BY <1>1, <1>2, <1>3 DEF Line

\* The page of users that postgres gives is one that the map may give, and both give
\* the same total, with offsets beyond the last row included.
LEMMA UserReads ==
    ASSUME StoreInv, KeysInv, NEW limit \in Nat, NEW offset \in Nat
    PROVE  /\ Contract!UserList(mem.users, limit, offset) \in UserLists(limit, offset)
           /\ \A l \in UserLists(limit, offset) :
                l[2] = Contract!UserList(mem.users, limit, offset)[2]
  <1> DEFINE live == Contract!Live(mem.users)
             at == [s \in live |-> mem.users[s].createdAt]
             before == {q \in live \X live :
                          \/ mem.users[q[1]].createdAt > mem.users[q[2]].createdAt
                          \/ mem.users[q[1]].createdAt = mem.users[q[2]].createdAt /\ q[1] > q[2]}
             rows == Contract!Ranked(live, before)
             n == Cardinality(live)
             from == Min({offset, n})
             to == Min({from + limit, n})
  <1>1. /\ IsFiniteSet(live)
        /\ \A s \in live : s \in Nat /\ at[s] \in Nat
    <2>1. live \subseteq Subs \cup UserSubs
      BY DEF KeysInv, Contract!Live
    <2>2. IsFiniteSet(Subs) /\ IsFiniteSet(UserSubs) /\ Subs \subseteq Nat /\ UserSubs \subseteq Nat
      BY OrderAssumption
    <2>3. IsFiniteSet(Subs \cup UserSubs)
      BY <2>2, FS_Union
    <2>4. IsMap(mem.users, UserRec)
      BY DEF StoreInv, RowsInv
    <2>5. \A s \in live : mem.users[s].createdAt \in Nat
      BY <2>4 DEF IsMap, UserRec, Contract!Live
    <2>6. IsFiniteSet(live)
      <3> HIDE DEF live
      <3> QED
        BY <2>1, <2>3, FS_Subset
    <2> QED
      BY <2>1, <2>2, <2>5, <2>6
  <1>2. \A x, y \in live : <<x, y>> \in before <=> (at[x] > at[y] \/ (at[x] = at[y] /\ x > y))
    <2> HIDE DEF live
    <2> QED
      OBVIOUS
  <1>3. /\ Contract!UserList(mem.users, limit, offset) =
             (IF limit <= 0 THEN <<<<>>, Contract!Cardinality(live)>>
              ELSE <<SubSeq(rows, offset + 1, Contract!Min({offset + limit, Len(rows)})),
                     Contract!Cardinality(live)>>)
    BY DEF Contract!UserList, Contract!OrderBy
  <1>4. live = {s \in DOMAIN mem.users : ~mem.users[s].deleted}
    BY DEF Contract!Live
  <1>5. UserLists(limit, offset) = {<<SubSeq(all, from + 1, to), n>> : all \in SetToSeqs(live)}
    BY <1>4 DEF UserLists
  <1> HIDE DEF live, before, at
  <1>6. Line(live, before)
    BY <1>1, <1>2, NewestFirst
  <1>7. /\ n \in Nat /\ rows \in [1..n -> live]
        /\ \A i, j \in 1..n : i < j => <<rows[i], rows[j]>> \in before
    BY <1>6, RankedSorts
  <1> HIDE DEF rows
  <1>8. rows \in SetToSeqs(live)
    <2>1. ASSUME NEW i \in 1..n, NEW j \in 1..n, i # j PROVE rows[i] # rows[j]
      <3>1. i < j \/ j < i
        BY <1>7, <2>1
      <3>2. <<rows[i], rows[j]>> \in before \/ <<rows[j], rows[i]>> \in before
        BY <1>7, <3>1
      <3>3. rows[i] \in live
        BY <1>7
      <3> QED
        BY <1>6, <3>2, <3>3 DEF Line
    <2> QED
      BY <1>7, <2>1 DEF SetToSeqs
  <1>9. rows \in Seq(live) /\ Len(rows) = n
    BY <1>7
  <1> HIDE DEF n
  <1>10. from = (IF offset <= n THEN offset ELSE n) /\ from \in Nat
    BY <1>7, LeastOfTwo
  <1> HIDE DEF from
  <1>11. to = (IF from + limit <= n THEN from + limit ELSE n) /\ to \in Nat
    BY <1>7, <1>10, LeastOfTwo
  <1> HIDE DEF to
  <1>12. Contract!Min({offset + limit, n}) = (IF offset + limit <= n THEN offset + limit ELSE n)
    BY <1>7, LeastOfTwo
  <1>13. Contract!Cardinality(live) = n
    BY SameCardinality DEF n
  <1>14. Contract!UserList(mem.users, limit, offset) = <<SubSeq(rows, from + 1, to), n>>
    <2>1. CASE limit <= 0
      <3>1. from + 1 > to
        BY <1>7, <1>10, <1>11, <2>1
      <3>2. SubSeq(rows, from + 1, to) = <<>>
        BY <1>10, <1>11, <3>1, SubSeqEmpty
      <3> QED
        BY <1>3, <1>13, <2>1, <3>2
    <2>2. CASE ~(limit <= 0) /\ offset <= n
      <3>1. from = offset /\ to = Contract!Min({offset + limit, n})
        BY <1>10, <1>11, <1>12, <2>2
      <3> QED
        BY <1>3, <1>9, <1>13, <2>2, <3>1
    <2>3. CASE ~(limit <= 0) /\ ~(offset <= n)
      <3>1. from = n /\ to = n /\ Contract!Min({offset + limit, n}) = n
        BY <1>7, <1>10, <1>11, <1>12, <2>3
      <3>2. SubSeq(rows, from + 1, to) = <<>>
        BY <1>7, <3>1, SubSeqEmpty
      <3>3. SubSeq(rows, offset + 1, n) = <<>>
        <4>1. offset + 1 \in Int /\ n \in Int /\ offset + 1 > n
          BY <1>7, <2>3
        <4> QED
          BY <4>1, SubSeqEmpty
      <3> QED
        BY <1>3, <1>9, <1>13, <2>3, <3>1, <3>2, <3>3
    <2> QED
      BY <2>1, <2>2, <2>3
  <1>15. \A l \in UserLists(limit, offset) : l[2] = n
    BY <1>5
  <1>16. <<SubSeq(rows, from + 1, to), n>>[2] = n
    OBVIOUS
  <1>17. <<SubSeq(rows, from + 1, to), n>> \in UserLists(limit, offset)
    BY <1>5, <1>8
  <1> QED
    BY <1>14, <1>15, <1>16, <1>17

\* The live images of a user: the same ones, in an order the map may give.
LEMMA ImageReads ==
    ASSUME StoreInv, KeysInv, NEW u
    PROVE  ImagesOfUser(u) = ToSet(Contract!ImagesByUser(mem.images, u))
  <1> DEFINE own == {i \in Contract!Live(mem.images) : mem.images[i].owner = u}
             at == [i \in own |-> mem.images[i].createdAt]
             before == {q \in own \X own :
                          \/ mem.images[q[1]].createdAt > mem.images[q[2]].createdAt
                          \/ mem.images[q[1]].createdAt = mem.images[q[2]].createdAt /\ q[1] > q[2]}
             rows == Contract!Ranked(own, before)
             n == Cardinality(own)
  <1>1. /\ IsFiniteSet(own)
        /\ \A s \in own : s \in Nat /\ at[s] \in Nat
    <2>1. own \subseteq ImageIds
      BY DEF KeysInv, Contract!Live
    <2>2. IsFiniteSet(ImageIds) /\ ImageIds \subseteq Nat
      BY OrderAssumption
    <2>3. IsMap(mem.images, ImageRec)
      BY DEF StoreInv, RowsInv
    <2>4. \A s \in own : mem.images[s].createdAt \in Nat
      BY <2>3 DEF IsMap, ImageRec, Contract!Live
    <2>5. IsFiniteSet(own)
      <3> HIDE DEF own
      <3> QED
        BY <2>1, <2>2, FS_Subset
    <2> QED
      BY <2>1, <2>2, <2>4, <2>5
  <1>2. \A x, y \in own : <<x, y>> \in before <=> (at[x] > at[y] \/ (at[x] = at[y] /\ x > y))
    <2> HIDE DEF own
    <2> QED
      OBVIOUS
  <1>3. Contract!ImagesByUser(mem.images, u) = rows
    BY DEF Contract!ImagesByUser, Contract!OrderBy
  <1>4. ImagesOfUser(u) = own
    BY DEF ImagesOfUser, Contract!Live
  <1> HIDE DEF own, before, at
  <1>5. Line(own, before)
    BY <1>1, <1>2, NewestFirst
  <1>6. /\ n \in Nat /\ rows \in [1..n -> own]
        /\ \A x \in own : \E i \in 1..n : rows[i] = x
    BY <1>5, RankedSorts
  <1> HIDE DEF rows, n
  <1>7. ToSet(rows) = own
    BY <1>6 DEF ToSet
  <1> QED
    BY <1>3, <1>4, <1>7

\* The previews of a post, by position: a stored list in order is the ORDER BY
\* position of its rows.
LEMMA PreviewReads ==
    ASSUME StoreInv, NEW p \in DOMAIN mem.posts
    PROVE  PreviewsOf(p) = Contract!PreviewsByPost(OgpLinks, mem.rows, p)
  <1> DEFINE links == Get(mem.postOGPs, p, <<>>)
             n == Len(links)
             what == [i \in 1..n |-> links[i].hash]
             pos == [i \in 1..n |-> links[i].position]
             P == {i \in DOMAIN links : Has(mem.rows, links[i].hash)}
             pk == [i \in P |-> i]
             m == Cardinality(P)
             at == Contract!Sorted(P, pk)
             kept == Contract!Subsequence(links, P)
  <1>1. /\ IsMap(mem.postOGPs, Seq(LinkRec))
        /\ \A x \in DOMAIN mem.postOGPs : ByPosition(mem.postOGPs[x])
    BY DEF StoreInv, OgpInv
  <1>2. links \in Seq(LinkRec) /\ ByPosition(links)
    BY <1>1 DEF Get, Has, IsMap, ByPosition
  <1>3. \A r : (r \in OgpLinks /\ r[1] = p) <=> (\E l \in ToSet(links) : r = <<p, l.hash, l.position>>)
    <2> SUFFICES ASSUME NEW r
                 PROVE  (r \in OgpLinks /\ r[1] = p) <=> (\E l \in ToSet(links) : r = <<p, l.hash, l.position>>)
      OBVIOUS
    <2>1. CASE p \in DOMAIN mem.postOGPs
      <3>1. links = mem.postOGPs[p]
        BY <2>1 DEF Get, Has
      <3> HIDE DEF links
      <3> QED
        BY <1>1, <2>1, <3>1 DEF OgpLinks, Published
    <2>2. CASE p \notin DOMAIN mem.postOGPs
      <3>1. links = <<>>
        BY <2>2 DEF Get, Has
      <3>2. ToSet(links) = {}
        BY <3>1 DEF ToSet
      <3> QED
        BY <2>2, <3>2 DEF OgpLinks, Published
    <2> QED
      BY <2>1, <2>2
  <1>4. PreviewsOf(p) = [i \in DOMAIN kept |-> kept[i].hash]
    BY DEF PreviewsOf
  <1> HIDE DEF links
  <1>5. n \in Nat /\ DOMAIN links = 1..n /\ \A i \in 1..n : links[i] \in LinkRec
    BY <1>2
  <1>6. \A i \in 1..n : what[i] = links[i].hash /\ pos[i] = links[i].position
    OBVIOUS
  <1>7. pos \in [1..n -> Nat] /\ \A i, j \in 1..n : i < j => pos[i] < pos[j]
    BY <1>2, <1>5 DEF LinkRec, ByPosition
  <1>8. P = Kept(n, what, DOMAIN mem.rows)
    BY <1>5 DEF Kept, Has
  <1> HIDE DEF what, pos
  <1>9. \A r : (r \in OgpLinks /\ r[1] = p) <=> (\E i \in 1..n : r = <<p, what[i], pos[i]>>)
    <2> SUFFICES ASSUME NEW r
                 PROVE  (\E l \in ToSet(links) : r = <<p, l.hash, l.position>>)
                          <=> (\E i \in 1..n : r = <<p, what[i], pos[i]>>)
      BY <1>3
    <2>1. \A i \in 1..n : <<p, what[i], pos[i]>> = <<p, links[i].hash, links[i].position>>
      BY <1>6
    <2> QED
      BY <1>5, <2>1 DEF ToSet
  <1>10. LinkList(OgpLinks, p, n, what, pos)
    BY <1>5, <1>7, <1>9 DEF LinkList
  <1>11. Contract!PreviewsByPost(OgpLinks, mem.rows, p) = Contract!Subsequence(what, P)
    <2>1. Contract!LinkedRows(OgpLinks, p, DOMAIN mem.rows) =
            Contract!Subsequence(what, Kept(n, what, DOMAIN mem.rows))
      BY <1>10, JoinInOrder
    <2> HIDE DEF P
    <2> QED
      BY <1>8, <2>1 DEF Contract!PreviewsByPost
  <1>12. P \subseteq 1..n
    BY <1>5
  <1> HIDE DEF P
  <1>13. Keyed(P, pk)
    <2>1. IsFiniteSet(P)
      <3>1. IsFiniteSet(1..n)
        BY <1>5, FS_Interval
      <3> QED
        BY <1>12, <3>1, FS_Subset
    <2>2. \A i \in P : i \in Nat
      BY <1>5, <1>12
    <2> QED
      BY <2>1, <2>2 DEF Keyed
  <1>14. m \in Nat /\ at \in [1..m -> P]
    <2> HIDE DEF pk
    <2> QED
      BY <1>13, SortedSorts
  <1>15. /\ kept = [i \in 1..Contract!Cardinality(P) |-> links[at[i]]]
         /\ Contract!Subsequence(what, P) = [i \in 1..Contract!Cardinality(P) |-> what[at[i]]]
    BY DEF Contract!Subsequence
  <1> HIDE DEF at, kept
  <1>16. Contract!Cardinality(P) = m
    BY SameCardinality
  <1> HIDE DEF m
  <1>17. \A i \in 1..m : links[at[i]].hash = what[at[i]]
    BY <1>6, <1>12, <1>14
  <1> QED
    BY <1>4, <1>11, <1>15, <1>16, <1>17

\* The follows are finitely many, and pairs.
LEMMA FollowKeyed ==
    ASSUME StoreInv, KeysInv
    PROVE  /\ IsFiniteSet(DOMAIN mem.follows)
           /\ \A k \in DOMAIN mem.follows :
                k = <<k[1], k[2]>> /\ mem.follows[k] \in Nat /\ k[1] \in Nat /\ k[2] \in Nat
  <1>1. IsFiniteSet(Subs) /\ Subs \subseteq Nat
    BY OrderAssumption
  <1>2. IsFiniteSet(Subs \X Subs)
    BY <1>1, FS_Product
  <1>3. IsFiniteSet(DOMAIN mem.follows)
    BY <1>2, FS_Subset DEF KeysInv
  <1>4. \A k \in DOMAIN mem.follows : mem.follows[k] \in Nat
    BY DEF StoreInv, RowsInv, IsMap
  <1>5. \A k \in DOMAIN mem.follows : k = <<k[1], k[2]>> /\ k[1] \in Nat /\ k[2] \in Nat
    <2>1. DOMAIN mem.follows \subseteq Subs \X Subs
      BY DEF KeysInv
    <2>2. \A k \in DOMAIN mem.follows : k = <<k[1], k[2]>> /\ k[1] \in Subs /\ k[2] \in Subs
      BY <2>1
    <2> QED
      BY <1>1, <2>2
  <1> QED
    BY <1>3, <1>4, <1>5

\* The page of followers or followees after any cursor, and the cursor to the next.
LEMMA FollowPageReads ==
    ASSUME StoreInv, KeysInv, NEW sub, NEW cursor, NEW limit \in Nat, NEW side \in {1, 2}
    PROVE  ListSide(sub, cursor, limit, side) =
             Contract!FollowPage(mem.follows, sub, cursor, limit, side)
  <1> DEFINE f == mem.follows
             from == Contract!DecodeFollow(cursor)
             M == {k \in DOMAIN f : /\ k[3 - side] = sub
                                    /\ \A c \in from : IsBefore(f[k], k[side], c[1], c[2])}
             W == {k \in DOMAIN f : /\ k[3 - side] = sub
                                    /\ \A c \in from : \/ f[k] < c[1]
                                                       \/ (f[k] = c[1] /\ k[side] < c[2])}
             A(S) == {q \in S \X S : IF f[q[1]] # f[q[2]] THEN f[q[1]] > f[q[2]]
                                     ELSE q[1][side] > q[2][side]}
             B(S) == {q \in S \X S : \/ f[q[2]] < f[q[1]]
                                     \/ (f[q[2]] = f[q[1]] /\ q[2][side] < q[1][side])}
             all == Contract!Ranked(M, A(M))
             rows == Contract!Take(Contract!Ranked(W, B(W)), limit + 1)
             found == Contract!Take(all, limit + 1)
  <1>1. /\ IsFiniteSet(DOMAIN f)
        /\ \A k \in DOMAIN f : f[k] \in Nat /\ k[side] \in Nat
    <2>1. /\ IsFiniteSet(DOMAIN f)
          /\ \A k \in DOMAIN f : f[k] \in Nat /\ k[1] \in Nat /\ k[2] \in Nat
      BY FollowKeyed
    <2> HIDE DEF f
    <2> QED
      BY <2>1
  <1>2. ListSide(sub, cursor, limit, side) =
          (IF limit <= 0 THEN <<<<>>, <<>>>>
           ELSE IF Len(all) <= limit THEN <<all, <<>>>>
           ELSE <<SubSeq(all, 1, limit),
                  Contract!EncodeFollow(f[all[limit]], all[limit][side])>>)
    BY DEF ListSide, Contract!OrderBy
  <1>3. Contract!FollowPage(f, sub, cursor, limit, side) =
          (IF limit <= 0 THEN <<<<>>, <<>>>>
           ELSE IF Len(rows) > limit
           THEN <<Contract!Take(rows, limit),
                  Contract!EncodeFollow(f[rows[limit]], rows[limit][side])>>
           ELSE <<rows, <<>>>>)
    BY DEF Contract!FollowPage, Contract!OrderBy
  <1> HIDE DEF f, from
  <1>4. M = W /\ M \subseteq DOMAIN f
    <2>1. ASSUME NEW k \in DOMAIN f, NEW c
          PROVE  IsBefore(f[k], k[side], c[1], c[2]) <=>
                   (f[k] < c[1] \/ (f[k] = c[1] /\ k[side] < c[2]))
      BY <1>1 DEF IsBefore
    <2> QED
      BY <2>1
  <1> HIDE DEF M, W
  <1>5. A(M) = B(M)
    <2>1. ASSUME NEW k \in M, NEW l \in M
          PROVE  <<k, l>> \in A(M) <=> <<k, l>> \in B(M)
      <3>1. f[k] \in Nat /\ f[l] \in Nat /\ k[side] \in Nat /\ l[side] \in Nat
        BY <1>1, <1>4
      <3>2. <<k, l>> \in A(M) <=> IF f[k] # f[l] THEN f[k] > f[l] ELSE k[side] > l[side]
        OBVIOUS
      <3>3. <<k, l>> \in B(M) <=> (f[l] < f[k] \/ (f[l] = f[k] /\ l[side] < k[side]))
        OBVIOUS
      <3> QED
        BY <3>1, <3>2, <3>3
    <2>2. A(M) \subseteq M \X M /\ B(M) \subseteq M \X M
      OBVIOUS
    <2> HIDE DEF A, B
    <2> QED
      BY <2>1, <2>2
  <1> HIDE DEF A, B
  <1>6. rows = found
    BY <1>4, <1>5
  <1>7. IsFiniteSet(M)
    BY <1>1, <1>4, FS_Subset
  <1>8. all \in Seq(ToSet(all)) /\ Len(all) \in Nat
    BY <1>7, RankedSeq
  <1> HIDE DEF all, rows
  <1>9. /\ Len(all) <= limit => found = all /\ ~(Len(found) > limit)
        /\ ~(Len(all) <= limit) => /\ Len(found) > limit
                                   /\ Contract!Take(found, limit) = SubSeq(all, 1, limit)
                                   /\ limit # 0 => found[limit] = all[limit]
    BY <1>8, ProbedPage
  <1> HIDE DEF found
  <1>10. ListSide(sub, cursor, limit, side) = Contract!FollowPage(f, sub, cursor, limit, side)
    <2>1. CASE limit <= 0
      BY <1>2, <1>3, <2>1
    <2>2. CASE ~(limit <= 0) /\ Len(all) <= limit
      BY <1>2, <1>3, <1>6, <1>9, <2>2
    <2>3. CASE ~(limit <= 0) /\ ~(Len(all) <= limit)
      <3>1. limit # 0
        BY <2>3
      <3> QED
        BY <1>2, <1>3, <1>6, <1>9, <2>3, <3>1
    <2> QED
      BY <2>1, <2>2, <2>3
  <1> QED
    BY <1>10 DEF f

\* Whom a user follows, and which of some users.
LEMMA FollowReads ==
    ASSUME StoreInv, KeysInv, NEW s, NEW subs
    PROVE  /\ FollowingSubs(s) = Contract!FollowingSubs(mem.follows, s)
           /\ AreFollowing(s, subs) = Contract!AreFollowing(mem.follows, s, subs)
  <1>1. FollowingSubs(s) = Contract!FollowingSubs(mem.follows, s)
    BY DEF FollowingSubs, Contract!FollowingSubs
  <1>2. \A k \in DOMAIN mem.follows : k = <<k[1], k[2]>>
    BY FollowKeyed
  <1>3. \A t : t \in Contract!FollowingSubs(mem.follows, s) <=> <<s, t>> \in DOMAIN mem.follows
    <2>1. ASSUME NEW t \in Contract!FollowingSubs(mem.follows, s)
          PROVE  <<s, t>> \in DOMAIN mem.follows
      <3>1. PICK k \in DOMAIN mem.follows : k[1] = s /\ t = k[2]
        BY DEF Contract!FollowingSubs
      <3> QED
        BY <1>2, <3>1
    <2>2. ASSUME NEW t, <<s, t>> \in DOMAIN mem.follows
          PROVE  t \in Contract!FollowingSubs(mem.follows, s)
      <3> DEFINE k == <<s, t>>
      <3>1. k \in DOMAIN mem.follows /\ k[1] = s /\ k[2] = t
        BY <2>2
      <3> HIDE DEF k
      <3> QED
        BY <3>1 DEF Contract!FollowingSubs
    <2> QED
      BY <2>1, <2>2
  <1>4. AreFollowing(s, subs) = Contract!AreFollowing(mem.follows, s, subs)
    BY <1>3 DEF AreFollowing, Contract!AreFollowing, Has
  <1> QED
    BY <1>1, <1>4

\* The live users of a list.
LEMMA UsersBySubsReads ==
    ASSUME NEW subs
    PROVE  UsersBySubs(subs) = Contract!UserListBySubs(mem.users, subs)
  <1> DEFINE A == {s \in subs \cap DOMAIN mem.users : ~mem.users[s].deleted}
             B == subs \cap Contract!Live(mem.users)
  <1>1. A = B
    BY DEF Contract!Live
  <1>2. UsersBySubs(subs) = Restrict(mem.users, A) /\ Contract!UserListBySubs(mem.users, subs) = Contract!Restrict(mem.users, B)
    BY DEF UsersBySubs, Contract!UserListBySubs
  <1> HIDE DEF A, B
  <1> QED
    BY <1>1, <1>2 DEF Restrict, Contract!Restrict

\* The live images of a post, by position.
LEMMA PostImageReads ==
    ASSUME StoreInv, NEW p \in DOMAIN mem.posts
    PROVE  ImagesOf(p) = Contract!ImagesByPost(ImageLinks, mem.images, p)
  <1> DEFINE s == Get(mem.postImages, p, <<>>)
  <1>1. s \in Seq(ImageIds)
    BY StoreAssumption DEF StoreInv, RowsInv, IsMap, Get, Has
  <1>2. ImagesOf(p) = Shown(s)
    BY DEF ImagesOf
  <1> HIDE DEF s
  <1>3. Get(mem.postImages, p, <<>>) = s
    BY DEF s
  <1> QED
    BY <1>1, <1>2, <1>3, ShownIsJoin

\* The reads of every suite agree wherever StoreInv and KeysInv hold.
LEMMA ReadsSound ==
    ASSUME StoreInv, KeysInv
    PROVE  ReadsAgree
  <1>1. /\ Tables.users = mem.users /\ Tables.follows = mem.follows /\ Tables.posts = mem.posts
        /\ Tables.images = mem.images /\ Tables.tags = mem.tags /\ Tables.badges = mem.badges
        /\ Tables.grants = mem.userBadges /\ Tables.cache = mem.rows /\ Tables.likes = LikeRows
        /\ Tables.postImages = ImageLinks /\ Tables.postTags = TagLinks /\ Tables.postOgp = OgpLinks
    BY DEF Tables
  <1>2. Limits \subseteq Nat
    BY OrderAssumption
  <1>3. /\ \A limit \in Limits, offset \in Limits :
             /\ Contract!UserList(mem.users, limit, offset) \in UserLists(limit, offset)
             /\ \A l \in UserLists(limit, offset) :
                  l[2] = Contract!UserList(mem.users, limit, offset)[2]
        /\ UsersBySubs(Subs) = Contract!UserListBySubs(mem.users, Subs)
    BY <1>2, UserReads, UsersBySubsReads
  <1>4. \A s \in Subs :
        /\ FollowingSubs(s) = Contract!FollowingSubs(mem.follows, s)
        /\ AreFollowing(s, Subs) = Contract!AreFollowing(mem.follows, s, Subs)
        /\ \A limit \in Limits, side \in {1, 2} :
           \A c \in Cursors :
             ListSide(s, c, limit, side) = Contract!FollowPage(mem.follows, s, c, limit, side)
    BY <1>2, FollowReads, FollowPageReads
  <1>5. \A u \in Subs : LikedPosts(u, PostIds) = Contract!LikedPosts(LikeRows, u, PostIds)
    BY LikeReads
  <1>6. \A c \in PostIds \cup {Null}, limit \in Limits :
        /\ \A u \in UserSubs \cup {Null} :
             /\ ListPosts(u, CursorQuery(c), limit) = Contract!PostList(Tables.posts, u, c, limit)
             /\ ListPosts(u, {Null}, limit) = <<<<>>, Null>>
        /\ \A us \in SUBSET UserSubs :
             ListByUserIDs(us, CursorQuery(c), limit) = Contract!PostListByUserIDs(Tables.posts, us, c, limit)
        /\ \A p \in PostIds :
             ListReplies(p, CursorQuery(c), limit) = Contract!PostListReplies(Tables.posts, p, c, limit)
    BY <1>1, <1>2, PostReads, EmptyCursorReads
  <1>7. /\ \A p \in DOMAIN mem.posts :
             /\ ImagesOf(p) = Contract!ImagesByPost(ImageLinks, mem.images, p)
             /\ TagsOf(p) = Contract!TagsByPost(TagLinks, mem.tags, p)
        /\ \A u \in Subs : ImagesOfUser(u) = ToSet(Contract!ImagesByUser(mem.images, u))
    BY PostImageReads, TagReads, ImageReads
  <1>8. /\ SortBadges(DOMAIN mem.badges) = Contract!ByPriority(mem.badges, DOMAIN mem.badges)
        /\ \A u \in Subs : BadgesOf(u) = Contract!BadgesOf(mem.badges, mem.userBadges, u, now)
    BY BadgeReads
  <1>9. suite = "ogp" => \A p \in PostIds :
          PreviewsOf(p) = Contract!PreviewsByPost(OgpLinks, mem.rows, p)
    BY PreviewReads DEF StoreInv, OgpInv
  <1>10. suite # "posts" => ReadsAgree
    BY <1>1, <1>3, <1>4, <1>5, <1>7, <1>8, <1>9 DEF ReadsAgree
  <1>11. suite = "posts" => ReadsAgree
    BY <1>6, Zenon DEF ReadsAgree
  <1> QED
    BY <1>10, <1>11

\* Every read of the in-memory repositories gives the answer of the postgres ones on
\* the same rows (ReadsAgree): which rows are live, which links are followed, the
\* order, where a page ends and which cursor leads on, for any limit and offset and
\* any cursor a handler passes.  User.List and Image.GetByUserID agree up to their
\* order, and a pointer to the empty cursor lists no post.
THEOREM ReadsAlwaysAgree == Spec => []ReadsAgree
  <1>1. StoreInv /\ KeysInv => ReadsAgree
    BY ReadsSound
  <1> QED
    BY <1>1, StoreInvHolds, KeysInvHolds, PTL
=============================================================================
