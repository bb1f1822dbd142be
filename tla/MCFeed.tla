------------------------------- MODULE MCFeed -------------------------------
(***************************************************************************)
(* Small instance of Feed: two users, the first following the second, two  *)
(* posts of the second and one of the first, two images of the first;      *)
(* pages of one or two posts.                                              *)
(***************************************************************************)
EXTENDS Feed

MCUsers == {1, 2}
MCPost(author, parent) ==
    [author |-> author, parent |-> parent, likes |-> 0, replies |-> 0, deleted |-> FALSE]
MCSeedPosts == <<MCPost(1, Null), MCPost(2, Null), MCPost(2, Null)>>
MCSeedImages == <<[owner |-> 1, createdAt |-> 0, deleted |-> FALSE],
                  [owner |-> 1, createdAt |-> 0, deleted |-> FALSE]>>
MCSeedFollows == (<<1, 2>> :> 0)
MCImageLists == {<<>>, <<2, 1>>}
MCRawLimits == {0, 1}
Symmetry == Permutations(Requests)
=============================================================================
