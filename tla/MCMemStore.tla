----------------------------- MODULE MCMemStore -----------------------------
(***************************************************************************)
(* Small instance of MemStore: three users, posts and positions, two of    *)
(* everything else.                                                        *)
(***************************************************************************)
EXTENDS MemStore

MCSuites == {"users", "follows", "likes", "posts", "links", "tags", "badges", "ogp", "jobs"}
MCThree == 1..3
MCTwo == 1..2
MCTagIds == 1..4
MCLimits == 0..2
MCImageChoices == {<<>>, <<2, 1>>}
MCTagChoices == {{}, {1, 2}}
=============================================================================
