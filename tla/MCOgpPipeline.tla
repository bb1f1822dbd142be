--------------------------- MODULE MCOgpPipeline ---------------------------
(* OgpPipeline on small instances: the URLs of the posts. *)
EXTENDS OgpPipeline, TLC

CONSTANTS p1, p2, h1, h2

\* p1 has two pages, the first under two spellings; p2 a URL that does not
\* normalise and a page of p1's.
MCSpellings == (p1 :> <<h1, h2, h1>>) @@ (p2 :> <<Bad, h1>>)

\* One page under two spellings behind another page, and nothing usable
\* in p2.
MCTwice == (p1 :> <<h2, h1, h1>>) @@ (p2 :> <<Bad>>)

\* Two posts with a page each.
MCPages == (p1 :> <<h1>>) @@ (p2 :> <<h2>>)

\* Every URL is its own normal form; h2 is h1 with a full stop after the host.
MCSame == (h1 :> h1) @@ (h2 :> h2)
MCDotted == (h1 :> h1) @@ (h2 :> h1)

Symmetry == Permutations(Workers)
=============================================================================
