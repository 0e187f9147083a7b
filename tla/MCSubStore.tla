---------------------------- MODULE MCSubStore ------------------------------
EXTENDS SubStore

CONSTANTS s1, s2, n1, n2, n3, k1, k2, raw, clash, h0, h1

\* n1 and n2 are the same server under two names: they share their key.
MCKeyOf == n1 :> k1 @@ n2 :> k1 @@ n3 :> k2

\* n1 has no URI form, so it is missing from the raw payload.
MCShown == raw :> {n2, n3} @@ clash :> {n1, n2, n3}

MCContents == { <<>>, <<n1>>, <<n2, n3>> }
MCCacheKeys == { <<<<s1, s2>>, clash>>, <<<<s2>>, raw>> }

Symmetry == Permutations(Requests)
=============================================================================
