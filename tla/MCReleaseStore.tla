--------------------------- MODULE MCReleaseStore ---------------------------
EXTENDS ReleaseStore, TLC

CONSTANTS d1, d2, d3, t1, t2, t3, linux, other

\* d3 is built for a platform the policy of t1 does not allow; t3 has none.
MCPlatform == d1 :> linux @@ d2 :> linux @@ d3 :> other
MCPolicy == t1 :> {linux} @@ t2 :> {linux, other}

Symmetry == Permutations(Publishers)
=============================================================================
