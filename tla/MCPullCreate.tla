---------------------------- MODULE MCPullCreate ----------------------------
EXTENDS PullCreate, TLC

\* Idle picks a member of Ops and of Digests for fields no action reads, so
\* only callers and consumers are permuted.
Symmetry == Permutations(Callers) \cup Permutations(Consumers)
=============================================================================
