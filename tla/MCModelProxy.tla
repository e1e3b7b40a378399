---------------------------- MODULE MCModelProxy ----------------------------
EXTENDS ModelProxy, TLC

\* One policy of each coherent kind: model access and identity only.
MCPolicies == {[models |-> {CHOOSE m \in CodexModels : TRUE}, calls |-> 2, tokens |-> 4],
               [models |-> {}, calls |-> 0, tokens |-> 0]}

\* Unissued picks a run for a field no action reads, so only handlers are
\* permuted.
Symmetry == Permutations(Handlers)
=============================================================================
