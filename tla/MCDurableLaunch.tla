--------------------------- MODULE MCDurableLaunch ---------------------------
EXTENDS DurableLaunch, TLC

\* Callers, runs, keys, fingerprints and versions are interchangeable: the values
\* chosen for idle calls, absent rows and the process that is down are not read.
Symmetry == Permutations(Callers) \cup Permutations(Runs) \cup Permutations(Keys)
                \cup Permutations(Fps) \cup Permutations(Versions)
==============================================================================
