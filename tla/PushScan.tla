------------------------------ MODULE PushScan ------------------------------
(***************************************************************************)
(* The material a scanner is given for one push (server.go                 *)
(* handlePushTripwireMaterial, githubapp/client.go PushTripwireMaterial):  *)
(* the commits the push brought and both sides of every path each of them  *)
(* changes against its first parent.  The repository's history is chosen   *)
(* in Init and never changes; the base ref may move before the scan.       *)
(***************************************************************************)
EXTENDS Integers, Sequences, FiniteSets, FiniteSetsExt

CONSTANTS
    LastCommit,   \* commits are 0..LastCommit, parents before children
    Paths,        \* file paths
    Blobs,        \* file contents, each of size one
    Limits        \* push_tripwire.bounds: [commits, paths]

ASSUME ScanAssumption == LastCommit \in Nat

Absent == "absent"
NewRef == -1
Commits == 0..LastCommit

VARIABLES
    parents,      \* the parents of each commit, the first one first
    tree,         \* what each commit holds at each path
    nested,       \* paths that lie in a directory
    baseRef,      \* the commit the configured base ref names
    material      \* the answer to the last request, or none

scanVars == <<parents, tree, nested, baseRef, material>>

NoMaterial == [complete |-> FALSE, asked |-> FALSE, from |-> 0, after |-> 0,
               commits |-> {}, files |-> {}]

ParentLists(c) ==
    {<<>>} \cup {<<p>> : p \in 0..(c - 1)}
           \cup {l \in (0..(c - 1)) \X (0..(c - 1)) : l[1] # l[2]}

ScanInit ==
    /\ parents \in {f \in [Commits -> UNION {ParentLists(c) : c \in Commits}] :
                      \A c \in Commits : f[c] \in ParentLists(c)}
    /\ tree \in {t \in [Commits -> [Paths -> Blobs \cup {Absent}]] : \A p \in Paths : t[0][p] = Absent}
    /\ nested \in SUBSET Paths
    /\ baseRef = 0
    /\ material = NoMaterial

ScanIdle ==
    /\ parents = [c \in Commits |-> <<>>]
    /\ tree = [c \in Commits |-> [p \in Paths |-> Absent]]
    /\ nested = {} /\ baseRef = 0
    /\ material = NoMaterial

\* History: c and every commit it descends from, the least set with c that
\* holds the parents of its members.
Ancestral(S) == \A d \in S : \A i \in DOMAIN parents[d] : parents[d][i] \in S

Reach == [c \in Commits |-> {d \in Commits : \A S \in SUBSET Commits : c \in S /\ Ancestral(S) => d \in S}]

\* GitHub's answer to compare/from...after.
Comparison(from, after) ==
    LET R == Reach
    IN [commits |-> R[after] \ R[from],
        status |-> IF from = after THEN "identical"
                   ELSE IF from \in R[after] THEN "ahead"
                   ELSE IF after \in R[from] THEN "behind" ELSE "diverged"]

\* A new branch is compared with the base ref as it is now.
CompareBefore(before) == IF before = NewRef THEN baseRef ELSE before

StatusAllowed(before, status) ==
    status = "ahead" \/ (before = NewRef /\ status = "diverged")

\* Mutant: only the head of the push is looked at.
InspectedHead(listed, after) == {after}

\* Every commit the push brought is looked at.
Inspected(listed, after) == listed

\* Paths that differ between a commit and its first parent.
Changed(c) == {p \in Paths : tree[c][p] # tree[parents[c][1]][p]}

\* Both sides of a changed path, as far as they exist.
Sides(c) ==
    UNION {{[commit |-> c, path |-> p, blob |-> b] :
               b \in {tree[c][p], tree[parents[c][1]][p]} \ {Absent}} : p \in Changed(c)}

SideCount(c) ==
    FoldSet(LAMBDA p, n : n + (IF Absent \in {tree[c][p], tree[parents[c][1]][p]} THEN 1 ELSE 2),
            0, Changed(c))

\* The listing of a tree names its directories too, and a directory whose
\* content changed is an entry that is not a blob.
Supported(c) == Changed(c) \cap nested = {}

WithinPathBound(seen, lim) == FoldSet(LAMBDA c, n : n + SideCount(c), 0, seen) <= lim.paths

\* Any doubt about the history, an entry that cannot be read or a bound that
\* is passed makes the whole answer incomplete.
PushTripwireMaterial(before, after, lim) ==
    LET from == CompareBefore(before)
        cmp == Comparison(from, after)
        listed == cmp.commits
        seen == Inspected(listed, after)
        readable == /\ Cardinality(listed) <= lim.commits
                    /\ StatusAllowed(before, cmp.status) /\ listed # {}
                    /\ \A c \in listed : parents[c] # <<>>
        complete == /\ readable /\ \A c \in seen : Supported(c)
                    /\ WithinPathBound(seen, lim)
    IN [complete |-> complete, asked |-> TRUE, from |-> from, after |-> after,
        commits |-> IF complete THEN listed ELSE {},
        files |-> IF complete THEN UNION {Sides(c) : c \in seen} ELSE {}]

\* handlePushTripwireMaterial: one answer for a push of a scanned ref.  A call
\* to GitHub that fails is one more way to be incomplete.
Scan ==
    /\ ~material.asked
    /\ \E before \in Commits \cup {NewRef}, after \in Commits, lim \in Limits :
         \/ material' = PushTripwireMaterial(before, after, lim)
         \/ material' = [NoMaterial EXCEPT !.asked = TRUE]
    /\ UNCHANGED <<parents, tree, nested, baseRef>>

\* Other work is merged into the base branch between the push and the scan.
BaseAdvances ==
    /\ ~material.asked
    /\ \E c \in Commits : baseRef \in Reach[c] \ {c} /\ baseRef' = c
    /\ UNCHANGED <<parents, tree, nested, material>>

ScanNext == Scan \/ BaseAdvances

-----------------------------------------------------------------------------
\* Material that claims to be complete shows the scanner every content the
\* push brought: whatever any of its commits holds, also content that a later
\* commit of the push takes away again or that came in through a merge, is
\* among the files unless the repository held it at that path before
\* (PushTripwireMaterial diffs every commit against its first parent).
MaterialCoversPush ==
    material.complete =>
        \A c \in Reach[material.after] \ Reach[material.from], p \in Paths :
            \/ tree[c][p] = Absent
            \/ \E f \in material.files : f.path = p /\ f.blob = tree[c][p]
            \/ \E d \in Reach[material.from] : tree[d][p] = tree[c][p]
=============================================================================
