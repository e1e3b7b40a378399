---------------------------- MODULE GitTransport ----------------------------
(***************************************************************************)
(* Git over the broker (handleGit of server.go): a fetch, a discovery or a *)
(* push of one or more refs is admitted by the policy, held against the    *)
(* branch lifecycle guard and the refs GitHub shows, and then forwarded as *)
(* it came with an installation token.  Other people push and close pull   *)
(* requests meanwhile; GitHub itself compares a ref before it moves it.    *)
(***************************************************************************)
EXTENDS BrokerPolicy

CONSTANTS
    Pushers,        \* requests in progress
    Refs,           \* branches
    Shas,           \* commits
    MaxUpdates,     \* bound on the refs of one push
    MaxPushes,      \* bound on requests
    MaxOutside,     \* bound on other people's pushes and closed pulls
    MaxGitFaults    \* bound on failing calls and crashes

ASSUME GitAssumption == MaxUpdates \in Nat

Zero == "0000"      \* forty zeros: the ref is new, or is to be deleted
Upload == "git.upload-pack"
ReceivePack == "git.receive-pack"

VARIABLES
    git,            \* the request each handler works on
    refs,           \* the refs at GitHub
    stale,          \* branches whose pull request has been closed
    moved,          \* what the broker's pushes did: one record per moved ref
    pushes,
    outside,
    gitFaults

gitVars == <<git, refs, stale, moved, pushes, outside, gitFaults>>

Unasked == [pc |-> "idle", operation |-> "", updates |-> <<>>, cfg |-> "", stale |-> {}, next |-> 1]

GitInit ==
    /\ git = [c \in Pushers |-> Unasked]
    /\ refs \in [Refs -> Shas \cup {Zero}]
    /\ stale \in SUBSET Refs
    /\ moved = {}
    /\ pushes = 0 /\ outside = 0 /\ gitFaults = 0

GitIdle ==
    /\ git = [c \in Pushers |-> Unasked]
    /\ refs = [r \in Refs |-> Zero]
    /\ stale = {} /\ moved = {}
    /\ pushes = 0 /\ outside = 0 /\ gitFaults = 0

GitFault == gitFaults < MaxGitFaults /\ gitFaults' = gitFaults + 1

GitStep(c, pc) == git' = [git EXCEPT ![c].pc = pc]
Answered(c) == git' = [git EXCEPT ![c] = Unasked]

\* readReceivePackCommandPrefix: what is forwarded for a push is a list of
\* updates of branches; anything else does not parse and is refused.
Updates == [ref: Refs, before: Shas \cup {Zero}, after: Shas \cup {Zero}]
Parsed == UNION {[1..n -> Updates] : n \in 1..MaxUpdates}

\* Mutant: the policy is asked about the first branch only.
BranchesFirst(updates) == IF updates = <<>> THEN {""} ELSE {updates[1].ref}

\* Every branch of the push; a fetch and a discovery name none.
Branches(updates) ==
    IF updates = <<>> THEN {""} ELSE {updates[i].ref : i \in DOMAIN updates}

\* Authentication and policy, under one configuration.  An identity that may
\* not push opaque packs gets no further with a push.
Admitted(c, operation, updates) ==
    /\ \A b \in Branches(updates) : Admits(c, operation, b, TRUE)
    /\ ~(c.opaque /\ updates # <<>>)

ReceiveGit(c) ==
    /\ git[c].pc = "idle" /\ pushes < MaxPushes
    /\ pushes' = pushes + 1
    /\ \E request \in {<<Upload, <<>>>>, <<ReceivePack, <<>>>>} \cup {<<ReceivePack, u>> : u \in Parsed} :
         /\ Admitted(cfg, request[1], request[2])
         /\ git' = [git EXCEPT ![c] = [pc |-> "guard", operation |-> request[1], updates |-> request[2],
                                       cfg |-> cfg, stale |-> stale, next |-> 1]]
    /\ UNCHANGED <<refs, stale, moved, outside, gitFaults>>

\* Mutant: a lookup that fails is as good as a clean history.
GuardDeniesLenient(mode, failed, found) == mode = "deny" /\ found

\* checkBranchLifecycle: under "deny" a closed pull request and a lookup that
\* fails both refuse the push; under "warn" both let it pass with a warning.
GuardDenies(mode, failed, found) == mode = "deny" /\ (failed \/ found)

\* The pull requests are looked up for the first ref of the push.
CheckBranchLifecycle(c) ==
    /\ git[c].pc = "guard"
    /\ LET g == git[c]
           mode == g.cfg.guard
           after == IF g.updates = <<>> THEN "token" ELSE "preflight"
       IN IF g.updates = <<>> \/ mode = "off"
            THEN GitStep(c, after) /\ gitFaults' = gitFaults
            ELSE \/ /\ IF GuardDenies(mode, FALSE, g.updates[1].ref \in stale)
                         THEN Answered(c) ELSE GitStep(c, after)
                    /\ gitFaults' = gitFaults
                 \/ /\ IF GuardDenies(mode, TRUE, FALSE) THEN Answered(c) ELSE GitStep(c, after)
                    /\ GitFault
    /\ UNCHANGED <<refs, stale, moved, pushes, outside>>

\* Mutant: deletions are forwarded.
PassesAnything(u) == refs[u.ref] = u.before

\* A deletion is refused, and so is an update of a ref that is not where the
\* client believes it to be.
Passes(u) == u.after # Zero /\ refs[u.ref] = u.before

\* The refs are read one after the other, in the order of the push.
Preflight(c) ==
    /\ git[c].pc = "preflight"
    /\ LET g == git[c] IN
         \/ /\ git' = IF ~Passes(g.updates[g.next]) THEN [git EXCEPT ![c] = Unasked]
                      ELSE IF g.next = Len(g.updates) THEN [git EXCEPT ![c].pc = "token"]
                      ELSE [git EXCEPT ![c].next = @ + 1]
            /\ gitFaults' = gitFaults
         \/ Answered(c) /\ GitFault
    /\ UNCHANGED <<refs, stale, moved, pushes, outside>>

\* InstallationToken: a cached token, or an exchange that may fail.
Token(c) ==
    /\ git[c].pc = "token"
    /\ (GitStep(c, "forward") /\ gitFaults' = gitFaults) \/ (Answered(c) /\ GitFault)
    /\ UNCHANGED <<refs, stale, moved, pushes, outside>>

\* GitHub moves every ref that is still where the push says it is, and the
\* first of two updates of one ref wins.
Lands(updates, i) ==
    /\ refs[updates[i].ref] = updates[i].before
    /\ \A j \in 1..(i - 1) : updates[j].ref # updates[i].ref

\* The request is sent on; GitHub carries it out, or it is lost on the way.
Forward(c) ==
    /\ git[c].pc = "forward"
    /\ LET g == git[c]
           landed == {i \in DOMAIN g.updates : Lands(g.updates, i)}
       IN \/ /\ refs' = [r \in Refs |-> IF \E i \in landed : g.updates[i].ref = r
                            THEN g.updates[CHOOSE i \in landed : g.updates[i].ref = r].after ELSE refs[r]]
             /\ moved' = moved \cup {[ref |-> g.updates[i].ref, after |-> g.updates[i].after,
                                      cfg |-> g.cfg, stale |-> g.updates[i].ref \in g.stale,
                                      alone |-> Len(g.updates) = 1] : i \in landed}
             /\ UNCHANGED gitFaults \/ GitFault
          \/ UNCHANGED <<refs, moved>> /\ GitFault
    /\ Answered(c)
    /\ UNCHANGED <<stale, pushes, outside>>

-----------------------------------------------------------------------------
\* External: somebody else pushes, or closes the pull request of a branch.
PushedOutside ==
    /\ outside < MaxOutside /\ outside' = outside + 1
    /\ \E r \in Refs, s \in Shas : refs[r] # s /\ refs' = [refs EXCEPT ![r] = s]
    /\ UNCHANGED <<git, stale, moved, pushes, gitFaults>>

PullClosed ==
    /\ outside < MaxOutside /\ outside' = outside + 1
    /\ \E r \in Refs \ stale : stale' = stale \cup {r}
    /\ UNCHANGED <<git, refs, moved, pushes, gitFaults>>

GitCrash ==
    /\ \E c \in Pushers : git[c].pc # "idle"
    /\ GitFault
    /\ git' = [c \in Pushers |-> Unasked]
    /\ UNCHANGED <<refs, stale, moved, pushes, outside>>

GitNext ==
    \/ PushedOutside \/ PullClosed \/ GitCrash
    \/ \E c \in Pushers : \/ ReceiveGit(c) \/ CheckBranchLifecycle(c) \/ Preflight(c)
                          \/ Token(c) \/ Forward(c)

-----------------------------------------------------------------------------
\* Every ref a push through the broker has moved is a branch that the
\* configuration its request was admitted under allows that agent to push,
\* and none was deleted, however many refs one push names and whatever was
\* reloaded or pushed by others on the way (handleGit).
MovedWithinPolicy ==
    \A m \in moved :
        /\ Admits(m.cfg, ReceivePack, m.ref, TRUE) /\ ~m.cfg.opaque
        /\ m.after # Zero

\* Under a guard that denies, a push of one ref never moves a branch whose pull
\* request was closed before the push came in, also when the lookup fails
\* (checkBranchLifecycle).
GuardedPushIsFresh ==
    \A m \in moved : m.cfg.guard = "deny" /\ m.alone => ~m.stale

=============================================================================
