---------------------------- MODULE ReleaseStore ----------------------------
(***************************************************************************)
(* The agent release registry (internal/release) behind the release REST   *)
(* surface of the sandbox broker.  Publishing is a transaction, then a     *)
(* verification in a second one, a slow import into Docker, and a third    *)
(* transaction that marks the image available; promotions, rollbacks and   *)
(* other publications may come in between, images may be removed from      *)
(* Docker, and the broker may be restarted, when it checks every active    *)
(* release against Docker again.                                           *)
(*                                                                         *)
(* An image is named by its digest.  Provenance is what policies look at:  *)
(* the declared platform and whether the required fields are filled in.    *)
(***************************************************************************)
EXTENDS Integers, Sequences, FiniteSets

CONSTANTS
    AgentTypes,     \* agent types a publisher may name
    Digests,        \* image digests
    ImagePlatform,  \* the platform each image was built for
    Policy,         \* agent type -> platforms its releases may have
    Publishers,     \* publish requests in progress
    MaxGenerations, \* bound on releases
    MaxRemovals,    \* bound on images removed from Docker
    MaxRestarts,    \* bound on restarts
    MaxFaults       \* bound on Docker calls that fail

\* The deployment has policies for agent types only.
ASSUME ReleaseAssumption ==
    /\ DOMAIN Policy \subseteq AgentTypes
    /\ MaxGenerations \in Nat /\ MaxRemovals \in Nat /\ MaxRestarts \in Nat /\ MaxFaults \in Nat

Platforms == {ImagePlatform[d] : d \in Digests}
States == {"candidate", "verified", "active", "superseded", "rolled_back"}

VARIABLES
    rel,        \* agent_releases; the generation is the position
    images,     \* the images Docker has
    job,        \* what each publisher is at
    up,         \* the broker serves requests
    lost,       \* images removed since the last startup
    known,      \* generations whose image was checked since the last startup
    removals, restarts, faults

vars == <<rel, images, job, up, lost, known, removals, restarts, faults>>

Release == [type: AgentTypes, digest: Digests, platform: Platforms, complete: BOOLEAN,
            state: States, avail: BOOLEAN]

Idle == [pc |-> "idle", gen |-> 0]

\* The unique index on (agent_type, image_digest).
DigestsUnique ==
    \A g, h \in DOMAIN rel : rel[g].type = rel[h].type /\ rel[g].digest = rel[h].digest => g = h

TypeOK ==
    /\ rel \in Seq(Release) /\ Len(rel) <= MaxGenerations
    /\ DigestsUnique
    /\ images \subseteq Digests /\ lost \subseteq Digests
    /\ job \in [Publishers -> [pc: {"idle", "verify", "load", "inspect", "mark"},
                               gen: 0..MaxGenerations]]
    /\ up \in BOOLEAN
    /\ known \subseteq 1..MaxGenerations
    /\ removals \in 0..MaxRemovals /\ restarts \in 0..MaxRestarts /\ faults \in 0..MaxFaults

Init ==
    /\ rel = << >> /\ images = {}
    /\ job = [p \in Publishers |-> Idle]
    /\ up = TRUE
    /\ lost = {} /\ known = {}
    /\ removals = 0 /\ restarts = 0 /\ faults = 0

Fault == faults < MaxFaults /\ faults' = faults + 1

dockerVars == <<images, lost, removals>>
startVars == <<up, restarts>>

-----------------------------------------------------------------------------
(* Publishing.                                                             *)

\* validateDockerArtifact derives the digest from the archive and refuses one
\* whose platform is not the declared one.
ValidArtifact(d, platform) == ImagePlatform[d] = platform

Taken(t, d) == \E g \in DOMAIN rel : rel[g].type = t /\ rel[g].digest = d

PublishCandidate(t, d, platform, complete) ==
    /\ ~Taken(t, d)
    /\ rel' = Append(rel, [type |-> t, digest |-> d, platform |-> platform,
                           complete |-> complete, state |-> "candidate", avail |-> FALSE])

\* The agent type must have a policy of the deployment.
HandleReleasePublish(p) ==
    /\ up /\ job[p].pc = "idle" /\ Len(rel) < MaxGenerations
    /\ \E t \in DOMAIN Policy, d \in Digests, platform \in Platforms, complete \in BOOLEAN :
         ValidArtifact(d, platform) /\ PublishCandidate(t, d, platform, complete)
    /\ job' = [job EXCEPT ![p] = [pc |-> "verify", gen |-> Len(rel) + 1]]
    /\ UNCHANGED <<dockerVars, startVars, known, faults>>

CheckRequirements(r) == r.complete /\ r.platform \in Policy[r.type]

\* Mutant: the deployment's requirements are not looked at.
VerifiableAny(r) == r.state \in {"candidate", "verified"}

Verifiable(r) == r.state \in {"candidate", "verified"} /\ CheckRequirements(r)

VerifyRelease(p) ==
    /\ up /\ job[p].pc = "verify"
    /\ IF Verifiable(rel[job[p].gen])
         THEN /\ rel' = [rel EXCEPT ![job[p].gen].state = "verified"]
              /\ job' = [job EXCEPT ![p].pc = "load"]
         ELSE rel' = rel /\ job' = [job EXCEPT ![p] = Idle]
    /\ UNCHANGED <<dockerVars, startVars, known, faults>>

\* LoadImage; a failure may come before or after Docker has the image.
LoadImage(p) ==
    /\ up /\ job[p].pc = "load"
    /\ \/ /\ images' = images \cup {rel[job[p].gen].digest}
          /\ job' = [job EXCEPT ![p].pc = "inspect"] /\ faults' = faults
       \/ /\ images' \in {images, images \cup {rel[job[p].gen].digest}}
          /\ job' = [job EXCEPT ![p] = Idle] /\ Fault
    /\ lost' = lost \ images'
    /\ UNCHANGED <<rel, removals, startVars, known>>

Inspected(d) == d \in images

\* acquireDockerArtifact asks Docker for the image it has loaded.
AcquireDockerArtifact(p) ==
    /\ up /\ job[p].pc = "inspect"
    /\ \/ /\ Inspected(rel[job[p].gen].digest)
          /\ job' = [job EXCEPT ![p].pc = "mark"] /\ faults' = faults
       \/ /\ ~Inspected(rel[job[p].gen].digest)
          /\ job' = [job EXCEPT ![p] = Idle] /\ faults' = faults
       \/ job' = [job EXCEPT ![p] = Idle] /\ Fault
    /\ UNCHANGED <<rel, dockerVars, startVars, known>>

MarkAvailable(p) ==
    /\ up /\ job[p].pc = "mark"
    /\ rel' = [rel EXCEPT ![job[p].gen].avail = TRUE]
    /\ job' = [job EXCEPT ![p] = Idle]
    /\ known' = known \cup {job[p].gen}
    /\ UNCHANGED <<dockerVars, startVars, faults>>

-----------------------------------------------------------------------------
(* Promotion, rollback and resolution.                                     *)

ActiveOf(t) == {g \in DOMAIN rel : rel[g].type = t /\ rel[g].state = "active"}

\* Mutant: only the next generation in line is expected to be active.
RetiredPrevious(g, state) ==
    [h \in DOMAIN rel |-> IF h = g - 1 /\ h \in ActiveOf(rel[g].type)
                            THEN [rel[h] EXCEPT !.state = state] ELSE rel[h]]

\* What the table holds once the active release of g's type is retired.
Retired(g, state) ==
    [h \in DOMAIN rel |-> IF h \in ActiveOf(rel[g].type)
                            THEN [rel[h] EXCEPT !.state = state] ELSE rel[h]]

Activate(g, retiredState) == rel' = [Retired(g, retiredState) EXCEPT ![g].state = "active"]

\* The release is verified, its image available, its generation newer than
\* the active one.
Promote(g) ==
    /\ g \in DOMAIN rel
    /\ rel[g].state = "verified" /\ rel[g].avail
    /\ \A h \in ActiveOf(rel[g].type) : g > h
    /\ Activate(g, "superseded")

\* Any available generation that was verified once, older or newer.
Rollback(g) ==
    /\ g \in DOMAIN rel
    /\ rel[g].avail
    /\ rel[g].state \in {"superseded", "rolled_back", "verified"}
    /\ Activate(g, "rolled_back")

HandleReleasePromote(g) ==
    /\ up /\ Promote(g)
    /\ UNCHANGED <<dockerVars, job, startVars, known, faults>>

HandleReleaseRollback(g) ==
    /\ up /\ Rollback(g)
    /\ UNCHANGED <<dockerVars, job, startVars, known, faults>>

\* The releases a launch of an agent type is given.
Resolve(t) == {g \in ActiveOf(t) : rel[g].avail}

-----------------------------------------------------------------------------
(* Docker and restarts.                                                    *)

RemoveImage(d) ==
    /\ d \in images /\ removals < MaxRemovals
    /\ images' = images \ {d} /\ lost' = lost \cup {d} /\ removals' = removals + 1
    /\ UNCHANGED <<rel, job, startVars, known, faults>>

Restart ==
    /\ up /\ restarts < MaxRestarts
    /\ up' = FALSE /\ restarts' = restarts + 1
    /\ job' = [p \in Publishers |-> Idle]
    /\ lost' = {} /\ known' = {}
    /\ UNCHANGED <<rel, images, removals, faults>>

Active == {g \in DOMAIN rel : rel[g].state = "active"}

\* Mutant: only releases that were unavailable are asked for.
RecheckUnavailable(g) ==
    IF rel[g].avail THEN rel[g] ELSE [rel[g] EXCEPT !.avail = rel[g].digest \in images]

Recheck(g) == [rel[g] EXCEPT !.avail = rel[g].digest \in images]

\* At startup every active release is compared with Docker, in turn.  A check
\* that fails ends the reconciliation, is logged, and the broker serves all the
\* same.
Reconcile ==
    /\ ~up /\ up' = TRUE
    /\ \E done \in SUBSET Active :
         /\ \/ done = Active /\ faults' = faults
            \/ done # Active /\ Fault
         /\ known' = done
         /\ rel' = [g \in DOMAIN rel |-> IF g \in done THEN Recheck(g) ELSE rel[g]]
    /\ UNCHANGED <<dockerVars, job, restarts>>

Next ==
    \/ \E p \in Publishers : \/ HandleReleasePublish(p) \/ VerifyRelease(p) \/ LoadImage(p)
                             \/ AcquireDockerArtifact(p) \/ MarkAvailable(p)
    \/ \E g \in 1..MaxGenerations : HandleReleasePromote(g) \/ HandleReleaseRollback(g)
    \/ \E d \in Digests : RemoveImage(d)
    \/ Restart \/ Reconcile

Spec == Init /\ [][Next]_vars

-----------------------------------------------------------------------------
(* Properties.                                                             *)

\* An agent type never has two active releases, although no index of the
\* table says so: every promotion and rollback retires the one before in the
\* same transaction (release.go Promote, Rollback).
OneActive == \A t \in AgentTypes : Cardinality(ActiveOf(t)) <= 1

\* A release that is or was active had met its type's policy, however
\* publications, promotions, rollbacks and restarts fell together (release.go
\* VerifyAndMarkAvailable, Promote).
OnlyVerifiedRuns ==
    \A g \in DOMAIN rel : rel[g].state \in {"active", "superseded", "rolled_back"} =>
        rel[g].complete /\ rel[g].platform \in Policy[rel[g].type]

\* What a launch is given after a startup that compared the release with
\* Docker, or after its image was imported since, is an image Docker has,
\* unless it was removed in the meantime (release.go Reconcile, Resolve).
ResolvedIsPresent ==
    up => \A t \in AgentTypes : \A g \in Resolve(t) \cap known :
        rel[g].digest \in images \cup lost

=============================================================================
