------------------------- MODULE ReleaseStoreProofs -------------------------
(***************************************************************************)
(* Theorems about ReleaseStore, for every set of agent types, images and   *)
(* publishers, every policy and every bound.                               *)
(***************************************************************************)
EXTENDS ReleaseStore, SequenceTheorems, FiniteSetTheorems, TLAPS

-----------------------------------------------------------------------------
(* The inductive invariant.                                                *)

\* A publication under way works on a row of the table.
JobsNamed == \A p \in Publishers : job[p].pc # "idle" => job[p].gen \in DOMAIN rel

\* The active release of a type is one row.
ActiveIsOne ==
    \A g, h \in DOMAIN rel : /\ rel[g].type = rel[h].type
                             /\ rel[g].state = "active" /\ rel[h].state = "active"
                             => g = h

\* A row that has left the candidate state had met the policy of its type.
PassedPolicy == \A g \in DOMAIN rel : rel[g].state # "candidate" => CheckRequirements(rel[g])

\* An image somebody has looked for is one Docker has, or that was removed since.
Seen(g) == rel[g].digest \in images \cup lost

ImagesSeen ==
    /\ \A g \in known : g \in DOMAIN rel /\ (rel[g].avail => Seen(g))
    /\ \A p \in Publishers : job[p].pc = "mark" => Seen(job[p].gen)

ReleaseInv == TypeOK /\ JobsNamed /\ ActiveIsOne /\ PassedPolicy /\ ImagesSeen

-----------------------------------------------------------------------------
(* The table.                                                              *)

LEMMA Table ==
  ASSUME rel \in Seq(Release)
  PROVE  /\ Len(rel) \in Nat /\ DOMAIN rel = 1..Len(rel)
         /\ \A g \in DOMAIN rel : rel[g] \in Release
  BY ElementOfSeq, LenProperties

\* An update of every row that keeps what names and describes it.
Updated(t) ==
    /\ DOMAIN t = DOMAIN rel
    /\ \A g \in DOMAIN rel :
         /\ t[g] \in Release
         /\ t[g].type = rel[g].type /\ t[g].digest = rel[g].digest
         /\ t[g].platform = rel[g].platform /\ t[g].complete = rel[g].complete

LEMMA UpdatedTable ==
  ASSUME TypeOK, NEW t, t = [g \in DOMAIN t |-> t[g]], Updated(t)
  PROVE  t \in Seq(Release) /\ Len(t) = Len(rel)
<1>1. Len(rel) \in Nat /\ DOMAIN rel = 1..Len(rel)
  BY Table DEF TypeOK
<1>2. t \in [1..Len(rel) -> Release]
  BY <1>1 DEF Updated
<1>3. t \in Seq(Release)
  BY <1>1, <1>2, SeqDef
<1> QED
  BY <1>1, <1>2, <1>3, LenProperties

\* Changing the state or the flag of rows keeps the index on the digests.
LEMMA UpdatedRows ==
  ASSUME TypeOK, rel' = [g \in DOMAIN rel' |-> rel'[g]], Updated(rel')
  PROVE  rel' \in Seq(Release) /\ Len(rel') = Len(rel) /\ DigestsUnique'
<1>1. rel' \in Seq(Release) /\ Len(rel') = Len(rel)
  BY UpdatedTable
<1>2. DigestsUnique'
  BY DEF TypeOK, DigestsUnique, Updated
<1> QED
  BY <1>1, <1>2

\* What a row is after an update of its state or of its flag.
LEMMA StateRow ==
  ASSUME NEW r \in Release, NEW s \in States
  PROVE  LET u == [r EXCEPT !.state = s]
         IN  /\ u \in Release /\ u.state = s /\ u.avail = r.avail /\ u.type = r.type
             /\ u.digest = r.digest /\ u.platform = r.platform /\ u.complete = r.complete
  BY DEF Release

LEMMA AvailRow ==
  ASSUME NEW r \in Release, NEW b \in BOOLEAN
  PROVE  LET u == [r EXCEPT !.avail = b]
         IN  /\ u \in Release /\ u.state = r.state /\ (u.avail <=> b) /\ u.type = r.type
             /\ u.digest = r.digest /\ u.platform = r.platform /\ u.complete = r.complete
  BY DEF Release

LEMMA Jobs ==
  ASSUME ReleaseInv, NEW p \in Publishers, job[p].pc # "idle"
  PROVE  /\ job[p].gen \in DOMAIN rel /\ rel[job[p].gen] \in Release
         /\ job \in [Publishers -> [pc: {"idle", "verify", "load", "inspect", "mark"},
                                    gen: 0..MaxGenerations]]
  BY Table DEF ReleaseInv, TypeOK, JobsNamed

LEMMA IdleJob ==
  Idle \in [pc: {"idle", "verify", "load", "inspect", "mark"}, gen: 0..MaxGenerations]
  BY ReleaseAssumption DEF Idle

LEMMA FaultCount == ASSUME TypeOK, Fault PROVE faults' \in 0..MaxFaults
  BY ReleaseAssumption DEF TypeOK, Fault

-----------------------------------------------------------------------------
(* Publishing.                                                             *)

LEMMA PublishInv ==
  ASSUME ReleaseInv, NEW p \in Publishers, HandleReleasePublish(p)
  PROVE  ReleaseInv'
<1> USE DEF HandleReleasePublish
<1>1. PICK t \in DOMAIN Policy, d \in Digests, platform \in Platforms, complete \in BOOLEAN :
         PublishCandidate(t, d, platform, complete)
  OBVIOUS
<1> DEFINE new == [type |-> t, digest |-> d, platform |-> platform, complete |-> complete,
                   state |-> "candidate", avail |-> FALSE]
<1>2. new \in Release
  BY ReleaseAssumption DEF Release, States
<1>3. rel \in Seq(Release) /\ Len(rel) \in Nat /\ DOMAIN rel = 1..Len(rel)
  BY Table DEF ReleaseInv, TypeOK
<1>4. rel' = Append(rel, new) /\ ~Taken(t, d)
  BY <1>1 DEF PublishCandidate
<1>5. /\ rel' \in Seq(Release) /\ Len(rel') = Len(rel) + 1 /\ DOMAIN rel' = 1..(Len(rel) + 1)
      /\ \A g \in DOMAIN rel : rel'[g] = rel[g]
      /\ rel'[Len(rel) + 1] = new
  BY <1>2, <1>3, <1>4, AppendProperties
<1>6. \A g \in DOMAIN rel' : g \in DOMAIN rel \/ g = Len(rel) + 1
  BY <1>3, <1>5
<1> HIDE DEF new
<1>7. new.type = t /\ new.digest = d /\ new.state = "candidate" /\ new.avail = FALSE
  BY DEF new
<1>8. DigestsUnique'
  <2>1. DigestsUnique
    BY DEF ReleaseInv, TypeOK
  <2>2. \A g \in DOMAIN rel : ~(rel[g].type = new.type /\ rel[g].digest = new.digest)
    BY <1>4, <1>7 DEF Taken
  <2> HIDE DEF HandleReleasePublish
  <2> SUFFICES ASSUME NEW g \in DOMAIN rel', NEW h \in DOMAIN rel',
                      rel'[g].type = rel'[h].type, rel'[g].digest = rel'[h].digest
               PROVE  g = h
    BY DEF DigestsUnique
  <2> QED
    BY <2>1, <2>2, <1>5, <1>6 DEF DigestsUnique
<1>9. Len(rel) + 1 \in 0..MaxGenerations
  BY <1>3, ReleaseAssumption
<1>10. job' \in [Publishers -> [pc: {"idle", "verify", "load", "inspect", "mark"},
                                gen: 0..MaxGenerations]]
  BY <1>9 DEF ReleaseInv, TypeOK
<1>11. TypeOK'
  BY <1>5, <1>8, <1>9, <1>10 DEF ReleaseInv, TypeOK, dockerVars, startVars
<1>12. \A q \in Publishers : \/ job'[q] = job[q]
                             \/ job'[q].pc = "verify" /\ job'[q].gen = Len(rel) + 1
  BY DEF ReleaseInv, TypeOK
<1>13. DOMAIN rel \subseteq DOMAIN rel' /\ Len(rel) + 1 \in DOMAIN rel'
  BY <1>3, <1>5
<1>14. JobsNamed'
  BY <1>12, <1>13 DEF ReleaseInv, JobsNamed
<1>15. ActiveIsOne'
  BY <1>5, <1>6, <1>7 DEF ReleaseInv, ActiveIsOne
<1>16. PassedPolicy'
  BY <1>5, <1>6, <1>7 DEF ReleaseInv, PassedPolicy, CheckRequirements
<1>17. ImagesSeen'
  BY <1>5, <1>12, <1>13 DEF ReleaseInv, ImagesSeen, JobsNamed, Seen, dockerVars
<1> QED
  BY <1>11, <1>14, <1>15, <1>16, <1>17 DEF ReleaseInv

LEMMA VerifyInv ==
  ASSUME ReleaseInv, NEW p \in Publishers, VerifyRelease(p)
  PROVE  ReleaseInv'
<1> DEFINE n == job[p].gen
<1>1. n \in DOMAIN rel /\ rel[n] \in Release
  BY Jobs DEF VerifyRelease
<1>2. CASE Verifiable(rel[n])
  <2>1. rel' = [rel EXCEPT ![n].state = "verified"] /\ job' = [job EXCEPT ![p].pc = "load"]
    BY <1>2 DEF VerifyRelease
  <2>2. Updated(rel')
    BY <1>1, <2>1, Table DEF Updated, Release, States, ReleaseInv, TypeOK
  <2>3. rel' \in Seq(Release) /\ Len(rel') = Len(rel) /\ DigestsUnique'
    BY <2>1, <2>2, UpdatedRows DEF ReleaseInv
  <2>4. TypeOK'
    BY <2>1, <2>3 DEF ReleaseInv, TypeOK, VerifyRelease, dockerVars, startVars
  <2>5. \A q \in Publishers : /\ job'[q].gen = job[q].gen
                              /\ job'[q].pc # "idle" => job[q].pc # "idle"
                              /\ job'[q].pc = "mark" => job[q].pc = "mark"
    BY <2>1 DEF ReleaseInv, TypeOK, VerifyRelease
  <2>6. JobsNamed'
    BY <2>2, <2>5 DEF ReleaseInv, JobsNamed, Updated
  <2>7. \A g \in DOMAIN rel : rel'[g].state = "active" => rel[g].state = "active"
    BY <1>1, <2>1, Table DEF ReleaseInv, TypeOK, Release
  <2>8. ActiveIsOne'
    BY <2>2, <2>7 DEF ReleaseInv, ActiveIsOne, Updated
  <2>9. \A g \in DOMAIN rel : rel'[g].state # "candidate" =>
           rel[g].state # "candidate" \/ (g = n /\ CheckRequirements(rel[n]))
    BY <1>1, <1>2, <2>1 DEF Verifiable
  <2>10. PassedPolicy'
    BY <2>2, <2>9 DEF ReleaseInv, PassedPolicy, CheckRequirements, Updated
  <2>11. \A g \in DOMAIN rel : rel'[g].avail = rel[g].avail
    BY <1>1, <2>1, Table DEF ReleaseInv, TypeOK, Release
  <2>12. ImagesSeen'
    BY <2>2, <2>5, <2>11 DEF ReleaseInv, ImagesSeen, Seen, Updated, VerifyRelease, dockerVars, JobsNamed
  <2> QED
    BY <2>4, <2>6, <2>8, <2>10, <2>12 DEF ReleaseInv
<1>3. CASE ~Verifiable(rel[n])
  <2>1. rel' = rel /\ job' = [job EXCEPT ![p] = Idle]
    BY <1>3 DEF VerifyRelease
  <2>2. TypeOK'
    BY <2>1, IdleJob DEF ReleaseInv, TypeOK, DigestsUnique, VerifyRelease, dockerVars, startVars
  <2>3. \A q \in Publishers : job'[q] = job[q] \/ job'[q].pc = "idle"
    BY <2>1 DEF ReleaseInv, TypeOK, Idle
  <2> QED
    BY <2>1, <2>2, <2>3 DEF ReleaseInv, JobsNamed, ActiveIsOne, PassedPolicy, ImagesSeen, Seen,
       VerifyRelease, dockerVars, CheckRequirements
<1> QED
  BY <1>2, <1>3

\* Steps that leave the table alone.
LEMMA SameTable ==
  ASSUME ReleaseInv, rel' = rel, images' \subseteq Digests, lost' \subseteq Digests,
         images \cup lost \subseteq images' \cup lost', known' \subseteq known,
         job' \in [Publishers -> [pc: {"idle", "verify", "load", "inspect", "mark"},
                                  gen: 0..MaxGenerations]],
         \A q \in Publishers :
            \/ job'[q].pc = "idle"
            \/ /\ job[q].pc # "idle" /\ job'[q].gen = job[q].gen
               /\ job'[q].pc = "mark" => job[q].pc = "mark" \/ Seen(job[q].gen)',
         up' \in BOOLEAN, removals' \in 0..MaxRemovals,
         restarts' \in 0..MaxRestarts, faults' \in 0..MaxFaults
  PROVE  ReleaseInv'
<1>1. TypeOK'
  BY DEF ReleaseInv, TypeOK, DigestsUnique
<1>2. JobsNamed' /\ ActiveIsOne' /\ PassedPolicy'
  BY DEF ReleaseInv, JobsNamed, ActiveIsOne, PassedPolicy, CheckRequirements
<1>3. ImagesSeen'
  BY DEF ReleaseInv, ImagesSeen, Seen
<1> QED
  BY <1>1, <1>2, <1>3 DEF ReleaseInv

LEMMA LoadInv ==
  ASSUME ReleaseInv, NEW p \in Publishers, LoadImage(p)
  PROVE  ReleaseInv'
<1> DEFINE d == rel[job[p].gen].digest
<1>1. d \in Digests
  BY Jobs DEF LoadImage, Release
<1>2. images' \in {images, images \cup {d}} /\ lost' = lost \ images'
  BY DEF LoadImage
<1>3. \/ job' = [job EXCEPT ![p].pc = "inspect"] /\ faults' = faults
      \/ job' = [job EXCEPT ![p] = Idle] /\ Fault
  BY DEF LoadImage
<1>4. faults' \in 0..MaxFaults
  BY <1>3, FaultCount DEF ReleaseInv, TypeOK
<1>5. job' \in [Publishers -> [pc: {"idle", "verify", "load", "inspect", "mark"},
                               gen: 0..MaxGenerations]]
  BY <1>3, IdleJob DEF ReleaseInv, TypeOK
<1>6. \A q \in Publishers :
         \/ job'[q].pc = "idle"
         \/ /\ job[q].pc # "idle" /\ job'[q].gen = job[q].gen
            /\ job'[q].pc = "mark" => job[q].pc = "mark"
  BY <1>3 DEF ReleaseInv, TypeOK, Idle, LoadImage
<1>7. images' \subseteq Digests /\ lost' \subseteq Digests /\ images \cup lost \subseteq images' \cup lost'
  BY <1>1, <1>2 DEF ReleaseInv, TypeOK
<1>8. rel' = rel /\ known' \subseteq known /\ up' \in BOOLEAN /\ removals' \in 0..MaxRemovals
      /\ restarts' \in 0..MaxRestarts
  BY DEF LoadImage, startVars, ReleaseInv, TypeOK
<1> QED
  BY <1>4, <1>5, <1>6, <1>7, <1>8, SameTable

LEMMA AcquireInv ==
  ASSUME ReleaseInv, NEW p \in Publishers, AcquireDockerArtifact(p)
  PROVE  ReleaseInv'
<1>1. \/ job' = [job EXCEPT ![p].pc = "mark"] /\ faults' = faults /\ Seen(job[p].gen)'
      \/ job' = [job EXCEPT ![p] = Idle] /\ (faults' = faults \/ Fault)
  BY Jobs DEF AcquireDockerArtifact, Inspected, Seen, dockerVars
<1>2. faults' \in 0..MaxFaults
  BY <1>1, FaultCount DEF ReleaseInv, TypeOK
<1>3. job' \in [Publishers -> [pc: {"idle", "verify", "load", "inspect", "mark"},
                               gen: 0..MaxGenerations]]
  BY <1>1, IdleJob DEF ReleaseInv, TypeOK
<1>4. \A q \in Publishers :
         \/ job'[q].pc = "idle"
         \/ /\ job[q].pc # "idle" /\ job'[q].gen = job[q].gen
            /\ job'[q].pc = "mark" => job[q].pc = "mark" \/ Seen(job[q].gen)'
  <2>1. CASE job' = [job EXCEPT ![p].pc = "mark"] /\ Seen(job[p].gen)'
    <3> SUFFICES ASSUME NEW q \in Publishers
                 PROVE  \/ job'[q].pc = "idle"
                        \/ /\ job[q].pc # "idle" /\ job'[q].gen = job[q].gen
                           /\ job'[q].pc = "mark" => job[q].pc = "mark" \/ Seen(job[q].gen)'
      OBVIOUS
    <3>1. CASE q = p
      BY <2>1, <3>1 DEF ReleaseInv, TypeOK, AcquireDockerArtifact
    <3>2. CASE q # p
      BY <2>1, <3>2 DEF ReleaseInv, TypeOK
    <3> QED
      BY <3>1, <3>2
  <2>2. CASE job' = [job EXCEPT ![p] = Idle]
    BY <2>2 DEF ReleaseInv, TypeOK, Idle
  <2> QED
    BY <1>1, <2>1, <2>2
<1>5. /\ rel' = rel /\ known' \subseteq known /\ up' \in BOOLEAN /\ removals' \in 0..MaxRemovals
      /\ restarts' \in 0..MaxRestarts /\ images' = images /\ lost' = lost
  BY DEF AcquireDockerArtifact, startVars, dockerVars, ReleaseInv, TypeOK
<1>6. images' \subseteq Digests /\ lost' \subseteq Digests
  BY <1>5 DEF ReleaseInv, TypeOK
<1> QED
  BY <1>2, <1>3, <1>4, <1>5, <1>6, SameTable

LEMMA MarkInv ==
  ASSUME ReleaseInv, NEW p \in Publishers, MarkAvailable(p)
  PROVE  ReleaseInv'
<1> DEFINE n == job[p].gen
<1>1. n \in DOMAIN rel /\ rel[n] \in Release /\ job[p].pc = "mark" /\ Seen(n)
  BY Jobs DEF MarkAvailable, ReleaseInv, ImagesSeen
<1>2. rel' = [rel EXCEPT ![n].avail = TRUE] /\ job' = [job EXCEPT ![p] = Idle]
      /\ known' = known \cup {n}
  BY DEF MarkAvailable
<1>3. Updated(rel') /\ \A g \in DOMAIN rel : rel'[g].state = rel[g].state
  BY <1>1, <1>2, Table DEF Updated, Release, ReleaseInv, TypeOK
<1>4. rel' \in Seq(Release) /\ Len(rel') = Len(rel) /\ DigestsUnique'
  BY <1>2, <1>3, UpdatedRows DEF ReleaseInv
<1>5. n \in 1..MaxGenerations
  BY <1>1, Table, ReleaseAssumption DEF ReleaseInv, TypeOK
<1>6. job' \in [Publishers -> [pc: {"idle", "verify", "load", "inspect", "mark"},
                               gen: 0..MaxGenerations]]
  BY <1>2, IdleJob DEF ReleaseInv, TypeOK
<1>7. known' \subseteq 1..MaxGenerations
  BY <1>2, <1>5 DEF ReleaseInv, TypeOK
<1>8. TypeOK'
  BY <1>4, <1>6, <1>7 DEF ReleaseInv, TypeOK, MarkAvailable, dockerVars, startVars
<1>9. \A q \in Publishers : job'[q] = job[q] \/ job'[q].pc = "idle"
  BY <1>2 DEF ReleaseInv, TypeOK, Idle
<1>10. JobsNamed'
  BY <1>3, <1>9 DEF ReleaseInv, JobsNamed, Updated
<1>11. ActiveIsOne' /\ PassedPolicy'
  BY <1>3 DEF ReleaseInv, ActiveIsOne, PassedPolicy, CheckRequirements, Updated
<1>12. \A g \in DOMAIN rel : g # n => rel'[g].avail = rel[g].avail
  BY <1>2
<1>13. images' = images /\ lost' = lost
  BY DEF MarkAvailable, dockerVars
<1>14. \A g \in DOMAIN rel : Seen(g)' <=> Seen(g)
  BY <1>3, <1>13 DEF Seen, Updated
<1>15. \A g \in known' : g \in DOMAIN rel' /\ (rel'[g].avail => Seen(g)')
  BY <1>1, <1>2, <1>3, <1>12, <1>14 DEF ReleaseInv, ImagesSeen, Updated
<1>16. (\A q \in Publishers : job[q].pc = "mark" => Seen(job[q].gen))'
  BY <1>9, <1>14 DEF ReleaseInv, ImagesSeen, JobsNamed, Seen
<1>17. ImagesSeen'
  BY <1>15, <1>16 DEF ImagesSeen
<1> QED
  BY <1>8, <1>10, <1>11, <1>17 DEF ReleaseInv

-----------------------------------------------------------------------------
(* Promotion and rollback.                                                 *)

\* Both retire the active release of the type and activate another that is
\* available and has passed its policy.
LEMMA ActivateInv ==
  ASSUME ReleaseInv, NEW g \in DOMAIN rel, NEW retiredState \in {"superseded", "rolled_back"},
         rel[g].state # "candidate", Activate(g, retiredState),
         UNCHANGED <<dockerVars, job, startVars, known, faults>>
  PROVE  ReleaseInv'
<1>1. /\ DOMAIN rel' = DOMAIN rel /\ rel' = [h \in DOMAIN rel' |-> rel'[h]]
      /\ rel'[g] = [Retired(g, retiredState)[g] EXCEPT !.state = "active"]
      /\ \A h \in DOMAIN rel : h # g => rel'[h] = Retired(g, retiredState)[h]
  BY DEF Activate, Retired
<1>2. \A h \in DOMAIN rel : rel[h] \in Release
  BY Table DEF ReleaseInv, TypeOK
<1>3. \A h \in DOMAIN rel : Retired(g, retiredState)[h] =
         IF rel[h].type = rel[g].type /\ rel[h].state = "active"
           THEN [rel[h] EXCEPT !.state = retiredState] ELSE rel[h]
  BY DEF Retired, ActiveOf
<1>4. \A h \in DOMAIN rel : Retired(g, retiredState)[h] \in Release
  BY <1>2, <1>3 DEF Release, States
<1>5. \A h \in DOMAIN rel :
         /\ rel'[h] \in Release /\ rel'[h].avail = rel[h].avail
         /\ rel'[h].type = rel[h].type /\ rel'[h].digest = rel[h].digest
         /\ rel'[h].platform = rel[h].platform /\ rel'[h].complete = rel[h].complete
         /\ rel'[h].state = IF h = g THEN "active"
                            ELSE IF rel[h].type = rel[g].type /\ rel[h].state = "active"
                                 THEN retiredState ELSE rel[h].state
  <2> SUFFICES ASSUME NEW h \in DOMAIN rel
               PROVE  /\ rel'[h] \in Release /\ rel'[h].avail = rel[h].avail
                      /\ rel'[h].type = rel[h].type /\ rel'[h].digest = rel[h].digest
                      /\ rel'[h].platform = rel[h].platform /\ rel'[h].complete = rel[h].complete
                      /\ rel'[h].state = IF h = g THEN "active"
                                         ELSE IF rel[h].type = rel[g].type /\ rel[h].state = "active"
                                              THEN retiredState ELSE rel[h].state
    OBVIOUS
  <2> DEFINE u == Retired(g, retiredState)[h]
  <2>1. retiredState \in States /\ "active" \in States
    BY DEF States
  <2>2. /\ u \in Release /\ u.avail = rel[h].avail /\ u.type = rel[h].type
        /\ u.digest = rel[h].digest /\ u.platform = rel[h].platform /\ u.complete = rel[h].complete
        /\ u.state = IF rel[h].type = rel[g].type /\ rel[h].state = "active"
                       THEN retiredState ELSE rel[h].state
    <3>1. rel[h] \in Release
      BY <1>2
    <3>2. CASE rel[h].type = rel[g].type /\ rel[h].state = "active"
      <4>1. u = [rel[h] EXCEPT !.state = retiredState]
        BY <1>3, <3>2
      <4> HIDE DEF u
      <4> QED
        BY <2>1, <3>1, <3>2, <4>1, StateRow
    <3>3. CASE ~(rel[h].type = rel[g].type /\ rel[h].state = "active")
      <4>1. u = rel[h]
        BY <1>3, <3>3
      <4> HIDE DEF u
      <4> QED
        BY <3>1, <3>3, <4>1
    <3> QED
      BY <3>2, <3>3
  <2>3. CASE h = g
    <3>1. rel'[h] = [u EXCEPT !.state = "active"]
      BY <1>1, <2>3
    <3> HIDE DEF u
    <3> QED
      BY <2>1, <2>2, <2>3, <3>1, StateRow
  <2>4. CASE h # g
    BY <1>1, <2>2, <2>4
  <2> QED
    BY <2>3, <2>4
<1>6. Updated(rel')
  BY <1>1, <1>5 DEF Updated
<1>7. rel' \in Seq(Release) /\ Len(rel') = Len(rel) /\ DigestsUnique'
  BY <1>1, <1>6, UpdatedRows DEF ReleaseInv
<1>8. TypeOK'
  BY <1>7 DEF ReleaseInv, TypeOK, dockerVars, startVars
<1>9. JobsNamed'
  BY <1>6 DEF ReleaseInv, JobsNamed, Updated
<1>10. ActiveIsOne'
  BY <1>1, <1>5 DEF ReleaseInv, ActiveIsOne
<1>11. \A h \in DOMAIN rel : CheckRequirements(rel[h]) => CheckRequirements(rel'[h])
  BY <1>5 DEF CheckRequirements
<1>12. \A h \in DOMAIN rel : rel'[h].state # "candidate" => rel[h].state # "candidate"
  BY <1>5
<1>13. PassedPolicy'
  BY <1>1, <1>11, <1>12 DEF ReleaseInv, PassedPolicy
<1>14. ImagesSeen'
  BY <1>1, <1>5 DEF ReleaseInv, ImagesSeen, JobsNamed, Seen, dockerVars
<1> QED
  BY <1>8, <1>9, <1>10, <1>13, <1>14 DEF ReleaseInv

LEMMA PromoteInv ==
  ASSUME ReleaseInv, NEW g, HandleReleasePromote(g) \/ HandleReleaseRollback(g)
  PROVE  ReleaseInv'
<1>1. CASE HandleReleasePromote(g)
  BY <1>1, ActivateInv DEF HandleReleasePromote, Promote
<1>2. CASE HandleReleaseRollback(g)
  BY <1>2, ActivateInv DEF HandleReleaseRollback, Rollback
<1> QED
  BY <1>1, <1>2

-----------------------------------------------------------------------------
(* Docker and restarts.                                                    *)

LEMMA RemoveInv == ASSUME ReleaseInv, NEW d \in Digests, RemoveImage(d) PROVE ReleaseInv'
<1>1. images' \subseteq Digests /\ lost' \subseteq Digests /\ images \cup lost \subseteq images' \cup lost'
  BY DEF RemoveImage, ReleaseInv, TypeOK
<1>2. removals' \in 0..MaxRemovals
  BY ReleaseAssumption DEF RemoveImage, ReleaseInv, TypeOK
<1>3. /\ rel' = rel /\ job' = job /\ known' = known /\ up' = up /\ restarts' = restarts
      /\ faults' = faults
  BY DEF RemoveImage, startVars
<1>4. /\ job' \in [Publishers -> [pc: {"idle", "verify", "load", "inspect", "mark"},
                                  gen: 0..MaxGenerations]]
      /\ known' \subseteq known /\ up' \in BOOLEAN /\ restarts' \in 0..MaxRestarts
      /\ faults' \in 0..MaxFaults
  BY <1>3 DEF ReleaseInv, TypeOK
<1> QED
  BY <1>1, <1>2, <1>3, <1>4, SameTable

LEMMA RestartInv == ASSUME ReleaseInv, Restart PROVE ReleaseInv'
<1>1. \A p \in Publishers : job'[p].pc = "idle"
  BY DEF Restart, Idle
<1>2. job' \in [Publishers -> [pc: {"idle", "verify", "load", "inspect", "mark"},
                               gen: 0..MaxGenerations]]
  BY IdleJob DEF Restart
<1>3. restarts' \in 0..MaxRestarts
  BY ReleaseAssumption DEF Restart, ReleaseInv, TypeOK
<1>4. TypeOK'
  BY <1>2, <1>3 DEF Restart, ReleaseInv, TypeOK, DigestsUnique
<1>5. JobsNamed' /\ ActiveIsOne' /\ PassedPolicy'
  BY <1>1 DEF Restart, ReleaseInv, JobsNamed, ActiveIsOne, PassedPolicy, CheckRequirements
<1>6. ImagesSeen'
  BY <1>1 DEF Restart, ImagesSeen
<1> QED
  BY <1>4, <1>5, <1>6 DEF ReleaseInv

LEMMA ReconcileInv == ASSUME ReleaseInv, Reconcile PROVE ReleaseInv'
<1>1. PICK done \in SUBSET Active :
         /\ faults' = faults \/ Fault
         /\ known' = done
         /\ rel' = [g \in DOMAIN rel |-> IF g \in done THEN Recheck(g) ELSE rel[g]]
  BY DEF Reconcile
<1>2. \A g \in DOMAIN rel : rel[g] \in Release
  BY Table DEF ReleaseInv, TypeOK
<1>3. Updated(rel') /\ \A g \in DOMAIN rel : rel'[g].state = rel[g].state
  <2>1. \A g \in DOMAIN rel : (rel[g].digest \in images) \in BOOLEAN
    OBVIOUS
  <2>2. \A g \in DOMAIN rel :
           /\ Recheck(g) \in Release /\ Recheck(g).state = rel[g].state
           /\ Recheck(g).type = rel[g].type /\ Recheck(g).digest = rel[g].digest
           /\ Recheck(g).platform = rel[g].platform /\ Recheck(g).complete = rel[g].complete
    BY <1>2, <2>1, AvailRow DEF Recheck
  <2> QED
    BY <1>1, <1>2, <2>2 DEF Updated
<1>4. rel' \in Seq(Release) /\ Len(rel') = Len(rel) /\ DigestsUnique'
  BY <1>1, <1>3, UpdatedRows DEF ReleaseInv
<1>5. faults' \in 0..MaxFaults
  BY <1>1, FaultCount DEF ReleaseInv, TypeOK
<1>6. done \subseteq DOMAIN rel /\ DOMAIN rel \subseteq 1..MaxGenerations
  BY Table, ReleaseAssumption DEF Active, ReleaseInv, TypeOK
<1>7. TypeOK'
  BY <1>1, <1>4, <1>5, <1>6 DEF Reconcile, ReleaseInv, TypeOK, dockerVars
<1>8. JobsNamed' /\ ActiveIsOne' /\ PassedPolicy'
  BY <1>3 DEF Reconcile, ReleaseInv, JobsNamed, ActiveIsOne, PassedPolicy, CheckRequirements, Updated
<1>9. images' = images /\ lost' = lost /\ job' = job
  BY DEF Reconcile, dockerVars
<1>10. \A g \in known' : g \in DOMAIN rel' /\ (rel'[g].avail => Seen(g)')
  BY <1>1, <1>2, <1>3, <1>6, <1>9 DEF Recheck, Seen, Updated, Release
<1>11. (\A p \in Publishers : job[p].pc = "mark" => Seen(job[p].gen))'
  BY <1>3, <1>9 DEF ReleaseInv, ImagesSeen, JobsNamed, Seen, Updated
<1>12. ImagesSeen'
  BY <1>10, <1>11 DEF ImagesSeen
<1> QED
  BY <1>7, <1>8, <1>12 DEF ReleaseInv

-----------------------------------------------------------------------------
(* The theorems.                                                           *)

LEMMA InitReleaseInv == Init => ReleaseInv
<1> SUFFICES ASSUME Init PROVE ReleaseInv
  OBVIOUS
<1>1. rel \in Seq(Release) /\ Len(rel) = 0 /\ DOMAIN rel = {}
  BY EmptySeq DEF Init
<1>2. job \in [Publishers -> [pc: {"idle", "verify", "load", "inspect", "mark"},
                              gen: 0..MaxGenerations]]
  BY IdleJob DEF Init
<1>3. TypeOK
  BY <1>1, <1>2, ReleaseAssumption DEF Init, TypeOK, DigestsUnique
<1> QED
  BY <1>1, <1>3 DEF Init, Idle, ReleaseInv, JobsNamed, ActiveIsOne, PassedPolicy, ImagesSeen

LEMMA NextReleaseInv == ReleaseInv /\ [Next]_vars => ReleaseInv'
<1> SUFFICES ASSUME ReleaseInv, [Next]_vars PROVE ReleaseInv'
  OBVIOUS
<1>1. CASE \E p \in Publishers : \/ HandleReleasePublish(p) \/ VerifyRelease(p) \/ LoadImage(p)
                                 \/ AcquireDockerArtifact(p) \/ MarkAvailable(p)
  BY <1>1, PublishInv, VerifyInv, LoadInv, AcquireInv, MarkInv
<1>2. CASE \E g \in 1..MaxGenerations : HandleReleasePromote(g) \/ HandleReleaseRollback(g)
  BY <1>2, PromoteInv
<1>3. CASE \E d \in Digests : RemoveImage(d)
  BY <1>3, RemoveInv
<1>4. CASE Restart \/ Reconcile
  BY <1>4, RestartInv, ReconcileInv
<1>5. CASE UNCHANGED vars
  BY <1>5 DEF vars, ReleaseInv, TypeOK, DigestsUnique, JobsNamed, ActiveIsOne, PassedPolicy,
     CheckRequirements, ImagesSeen, Seen
<1> QED
  BY <1>1, <1>2, <1>3, <1>4, <1>5 DEF Next

LEMMA ReleaseInvariant == Spec => []ReleaseInv
  BY InitReleaseInv, NextReleaseInv, PTL DEF Spec

\* Every reachable state of the release table, of Docker and of publications
\* has the shape TypeOK states; no two releases of a type share an image.
THEOREM ReleaseTypeCorrect == Spec => []TypeOK
<1>1. ReleaseInv => TypeOK
  BY DEF ReleaseInv
<1> QED
  BY <1>1, ReleaseInvariant, PTL

\* However promotions, rollbacks and publications are interleaved, an agent type
\* has at most one active release (Promote and Rollback of release.go).
THEOREM AtMostOneActive == Spec => []OneActive
<1>1. ReleaseInv => OneActive
  <2> SUFFICES ASSUME ReleaseInv, NEW t \in AgentTypes PROVE Cardinality(ActiveOf(t)) <= 1
    BY DEF OneActive
  <2>1. \A g, h \in ActiveOf(t) : g = h
    BY DEF ReleaseInv, ActiveIsOne, ActiveOf
  <2>2. ActiveOf(t) = {} \/ \E g : ActiveOf(t) = {g}
    BY <2>1
  <2>3. CASE ActiveOf(t) = {}
    <3>1. Cardinality(ActiveOf(t)) = 0
      BY <2>3, FS_EmptySet
    <3> QED
      BY <3>1
  <2>4. ASSUME NEW g, ActiveOf(t) = {g} PROVE Cardinality(ActiveOf(t)) <= 1
    <3>1. Cardinality({g}) = 1
      BY FS_Singleton
    <3> QED
      BY <2>4, <3>1
  <2> QED
    BY <2>2, <2>3, <2>4
<1> QED
  BY <1>1, ReleaseInvariant, PTL

\* A release that is or was active had met the policy of its agent type: every
\* way to the active state leads through VerifyAndMarkAvailable.
THEOREM VerifiedBeforeActive == Spec => []OnlyVerifiedRuns
<1>1. ReleaseInv => OnlyVerifiedRuns
  BY DEF ReleaseInv, PassedPolicy, CheckRequirements, OnlyVerifiedRuns
<1> QED
  BY <1>1, ReleaseInvariant, PTL

\* What Resolve hands a launch, of the releases looked at since the startup, is
\* an image Docker has or that was removed since.
THEOREM ResolvedImages == Spec => []ResolvedIsPresent
<1>1. ReleaseInv => ResolvedIsPresent
  BY DEF ReleaseInv, ImagesSeen, Seen, ResolvedIsPresent, Resolve
<1> QED
  BY <1>1, ReleaseInvariant, PTL
=============================================================================
