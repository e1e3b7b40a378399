------------------------- MODULE KeylessRunsProofs -------------------------
(***************************************************************************)
(* Proofs about the runs launched without an Idempotency-Key: the slots of *)
(* the launch profile, the terminal results and the retention commands.    *)
(***************************************************************************)
EXTENDS KeylessRuns, FiniteSetTheorems, SequenceTheorems, TLAPS

Names == {"input", "work", "metadata", "manifest"} \cup Outputs
MetaRecord == [status: {"none", "running"} \cup Ended, ended: Nat]
FinRecord == [at: {"none", "publish", "file"}, meta: MetaRecord]
SealRecord == [status: {"none"} \cup Ended, outcome: {"none", "ready"} \cup Ended]
Calls == {"new", "slot", "prepared", "created", "started", "recorded", "published", "failed", "done"}

KeylessType ==
    /\ files \in [Runs -> SUBSET Names]
    /\ disk \in [Runs -> MetaRecord]
    /\ sealed \in [Runs -> SealRecord]
    /\ mem \in [Runs -> {"none", "running"} \cup Ended]
    /\ ctr \in [Runs -> {"none", "created", "running", "exited"}]
    /\ call \in [Runs -> Calls]
    /\ fin \in [Runs -> FinRecord]
    /\ boot \subseteq Runs /\ reduced \subseteq Runs /\ clock \in Nat

\* The launch has published the run or is over.
Late == {"published", "done"}

\* The run counts against the limit of its profile.
Holds(r) == InFlight(r) \/ mem[r] = "running"

\* A restart would find the run running.
Revivable(r) == disk[r].status = "running" /\ ctr[r] = "running" /\ sealed[r].status # "timed_out"

Concluded(r) == fin[r] # NoFin \/ call[r] = "failed" \/ mem[r] \in Ended \/ disk[r].status \in Ended

RunInv(r) ==
    /\ call[r] \notin Late => mem[r] = "none" /\ fin[r] = NoFin /\ disk[r].status \notin Ended
    /\ call[r] \notin Late \cup {"recorded"} => disk[r].status = "none"
    /\ fin[r] # NoFin => fin[r].at # "none" /\ fin[r].meta.status \in Ended /\ ~Revivable(r)
    /\ disk[r].status # "none" => "metadata" \in files[r]
    /\ r \notin boot => (Revivable(r) => Holds(r)) /\ (Concluded(r) => sealed[r] # NoSeal \/ r \in reduced)
    /\ r \in boot => mem[r] = "none" /\ fin[r] = NoFin /\ ~InFlight(r)

\* What a command's list still says of a run when its turn comes.
Doable(r) == call[r] \in Late /\ (files[r] # {} => disk[r].status \in Ended)

\* A command that is running.
IsJob(j) ==
    \E c, b, z, f, d, a : \E t \in Seq(Runs) :
        j = [cmd |-> c, budget |-> b, size |-> z, failed |-> f, deleted |-> d, at |-> a, todo |-> t]

JobInv == job # NoJob => IsJob(job) /\ \A i \in 1..Len(job.todo) : Doable(job.todo[i])

\* The runs that count now or would after a restart.
Slots == {r \in Runs : Holds(r) \/ Revivable(r)}

KeylessInv ==
    /\ KeylessType /\ JobInv
    /\ \A r \in Runs : RunInv(r)
    /\ Cardinality(Slots) <= MaxConcurrent

-----------------------------------------------------------------------------
(* One run changes at a time.                                              *)

Same(q) ==
    /\ files'[q] = files[q] /\ disk'[q] = disk[q] /\ sealed'[q] = sealed[q] /\ mem'[q] = mem[q]
    /\ ctr'[q] = ctr[q] /\ call'[q] = call[q] /\ fin'[q] = fin[q]

LEMMA SameRun ==
  ASSUME NEW q \in Runs, Same(q), boot' = boot, reduced \subseteq reduced', RunInv(q)
  PROVE  /\ RunInv(q)' /\ (Doable(q) => Doable(q)')
         /\ Holds(q)' \/ Revivable(q)' => Holds(q) \/ Revivable(q)
  BY DEF Same, RunInv, Doable, Holds, Revivable, InFlight, Concluded

LEMMA SlotsFinite ==
  /\ IsFiniteSet(Slots) /\ IsFiniteSet(Slots')
  /\ Cardinality(Slots) \in Nat /\ Cardinality(Slots') \in Nat
<1>1. Slots \subseteq Runs /\ Slots' \subseteq Runs
  BY DEF Slots
<1>2. IsFiniteSet(Slots) /\ IsFiniteSet(Slots')
  BY <1>1, KeylessAssumption, FS_Subset
<1> QED
  BY <1>2, FS_CardinalityType

LEMMA FewerSlots ==
  ASSUME Cardinality(Slots) <= MaxConcurrent, Slots' \subseteq Slots
  PROVE  Cardinality(Slots') <= MaxConcurrent
<1>1. Cardinality(Slots') <= Cardinality(Slots)
  BY SlotsFinite, FS_Subset
<1> QED
  BY <1>1, SlotsFinite, KeylessAssumption

\* A step on one run that takes no new slot.
LEMMA OneRun ==
  ASSUME KeylessInv, KeylessType', NEW r \in Runs, \A q \in Runs : q # r => Same(q),
         boot' = boot, reduced \subseteq reduced', job' = job,
         RunInv(r)', Doable(r) => Doable(r)', Holds(r)' \/ Revivable(r)' => Holds(r) \/ Revivable(r)
  PROVE  KeylessInv'
<1>1. \A q \in Runs : RunInv(q)' /\ (Doable(q) => Doable(q)')
                      /\ (Holds(q)' \/ Revivable(q)' => Holds(q) \/ Revivable(q))
  BY SameRun DEF KeylessInv
<1>2. Slots' \subseteq Slots
  BY <1>1 DEF Slots
<1>3. Cardinality(Slots') <= MaxConcurrent
  BY <1>2, FewerSlots DEF KeylessInv
<1>4. JobInv'
  <2> SUFFICES ASSUME job # NoJob
               PROVE  IsJob(job) /\ \A i \in 1..Len(job.todo) : Doable(job.todo[i])'
    BY DEF JobInv
  <2>1. IsJob(job) /\ \A i \in 1..Len(job.todo) : Doable(job.todo[i])
    BY DEF KeylessInv, JobInv
  <2>2. job.todo \in Seq(Runs)
    BY <2>1 DEF IsJob
  <2>3. \A i \in 1..Len(job.todo) : job.todo[i] \in Runs
    BY <2>2
  <2> QED
    BY <1>1, <2>1, <2>3 DEF Doable
<1> QED
  BY <1>1, <1>3, <1>4 DEF KeylessInv

LEMMA RunTypes ==
  ASSUME KeylessType, NEW r \in Runs
  PROVE  /\ files[r] \in SUBSET Names /\ disk[r] \in MetaRecord /\ sealed[r] \in SealRecord
         /\ mem[r] \in {"none", "running"} \cup Ended /\ call[r] \in Calls /\ fin[r] \in FinRecord
         /\ ctr[r] \in {"none", "created", "running", "exited"}
  BY DEF KeylessType

LEMMA Metas ==
  ASSUME KeylessType, NEW s \in {"none", "running"} \cup Ended
  PROVE  /\ Meta(s) \in MetaRecord /\ Meta(s).status = s /\ NoMeta \in MetaRecord /\ NoMeta.status = "none"
         /\ NoFin \in FinRecord /\ NoSeal \in SealRecord
         /\ [status |-> "running", ended |-> 0] \in MetaRecord
         /\ [status |-> "failed", outcome |-> "failed"] \in SealRecord
         /\ [status |-> "failed", outcome |-> "failed"] # NoSeal
<1>1. clock \in Nat
  BY DEF KeylessType
<1>2. NoMeta \in MetaRecord /\ NoMeta.status = "none"
  BY DEF NoMeta, MetaRecord
<1>3. Meta(s) \in MetaRecord /\ Meta(s).status = s
  BY <1>1 DEF Meta, MetaRecord
<1>4. NoFin \in FinRecord
  BY <1>2 DEF NoFin, FinRecord
<1>5. NoSeal \in SealRecord
  BY DEF NoSeal, SealRecord, Ended
<1>6. [status |-> "running", ended |-> 0] \in MetaRecord
  BY DEF MetaRecord
<1>7. [status |-> "failed", outcome |-> "failed"] \in SealRecord
      /\ [status |-> "failed", outcome |-> "failed"] # NoSeal
  BY DEF SealRecord, Ended, NoSeal
<1> QED
  BY <1>2, <1>3, <1>4, <1>5, <1>6, <1>7

LEMMA Projected ==
  ASSUME NEW s \in Ended, NEW fs
  PROVE  Project(s, fs) \in SealRecord /\ Project(s, fs).status = s /\ Project(s, fs) # NoSeal
<1>1. FallbackOutcome(s) \in Ended
  BY DEF FallbackOutcome, Ended
<1>2. Project(s, fs) \in SealRecord /\ Project(s, fs).status = s
  BY <1>1 DEF Project, SealRecord
<1>3. NoSeal.status = "none" /\ "none" \notin Ended
  BY DEF NoSeal, Ended
<1> QED
  BY <1>2, <1>3

-----------------------------------------------------------------------------
(* The steps of a launch.                                                  *)

LEMMA AcquireInv == ASSUME KeylessInv, NEW r \in Runs, AcquireProfileSlot(r) PROVE KeylessInv'
<1>1. /\ boot = {} /\ call[r] = "new" /\ SlotsTaken < MaxConcurrent /\ call' = [call EXCEPT ![r] = "slot"]
      /\ files' = files /\ disk' = disk /\ sealed' = sealed /\ mem' = mem /\ ctr' = ctr /\ fin' = fin
      /\ boot' = boot /\ job' = job /\ reduced' = reduced /\ clock' = clock
  BY DEF AcquireProfileSlot, store, up
<1>2. KeylessType /\ RunInv(r)
  BY DEF KeylessInv
<1>3. call' \in [Runs -> Calls] /\ call'[r] = "slot" /\ \A q \in Runs : q # r => call'[q] = call[q]
  BY <1>1, <1>2 DEF KeylessType, Calls
<1>4. KeylessType'
  BY <1>1, <1>2, <1>3 DEF KeylessType
<1>5. RunInv(r)' /\ ~Doable(r)
  BY <1>1, <1>2, <1>3 DEF RunInv, Revivable, Holds, InFlight, Concluded, Late, Doable
<1>6. \A q \in Runs : q # r => RunInv(q)' /\ (Doable(q) => Doable(q)')
                               /\ (Holds(q)' \/ Revivable(q)' => Holds(q) \/ Revivable(q))
  BY <1>1, <1>3, SameRun DEF KeylessInv, Same
<1>7. JobInv'
  <2> SUFFICES ASSUME job # NoJob
               PROVE  IsJob(job) /\ \A i \in 1..Len(job.todo) : Doable(job.todo[i])'
    BY <1>1 DEF JobInv
  <2>1. IsJob(job) /\ \A i \in 1..Len(job.todo) : Doable(job.todo[i])
    BY DEF KeylessInv, JobInv
  <2>2. job.todo \in Seq(Runs)
    BY <2>1 DEF IsJob
  <2>3. \A i \in 1..Len(job.todo) : job.todo[i] \in Runs
    BY <2>2
  <2> QED
    BY <1>1, <1>5, <1>6, <2>1, <2>3 DEF Doable
<1>8. Cardinality(Slots') <= MaxConcurrent
  <2> DEFINE A == {q \in Runs : mem[q] = "running"}
             B == {q \in Runs : InFlight(q)}
  <2>1. IsFiniteSet(A) /\ IsFiniteSet(B) /\ IsFiniteSet(A \cap B)
    BY KeylessAssumption, FS_Subset
  <2>2. Slots \subseteq A \cup B
    BY <1>1 DEF Slots, KeylessInv, RunInv, Holds
  <2>3. SlotsTaken = Cardinality(A) + Cardinality(B)
    BY DEF SlotsTaken
  <2> HIDE DEF A, B
  <2>4. IsFiniteSet(A \cup B) /\ Cardinality(A \cup B) = Cardinality(A) + Cardinality(B) - Cardinality(A \cap B)
    BY <2>1, FS_Union
  <2>5. Cardinality(A) \in Nat /\ Cardinality(B) \in Nat /\ Cardinality(A \cap B) \in Nat
    BY <2>1, FS_CardinalityType
  <2>6. Cardinality(Slots) <= Cardinality(A \cup B)
    BY <2>2, <2>4, FS_Subset
  <2>7. Cardinality(Slots) < MaxConcurrent
    BY <1>1, <2>3, <2>4, <2>5, <2>6, SlotsFinite, KeylessAssumption
  <2>8. Slots' \subseteq Slots \cup {r}
    BY <1>6 DEF Slots
  <2>9. IsFiniteSet(Slots \cup {r}) /\ Cardinality(Slots \cup {r}) <= Cardinality(Slots) + 1
    <3>0. PICK n \in Nat : n = Cardinality(Slots)
      BY SlotsFinite
    <3>1. CASE r \in Slots
      <4>1. Slots \cup {r} = Slots
        BY <3>1
      <4>2. n <= n + 1
        OBVIOUS
      <4> QED
        BY <3>0, <4>1, <4>2, SlotsFinite
    <3>2. CASE r \notin Slots
      <4>1. IsFiniteSet(Slots \cup {r}) /\ Cardinality(Slots \cup {r}) = Cardinality(Slots) + 1
        BY <3>2, SlotsFinite, FS_AddElement
      <4> QED
        BY <3>0, <4>1
    <3> QED
      BY <3>1, <3>2
  <2>10. Cardinality(Slots') <= Cardinality(Slots \cup {r})
    BY <2>8, <2>9, FS_Subset
  <2>11. Cardinality(Slots \cup {r}) \in Nat
    BY <2>9, FS_CardinalityType
  <2> QED
    BY <2>7, <2>9, <2>10, <2>11, SlotsFinite, KeylessAssumption
<1> QED
  BY <1>4, <1>5, <1>6, <1>7, <1>8 DEF KeylessInv

LEMMA PrepareInv == ASSUME KeylessInv, NEW r \in Runs, PrepareRun(r) PROVE KeylessInv'
<1>1. /\ boot = {} /\ call[r] = "slot" /\ files' = [files EXCEPT ![r] = {"input", "work"}]
      /\ disk' = disk /\ sealed' = sealed /\ mem' = mem /\ ctr' = ctr /\ fin' = fin
      /\ boot' = boot /\ job' = job /\ reduced' = reduced /\ clock' = clock
  BY DEF PrepareRun, up
<1>2. PICK c \in {"prepared", "done"} : call' = [call EXCEPT ![r] = c]
  BY DEF PrepareRun
<1>3. KeylessType /\ RunInv(r)
  BY DEF KeylessInv
<1>4. call' \in [Runs -> Calls] /\ call'[r] = c /\ \A q \in Runs : q # r => call'[q] = call[q]
  BY <1>2, <1>3 DEF KeylessType, Calls
<1>5. files' \in [Runs -> SUBSET Names] /\ \A q \in Runs : q # r => files'[q] = files[q]
  BY <1>1, <1>3 DEF KeylessType, Names
<1>6. KeylessType'
  BY <1>1, <1>3, <1>4, <1>5 DEF KeylessType
<1>7. /\ RunInv(r)' /\ ~Doable(r)
      /\ Holds(r)' \/ Revivable(r)' => Holds(r) \/ Revivable(r)
  BY <1>1, <1>3, <1>4 DEF RunInv, Revivable, Holds, InFlight, Concluded, Late, Doable, Ended
<1>8. \A q \in Runs : q # r => Same(q)
  BY <1>1, <1>4, <1>5 DEF Same
<1> QED
  BY <1>1, <1>6, <1>7, <1>8, OneRun

\* Create and Start, and the result that a failure of either leaves.
LEMMA RuntimeInv ==
  ASSUME KeylessInv, NEW r \in Runs, RuntimeCreate(r) \/ RuntimeStart(r)
  PROVE  KeylessInv'
<1>1. /\ boot = {} /\ call[r] \in {"prepared", "created"}
      /\ files' = files /\ disk' = disk /\ mem' = mem /\ fin' = fin
      /\ boot' = boot /\ job' = job /\ reduced' = reduced /\ clock' = clock
  BY DEF RuntimeCreate, RuntimeStart, up
<1>2. KeylessType /\ RunInv(r)
  BY DEF KeylessInv
<1>3. CASE \E c \in {"created", "started"}, k \in {"created", "running"} :
             call' = [call EXCEPT ![r] = c] /\ ctr' = [ctr EXCEPT ![r] = k] /\ sealed' = sealed
  <2>1. PICK c \in {"created", "started"}, k \in {"created", "running"} :
          call' = [call EXCEPT ![r] = c] /\ ctr' = [ctr EXCEPT ![r] = k]
    BY <1>3
  <2>2. call' \in [Runs -> Calls] /\ call'[r] = c /\ \A q \in Runs : q # r => call'[q] = call[q]
    BY <1>2, <2>1 DEF KeylessType, Calls
  <2>3. /\ ctr' \in [Runs -> {"none", "created", "running", "exited"}]
        /\ \A q \in Runs : q # r => ctr'[q] = ctr[q]
    BY <1>2, <2>1 DEF KeylessType
  <2>4. KeylessType'
    BY <1>1, <1>2, <1>3, <2>2, <2>3 DEF KeylessType
  <2>5. /\ RunInv(r)' /\ ~Doable(r)
        /\ Holds(r)' \/ Revivable(r)' => Holds(r) \/ Revivable(r)
    BY <1>1, <1>2, <1>3, <2>2 DEF RunInv, Revivable, Holds, InFlight, Concluded, Late, Doable, Ended
  <2>6. \A q \in Runs : q # r => Same(q)
    BY <1>1, <1>3, <2>2, <2>3 DEF Same
  <2> QED
    BY <1>1, <2>4, <2>5, <2>6, OneRun
<1>4. CASE /\ call' = [call EXCEPT ![r] = "failed"] /\ ctr' = ctr
           /\ sealed' = [sealed EXCEPT ![r] = [status |-> "failed", outcome |-> "failed"]]
  <2> DEFINE s == [status |-> "failed", outcome |-> "failed"]
  <2>1. call' = [call EXCEPT ![r] = "failed"] /\ sealed' = [sealed EXCEPT ![r] = s]
    BY <1>4
  <2>2. s \in SealRecord /\ s # NoSeal
    BY <1>2, Metas
  <2> HIDE DEF s
  <2>3. call' \in [Runs -> Calls] /\ call'[r] = "failed" /\ \A q \in Runs : q # r => call'[q] = call[q]
    BY <1>2, <2>1 DEF KeylessType, Calls
  <2>4. sealed' \in [Runs -> SealRecord] /\ sealed'[r] = s /\ \A q \in Runs : q # r => sealed'[q] = sealed[q]
    BY <1>2, <2>1, <2>2 DEF KeylessType
  <2>5. KeylessType'
    BY <1>1, <1>2, <1>4, <2>3, <2>4 DEF KeylessType
  <2>6. /\ RunInv(r)' /\ ~Doable(r)
        /\ Holds(r)' \/ Revivable(r)' => Holds(r) \/ Revivable(r)
    BY <1>1, <1>2, <1>4, <2>2, <2>3, <2>4 DEF RunInv, Revivable, Holds, InFlight, Concluded, Late, Doable, Ended
  <2>7. \A q \in Runs : q # r => Same(q)
    BY <1>1, <1>4, <2>3, <2>4 DEF Same
  <2> QED
    BY <1>1, <2>5, <2>6, <2>7, OneRun
<1>5. CASE call' = [call EXCEPT ![r] = "done"] /\ ctr' = ctr /\ sealed' = sealed
  <2>1. call' \in [Runs -> Calls] /\ call'[r] = "done" /\ \A q \in Runs : q # r => call'[q] = call[q]
    BY <1>2, <1>5 DEF KeylessType, Calls
  <2>2. KeylessType'
    BY <1>1, <1>2, <1>5, <2>1 DEF KeylessType
  <2>3. /\ RunInv(r)' /\ ~Doable(r)
        /\ Holds(r)' \/ Revivable(r)' => Holds(r) \/ Revivable(r)
    BY <1>1, <1>2, <1>5, <2>1 DEF RunInv, Revivable, Holds, InFlight, Concluded, Late, Doable, Ended
  <2>4. \A q \in Runs : q # r => Same(q)
    BY <1>1, <1>5, <2>1 DEF Same
  <2> QED
    BY <1>1, <2>2, <2>3, <2>4, OneRun
<1> QED
  BY <1>3, <1>4, <1>5 DEF RuntimeCreate, RuntimeStart, SealFailure

\* A metadata file is written for r.
LEMMA Written ==
  ASSUME KeylessType, NEW r \in Runs, NEW m \in MetaRecord,
         files' = [files EXCEPT ![r] = @ \cup {"metadata"}], disk' = [disk EXCEPT ![r] = m]
  PROVE  /\ files' \in [Runs -> SUBSET Names] /\ "metadata" \in files'[r]
         /\ disk' \in [Runs -> MetaRecord] /\ disk'[r] = m
         /\ \A q \in Runs : q # r => files'[q] = files[q] /\ disk'[q] = disk[q]
<1>1. files[r] \cup {"metadata"} \in SUBSET Names
  BY DEF KeylessType, Names
<1>2. files \in [Runs -> SUBSET Names] /\ disk \in [Runs -> MetaRecord]
  BY DEF KeylessType
<1> QED
  BY <1>1, <1>2

LEMMA RecordFailureInv == ASSUME KeylessInv, NEW r \in Runs, RecordFailure(r) PROVE KeylessInv'
<1>1. /\ boot = {} /\ call[r] = "failed" /\ call' = [call EXCEPT ![r] = "done"]
      /\ sealed' = sealed /\ ctr' = ctr /\ fin' = fin
      /\ boot' = boot /\ job' = job /\ reduced' = reduced /\ clock' = clock
  BY DEF RecordFailure, up
<1>2. KeylessType /\ RunInv(r) /\ "failed" \in Ended
  BY DEF KeylessInv, Ended
<1>3. Meta("failed") \in MetaRecord /\ Meta("failed").status = "failed"
  BY <1>2, Metas
<1>4. /\ files' \in [Runs -> SUBSET Names] /\ disk' \in [Runs -> MetaRecord]
      /\ mem' \in [Runs -> {"none", "running"} \cup Ended]
      /\ \/ files'[r] = files[r] /\ disk'[r] = disk[r] /\ mem'[r] = mem[r]
         \/ "metadata" \in files'[r] /\ disk'[r].status = "failed" /\ mem'[r] = "failed"
      /\ \A q \in Runs : q # r => files'[q] = files[q] /\ disk'[q] = disk[q] /\ mem'[q] = mem[q]
  <2>1. CASE files' = files /\ disk' = disk /\ mem' = mem
    BY <1>2, <2>1 DEF KeylessType
  <2>2. CASE /\ files' = [files EXCEPT ![r] = @ \cup {"metadata"}] /\ disk' = [disk EXCEPT ![r] = Meta("failed")]
             /\ mem' = [mem EXCEPT ![r] = "failed"]
    <3>1. /\ mem' \in [Runs -> {"none", "running"} \cup Ended] /\ mem'[r] = "failed"
          /\ \A q \in Runs : q # r => mem'[q] = mem[q]
      BY <1>2, <2>2 DEF KeylessType
    <3> QED
      BY <1>2, <1>3, <2>2, <3>1, Written
  <2> QED
    BY <2>1, <2>2 DEF RecordFailure
<1>5. call' \in [Runs -> Calls] /\ call'[r] = "done" /\ \A q \in Runs : q # r => call'[q] = call[q]
  BY <1>1, <1>2 DEF KeylessType, Calls
<1>6. KeylessType'
  BY <1>1, <1>2, <1>4, <1>5 DEF KeylessType
<1>7. /\ RunInv(r)' /\ ~Doable(r)
      /\ Holds(r)' \/ Revivable(r)' => Holds(r) \/ Revivable(r)
  BY <1>1, <1>2, <1>4, <1>5 DEF RunInv, Revivable, Holds, InFlight, Concluded, Late, Doable, Ended
<1>8. \A q \in Runs : q # r => Same(q)
  BY <1>1, <1>4, <1>5 DEF Same
<1> QED
  BY <1>1, <1>6, <1>7, <1>8, OneRun

LEMMA RecordRunningInv == ASSUME KeylessInv, NEW r \in Runs, RecordRunning(r) PROVE KeylessInv'
<1>1. /\ boot = {} /\ call[r] = "started" /\ mem' = mem /\ sealed' = sealed /\ ctr' = ctr /\ fin' = fin
      /\ boot' = boot /\ job' = job /\ reduced' = reduced /\ clock' = clock
  BY DEF RecordRunning, up
<1>2. KeylessType /\ RunInv(r)
  BY DEF KeylessInv
<1>3. CASE /\ files' = [files EXCEPT ![r] = @ \cup {"metadata"}]
           /\ disk' = [disk EXCEPT ![r] = [status |-> "running", ended |-> 0]]
           /\ call' = [call EXCEPT ![r] = "recorded"]
  <2> DEFINE m == [status |-> "running", ended |-> 0]
  <2>1. m \in MetaRecord /\ m.status = "running"
    BY <1>2, Metas
  <2> HIDE DEF m
  <2>2. /\ files' \in [Runs -> SUBSET Names] /\ "metadata" \in files'[r]
        /\ disk' \in [Runs -> MetaRecord] /\ disk'[r].status = "running"
        /\ \A q \in Runs : q # r => files'[q] = files[q] /\ disk'[q] = disk[q]
    BY <1>2, <1>3, <2>1, Written DEF m
  <2>3. /\ call' \in [Runs -> Calls] /\ call'[r] = "recorded"
        /\ \A q \in Runs : q # r => call'[q] = call[q]
    BY <1>2, <1>3 DEF KeylessType, Calls
  <2>4. KeylessType'
    BY <1>1, <1>2, <2>2, <2>3 DEF KeylessType
  <2>5. /\ RunInv(r)' /\ ~Doable(r)
        /\ Holds(r)' \/ Revivable(r)' => Holds(r) \/ Revivable(r)
    BY <1>1, <1>2, <2>2, <2>3 DEF RunInv, Revivable, Holds, InFlight, Concluded, Late, Doable, Ended
  <2>6. \A q \in Runs : q # r => Same(q)
    BY <1>1, <2>2, <2>3 DEF Same
  <2> QED
    BY <1>1, <2>4, <2>5, <2>6, OneRun
<1>4. CASE files' = files /\ disk' = disk /\ call' = [call EXCEPT ![r] = "done"]
  <2>1. /\ call' \in [Runs -> Calls] /\ call'[r] = "done"
        /\ \A q \in Runs : q # r => call'[q] = call[q]
    BY <1>2, <1>4 DEF KeylessType, Calls
  <2>2. KeylessType'
    BY <1>1, <1>2, <1>4, <2>1 DEF KeylessType
  <2>3. /\ RunInv(r)' /\ ~Doable(r)
        /\ Holds(r)' \/ Revivable(r)' => Holds(r) \/ Revivable(r)
    BY <1>1, <1>2, <1>4, <2>1 DEF RunInv, Revivable, Holds, InFlight, Concluded, Late, Doable, Ended
  <2>4. \A q \in Runs : q # r => Same(q)
    BY <1>1, <1>4, <2>1 DEF Same
  <2> QED
    BY <1>1, <2>2, <2>3, <2>4, OneRun
<1> QED
  BY <1>3, <1>4 DEF RecordRunning

LEMMA PublishRunInv == ASSUME KeylessInv, NEW r \in Runs, PublishRun(r) PROVE KeylessInv'
<1>1. /\ boot = {} /\ call[r] \in {"recorded", "published"} /\ mem' = [mem EXCEPT ![r] = "running"]
      /\ call' = [call EXCEPT ![r] = IF @ = "recorded" THEN "published" ELSE "done"]
      /\ files' = files /\ disk' = disk /\ sealed' = sealed /\ ctr' = ctr /\ fin' = fin
      /\ boot' = boot /\ job' = job /\ reduced' = reduced /\ clock' = clock
  BY DEF PublishRun, store, up
<1>2. KeylessType /\ RunInv(r)
  BY DEF KeylessInv
<1>3. /\ call' \in [Runs -> Calls] /\ call'[r] \in Late
      /\ mem' \in [Runs -> {"none", "running"} \cup Ended] /\ mem'[r] = "running"
      /\ \A q \in Runs : q # r => call'[q] = call[q] /\ mem'[q] = mem[q]
  BY <1>1, <1>2 DEF KeylessType, Calls, Late
<1>4. KeylessType'
  BY <1>1, <1>2, <1>3 DEF KeylessType
<1>5. /\ RunInv(r)' /\ (Doable(r) => Doable(r)')
      /\ Holds(r)' \/ Revivable(r)' => Holds(r) \/ Revivable(r)
  BY <1>1, <1>2, <1>3 DEF RunInv, Revivable, Holds, InFlight, Concluded, Late, Doable, Ended
<1>6. \A q \in Runs : q # r => Same(q)
  BY <1>1, <1>3 DEF Same
<1> QED
  BY <1>1, <1>4, <1>5, <1>6, OneRun

LEMMA WorkerInv ==
  ASSUME KeylessInv, NEW r \in Runs, WorkerWrites(r) \/ WorkerExits(r)
  PROVE  KeylessInv'
<1>1. /\ disk' = disk /\ sealed' = sealed /\ mem' = mem /\ call' = call /\ fin' = fin
      /\ boot' = boot /\ job' = job /\ reduced' = reduced /\ clock' = clock
  BY DEF WorkerWrites, WorkerExits, server, store
<1>2. KeylessType /\ RunInv(r)
  BY DEF KeylessInv
<1>3. /\ files' \in [Runs -> SUBSET Names] /\ files[r] \subseteq files'[r] /\ (files[r] = {} => files'[r] = {})
      /\ \A q \in Runs : q # r => files'[q] = files[q]
  <2>1. CASE WorkerExits(r)
    BY <1>2, <2>1 DEF WorkerExits, store, KeylessType
  <2>2. CASE WorkerWrites(r)
    <3>1. PICK fs \in Products : files' = [files EXCEPT ![r] = @ \cup fs]
      BY <2>2 DEF WorkerWrites
    <3>2. fs \subseteq Names
      BY KeylessAssumption DEF Names, Outputs
    <3>3. files \in [Runs -> SUBSET Names] /\ files[r] \cup fs \in SUBSET Names
      BY <1>2, <3>2 DEF KeylessType
    <3> QED
      BY <2>2, <3>1, <3>3 DEF WorkerWrites
  <2> QED
    BY <2>1, <2>2
<1>4. /\ ctr' \in [Runs -> {"none", "created", "running", "exited"}] /\ (ctr'[r] = "running" => ctr[r] = "running")
      /\ \A q \in Runs : q # r => ctr'[q] = ctr[q]
  BY <1>2 DEF WorkerWrites, WorkerExits, KeylessType
<1>5. KeylessType'
  BY <1>1, <1>2, <1>3, <1>4 DEF KeylessType
<1>6. /\ RunInv(r)' /\ (Doable(r) => Doable(r)')
      /\ Holds(r)' \/ Revivable(r)' => Holds(r) \/ Revivable(r)
  BY <1>1, <1>2, <1>3, <1>4 DEF RunInv, Revivable, Holds, InFlight, Concluded, Late, Doable
<1>7. \A q \in Runs : q # r => Same(q)
  BY <1>1, <1>3, <1>4 DEF Same
<1> QED
  BY <1>1, <1>5, <1>6, <1>7, OneRun

-----------------------------------------------------------------------------
(* The end of a run.                                                       *)

LEMMA FinalizeInv ==
  ASSUME KeylessInv, NEW r \in Runs, FinalizeExit(r) \/ StopAgent(r) \/ DeadlineFires(r)
  PROVE  KeylessInv'
<1>1. /\ mem[r] = "running" /\ fin[r] = NoFin
      /\ files' = files /\ disk' = disk /\ mem' = mem /\ call' = call
      /\ boot' = boot /\ job' = job /\ reduced' = reduced /\ clock' = clock
  BY DEF FinalizeExit, StopAgent, DeadlineFires, Claimable
<1>2. KeylessType /\ RunInv(r)
  BY DEF KeylessInv
<1>3. PICK s \in Ended : Finalize(r, s) /\ (s = "timed_out" \/ ctr'[r] # "running")
  <2>1. ExitStatus(r) \in Ended /\ "stopped" \in Ended /\ "timed_out" \in Ended
    BY DEF ExitStatus, Ended
  <2>2. StopAgent(r) => ctr'[r] = "exited"
    BY <1>2 DEF StopAgent, KeylessType
  <2> QED
    BY <2>1, <2>2 DEF FinalizeExit, StopAgent, DeadlineFires
<1>4. /\ ctr' \in [Runs -> {"none", "created", "running", "exited"}] /\ (ctr'[r] = "running" => ctr[r] = "running")
      /\ \A q \in Runs : q # r => ctr'[q] = ctr[q]
  BY <1>2 DEF FinalizeExit, StopAgent, DeadlineFires, KeylessType
<1> DEFINE p == Project(s, files[r])
           f == [at |-> "publish", meta |-> Meta(s)]
<1>5. p \in SealRecord /\ p.status = s /\ p # NoSeal
  BY Projected
<1>6. f \in FinRecord /\ f.at = "publish" /\ f.meta.status = s
  <2>1. Meta(s) \in MetaRecord /\ Meta(s).status = s
    BY <1>2, Metas
  <2> QED
    BY <2>1 DEF FinRecord
<1>7. fin' = [fin EXCEPT ![r] = f] /\ sealed' = [sealed EXCEPT ![r] = p]
  BY <1>3 DEF Finalize
<1> HIDE DEF p, f
<1>8. /\ fin' \in [Runs -> FinRecord] /\ fin'[r] = f
      /\ sealed' \in [Runs -> SealRecord] /\ sealed'[r] = p
      /\ \A q \in Runs : q # r => fin'[q] = fin[q] /\ sealed'[q] = sealed[q]
  BY <1>2, <1>5, <1>6, <1>7 DEF KeylessType
<1>9. KeylessType'
  BY <1>1, <1>2, <1>4, <1>8 DEF KeylessType
<1>10. /\ RunInv(r)' /\ (Doable(r) => Doable(r)')
       /\ Holds(r)' \/ Revivable(r)' => Holds(r) \/ Revivable(r)
  BY <1>1, <1>2, <1>3, <1>4, <1>5, <1>6, <1>8 DEF RunInv, Revivable, Holds, InFlight, Concluded, Late, Doable
<1>11. \A q \in Runs : q # r => Same(q)
  BY <1>1, <1>4, <1>8 DEF Same
<1> QED
  BY <1>1, <1>9, <1>10, <1>11, OneRun

LEMMA PublishEndInv == ASSUME KeylessInv, NEW r \in Runs, PublishEnd(r) PROVE KeylessInv'
<1>1. /\ fin[r].at = "publish"
      /\ files' = files /\ disk' = disk /\ sealed' = sealed /\ ctr' = ctr /\ call' = call
      /\ boot' = boot /\ job' = job /\ reduced' = reduced /\ clock' = clock
  BY DEF PublishEnd, store
<1>2. KeylessType /\ RunInv(r) /\ fin[r] \in FinRecord /\ NoFin \in FinRecord
  BY Metas DEF KeylessInv, KeylessType, Ended
<1>3. fin[r] # NoFin
  BY <1>1 DEF NoFin
<1>4. PICK f \in FinRecord : /\ fin' = [fin EXCEPT ![r] = f]
                             /\ f = NoFin \/ (f.at = "file" /\ f.meta = fin[r].meta)
  <2> DEFINE f == [fin[r] EXCEPT !.at = "file"]
  <2>1. f \in FinRecord /\ f.at = "file" /\ f.meta = fin[r].meta
    BY <1>2 DEF FinRecord
  <2>2. fin' = [fin EXCEPT ![r] = NoFin] \/ fin' = [fin EXCEPT ![r] = f]
    BY <1>2 DEF PublishEnd
  <2> QED
    BY <1>2, <2>1, <2>2
<1>5. /\ fin' \in [Runs -> FinRecord] /\ fin'[r] = f
      /\ \A q \in Runs : q # r => fin'[q] = fin[q]
  BY <1>2, <1>4 DEF KeylessType
<1>6. fin[r].meta.status \in Ended /\ ~Revivable(r)
  BY <1>2, <1>3 DEF RunInv
<1>7. /\ mem' \in [Runs -> {"none", "running"} \cup Ended] /\ mem'[r] \in Ended
      /\ \A q \in Runs : q # r => mem'[q] = mem[q]
  BY <1>2, <1>6 DEF PublishEnd, KeylessType
<1>8. KeylessType'
  BY <1>1, <1>2, <1>5, <1>7 DEF KeylessType
<1>9. /\ RunInv(r)' /\ (Doable(r) => Doable(r)')
      /\ Holds(r)' \/ Revivable(r)' => Holds(r) \/ Revivable(r)
  BY <1>1, <1>2, <1>3, <1>4, <1>5, <1>6, <1>7 DEF RunInv, Revivable, Holds, InFlight, Concluded, Late, Doable, Ended
<1>10. \A q \in Runs : q # r => Same(q)
  BY <1>1, <1>5, <1>7 DEF Same
<1> QED
  BY <1>1, <1>8, <1>9, <1>10, OneRun

LEMMA RecordEndInv == ASSUME KeylessInv, NEW r \in Runs, RecordEnd(r) PROVE KeylessInv'
<1>1. /\ fin[r].at = "file" /\ fin' = [fin EXCEPT ![r] = NoFin]
      /\ sealed' = sealed /\ mem' = mem /\ ctr' = ctr /\ call' = call
      /\ boot' = boot /\ job' = job /\ reduced' = reduced /\ clock' = clock
  BY DEF RecordEnd
<1>2. KeylessType /\ RunInv(r) /\ fin[r] \in FinRecord /\ NoFin \in FinRecord
  BY Metas DEF KeylessInv, KeylessType, Ended
<1>3. fin[r] # NoFin
  BY <1>1 DEF NoFin
<1>4. fin[r].meta \in MetaRecord /\ fin[r].meta.status \in Ended
  BY <1>2, <1>3 DEF RunInv, FinRecord
<1>5. /\ fin' \in [Runs -> FinRecord] /\ fin'[r] = NoFin
      /\ \A q \in Runs : q # r => fin'[q] = fin[q]
  BY <1>1, <1>2 DEF KeylessType
<1>6. /\ files' \in [Runs -> SUBSET Names] /\ disk' \in [Runs -> MetaRecord]
      /\ \/ files'[r] = files[r] /\ disk'[r] = disk[r]
         \/ "metadata" \in files'[r] /\ disk'[r] = fin[r].meta
      /\ \A q \in Runs : q # r => files'[q] = files[q] /\ disk'[q] = disk[q]
  <2>1. CASE files' = files /\ disk' = disk
    BY <1>2, <2>1 DEF KeylessType
  <2>2. CASE files' = [files EXCEPT ![r] = @ \cup {"metadata"}] /\ disk' = [disk EXCEPT ![r] = fin[r].meta]
    BY <1>2, <1>4, <2>2, Written
  <2> QED
    BY <2>1, <2>2 DEF RecordEnd
<1>7. KeylessType'
  BY <1>1, <1>2, <1>5, <1>6 DEF KeylessType
<1>8. /\ RunInv(r)' /\ (Doable(r) => Doable(r)')
      /\ Holds(r)' \/ Revivable(r)' => Holds(r) \/ Revivable(r)
  BY <1>1, <1>2, <1>3, <1>4, <1>5, <1>6 DEF RunInv, Revivable, Holds, InFlight, Concluded, Late, Doable, Ended
<1>9. \A q \in Runs : q # r => Same(q)
  BY <1>1, <1>5, <1>6 DEF Same
<1> QED
  BY <1>1, <1>7, <1>8, <1>9, OneRun

\* The directory of r is removed.
LEMMA Removed ==
  ASSUME KeylessType, NEW r \in Runs, files' = [files EXCEPT ![r] = {}],
         disk' = [disk EXCEPT ![r] = NoMeta], sealed' = [sealed EXCEPT ![r] = NoSeal],
         reduced' = reduced \cup {r}
  PROVE  /\ files' \in [Runs -> SUBSET Names] /\ disk' \in [Runs -> MetaRecord]
         /\ sealed' \in [Runs -> SealRecord] /\ reduced' \subseteq Runs /\ r \in reduced'
         /\ files'[r] = {} /\ disk'[r].status = "none"
         /\ \A q \in Runs : q # r => files'[q] = files[q] /\ disk'[q] = disk[q] /\ sealed'[q] = sealed[q]
<1>1. NoMeta \in MetaRecord /\ NoMeta.status = "none" /\ NoSeal \in SealRecord
  BY Metas DEF Ended
<1> QED
  BY <1>1 DEF KeylessType

LEMMA CleanupInv == ASSUME KeylessInv, NEW r \in Runs, CleanupRun(r) PROVE KeylessInv'
<1>1. /\ boot = {} /\ ctr' = [ctr EXCEPT ![r] = "none"] /\ mem' = [mem EXCEPT ![r] = "none"]
      /\ call' = call /\ fin' = fin /\ boot' = boot /\ job' = job /\ clock' = clock
  BY DEF CleanupRun, up
<1>2. KeylessType /\ RunInv(r)
  BY DEF KeylessInv
<1>3. /\ files' \in [Runs -> SUBSET Names] /\ disk' \in [Runs -> MetaRecord]
      /\ sealed' \in [Runs -> SealRecord] /\ reduced' \subseteq Runs /\ r \in reduced'
      /\ files'[r] = {} /\ disk'[r].status = "none" /\ reduced \subseteq reduced'
      /\ \A q \in Runs : q # r => files'[q] = files[q] /\ disk'[q] = disk[q] /\ sealed'[q] = sealed[q]
  BY <1>2, Removed DEF CleanupRun
<1>4. /\ ctr' \in [Runs -> {"none", "created", "running", "exited"}] /\ ctr'[r] = "none"
      /\ mem' \in [Runs -> {"none", "running"} \cup Ended] /\ mem'[r] = "none"
      /\ \A q \in Runs : q # r => ctr'[q] = ctr[q] /\ mem'[q] = mem[q]
  BY <1>1, <1>2 DEF KeylessType
<1>5. KeylessType'
  BY <1>1, <1>2, <1>3, <1>4 DEF KeylessType
<1>6. /\ RunInv(r)' /\ (Doable(r) => Doable(r)')
      /\ Holds(r)' \/ Revivable(r)' => Holds(r) \/ Revivable(r)
  BY <1>1, <1>2, <1>3, <1>4 DEF RunInv, Revivable, Holds, InFlight, Concluded, Late, Doable, Ended
<1>7. \A q \in Runs : q # r => Same(q)
  BY <1>1, <1>3, <1>4 DEF Same
<1> QED
  BY <1>1, <1>3, <1>5, <1>6, <1>7, OneRun

-----------------------------------------------------------------------------
(* The commands.                                                           *)

\* As OneRun, for a step of a command.
LEMMA OneRunJob ==
  ASSUME KeylessInv, KeylessType', NEW r \in Runs, \A q \in Runs : q # r => Same(q),
         boot' = boot, reduced \subseteq reduced',
         job' # NoJob => IsJob(job') /\ \A i \in 1..Len(job'.todo) : Doable(job'.todo[i]),
         RunInv(r)', Doable(r) => Doable(r)', Holds(r)' \/ Revivable(r)' => Holds(r) \/ Revivable(r)
  PROVE  KeylessInv'
<1>1. \A q \in Runs : RunInv(q)' /\ (Doable(q) => Doable(q)')
                      /\ (Holds(q)' \/ Revivable(q)' => Holds(q) \/ Revivable(q))
  BY SameRun DEF KeylessInv
<1>2. Slots' \subseteq Slots
  BY <1>1 DEF Slots
<1>3. Cardinality(Slots') <= MaxConcurrent
  BY <1>2, FewerSlots DEF KeylessInv
<1>4. JobInv'
  <2> SUFFICES ASSUME job' # NoJob
               PROVE  IsJob(job') /\ \A i \in 1..Len(job'.todo) : Doable(job.todo[i])'
    BY DEF JobInv
  <2>1. job'.todo \in Seq(Runs)
    BY DEF IsJob
  <2>2. \A i \in 1..Len(job'.todo) : job'.todo[i] \in Runs /\ Doable(job'.todo[i])
    BY <2>1
  <2> QED
    BY <1>1, <2>2 DEF Doable
<1> QED
  BY <1>1, <1>3, <1>4 DEF KeylessInv

\* No run changes.
LEMMA NoRun ==
  ASSUME KeylessInv, KeylessType', \A q \in Runs : Same(q), boot' = boot, reduced \subseteq reduced',
         job' # NoJob => IsJob(job') /\ \A i \in 1..Len(job'.todo) : Doable(job'.todo[i])
  PROVE  KeylessInv'
<1>1. \A q \in Runs : RunInv(q)' /\ (Doable(q) => Doable(q)')
                      /\ (Holds(q)' \/ Revivable(q)' => Holds(q) \/ Revivable(q))
  BY SameRun DEF KeylessInv
<1>2. Slots' \subseteq Slots
  BY <1>1 DEF Slots
<1>3. Cardinality(Slots') <= MaxConcurrent
  BY <1>2, FewerSlots DEF KeylessInv
<1>4. JobInv'
  <2> SUFFICES ASSUME job' # NoJob
               PROVE  IsJob(job') /\ \A i \in 1..Len(job'.todo) : Doable(job.todo[i])'
    BY DEF JobInv
  <2>1. job'.todo \in Seq(Runs)
    BY DEF IsJob
  <2>2. \A i \in 1..Len(job'.todo) : job'.todo[i] \in Runs /\ Doable(job'.todo[i])
    BY <2>1
  <2> QED
    BY <1>1, <2>2 DEF Doable
<1> QED
  BY <1>1, <1>3, <1>4 DEF KeylessInv

\* The next job after a run was worked on, or refused.
LEMMA NextJob ==
  ASSUME NEW j, IsJob(j), j.todo # <<>>, \A i \in 1..Len(j.todo) : Doable(j.todo[i]),
         NEW k, \/ k = [j EXCEPT !.todo = Tail(@), !.at = "run", !.deleted = @ \cup {Head(j.todo)}]
                \/ k = [j EXCEPT !.todo = Tail(@), !.at = "run", !.failed = TRUE]
                \/ k = [j EXCEPT !.at = "dir"]
  PROVE  /\ IsJob(k) /\ \A i \in 1..Len(k.todo) : Doable(k.todo[i])
         /\ Head(j.todo) \in Runs /\ Doable(Head(j.todo))
<1>1. PICK c, b, z, f, d, a : \E t \in Seq(Runs) :
        j = [cmd |-> c, budget |-> b, size |-> z, failed |-> f, deleted |-> d, at |-> a, todo |-> t]
  BY DEF IsJob
<1>2. PICK t \in Seq(Runs) :
        j = [cmd |-> c, budget |-> b, size |-> z, failed |-> f, deleted |-> d, at |-> a, todo |-> t]
  BY <1>1
<1>3. j.todo = t /\ t # <<>>
  BY <1>2
<1>4. Tail(t) \in Seq(Runs) /\ Head(t) \in Runs /\ Head(t) = t[1] /\ 1 \in 1..Len(t)
  BY <1>3
<1>5. Len(Tail(t)) = Len(t) - 1 /\ \A i \in 1..Len(Tail(t)) : Tail(t)[i] = t[i + 1] /\ i + 1 \in 1..Len(t)
  BY <1>3
<1>6. Doable(Head(t)) /\ \A i \in 1..Len(Tail(t)) : Doable(Tail(t)[i])
  BY <1>3, <1>4, <1>5
<1>7. CASE k = [j EXCEPT !.todo = Tail(@), !.at = "run", !.deleted = @ \cup {Head(j.todo)}]
  <2> DEFINE x == d \cup {Head(t)}
             y == Tail(t)
  <2>1. k = [cmd |-> c, budget |-> b, size |-> z, failed |-> f, deleted |-> x, at |-> "run", todo |-> y]
    BY <1>2, <1>3, <1>7
  <2> HIDE DEF x
  <2>2. IsJob(k) /\ k.todo = y
    BY <1>4, <2>1 DEF IsJob
  <2> QED
    BY <1>3, <1>4, <1>6, <2>2
<1>8. CASE k = [j EXCEPT !.todo = Tail(@), !.at = "run", !.failed = TRUE]
  <2> DEFINE y == Tail(t)
  <2>1. k = [cmd |-> c, budget |-> b, size |-> z, failed |-> TRUE, deleted |-> d, at |-> "run", todo |-> y]
    BY <1>2, <1>3, <1>8
  <2>2. IsJob(k) /\ k.todo = y
    BY <1>4, <2>1 DEF IsJob
  <2> QED
    BY <1>3, <1>4, <1>6, <2>2
<1>9. CASE k = [j EXCEPT !.at = "dir"]
  <2>1. k = [cmd |-> c, budget |-> b, size |-> z, failed |-> f, deleted |-> d, at |-> "dir", todo |-> t]
    BY <1>2, <1>9
  <2>2. IsJob(k) /\ k.todo = t
    BY <2>1 DEF IsJob
  <2> QED
    BY <1>3, <1>4, <1>6, <2>2
<1> QED
  BY <1>7, <1>8, <1>9

LEMMA StartJobInv ==
  ASSUME KeylessInv, NEW cmd, NEW p \in Policies, StartJob(cmd, p)
  PROVE  KeylessInv'
<1>1. /\ files' = files /\ disk' = disk /\ sealed' = sealed /\ mem' = mem /\ ctr' = ctr /\ call' = call
      /\ fin' = fin /\ boot' = boot /\ reduced' = reduced /\ clock' = clock
  BY DEF StartJob, server, store
<1>2. PICK todo \in [1..Cardinality(Doomed(p)) -> Doomed(p)] :
        job' = [cmd |-> cmd, budget |-> IF OverBudget(p) THEN p.bytes ELSE 0,
                size |-> [r \in Selected(p) |-> Size(r)],
                failed |-> FALSE, deleted |-> {}, at |-> "run", todo |-> todo]
  BY DEF StartJob
<1>3. \A r \in Doomed(p) : r \in Runs /\ Eligible(r)
  BY DEF Doomed, Selected
<1>4. \A r \in Doomed(p) : Doable(r)
  BY <1>3 DEF KeylessInv, RunInv, Doable, Eligible
<1>5. Cardinality(Doomed(p)) \in Nat
  BY <1>3, KeylessAssumption, FS_Subset, FS_CardinalityType
<1>6. todo \in Seq(Runs) /\ \A i \in 1..Len(todo) : Doable(todo[i])
  <2>1. PICK n \in Nat : n = Cardinality(Doomed(p))
    BY <1>5
  <2>2. todo \in [1..n -> Runs] /\ \A i \in 1..n : Doable(todo[i])
    BY <1>2, <1>3, <1>4, <2>1
  <2>3. todo \in Seq(Runs) /\ Len(todo) = n
    BY <2>2
  <2> QED
    BY <2>2, <2>3
<1>7. IsJob(job') /\ job'.todo = todo
  <2> DEFINE b == IF OverBudget(p) THEN p.bytes ELSE 0
             z == [r \in Selected(p) |-> Size(r)]
  <2> HIDE DEF b, z
  <2>1. job' = [cmd |-> cmd, budget |-> b, size |-> z, failed |-> FALSE, deleted |-> {}, at |-> "run", todo |-> todo]
    BY <1>2 DEF b, z
  <2> QED
    BY <1>6, <2>1 DEF IsJob
<1>8. KeylessType'
  BY <1>1 DEF KeylessInv, KeylessType
<1>9. \A q \in Runs : Same(q)
  BY <1>1 DEF Same
<1> QED
  BY <1>1, <1>6, <1>7, <1>8, <1>9, NoRun

\* What the steps of a command have in common.
LEMMA AtHead ==
  ASSUME KeylessInv, PruneContainer \/ PruneDirectory \/ SlimRun
  PROVE  /\ boot' = boot /\ clock' = clock /\ mem' = mem /\ call' = call /\ fin' = fin
         /\ Head(job.todo) \in Runs /\ Doable(Head(job.todo))
         /\ IsJob(job') /\ \A i \in 1..Len(job'.todo) : Doable(job'.todo[i])
<1>1. boot' = boot /\ clock' = clock /\ mem' = mem /\ call' = call /\ fin' = fin
  BY DEF PruneContainer, PruneDirectory, SlimRun, server
<1>2. PICK j : j = job
  OBVIOUS
<1>3. PICK k : k = job'
  OBVIOUS
<1>4. job.cmd \in {"prune", "slim"} /\ job.todo # <<>>
  BY DEF PruneContainer, PruneDirectory, SlimRun
<1>5. job # NoJob
  BY <1>4 DEF NoJob
<1>6. IsJob(j) /\ j.todo # <<>> /\ \A i \in 1..Len(j.todo) : Doable(j.todo[i])
  BY <1>2, <1>4, <1>5 DEF KeylessInv, JobInv
<1>7. \/ k = [j EXCEPT !.todo = Tail(@), !.at = "run", !.deleted = @ \cup {Head(j.todo)}]
      \/ k = [j EXCEPT !.todo = Tail(@), !.at = "run", !.failed = TRUE]
      \/ k = [j EXCEPT !.at = "dir"]
  BY <1>2, <1>3 DEF PruneContainer, PruneDirectory, SlimRun, JobDone, JobFailed
<1>8. /\ IsJob(k) /\ \A i \in 1..Len(k.todo) : Doable(k.todo[i])
      /\ Head(j.todo) \in Runs /\ Doable(Head(j.todo))
  BY <1>6, <1>7, NextJob
<1> QED
  BY <1>1, <1>2, <1>3, <1>8

LEMMA PruneContainerInv == ASSUME KeylessInv, PruneContainer PROVE KeylessInv'
<1>1. PICK r \in Runs : r = Head(job.todo) /\ Doable(r)
  BY AtHead
<1>2. /\ files' = files /\ disk' = disk /\ sealed' = sealed /\ reduced' = reduced
      /\ ctr' = [ctr EXCEPT ![r] = "none"] \/ ctr' = ctr
  BY <1>1 DEF PruneContainer, store
<1>3. /\ boot' = boot /\ clock' = clock /\ mem' = mem /\ call' = call /\ fin' = fin
      /\ IsJob(job') /\ \A i \in 1..Len(job'.todo) : Doable(job'.todo[i])
  BY AtHead
<1>4. KeylessType /\ RunInv(r)
  BY DEF KeylessInv
<1>5. /\ ctr' \in [Runs -> {"none", "created", "running", "exited"}] /\ (ctr'[r] = "running" => ctr[r] = "running")
      /\ \A q \in Runs : q # r => ctr'[q] = ctr[q]
  BY <1>2, <1>4 DEF KeylessType
<1>6. KeylessType'
  BY <1>2, <1>3, <1>4, <1>5 DEF KeylessType
<1>7. /\ RunInv(r)' /\ (Doable(r) => Doable(r)')
      /\ Holds(r)' \/ Revivable(r)' => Holds(r) \/ Revivable(r)
  BY <1>2, <1>3, <1>4, <1>5 DEF RunInv, Revivable, Holds, InFlight, Concluded, Late, Doable
<1>8. \A q \in Runs : q # r => Same(q)
  BY <1>2, <1>3, <1>5 DEF Same
<1> QED
  BY <1>2, <1>3, <1>6, <1>7, <1>8, OneRunJob

LEMMA PruneDirectoryInv == ASSUME KeylessInv, PruneDirectory PROVE KeylessInv'
<1>1. PICK r \in Runs : r = Head(job.todo) /\ Doable(r)
  BY AtHead
<1>2. ctr' = ctr
  BY DEF PruneDirectory
<1>3. /\ boot' = boot /\ clock' = clock /\ mem' = mem /\ call' = call /\ fin' = fin
      /\ IsJob(job') /\ \A i \in 1..Len(job'.todo) : Doable(job'.todo[i])
  BY AtHead
<1>4. KeylessType /\ RunInv(r)
  BY DEF KeylessInv
<1>5. CASE files' = files /\ disk' = disk /\ sealed' = sealed /\ reduced' = reduced
  <2>1. KeylessType'
    BY <1>2, <1>3, <1>4, <1>5 DEF KeylessType
  <2>2. \A q \in Runs : Same(q)
    BY <1>2, <1>3, <1>5 DEF Same
  <2> QED
    BY <1>3, <1>5, <2>1, <2>2, NoRun
<1>6. CASE /\ files' = [files EXCEPT ![r] = {}] /\ disk' = [disk EXCEPT ![r] = NoMeta]
           /\ sealed' = [sealed EXCEPT ![r] = NoSeal] /\ reduced' = reduced \cup {r}
  <2>1. /\ files' \in [Runs -> SUBSET Names] /\ disk' \in [Runs -> MetaRecord]
        /\ sealed' \in [Runs -> SealRecord] /\ reduced' \subseteq Runs /\ r \in reduced'
        /\ files'[r] = {} /\ disk'[r].status = "none" /\ reduced \subseteq reduced'
        /\ \A q \in Runs : q # r => files'[q] = files[q] /\ disk'[q] = disk[q] /\ sealed'[q] = sealed[q]
    BY <1>4, <1>6, Removed
  <2>2. KeylessType'
    BY <1>2, <1>3, <1>4, <2>1 DEF KeylessType
  <2>3. /\ RunInv(r)' /\ (Doable(r) => Doable(r)')
        /\ Holds(r)' \/ Revivable(r)' => Holds(r) \/ Revivable(r)
    BY <1>1, <1>2, <1>3, <1>4, <2>1 DEF RunInv, Revivable, Holds, InFlight, Concluded, Late, Doable, Ended
  <2>4. \A q \in Runs : q # r => Same(q)
    BY <1>2, <1>3, <2>1 DEF Same
  <2> QED
    BY <1>3, <2>1, <2>2, <2>3, <2>4, OneRunJob
<1> QED
  BY <1>1, <1>5, <1>6 DEF PruneDirectory, store

LEMMA SlimRunInv == ASSUME KeylessInv, SlimRun PROVE KeylessInv'
<1>1. PICK r \in Runs : r = Head(job.todo) /\ Doable(r)
  BY AtHead
<1>2. disk' = disk /\ ctr' = ctr
  BY DEF SlimRun
<1>3. /\ boot' = boot /\ clock' = clock /\ mem' = mem /\ call' = call /\ fin' = fin
      /\ IsJob(job') /\ \A i \in 1..Len(job'.todo) : Doable(job'.todo[i])
  BY AtHead
<1>4. KeylessType /\ RunInv(r)
  BY DEF KeylessInv
<1>5. CASE files' = files /\ sealed' = sealed /\ reduced' = reduced
  <2>1. KeylessType'
    BY <1>2, <1>3, <1>4, <1>5 DEF KeylessType
  <2>2. \A q \in Runs : Same(q)
    BY <1>2, <1>3, <1>5 DEF Same
  <2> QED
    BY <1>3, <1>5, <2>1, <2>2, NoRun
<1>6. CASE /\ files[r] # {} /\ files' = [files EXCEPT ![r] = (@ \cap SlimKeeps) \cup {"manifest"}]
           /\ sealed' = [sealed EXCEPT ![r] = NoSeal] /\ reduced' = reduced \cup {r}
  <2>1. NoSeal \in SealRecord
    BY <1>4, Metas DEF Ended
  <2>2. /\ files' \in [Runs -> SUBSET Names] /\ ("metadata" \in files[r] => "metadata" \in files'[r])
        /\ \A q \in Runs : q # r => files'[q] = files[q]
    <3>1. /\ (files[r] \cap SlimKeeps) \cup {"manifest"} \in SUBSET Names /\ "metadata" \in SlimKeeps
          /\ files \in [Runs -> SUBSET Names]
      BY <1>4 DEF KeylessType, Names, SlimKeeps
    <3> QED
      BY <1>6, <3>1
  <2>3. /\ sealed' \in [Runs -> SealRecord] /\ sealed'[r] = NoSeal
        /\ \A q \in Runs : q # r => sealed'[q] = sealed[q]
    BY <1>4, <1>6, <2>1 DEF KeylessType
  <2>4. reduced \subseteq reduced' /\ reduced' \subseteq Runs /\ r \in reduced'
    BY <1>4, <1>6 DEF KeylessType
  <2>5. KeylessType'
    BY <1>2, <1>3, <1>4, <2>2, <2>3, <2>4 DEF KeylessType
  <2>6. disk[r].status \in Ended
    BY <1>1, <1>6 DEF Doable
  <2>7. /\ RunInv(r)' /\ (Doable(r) => Doable(r)')
        /\ Holds(r)' \/ Revivable(r)' => Holds(r) \/ Revivable(r)
    BY <1>1, <1>2, <1>3, <1>4, <2>2, <2>3, <2>4, <2>6
       DEF RunInv, Revivable, Holds, InFlight, Concluded, Late, Doable, Ended
  <2>8. \A q \in Runs : q # r => Same(q)
    BY <1>2, <1>3, <2>2, <2>3 DEF Same
  <2> QED
    BY <1>3, <2>4, <2>5, <2>7, <2>8, OneRunJob
<1> QED
  BY <1>1, <1>5, <1>6 DEF SlimRun

LEMMA IdleInv ==
  ASSUME KeylessInv, JobEnds \/ JobKilled \/ Tick \/ UNCHANGED vars
  PROVE  KeylessInv'
<1>1. /\ files' = files /\ disk' = disk /\ sealed' = sealed /\ mem' = mem /\ ctr' = ctr /\ call' = call
      /\ fin' = fin /\ boot' = boot /\ reduced' = reduced /\ clock' \in {clock, clock + 1}
      /\ job' = job \/ job' = NoJob
  BY DEF JobEnds, JobKilled, Tick, vars, server, store
<1>2. KeylessType'
  BY <1>1 DEF KeylessInv, KeylessType
<1>3. \A q \in Runs : Same(q)
  BY <1>1 DEF Same
<1>4. job' # NoJob => IsJob(job') /\ \A i \in 1..Len(job'.todo) : Doable(job'.todo[i])
  BY <1>1 DEF KeylessInv, JobInv
<1> QED
  BY <1>1, <1>2, <1>3, <1>4, NoRun

-----------------------------------------------------------------------------
(* Crash and restart.                                                      *)

\* Every run may change, and the command under way keeps its list.
LEMMA EveryRun ==
  ASSUME KeylessInv, KeylessType', job' = job,
         \A q \in Runs : /\ RunInv(q)' /\ (Doable(q) => Doable(q)')
                         /\ Holds(q)' \/ Revivable(q)' => Holds(q) \/ Revivable(q)
  PROVE  KeylessInv'
<1>1. Slots' \subseteq Slots
  BY DEF Slots
<1>2. Cardinality(Slots') <= MaxConcurrent
  BY <1>1, FewerSlots DEF KeylessInv
<1>3. JobInv'
  <2> SUFFICES ASSUME job # NoJob
               PROVE  IsJob(job) /\ \A i \in 1..Len(job.todo) : Doable(job.todo[i])'
    BY DEF JobInv
  <2>1. IsJob(job) /\ \A i \in 1..Len(job.todo) : Doable(job.todo[i])
    BY DEF KeylessInv, JobInv
  <2>2. job.todo \in Seq(Runs)
    BY <2>1 DEF IsJob
  <2>3. \A i \in 1..Len(job.todo) : job.todo[i] \in Runs
    BY <2>2
  <2> QED
    BY <2>1, <2>3 DEF Doable
<1> QED
  BY <1>2, <1>3 DEF KeylessInv

\* A server that dies leaves the disk and the containers; the result and the
\* container of a run that Reconcile was ending may have changed before.
LEMMA RestartInv ==
  ASSUME KeylessInv, Restarted, files' = files, disk' = disk, job' = job, reduced' = reduced, clock' = clock,
         sealed' \in [Runs -> SealRecord], ctr' \in [Runs -> {"none", "created", "running", "exited"}],
         \A q \in Runs : (Revivable(q)' => Revivable(q))
  PROVE  KeylessInv'
<1>1. /\ boot' = Runs /\ mem' = [r \in Runs |-> "none"] /\ fin' = [r \in Runs |-> NoFin]
      /\ call' = [r \in Runs |-> IF InFlight(r) THEN "done" ELSE call[r]]
  BY DEF Restarted
<1>2. KeylessType /\ NoFin \in FinRecord
  BY Metas DEF KeylessInv, Ended
<1>3. /\ \A r \in Runs : mem'[r] = "none" /\ fin'[r] = NoFin
      /\ \A r \in Runs : call'[r] \in {"new", "done"} /\ (call[r] \in Late => call'[r] = "done")
                         /\ (call'[r] = "new" => call[r] = "new")
  BY <1>1 DEF InFlight, Late
<1>4. KeylessType'
  <2>1. call' \in [Runs -> Calls]
    BY <1>1, <1>2 DEF KeylessType, Calls
  <2>2. mem' \in [Runs -> {"none", "running"} \cup Ended] /\ fin' \in [Runs -> FinRecord]
    BY <1>1, <1>2
  <2> QED
    BY <1>1, <1>2, <2>1, <2>2 DEF KeylessType
<1>5. ASSUME NEW q \in Runs
      PROVE  /\ RunInv(q)' /\ (Doable(q) => Doable(q)')
             /\ Holds(q)' \/ Revivable(q)' => Holds(q) \/ Revivable(q)
  <2>1. RunInv(q) /\ (Revivable(q)' => Revivable(q))
    BY DEF KeylessInv
  <2>2. RunInv(q)'
    BY <1>1, <1>3, <2>1 DEF RunInv, InFlight, Late
  <2>3. Doable(q) => Doable(q)'
    BY <1>3 DEF Doable, Late
  <2>4. ~Holds(q)'
    BY <1>3 DEF Holds, InFlight
  <2> QED
    BY <2>1, <2>2, <2>3, <2>4
<1> QED
  BY <1>4, <1>5, EveryRun

LEMMA CrashInv == ASSUME KeylessInv, Crash PROVE KeylessInv'
<1>1. Restarted /\ files' = files /\ disk' = disk /\ sealed' = sealed /\ ctr' = ctr
      /\ job' = job /\ reduced' = reduced /\ clock' = clock
  BY DEF Crash, store
<1>2. sealed' \in [Runs -> SealRecord] /\ ctr' \in [Runs -> {"none", "created", "running", "exited"}]
  BY <1>1 DEF KeylessInv, KeylessType
<1>3. \A q \in Runs : Revivable(q)' => Revivable(q)
  BY <1>1 DEF Revivable
<1> QED
  BY <1>1, <1>2, <1>3, RestartInv

\* What Reconcile makes of a run it finds in its directory.
LEMMA ReconciledMeta ==
  ASSUME KeylessInv, NEW r \in Runs, NEW expired \in BOOLEAN, sealed[r].status = "timed_out" => expired
  PROVE  LET m == Reconciled(r, expired) IN
         /\ m \in MetaRecord
         /\ m # disk[r] => disk[r].status = "running" /\ m.status \in Ended
         /\ m # disk[r] /\ ctr[r] = "running" => m.status = "timed_out"
         /\ m.status = "running" => m = disk[r] /\ Revivable(r)
<1>1. KeylessType /\ disk[r] \in MetaRecord
  BY RunTypes DEF KeylessInv
<1>2. ExitStatus(r) \in Ended /\ "failed" \in Ended /\ "timed_out" \in Ended /\ "running" \notin Ended
  BY DEF ExitStatus, Ended
<1>3. /\ Meta("failed") \in MetaRecord /\ Meta("timed_out") \in MetaRecord /\ Meta(ExitStatus(r)) \in MetaRecord
      /\ Meta("failed").status = "failed" /\ Meta("timed_out").status = "timed_out"
      /\ Meta(ExitStatus(r)).status = ExitStatus(r)
  BY <1>1, <1>2, Metas
<1> QED
  BY <1>1, <1>2, <1>3 DEF Reconciled, Revivable

LEMMA ReconcileFailsInv == ASSUME KeylessInv, NEW r \in Runs, ReconcileFails(r) PROVE KeylessInv'
<1>1. Restarted /\ files' = files /\ disk' = disk /\ job' = job /\ reduced' = reduced /\ clock' = clock
  BY DEF ReconcileFails
<1>2. KeylessType
  BY DEF KeylessInv
<1>3. CASE sealed' = sealed /\ ctr' = ctr
  <2>1. sealed' \in [Runs -> SealRecord] /\ ctr' \in [Runs -> {"none", "created", "running", "exited"}]
    BY <1>2, <1>3 DEF KeylessType
  <2>2. \A q \in Runs : Revivable(q)' => Revivable(q)
    BY <1>1, <1>3 DEF Revivable
  <2> QED
    BY <1>1, <2>1, <2>2, RestartInv
<1>4. ASSUME NEW expired \in BOOLEAN, Reconciled(r, expired) # disk[r], sealed[r].status = "timed_out" => expired,
             ctr' = [ctr EXCEPT ![r] = IF @ = "running" THEN "exited" ELSE @],
             \/ sealed' = [sealed EXCEPT ![r] = Project(Reconciled(r, expired).status, files[r])]
             \/ sealed' = sealed
      PROVE  KeylessInv'
  <2>1. Reconciled(r, expired).status \in Ended
    BY <1>4, ReconciledMeta
  <2> DEFINE p == Project(Reconciled(r, expired).status, files[r])
  <2>2. p \in SealRecord
    BY <2>1, Projected
  <2> HIDE DEF p
  <2>3. sealed' \in [Runs -> SealRecord] /\ \A q \in Runs : q # r => sealed'[q] = sealed[q]
    <3>1. sealed' = [sealed EXCEPT ![r] = p] \/ sealed' = sealed
      BY <1>4 DEF p
    <3> QED
      BY <1>2, <2>2, <3>1 DEF KeylessType
  <2>4. /\ ctr' \in [Runs -> {"none", "created", "running", "exited"}] /\ ctr'[r] # "running"
        /\ \A q \in Runs : q # r => ctr'[q] = ctr[q]
    BY <1>2, <1>4 DEF KeylessType
  <2>5. \A q \in Runs : Revivable(q)' => Revivable(q)
    BY <1>1, <2>3, <2>4 DEF Revivable
  <2> QED
    BY <1>1, <2>3, <2>4, <2>5, RestartInv
<1> QED
  BY <1>3, <1>4 DEF ReconcileFails

LEMMA ReconcileRunInv == ASSUME KeylessInv, NEW r \in Runs, ReconcileRun(r) PROVE KeylessInv'
<1>1. /\ r \in boot /\ boot' = boot \ {r} /\ reduced' = reduced \ {r}
      /\ files' = files /\ call' = call /\ fin' = fin /\ job' = job /\ clock' = clock
  BY DEF ReconcileRun
<1>2. KeylessType /\ RunInv(r) /\ mem[r] = "none" /\ fin[r] = NoFin /\ ~InFlight(r)
  BY <1>1 DEF KeylessInv, RunInv
<1>3. ASSUME NEW q \in Runs, q # r, Same(q)
      PROVE  /\ RunInv(q)' /\ (Doable(q) => Doable(q)')
             /\ Holds(q)' \/ Revivable(q)' => Holds(q) \/ Revivable(q)
  <2>1. RunInv(q) /\ (q \in boot' <=> q \in boot) /\ (q \in reduced' <=> q \in reduced)
    BY <1>1, <1>3 DEF KeylessInv
  <2> QED
    BY <1>3, <2>1 DEF Same, RunInv, Doable, Holds, Revivable, InFlight, Concluded
<1>4. CASE "metadata" \notin files[r] /\ disk' = disk /\ sealed' = sealed /\ mem' = mem /\ ctr' = ctr
  <2>1. KeylessType'
    BY <1>1, <1>2, <1>4 DEF KeylessType
  <2>2. disk[r].status = "none"
    BY <1>2, <1>4 DEF RunInv
  <2>3. /\ RunInv(r)' /\ (Doable(r) => Doable(r)')
        /\ Holds(r)' \/ Revivable(r)' => Holds(r) \/ Revivable(r)
    BY <1>1, <1>2, <1>4, <2>2 DEF RunInv, Revivable, Holds, InFlight, Concluded, Late, Doable, Ended
  <2>4. \A q \in Runs : q # r => Same(q)
    BY <1>1, <1>4 DEF Same
  <2> QED
    BY <1>1, <1>3, <2>1, <2>3, <2>4, EveryRun
<1>5. ASSUME NEW expired \in BOOLEAN, NEW m, m = Reconciled(r, expired), "metadata" \in files[r],
             sealed[r].status = "timed_out" => expired,
             mem' = [mem EXCEPT ![r] = m.status], disk' = [disk EXCEPT ![r] = m],
             sealed' = [sealed EXCEPT ![r] = IF Seals(r, m) THEN Project(m.status, files[r]) ELSE @],
             StopsExpired(r, m)
      PROVE  KeylessInv'
  <2>1. /\ m \in MetaRecord /\ m.status \in {"none", "running"} \cup Ended
        /\ m # disk[r] => disk[r].status = "running" /\ m.status \in Ended
        /\ m.status = "running" => m = disk[r] /\ Revivable(r)
    BY <1>5, ReconciledMeta DEF MetaRecord
  <2>2. /\ disk[r] \in MetaRecord /\ sealed[r] \in SealRecord
        /\ disk[r].status \in {"none", "running"} \cup Ended
    BY <1>2, RunTypes DEF MetaRecord
  <2> DEFINE z == IF Seals(r, m) THEN Project(m.status, files[r]) ELSE sealed[r]
  <2>3. z \in SealRecord /\ (m.status \in Ended => z # NoSeal)
    <3>1. CASE Seals(r, m)
      BY <3>1, Projected DEF Seals
    <3>2. CASE ~Seals(r, m)
      BY <2>2, <3>2 DEF Seals
    <3> QED
      BY <3>1, <3>2
  <2>4. m = disk[r] /\ disk[r].status = "running" => z = sealed[r]
    BY DEF Seals, Ended
  <2> HIDE DEF z
  <2>5. /\ sealed' \in [Runs -> SealRecord] /\ sealed'[r] = z
        /\ \A q \in Runs : q # r => sealed'[q] = sealed[q]
    <3>1. sealed' = [sealed EXCEPT ![r] = z]
      BY <1>5 DEF z
    <3> QED
      BY <1>2, <2>3, <3>1 DEF KeylessType
  <2>6. /\ mem' \in [Runs -> {"none", "running"} \cup Ended] /\ mem'[r] = m.status
        /\ disk' \in [Runs -> MetaRecord] /\ disk'[r] = m
        /\ \A q \in Runs : q # r => mem'[q] = mem[q] /\ disk'[q] = disk[q]
    BY <1>2, <1>5, <2>1 DEF KeylessType
  <2>7. /\ ctr' \in [Runs -> {"none", "created", "running", "exited"}] /\ (m = disk[r] => ctr'[r] = ctr[r])
        /\ \A q \in Runs : q # r => ctr'[q] = ctr[q]
    BY <1>2, <1>5 DEF KeylessType, StopsExpired
  <2>8. KeylessType'
    BY <1>1, <1>2, <2>5, <2>6, <2>7 DEF KeylessType
  <2>9. Revivable(r)' => Revivable(r) /\ mem'[r] = "running"
    BY <2>1, <2>4, <2>5, <2>6, <2>7 DEF Revivable, Ended
  <2>10. Concluded(r)' => sealed'[r] # NoSeal
    BY <1>1, <1>2, <2>3, <2>5, <2>6 DEF Concluded, InFlight
  <2>11. call[r] \notin Late => mem'[r] = "none" /\ disk'[r].status = "none"
    BY <1>2, <2>1, <2>2, <2>6 DEF RunInv, Late, InFlight
  <2>12. RunInv(r)'
    BY <1>1, <1>2, <1>5, <2>9, <2>10, <2>11 DEF RunInv, Holds, Late, Ended
  <2>13. Doable(r) => Doable(r)'
    BY <1>1, <2>1, <2>6 DEF Doable, Ended
  <2>14. Holds(r)' => Revivable(r)
    BY <1>1, <1>2, <2>1, <2>6 DEF Holds, InFlight
  <2>15. \A q \in Runs : q # r => Same(q)
    BY <1>1, <2>5, <2>6, <2>7 DEF Same
  <2> QED
    BY <1>1, <1>3, <2>8, <2>9, <2>12, <2>13, <2>14, <2>15, EveryRun
<1> QED
  BY <1>4, <1>5 DEF ReconcileRun

-----------------------------------------------------------------------------
(* The theorems.                                                           *)

LEMMA KeylessInit == ASSUME Init PROVE KeylessInv
<1>1. KeylessType
  <2>1. NoMeta \in MetaRecord /\ NoSeal \in SealRecord
    BY DEF NoMeta, MetaRecord, NoSeal, SealRecord, Ended
  <2>2. NoFin \in FinRecord
    BY <2>1 DEF NoFin, FinRecord
  <2> QED
    BY <2>1, <2>2 DEF Init, KeylessType, Calls, Names
<1>2. JobInv
  BY DEF Init, JobInv
<1>3. NoMeta.status = "none"
  BY DEF NoMeta
<1>4. \A r \in Runs : RunInv(r) /\ ~Holds(r) /\ ~Revivable(r)
  BY <1>3 DEF Init, RunInv, Holds, Revivable, InFlight, Concluded, Late, Ended
<1>5. Slots = {}
  BY <1>4 DEF Slots
<1>6. Cardinality(Slots) <= MaxConcurrent
  BY <1>5, FS_EmptySet, KeylessAssumption
<1> QED
  BY <1>1, <1>2, <1>4, <1>6 DEF KeylessInv

LEMMA KeylessStep == ASSUME KeylessInv, [Next]_vars PROVE KeylessInv'
<1>1. ASSUME NEW r \in Runs, RunStep(r) PROVE KeylessInv'
  BY <1>1, AcquireInv, PrepareInv, RuntimeInv, RecordFailureInv, RecordRunningInv, PublishRunInv,
     WorkerInv, FinalizeInv, PublishEndInv, RecordEndInv, CleanupInv, ReconcileRunInv, ReconcileFailsInv
     DEF RunStep
<1>2. CASE JobStep
  BY <1>2, StartJobInv, PruneContainerInv, PruneDirectoryInv, SlimRunInv, IdleInv DEF JobStep
<1>3. CASE Crash
  BY <1>3, CrashInv
<1>4. CASE Tick \/ UNCHANGED vars
  BY <1>4, IdleInv
<1> QED
  BY <1>1, <1>2, <1>3, <1>4 DEF Next

LEMMA KeylessInvariant == Spec => []KeylessInv
BY KeylessInit, KeylessStep, PTL DEF Spec

\* At no time do more launches without a key hold a slot of their profile than
\* max_concurrent_runs allows, whatever crashes, failed calls and retention
\* commands come between (acquireProfileSlot, Reconcile).
THEOREM LimitIsKept == Spec => []SlotsWithinLimit
<1>1. ASSUME KeylessInv PROVE SlotsWithinLimit
  <2> DEFINE H == {r \in Runs : InFlight(r) \/ mem[r] = "running"}
  <2>1. H \subseteq Slots
    BY DEF Slots, Holds
  <2> HIDE DEF H
  <2>2. IsFiniteSet(Slots) /\ Cardinality(Slots) \in Nat
    BY SlotsFinite
  <2>3. Cardinality(H) <= Cardinality(Slots) /\ Cardinality(H) \in Nat
    BY <2>1, <2>2, FS_Subset, FS_CardinalityType
  <2>4. Cardinality(H) <= MaxConcurrent
    BY <1>1, <2>2, <2>3, KeylessAssumption DEF KeylessInv
  <2> QED
    BY <2>4 DEF SlotsWithinLimit, H
<1> QED
  BY <1>1, KeylessInvariant, PTL

\* A run that memory or metadata shows as ended has its terminal result, unless
\* retention or CleanupRun took it since the server started (finalizeTerminalRun,
\* Reconcile).
THEOREM ResultBeforeEnd == Spec => []EndedHasResult
<1>1. ASSUME KeylessInv PROVE EndedHasResult
  BY <1>1 DEF KeylessInv, RunInv, Concluded, EndedHasResult, up
<1> QED
  BY <1>1, KeylessInvariant, PTL

\* prune-runs and slim-runs touch the directory and the container of ended runs
\* only, although they act on a list made before (PruneRuns, SlimRuns).
THEOREM RetentionIsSafe == Spec => RetentionSparesLiveRuns
<1> DEFINE Spared == (PruneContainer \/ PruneDirectory \/ SlimRun) =>
                       \A r \in Runs : \/ disk[r].status \in Ended
                                       \/ files'[r] = files[r] /\ ctr'[r] = ctr[r]
<1>1. ASSUME KeylessInv PROVE Spared
  <2> SUFFICES ASSUME PruneContainer \/ PruneDirectory \/ SlimRun, NEW q \in Runs, disk[q].status \notin Ended
               PROVE  files'[q] = files[q] /\ ctr'[q] = ctr[q]
    OBVIOUS
  <2>1. PICK r \in Runs : r = Head(job.todo) /\ Doable(r)
    BY <1>1, AtHead
  <2>2. KeylessType
    BY <1>1 DEF KeylessInv
  <2>3. \/ files' = files
        \/ files' = [files EXCEPT ![r] = {}]
        \/ files[r] # {} /\ files' = [files EXCEPT ![r] = (@ \cap SlimKeeps) \cup {"manifest"}]
    BY <2>1 DEF PruneContainer, PruneDirectory, SlimRun, store
  <2>4. ctr' = ctr \/ ("metadata" \in files[r] /\ ctr' = [ctr EXCEPT ![r] = "none"])
    BY <2>1 DEF PruneContainer, PruneDirectory, SlimRun
  <2>5. CASE q = r
    <3>1. files[q] = {}
      BY <2>1, <2>5 DEF Doable
    <3>2. files'[q] = files[q]
      BY <2>2, <2>3, <2>5, <3>1 DEF KeylessType
    <3>3. ctr' = ctr
      BY <2>4, <2>5, <3>1
    <3> QED
      BY <3>2, <3>3
  <2>6. CASE q # r
    <3>1. files'[q] = files[q]
      BY <2>2, <2>3, <2>6 DEF KeylessType
    <3>2. ctr'[q] = ctr[q]
      BY <2>2, <2>4, <2>6 DEF KeylessType
    <3> QED
      BY <3>1, <3>2
  <2> QED
    BY <2>5, <2>6
<1> HIDE DEF Spared
<1>2. Spec => [][Spared]_vars
  BY <1>1, KeylessInvariant, PTL DEF Spec
<1> QED
  BY <1>2 DEF Spared, RetentionSparesLiveRuns
=============================================================================
