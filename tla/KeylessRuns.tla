----------------------------- MODULE KeylessRuns -----------------------------
(***************************************************************************)
(* Runs launched without an Idempotency-Key, their terminal results, and   *)
(* the prune-runs and slim-runs commands that work on the same run         *)
(* directories from a process of their own.                                *)
(*                                                                         *)
(* The server keeps s.runs in memory (mem) and a directory per run on disk *)
(* (files, disk for metadata.json, sealed for terminal-result.json); the   *)
(* commands read the disk only, so everything they decide on may have      *)
(* changed when they act.  A run identifier is a number that grows with    *)
(* the launches: newRunID begins it with the time, and the commands order  *)
(* runs of the same age by it.                                             *)
(* Finalization is RunLifecycle's subject; here it is reduced to the       *)
(* order of its three writes, result, memory, metadata.                    *)
(***************************************************************************)
EXTENDS Integers, Sequences, FiniteSets, FiniteSetsExt

CONSTANTS
    Runs,          \* identifiers of the runs that may be launched
    MaxConcurrent, \* max_concurrent_runs of the launch profile
    Deliverables,  \* the configured deliverables, among Outputs
    Products,      \* the sets of outputs a worker may leave
    Policies,      \* the flags the commands may be given
    MaxTime,       \* bound on the clock
    CallsFail,     \* whether calls may fail; otherwise there are only crashes
    MaxFaults      \* bound on failing calls and crashes together; what fails
                   \* while a failure or a restart is dealt with is not counted

ASSUME KeylessAssumption ==
    /\ Runs \subseteq Nat /\ IsFiniteSet(Runs)
    /\ MaxConcurrent \in Nat \ {0} /\ MaxFaults \in Nat /\ CallsFail \in BOOLEAN
    /\ Deliverables \in SUBSET {"result", "summary", "lesson"}
    /\ Products \subseteq SUBSET {"result", "summary", "lesson"}
    /\ Policies \subseteq [keep : Nat, age : Int, bytes : Nat]

VARIABLES
    files,   \* run -> the files of its directory; {} when there is none
    disk,    \* run -> metadata.json
    sealed,  \* run -> terminal-result.json
    mem,     \* run -> the status s.runs shows
    ctr,     \* run -> the state of its container
    call,    \* run -> how far the launch call has come
    fin,     \* run -> a finalization that is writing
    boot,    \* runs whose directory Reconcile has yet to look at
    job,     \* the running prune-runs or slim-runs command
    reduced, \* runs slimmed, pruned or cleaned since the server last started
    clock, faults

server == <<mem, call, fin, boot>>
store  == <<files, disk, sealed>>
vars   == <<files, disk, sealed, mem, ctr, call, fin, boot, job, reduced,
            clock, faults>>

Outputs == {"result", "summary", "lesson"}

Ended   == {"completed", "failed", "stopped", "timed_out"}
NoMeta  == [status |-> "none", ended |-> 0]
NoSeal  == [status |-> "none", outcome |-> "none"]
NoFin   == [at |-> "none", meta |-> NoMeta]
NoJob   == [cmd |-> "none"]

\* Requests are served once Reconcile has returned.
up == boot = {}

InFlight(r) == call[r] \notin {"new", "done"}
Fails       == CallsFail /\ faults < MaxFaults /\ faults' = faults + 1
Meta(s)     == [status |-> s, ended |-> clock]

(***************************************************************************)
(* The terminal result.                                                    *)
(***************************************************************************)
FallbackOutcome(s) == IF s \in {"timed_out", "stopped"} THEN s ELSE "failed"

\* The worker's own outcome counts only when both of its files can be read;
\* an absent, malformed or oversized file counts as absent.
Project(s, fs) ==
    [status  |-> s,
     outcome |-> IF {"result", "summary"} \subseteq fs THEN "ready"
                 ELSE FallbackOutcome(s)]

(***************************************************************************)
(* launchAgent.                                                            *)
(***************************************************************************)
ActiveUnreserved ==
    Cardinality({r \in Runs : mem[r] = "running"})

\* The runs that hold a slot: active in s.runs, or a launch that has not
\* returned (profileReservations).
SlotsTaken ==
    Cardinality({r \in Runs : mem[r] = "running"})
      + Cardinality({r \in Runs : InFlight(r)})

AcquireProfileSlot(r) ==
    /\ up /\ call[r] = "new" /\ \A q \in Runs : q < r => call[q] # "new"
    /\ SlotsTaken < MaxConcurrent
    /\ call' = [call EXCEPT ![r] = "slot"]
    /\ UNCHANGED <<store, mem, ctr, fin, boot, job, reduced, clock, faults>>

\* Directories, knowledge snapshots and task inputs; then the capability.
\* A failure returns and leaves what was written.
PrepareRun(r) ==
    /\ up /\ call[r] = "slot"
    /\ files' = [files EXCEPT ![r] = {"input", "work"}]
    /\ \/ call' = [call EXCEPT ![r] = "prepared"] /\ UNCHANGED faults
       \/ /\ Fails
          /\ call' = [call EXCEPT ![r] = "done"]
    /\ UNCHANGED <<disk, sealed, mem, ctr, fin, boot, job, reduced, clock>>

\* The result first; when that cannot be written the launch returns at once.
SealFailure(r) ==
    /\ Fails
    /\ \/ /\ sealed' = [sealed EXCEPT ![r] = [status |-> "failed", outcome |-> "failed"]]
          /\ call' = [call EXCEPT ![r] = "failed"]
       \/ /\ call' = [call EXCEPT ![r] = "done"]
          /\ UNCHANGED sealed

RuntimeCreate(r) ==
    /\ up /\ call[r] = "prepared"
    /\ \/ /\ ctr' = [ctr EXCEPT ![r] = "created"]
          /\ call' = [call EXCEPT ![r] = "created"]
          /\ UNCHANGED <<sealed, faults>>
       \/ SealFailure(r) /\ UNCHANGED ctr
    /\ UNCHANGED <<files, disk, mem, fin, boot, job, reduced, clock>>

\* A container that does not start stays created.
RuntimeStart(r) ==
    /\ up /\ call[r] = "created"
    /\ \/ /\ ctr' = [ctr EXCEPT ![r] = "running"]
          /\ call' = [call EXCEPT ![r] = "started"]
          /\ UNCHANGED <<sealed, faults>>
       \/ SealFailure(r) /\ UNCHANGED ctr
    /\ UNCHANGED <<files, disk, mem, fin, boot, job, reduced, clock>>

RecordFailure(r) ==
    /\ up /\ call[r] = "failed"
    /\ \/ /\ files' = [files EXCEPT ![r] = @ \cup {"metadata"}]
          /\ disk' = [disk EXCEPT ![r] = Meta("failed")]
          /\ mem' = [mem EXCEPT ![r] = "failed"]
       \/ UNCHANGED <<files, disk, mem>>
    /\ call' = [call EXCEPT ![r] = "done"]
    /\ UNCHANGED <<sealed, ctr, fin, boot, job, reduced, clock, faults>>

\* writeMetadata of the started run: the file first.  When that fails the
\* launch returns the error and the worker goes on without metadata.
RecordRunning(r) ==
    /\ up /\ call[r] = "started"
    /\ \/ /\ files' = [files EXCEPT ![r] = @ \cup {"metadata"}]
          /\ disk' = [disk EXCEPT ![r] = [status |-> "running", ended |-> 0]]
          /\ call' = [call EXCEPT ![r] = "recorded"]
          /\ UNCHANGED faults
       \/ /\ Fails
          /\ call' = [call EXCEPT ![r] = "done"]
          /\ UNCHANGED <<files, disk>>
    /\ UNCHANGED <<sealed, mem, ctr, fin, boot, job, reduced, clock>>

\* writeMetadata publishes the run, and launchAgent publishes it again before
\* it starts the watchers and gives the slot back.
PublishRun(r) ==
    /\ up /\ call[r] \in {"recorded", "published"}
    /\ mem' = [mem EXCEPT ![r] = "running"]
    /\ call' = [call EXCEPT ![r] = IF @ = "recorded" THEN "published" ELSE "done"]
    /\ UNCHANGED <<store, ctr, fin, boot, job, reduced, clock, faults>>

\* The worker writes its files while it runs, and exits.
WorkerWrites(r) ==
    /\ ctr[r] = "running" /\ files[r] # {} /\ files[r] \cap Outputs = {}
    /\ \E fs \in Products : files' = [files EXCEPT ![r] = @ \cup fs]
    /\ UNCHANGED <<disk, sealed, server, ctr, job, reduced, clock, faults>>

WorkerExits(r) ==
    /\ ctr[r] = "running"
    /\ ctr' = [ctr EXCEPT ![r] = "exited"]
    /\ UNCHANGED <<store, server, job, reduced, clock, faults>>

(***************************************************************************)
(* The end of a run.                                                       *)
(***************************************************************************)
ExitStatus(r) == IF "result" \in files[r] THEN "completed" ELSE "failed"

FinalizeUnsealed(r, s) ==
    /\ fin' = [fin EXCEPT ![r] = [at |-> "publish", meta |-> Meta(s)]]
    /\ UNCHANGED sealed

\* finalizeTerminalRun claims a running run, takes its final state from the
\* caller's update, and preserves the terminal result before anyone sees it.
Finalize(r, s) ==
    /\ fin' = [fin EXCEPT ![r] = [at |-> "publish", meta |-> Meta(s)]]
    /\ sealed' = [sealed EXCEPT ![r] = Project(s, files[r])]

\* s.runs holds the run, so Reconcile is past it: the watchers it starts may
\* end the run while it looks at the next directories.
Claimable(r) == mem[r] = "running" /\ fin[r] = NoFin

\* The exit watcher, or a status poll that finds the container stopped.
FinalizeExit(r) ==
    /\ Claimable(r) /\ ctr[r] = "exited"
    /\ Finalize(r, ExitStatus(r))
    /\ UNCHANGED <<files, disk, mem, ctr, call, boot, job, reduced, clock, faults>>

StopAgent(r) ==
    /\ up /\ Claimable(r) /\ ctr[r] = "running"
    /\ ctr' = [ctr EXCEPT ![r] = "exited"]
    /\ Finalize(r, "stopped")
    /\ UNCHANGED <<files, disk, mem, call, boot, job, reduced, clock, faults>>

\* The deadline ends the run even when Docker does not stop the container.
DeadlineFires(r) ==
    /\ Claimable(r) /\ ctr[r] = "running"
    /\ Finalize(r, "timed_out")
    /\ \/ ctr' = [ctr EXCEPT ![r] = "exited"] /\ UNCHANGED faults
       \/ Fails /\ UNCHANGED ctr
    /\ UNCHANGED <<files, disk, mem, call, boot, job, reduced, clock>>

\* s.runs takes the final state if the run is still running there (or gone).
PublishEnd(r) ==
    /\ fin[r].at = "publish"
    /\ IF mem[r] \in Ended
         THEN fin' = [fin EXCEPT ![r] = NoFin] /\ UNCHANGED mem
         ELSE /\ mem' = [mem EXCEPT ![r] = fin[r].meta.status]
              /\ fin' = [fin EXCEPT ![r].at = "file"]
    /\ UNCHANGED <<store, ctr, call, boot, job, reduced, clock, faults>>

\* writeMetadataFile makes the directory again when it is gone.
RecordEnd(r) ==
    /\ fin[r].at = "file"
    /\ \/ /\ files' = [files EXCEPT ![r] = @ \cup {"metadata"}]
          /\ disk' = [disk EXCEPT ![r] = fin[r].meta]
          /\ UNCHANGED faults
       \/ /\ Fails
          /\ UNCHANGED <<files, disk>>
    /\ fin' = [fin EXCEPT ![r] = NoFin]
    /\ UNCHANGED <<sealed, mem, ctr, call, boot, job, reduced, clock>>

\* CleanupRun for a caller: container, directory and entry go, whatever the
\* state of the run; a finalization under way writes its metadata again.
CleanupRun(r) ==
    /\ up /\ (mem[r] # "none" \/ "metadata" \in files[r])
    /\ ctr' = [ctr EXCEPT ![r] = "none"]
    /\ files' = [files EXCEPT ![r] = {}]
    /\ disk' = [disk EXCEPT ![r] = NoMeta]
    /\ sealed' = [sealed EXCEPT ![r] = NoSeal]
    /\ mem' = [mem EXCEPT ![r] = "none"]
    /\ reduced' = reduced \cup {r}
    /\ UNCHANGED <<call, fin, boot, job, clock, faults>>

(***************************************************************************)
(* Crash and restart of the server.                                        *)
(***************************************************************************)
\* Memory goes; what is on disk and the containers stay.
Restarted ==
    /\ boot' = Runs
    /\ mem' = [r \in Runs |-> "none"]
    /\ fin' = [r \in Runs |-> NoFin]
    /\ call' = [r \in Runs |-> IF InFlight(r) THEN "done" ELSE call[r]]

Crash ==
    /\ faults < MaxFaults /\ faults' = faults + 1
    /\ Restarted
    /\ UNCHANGED <<store, ctr, job, reduced, clock>>

\* What Reconcile makes of metadata that says running.
Reconciled(r, expired) ==
    IF disk[r].status # "running" THEN disk[r]
    ELSE IF ctr[r] = "none" THEN Meta("failed")
    ELSE IF ctr[r] # "running" THEN Meta(ExitStatus(r))
    ELSE IF expired THEN Meta("timed_out")
    ELSE disk[r]

\* Whether the result is written for the state m: at the end of a run that was
\* running, and to backfill one that is missing.
Seals(r, m) == m.status \in Ended /\ (disk[r].status = "running" \/ sealed[r] = NoSeal)

\* markTimedOut: the run has ended even when Docker does not stop the container.
StopsExpired(r, m) ==
    \/ ctr' = [ctr EXCEPT ![r] = IF @ = "running" /\ m # disk[r] THEN "exited" ELSE @]
    \/ ctr[r] = "running" /\ m # disk[r] /\ CallsFail /\ UNCHANGED ctr

\* Reconcile takes the directories in the order of their names, skips one
\* without readable metadata, ends a run whose worker is gone or whose deadline
\* has passed (as it has when that was sealed), and puts it into s.runs.
ReconcileRun(r) ==
    /\ r \in boot /\ \A q \in boot : r <= q
    /\ boot' = boot \ {r} /\ reduced' = reduced \ {r}
    /\ \/ "metadata" \notin files[r] /\ UNCHANGED <<disk, sealed, mem, ctr>>
       \/ \E expired \in BOOLEAN :
            LET m == Reconciled(r, expired) IN
            /\ "metadata" \in files[r] /\ (sealed[r].status = "timed_out" => expired)
            /\ mem' = [mem EXCEPT ![r] = m.status]
            /\ disk' = [disk EXCEPT ![r] = m]
            /\ sealed' = [sealed EXCEPT ![r] = IF Seals(r, m) THEN Project(m.status, files[r]) ELSE @]
            /\ StopsExpired(r, m)
    /\ UNCHANGED <<files, call, fin, job, clock, faults>>

\* A failing write ends Reconcile and with it the server, which is started
\* again: of a run being ended the result may be there, its metadata not.
ReconcileFails(r) ==
    /\ r \in boot /\ \A q \in boot : r <= q
    /\ "metadata" \in files[r] /\ CallsFail
    /\ Restarted
    /\ \/ UNCHANGED <<sealed, ctr>>
       \/ \E expired \in BOOLEAN :
            LET m == Reconciled(r, expired) IN
            /\ m # disk[r] /\ (sealed[r].status = "timed_out" => expired)
            /\ ctr' = [ctr EXCEPT ![r] = IF @ = "running" THEN "exited" ELSE @]
            /\ \/ sealed' = [sealed EXCEPT ![r] = Project(m.status, files[r])]
               \/ UNCHANGED sealed
    /\ UNCHANGED <<files, disk, job, reduced, clock, faults>>

(***************************************************************************)
(* prune-runs and slim-runs.                                               *)
(***************************************************************************)
Size(r) == Cardinality(files[r]) + (IF sealed[r] = NoSeal THEN 0 ELSE 1)

EligibleUnread(r) == files[r] # {} /\ disk[r].status # "running"

\* A run whose metadata cannot be read, or says it is active, is skipped.
Eligible(r) == "metadata" \in files[r] /\ disk[r].status \in Ended

Newer(q, r) == \/ disk[q].ended > disk[r].ended
               \/ disk[q].ended = disk[r].ended /\ q < r
Older(q, r) == \/ disk[q].ended < disk[r].ended
               \/ disk[q].ended = disk[r].ended /\ q < r

MaxAgeReached(p, r) == p.age < 0 \/ clock - disk[r].ended >= p.age

\* Old enough, and not among the newest that are kept.
Selected(p) ==
    {r \in Runs : /\ Eligible(r)
                  /\ Cardinality({q \in Runs : Eligible(q) /\ Newer(q, r)}) >= p.keep
                  /\ MaxAgeReached(p, r)}

Total(R) == MapThenSumSet(Size, R)

OverBudget(p) == p.bytes > 0 /\ Total(Selected(p)) > p.bytes


\* Over the budget the oldest go until the rest fits; otherwise all of them.
Doomed(p) ==
    IF OverBudget(p)
      THEN {r \in Selected(p) :
              Total(Selected(p)) - Total({q \in Selected(p) : Older(q, r)}) > p.bytes}
      ELSE Selected(p)

\* The doomed runs in the order they are worked on.
InOrder(p, todo) ==
    \A i, j \in DOMAIN todo : i < j =>
        IF OverBudget(p) THEN Older(todo[i], todo[j]) ELSE Newer(todo[i], todo[j])

\* A scan that finds nothing to do, and a dry run, only report.
StartJob(cmd, p) ==
    /\ job = NoJob /\ Doomed(p) # {}
    /\ \E todo \in [1..Cardinality(Doomed(p)) -> Doomed(p)] :
         /\ InOrder(p, todo)
         /\ job' = [cmd |-> cmd, budget |-> IF OverBudget(p) THEN p.bytes ELSE 0,
                    size |-> [r \in Selected(p) |-> Size(r)],
                    failed |-> FALSE, deleted |-> {}, at |-> "run", todo |-> todo]
    /\ UNCHANGED <<store, server, ctr, reduced, clock, faults>>

JobDone == [job EXCEPT !.todo = Tail(@), !.at = "run", !.deleted = @ \cup {Head(job.todo)}]
JobFailed == [job EXCEPT !.todo = Tail(@), !.at = "run", !.failed = TRUE]

\* CleanupRun in the command's own process: its s.runs is empty, so the run is
\* read from disk; the container goes first.
PruneContainer ==
    /\ job.cmd = "prune" /\ job.todo # <<>> /\ job.at = "run"
    /\ LET r == Head(job.todo) IN
         \/ /\ "metadata" \in files[r]
            /\ ctr' = [ctr EXCEPT ![r] = "none"]
            /\ job' = [job EXCEPT !.at = "dir"]
            /\ UNCHANGED faults
         \/ /\ "metadata" \notin files[r]
            /\ job' = JobFailed
            /\ UNCHANGED <<ctr, faults>>
         \/ /\ Fails
            /\ job' = JobFailed
            /\ UNCHANGED ctr
    /\ UNCHANGED <<store, server, reduced, clock>>

PruneDirectory ==
    /\ job.cmd = "prune" /\ job.todo # <<>> /\ job.at = "dir"
    /\ LET r == Head(job.todo) IN
         \/ /\ files' = [files EXCEPT ![r] = {}]
            /\ disk' = [disk EXCEPT ![r] = NoMeta]
            /\ sealed' = [sealed EXCEPT ![r] = NoSeal]
            /\ reduced' = reduced \cup {r}
            /\ job' = JobDone
            /\ UNCHANGED faults
         \/ /\ Fails
            /\ job' = JobFailed
            /\ UNCHANGED <<store, reduced>>
    /\ UNCHANGED <<server, ctr, clock>>

\* isSlimKeptPath keeps a listed path and the directories above it: the input
\* directory stays and is emptied, and terminal-result.json is not listed.
SlimKeeps == {"metadata", "manifest"} \cup Deliverables

\* shrinkRunDirectory, on the metadata the scan read.
SlimRun ==
    /\ job.cmd = "slim" /\ job.todo # <<>>
    /\ LET r == Head(job.todo) IN
         IF files[r] = {}
           THEN job' = JobFailed /\ UNCHANGED <<files, sealed, reduced>>
           ELSE /\ files' = [files EXCEPT ![r] = (@ \cap SlimKeeps) \cup {"manifest"}]
                /\ sealed' = [sealed EXCEPT ![r] = NoSeal]
                /\ reduced' = reduced \cup {r}
                /\ job' = JobDone
    /\ UNCHANGED <<disk, server, ctr, clock, faults>>

\* The command prints its report, or is killed before that.
JobEnds ==
    /\ job # NoJob /\ job.todo = <<>>
    /\ job' = NoJob
    /\ UNCHANGED <<store, server, ctr, reduced, clock, faults>>

JobKilled ==
    /\ job # NoJob /\ job.todo # <<>> /\ Fails
    /\ job' = NoJob
    /\ UNCHANGED <<store, server, ctr, reduced, clock>>

\* Ages count from the end of a run.
Tick ==
    /\ clock < MaxTime /\ \E r \in Runs : Eligible(r)
    /\ clock' = clock + 1
    /\ UNCHANGED <<store, server, ctr, job, reduced, faults>>

-----------------------------------------------------------------------------
Init ==
    /\ files = [r \in Runs |-> {}]
    /\ disk = [r \in Runs |-> NoMeta]
    /\ sealed = [r \in Runs |-> NoSeal]
    /\ mem = [r \in Runs |-> "none"]
    /\ ctr = [r \in Runs |-> "none"]
    /\ call = [r \in Runs |-> "new"]
    /\ fin = [r \in Runs |-> NoFin]
    /\ boot = {}
    /\ job = NoJob
    /\ reduced = {}
    /\ clock = 0 /\ faults = 0

RunStep(r) ==
    \/ AcquireProfileSlot(r) \/ PrepareRun(r) \/ RuntimeCreate(r) \/ RuntimeStart(r)
    \/ RecordFailure(r) \/ RecordRunning(r) \/ PublishRun(r)
    \/ WorkerWrites(r) \/ WorkerExits(r)
    \/ FinalizeExit(r) \/ StopAgent(r) \/ DeadlineFires(r)
    \/ PublishEnd(r) \/ RecordEnd(r) \/ CleanupRun(r)
    \/ ReconcileRun(r) \/ ReconcileFails(r)

JobStep ==
    \/ \E cmd \in {"prune", "slim"}, p \in Policies : StartJob(cmd, p)
    \/ PruneContainer \/ PruneDirectory \/ SlimRun \/ JobEnds \/ JobKilled

Next == (\E r \in Runs : RunStep(r)) \/ JobStep \/ Crash \/ Tick

Spec == Init /\ [][Next]_vars

-----------------------------------------------------------------------------
\* The launches without a key that are under way or whose run is active never
\* exceed max_concurrent_runs: acquireProfileSlot counts and reserves in one
\* critical section and the slot is held until the run is in s.runs.
SlotsWithinLimit ==
    Cardinality({r \in Runs : InFlight(r) \/ mem[r] = "running"}) <= MaxConcurrent

\* The commands remove or shrink the directory and the container of ended runs
\* only, although the server launches and ends runs between their scan and
\* their work (PruneRuns, SlimRuns).
RetentionSparesLiveRuns ==
    [][ (PruneContainer \/ PruneDirectory \/ SlimRun) =>
          \A r \in Runs : \/ disk[r].status \in Ended
                          \/ files'[r] = files[r] /\ ctr'[r] = ctr[r] ]_vars


\* A run the server or its metadata shows as ended has its terminal result,
\* unless a command or CleanupRun took it since the server started: the result is written
\* first, and a restart backfills what a crash or slim-runs left out.
EndedHasResult ==
    up => \A r \in Runs :
            ("metadata" \in files[r] /\ {mem[r], disk[r].status} \cap Ended # {})
               => sealed[r] # NoSeal \/ r \in reduced

\* "Startup must reconcile orphaned state: Running container with missing
\* metadata": once the server is up a worker runs only with metadata, or for a
\* launch that has yet to write it (Reconcile).
OrphansReconciled ==
    up => \A r \in Runs :
            ctr[r] = "running" => "metadata" \in files[r] \/ InFlight(r)
=============================================================================
