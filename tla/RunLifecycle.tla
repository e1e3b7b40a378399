---------------------------- MODULE RunLifecycle ----------------------------
(***************************************************************************)
(* The life of a sandbox run inside one sandbox-broker process: the Docker *)
(* container, the two files of the run directory (metadata.json and the    *)
(* terminal result), the row of the launch-intent database, the in-memory  *)
(* map s.runs, and the goroutines that may finalize the run: the exit and  *)
(* deadline watchers and the client's status, stop and cleanup calls.      *)
(* Launching and starting up are added by DurableLaunch.                   *)
(*                                                                         *)
(* Every durable write and every Docker call is a step of its own, so that *)
(* other goroutines and crashes fall between them.                         *)
(***************************************************************************)
EXTENDS Naturals, FiniteSets

CONSTANTS
    Runs,        \* run ids newRunID may generate
    ClientOps,   \* the run calls clients make: SUBSET {"poll","stop","cleanup"}
    MaxFaults    \* bound on failing Docker, database and file calls

ASSUME MaxFaultsNat == MaxFaults \in Nat

VARIABLES
    cont,        \* the container named sandbox-<run>
    starts,      \* history: how often the container was started
    metaFile,    \* status in <run>/metadata.json
    termFile,    \* status in the terminal result file
    istate,      \* launch_intents.state
    iout,        \* status in launch_intents.metadata_json ("absent": empty)
    runs,        \* s.runs
    fin,         \* s.finalizing, with the progress of its owner
    wk,          \* goroutines that work on a run
    overdue,     \* the deadline of the run has passed
    faults       \* failing calls so far

durable  == <<metaFile, termFile, istate, iout>>
docker   == <<cont, starts>>
lifeVars == <<cont, starts, metaFile, termFile, istate, iout, runs, fin, wk,
              overdue, faults>>

-----------------------------------------------------------------------------
(* A run's metadata is abstracted to its Status, split where FinalizeReason *)
(* or ContainerID matter: "made" is StatusPending with a ContainerID;       *)
(* "create_failed", "start_failed" and "missing" are StatusFailed with      *)
(* terminal source startup_failure.                                         *)

Terminal == {"completed", "failed", "timed_out", "stopped",
             "create_failed", "start_failed", "missing"}

Active == {"pending", "made", "running"}

Outcome == Terminal \cup Active

\* Metadata whose ContainerID is set.
HasContainerID(o) == o \notin {"pending", "create_failed", "absent"}

ContState == {"none", "created", "running", "exit0", "exit1"}
Exited    == {"exit0", "exit1"}

\* A container of which Inspect reports Running = false.
Halted == {"created"} \cup Exited

IntentState == {"absent", "intent_created", "create_pending",
                "container_created", "start_pending", "running", "terminal"}

Workers == {"exit", "timeout", "poll", "stop", "cleanup", "resume"}

WorkerState == {"off", "armed", "blocked", "busy", "failed"}

\* Mutant: the raw exit state is taken for the status.
ExitOutcomeRaw(c) == c

\* finalizeExitedRun: exit code zero completes the run, any other fails it.
\* Docker reports exit code zero for a container that was never started.
ExitOutcome(c) == IF c = "exit1" THEN "failed" ELSE "completed"

\* The progress of finalizeTerminalRun for a run: the goroutine that owns it,
\* its next step, and the metadata it will publish.
Steps     == {"idle", "update", "persist", "memory", "file", "store"}
Finalizer == [by: Workers \cup {"none"}, step: Steps,
              next: Terminal \cup {"running"}]

NotFinalizing == [by |-> "none", step |-> "idle", next |-> "running"]

LifeTypeOK ==
    /\ cont \in [Runs -> ContState]
    /\ starts \in [Runs -> Nat]
    /\ metaFile \in [Runs -> Outcome \cup {"absent"}]
    /\ termFile \in [Runs -> Terminal \cup {"absent"}]
    /\ istate \in [Runs -> IntentState]
    /\ iout \in [Runs -> Outcome \cup {"absent"}]
    /\ runs \in [Runs -> Outcome \cup {"absent"}]
    /\ fin \in [Runs -> Finalizer]
    /\ wk \in [Runs -> [Workers -> WorkerState]]
    /\ overdue \in [Runs -> BOOLEAN]
    /\ faults \in 0..MaxFaults

LifeInit ==
    /\ cont = [r \in Runs |-> "none"]
    /\ starts = [r \in Runs |-> 0]
    /\ metaFile = [r \in Runs |-> "absent"]
    /\ termFile = [r \in Runs |-> "absent"]
    /\ istate = [r \in Runs |-> "absent"]
    /\ iout = [r \in Runs |-> "pending"]
    /\ runs = [r \in Runs |-> "absent"]
    /\ fin = [r \in Runs |-> NotFinalizing]
    /\ wk = [r \in Runs |-> [w \in Workers |-> "off"]]
    /\ overdue = [r \in Runs |-> FALSE]
    /\ faults = 0

\* A failing call.  A step that makes several calls counts one fault however
\* many of them fail; a write that fails may have taken effect all the same.
Fault == faults < MaxFaults /\ faults' = faults + 1

-----------------------------------------------------------------------------
(* The environment: workers exit by themselves and time passes.            *)

WorkerExits(r) ==
    /\ cont[r] = "running"
    /\ \E c \in Exited : cont' = [cont EXCEPT ![r] = c]
    /\ UNCHANGED <<starts, durable, runs, fin, wk, overdue, faults>>

DeadlinePasses(r) ==
    /\ istate[r] # "absent" /\ ~overdue[r]
    /\ overdue' = [overdue EXCEPT ![r] = TRUE]
    /\ UNCHANGED <<docker, durable, runs, fin, wk, faults>>

-----------------------------------------------------------------------------
(* finalizeTerminalRun.                                                    *)

\* lookupRun: memory first, then the file, which it caches.
LookupRun(r) == IF runs[r] # "absent" THEN runs[r] ELSE metaFile[r]

\* The section under s.mu that claims s.finalizing, run by goroutine w.  When
\* another goroutine owns the claim, w waits for it and then returns whatever
\* that one left behind.
Claim(r, w, step, next) ==
    LET m == LookupRun(r) IN
    /\ runs' = [runs EXCEPT ![r] = m]
    /\ \/ /\ m # "running"
          /\ wk' = [wk EXCEPT ![r][w] = "off"]
          /\ UNCHANGED fin
       \/ /\ m = "running" /\ fin[r].by # "none"
          /\ wk' = [wk EXCEPT ![r][w] = "blocked"]
          /\ UNCHANGED fin
       \/ /\ m = "running" /\ fin[r].by = "none"
          /\ wk' = [wk EXCEPT ![r][w] = "busy"]
          /\ fin' = [fin EXCEPT ![r] = [by |-> w, step |-> step, next |-> next]]

\* The deferred function: give up the claim and close the channel, on which
\* every goroutine that waited returns.  Of the owners only resumeLaunchIntent
\* and Reconcile look at the error; the others log it or hand it to a client.
Release(r, result) ==
    /\ fin' = [fin EXCEPT ![r] = NotFinalizing]
    /\ wk' = [wk EXCEPT ![r] =
                [w \in Workers |->
                    IF w = fin[r].by
                    THEN IF w = "resume" THEN result ELSE "off"
                    ELSE IF wk[r][w] = "blocked" THEN "off" ELSE wk[r][w]]]

\* What Docker may have done to a container when a call to stop it failed.
MaybeStopped(r) ==
    {cont} \cup {[cont EXCEPT ![r] = c] :
                    c \in IF cont[r] = "running" THEN Exited ELSE {}}

Advance(r, step) ==
    fin' = [fin EXCEPT ![r].step = step] /\ UNCHANGED wk

\* Mutant: the result file is not written before the status is published.
DecideWithoutResult(r, next) ==
    fin' = [fin EXCEPT ![r] = [@ EXCEPT !.step = "memory", !.next = next]] /\ UNCHANGED wk

Decide(r, next) ==
    fin' = [fin EXCEPT ![r] = [@ EXCEPT !.step = "persist", !.next = next]] /\ UNCHANGED wk

\* update = markTimedOut (deadline watcher, status poll or startup scan): the
\* outcome of a container that has exited already, else stop it.
MarkTimedOut(r) ==
    /\ fin[r].step = "update" /\ fin[r].by # "stop"
    /\ \/ /\ cont[r] \in Halted
          /\ Decide(r, ExitOutcome(cont[r]))
          /\ UNCHANGED <<cont, faults>>
       \/ /\ cont[r] = "running"
          /\ Decide(r, "timed_out")
          /\ \E c \in Exited : cont' = [cont EXCEPT ![r] = c]
          /\ UNCHANGED faults
       \/ /\ cont[r] = "none"                  \* deadline_stop_failed
          /\ Decide(r, "timed_out")
          /\ UNCHANGED <<cont, faults>>
       \/ /\ Fault                             \* deadline_stop_failed
          /\ Decide(r, "timed_out")
          /\ cont' \in MaybeStopped(r)
    /\ UNCHANGED <<starts, durable, runs, overdue>>

\* update = the closure of StopAgent.  Docker answers 304 for a container that
\* has exited and 404 for one that is gone: both are errors, and the closure
\* leaves the run running.
StopUpdate(r) ==
    /\ fin[r].step = "update" /\ fin[r].by = "stop"
    /\ \/ /\ cont[r] = "running"
          /\ Decide(r, "stopped")
          /\ \E c \in Exited : cont' = [cont EXCEPT ![r] = c]
          /\ UNCHANGED faults
       \/ /\ cont[r] # "running"
          /\ Release(r, "off")
          /\ UNCHANGED <<cont, faults>>
       \/ /\ Fault
          /\ Release(r, "off")
          /\ cont' \in MaybeStopped(r)
    /\ UNCHANGED <<starts, durable, runs, overdue>>

\* persistTerminalResult writes into the run directory and fails without it.
PersistTerminal(r) ==
    LET written == [termFile EXCEPT ![r] = fin[r].next] IN
    /\ fin[r].step = "persist"
    /\ \/ /\ metaFile[r] # "absent"
          /\ termFile' = written
          /\ Advance(r, "memory")
          /\ UNCHANGED faults
       \/ /\ metaFile[r] = "absent"
          /\ Release(r, "failed")
          /\ UNCHANGED <<termFile, faults>>
       \/ /\ metaFile[r] # "absent" /\ Fault
          /\ Release(r, "failed")
          /\ termFile' \in {termFile, written}
    /\ UNCHANGED <<docker, metaFile, istate, iout, runs, overdue>>

\* The second section under s.mu.
PublishInMemory(r) ==
    /\ fin[r].step = "memory"
    /\ \/ /\ runs[r] \in {"absent", "running"}
          /\ runs' = [runs EXCEPT ![r] = fin[r].next]
          /\ Advance(r, "file")
       \/ /\ runs[r] \notin {"absent", "running"}
          /\ Release(r, "off")
          /\ UNCHANGED runs
    /\ UNCHANGED <<docker, durable, overdue, faults>>

\* writeMetadataFile recreates the run directory when it is gone.
WriteMetadata(r) ==
    LET written == [metaFile EXCEPT ![r] = fin[r].next] IN
    /\ fin[r].step = "file"
    /\ \/ metaFile' = written /\ Advance(r, "store") /\ UNCHANGED faults
       \/ Fault /\ Release(r, "failed") /\ metaFile' \in {metaFile, written}
    /\ UNCHANGED <<docker, termFile, istate, iout, runs, overdue>>

\* LaunchIntentStore.SaveMetadata and Save: an UPDATE of the run's row, which
\* makes no row where there is none.
SaveIntent(r, state, out) ==
    /\ istate' = [istate EXCEPT ![r] = IF @ = "absent" THEN @ ELSE state]
    /\ iout' = [iout EXCEPT ![r] = IF istate[r] = "absent" THEN @ ELSE out]

SaveFinal(r) ==
    /\ fin[r].step = "store"
    /\ \/ /\ SaveIntent(r, "terminal", fin[r].next)
          /\ Release(r, "off")
          /\ UNCHANGED faults
       \/ /\ Fault
          /\ Release(r, "failed")
          /\ \/ SaveIntent(r, "terminal", fin[r].next)
             \/ UNCHANGED <<istate, iout>>
    /\ UNCHANGED <<docker, metaFile, termFile, runs, overdue>>

\* A waiting goroutine whose context ends returns without the result.
GiveUp(r) ==
    /\ \E w \in {"timeout", "poll", "stop", "resume"} :
          /\ wk[r][w] = "blocked"
          /\ wk' = [wk EXCEPT ![r][w] = IF w = "resume" THEN "failed" ELSE "off"]
    /\ UNCHANGED <<docker, durable, runs, fin, overdue, faults>>

-----------------------------------------------------------------------------
(* The goroutines that lead to it.                                         *)

\* go watchTimeout and go watchExit.  A run may get a second pair only when
\* the first has returned: both are started once per process and run.
Arm(r) ==
    wk' = [wk EXCEPT ![r] = [@ EXCEPT !["exit"] = "armed", !["timeout"] = "armed"]]

\* watchExit: Wait returns the status of a container that has exited.  When it
\* fails, and Inspect does not show an exited container either, the goroutine
\* ends and leaves the run running.
WatchExit(r) ==
    /\ wk[r]["exit"] = "armed"
    /\ \/ /\ cont[r] \in Halted
          /\ Claim(r, "exit", "persist", ExitOutcome(cont[r]))
          /\ UNCHANGED faults
       \/ /\ \/ cont[r] = "none" /\ UNCHANGED faults
             \/ Fault
          /\ wk' = [wk EXCEPT ![r]["exit"] = "off"]
          /\ UNCHANGED <<runs, fin>>
    /\ UNCHANGED <<docker, durable, overdue>>

\* watchTimeout
WatchTimeout(r) ==
    /\ wk[r]["timeout"] = "armed" /\ overdue[r]
    /\ Claim(r, "timeout", "update", "running")
    /\ UNCHANGED <<docker, durable, overdue, faults>>

\* Clients learn of a run from a launch response or a listing, so from s.runs.
ClientCall(r, op) ==
    /\ op \in ClientOps
    /\ runs[r] # "absent" /\ wk[r][op] = "off"

\* GetAgentStatus
GetAgentStatus(r) ==
    /\ ClientCall(r, "poll") /\ runs[r] = "running"
    /\ \/ /\ cont[r] = "running" /\ overdue[r]
          /\ Claim(r, "poll", "update", "running")
       \/ /\ cont[r] \in Halted
          /\ Claim(r, "poll", "persist", ExitOutcome(cont[r]))
    /\ UNCHANGED <<docker, durable, overdue, faults>>

\* StopAgent
StopAgent(r) ==
    /\ ClientCall(r, "stop") /\ runs[r] = "running"
    /\ Claim(r, "stop", "update", "running")
    /\ UNCHANGED <<docker, durable, overdue, faults>>

\* CleanupRun removes the container of the metadata it looked up ...
CleanupContainer(r) ==
    /\ ClientCall(r, "cleanup")
    /\ \/ /\ cont' = IF HasContainerID(runs[r])
                     THEN [cont EXCEPT ![r] = "none"] ELSE cont
          /\ wk' = [wk EXCEPT ![r]["cleanup"] = "busy"]
          /\ UNCHANGED faults
       \/ Fault /\ UNCHANGED <<cont, wk>>
    /\ UNCHANGED <<starts, durable, runs, fin, overdue>>

\* ... and then the run directory and the entry of s.runs.  The row of the
\* launch-intent database is left alone.
CleanupDirectory(r) ==
    /\ wk[r]["cleanup"] = "busy"
    /\ wk' = [wk EXCEPT ![r]["cleanup"] = "off"]
    /\ \/ /\ metaFile' = [metaFile EXCEPT ![r] = "absent"]
          /\ termFile' = [termFile EXCEPT ![r] = "absent"]
          /\ runs' = [runs EXCEPT ![r] = "absent"]
          /\ UNCHANGED faults
       \/ Fault /\ UNCHANGED <<metaFile, termFile, runs>>
    /\ UNCHANGED <<docker, istate, iout, fin, overdue>>

Finalize(r) ==
    \/ MarkTimedOut(r)
    \/ StopUpdate(r)
    \/ PersistTerminal(r)
    \/ PublishInMemory(r)
    \/ WriteMetadata(r)
    \/ SaveFinal(r)

Watch(r) == WatchExit(r) \/ WatchTimeout(r) \/ CleanupDirectory(r)

Client(r) == GetAgentStatus(r) \/ StopAgent(r) \/ CleanupContainer(r) \/ GiveUp(r)

=============================================================================
