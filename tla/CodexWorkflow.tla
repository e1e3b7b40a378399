---------------------------- MODULE CodexWorkflow ----------------------------
(***************************************************************************)
(* The Codex issue workflow of the sandbox-broker (codex_workflow.go): one *)
(* run goes through a preparation, an execution and a delivery container,  *)
(* with one recovery validation when the delivery finds its lease stale,   *)
(* and may wait for GitHub in between.                                     *)
(*                                                                         *)
(* A launch, its replays and Reconcile work under the lock of the          *)
(* Idempotency-Key, phase watchers and ResumeRun under the run's codex     *)
(* lock, a stop and the deadline watchers under s.finalizing: one goroutine *)
(* of each kind can be at work on the run at a time.                       *)
(***************************************************************************)
EXTENDS CredentialHolder, Integers, FiniteSets

CONSTANTS
    MaxResumes,     \* bound on POST /v1/runs/{id}/resume
    MaxTroubles     \* bound on crashes, failing writes and Docker calls, stops,
                    \* deadlines, repeated calls and refreshes, together

ASSUME CodexAssumption == MaxResumes \in Nat /\ MaxTroubles \in Nat

VARIABLES
    row,            \* the launch_intents row: state and metadata
    file,           \* metadata.json
    mem,            \* s.runs
    conts,          \* the containers of the run
    shm,            \* the execution container's tmpfs: its credential file
    th,             \* the goroutines that drive the workflow, by lock
    fin,            \* the goroutine in finalizeTerminalRun
    watch,          \* phase watchers by container
    timers,         \* deadline watchers by deadline
    proc,           \* the process: down, boot (in Reconcile), up
    invoked,        \* history: executions that accepted a credential
    gaveUp,         \* history: a goroutine gave up because a write failed
    replayed,       \* history: a launch or resume call was repeated
    troubles        \* crashes, failures, stops, repeats and refreshes so far

codexVars == <<row, file, mem, conts, shm, th, fin, watch, timers, proc, invoked, gaveUp, replayed>>
vars      == <<holderVars, codexVars, troubles>>

Stages   == {"prep", "exec", "rec", "del"}
Steps    == {"create", "start", "inject", "accept", "running", "term"}
Terminal == {"completed", "failed", "stopped", "timed_out"}
Statuses == Terminal \cup {"absent", "pending", "running", "waiting"}
Locks    == {"key", "codex"}
Attempts == 1..(MaxResumes + 2)
CIDs     == ({"prep", "del"} \X Attempts) \cup {<<"exec", 1>>, <<"rec", 1>>}

\* How a container ends, read from its exit code and the result files it left:
\* verified success, a valid report that GitHub is unavailable (exit 75), a
\* valid stale-lease report, anything else.
Ends(stage) == {"ok", "bad"} \cup (CASE stage = "prep" -> {"wait"}
                                     [] stage = "del"  -> {"wait", "stale"}
                                     [] OTHER          -> {})
Exited == {"ok", "bad", "wait", "stale"}

\* RunMetadata: the container ids known are named by their stages.
Meta == [status: Statuses, stage: Stages, step: Steps, prep: Attempts,
         del: Attempts \cup {0}, rec: 0..1, made: SUBSET Stages,
         cur: Stages \cup {"none"}, gen: 0..MaxResumes, timed: BOOLEAN]

Fresh == [status |-> "pending", stage |-> "prep", step |-> "create", prep |-> 1,
          del |-> 0, rec |-> 0, made |-> {}, cur |-> "none", gen |-> 0, timed |-> FALSE]
Absent == [Fresh EXCEPT !.status = "absent"]

RowStates == {"created", "create_pending", "container_created", "start_pending",
              "running", "waiting_external", "terminal"}

PCs == {"idle", "enter", "attempt", "save_create", "create", "save_made", "inspect",
        "save_start", "start", "save_inject", "probe", "marker", "issue", "inject",
        "save_accept", "wait_path", "consume", "save_running", "watching",
        "term", "decide", "save_next", "save_wait", "publish", "fail", "fail_save",
        "finalize", "await"}

Idle    == [pc |-> "idle", m |-> Absent, life |-> "none", then |-> "idle", arm |-> FALSE]
NoFinal == [pc |-> "idle", why |-> "exit", m |-> Absent, life |-> "none"]

TypeOK ==
    /\ HolderTypeOK
    /\ row \in [st: RowStates, m: Meta]
    /\ file \in Meta /\ mem \in Meta
    /\ conts \in [CIDs -> {"none", "created", "running"} \cup Exited]
    /\ shm \in {"empty", "injected", "accepted"}
    /\ th \in [Locks -> [pc: PCs, m: Meta, life: {"none", "created", "running"} \cup Exited,
                         then: PCs, arm: BOOLEAN]]
    /\ fin \in [pc: {"idle", "act", "store", "file", "row"}, why: {"exit", "stop", "deadline"},
                m: Meta, life: {"none", "created", "running"} \cup Exited]
    /\ watch \in [CIDs -> 0..(MaxTroubles + 1)]
    /\ timers \subseteq 0..MaxResumes
    /\ proc \in {"down", "boot", "up"}
    /\ invoked \in Nat /\ gaveUp \in BOOLEAN /\ replayed \in BOOLEAN
    /\ troubles \in 0..MaxTroubles

\* LaunchProfile has stored the intent of a Codex profile and goes on to
\* resumeCodexIssueWorkflow.
Init ==
    /\ HolderInit
    /\ row = [st |-> "created", m |-> Fresh]
    /\ file = Absent /\ mem = Absent
    /\ conts = [c \in CIDs |-> "none"]
    /\ shm = "empty"
    /\ th = [t \in Locks |-> IF t = "key" THEN [Idle EXCEPT !.pc = "enter", !.m = Fresh] ELSE Idle]
    /\ fin = NoFinal
    /\ watch = [c \in CIDs |-> 0]
    /\ timers = {}
    /\ proc = "up"
    /\ invoked = 0
    /\ gaveUp = FALSE /\ replayed = FALSE /\ troubles = 0

-----------------------------------------------------------------------------
(* Helpers.                                                                *)

\* The runtime identity of a stage: "-prep[-n]", "-exec", "-recover-1", "-deliver-n".
Cid(m, stage) == <<stage, CASE stage = "prep" -> m.prep
                            [] stage = "del"  -> m.del
                            [] OTHER          -> 1>>

\* A repeated call counts for two.
Troubles(n) == troubles + n <= MaxTroubles /\ troubles' = troubles + n
Trouble     == Troubles(1)

Goto(t, pc)      == th' = [th EXCEPT ![t].pc = pc]
Learn(t, pc, c)  == th' = [th EXCEPT ![t].pc = pc, ![t].life = c]
At(t, pc)        == th[t].pc = pc /\ proc # "down"

\* stopCurrentCodexPhase stops the container of the phase, if it has one.
HasPhaseContainer(m) == m.step # "create" /\ m.stage \in m.made

\* The first half of persistCodexIntent: the row takes the local metadata.
PersistArming(t, st, m, then, arm) ==
    /\ row' = [st |-> st, m |-> m]
    /\ th' = [th EXCEPT ![t] = [@ EXCEPT !.pc = "publish", !.m = m, !.then = then, !.arm = arm]]
    /\ UNCHANGED <<holderVars, file, mem, conts, shm, fin, watch, timers, proc, invoked, gaveUp, replayed, troubles>>

Persist(t, st, m, then) == PersistArming(t, st, m, then, th[t].arm)

\* The bound on stale lease recoveries.
RecoveryRefused(m) == m.rec >= 1

\* Where the resume function of the stage begins.
ResumeAt(m) ==
    IF m.stage = "del" /\ m.del = 0 THEN "attempt"
    ELSE IF m.stage \in m.made THEN "inspect"
    ELSE CASE m.stage = "rec" /\ RecoveryRefused(m) -> "fail"
           [] m.stage = "exec"                      -> "create"
           [] OTHER                                 -> "save_create"

\* Mutant: an execution container that exited is started again.
ContinueRestarts(m, c) ==
    CASE c \in Exited /\ m.stage # "exec" -> "term"
      [] c = "created" \/ (c \in Exited /\ m.stage = "exec") -> "save_start"
      [] OTHER -> IF m.stage # "exec" THEN "save_running"
                  ELSE CASE m.step = "running" -> "save_running"
                         [] m.step = "accept"  -> "wait_path"
                         [] m.step = "inject"  -> "probe"
                         [] OTHER              -> "save_inject"

\* Mutant: the watcher of a phase found running is not started again.
StartWatchersOnce(t) ==
    /\ At(t, "watching")
    /\ LET m == th[t].m IN
       /\ watch' = [watch EXCEPT ![Cid(m, m.stage)] = IF proc = "boot" THEN @ ELSE @ + 1]
       /\ timers' = IF th[t].arm THEN timers \cup {m.gen} ELSE timers
    /\ th' = [th EXCEPT ![t] = Idle]
    /\ UNCHANGED <<holderVars, row, file, mem, conts, shm, fin, proc, invoked, gaveUp, replayed, troubles>>

\* What a resume function does with a container in lifecycle c.
Continue(m, c) ==
    CASE c \in Exited   -> "term"
      [] c = "created"  -> "save_start"
      [] OTHER          ->
           IF m.stage # "exec" THEN "save_running"
           ELSE CASE m.step = "running"             -> "save_running"
                  [] m.step = "accept"              -> "wait_path"
                  [] m.step = "inject"              -> "probe"
                  [] m.step \in {"create", "start"} -> "save_inject"
                  [] OTHER                          -> "fail"

-----------------------------------------------------------------------------
(* resumeCodexIssueWorkflow and the resume functions of the four stages.   *)

rest == <<row, file, mem, conts, shm, fin, watch, timers, proc, invoked, gaveUp, replayed>>

\* A run that has ended or waits is answered as it is.  Reconcile starts a
\* deadline watcher for one whose row says running.
Enter(t) ==
    /\ At(t, "enter")
    /\ LET m == th[t].m IN
       IF m.status \in Terminal \cup {"waiting"}
       THEN th' = [th EXCEPT ![t] = Idle] /\ timers' = timers
       ELSE /\ Goto(t, ResumeAt(m))
            /\ timers' = IF proc = "boot" /\ t = "key" /\ m.status = "running"
                         THEN timers \cup {m.gen} ELSE timers
    /\ UNCHANGED <<holderVars, row, file, mem, conts, shm, fin, watch, proc, invoked, gaveUp, replayed, troubles>>

SaveAttempt(t) ==
    /\ At(t, "attempt")
    /\ LET m == [th[t].m EXCEPT !.del = 1]
       IN  Persist(t, "create_pending", m, ResumeAt(m))

SaveCreate(t) ==
    /\ At(t, "save_create")
    /\ Persist(t, "create_pending", [th[t].m EXCEPT !.step = "create"], "create")

\* Create answers with the container of that name when there is one.
CreateContainer(t) ==
    /\ At(t, "create")
    /\ LET m == th[t].m  c == Cid(m, m.stage) IN
       /\ conts' = [conts EXCEPT ![c] = IF @ = "none" THEN "created" ELSE @]
       /\ Learn(t, "save_made", conts'[c])
    /\ UNCHANGED <<holderVars, row, file, mem, shm, fin, watch, timers, proc, invoked, gaveUp, replayed, troubles>>

SaveMade(t) ==
    /\ At(t, "save_made")
    /\ LET m == [th[t].m EXCEPT !.step = "start", !.made = @ \cup {th[t].m.stage},
                                !.cur = th[t].m.stage,
                                !.rec = IF th[t].m.stage = "rec" THEN @ + 1 ELSE @]
       IN  Persist(t, "container_created", m, Continue(m, th[t].life))

\* A container that was made before is inspected.
InspectContainer(t) ==
    /\ At(t, "inspect")
    /\ LET m == th[t].m
           c == conts[Cid(m, m.stage)]
       IN  IF m.stage = "exec" /\ c = "running" /\ m.step \in {"create", "start"}
           THEN th' = [th EXCEPT ![t].pc = "marker", ![t].m.step = "inject"]
           ELSE Learn(t, Continue(m, c), c)
    /\ UNCHANGED <<holderVars, rest, troubles>>

SaveStart(t) ==
    /\ At(t, "save_start")
    /\ Persist(t, "start_pending", [th[t].m EXCEPT !.step = "start"], "start")

\* After Start: the execution still waits for its credential.
Started(m) == IF m.stage = "exec" THEN "save_inject" ELSE "save_running"

\* Docker starts a container that was never started or has exited, and answers
\* 304 for a running one.  After an error the container is inspected, except by
\* the recovery.
StartContainer(t) ==
    /\ At(t, "start")
    /\ LET m == th[t].m  c == Cid(m, m.stage) IN
       \E starts, err \in BOOLEAN :
         /\ starts => conts[c] # "running"
         /\ ~starts => err
         /\ IF err /\ conts[c] # "running" THEN Trouble ELSE troubles' = troubles
         /\ conts' = IF starts THEN [conts EXCEPT ![c] = "running"] ELSE conts
         /\ shm' = IF starts /\ m.stage = "exec" THEN "empty" ELSE shm
         /\ CASE ~err \/ (m.stage # "rec" /\ conts'[c] = "running") -> Goto(t, Started(m))
              [] err /\ m.stage # "rec" /\ conts'[c] \in Exited      -> Learn(t, "term", conts'[c])
              [] OTHER                                               -> Goto(t, "fail")
    /\ UNCHANGED <<holderVars, row, file, mem, fin, watch, timers, proc, invoked, gaveUp, replayed>>

-----------------------------------------------------------------------------
(* The credential of the execution.                                        *)

SaveInject(t) ==
    /\ At(t, "save_inject")
    /\ Persist(t, "running", [th[t].m EXCEPT !.step = "inject"], "marker")

\* PathExists runs a command in the container, which must be running.
ExecRunning == conts[<<"exec", 1>>] = "running"

\* A run that was interrupted while it injected looks for the marker first.
ProbeMarker(t) ==
    /\ At(t, "probe")
    /\ IF ~ExecRunning THEN Goto(t, "fail")
       ELSE IF shm = "accepted"
       THEN th' = [th EXCEPT ![t].pc = "wait_path", ![t].m.step = "accept"]
       ELSE Goto(t, "marker")
    /\ UNCHANGED <<holderVars, rest, troubles>>

\* A credential that was accepted is not issued again.
AfterMarker == IF shm = "accepted" THEN "save_accept" ELSE "issue"

CheckMarker(t) ==
    /\ At(t, "marker")
    /\ Goto(t, IF ExecRunning THEN AfterMarker ELSE "fail")
    /\ UNCHANGED <<holderVars, rest, troubles>>

IssueBundle(t) ==
    /\ At(t, "issue")
    /\ \/ Issue /\ Goto(t, "inject")
       \/ record = "consumed" /\ ~refreshing /\ Goto(t, "fail") /\ UNCHANGED holderVars
    /\ UNCHANGED <<rest, troubles>>

InjectSecret(t) ==
    /\ At(t, "inject")
    /\ shm' = IF ExecRunning /\ shm = "empty" THEN "injected" ELSE shm
    /\ Goto(t, IF ExecRunning THEN "save_accept" ELSE "fail")
    /\ UNCHANGED <<holderVars, row, file, mem, conts, fin, watch, timers, proc, invoked, gaveUp, replayed, troubles>>

SaveAccept(t) ==
    /\ At(t, "save_accept")
    /\ Persist(t, "running", [th[t].m EXCEPT !.step = "accept"], "wait_path")

\* WaitForPath polls for the marker.
WaitForPath(t) ==
    /\ At(t, "wait_path")
    /\ ExecRunning => shm = "accepted"
    /\ Goto(t, IF ExecRunning THEN "consume" ELSE "fail")
    /\ UNCHANGED <<holderVars, rest, troubles>>

ConsumeBundle(t) ==
    /\ At(t, "consume")
    /\ Consume
    /\ Goto(t, "save_running")
    /\ UNCHANGED <<rest, troubles>>

-----------------------------------------------------------------------------
(* A phase is running: its watcher is started.                             *)

\* resumePreparation asks for a deadline watcher the first time it gets here,
\* ResumeRun for one with its new deadline.
SaveRunning(t) ==
    /\ At(t, "save_running")
    /\ LET m == th[t].m
           first == m.stage = "prep" /\ ~m.timed
       IN  PersistArming(t, "running",
               [m EXCEPT !.status = "running", !.step = "running", !.timed = @ \/ first],
               "watching", th[t].arm \/ first)

StartWatchers(t) ==
    /\ At(t, "watching")
    /\ LET m == th[t].m IN
       /\ watch' = [watch EXCEPT ![Cid(m, m.stage)] = @ + 1]
       /\ timers' = IF th[t].arm THEN timers \cup {m.gen} ELSE timers
    /\ th' = [th EXCEPT ![t] = Idle]
    /\ UNCHANGED <<holderVars, row, file, mem, conts, shm, fin, proc, invoked, gaveUp, replayed, troubles>>

\* The second half of persistCodexIntent: metadata.json and s.runs.
Publish(t) ==
    /\ At(t, "publish")
    /\ file' = th[t].m /\ mem' = th[t].m
    /\ th' = [th EXCEPT ![t] = IF th[t].then = "idle" THEN Idle ELSE [@ EXCEPT !.pc = th[t].then]]
    /\ UNCHANGED <<holderVars, row, conts, shm, fin, watch, timers, proc, invoked, gaveUp, replayed, troubles>>

-----------------------------------------------------------------------------
(* The end of a phase.                                                     *)

\* The next stage of a run, before any of its containers is made.
Into(m, stage) == [m EXCEPT !.stage = stage, !.step = "create", !.cur = "none"]

SaveTerm(t) ==
    /\ At(t, "term")
    /\ LET m == th[t].m IN
       Persist(t, "running",
               [m EXCEPT !.step = "term", !.status = IF m.stage = "del" THEN "running" ELSE @],
               "decide")

\* The recovered delivery is a container of its own.
Recovered(m) == [Into(m, "del") EXCEPT !.made = @ \ {"del"}, !.del = @ + 1]

\* The result files in the run directory are those of the phase's own container,
\* the exit code is that of the container that was inspected or watched.
Reported(m, result) == conts[Cid(m, m.stage)] = result

\* Mutant: the result of a phase is not verified.
PassesAnyEnd(m, life) == TRUE

\* The phase exited with 0 and left a result that can be verified.
Passes(m, life) == life = "ok" /\ Reported(m, "ok")

\* Exit code 75 and a valid report: GitHub is unavailable.
Waits(m, life) == m.stage \in {"prep", "del"} /\ life = "wait" /\ Reported(m, "wait")

\* A delivery that failed and left a valid stale-lease report, for the first time.
Stale(m, life) == m.stage = "del" /\ life # "ok" /\ Reported(m, "stale") /\ m.rec = 0

\* complete*: how the workflow goes on after a phase.
Decide(t) ==
    /\ At(t, "decide")
    /\ LET m == th[t].m  life == th[t].life
           To(pc, n) == th' = [th EXCEPT ![t].pc = pc, ![t].m = n]
       IN  CASE m.stage = "prep" /\ Passes(m, life) -> To("save_next", Into(m, "exec"))
             [] m.stage = "exec" /\ Passes(m, life) -> To("save_next", Into(m, "del"))
             [] m.stage = "rec" /\ Passes(m, life)  -> To(ResumeAt(Recovered(m)), Recovered(m))
             [] Waits(m, life)                      -> To("save_wait", m)
             [] Stale(m, life)                      -> To("save_next", Into(m, "rec"))
             [] m.stage = "del" /\ ~Waits(m, life) /\ ~Stale(m, life) -> To("finalize", m)
             [] OTHER                               -> To("fail", m)
    /\ UNCHANGED <<holderVars, rest, troubles>>

SaveNext(t) ==
    /\ At(t, "save_next")
    /\ Persist(t, "running", th[t].m, ResumeAt(th[t].m))

WaitForGitHub(t) ==
    /\ At(t, "save_wait")
    /\ Persist(t, "waiting_external", [th[t].m EXCEPT !.status = "waiting"], "idle")

\* failCodexIntent stops the container of the phase, if it can, ...
FailStop(t) ==
    /\ At(t, "fail")
    /\ LET m == th[t].m  c == Cid(m, m.stage) IN
       \/ /\ conts' = IF HasPhaseContainer(m) /\ conts[c] = "running"
                      THEN [conts EXCEPT ![c] = "bad"] ELSE conts
          /\ troubles' = troubles
       \/ /\ HasPhaseContainer(m) /\ conts[c] = "running"
          /\ Trouble /\ conts' = conts
    /\ Goto(t, "fail_save")
    /\ UNCHANGED <<holderVars, row, file, mem, shm, fin, watch, timers, proc, invoked, gaveUp, replayed>>

\* ... and writes the end whatever was written meanwhile.
FailSave(t) ==
    /\ At(t, "fail_save")
    /\ Persist(t, "terminal", [th[t].m EXCEPT !.status = "failed"], "idle")

SavePCs == {"attempt", "save_create", "save_made", "save_start", "save_inject", "save_accept",
            "save_running", "term", "save_next", "save_wait", "fail_save", "publish"}

Halted == /\ th' = [t \in Locks |-> Idle]
          /\ fin' = NoFinal
          /\ watch' = [c \in CIDs |-> 0]
          /\ timers' = {}
          /\ proc' = "down"
          /\ gaveUp' = FALSE
          /\ HolderCrash
          /\ UNCHANGED <<row, file, mem, conts, shm, invoked, replayed>>

\* A call to Docker or to the holder fails, or the marker does not come in time.
CallPCs == {"create", "inspect", "probe", "marker", "issue", "inject", "wait_path", "consume"}

CallFails(t) ==
    /\ th[t].pc \in CallPCs /\ proc # "down" /\ Trouble
    /\ Goto(t, "fail")
    /\ UNCHANGED <<holderVars, rest>>

\* A write to the database or, after it, to the run directory fails: the goroutine
\* gives up, and in Reconcile the process.
SaveFails(t) ==
    /\ th[t].pc \in SavePCs /\ proc # "down"
    /\ Trouble
    /\ \/ proc = "boot" /\ t = "key" /\ Halted
       \/ /\ ~(proc = "boot" /\ t = "key")
          /\ th' = [th EXCEPT ![t] = Idle]
          /\ gaveUp' = TRUE
          /\ UNCHANGED <<holderVars, row, file, mem, conts, shm, fin, watch, timers, proc, invoked, replayed>>

-----------------------------------------------------------------------------
(* finalizeTerminalRun, for a delivery that ended, a stop and a deadline.  *)

\* s.finalizing is claimed for a run that s.runs has as running.
Claim(why, life) ==
    /\ mem.status = "running" /\ fin.pc = "idle"
    /\ fin' = [pc |-> "act", why |-> why, m |-> mem, life |-> life]

\* A delivery that ended: the loser of the claim waits for the winner.
FinalizeDelivery(t) ==
    /\ At(t, "finalize")
    /\ \/ Claim("exit", th[t].life) /\ Goto(t, "await")
       \/ mem.status # "running" /\ th' = [th EXCEPT ![t] = Idle] /\ fin' = fin
       \/ mem.status = "running" /\ fin.pc # "idle" /\ Goto(t, "await") /\ fin' = fin
    /\ UNCHANGED <<holderVars, row, file, mem, conts, shm, watch, timers, proc, invoked, gaveUp, replayed, troubles>>

AwaitFinal(t) ==
    /\ At(t, "await") /\ fin.pc = "idle"
    /\ th' = [th EXCEPT ![t] = Idle]
    /\ UNCHANGED <<holderVars, rest, troubles>>

StopAgent ==
    /\ proc = "up" /\ Trouble
    /\ Claim("stop", "none")
    /\ UNCHANGED <<holderVars, row, file, mem, conts, shm, th, watch, timers, proc, invoked, gaveUp, replayed>>

\* A deadline watcher wakes up: it acts only on the deadline it was started for.
DeadlineFires(g) ==
    /\ proc # "down" /\ g \in timers /\ Trouble
    /\ \/ mem.gen = g /\ Claim("deadline", "none")
       \/ (mem.status # "running" \/ mem.gen # g) /\ fin' = fin
       \/ mem.status = "running" /\ mem.gen = g /\ fin.pc # "idle" /\ fin' = fin
    /\ timers' = timers \ {g}
    /\ UNCHANGED <<holderVars, row, file, mem, conts, shm, th, watch, proc, invoked, gaveUp, replayed>>

ExitStatus(life) == IF life = "ok" THEN "completed" ELSE "failed"

\* The end the claim's reason gives the run.  A stop that Docker refuses leaves
\* it running; a deadline looks first whether the current container is running.
\* Docker gives one that was never started the exit code 0.
FinalizeAct ==
    /\ fin.pc = "act" /\ proc # "down"
    /\ LET m == fin.m
           c == Cid(m, m.cur)
           End(status) == fin' = [fin EXCEPT !.pc = "store", !.m.status = status]
           Stopped == conts' = [conts EXCEPT ![c] = "bad"]
           Left == conts' = conts
       IN  \/ fin.why = "exit" /\ End(ExitStatus(fin.life)) /\ Left
           \/ fin.why = "stop" /\ m.cur = "none" /\ End("stopped") /\ Left
           \/ fin.why = "stop" /\ m.cur # "none" /\ conts[c] = "running" /\ End("stopped") /\ Stopped
           \/ fin.why = "stop" /\ m.cur # "none" /\ fin' = NoFinal /\ Left
           \/ fin.why = "deadline" /\ m.cur = "none" /\ End("timed_out") /\ Left
           \/ /\ fin.why = "deadline" /\ m.cur # "none" /\ conts[c] \in Exited
              /\ End(ExitStatus(conts[c])) /\ Left
           \/ /\ fin.why = "deadline" /\ m.cur # "none" /\ conts[c] = "created"
              /\ End("completed") \/ End("timed_out")
              /\ Left
           \/ /\ fin.why = "deadline" /\ m.cur # "none" /\ conts[c] = "running"
              /\ End("timed_out")
              /\ Stopped \/ Left
    /\ UNCHANGED <<holderVars, row, file, mem, shm, th, watch, timers, proc, invoked, gaveUp, replayed, troubles>>

\* s.runs is written only while it still says running.
FinalizeStore ==
    /\ fin.pc = "store" /\ proc # "down"
    /\ IF mem.status = "running"
       THEN mem' = fin.m /\ fin' = [fin EXCEPT !.pc = "file"]
       ELSE mem' = mem /\ fin' = NoFinal
    /\ UNCHANGED <<holderVars, row, file, conts, shm, th, watch, timers, proc, invoked, gaveUp, replayed, troubles>>

FinalizeFile ==
    /\ fin.pc = "file" /\ proc # "down"
    /\ file' = fin.m
    /\ fin' = [fin EXCEPT !.pc = "row"]
    /\ UNCHANGED <<holderVars, row, mem, conts, shm, th, watch, timers, proc, invoked, gaveUp, replayed, troubles>>

\* SaveMetadata.
FinalizeRow ==
    /\ fin.pc = "row" /\ proc # "down"
    /\ row' = [st |-> "terminal", m |-> fin.m]
    /\ fin' = NoFinal
    /\ UNCHANGED <<holderVars, file, mem, conts, shm, th, watch, timers, proc, invoked, gaveUp, replayed, troubles>>

-----------------------------------------------------------------------------
(* Phase watchers, ResumeRun, replays.                                     *)

\* The row still waits for a container.
WatcherActs == row.m.status \notin Terminal /\ row.m.step = "running"

\* watchCodexPhase: the container has ended; under the codex lock the phase the
\* row names is completed with the status of the container that was watched.
WatcherReturns(c) ==
    /\ proc # "down" /\ watch[c] > 0 /\ conts[c] \in Exited
    /\ th["codex"].pc = "idle"
    /\ watch' = [watch EXCEPT ![c] = @ - 1]
    /\ \/ /\ WatcherActs
          /\ th' = [th EXCEPT !["codex"] = [Idle EXCEPT !.pc = "term", !.m = row.m, !.life = conts[c]]]
       \/ ~WatcherActs /\ th' = th
    /\ UNCHANGED <<holderVars, row, file, mem, conts, shm, fin, timers, proc, invoked, gaveUp, replayed, troubles>>

\* Wait itself fails.
WatcherFails(c) ==
    /\ proc # "down" /\ watch[c] > 0 /\ th["codex"].pc = "idle" /\ Trouble
    /\ watch' = [watch EXCEPT ![c] = @ - 1]
    /\ th' = IF row.m.status \in Terminal THEN th
             ELSE [th EXCEPT !["codex"] = [Idle EXCEPT !.pc = "fail", !.m = row.m]]
    /\ UNCHANGED <<holderVars, row, file, mem, conts, shm, fin, timers, proc, invoked, gaveUp, replayed>>

\* The next attempt of the stage that waited, with a new deadline.
Resumed(m) ==
    [m EXCEPT !.status = "pending", !.step = "create", !.gen = @ + 1, !.cur = "none",
              !.made = @ \ {m.stage},
              !.prep = IF m.stage = "prep" THEN @ + 1 ELSE @,
              !.del = IF m.stage = "del" THEN @ + 1 ELSE @]

ResumeRun ==
    /\ proc = "up" /\ th["codex"].pc = "idle"
    /\ row.m.status = "waiting" /\ row.st = "waiting_external" /\ row.m.gen < MaxResumes
    /\ PersistArming("codex", "create_pending", Resumed(row.m), "enter", TRUE)

\* The same launch call again, or the same resume call.
Replay(t) ==
    /\ proc = "up" /\ th[t].pc = "idle"
    /\ Troubles(2) /\ replayed' = TRUE
    /\ t = "codex" => row.m.gen > 0
    /\ th' = [th EXCEPT ![t] = [Idle EXCEPT !.pc = "enter", !.m = row.m]]
    /\ UNCHANGED <<holderVars, row, file, mem, conts, shm, fin, watch, timers, proc, invoked, gaveUp>>

-----------------------------------------------------------------------------
(* The process and the containers.                                         *)

Crash ==
    /\ proc # "down" /\ Trouble
    /\ Halted

\* Reconcile reads metadata.json into s.runs and resumes a row that is not
\* terminal before the process serves requests.
Boot ==
    /\ proc = "down"
    /\ proc' = "boot"
    /\ mem' = file
    /\ th' = IF row.st = "terminal" THEN th
             ELSE [th EXCEPT !["key"] = [Idle EXCEPT !.pc = "enter", !.m = row.m]]
    /\ UNCHANGED <<holderVars, row, file, conts, shm, fin, watch, timers, invoked, gaveUp, replayed, troubles>>

Booted ==
    /\ proc = "boot" /\ th["key"].pc = "idle"
    /\ proc' = "up"
    /\ UNCHANGED <<holderVars, row, file, mem, conts, shm, th, fin, watch, timers, invoked, gaveUp, replayed, troubles>>

\* A worker ends; an execution can only succeed with its credential.
WorkerExits(c) ==
    /\ conts[c] = "running"
    /\ \E e \in Ends(c[1]) :
         /\ c[1] = "exec" /\ e = "ok" => shm = "accepted"
         /\ conts' = [conts EXCEPT ![c] = e]
    /\ UNCHANGED <<holderVars, row, file, mem, shm, th, fin, watch, timers, proc, invoked, gaveUp, replayed, troubles>>

\* The execution worker takes the credential and invokes Codex.
WorkerAccepts ==
    /\ ExecRunning /\ shm = "injected"
    /\ shm' = "accepted" /\ invoked' = invoked + 1
    /\ UNCHANGED <<holderVars, row, file, mem, conts, th, fin, watch, timers, proc, gaveUp, replayed, troubles>>

RefreshStep ==
    /\ proc # "down"
    /\ \/ Trouble /\ RefreshAsk
       \/ RefreshWrite /\ troubles' = troubles
    /\ UNCHANGED codexVars

Drive(t) ==
    \/ Enter(t) \/ SaveAttempt(t) \/ SaveCreate(t) \/ CreateContainer(t) \/ SaveMade(t)
    \/ InspectContainer(t) \/ SaveStart(t) \/ StartContainer(t)
    \/ SaveInject(t) \/ ProbeMarker(t) \/ CheckMarker(t) \/ IssueBundle(t) \/ InjectSecret(t)
    \/ SaveAccept(t) \/ WaitForPath(t) \/ ConsumeBundle(t)
    \/ SaveRunning(t) \/ StartWatchers(t) \/ Publish(t)
    \/ SaveTerm(t) \/ Decide(t) \/ SaveNext(t) \/ WaitForGitHub(t)
    \/ FailStop(t) \/ FailSave(t) \/ FinalizeDelivery(t) \/ AwaitFinal(t)

Finalizer == FinalizeAct \/ FinalizeStore \/ FinalizeFile \/ FinalizeRow

Next ==
    \/ \E t \in Locks : Drive(t) \/ CallFails(t) \/ SaveFails(t) \/ Replay(t)
    \/ Finalizer \/ StopAgent \/ ResumeRun \/ Crash \/ Boot \/ Booted
    \/ \E g \in timers : DeadlineFires(g)
    \/ \E c \in CIDs : WatcherReturns(c) \/ WatcherFails(c) \/ WorkerExits(c)
    \/ WorkerAccepts \/ RefreshStep

Spec == Init /\ [][Next]_vars

-----------------------------------------------------------------------------
(* Properties.                                                             *)

\* Nobody is at work on the run.
Quiet == proc = "up" /\ fin.pc = "idle" /\ \A t \in Locks : th[t].pc = "idle"

\* However the process dies between the writes, calls and injections of
\* resumeExecution, and whatever stops, deadlines and resumes come in between,
\* no execution worker is given a second credential to invoke Codex with, as
\* long as no call is repeated.
ExecutesOnce == ~replayed => invoked <= 1

\* "Once execution has started or exited, recovery never launches another
\* execution container": the same, repeated calls included.
CodexInvokedOnce == invoked <= 1

\* A delivery worker, of the first attempt, after a wait or after a recovery, is
\* only ever started on the work of an execution that succeeded and was
\* verified (completeExecution, completeRecoveryValidation, ResumeRun).
DeliversVerifiedWork ==
    ~replayed => \A n \in Attempts :
        conts[<<"del", n>>] \notin {"none", "created"} => conts[<<"exec", 1>>] = "ok"

\* A run that has not ended and does not wait for GitHub is in a phase somebody
\* watches: every path of the resume and complete functions, after a crash or a
\* resume too, ends in watchCodexPhase or in an end.  Apart from writes that
\* fail, this leaves out only a delivery that ended while a stop that fails
\* held s.finalizing.
PhaseIsWatched ==
    Quiet /\ ~gaveUp /\ row.m.status \in {"pending", "running"} =>
        \/ row.m.step = "running" /\ watch[Cid(row.m, row.m.stage)] > 0
        \/ row.m.stage = "del" /\ row.m.step = "term"

\* Issue never projects an access token that a refresh under way has already
\* replaced: unless an answer of the provider was lost before it was written,
\* a bundle is of the provider's latest generation (Refresh and Issue).
BundleIsCurrent == [][bundle' # bundle => bundle' = provider \/ lost]_vars
=============================================================================
