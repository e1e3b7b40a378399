---------------------------- MODULE DurableLaunch ----------------------------
(***************************************************************************)
(* Launches with an Idempotency-Key and the sandbox-broker's startup:      *)
(* LaunchProfile, resumeLaunchIntent, Reconcile and reconcileLaunchIntents *)
(* over the launch-intent database, the run directory and Docker.          *)
(*                                                                         *)
(* A launch is a sequence of durable writes and Docker calls.  The process *)
(* may die between any two of them, any of them may fail, other callers    *)
(* retry the same key, and the watchers and run calls of RunLifecycle work *)
(* on the same run at the same time.                                       *)
(***************************************************************************)
EXTENDS RunLifecycle

CONSTANTS
    Keys,            \* Idempotency-Keys of one principal and profile
    Fps,             \* canonical request fingerprints
    Versions,        \* digests of configurations the process is started with
    Callers,         \* concurrent REST calls
    Boot,            \* the goroutine that runs Reconcile
    MaxConcurrent,   \* max_concurrent_runs of the profile, 0 for no limit
    MaxCrashes,      \* bound on crashes
    Mints            \* the template has a capability: each create mints one

ASSUME MaxConcurrentNat == MaxConcurrent \in Nat
ASSUME MaxCrashesNat == MaxCrashes \in Nat
ASSUME MintsBool == Mints \in BOOLEAN
ASSUME BootNotCaller == Boot \notin Callers
ASSUME NonEmpty == Runs # {} /\ Keys # {} /\ Fps # {} /\ Versions # {}

VARIABLES
    keyOf, fpOf,     \* launch_intents.key_digest and request_fingerprint
    confOf,          \* config_version of the row's plan
    label,           \* the handle hashed into the container's launch_spec label
    minted,          \* capability handles minted so far
    th,              \* the launching goroutines
    phase,           \* the process: down, scan, resume (both in Reconcile), up
    todo,            \* runs that Reconcile has still to visit
    conf,            \* s.cfg.ConfigVersion of the process
    acked,           \* history: launch answers that were given
    crashes          \* crashes so far

intentVars == <<keyOf, fpOf, confOf>>
procVars   == <<phase, todo, conf>>
launchVars == <<keyOf, fpOf, confOf, label, minted, th, phase, todo, conf, acked,
                crashes>>
vars       == <<lifeVars, launchVars>>

Threads == Callers \cup {Boot}

\* Program counters of LaunchProfile and resumeLaunchIntent.
PCs == {"idle", "create_intent", "publish", "inspect", "await", "scan_await",
        "prepare", "save_create", "create", "save_made", "reinspect",
        "save_start", "start", "commit_save", "commit_file", "commit_store",
        "exited_publish", "exited_claim", "exited_save", "fail_result",
        "fail_file", "fail_store", "done", "error"}

Thread == [pc: PCs, key: Keys, fp: Fps, run: Runs,
           st: IntentState, out: Outcome \cup {"absent"}, hd: Nat, life: ContState]

TypeOK ==
    /\ LifeTypeOK
    /\ keyOf \in [Runs -> Keys]
    /\ fpOf \in [Runs -> Fps]
    /\ confOf \in [Runs -> Versions]
    /\ label \in [Runs -> Nat]
    /\ minted \in Nat
    /\ th \in [Threads -> Thread]
    /\ phase \in {"down", "scan", "resume", "up"}
    /\ todo \subseteq Runs
    /\ conf \in Versions
    /\ acked \subseteq [key: Keys, fp: Fps, run: Runs]
    /\ crashes \in 0..MaxCrashes

Idle == [pc |-> "idle", key |-> CHOOSE k \in Keys : TRUE,
         fp |-> CHOOSE f \in Fps : TRUE, run |-> CHOOSE r \in Runs : TRUE,
         st |-> "terminal", out |-> "failed", hd |-> 0, life |-> "none"]

Init ==
    /\ LifeInit
    /\ keyOf = [r \in Runs |-> Idle.key]
    /\ fpOf = [r \in Runs |-> Idle.fp]
    /\ conf = CHOOSE v \in Versions : TRUE
    /\ confOf = [r \in Runs |-> conf]
    /\ label = [r \in Runs |-> 0]
    /\ minted = 0
    /\ th = [p \in Threads |-> Idle]
    /\ phase = "down"
    /\ todo = {}
    /\ acked = {}
    /\ crashes = 0

Rows        == {r \in Runs : istate[r] # "absent"}
Nonterminal == {r \in Rows : istate[r] # "terminal"}

\* Mutant: the row of a run that has ended no longer answers for its key.
RowsOfUnended(k) == {r \in Nonterminal : keyOf[r] = k}

\* Lookup: the rows of key k.
RowsOf(k) == {r \in Rows : keyOf[r] = k}

Goto(p, pc) == th' = [th EXCEPT ![p].pc = pc]

\* The thread's local copy of the intent: state and metadata.
Hold(p, pc, st, out) ==
    th' = [th EXCEPT ![p] = [@ EXCEPT !.pc = pc, !.st = st, !.out = out]]

\* The container is in lifecycle c.
Learn(p, pc, c) == th' = [th EXCEPT ![p] = [@ EXCEPT !.pc = pc, !.life = c]]

-----------------------------------------------------------------------------
(* LaunchProfile up to resumeLaunchIntent.                                 *)

\* Mutant: a terminal intent is not answered from the row.
EntryIgnoresTerminal(st, out) == IF st = "running" THEN "publish" ELSE "prepare"

\* Where resumeLaunchIntent begins with an intent in this state.
Entry(st, out) == CASE out \in Terminal \/ st = "terminal"  -> "done"
                    [] out \notin Terminal /\ st = "running" -> "publish"
                    [] OTHER                                 -> "prepare"

\* The row of run r, read for key k and request f.
Snapshot(r, k, f) ==
    [pc |-> Entry(istate[r], iout[r]), key |-> k, fp |-> f, run |-> r,
     st |-> istate[r], out |-> iout[r], hd |-> 0, life |-> "none"]

\* The mutex of lockLaunchIntent, held from Request to the answer.
Locked(k) == \E c \in Callers : th[c].pc # "idle" /\ th[c].key = k

\* Mutant: the fingerprint is not compared.
SameRequestAlways(r, f) == TRUE

\* The row's request_fingerprint is that of the request.
SameRequest(r, f) == fpOf[r] = f

\* The row was planned under the configuration that the process runs with:
\* reconcileLaunchIntents and resumeLaunchIntent refuse any other.
SameConfig(r) == confOf[r] = conf

\* A request takes the lock of its key and looks the key up.  One that finds
\* another fingerprint ends with idempotency_conflict, and one that finds a row
\* of another configuration or with empty metadata with an error too.
Request(c, k, f) ==
    /\ phase = "up" /\ th[c].pc = "idle" /\ ~Locked(k)
    /\ \/ /\ RowsOf(k) = {}
          /\ th' = [th EXCEPT ![c] = [Idle EXCEPT !.pc = "create_intent",
                                                  !.key = k, !.fp = f]]
       \/ \E r \in RowsOf(k) :
             th' = [th EXCEPT ![c] = IF /\ SameRequest(r, f)
                                        /\ SameConfig(r) /\ iout[r] # "absent"
                                     THEN Snapshot(r, k, f)
                                     ELSE [Idle EXCEPT !.pc = "error", !.key = k]]
    /\ UNCHANGED <<lifeVars, intentVars, label, minted, procVars, acked, crashes>>

\* Mutant: one run too many.
ProfileBusyOffByOne == MaxConcurrent > 0 /\ Cardinality(Nonterminal) > MaxConcurrent

\* The profile is full: profile_busy.
ProfileBusy == MaxConcurrent > 0 /\ Cardinality(Nonterminal) >= MaxConcurrent

\* newRunID gives an id no row has, which the database also demands.
Fresh(r) == istate[r] = "absent"

\* LaunchIntentStore.Create, one immediate transaction that looks the key up
\* again, counts the profile's nonterminal rows and inserts a row for a new run.
\* Under the lock the second lookup finds what the first found: nothing.
CreateIntent(c, r) ==
    LET k == th[c].key
        f == th[c].fp
        insert == /\ Fresh(r)
                  /\ istate' = [istate EXCEPT ![r] = "intent_created"]
                  /\ iout' = [iout EXCEPT ![r] = "pending"]
                  /\ keyOf' = [keyOf EXCEPT ![r] = k]
                  /\ fpOf' = [fpOf EXCEPT ![r] = f]
                  /\ confOf' = [confOf EXCEPT ![r] = conf]
    IN
    /\ th[c].pc = "create_intent" /\ RowsOf(k) = {}
    /\ \/ /\ ~ProfileBusy
          /\ insert
          /\ th' = [th EXCEPT ![c] =
                      [Idle EXCEPT !.pc = "prepare", !.key = k, !.fp = f,
                                   !.run = r, !.st = "intent_created",
                                   !.out = "pending"]]
          /\ UNCHANGED faults
       \/ /\ ProfileBusy
          /\ Goto(c, "error")
          /\ UNCHANGED <<istate, iout, intentVars, faults>>
       \/ /\ ~ProfileBusy /\ Fault
          /\ insert \/ UNCHANGED <<istate, iout, intentVars>>
          /\ Goto(c, "error")
    /\ UNCHANGED <<docker, metaFile, termFile, runs, fin, wk, overdue,
                   label, minted, procVars, acked, crashes>>

-----------------------------------------------------------------------------
(* resumeLaunchIntent.  Run r is the run of thread p throughout.           *)

\* Steps that leave the files, Docker or the intent row alone.
NotLife == <<intentVars, procVars, acked, crashes>>

\* The intent is running: publish the metadata that was read with it ...
PublishRunning(p) ==
    LET r == th[p].run IN
    /\ th[p].pc = "publish"
    /\ runs' = [runs EXCEPT ![r] = th[p].out]
    /\ Goto(p, "inspect")
    /\ UNCHANGED <<docker, durable, fin, wk, overdue, faults, label, minted, NotLife>>

\* Mutant: no resume starts the watchers.
RecoveringNever(p) == FALSE

\* The argument recovering of resumeLaunchIntent.
Recovering(p) == p = Boot

\* ... and look at the container.  Only Reconcile starts the watchers.
InspectRunning(p) ==
    LET r == th[p].run IN
    /\ th[p].pc = "inspect"
    /\ \/ /\ \/ cont[r] = "none" /\ UNCHANGED faults
             \/ Fault
          /\ Goto(p, "error")
          /\ UNCHANGED <<runs, fin, wk>>
       \/ /\ cont[r] \in Halted
          /\ Claim(r, "resume", "persist", ExitOutcome(cont[r]))
          /\ Goto(p, "await")
          /\ UNCHANGED faults
       \/ /\ cont[r] = "running"
          /\ IF Recovering(p) THEN Arm(r) ELSE UNCHANGED wk
          /\ Goto(p, "done")
          /\ UNCHANGED <<runs, fin, faults>>
    /\ UNCHANGED <<docker, durable, overdue, label, minted, NotLife>>

\* finalizeTerminalRun returns to resumeLaunchIntent.
Await(p) ==
    LET r == th[p].run IN
    /\ th[p].pc = "await" /\ wk[r]["resume"] \in {"off", "failed"}
    /\ Goto(p, IF wk[r]["resume"] = "off" THEN "done" ELSE "error")
    /\ wk' = [wk EXCEPT ![r]["resume"] = "off"]
    /\ UNCHANGED <<docker, durable, runs, fin, overdue, faults, label, minted, NotLife>>

\* Mutant: an intent about to create counts as having created.
CreatedEarly(st) == st \in {"create_pending", "container_created", "start_pending"}

\* The intent says that the container was created.
Created(st) == st \in {"container_created", "start_pending"}

\* prepareDurableRun writes the run directory, metadata.json last; then, unless
\* the container exists, mintLaunchCapability.
Prepare(p) ==
    LET r == th[p].run
        written == [metaFile EXCEPT ![r] = th[p].out]
        mint == ~Created(th[p].st) /\ Mints
    IN
    /\ th[p].pc = "prepare"
    /\ \/ /\ metaFile' = written
          /\ minted' = IF mint THEN minted + 1 ELSE minted
          /\ th' = [th EXCEPT ![p] =
                      [@ EXCEPT !.pc = IF Created(th[p].st) THEN "reinspect"
                                       ELSE "save_create",
                                !.hd = IF mint THEN minted + 1 ELSE 0]]
          /\ UNCHANGED faults
       \/ /\ Fault
          /\ metaFile' \in {metaFile, written}
          /\ Goto(p, "error")
          /\ UNCHANGED minted
    /\ UNCHANGED <<docker, termFile, istate, iout, runs, fin, wk, overdue,
                   label, NotLife>>

\* launchIntents.Save of the thread's copy, after which it goes on at pc.
SaveStep(p, from, st, out, pc) ==
    LET r == th[p].run IN
    /\ th[p].pc = from
    /\ \/ /\ SaveIntent(r, st, out)
          /\ Hold(p, pc, st, out)
          /\ UNCHANGED faults
       \/ /\ Fault
          /\ SaveIntent(r, st, out) \/ UNCHANGED <<istate, iout>>
          /\ Goto(p, "error")
    /\ UNCHANGED <<docker, metaFile, termFile, runs, fin, wk, overdue, label,
                   minted, NotLife>>

SaveCreatePending(p) ==
    SaveStep(p, "save_create", "create_pending", th[p].out, "create")

\* Mutant: a name conflict is always an error.
AdoptableNever(r, hd) == FALSE

\* adopt: the label of the container is the digest of this spec.
Adoptable(r, hd) == label[r] = hd

\* DockerBackend.Create: a name conflict adopts the container that has the name
\* if its launch_spec label, which covers the handle, is that of this spec.
RuntimeCreate(p) ==
    LET r == th[p].run
        made == [cont EXCEPT ![r] = "created"]
    IN
    /\ th[p].pc = "create"
    /\ \/ /\ cont[r] = "none"
          /\ cont' = made
          /\ label' = [label EXCEPT ![r] = th[p].hd]
          /\ Learn(p, "save_made", "created")
          /\ UNCHANGED faults
       \/ /\ cont[r] # "none" /\ Adoptable(r, th[p].hd)
          /\ Learn(p, "save_made", cont[r])
          /\ UNCHANGED <<cont, label, faults>>
       \/ /\ cont[r] # "none" /\ ~Adoptable(r, th[p].hd)
          /\ Hold(p, "fail_result", th[p].st, "create_failed")
          /\ UNCHANGED <<cont, label, faults>>
       \/ /\ Fault
          /\ \/ UNCHANGED <<cont, label>>
             \/ /\ cont[r] = "none"
                /\ cont' = made
                /\ label' = [label EXCEPT ![r] = th[p].hd]
          /\ Hold(p, "fail_result", th[p].st, "create_failed")
    /\ UNCHANGED <<starts, durable, runs, fin, wk, overdue, minted, NotLife>>

\* Mutant: a container that does not run is started.
FollowRestarts(c) == IF c = "running" THEN "commit_save" ELSE "save_start"

\* How resumeLaunchIntent goes on with a container in this lifecycle.
Follow(c) == CASE c = "running"   -> "commit_save"
               [] c \in Exited    -> "exited_publish"
               [] OTHER           -> "save_start"

SaveContainerCreated(p) ==
    SaveStep(p, "save_made", "container_created", "made", Follow(th[p].life))

Reinspect(p) ==
    LET r == th[p].run IN
    /\ th[p].pc = "reinspect"
    /\ \/ /\ \/ cont[r] = "none" /\ UNCHANGED faults
             \/ Fault
          /\ Goto(p, "error")
       \/ /\ cont[r] # "none"
          /\ Learn(p, Follow(cont[r]), cont[r])
          /\ UNCHANGED faults
    /\ UNCHANGED <<docker, durable, runs, fin, wk, overdue, label, minted, NotLife>>

SaveStartPending(p) ==
    SaveStep(p, "save_start", "start_pending", th[p].out, "start")

\* DockerBackend.Start.  When it fails the container is inspected: one that
\* runs or has run is committed, any other outcome is a failed start.
RuntimeStart(p) ==
    LET r == th[p].run
        started(c) == /\ cont' = [cont EXCEPT ![r] = c]
                      /\ starts' = [starts EXCEPT ![r] = @ + 1]
        failed == Hold(p, "fail_result", th[p].st, "start_failed")
    IN
    /\ th[p].pc = "start"
    /\ \/ /\ cont[r] \in Halted
          /\ started("running")
          /\ Goto(p, "commit_save")
          /\ UNCHANGED faults
       \/ /\ cont[r] \in Halted /\ Fault
          /\ \E c \in Exited \cup {"running"} :
                /\ started(c)
                /\ \/ Learn(p, Follow(c), c)
                   \/ failed
       \/ /\ IF cont[r] = "none" THEN UNCHANGED faults ELSE Fault
          /\ UNCHANGED docker
          /\ failed
    /\ UNCHANGED <<durable, runs, fin, wk, overdue, label, minted, NotLife>>

-----------------------------------------------------------------------------
(* commitRunningIntent, commitExitedIntent, commitStartupFailureIntent.    *)

CommitSave(p) == SaveStep(p, "commit_save", "running", "running", "commit_file")

\* writeMetadata: the file ...
WriteFileStep(p, from, pc) ==
    LET r == th[p].run
        written == [metaFile EXCEPT ![r] = th[p].out]
    IN
    /\ th[p].pc = from
    /\ \/ metaFile' = written /\ Goto(p, pc) /\ UNCHANGED faults
       \/ Fault /\ metaFile' \in {metaFile, written} /\ Goto(p, "error")
    /\ UNCHANGED <<docker, termFile, istate, iout, runs, fin, wk, overdue,
                   label, minted, NotLife>>

CommitFile(p) == WriteFileStep(p, "commit_file", "commit_store")

\* ... the row, and s.runs; then the watchers start.
CommitStore(p) ==
    LET r == th[p].run IN
    /\ th[p].pc = "commit_store"
    /\ \/ /\ SaveIntent(r, "running", "running")
          /\ runs' = [runs EXCEPT ![r] = "running"]
          /\ Arm(r)
          /\ Goto(p, "done")
          /\ UNCHANGED faults
       \/ /\ Fault
          /\ SaveIntent(r, "running", "running") \/ UNCHANGED <<istate, iout>>
          /\ Goto(p, "error")
          /\ UNCHANGED <<runs, wk>>
    /\ UNCHANGED <<docker, metaFile, termFile, fin, overdue, label, minted, NotLife>>

ExitedPublish(p) ==
    LET r == th[p].run IN
    /\ th[p].pc = "exited_publish"
    /\ runs' = [runs EXCEPT ![r] = "running"]
    /\ Goto(p, "exited_claim")
    /\ UNCHANGED <<docker, durable, fin, wk, overdue, faults, label, minted, NotLife>>

\* finalizeTerminalRun with the exit status that was read with the lifecycle.
\* Its result is that outcome, unless another goroutine finalizes the run.
ExitedClaim(p) ==
    LET r == th[p].run
        owner == runs[r] = "running" /\ fin[r].by = "none"
    IN
    /\ th[p].pc = "exited_claim"
    /\ Claim(r, "resume", "persist", ExitOutcome(th[p].life))
    /\ Hold(p, "exited_save", th[p].st,
            IF owner THEN ExitOutcome(th[p].life) ELSE "running")
    /\ UNCHANGED <<docker, durable, overdue, faults, label, minted, NotLife>>

\* The intent is saved as terminal even when finalizing failed, with the
\* metadata that the other goroutine left or with none at all.
ExitedSave(p) ==
    LET r == th[p].run
        finalized == IF th[p].out = "running" THEN LookupRun(r) ELSE th[p].out
    IN
    /\ th[p].pc = "exited_save" /\ wk[r]["resume"] \in {"off", "failed"}
    /\ wk' = [wk EXCEPT ![r]["resume"] = "off"]
    /\ \/ /\ SaveIntent(r, "terminal", finalized)
          /\ Goto(p, IF wk[r]["resume"] = "off" /\ finalized # "absent"
                     THEN "done" ELSE "error")
          /\ UNCHANGED faults
       \/ /\ Fault
          /\ SaveIntent(r, "terminal", finalized) \/ UNCHANGED <<istate, iout>>
          /\ Goto(p, "error")
    /\ UNCHANGED <<docker, metaFile, termFile, runs, fin, overdue, label, minted, NotLife>>

FailResult(p) ==
    LET r == th[p].run
        written == [termFile EXCEPT ![r] = th[p].out]
    IN
    /\ th[p].pc = "fail_result"
    /\ \/ termFile' = written /\ Goto(p, "fail_file") /\ UNCHANGED faults
       \/ Fault /\ termFile' \in {termFile, written} /\ Goto(p, "error")
    /\ UNCHANGED <<docker, metaFile, istate, iout, runs, fin, wk, overdue,
                   label, minted, NotLife>>

FailFile(p) == WriteFileStep(p, "fail_file", "fail_store")

\* SaveMetadata, s.runs and Save, which writes the same row again.  When one of
\* the two fails the row may be written, and s.runs is when the second fails.
FailStore(p) ==
    LET r == th[p].run
        saved == SaveIntent(r, "terminal", th[p].out)
        published == runs' = [runs EXCEPT ![r] = th[p].out]
    IN
    /\ th[p].pc = "fail_store"
    /\ \/ saved /\ published /\ Goto(p, "done") /\ UNCHANGED faults
       \/ /\ Fault
          /\ \/ UNCHANGED <<istate, iout, runs>>
             \/ saved /\ (published \/ UNCHANGED runs)
          /\ Goto(p, "error")
    /\ UNCHANGED <<docker, metaFile, termFile, fin, wk, overdue, label, minted, NotLife>>

\* LaunchProfile answers its caller and unlocks the key.
Answer(c) ==
    /\ th[c].pc \in {"done", "error"}
    /\ th' = [th EXCEPT ![c] = Idle]
    /\ acked' = IF th[c].pc = "error" THEN acked
                ELSE acked \cup {[key |-> th[c].key, fp |-> th[c].fp,
                                  run |-> th[c].run]}
    /\ UNCHANGED <<lifeVars, intentVars, label, minted, procVars, crashes>>

ResumeStep(p) ==
    \/ PublishRunning(p) \/ InspectRunning(p) \/ Await(p)
    \/ Prepare(p) \/ SaveCreatePending(p) \/ RuntimeCreate(p)
    \/ SaveContainerCreated(p) \/ Reinspect(p) \/ SaveStartPending(p)
    \/ RuntimeStart(p)
    \/ CommitSave(p) \/ CommitFile(p) \/ CommitStore(p)
    \/ ExitedPublish(p) \/ ExitedClaim(p) \/ ExitedSave(p)
    \/ FailResult(p) \/ FailFile(p) \/ FailStore(p)

-----------------------------------------------------------------------------
(* The process: Reconcile, then serving, then a crash.                     *)

\* The supervisor starts the process, with its old or a changed configuration.
Start ==
    /\ phase = "down"
    /\ phase' = "scan"
    /\ conf' \in Versions
    /\ todo' = {r \in Runs : metaFile[r] # "absent"}
    /\ UNCHANGED <<lifeVars, intentVars, label, minted, th, acked, crashes>>

\* Reconcile visits a run directory: a run that its file says is running is
\* finalized when the container is gone, has exited, or is past its deadline.
\* Every directory has its row, so RestoreMetadata changes nothing.
ScanRun(r) ==
    /\ phase = "scan" /\ th[Boot].pc = "idle" /\ r \in todo
    /\ \/ /\ metaFile[r] = "running"
          /\ \/ /\ \/ cont[r] = "none" /\ UNCHANGED faults
                   \/ Fault
                /\ Claim(r, "resume", "persist", "missing")
             \/ /\ cont[r] \in Halted
                /\ Claim(r, "resume", "persist", ExitOutcome(cont[r]))
                /\ UNCHANGED faults
             \/ /\ cont[r] = "running" /\ overdue[r]
                /\ Claim(r, "resume", "update", "running")
                /\ UNCHANGED faults
       \/ /\ metaFile[r] = "running" => cont[r] = "running" /\ ~overdue[r]
          /\ UNCHANGED <<runs, fin, wk, faults>>
    /\ th' = [th EXCEPT ![Boot] = [@ EXCEPT !.pc = "scan_await", !.run = r]]
    /\ UNCHANGED <<docker, durable, overdue, intentVars, label, minted,
                   procVars, acked, crashes>>

\* Then the run is published, a terminal one gets its result file if it has
\* none, and a running one without a nonterminal row gets its watchers.
ScanPublish ==
    LET r == th[Boot].run
        m == LookupRun(r)
        orphan == m = "running" /\ r \notin Nonterminal
        backfill == m \in Terminal /\ termFile[r] = "absent"
    IN
    /\ th[Boot].pc = "scan_await" /\ wk[r]["resume"] \in {"off", "failed"}
    /\ runs' = [runs EXCEPT ![r] = m]
    /\ wk' = [wk EXCEPT ![r] =
                [w \in Workers |->
                    IF w = "resume" THEN "off"
                    ELSE IF orphan /\ w \in {"exit", "timeout"} THEN "armed"
                    ELSE wk[r][w]]]
    /\ \/ /\ wk[r]["resume"] = "off"
          /\ termFile' = IF backfill THEN [termFile EXCEPT ![r] = m] ELSE termFile
          /\ Goto(Boot, "idle")
          /\ todo' = todo \ {r}
          /\ UNCHANGED faults
       \/ /\ \/ wk[r]["resume"] = "failed" /\ UNCHANGED faults
             \/ backfill /\ Fault
          /\ Goto(Boot, "error")
          /\ UNCHANGED <<termFile, todo>>
    /\ UNCHANGED <<docker, metaFile, istate, iout, fin, overdue, intentVars,
                   label, minted, phase, conf, acked, crashes>>

\* reconcileLaunchIntents lists the nonterminal rows ...
ScanDone ==
    /\ phase = "scan" /\ todo = {} /\ th[Boot].pc = "idle"
    /\ phase' = "resume"
    /\ todo' = Nonterminal
    /\ UNCHANGED <<lifeVars, intentVars, label, minted, th, conf, acked, crashes>>

\* ... resumes one after the other, or fails on one of another configuration ...
BootResume(r) ==
    /\ phase = "resume" /\ th[Boot].pc = "idle" /\ r \in todo
    /\ th' = [th EXCEPT ![Boot] = IF SameConfig(r)
                                  THEN Snapshot(r, keyOf[r], fpOf[r])
                                  ELSE [Idle EXCEPT !.pc = "error", !.key = keyOf[r]]]
    /\ UNCHANGED <<lifeVars, intentVars, label, minted, procVars, acked, crashes>>

BootResumed ==
    /\ th[Boot].pc = "done"
    /\ th' = [th EXCEPT ![Boot] = Idle]
    /\ todo' = todo \ {th[Boot].run}
    /\ UNCHANGED <<lifeVars, intentVars, label, minted, phase, conf, acked, crashes>>

\* ... and only then are requests served.
Serve ==
    /\ phase = "resume" /\ todo = {} /\ th[Boot].pc = "idle"
    /\ phase' = "up"
    /\ UNCHANGED <<lifeVars, intentVars, label, minted, th, todo, conf, acked, crashes>>

\* All that is in memory is gone; the files, the database and Docker stay.
Die ==
    /\ phase' = "down"
    /\ todo' = {}
    /\ runs' = [r \in Runs |-> "absent"]
    /\ fin' = [r \in Runs |-> NotFinalizing]
    /\ wk' = [r \in Runs |-> [w \in Workers |-> "off"]]
    /\ th' = [p \in Threads |-> Idle]
    /\ UNCHANGED <<docker, durable, overdue, faults, intentVars, label, minted,
                   conf, acked>>

\* An error of Reconcile is fatal.
BootFails == th[Boot].pc = "error" /\ Die /\ UNCHANGED crashes

Crash ==
    /\ phase # "down" /\ crashes < MaxCrashes
    /\ crashes' = crashes + 1
    /\ Die

RunStep(r) ==
    /\ \/ WorkerExits(r) \/ DeadlinePasses(r)
       \/ Finalize(r) \/ Watch(r)
       \/ phase = "up" /\ Client(r)
    /\ UNCHANGED launchVars

BootStep ==
    \/ Start \/ ScanPublish \/ ScanDone \/ BootResumed \/ Serve \/ BootFails
    \/ \E r \in Runs : ScanRun(r) \/ BootResume(r)

Next ==
    \/ \E r \in Runs : RunStep(r)
    \/ \E c \in Callers : \/ \E k \in Keys, f \in Fps : Request(c, k, f)
                          \/ \E r \in Runs : CreateIntent(c, r)
                          \/ Answer(c)
    \/ \E p \in Threads : ResumeStep(p)
    \/ BootStep
    \/ Crash

Spec == Init /\ [][Next]_vars

\* The Go scheduler runs every goroutine that can go on, Docker and the file
\* system answer, the deadline timer fires, and the supervisor restarts the
\* process.  Clients may stop calling, workers may run for ever, and nothing
\* obliges a waiting call to give up or the process to crash.
Fairness ==
    /\ \A r \in Runs : /\ WF_vars(DeadlinePasses(r) /\ UNCHANGED launchVars)
                       /\ WF_vars(Finalize(r) /\ UNCHANGED launchVars)
                       /\ WF_vars(WatchExit(r) /\ UNCHANGED launchVars)
                       /\ WF_vars(WatchTimeout(r) /\ UNCHANGED launchVars)
                       /\ WF_vars(CleanupDirectory(r) /\ UNCHANGED launchVars)
    /\ \A p \in Threads : WF_vars(ResumeStep(p))
    /\ \A c \in Callers : /\ WF_vars(\E r \in Runs : CreateIntent(c, r))
                          /\ WF_vars(Answer(c))
    /\ WF_vars(BootStep)

LiveSpec == Spec /\ Fairness

-----------------------------------------------------------------------------
(* Properties.                                                             *)

\* Launching keeps its promise: through retries, concurrent calls, failures and
\* restarts, an Idempotency-Key is answered with one run for one request
\* (LaunchProfile, LaunchIntentStore.Create).
Contract == INSTANCE LaunchContract WITH answers <- acked
KeepsContract == Contract!Spec

\* A row of the launch-intent database that is terminal stays terminal: no
\* launch that is still being committed, no replay and no restart reopens it,
\* so the slot of the profile it gave back is not taken twice.
TerminalIntentStays ==
    [][\A r \in Runs : istate[r] = "terminal" => istate'[r] = "terminal"]_vars

\* The worker of a run is started at most once, however often the launch is
\* retried or resumed after a crash (resumeLaunchIntent, DockerBackend.adopt).
StartedOnce == \A r \in Runs : starts[r] <= 1

\* While every call succeeds no run is recorded as a startup failure, crashes
\* during the launch notwithstanding: the deterministic container name and the
\* launch_spec label let the resumed launch adopt the container.
NoSpuriousStartupFailure ==
    faults = 0 => \A r \in Runs : iout[r] \notin {"create_failed", "start_failed"}

\* A goroutine is between starting the container and starting the watchers.
Committing(r) ==
    \E p \in Threads : th[p].run = r /\ th[p].pc \notin {"idle", "done", "error"}

\* While every call succeeds a serving process has, for every running worker,
\* the goroutine that will notice its exit and the one that will enforce its
\* deadline, or the run is being finalized, or its launch is under way.
RunningIsWatched ==
    faults = 0 /\ phase = "up" =>
        \A r \in Runs :
            cont[r] = "running" /\ ~Committing(r) =>
                /\ wk[r]["exit"] = "armed"
                /\ wk[r]["timeout"] = "armed" \/ fin[r].by # "none"

\* While every call succeeds a profile never has more than max_concurrent_runs
\* running workers, those that survived a restart of the broker included.
WorkersWithinLimit ==
    faults = 0 /\ MaxConcurrent > 0 =>
        Cardinality({r \in Runs : cont[r] = "running"}) <= MaxConcurrent

\* A run that a serving process shows as terminal has its terminal result,
\* which GetTerminalResult reads from the run directory.
TerminalResultAvailable ==
    phase = "up" =>
        \A r \in Runs : runs[r] \in Terminal => termFile[r] # "absent"

\* The process was started with another configuration than a row that has not
\* ended was planned under: reconcileLaunchIntents will refuse to go on.
OtherConfig == phase # "down" /\ \E r \in Nonterminal : ~SameConfig(r)

\* Every launch that got its row comes to an end, with nobody polling and
\* through crashes: the worker exits or its deadline is enforced, and the row
\* becomes terminal and gives its profile slot back (watchExit, watchTimeout,
\* reconcileLaunchIntents).  Only a process that keeps being started with
\* another configuration can put that off.
EveryRunEnds ==
    \A r \in Runs : istate[r] # "absent" ~> istate[r] = "terminal" \/ OtherConfig

\* A process that starts gets through Reconcile and serves, unless it has
\* another configuration than the rows it finds unfinished.
StartupSucceeds == phase = "down" ~> phase = "up" \/ OtherConfig

=============================================================================
