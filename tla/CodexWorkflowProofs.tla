------------------------- MODULE CodexWorkflowProofs -------------------------
(***************************************************************************)
(* Proofs about the Codex issue workflow: its credential, its execution,   *)
(* what it delivers, and that somebody attends to a run under way.         *)
(***************************************************************************)
EXTENDS CodexWorkflow, TLAPS

Lives == {"none", "created", "running"} \cup Exited

\* RunMetadata without the bounds on its counters.
MetaRec == [status: Statuses, stage: Stages, step: Steps, prep: Nat, del: Nat, rec: Nat,
            made: SUBSET Stages, cur: Stages \cup {"none"}, gen: Nat, timed: BOOLEAN]
Thread == [pc: PCs, m: MetaRec, life: Lives, then: PCs, arm: BOOLEAN]
Final == [pc: {"idle", "act", "store", "file", "row"}, why: {"exit", "stop", "deadline"},
          m: MetaRec, life: Lives]

CodexType ==
    /\ row \in [st: RowStates, m: MetaRec]
    /\ file \in MetaRec /\ mem \in MetaRec
    /\ conts \in [CIDs -> Lives]
    /\ shm \in {"empty", "injected", "accepted"}
    /\ th \in [Locks -> Thread]
    /\ fin \in Final
    /\ watch \in [CIDs -> Nat]
    /\ proc \in {"down", "boot", "up"}
    /\ invoked \in Nat /\ gaveUp \in BOOLEAN /\ replayed \in BOOLEAN

\* What every copy of the metadata says.
MetaInv(m) ==
    /\ m.gen <= MaxResumes /\ m.prep >= 1 /\ m.prep <= m.gen + 1
    /\ m.del <= m.gen + 1 + (IF m.stage = "del" THEN m.rec ELSE 0)
    /\ IF "rec" \in m.made THEN m.rec = 1 ELSE m.rec = 0
    /\ "del" \in m.made => m.del >= 1
    /\ m.step # "create" => m.stage \in m.made
    /\ m.status = "waiting" => m.stage \in {"prep", "del"} /\ m.step = "term"
    /\ m.cur \in {m.stage, "none"}

\* Where a goroutine goes on once what it writes is published.
Eff(x) == IF x.pc = "publish" THEN x.then ELSE x.pc

BeforePCs == {"save_create", "create", "save_made"}
ExecPCs   == {"save_inject", "probe", "marker", "issue", "inject", "save_accept", "wait_path", "consume"}
AfterPCs  == {"inspect", "save_start", "start", "save_running", "watching", "term", "decide"} \cup ExecPCs

PCInv(pc, m) ==
    /\ pc # "publish"
    /\ pc \in BeforePCs => m.stage \notin m.made /\ (m.stage = "del" => m.del >= 1)
    /\ pc \in AfterPCs => m.stage \in m.made
    /\ pc \in ExecPCs => m.stage = "exec"
    /\ pc \in BeforePCs \cup AfterPCs \cup {"attempt", "save_next", "save_wait"} => m.status # "waiting"
    /\ pc = "save_wait" => m.stage \in {"prep", "del"}
    /\ pc \in {"decide", "save_wait"} => m.step = "term"
    /\ pc = "attempt" => m.stage = "del" /\ m.del = 0

\* The execution was verified before anything comes after it.
Exec == conts[<<"exec", 1>>]
Verified(m) == m.stage \in {"rec", "del"} => Exec = "ok"

\* A goroutine about to start the execution starts it for the first time.
StartInv(pc, m, life) ==
    m.stage = "exec" /\ (pc \in {"save_start", "start"} \/ (pc = "save_made" /\ life = "created"))
      => invoked = 0 /\ Exec \notin {"running", "ok"}

ThreadAt(pc, m, life) ==
    MetaInv(m) /\ PCInv(pc, m) /\ (~replayed => Verified(m) /\ StartInv(pc, m, life))
ThreadInv(x) == ThreadAt(Eff(x), x.m, x.life)

\* The goroutine is going to write the row again, or to watch its phase.
WorkPCs == PCs \ {"idle", "publish", "finalize", "await", "watching"}
WorkAt(pc, m) ==
    \/ /\ pc \in WorkPCs
       /\ pc = "decide" => m.stage # "del"
       /\ pc = "enter" => m.status \notin Terminal \cup {"waiting"}
    \/ pc = "watching" /\ m = row.m /\ m.step = "running"
Working(x) == WorkAt(Eff(x), x.m)

Attended ==
    \/ row.m.step = "running" /\ watch[Cid(row.m, row.m.stage)] > 0
    \/ row.m.stage = "del" /\ row.m.step = "term"
    \/ \E t \in Locks : Working(th[t])

RowInv ==
    /\ row.st = "terminal" => row.m.status \in Terminal
    /\ proc # "down" /\ ~gaveUp /\ row.m.status \in {"pending", "running"} => Attended

FinInv == fin.pc \in {"store", "file", "row"} => fin.m.status \in Terminal

\* The first launch, the only one that works while the process serves.
Prep1 == conts[<<"prep", 1>>]
EarlyPCs == {"enter", "save_create", "create", "save_made", "save_start", "start"}
LaunchAt(pc, m, life) ==
    /\ m.stage = "prep" /\ m.prep = 1
    /\ pc \in EarlyPCs \cup {"save_running", "watching", "fail", "fail_save", "idle"}
    /\ pc \in EarlyPCs => m.status = "pending"
    /\ pc = "enter" => m.made = {}
    /\ pc \in {"enter", "save_create", "create"} => Prep1 = "none"
    /\ pc \in {"save_made", "save_start", "start"} => Prep1 = "created"
    /\ pc = "save_made" => life = "created"
LaunchInv(x) == LaunchAt(Eff(x), x.m, x.life)

Launching ==
    /\ LaunchInv(th["key"]) /\ row.m.status # "waiting"
    /\ Eff(th["key"]) \in EarlyPCs => fin.pc = "idle" /\ mem.status # "running"

\* Without a repeated call one goroutine at a time drives the workflow.
SoloInv ==
    /\ proc = "down" => \A t \in Locks : th[t].pc = "idle"
    /\ proc = "down" => \A c \in CIDs : watch[c] = 0
    /\ ~replayed /\ th["key"].pc # "idle" =>
         /\ th["codex"].pc = "idle"
         /\ \A c \in CIDs : watch[c] = 0
         /\ proc = "up" => Launching

ExecInv ==
    ~replayed =>
      /\ invoked = (IF shm = "accepted" THEN 1 ELSE 0)
      /\ Exec \in {"none", "created"} => invoked = 0
      /\ \A c \in CIDs : c[1] = "del" /\ conts[c] \notin {"none", "created"} => Exec = "ok"
      /\ Verified(row.m) /\ Verified(file) /\ Verified(mem) /\ Verified(fin.m)

CodexInv ==
    /\ CodexType
    /\ MetaInv(row.m) /\ MetaInv(file) /\ MetaInv(mem) /\ MetaInv(fin.m)
    /\ \A t \in Locks : ThreadInv(th[t])
    /\ RowInv /\ FinInv /\ SoloInv /\ ExecInv

-----------------------------------------------------------------------------
(* Metadata, containers and goroutines.                                    *)

LEMMA Blank == /\ Absent \in MetaRec /\ Fresh \in MetaRec /\ MetaInv(Absent) /\ MetaInv(Fresh)
               /\ Absent.stage = "prep" /\ Absent.status = "absent"
               /\ Fresh.stage = "prep" /\ Fresh.status = "pending" /\ Fresh.made = {} /\ Fresh.prep = 1
<1>1. Fresh \in MetaRec /\ Absent \in MetaRec
  BY DEF Fresh, Absent, MetaRec, Statuses, Stages, Steps
<1>2. MetaInv(Fresh) /\ MetaInv(Absent)
  BY CodexAssumption DEF Fresh, Absent, MetaInv
<1> QED
  BY <1>1, <1>2 DEF Fresh, Absent

LEMMA IdleThread == Idle \in Thread /\ NoFinal \in Final /\ Idle.pc = "idle" /\ Idle.m = Absent /\ NoFinal.m = Absent
                    /\ NoFinal.pc = "idle" /\ Eff(Idle) = "idle"
  BY Blank DEF Idle, NoFinal, Thread, Final, PCs, Lives, Eff

LEMMA IdleInv == ThreadInv(Idle) /\ ~Working(Idle)
  BY Blank, IdleThread DEF ThreadInv, ThreadAt, PCInv, BeforePCs, AfterPCs, ExecPCs, Verified, StartInv, Working, WorkAt, WorkPCs

LEMMA MetaFields ==
  ASSUME NEW m \in MetaRec
  PROVE  /\ m.status \in Statuses /\ m.stage \in Stages /\ m.step \in Steps /\ m.prep \in Nat /\ m.del \in Nat
         /\ m.rec \in Nat /\ m.made \in SUBSET Stages /\ m.cur \in Stages \cup {"none"} /\ m.gen \in Nat
         /\ m.timed \in BOOLEAN
  BY DEF MetaRec

LEMMA ThreadFields ==
  ASSUME NEW x \in Thread
  PROVE  x.pc \in PCs /\ x.m \in MetaRec /\ x.life \in Lives /\ x.then \in PCs /\ x.arm \in BOOLEAN
  BY DEF Thread

LEMMA FinalFields ==
  ASSUME NEW x \in Final
  PROVE  /\ x.pc \in {"idle", "act", "store", "file", "row"} /\ x.why \in {"exit", "stop", "deadline"}
         /\ x.m \in MetaRec /\ x.life \in Lives
  BY DEF Final

LEMMA Containers ==
  /\ <<"exec", 1>> \in CIDs /\ <<"prep", 1>> \in CIDs /\ <<"exec", 1>> # <<"prep", 1>>
  /\ \A n \in Attempts : <<"del", n>> \in CIDs /\ <<"prep", n>> \in CIDs
<1>1. 1 \in Attempts
  BY CodexAssumption DEF Attempts
<1> QED
  BY <1>1 DEF CIDs

LEMMA CidOf ==
  ASSUME NEW m \in MetaRec, MetaInv(m), NEW s \in Stages, s = "del" => m.del >= 1
  PROVE  Cid(m, s) \in CIDs
<1>1. m.prep \in Nat /\ m.del \in Nat /\ m.gen \in Nat /\ m.rec \in Nat
  BY MetaFields
<1>2. m.prep \in Attempts
  BY <1>1, CodexAssumption DEF Attempts, MetaInv
<1>3. s = "del" => m.del \in Attempts
  BY <1>1, CodexAssumption DEF Attempts, MetaInv
<1>4. CASE s = "prep"
  BY <1>2, <1>4, Containers DEF Cid
<1>5. CASE s = "del"
  BY <1>3, <1>5, Containers DEF Cid
<1>6. CASE s \in {"exec", "rec"}
  BY <1>6 DEF Cid, CIDs
<1> QED
  BY <1>4, <1>5, <1>6 DEF Stages

LEMMA CidStage ==
  ASSUME NEW m, NEW s
  PROVE  Cid(m, s)[1] = s /\ (s = "exec" => Cid(m, s) = <<"exec", 1>>) /\ (s = "prep" => Cid(m, s) = <<"prep", m.prep>>)
  BY DEF Cid

\* The forms a goroutine's step takes.
LEMMA Put ==
  ASSUME th \in [Locks -> Thread], NEW t \in Locks, NEW x \in Thread, th' = [th EXCEPT ![t] = x]
  PROVE  th' \in [Locks -> Thread] /\ th'[t] = x /\ \A o \in Locks : o # t => th'[o] = th[o]
  OBVIOUS

LEMMA Went ==
  ASSUME th \in [Locks -> Thread], NEW t \in Locks, NEW pc \in PCs, Goto(t, pc)
  PROVE  /\ th' \in [Locks -> Thread] /\ \A o \in Locks : o # t => th'[o] = th[o]
         /\ th'[t].pc = pc /\ th'[t].m = th[t].m /\ th'[t].life = th[t].life
<1> DEFINE x == [th[t] EXCEPT !.pc = pc]
<1>1. th[t] \in Thread
  OBVIOUS
<1>2. x \in Thread /\ x.pc = pc /\ x.m = th[t].m /\ x.life = th[t].life
  BY <1>1 DEF Thread
<1>3. th' = [th EXCEPT ![t] = x]
  BY DEF Goto
<1> HIDE DEF x
<1> QED
  BY <1>2, <1>3, Put

LEMMA Learned ==
  ASSUME th \in [Locks -> Thread], NEW t \in Locks, NEW pc \in PCs, NEW c \in Lives, Learn(t, pc, c)
  PROVE  /\ th' \in [Locks -> Thread] /\ \A o \in Locks : o # t => th'[o] = th[o]
         /\ th'[t].pc = pc /\ th'[t].m = th[t].m /\ th'[t].life = c
<1> DEFINE x == [th[t] EXCEPT !.pc = pc, !.life = c]
<1>1. th[t] \in Thread
  OBVIOUS
<1>2. x \in Thread /\ x.pc = pc /\ x.m = th[t].m /\ x.life = c
  BY <1>1 DEF Thread
<1>3. th' = [th EXCEPT ![t] = x]
  BY DEF Learn
<1> HIDE DEF x
<1> QED
  BY <1>2, <1>3, Put

LEMMA Parts ==
  ASSUME CodexInv, NEW t \in Locks
  PROVE  /\ th \in [Locks -> Thread] /\ th[t] \in Thread /\ th[t].pc \in PCs /\ th[t].then \in PCs
         /\ th[t].m \in MetaRec /\ th[t].life \in Lives
         /\ ThreadInv(th[t]) /\ MetaInv(th[t].m) /\ PCInv(Eff(th[t]), th[t].m)
         /\ row.m \in MetaRec /\ fin.m \in MetaRec
<1>1. th \in [Locks -> Thread] /\ th[t] \in Thread /\ row \in [st: RowStates, m: MetaRec] /\ fin \in Final
  BY DEF CodexInv, CodexType
<1>2. row.m \in MetaRec
  BY <1>1
<1>3. ThreadInv(th[t]) /\ MetaInv(th[t].m) /\ PCInv(Eff(th[t]), th[t].m)
  BY DEF CodexInv, ThreadInv, ThreadAt
<1> QED
  BY <1>1, <1>2, <1>3, ThreadFields, FinalFields

-----------------------------------------------------------------------------
(* A step of one goroutine.                                                *)

\* Without a repeated call it is the only one at work.
Turn(t) == (~replayed /\ th["key"].pc # "idle" => t = "key") /\ (t = "key" => th[t].pc # "idle")

LEMMA TurnTaken ==
  ASSUME CodexInv, NEW t \in Locks, th[t].pc # "idle"
  PROVE  Turn(t) /\ proc # "down"
  BY DEF CodexInv, SoloInv, Turn, Locks

\* What only a goroutine's step leaves alone.
World == <<conts, shm, fin, watch, proc, invoked, gaveUp, replayed>>

Moved(t) == th' \in [Locks -> Thread] /\ \A o \in Locks : o # t => th'[o] = th[o]

\* The first launch goes on.
LaunchStep(t) ==
    t = "key" /\ proc = "up" /\ ~replayed /\ th'[t].pc # "idle" =>
        LaunchInv(th'[t]) /\ (Eff(th'[t]) \in EarlyPCs => Eff(th[t]) \in EarlyPCs)

LEMMA OtherThreads ==
  ASSUME CodexInv, NEW t \in Locks, Moved(t), UNCHANGED <<conts, invoked, replayed>>, ThreadInv(th'[t])
  PROVE  \A o \in Locks : ThreadInv(th[o])'
<1>1. \A o \in Locks : ThreadInv(th'[o])
  BY DEF CodexInv, Moved
<1> QED
  BY <1>1 DEF ThreadInv, ThreadAt, Eff, Verified, StartInv, Exec

\* The parts about who is at work, when the row and the published copies may change too.
LEMMA SoloStep ==
  ASSUME CodexInv, NEW t \in Locks, Turn(t), proc # "down", Moved(t), UNCHANGED World, LaunchStep(t),
         t = "key" /\ proc = "up" /\ ~replayed /\ th'[t].pc # "idle" =>
            /\ row.m.status # "waiting" => row'.m.status # "waiting"
            /\ Eff(th'[t]) \in EarlyPCs => (mem.status # "running" => mem'.status # "running"),
         t # "key" /\ ~replayed => row' = row \/ th["key"].pc = "idle"
  PROVE  SoloInv'
<1>1. "key" \in Locks /\ "codex" \in Locks /\ (t = "key" \/ t = "codex")
  BY DEF Locks
<1>2. CASE t = "key"
  <2>1. th'["codex"] = th["codex"] /\ th["key"].pc # "idle"
    BY <1>1, <1>2 DEF Moved, Turn
  <2>2. UNCHANGED World
    OBVIOUS
  <2>3. ~replayed => th["codex"].pc = "idle" /\ (\A c \in CIDs : watch[c] = 0) /\ (proc = "up" => Launching)
    BY <2>1 DEF CodexInv, SoloInv
  <2>4. ~replayed /\ proc = "up" /\ th'["key"].pc # "idle" => Launching'
    BY <1>2, <2>2, <2>3 DEF Launching, LaunchStep, LaunchInv, LaunchAt, Eff, Prep1, World
  <2> QED
    BY <2>1, <2>2, <2>3, <2>4 DEF SoloInv, World
<1>3. CASE t = "codex"
  <2>1. th'["key"] = th["key"] /\ (~replayed => th["key"].pc = "idle")
    BY <1>1, <1>3 DEF Moved, Turn
  <2> QED
    BY <2>1 DEF SoloInv, World
<1> QED
  BY <1>1, <1>2, <1>3

LEMMA LocalStep ==
  ASSUME CodexInv, NEW t \in Locks, th[t].pc # "idle", Moved(t), UNCHANGED <<World, row, file, mem>>,
         ThreadInv(th'[t]), Working(th[t]) => Working(th'[t]), LaunchStep(t)
  PROVE  CodexInv'
<1>1. Turn(t) /\ proc # "down"
  BY TurnTaken
<1>2. CodexType'
  BY DEF CodexInv, CodexType, Moved, World
<1>3. MetaInv(row.m)' /\ MetaInv(file)' /\ MetaInv(mem)' /\ MetaInv(fin.m)'
  BY DEF CodexInv, World, MetaInv
<1>4. \A o \in Locks : ThreadInv(th[o])'
  BY OtherThreads DEF World
<1>5. RowInv'
  <2>1. Attended => Attended'
    <3>1. \A o \in Locks : Working(th[o]) => Working(th'[o])
      BY DEF Moved
    <3>2. \A o \in Locks : Working(th[o]) => Working(th[o])'
      BY <3>1 DEF Working, WorkAt, Eff
    <3> QED
      BY <3>2 DEF Attended, World
  <2> QED
    BY <2>1 DEF CodexInv, RowInv, World
<1>6. FinInv' /\ ExecInv'
  BY DEF CodexInv, FinInv, ExecInv, Verified, Exec, World
<1>7. SoloInv'
  BY <1>1, SoloStep DEF World
<1> QED
  BY <1>2, <1>3, <1>4, <1>5, <1>6, <1>7 DEF CodexInv

\* What is written is attended to: by the goroutine itself, or as a phase.
Covered(then, m) ==
    \/ then \in WorkPCs \ {"decide"}
    \/ then = "decide" /\ m.step = "term"
    \/ then = "watching" /\ m.step = "running"

LEMMA Persisted ==
  ASSUME th \in [Locks -> Thread], NEW t \in Locks, NEW st, NEW m \in MetaRec, NEW then \in PCs,
         NEW arm \in BOOLEAN, PersistArming(t, st, m, then, arm)
  PROVE  /\ Moved(t) /\ th'[t].pc = "publish" /\ th'[t].m = m /\ th'[t].then = then /\ th'[t].life = th[t].life
         /\ row' = [st |-> st, m |-> m] /\ UNCHANGED <<World, file, mem>>
<1> DEFINE x == [th[t] EXCEPT !.pc = "publish", !.m = m, !.then = then, !.arm = arm]
<1>1. th[t] \in Thread
  OBVIOUS
<1>2. x \in Thread /\ x.pc = "publish" /\ x.m = m /\ x.then = then /\ x.life = th[t].life
  BY <1>1 DEF Thread, PCs
<1>3. th' = [th EXCEPT ![t] = x] /\ row' = [st |-> st, m |-> m] /\ UNCHANGED <<World, file, mem>>
  BY DEF PersistArming, World
<1> HIDE DEF x
<1> QED
  BY <1>2, <1>3, Put DEF Moved

LEMMA PersistStep ==
  ASSUME CodexInv, NEW t \in Locks, Turn(t), proc # "down",
         NEW st \in RowStates, NEW m \in MetaRec, NEW then \in PCs, NEW arm \in BOOLEAN,
         PersistArming(t, st, m, then, arm), MetaInv(m), ThreadInv(th'[t]),
         st = "terminal" => m.status \in Terminal,
         m.status \in {"pending", "running"} => Covered(then, m),
         LaunchStep(t), t = "key" /\ proc = "up" /\ ~replayed => m.status # "waiting"
  PROVE  CodexInv'
<1>1. /\ Moved(t) /\ th'[t].pc = "publish" /\ th'[t].m = m /\ th'[t].then = then
      /\ row' = [st |-> st, m |-> m] /\ UNCHANGED <<World, file, mem>>
  BY Persisted, Parts
<1>2. row'.m = m /\ row'.st = st /\ row' \in [st: RowStates, m: MetaRec]
  BY <1>1
<1>3. CodexType'
  BY <1>1, <1>2 DEF CodexInv, CodexType, Moved, World
<1>4. MetaInv(row.m)' /\ MetaInv(file)' /\ MetaInv(mem)' /\ MetaInv(fin.m)'
  BY <1>1, <1>2 DEF CodexInv, World, MetaInv
<1>5. \A o \in Locks : ThreadInv(th[o])'
  BY <1>1, OtherThreads DEF World
<1>6. RowInv'
  <2>1. m.status \in {"pending", "running"} => Attended'
    <3>0. Eff(th'[t]) = then
      BY <1>1 DEF Eff
    <3>1. CASE then \in WorkPCs \ {"decide"}
      <4>1. m.status \in {"pending", "running"} => Working(th[t])'
        BY <1>1, <3>0, <3>1 DEF Working, WorkAt, Eff, Terminal
      <4> QED
        BY <4>1 DEF Attended
    <3>2. CASE then = "decide" /\ m.step = "term"
      <4>1. m.stage # "del" => Working(th[t])'
        BY <1>1, <3>0, <3>2 DEF Working, WorkAt, Eff, WorkPCs, PCs
      <4> QED
        BY <1>2, <3>2, <4>1 DEF Attended
    <3>3. CASE then = "watching" /\ m.step = "running"
      <4>1. Working(th[t])'
        BY <1>1, <1>2, <3>0, <3>3 DEF Working, WorkAt, Eff
      <4> QED
        BY <4>1 DEF Attended
    <3> QED
      BY <3>1, <3>2, <3>3 DEF Covered
  <2> QED
    BY <1>2, <2>1 DEF RowInv
<1>7. FinInv'
  BY <1>1 DEF CodexInv, FinInv, World
<1>8. ExecInv'
  <2>1. ~replayed => Verified(m)
    BY <1>1 DEF ThreadInv, ThreadAt
  <2> QED
    BY <1>1, <1>2, <2>1 DEF CodexInv, ExecInv, Verified, Exec, World
<1>9. SoloInv'
  <2>1. t # "key" /\ ~replayed => th["key"].pc = "idle"
    BY DEF Turn
  <2> QED
    BY <1>1, <1>2, <2>1, SoloStep
<1> QED
  BY <1>3, <1>4, <1>5, <1>6, <1>7, <1>8, <1>9 DEF CodexInv

\* From (pc, m, life) a goroutine comes to (p, n, l) without losing what it owes.
GoesOn(pc, m, life, p, n, l) ==
    /\ ThreadAt(pc, m, life) => ThreadAt(p, n, l)
    /\ WorkAt(pc, m) => WorkAt(p, n)
    /\ LaunchAt(pc, m, life) => LaunchAt(p, n, l) /\ (p \in EarlyPCs => pc \in EarlyPCs)

LEMMA LaunchNow ==
  ASSUME CodexInv, th["key"].pc # "idle", proc = "up", ~replayed
  PROVE  LaunchAt(Eff(th["key"]), th["key"].m, th["key"].life) /\ row.m.status # "waiting"
         /\ (Eff(th["key"]) \in EarlyPCs => fin.pc = "idle" /\ mem.status # "running")
  BY DEF CodexInv, SoloInv, Launching, LaunchInv

LEMMA MoveTo ==
  ASSUME CodexInv, NEW t \in Locks, th[t].pc \notin {"idle", "publish"}, Moved(t),
         UNCHANGED <<World, row, file, mem>>, th'[t].pc # "publish",
         GoesOn(th[t].pc, th[t].m, th[t].life, th'[t].pc, th'[t].m, th'[t].life)
  PROVE  CodexInv'
<1>1. Eff(th[t]) = th[t].pc /\ Eff(th'[t]) = th'[t].pc
  BY DEF Eff
<1>2. ThreadInv(th'[t]) /\ (Working(th[t]) => Working(th'[t]))
  BY <1>1, Parts DEF ThreadInv, Working, GoesOn
<1>3. LaunchStep(t)
  BY <1>1, LaunchNow DEF LaunchStep, LaunchInv, GoesOn
<1> QED
  BY <1>2, <1>3, LocalStep

LEMMA WriteTo ==
  ASSUME CodexInv, NEW t \in Locks, th[t].pc \notin {"idle", "publish"},
         NEW st \in RowStates, NEW m \in MetaRec, NEW then \in PCs, NEW arm \in BOOLEAN,
         PersistArming(t, st, m, then, arm),
         ThreadAt(then, m, th[t].life),
         st = "terminal" => m.status \in Terminal,
         m.status \in {"pending", "running"} => Covered(then, m),
         LaunchAt(th[t].pc, th[t].m, th[t].life) =>
             LaunchAt(then, m, th[t].life) /\ (then \in EarlyPCs => th[t].pc \in EarlyPCs) /\ m.status # "waiting"
  PROVE  CodexInv'
<1>1. Moved(t) /\ th'[t].pc = "publish" /\ th'[t].m = m /\ th'[t].then = then /\ th'[t].life = th[t].life
  BY Persisted, Parts
<1>2. Eff(th[t]) = th[t].pc /\ Eff(th'[t]) = then
  BY <1>1 DEF Eff
<1>3. ThreadInv(th'[t]) /\ MetaInv(m)
  BY <1>1, <1>2 DEF ThreadInv, ThreadAt
<1>4. LaunchStep(t) /\ (t = "key" /\ proc = "up" /\ ~replayed => m.status # "waiting")
  BY <1>1, <1>2, LaunchNow DEF LaunchStep, LaunchInv
<1>5. Turn(t) /\ proc # "down"
  BY TurnTaken
<1> QED
  BY <1>3, <1>4, <1>5, PersistStep

-----------------------------------------------------------------------------
(* Writing the row.                                                        *)

LEMMA Resuming ==
  ASSUME NEW m \in MetaRec, MetaInv(m), m.status # "waiting"
  PROVE  /\ ResumeAt(m) \in PCs /\ ResumeAt(m) \in WorkPCs \ {"decide", "enter"} /\ PCInv(ResumeAt(m), m)
         /\ ResumeAt(m) \notin {"save_start", "start", "save_made"}
<1>1. m.stage \in Stages /\ m.del \in Nat /\ m.rec \in Nat /\ m.made \subseteq Stages
  BY MetaFields
<1>2. ResumeAt(m) \in {"attempt", "inspect", "fail", "create", "save_create"}
  BY DEF ResumeAt
<1>3. PCInv(ResumeAt(m), m)
  BY <1>1 DEF ResumeAt, PCInv, BeforePCs, AfterPCs, ExecPCs, MetaInv, RecoveryRefused
<1> QED
  BY <1>2, <1>3 DEF PCs, WorkPCs

LEMMA SaveAttemptInv == ASSUME CodexInv, NEW t \in Locks, SaveAttempt(t) PROVE CodexInv'
<1>1. th[t].pc = "attempt" /\ th[t].m \in MetaRec /\ th[t] \in Thread
  BY Parts DEF SaveAttempt, At
<1>2. ThreadAt("attempt", th[t].m, th[t].life)
  BY <1>1, Parts DEF ThreadInv, Eff
<1>3. PICK m \in MetaRec : m = [th[t].m EXCEPT !.del = 1]
  BY <1>1 DEF MetaRec
<1>4. /\ m.stage = "del" /\ m.stage = th[t].m.stage /\ m.del = 1 /\ m.gen = th[t].m.gen /\ m.prep = th[t].m.prep
      /\ m.rec = th[t].m.rec /\ m.made = th[t].m.made /\ m.step = th[t].m.step /\ m.status = th[t].m.status
      /\ m.cur = th[t].m.cur /\ m.status # "waiting"
  BY <1>1, <1>2, <1>3 DEF MetaRec, ThreadAt, PCInv
<1>5. MetaInv(m)
  BY <1>1, <1>2, <1>4, MetaFields DEF ThreadAt, MetaInv
<1>6. PICK then \in PCs, arm \in BOOLEAN : then = ResumeAt(m) /\ arm = th[t].arm
  BY <1>1, <1>4, <1>5, Resuming, ThreadFields
<1>7. PersistArming(t, "create_pending", m, then, arm)
  BY <1>3, <1>6 DEF SaveAttempt, Persist
<1>8. ThreadAt(then, m, th[t].life) /\ Covered(then, m)
  BY <1>2, <1>4, <1>5, <1>6, Resuming DEF ThreadAt, Verified, StartInv, Covered
<1>9. ~LaunchAt(th[t].pc, th[t].m, th[t].life)
  BY <1>1 DEF LaunchAt, EarlyPCs
<1>10. "create_pending" \in RowStates
  BY DEF RowStates
<1> QED
  BY <1>1, <1>7, <1>8, <1>9, <1>10, WriteTo

\* Only the status, the step and the deadline differ.
SameMeta(m, n) ==
    /\ n.stage = m.stage /\ n.prep = m.prep /\ n.del = m.del /\ n.rec = m.rec
    /\ n.made = m.made /\ n.cur = m.cur /\ n.gen = m.gen

LEMMA Stepped ==
  ASSUME NEW m \in MetaRec, NEW s \in Steps
  PROVE  \E k \in MetaRec : k = [m EXCEPT !.step = s] /\ SameMeta(m, k) /\ k.step = s /\ k.status = m.status
<1> DEFINE k == [m EXCEPT !.step = s]
<1>1. k \in MetaRec /\ SameMeta(m, k) /\ k.step = s /\ k.status = m.status
  BY DEF MetaRec, SameMeta
<1> HIDE DEF k
<1>2. k = [m EXCEPT !.step = s]
  BY DEF k
<1> QED
  BY <1>1, <1>2

LEMMA Stated ==
  ASSUME NEW m \in MetaRec, NEW st \in Statuses
  PROVE  \E k \in MetaRec : k = [m EXCEPT !.status = st] /\ SameMeta(m, k) /\ k.status = st /\ k.step = m.step
<1> DEFINE k == [m EXCEPT !.status = st]
<1>1. k \in MetaRec /\ SameMeta(m, k) /\ k.status = st /\ k.step = m.step
  BY DEF MetaRec, SameMeta
<1> HIDE DEF k
<1>2. k = [m EXCEPT !.status = st]
  BY DEF k
<1> QED
  BY <1>1, <1>2

LEMMA WriteSame ==
  ASSUME CodexInv, NEW t \in Locks, th[t].pc \notin {"idle", "publish"},
         NEW st \in RowStates, NEW m \in MetaRec, NEW then \in PCs, NEW arm \in BOOLEAN,
         PersistArming(t, st, m, then, arm), SameMeta(th[t].m, m),
         m.step # "create" => m.stage \in m.made, m.status = "waiting" => m.stage \in {"prep", "del"} /\ m.step = "term",
         PCInv(then, m), ~replayed => StartInv(then, m, th[t].life),
         st = "terminal" => m.status \in Terminal,
         m.status \in {"pending", "running"} => Covered(then, m),
         LaunchAt(th[t].pc, th[t].m, th[t].life) =>
             LaunchAt(then, m, th[t].life) /\ (then \in EarlyPCs => th[t].pc \in EarlyPCs) /\ m.status # "waiting"
  PROVE  CodexInv'
<1>1. ThreadAt(th[t].pc, th[t].m, th[t].life)
  BY Parts DEF ThreadInv, Eff
<1>2. MetaInv(m)
  BY <1>1 DEF ThreadAt, MetaInv, SameMeta
<1>3. ThreadAt(then, m, th[t].life)
  BY <1>1, <1>2 DEF ThreadAt, Verified, SameMeta
<1> QED
  BY <1>3, WriteTo

\* What is known of a goroutine that writes.
LEMMA AtPc ==
  ASSUME CodexInv, NEW t \in Locks, NEW pc, At(t, pc), pc \notin {"idle", "publish"}
  PROVE  /\ th[t].pc = pc /\ pc \in PCs /\ th[t].m \in MetaRec /\ th[t].m.stage \in Stages
         /\ th[t].m.status \in Statuses /\ th[t].m.step \in Steps /\ th[t].life \in Lives /\ th[t].arm \in BOOLEAN
         /\ MetaInv(th[t].m) /\ PCInv(pc, th[t].m) /\ (~replayed => StartInv(pc, th[t].m, th[t].life))
<1>1. th[t].pc = pc /\ th[t] \in Thread /\ ThreadInv(th[t])
  BY Parts DEF At
<1>2. pc \in PCs /\ th[t].m \in MetaRec /\ th[t].life \in Lives /\ th[t].arm \in BOOLEAN
  BY <1>1, ThreadFields
<1>3. ThreadAt(pc, th[t].m, th[t].life)
  BY <1>1 DEF ThreadInv, Eff
<1> QED
  BY <1>1, <1>2, <1>3, MetaFields DEF ThreadAt

LEMMA SaveCreateInv == ASSUME CodexInv, NEW t \in Locks, SaveCreate(t) PROVE CodexInv'
<1>1. At(t, "save_create")
  BY DEF SaveCreate
<1>2. PICK n \in MetaRec : n = th[t].m
  BY <1>1, AtPc
<1>3. PICK m \in MetaRec : m = [n EXCEPT !.step = "create"] /\ SameMeta(n, m) /\ m.step = "create" /\ m.status = n.status
  BY <1>2, Stepped DEF Steps
<1>4. PICK arm \in BOOLEAN : arm = th[t].arm
  BY <1>1, AtPc
<1>5. PersistArming(t, "create_pending", m, "create", arm)
  BY <1>2, <1>3, <1>4 DEF SaveCreate, Persist
<1>6. PCInv("create", m) /\ m.stage = n.stage /\ m.prep = n.prep /\ m.status # "waiting"
  BY <1>1, <1>2, <1>3, AtPc DEF PCInv, SameMeta, BeforePCs, AfterPCs, ExecPCs
<1>7. /\ StartInv("create", m, th[t].life) /\ Covered("create", m)
  BY <1>3, <1>6 DEF StartInv, Covered, WorkPCs, PCs
<1>8. LaunchAt("save_create", n, th[t].life) => LaunchAt("create", m, th[t].life) /\ m.status # "waiting"
  BY <1>3, <1>6 DEF LaunchAt, EarlyPCs
<1>9. /\ th[t].pc = "save_create" /\ "create_pending" \in RowStates /\ "create" \in PCs
      /\ "save_create" \in EarlyPCs /\ SameMeta(th[t].m, m)
  BY <1>1, <1>2, <1>3, AtPc DEF RowStates, PCs, EarlyPCs
<1> QED
  BY <1>2, <1>3, <1>5, <1>6, <1>7, <1>8, <1>9, WriteSame

LEMMA SaveStartInv == ASSUME CodexInv, NEW t \in Locks, SaveStart(t) PROVE CodexInv'
<1>1. At(t, "save_start")
  BY DEF SaveStart
<1>2. PICK n \in MetaRec : n = th[t].m
  BY <1>1, AtPc
<1>3. PICK m \in MetaRec : m = [n EXCEPT !.step = "start"] /\ SameMeta(n, m) /\ m.step = "start" /\ m.status = n.status
  BY <1>2, Stepped DEF Steps
<1>4. PICK arm \in BOOLEAN : arm = th[t].arm
  BY <1>1, AtPc
<1>5. PersistArming(t, "start_pending", m, "start", arm)
  BY <1>2, <1>3, <1>4 DEF SaveStart, Persist
<1>6. PCInv("start", m) /\ m.stage = n.stage /\ m.prep = n.prep /\ m.status # "waiting" /\ m.stage \in m.made
  BY <1>1, <1>2, <1>3, AtPc DEF PCInv, SameMeta, BeforePCs, AfterPCs, ExecPCs
<1>7. /\ ~replayed => StartInv("start", m, th[t].life)
      /\ Covered("start", m)
  BY <1>1, <1>2, <1>3, <1>6, AtPc DEF StartInv, Covered, WorkPCs, PCs
<1>8. LaunchAt("save_start", n, th[t].life) => LaunchAt("start", m, th[t].life) /\ m.status # "waiting"
  BY <1>3, <1>6 DEF LaunchAt, EarlyPCs
<1>9. /\ th[t].pc = "save_start" /\ "start_pending" \in RowStates /\ "start" \in PCs
      /\ "save_start" \in EarlyPCs /\ SameMeta(th[t].m, m)
  BY <1>1, <1>2, <1>3, AtPc DEF RowStates, PCs, EarlyPCs
<1> QED
  BY <1>2, <1>3, <1>5, <1>6, <1>7, <1>8, <1>9, WriteSame

\* The writes of the execution.
LEMMA SaveExecInv == ASSUME CodexInv, NEW t \in Locks, SaveInject(t) \/ SaveAccept(t) PROVE CodexInv'
<1>1. PICK pc \in {"save_inject", "save_accept"}, s \in {"inject", "accept"}, then \in {"marker", "wait_path"} :
        At(t, pc) /\ Persist(t, "running", [th[t].m EXCEPT !.step = s], then)
  BY DEF SaveInject, SaveAccept
<1>2. PICK n \in MetaRec : n = th[t].m
  BY <1>1, AtPc
<1>3. PICK m \in MetaRec : m = [n EXCEPT !.step = s] /\ SameMeta(n, m) /\ m.step = s /\ m.status = n.status
  <2>1. s \in Steps
    BY DEF Steps
  <2> QED
    BY <2>1, Stepped
<1>4. PICK arm \in BOOLEAN : arm = th[t].arm
  BY <1>1, AtPc
<1>5. PersistArming(t, "running", m, then, arm)
  BY <1>1, <1>2, <1>3, <1>4 DEF Persist
<1>6. PCInv(then, m) /\ m.status # "waiting" /\ m.stage \in m.made /\ m.stage = n.stage
  BY <1>1, <1>2, <1>3, AtPc DEF PCInv, SameMeta, BeforePCs, AfterPCs, ExecPCs
<1>7. /\ StartInv(then, m, th[t].life) /\ Covered(then, m)
  BY <1>3, <1>6 DEF StartInv, Covered, WorkPCs, PCs
<1>8. ~LaunchAt(pc, n, th[t].life)
  BY DEF LaunchAt, EarlyPCs
<1>9. th[t].pc = pc /\ "running" \in RowStates /\ then \in PCs /\ SameMeta(th[t].m, m)
  BY <1>1, <1>2, <1>3, AtPc DEF RowStates, PCs
<1> QED
  BY <1>2, <1>3, <1>5, <1>6, <1>7, <1>8, <1>9, WriteSame

LEMMA SaveRunningInv == ASSUME CodexInv, NEW t \in Locks, SaveRunning(t) PROVE CodexInv'
<1>1. At(t, "save_running")
  BY DEF SaveRunning
<1>2. PICK n \in MetaRec : n = th[t].m
  BY <1>1, AtPc
<1> DEFINE first == n.stage = "prep" /\ ~n.timed
<1>3. PICK d \in BOOLEAN : d = (n.timed \/ first)
  BY <1>2, MetaFields
<1>4. PICK arm \in BOOLEAN : arm = (th[t].arm \/ first)
  BY <1>1, AtPc
<1>5. PICK m \in MetaRec : /\ m = [n EXCEPT !.status = "running", !.step = "running", !.timed = d]
                           /\ SameMeta(n, m) /\ m.step = "running" /\ m.status = "running"
  <2> DEFINE k == [n EXCEPT !.status = "running", !.step = "running", !.timed = d]
  <2>1. k \in MetaRec /\ SameMeta(n, k) /\ k.step = "running" /\ k.status = "running"
    BY DEF MetaRec, SameMeta, Steps, Statuses
  <2>2. k = [n EXCEPT !.status = "running", !.step = "running", !.timed = d]
    OBVIOUS
  <2> HIDE DEF k
  <2> QED
    BY <2>1, <2>2, Zenon
<1>6. PersistArming(t, "running", m, "watching", arm)
  BY <1>2, <1>3, <1>4, <1>5 DEF SaveRunning
<1> HIDE DEF first
<1>7. PCInv("watching", m) /\ m.stage = n.stage /\ m.prep = n.prep /\ m.stage \in m.made
  BY <1>1, <1>2, <1>5, AtPc DEF PCInv, SameMeta, BeforePCs, AfterPCs, ExecPCs
<1>8. StartInv("watching", m, th[t].life) /\ Covered("watching", m)
  BY <1>5 DEF StartInv, Covered
<1>9. LaunchAt("save_running", n, th[t].life) => LaunchAt("watching", m, th[t].life)
  BY <1>7 DEF LaunchAt, EarlyPCs
<1>10. th[t].pc = "save_running" /\ "running" \in RowStates /\ "watching" \in PCs /\ SameMeta(th[t].m, m) /\ "watching" \notin EarlyPCs
  BY <1>1, <1>2, <1>5, AtPc DEF RowStates, PCs, EarlyPCs
<1> QED
  BY <1>2, <1>5, <1>6, <1>7, <1>8, <1>9, <1>10, WriteSame

LEMMA SaveTermInv == ASSUME CodexInv, NEW t \in Locks, SaveTerm(t) PROVE CodexInv'
<1>1. At(t, "term")
  BY DEF SaveTerm
<1>2. PICK n \in MetaRec : n = th[t].m
  BY <1>1, AtPc
<1>3. PICK s \in Statuses : s = (IF n.stage = "del" THEN "running" ELSE n.status)
  BY MetaFields DEF Statuses
<1>4. PICK m \in MetaRec : m = [n EXCEPT !.step = "term", !.status = s] /\ SameMeta(n, m) /\ m.step = "term" /\ m.status = s
  <2> DEFINE k == [n EXCEPT !.step = "term", !.status = s]
  <2>1. k \in MetaRec /\ SameMeta(n, k) /\ k.step = "term" /\ k.status = s
    BY DEF MetaRec, SameMeta, Steps
  <2> QED
    BY <2>1
<1>5. PICK arm \in BOOLEAN : arm = th[t].arm
  BY <1>1, AtPc
<1>6. PersistArming(t, "running", m, "decide", arm)
  BY <1>2, <1>3, <1>4, <1>5 DEF SaveTerm, Persist
<1>7. PCInv("decide", m) /\ m.stage = n.stage /\ m.status # "waiting" /\ m.stage \in m.made
  BY <1>1, <1>2, <1>3, <1>4, AtPc DEF PCInv, SameMeta, BeforePCs, AfterPCs, ExecPCs
<1>8. StartInv("decide", m, th[t].life) /\ Covered("decide", m)
  BY <1>4 DEF StartInv, Covered
<1>9. ~LaunchAt("term", n, th[t].life)
  BY DEF LaunchAt, EarlyPCs
<1>10. th[t].pc = "term" /\ "running" \in RowStates /\ "decide" \in PCs /\ SameMeta(th[t].m, m)
  BY <1>1, <1>2, <1>4, AtPc DEF RowStates, PCs
<1> QED
  BY <1>2, <1>4, <1>6, <1>7, <1>8, <1>9, <1>10, WriteSame

LEMMA SaveNextInv == ASSUME CodexInv, NEW t \in Locks, SaveNext(t) PROVE CodexInv'
<1>1. At(t, "save_next")
  BY DEF SaveNext
<1>2. PICK m \in MetaRec : m = th[t].m
  BY <1>1, AtPc
<1>3. MetaInv(m) /\ m.status # "waiting"
  BY <1>1, <1>2, AtPc DEF PCInv
<1>4. PICK then \in PCs : then = ResumeAt(m)
  BY <1>3, Resuming
<1>5. PICK arm \in BOOLEAN : arm = th[t].arm
  BY <1>1, AtPc
<1>6. PersistArming(t, "running", m, then, arm)
  BY <1>2, <1>4, <1>5 DEF SaveNext, Persist
<1>7. PCInv(then, m) /\ then \in WorkPCs \ {"decide", "enter"} /\ then \notin {"save_start", "start", "save_made"}
  BY <1>3, <1>4, Resuming
<1>8. StartInv(then, m, th[t].life) /\ Covered(then, m)
  BY <1>7 DEF StartInv, Covered
<1>9. m.step # "create" => m.stage \in m.made
  BY <1>3 DEF MetaInv
<1>10. ~LaunchAt("save_next", m, th[t].life)
  BY DEF LaunchAt, EarlyPCs
<1>11. th[t].pc = "save_next" /\ "running" \in RowStates /\ SameMeta(th[t].m, m)
  BY <1>1, <1>2, AtPc DEF RowStates, SameMeta
<1> QED
  BY <1>2, <1>3, <1>6, <1>7, <1>8, <1>9, <1>10, <1>11, WriteSame

\* The run waits, or it failed.
LEMMA SaveLastInv == ASSUME CodexInv, NEW t \in Locks, WaitForGitHub(t) \/ FailSave(t) PROVE CodexInv'
<1>1. PICK pc \in {"save_wait", "fail_save"}, s \in {"waiting", "failed"}, st \in {"waiting_external", "terminal"} :
        /\ At(t, pc) /\ Persist(t, st, [th[t].m EXCEPT !.status = s], "idle")
        /\ (pc = "save_wait" /\ s = "waiting" /\ st = "waiting_external") \/ (pc = "fail_save" /\ s = "failed" /\ st = "terminal")
  BY DEF WaitForGitHub, FailSave
<1>2. PICK n \in MetaRec : n = th[t].m
  BY <1>1, AtPc
<1>3. PICK m \in MetaRec : m = [n EXCEPT !.status = s] /\ SameMeta(n, m) /\ m.status = s /\ m.step = n.step
  <2>1. s \in Statuses
    BY DEF Statuses, Terminal
  <2> QED
    BY <2>1, Stated
<1>4. PICK arm \in BOOLEAN : arm = th[t].arm
  BY <1>1, AtPc
<1>5. PersistArming(t, st, m, "idle", arm)
  BY <1>1, <1>2, <1>3, <1>4 DEF Persist
<1>6. PCInv("idle", m) /\ MetaInv(n) /\ (m.status = "waiting" => m.stage \in {"prep", "del"} /\ m.step = "term")
      /\ (m.step # "create" => m.stage \in m.made) /\ m.stage = n.stage /\ m.prep = n.prep
  BY <1>1, <1>2, <1>3, AtPc DEF PCInv, SameMeta, BeforePCs, AfterPCs, ExecPCs, MetaInv
<1>7. StartInv("idle", m, th[t].life) /\ (st = "terminal" => m.status \in Terminal) /\ m.status \notin {"pending", "running"}
  BY <1>1, <1>3 DEF StartInv, Terminal
<1>8. LaunchAt(pc, n, th[t].life) => LaunchAt("idle", m, th[t].life) /\ m.status # "waiting"
  BY <1>1, <1>3, <1>6 DEF LaunchAt, EarlyPCs
<1>9. th[t].pc = pc /\ st \in RowStates /\ "idle" \in PCs /\ SameMeta(th[t].m, m) /\ "idle" \notin EarlyPCs
  BY <1>1, <1>2, <1>3, AtPc DEF RowStates, PCs, EarlyPCs
<1> QED
  BY <1>2, <1>3, <1>5, <1>6, <1>7, <1>8, <1>9, WriteSame

LEMMA Continues ==
  ASSUME NEW m \in MetaRec, m.stage \in m.made, m.status # "waiting", NEW c \in Lives
  PROVE  /\ Continue(m, c) \in {"term", "save_start", "save_running", "wait_path", "probe", "save_inject", "fail"}
         /\ PCInv(Continue(m, c), m) /\ (Continue(m, c) = "save_start" <=> c = "created")
         /\ Continue(m, c) \in WorkPCs \ {"decide", "enter"} /\ Continue(m, c) \in PCs
<1>1. Continue(m, c) \in {"term", "save_start", "save_running", "wait_path", "probe", "save_inject", "fail"}
      /\ (Continue(m, c) \in ExecPCs => m.stage = "exec")
      /\ (Continue(m, c) = "save_start" <=> c = "created")
  BY DEF Continue, Exited, Lives, ExecPCs
<1>2. PCInv(Continue(m, c), m)
  BY <1>1 DEF PCInv, BeforePCs
<1> QED
  BY <1>1, <1>2 DEF WorkPCs, PCs

LEMMA SaveMadeInv == ASSUME CodexInv, NEW t \in Locks, SaveMade(t) PROVE CodexInv'
<1>1. At(t, "save_made")
  BY DEF SaveMade
<1>2. PICK n \in MetaRec : n = th[t].m
  BY <1>1, AtPc
<1>3. /\ MetaInv(n) /\ n.stage \notin n.made /\ (n.stage = "del" => n.del >= 1) /\ n.stage \in Stages
      /\ n.rec \in Nat /\ n.del \in Nat /\ n.gen \in Nat /\ n.status # "waiting"
  BY <1>1, <1>2, AtPc, MetaFields DEF PCInv, BeforePCs
<1>4. PICK k \in Nat : k = (IF n.stage = "rec" THEN n.rec + 1 ELSE n.rec)
  BY <1>3
<1>5. PICK m \in MetaRec : /\ m = [n EXCEPT !.step = "start", !.made = @ \cup {n.stage}, !.cur = n.stage, !.rec = k]
                           /\ m.step = "start" /\ m.made = n.made \cup {n.stage} /\ m.cur = n.stage /\ m.rec = k
                           /\ m.stage = n.stage /\ m.status = n.status /\ m.prep = n.prep /\ m.del = n.del /\ m.gen = n.gen
  <2> DEFINE j == [n EXCEPT !.step = "start", !.made = @ \cup {n.stage}, !.cur = n.stage, !.rec = k]
  <2>1. n.made \cup {n.stage} \in SUBSET Stages /\ n.stage \in Stages \cup {"none"}
    BY <1>3, MetaFields
  <2>2. /\ j \in MetaRec /\ j.step = "start" /\ j.made = n.made \cup {n.stage} /\ j.cur = n.stage /\ j.rec = k
        /\ j.stage = n.stage /\ j.status = n.status /\ j.prep = n.prep /\ j.del = n.del /\ j.gen = n.gen
    BY <2>1 DEF MetaRec, Steps
  <2> QED
    BY <2>2
<1>6. PICK life \in Lives, arm \in BOOLEAN : life = th[t].life /\ arm = th[t].arm
  BY <1>1, AtPc
<1>7. PICK then \in PCs : then = Continue(m, life)
  BY <1>3, <1>5, Continues
<1>8. PersistArming(t, "container_created", m, then, arm)
  BY <1>2, <1>4, <1>5, <1>6, <1>7 DEF SaveMade, Persist
<1>9. MetaInv(m)
  BY <1>3, <1>4, <1>5 DEF MetaInv
<1>10. PCInv(then, m) /\ (then = "save_start" <=> life = "created") /\ then \in WorkPCs \ {"decide", "enter"}
       /\ then \notin {"save_made", "start"}
  BY <1>3, <1>5, <1>7, Continues
<1>11. ~replayed => Verified(m) /\ StartInv(then, m, life)
  <2>1. ~replayed => Verified(n) /\ StartInv("save_made", n, life)
    BY <1>1, <1>2, <1>6, AtPc, Parts DEF ThreadInv, ThreadAt
  <2> QED
    BY <1>5, <1>10, <2>1 DEF Verified, StartInv
<1>12. ThreadAt(then, m, th[t].life) /\ Covered(then, m)
  BY <1>6, <1>9, <1>10, <1>11 DEF ThreadAt, Covered
<1>13. LaunchAt("save_made", n, life) => LaunchAt(then, m, life) /\ m.status # "waiting"
  BY <1>5, <1>7, <1>10 DEF LaunchAt, EarlyPCs
<1>14. th[t].pc = "save_made" /\ "container_created" \in RowStates /\ "save_made" \in EarlyPCs
  BY <1>1, AtPc DEF RowStates, EarlyPCs
<1> QED
  BY <1>2, <1>6, <1>8, <1>12, <1>13, <1>14, WriteTo

-----------------------------------------------------------------------------
(* Steps that change nothing but the goroutine.                            *)

LEMMA ToFail ==
  ASSUME NEW pc, NEW m, NEW life, NEW l
  PROVE  GoesOn(pc, m, life, "fail", m, l)
  BY DEF GoesOn, ThreadAt, PCInv, StartInv, WorkAt, LaunchAt, WorkPCs, PCs, EarlyPCs, BeforePCs, AfterPCs, ExecPCs

LEMMA ToIdle ==
  ASSUME NEW pc, NEW m, NEW life, ~WorkAt(pc, m)
  PROVE  GoesOn(pc, m, life, Idle.pc, Idle.m, Idle.life)
<1>1. ThreadAt("idle", Idle.m, Idle.life)
  BY IdleInv, IdleThread DEF ThreadInv
<1>2. Absent.stage = "prep" /\ Absent.prep = 1
  BY DEF Absent, Fresh
<1>3. LaunchAt("idle", Idle.m, Idle.life)
  BY <1>2, IdleThread DEF LaunchAt, EarlyPCs
<1> QED
  BY <1>1, <1>3, IdleThread DEF GoesOn, EarlyPCs

\* The execution's steps, none of which the first launch takes.
LEMMA ToExec ==
  ASSUME NEW pc \in ExecPCs, NEW m, NEW life, NEW p \in ExecPCs \cup {"save_running"}, NEW n, NEW l,
         SameMeta(m, n), n.status = m.status, n.step \notin {"create"}
  PROVE  GoesOn(pc, m, life, p, n, l)
<1>1. ~LaunchAt(pc, m, life)
  BY DEF LaunchAt, EarlyPCs, ExecPCs
<1>2. WorkAt(p, n)
  BY DEF WorkAt, WorkPCs, PCs, ExecPCs
<1>3. ASSUME ThreadAt(pc, m, life) PROVE ThreadAt(p, n, l)
  <2>1. m.stage = "exec" /\ m.stage \in m.made /\ m.status # "waiting" /\ n.stage = m.stage /\ n.made = m.made
    BY <1>3 DEF ThreadAt, PCInv, AfterPCs, SameMeta
  <2>2. MetaInv(n)
    BY <1>3, <2>1 DEF ThreadAt, MetaInv, SameMeta
  <2>3. PCInv(p, n)
    BY <2>1 DEF PCInv, BeforePCs, AfterPCs, ExecPCs
  <2> QED
    BY <2>1, <2>2, <2>3 DEF ThreadAt, Verified, StartInv, ExecPCs
<1> QED
  BY <1>1, <1>2, <1>3 DEF GoesOn

LEMMA EnterInv == ASSUME CodexInv, NEW t \in Locks, Enter(t) PROVE CodexInv'
<1>1. th[t].pc = "enter" /\ UNCHANGED <<World, row, file, mem>> /\ th \in [Locks -> Thread]
  BY Parts DEF Enter, At, World
<1>2. PICK m \in MetaRec, life \in Lives : m = th[t].m /\ life = th[t].life /\ MetaInv(m)
  BY Parts
<1>3. CASE m.status \in Terminal \cup {"waiting"}
  <2>1. th' = [th EXCEPT ![t] = Idle]
    BY <1>2, <1>3 DEF Enter
  <2>2. Moved(t) /\ th'[t] = Idle
    BY <1>1, <2>1, Put, IdleThread DEF Moved
  <2>3. ~WorkAt("enter", m)
    BY <1>3 DEF WorkAt
  <2> QED
    BY <1>1, <1>2, <2>2, <2>3, ToIdle, IdleThread, MoveTo
<1>4. CASE m.status \notin Terminal \cup {"waiting"}
  <2>1. PICK p \in PCs : p = ResumeAt(m)
    BY <1>2, <1>4, Resuming
  <2>2. Goto(t, p)
    BY <1>2, <1>4, <2>1 DEF Enter
  <2>3. Moved(t) /\ th'[t].pc = p /\ th'[t].m = m /\ th'[t].life = life
    BY <1>1, <1>2, <2>2, Went DEF Moved
  <2>4. PCInv(p, m) /\ p \in WorkPCs \ {"decide", "enter"} /\ p \notin {"save_start", "start", "save_made"}
    BY <1>2, <1>4, <2>1, Resuming
  <2>5. ThreadAt("enter", m, life) => ThreadAt(p, m, life)
    BY <2>4 DEF ThreadAt, StartInv
  <2>6. WorkAt(p, m)
    BY <2>4 DEF WorkAt
  <2>7. LaunchAt("enter", m, life) => LaunchAt(p, m, life) /\ "enter" \in EarlyPCs
    BY <2>1 DEF LaunchAt, EarlyPCs, ResumeAt
  <2>8. GoesOn("enter", m, life, p, m, life)
    BY <2>5, <2>6, <2>7 DEF GoesOn
  <2>9. p # "publish"
    BY <2>4 DEF WorkPCs
  <2> QED
    BY <1>1, <1>2, <2>3, <2>8, <2>9, MoveTo
<1> QED
  BY <1>3, <1>4

\* The goroutine takes another step with other metadata.
LEMMA Turned ==
  ASSUME th \in [Locks -> Thread], NEW t \in Locks, NEW pc \in PCs, NEW m \in MetaRec,
         th' = [th EXCEPT ![t].pc = pc, ![t].m = m]
  PROVE  Moved(t) /\ th'[t].pc = pc /\ th'[t].m = m /\ th'[t].life = th[t].life
<1> DEFINE x == [th[t] EXCEPT !.pc = pc, !.m = m]
<1>1. th[t] \in Thread
  OBVIOUS
<1>2. x \in Thread /\ x.pc = pc /\ x.m = m /\ x.life = th[t].life
  BY <1>1 DEF Thread
<1>3. th' = [th EXCEPT ![t] = x]
  OBVIOUS
<1> HIDE DEF x
<1> QED
  BY <1>2, <1>3, Put DEF Moved

LEMMA InspectInv == ASSUME CodexInv, NEW t \in Locks, InspectContainer(t) PROVE CodexInv'
<1>1. At(t, "inspect") /\ UNCHANGED <<World, row, file, mem>> /\ th \in [Locks -> Thread]
  BY Parts DEF InspectContainer, World, rest
<1>2. PICK m \in MetaRec, life \in Lives : m = th[t].m /\ life = th[t].life
  BY Parts
<1>3. /\ th[t].pc = "inspect" /\ MetaInv(m) /\ m.stage \in m.made /\ m.status # "waiting" /\ m.stage \in Stages
      /\ ThreadAt("inspect", m, life)
  BY <1>1, <1>2, AtPc, Parts DEF PCInv, AfterPCs, ThreadInv, Eff
<1>4. PICK c \in Lives : c = conts[Cid(m, m.stage)]
  <2>1. Cid(m, m.stage) \in CIDs
    BY <1>3, CidOf DEF MetaInv
  <2> QED
    BY <2>1 DEF CodexInv, CodexType
<1>5. ~LaunchAt("inspect", m, life)
  BY DEF LaunchAt, EarlyPCs
<1>6. CASE m.stage = "exec" /\ c = "running" /\ m.step \in {"create", "start"}
  <2>1. PICK n \in MetaRec : n = [m EXCEPT !.step = "inject"] /\ SameMeta(m, n) /\ n.step = "inject" /\ n.status = m.status
    BY Stepped DEF Steps
  <2>2. th' = [th EXCEPT ![t].pc = "marker", ![t].m = n]
    BY <1>2, <1>4, <1>6, <2>1 DEF InspectContainer
  <2>3. Moved(t) /\ th'[t].pc = "marker" /\ th'[t].m = n /\ th'[t].life = life
    BY <1>1, <1>2, <2>2, Turned DEF PCs
  <2>4. MetaInv(n)
    BY <1>3, <2>1 DEF MetaInv, SameMeta
  <2>5. PCInv("marker", n)
    BY <1>3, <1>6, <2>1 DEF PCInv, SameMeta, BeforePCs, AfterPCs, ExecPCs
  <2>6. ThreadAt("marker", n, life)
    BY <1>6, <2>1, <2>4, <2>5 DEF ThreadAt, Verified, StartInv, SameMeta
  <2>7. WorkAt("marker", n)
    BY DEF WorkAt, WorkPCs, PCs
  <2> QED
    BY <1>1, <1>2, <1>3, <1>5, <2>3, <2>6, <2>7, MoveTo DEF GoesOn
<1>7. CASE ~(m.stage = "exec" /\ c = "running" /\ m.step \in {"create", "start"})
  <2>1. PICK p \in PCs : p = Continue(m, c)
    BY <1>3, Continues
  <2>2. Learn(t, p, c)
    BY <1>2, <1>4, <1>7, <2>1 DEF InspectContainer
  <2>3. Moved(t) /\ th'[t].pc = p /\ th'[t].m = m /\ th'[t].life = c
    BY <1>1, <1>2, <2>2, Learned DEF Moved
  <2>4. PCInv(p, m) /\ (p = "save_start" <=> c = "created") /\ p \in WorkPCs \ {"decide", "enter"}
        /\ p \notin {"start", "save_made"}
    BY <1>3, <2>1, Continues
  <2>5. ~replayed => StartInv(p, m, c)
    <3>1. m.stage = "exec" => c = Exec
      BY <1>4, CidStage DEF Exec
    <3>2. ~replayed /\ Exec = "created" => invoked = 0
      BY DEF CodexInv, ExecInv
    <3> QED
      BY <2>4, <3>1, <3>2 DEF StartInv
  <2>6. ThreadAt(p, m, c) /\ WorkAt(p, m)
    BY <1>3, <2>4, <2>5 DEF ThreadAt, WorkAt
  <2>7. p # "publish"
    BY <2>4 DEF WorkPCs
  <2> QED
    BY <1>1, <1>2, <1>3, <1>5, <2>3, <2>6, <2>7, MoveTo DEF GoesOn
<1> QED
  BY <1>6, <1>7

LEMMA Itself == \A m : SameMeta(m, m)
  BY DEF SameMeta

\* Steps of the execution that change only the goroutine, and the calls that fail.
LEMMA ExecLocalInv ==
  ASSUME CodexInv, NEW t \in Locks,
         \/ ProbeMarker(t) \/ CheckMarker(t) \/ IssueBundle(t) \/ WaitForPath(t) \/ ConsumeBundle(t) \/ CallFails(t)
  PROVE  CodexInv'
<1>1. /\ UNCHANGED <<World, row, file, mem>> /\ th \in [Locks -> Thread]
      /\ th[t].pc \notin {"idle", "publish"}
  BY Parts DEF ProbeMarker, CheckMarker, IssueBundle, WaitForPath, ConsumeBundle, CallFails, CallPCs, At, World, rest
<1>2. PICK m \in MetaRec, life \in Lives, pc \in PCs : m = th[t].m /\ life = th[t].life /\ pc = th[t].pc
  BY Parts
<1>3. PCInv(pc, m) /\ MetaInv(m)
  BY <1>1, <1>2, Parts DEF Eff
<1>4. CASE Goto(t, "fail")
  <2>1. Moved(t) /\ th'[t].pc = "fail" /\ th'[t].m = m /\ th'[t].life = life
    BY <1>1, <1>2, <1>4, Went DEF Moved, PCs
  <2>2. GoesOn(pc, m, life, "fail", m, life)
    BY ToFail
  <2> QED
    BY <1>1, <1>2, <2>1, <2>2, MoveTo
<1>5. ASSUME NEW p \in ExecPCs \cup {"save_running"}, pc \in ExecPCs, Goto(t, p)
      PROVE  CodexInv'
  <2>0. p \in PCs /\ p # "publish"
    BY DEF ExecPCs, PCs
  <2>1. Moved(t) /\ th'[t].pc = p /\ th'[t].m = m /\ th'[t].life = life
    BY <1>1, <1>2, <1>5, <2>0, Went DEF Moved
  <2>2. CASE m.step # "create"
    <3>1. GoesOn(pc, m, life, p, m, life)
      BY <1>5, <2>2, ToExec, Itself
    <3> QED
      BY <1>1, <1>2, <2>0, <2>1, <3>1, MoveTo
  <2>3. CASE m.step = "create"
    <3>1. ThreadAt(pc, m, life) => ThreadAt(p, m, life)
      BY <1>5 DEF ThreadAt, PCInv, StartInv, BeforePCs, AfterPCs, ExecPCs
    <3>2. WorkAt(p, m) /\ ~LaunchAt(pc, m, life)
      BY <1>5 DEF WorkAt, WorkPCs, PCs, ExecPCs, LaunchAt, EarlyPCs
    <3>3. GoesOn(pc, m, life, p, m, life)
      BY <3>1, <3>2 DEF GoesOn
    <3> QED
      BY <1>1, <1>2, <2>0, <2>1, <3>3, MoveTo
  <2> QED
    BY <2>2, <2>3
<1>6. CASE th' = [th EXCEPT ![t].pc = "wait_path", ![t].m.step = "accept"] /\ pc = "probe"
  <2>1. PICK n \in MetaRec : n = [m EXCEPT !.step = "accept"] /\ SameMeta(m, n) /\ n.step = "accept" /\ n.status = m.status
    BY Stepped DEF Steps
  <2>2. th' = [th EXCEPT ![t].pc = "wait_path", ![t].m = n]
    BY <1>2, <1>6, <2>1
  <2>3. Moved(t) /\ th'[t].pc = "wait_path" /\ th'[t].m = n /\ th'[t].life = life
    BY <1>1, <1>2, <2>2, Turned DEF PCs
  <2>4. GoesOn("probe", m, life, "wait_path", n, life)
    BY <2>1, ToExec DEF ExecPCs
  <2> QED
    BY <1>1, <1>2, <1>6, <2>3, <2>4, MoveTo
<1>7. CASE ProbeMarker(t)
  BY <1>2, <1>4, <1>5, <1>6, <1>7 DEF ProbeMarker, At, ExecPCs
<1>8. CASE CheckMarker(t)
  BY <1>2, <1>4, <1>5, <1>8 DEF CheckMarker, AfterMarker, At, ExecPCs
<1>9. CASE IssueBundle(t)
  BY <1>2, <1>4, <1>5, <1>9 DEF IssueBundle, At, ExecPCs
<1>10. CASE WaitForPath(t)
  BY <1>2, <1>4, <1>5, <1>10 DEF WaitForPath, At, ExecPCs
<1>11. CASE ConsumeBundle(t)
  BY <1>2, <1>5, <1>11 DEF ConsumeBundle, At, ExecPCs
<1>12. CASE CallFails(t)
  BY <1>4, <1>12 DEF CallFails
<1> QED
  BY <1>7, <1>8, <1>9, <1>10, <1>11, <1>12

LEMMA IntoStage ==
  ASSUME NEW m \in MetaRec, NEW s \in Stages
  PROVE  /\ Into(m, s) \in MetaRec /\ Into(m, s).stage = s /\ Into(m, s).step = "create" /\ Into(m, s).cur = "none"
         /\ Into(m, s).prep = m.prep /\ Into(m, s).del = m.del /\ Into(m, s).rec = m.rec /\ Into(m, s).made = m.made
         /\ Into(m, s).gen = m.gen /\ Into(m, s).status = m.status
  BY DEF Into, MetaRec, Steps

LEMMA RecoveredFields ==
  ASSUME NEW m \in MetaRec
  PROVE  /\ Recovered(m) \in MetaRec /\ Recovered(m).stage = "del" /\ Recovered(m).step = "create"
         /\ Recovered(m).cur = "none" /\ Recovered(m).prep = m.prep /\ Recovered(m).del = m.del + 1
         /\ Recovered(m).rec = m.rec /\ Recovered(m).made = m.made \ {"del"}
         /\ Recovered(m).gen = m.gen /\ Recovered(m).status = m.status
<1> DEFINE n == Into(m, "del")
<1>1. /\ n \in MetaRec /\ n.stage = "del" /\ n.step = "create" /\ n.cur = "none"
      /\ n.prep = m.prep /\ n.del = m.del /\ n.rec = m.rec /\ n.made = m.made
      /\ n.gen = m.gen /\ n.status = m.status
  BY IntoStage DEF Stages
<1>2. Recovered(m) = [n EXCEPT !.made = @ \ {"del"}, !.del = @ + 1]
  BY DEF Recovered
<1> HIDE DEF n
<1>3. n.made \ {"del"} \in SUBSET Stages /\ n.del + 1 \in Nat
  BY <1>1, MetaFields
<1> QED
  BY <1>1, <1>2, <1>3 DEF MetaRec

LEMMA DecideInv == ASSUME CodexInv, NEW t \in Locks, Decide(t) PROVE CodexInv'
<1>1. At(t, "decide") /\ UNCHANGED <<World, row, file, mem>> /\ th \in [Locks -> Thread]
  BY Parts DEF Decide, World, rest
<1>2. PICK m \in MetaRec, life \in Lives : m = th[t].m /\ life = th[t].life
  BY Parts
<1>3. /\ th[t].pc = "decide" /\ ThreadAt("decide", m, life) /\ MetaInv(m) /\ m.status # "waiting"
      /\ m.step = "term" /\ m.stage \in m.made /\ m.stage \in Stages
      /\ m.rec \in Nat /\ m.del \in Nat /\ m.gen \in Nat
  BY <1>1, <1>2, AtPc, Parts, MetaFields DEF PCInv, AfterPCs, ThreadInv, Eff
<1>4. ASSUME NEW p \in PCs, p # "publish", NEW n \in MetaRec,
             th' = [th EXCEPT ![t].pc = p, ![t].m = n],
             MetaInv(n), PCInv(p, n), ~replayed => Verified(n), p \notin {"save_start", "start", "save_made"},
             WorkAt("decide", m) => WorkAt(p, n)
      PROVE  CodexInv'
  <2>1. Moved(t) /\ th'[t].pc = p /\ th'[t].m = n /\ th'[t].life = life
    BY <1>1, <1>2, <1>4, Turned
  <2>2. ThreadAt(p, n, life)
    BY <1>4 DEF ThreadAt, StartInv
  <2>3. GoesOn("decide", m, life, p, n, life)
    BY <1>4, <2>2 DEF GoesOn, LaunchAt, EarlyPCs
  <2> QED
    BY <1>1, <1>2, <1>3, <1>4, <2>1, <2>3, MoveTo
<1>5. ~replayed => Verified(m)
  BY <1>3 DEF ThreadAt
<1>6. ASSUME NEW s \in {"exec", "del", "rec"}, th' = [th EXCEPT ![t].pc = "save_next", ![t].m = Into(m, s)],
             \/ m.stage = "prep" /\ s = "exec"
             \/ m.stage = "exec" /\ s = "del" /\ Exec = "ok"
             \/ m.stage = "del" /\ s = "rec" /\ m.rec = 0
      PROVE  CodexInv'
  <2>1. PICK n \in MetaRec : /\ n = Into(m, s) /\ n.stage = s /\ n.step = "create" /\ n.cur = "none"
                             /\ n.prep = m.prep /\ n.del = m.del /\ n.rec = m.rec /\ n.made = m.made
                             /\ n.gen = m.gen /\ n.status = m.status
    BY IntoStage DEF Stages
  <2>2. MetaInv(n)
    BY <1>3, <1>6, <2>1 DEF MetaInv
  <2>3. PCInv("save_next", n) /\ WorkAt("save_next", n) /\ "save_next" \in PCs
    BY <1>3, <2>1 DEF PCInv, WorkAt, WorkPCs, PCs, BeforePCs, AfterPCs, ExecPCs
  <2>4. ~replayed => Verified(n)
    BY <1>5, <1>6, <2>1 DEF Verified
  <2> QED
    BY <1>4, <1>6, <2>1, <2>2, <2>3, <2>4
<1>7. ASSUME th' = [th EXCEPT ![t].pc = ResumeAt(Recovered(m)), ![t].m = Recovered(m)], m.stage = "rec"
      PROVE  CodexInv'
  <2>1. PICK n \in MetaRec : /\ n = Recovered(m) /\ n.stage = "del" /\ n.step = "create" /\ n.cur = "none"
                             /\ n.prep = m.prep /\ n.del = m.del + 1 /\ n.rec = m.rec /\ n.made = m.made \ {"del"}
                             /\ n.gen = m.gen /\ n.status = m.status
    BY RecoveredFields
  <2>2. MetaInv(n)
    BY <1>3, <1>7, <2>1 DEF MetaInv
  <2>3. PICK p \in PCs : p = ResumeAt(n)
    BY <1>3, <2>1, <2>2, Resuming
  <2>4. PCInv(p, n) /\ WorkAt(p, n) /\ p # "publish" /\ p \notin {"save_start", "start", "save_made"}
    BY <1>3, <2>1, <2>2, <2>3, Resuming DEF WorkAt, WorkPCs
  <2>5. ~replayed => Verified(n)
    BY <1>5, <1>7, <2>1 DEF Verified
  <2> QED
    BY <1>4, <1>7, <2>1, <2>2, <2>3, <2>4, <2>5
<1>8. ASSUME NEW p \in {"save_wait", "finalize", "fail"}, th' = [th EXCEPT ![t].pc = p, ![t].m = m],
             p = "save_wait" => m.stage \in {"prep", "del"}, p = "finalize" => m.stage = "del"
      PROVE  CodexInv'
  <2>1. PCInv(p, m) /\ p \in PCs /\ (WorkAt("decide", m) => WorkAt(p, m))
    BY <1>3, <1>8 DEF PCInv, WorkAt, WorkPCs, PCs, BeforePCs, AfterPCs, ExecPCs
  <2> QED
    BY <1>3, <1>4, <1>5, <1>8, <2>1
<1>9. m.stage = "exec" /\ Passes(m, life) => Exec = "ok"
  BY CidStage DEF Passes, Reported, Exec
<1> DEFINE To(pc, n) == th' = [th EXCEPT ![t].pc = pc, ![t].m = n]
<1>10. (CASE m.stage = "prep" /\ Passes(m, life) -> To("save_next", Into(m, "exec"))
         [] m.stage = "exec" /\ Passes(m, life) -> To("save_next", Into(m, "del"))
         [] m.stage = "rec" /\ Passes(m, life)  -> To(ResumeAt(Recovered(m)), Recovered(m))
         [] Waits(m, life)                      -> To("save_wait", m)
         [] Stale(m, life)                      -> To("save_next", Into(m, "rec"))
         [] m.stage = "del" /\ ~Waits(m, life) /\ ~Stale(m, life) -> To("finalize", m)
         [] OTHER                               -> To("fail", m))
  BY <1>2 DEF Decide
<1> HIDE DEF To
<1>11. CASE m.stage = "prep" /\ Passes(m, life)
  <2>1. To("save_next", Into(m, "exec"))
    BY <1>10, <1>11 DEF Passes, Waits, Stale
  <2> QED
    BY <1>6, <1>11, <2>1 DEF To
<1>12. CASE m.stage = "exec" /\ Passes(m, life)
  <2>1. To("save_next", Into(m, "del"))
    BY <1>10, <1>12 DEF Passes, Waits, Stale
  <2> QED
    BY <1>6, <1>9, <1>12, <2>1 DEF To
<1>13. CASE m.stage = "rec" /\ Passes(m, life)
  <2>1. To(ResumeAt(Recovered(m)), Recovered(m))
    BY <1>10, <1>13 DEF Passes, Waits, Stale
  <2> QED
    BY <1>7, <1>13, <2>1 DEF To
<1>14. CASE Waits(m, life)
  <2>1. To("save_wait", m) /\ m.stage \in {"prep", "del"}
    BY <1>10, <1>14 DEF Passes, Waits, Stale, Reported
  <2> QED
    BY <1>8, <2>1 DEF To
<1>15. CASE Stale(m, life) /\ ~Waits(m, life)
  <2>1. To("save_next", Into(m, "rec")) /\ m.stage = "del" /\ m.rec = 0
    BY <1>15, <1>10 DEF Stale
  <2> QED
    BY <1>6, <2>1 DEF To
<1>16. CASE m.stage = "del" /\ ~Waits(m, life) /\ ~Stale(m, life)
  <2>1. To("finalize", m)
    BY <1>16, <1>10
  <2> QED
    BY <1>8, <1>16, <2>1 DEF To
<1>17. CASE ~Passes(m, life) /\ ~Waits(m, life) /\ ~Stale(m, life) /\ m.stage # "del"
  <2>1. To("fail", m)
    BY <1>17, <1>10
  <2> QED
    BY <1>8, <2>1 DEF To
<1>18. m.stage = "prep" \/ m.stage = "exec" \/ m.stage = "rec" \/ m.stage = "del"
  BY <1>3 DEF Stages
<1> QED
  BY <1>11, <1>12, <1>13, <1>14, <1>15, <1>16, <1>17, <1>18

-----------------------------------------------------------------------------
(* Steps on the containers.                                                *)

\* What is left alone when containers or the credential change.
Records == <<row, file, mem, fin, watch, proc, gaveUp, replayed>>

LEMMA OnlyOne ==
  ASSUME CodexInv, NEW t \in Locks, th[t].pc # "idle", ~replayed
  PROVE  \A o \in Locks : o # t => th[o].pc = "idle"
  BY DEF CodexInv, SoloInv, Locks

ExecKept ==
    /\ invoked' = (IF shm' = "accepted" THEN 1 ELSE 0)
    /\ Exec' \in {"none", "created"} => invoked' = 0
    /\ \A c \in CIDs : c[1] = "del" /\ conts'[c] \notin {"none", "created"} => Exec' = "ok"
    /\ Exec = "ok" => Exec' = "ok"

LEMMA ContStep ==
  ASSUME CodexInv, NEW t \in Locks, th[t].pc \notin {"idle", "publish"}, Moved(t), th'[t].pc # "publish",
         UNCHANGED <<Records, invoked>>, conts' \in [CIDs -> Lives], shm' \in {"empty", "injected", "accepted"},
         ThreadInv(th[t])', WorkAt(th[t].pc, th[t].m) => WorkAt(th'[t].pc, th'[t].m),
         LaunchAt(th[t].pc, th[t].m, th[t].life) =>
            LaunchInv(th[t])' /\ (th'[t].pc \in EarlyPCs => th[t].pc \in EarlyPCs),
         ~replayed => ExecKept
  PROVE  CodexInv'
<1>1. Turn(t) /\ proc # "down" /\ Eff(th[t]) = th[t].pc /\ Eff(th'[t]) = th'[t].pc
  BY TurnTaken DEF Eff
<1>2. CodexType'
  BY DEF CodexInv, CodexType, Moved, Records
<1>3. MetaInv(row.m)' /\ MetaInv(file)' /\ MetaInv(mem)' /\ MetaInv(fin.m)'
  BY DEF CodexInv, Records, MetaInv
<1>4. ASSUME NEW o \in Locks PROVE ThreadInv(th[o])'
  <2>1. CASE o # t
    <3>1. th'[o] = th[o] /\ ThreadInv(th[o]) /\ (~replayed => th[o].pc = "idle")
      BY <2>1, OnlyOne DEF Moved, CodexInv
    <3>2. ~replayed => Verified(th[o].m)'
      BY <3>1 DEF Verified, ThreadInv, ThreadAt, ExecKept
    <3>3. ~replayed => StartInv(Eff(th[o]), th[o].m, th[o].life)'
      BY <3>1 DEF StartInv, Eff
    <3>4. MetaInv(th[o].m)' /\ PCInv(Eff(th[o]), th[o].m)'
      BY <3>1 DEF ThreadInv, ThreadAt, Eff
    <3> QED
      BY <3>2, <3>3, <3>4 DEF ThreadInv, ThreadAt, Records
  <2> QED
    BY <2>1
<1>5. RowInv'
  <2>1. Attended => Attended'
    <3>1. \A o \in Locks : Working(th[o]) => Working(th'[o])
      BY <1>1 DEF Moved, Working
    <3>2. \A o \in Locks : Working(th[o]) => Working(th[o])'
      BY <3>1 DEF Working, WorkAt, Eff, Records
    <3> QED
      BY <3>2 DEF Attended, Records
  <2> QED
    BY <2>1 DEF CodexInv, RowInv, Records
<1>6. FinInv'
  BY DEF CodexInv, FinInv, Records
<1>7. ExecInv'
  BY DEF CodexInv, ExecInv, ExecKept, Verified, Records
<1>8. SoloInv'
  <2>1. "key" \in Locks /\ "codex" \in Locks /\ (t = "key" \/ t = "codex")
    BY DEF Locks
  <2>2. CASE t = "key"
    <3>1. th'["codex"] = th["codex"] /\ th["key"].pc # "idle"
      BY <2>1, <2>2 DEF Moved
    <3>2. ~replayed => th["codex"].pc = "idle" /\ (\A c \in CIDs : watch[c] = 0) /\ (proc = "up" => Launching)
      BY <3>1 DEF CodexInv, SoloInv
    <3>3. ~replayed /\ proc = "up" => Launching'
      BY <1>1, <2>2, <3>1, <3>2, LaunchNow DEF Launching, Records, Eff
    <3> QED
      BY <1>1, <3>1, <3>2, <3>3 DEF SoloInv, Records
  <2>3. CASE t = "codex"
    <3>1. th'["key"] = th["key"] /\ (~replayed => th["key"].pc = "idle")
      BY <2>1, <2>3, OnlyOne DEF Moved
    <3> QED
      BY <1>1, <3>1 DEF SoloInv, Records
  <2> QED
    BY <2>1, <2>2, <2>3
<1> QED
  BY <1>2, <1>3, <1>4, <1>5, <1>6, <1>7, <1>8 DEF CodexInv

LEMMA ExecNow ==
  ASSUME CodexInv, ~replayed
  PROVE  /\ invoked = (IF shm = "accepted" THEN 1 ELSE 0)
         /\ Exec \in {"none", "created"} => invoked = 0
         /\ \A c \in CIDs : c[1] = "del" /\ conts[c] \notin {"none", "created"} => Exec = "ok"
  BY DEF CodexInv, ExecInv

LEMMA ContTypes ==
  ASSUME CodexInv
  PROVE  conts \in [CIDs -> Lives] /\ shm \in {"empty", "injected", "accepted"} /\ th \in [Locks -> Thread]
         /\ conts[<<"exec", 1>>] \in Lives /\ <<"exec", 1>> \in CIDs /\ invoked \in Nat
  BY Containers DEF CodexInv, CodexType

LEMMA CreateInv == ASSUME CodexInv, NEW t \in Locks, CreateContainer(t) PROVE CodexInv'
<1>1. At(t, "create") /\ UNCHANGED <<Records, invoked, shm>>
  BY DEF CreateContainer, Records
<1>2. PICK m \in MetaRec, life \in Lives : m = th[t].m /\ life = th[t].life
  BY Parts
<1>3. /\ th[t].pc = "create" /\ ThreadAt("create", m, life) /\ MetaInv(m) /\ m.status # "waiting"
      /\ m.stage \notin m.made /\ m.stage \in Stages /\ (m.stage = "del" => m.del >= 1)
  BY <1>1, <1>2, AtPc, Parts DEF PCInv, BeforePCs, ThreadInv, Eff
<1>4. PICK c \in CIDs : c = Cid(m, m.stage)
  BY <1>3, CidOf
<1>5. PICK l \in Lives : l = (IF conts[c] = "none" THEN "created" ELSE conts[c])
  BY ContTypes DEF Lives
<1>6. conts' = [conts EXCEPT ![c] = l]
  BY <1>2, <1>4, <1>5, ContTypes DEF CreateContainer
<1>7. conts' \in [CIDs -> Lives] /\ conts'[c] = l /\ \A d \in CIDs : d # c => conts'[d] = conts[d]
  BY <1>6, ContTypes
<1>8. Learn(t, "save_made", l)
  BY <1>2, <1>4, <1>7 DEF CreateContainer
<1>9. Moved(t) /\ th'[t].pc = "save_made" /\ th'[t].m = m /\ th'[t].life = l
  BY <1>2, <1>8, Learned, ContTypes DEF Moved, PCs
<1>10. \A d \in CIDs : conts'[d] = conts[d] \/ (conts[d] = "none" /\ conts'[d] = "created")
  BY <1>5, <1>7
<1>11. ~replayed => ExecKept
  BY <1>1, <1>10, ExecNow, ContTypes, Containers DEF ExecKept, Exec
<1>12. m.stage = "exec" => Exec' = l
  BY <1>4, <1>7, CidStage DEF Exec
<1>13. ThreadInv(th[t])'
  <2>1. Eff(th'[t]) = "save_made"
    BY <1>9 DEF Eff
  <2>2. PCInv("save_made", m)
    BY <1>3 DEF PCInv, BeforePCs, AfterPCs, ExecPCs
  <2>3. ~replayed => Verified(m)'
    BY <1>3, <1>11 DEF ThreadAt, Verified, ExecKept
  <2>4. ~replayed => StartInv("save_made", m, l)'
    BY <1>11, <1>12 DEF StartInv, ExecKept
  <2>5. ThreadAt("save_made", m, l)'
    BY <1>1, <1>3, <2>2, <2>3, <2>4 DEF ThreadAt, Records
  <2> QED
    BY <1>9, <2>1, <2>5 DEF ThreadInv, Eff, ThreadAt, StartInv, Verified
<1>14. WorkAt("save_made", m) /\ "save_made" # "publish" /\ "create" \in EarlyPCs
  BY DEF WorkAt, WorkPCs, PCs, EarlyPCs
<1>15. LaunchAt("create", m, life) => LaunchInv(th[t])'
  <2> SUFFICES ASSUME LaunchAt("create", m, life) PROVE LaunchInv(th[t])'
    OBVIOUS
  <2>1. m.stage = "prep" /\ m.prep = 1 /\ Prep1 = "none" /\ m.status = "pending"
    BY DEF LaunchAt, EarlyPCs
  <2>2. c = <<"prep", 1>>
    BY <1>4, <2>1, CidStage
  <2>3. l = "created" /\ Prep1' = "created"
    BY <1>5, <1>7, <2>1, <2>2 DEF Prep1
  <2> QED
    BY <1>9, <2>1, <2>3 DEF LaunchInv, LaunchAt, Eff, EarlyPCs
<1> QED
  BY <1>1, <1>2, <1>3, <1>7, <1>9, <1>11, <1>13, <1>14, <1>15, ContStep, ContTypes

LEMMA FailStopInv == ASSUME CodexInv, NEW t \in Locks, FailStop(t) PROVE CodexInv'
<1>1. At(t, "fail") /\ UNCHANGED <<Records, invoked, shm>> /\ Goto(t, "fail_save")
  BY DEF FailStop, Records
<1>2. PICK m \in MetaRec, life \in Lives : m = th[t].m /\ life = th[t].life
  BY Parts
<1>3. th[t].pc = "fail" /\ ThreadAt("fail", m, life)
  BY <1>1, <1>2, AtPc, Parts DEF ThreadInv, Eff
<1>4. Moved(t) /\ th'[t].pc = "fail_save" /\ th'[t].m = m /\ th'[t].life = life
  BY <1>1, <1>2, Went, ContTypes DEF Moved, PCs
<1>5. conts' = conts \/ \E c : conts[c] = "running" /\ conts' = [conts EXCEPT ![c] = "bad"]
  BY DEF FailStop
<1>6. conts' \in [CIDs -> Lives] /\ \A d \in CIDs : conts'[d] = conts[d] \/ (conts[d] = "running" /\ conts'[d] = "bad")
  BY <1>5, ContTypes DEF Lives, Exited
<1>7. ~replayed => ExecKept
  BY <1>1, <1>6, ExecNow, ContTypes, Containers DEF ExecKept, Exec
<1>8. ThreadInv(th[t])'
  <2>1. Eff(th'[t]) = "fail_save"
    BY <1>4 DEF Eff
  <2>2. MetaInv(m) /\ PCInv("fail_save", m)
    BY <1>3 DEF ThreadAt, PCInv, BeforePCs, AfterPCs, ExecPCs
  <2>3. ~replayed => Verified(m)' /\ StartInv("fail_save", m, life)'
    BY <1>3, <1>7 DEF ThreadAt, Verified, ExecKept, StartInv
  <2> QED
    BY <1>1, <1>4, <2>1, <2>2, <2>3 DEF ThreadInv, Eff, ThreadAt, StartInv, Verified, Records
<1>9. WorkAt("fail_save", m) /\ "fail_save" # "publish" /\ "fail_save" \notin EarlyPCs
  BY DEF WorkAt, WorkPCs, PCs, EarlyPCs
<1>10. LaunchAt("fail", m, life) => LaunchInv(th[t])'
  BY <1>4 DEF LaunchInv, LaunchAt, Eff, EarlyPCs
<1> QED
  BY <1>1, <1>2, <1>3, <1>4, <1>6, <1>7, <1>8, <1>9, <1>10, ContStep, ContTypes

LEMMA InjectInv == ASSUME CodexInv, NEW t \in Locks, InjectSecret(t) PROVE CodexInv'
<1>1. At(t, "inject") /\ UNCHANGED <<Records, invoked, conts>> /\ (shm' = shm \/ (shm = "empty" /\ shm' = "injected"))
  BY DEF InjectSecret, Records
<1>2. PICK m \in MetaRec, life \in Lives : m = th[t].m /\ life = th[t].life
  BY Parts
<1>3. th[t].pc = "inject" /\ ThreadAt("inject", m, life)
  BY <1>1, <1>2, AtPc, Parts DEF ThreadInv, Eff
<1>4. PICK p \in {"save_accept", "fail"} : Goto(t, p)
  BY DEF InjectSecret
<1>5. Moved(t) /\ th'[t].pc = p /\ th'[t].m = m /\ th'[t].life = life
  BY <1>2, <1>4, Went, ContTypes DEF Moved, PCs
<1>6. ~replayed => ExecKept
  BY <1>1, ExecNow DEF ExecKept, Exec
<1>7. ThreadInv(th[t])'
  <2>1. Eff(th'[t]) = p
    BY <1>5 DEF Eff
  <2>2. MetaInv(m) /\ PCInv(p, m)
    BY <1>3 DEF ThreadAt, PCInv, BeforePCs, AfterPCs, ExecPCs
  <2>3. ~replayed => Verified(m)' /\ StartInv(p, m, life)'
    BY <1>3, <1>6 DEF ThreadAt, Verified, ExecKept, StartInv
  <2> QED
    BY <1>1, <1>5, <2>1, <2>2, <2>3 DEF ThreadInv, Eff, ThreadAt, StartInv, Verified, Records
<1>8. WorkAt(p, m) /\ p # "publish" /\ p \notin EarlyPCs /\ ~LaunchAt("inject", m, life)
  BY DEF WorkAt, WorkPCs, PCs, EarlyPCs, LaunchAt
<1> QED
  BY <1>1, <1>2, <1>3, <1>5, <1>6, <1>7, <1>8, ContStep, ContTypes

LEMMA StartContainerInv == ASSUME CodexInv, NEW t \in Locks, StartContainer(t) PROVE CodexInv'
<1>1. At(t, "start") /\ UNCHANGED <<Records, invoked>>
  BY DEF StartContainer, Records
<1>2. PICK m \in MetaRec, life \in Lives : m = th[t].m /\ life = th[t].life
  BY Parts
<1>3. /\ th[t].pc = "start" /\ ThreadAt("start", m, life) /\ MetaInv(m) /\ m.status # "waiting"
      /\ m.stage \in m.made /\ m.stage \in Stages
  BY <1>1, <1>2, AtPc, Parts DEF PCInv, AfterPCs, ThreadInv, Eff
<1>4. PICK c \in CIDs : c = Cid(m, m.stage)
  BY <1>3, CidOf DEF MetaInv
<1>5. PICK starts \in BOOLEAN, err \in BOOLEAN :
         /\ starts => conts[c] # "running"
         /\ ~starts => err
         /\ conts' = IF starts THEN [conts EXCEPT ![c] = "running"] ELSE conts
         /\ shm' = IF starts /\ m.stage = "exec" THEN "empty" ELSE shm
         /\ CASE ~err \/ (m.stage # "rec" /\ conts'[c] = "running") -> Goto(t, Started(m))
              [] err /\ m.stage # "rec" /\ conts'[c] \in Exited      -> Learn(t, "term", conts'[c])
              [] OTHER                                               -> Goto(t, "fail")
  BY <1>2, <1>4 DEF StartContainer
<1>6. conts' \in [CIDs -> Lives] /\ \A d \in CIDs : conts'[d] = conts[d] \/ (d = c /\ starts /\ conts'[d] = "running")
  BY <1>5, ContTypes DEF Lives
<1>7. c[1] = m.stage /\ (m.stage = "exec" <=> c = <<"exec", 1>>)
  BY <1>4, CidStage
<1>8. ~replayed => Verified(m) /\ StartInv("start", m, life)
  BY <1>3 DEF ThreadAt
<1>9. ~replayed => ExecKept
  <2> SUFFICES ASSUME ~replayed PROVE ExecKept
    OBVIOUS
  <2>1. CASE starts /\ m.stage = "exec"
    <3>1. invoked = 0 /\ Exec # "ok" /\ Exec \in Lives
      BY <1>8, <2>1, ContTypes DEF StartInv, Exec
    <3>2. Exec' = "running" /\ shm' = "empty"
      BY <1>5, <1>7, <2>1, ContTypes DEF Exec
    <3>3. \A d \in CIDs : d[1] = "del" => conts'[d] = conts[d]
      BY <1>6, <1>7, <2>1
    <3> QED
      BY <1>1, <3>1, <3>2, <3>3, ExecNow DEF ExecKept
  <2>2. CASE ~(starts /\ m.stage = "exec")
    <3>1. Exec' = Exec /\ shm' = shm
      BY <1>5, <1>6, <1>7, <2>2, ContTypes DEF Exec
    <3>2. \A d \in CIDs : d[1] = "del" => conts'[d] = conts[d] \/ Exec = "ok"
      BY <1>6, <1>7, <1>8 DEF Verified
    <3> QED
      BY <1>1, <3>1, <3>2, ExecNow DEF ExecKept
  <2> QED
    BY <2>1, <2>2
<1>10. /\ Moved(t) /\ th'[t].pc \in {"save_inject", "save_running", "term", "fail"} /\ th'[t].m = m
       /\ th'[t].pc = "save_inject" => m.stage = "exec"
       /\ th'[t].pc = "term" => conts'[c] \in Exited
  <2>1. CASE Goto(t, Started(m))
    <3>1. Started(m) \in {"save_inject", "save_running"} /\ (Started(m) = "save_inject" => m.stage = "exec")
      BY DEF Started
    <3>2. PICK p \in PCs : p = Started(m) /\ Goto(t, p)
      BY <2>1, <3>1 DEF PCs
    <3> QED
      BY <1>2, <3>1, <3>2, Went, ContTypes DEF Moved
  <2>2. CASE conts'[c] \in Exited /\ Learn(t, "term", conts'[c])
    <3>1. PICK l \in Lives : l = conts'[c] /\ Learn(t, "term", l)
      BY <2>2 DEF Lives
    <3> QED
      BY <1>2, <2>2, <3>1, Learned, ContTypes DEF Moved, PCs
  <2>3. CASE Goto(t, "fail")
    BY <1>2, <2>3, Went, ContTypes DEF Moved, PCs
  <2> QED
    BY <1>5, <2>1, <2>2, <2>3
<1>11. PICK p \in PCs : p = th'[t].pc /\ p \in {"save_inject", "save_running", "term", "fail"}
  BY <1>10 DEF PCs
<1>a. PICK l : l = th'[t].life
  OBVIOUS
<1>12. ThreadInv(th[t])'
  <2>1. Eff(th'[t]) = p
    BY <1>11 DEF Eff
  <2>2. PCInv(p, m)
    BY <1>3, <1>10, <1>11 DEF PCInv, BeforePCs, AfterPCs, ExecPCs
  <2>3. ~replayed => Verified(m)' /\ StartInv(p, m, l)'
    BY <1>8, <1>9, <1>11 DEF Verified, ExecKept, StartInv
  <2> QED
    BY <1>1, <1>3, <1>10, <1>11, <1>a, <2>1, <2>2, <2>3 DEF ThreadInv, Eff, ThreadAt, StartInv, Verified, Records
<1>13. WorkAt(p, m) /\ p # "publish" /\ p \notin EarlyPCs
  BY <1>11 DEF WorkAt, WorkPCs, PCs, EarlyPCs
<1>14. LaunchAt("start", m, life) => LaunchInv(th[t])'
  <2> SUFFICES ASSUME LaunchAt("start", m, life) PROVE LaunchInv(th[t])'
    OBVIOUS
  <2>1. m.stage = "prep" /\ m.prep = 1 /\ Prep1 = "created"
    BY DEF LaunchAt
  <2>2. c = <<"prep", 1>>
    BY <1>4, <2>1, CidStage
  <2>3. conts'[c] \in {"created", "running"}
    BY <1>6, <2>1, <2>2 DEF Prep1
  <2>4. p \in {"save_running", "fail"}
    BY <1>10, <1>11, <2>1, <2>3 DEF Exited
  <2> QED
    BY <1>10, <1>11, <2>1, <2>4 DEF LaunchInv, LaunchAt, Eff, EarlyPCs
<1>15. shm' \in {"empty", "injected", "accepted"}
  BY <1>5, ContTypes
<1> QED
  BY <1>1, <1>2, <1>3, <1>6, <1>9, <1>10, <1>11, <1>12, <1>13, <1>14, <1>15, ContStep

-----------------------------------------------------------------------------
(* Publishing, watching and finalizing.                                    *)

LEMMA PublishInv == ASSUME CodexInv, NEW t \in Locks, Publish(t) PROVE CodexInv'
<1>1. /\ th[t].pc = "publish" /\ UNCHANGED <<World, row>> /\ th \in [Locks -> Thread]
      /\ file' = th[t].m /\ mem' = th[t].m
      /\ th' = [th EXCEPT ![t] = IF th[t].then = "idle" THEN Idle ELSE [th[t] EXCEPT !.pc = th[t].then]]
  BY Parts DEF Publish, At, World
<1>2. PICK x \in Thread : x = th[t] /\ ThreadInv(x) /\ x.pc = "publish"
  BY <1>1, Parts
<1>3. /\ Eff(x) = x.then /\ x.then # "publish" /\ x.then \in PCs /\ x.m \in MetaRec /\ MetaInv(x.m)
      /\ (~replayed => Verified(x.m))
  BY <1>2, ThreadFields DEF Eff, ThreadInv, ThreadAt, PCInv
<1>4. PICK y \in Thread : /\ th' = [th EXCEPT ![t] = y]
                          /\ \/ x.then = "idle" /\ y = Idle
                             \/ x.then # "idle" /\ y.pc = x.then /\ y.m = x.m /\ y.life = x.life
  <2> DEFINE z == [x EXCEPT !.pc = x.then]
  <2>1. z \in Thread /\ z.pc = x.then /\ z.m = x.m /\ z.life = x.life
    BY <1>3 DEF Thread
  <2>2. th' = [th EXCEPT ![t] = IF x.then = "idle" THEN Idle ELSE z]
    BY <1>1, <1>2
  <2> HIDE DEF z
  <2> QED
    BY <2>1, <2>2, IdleThread
<1>5. Moved(t) /\ th'[t] = y
  BY <1>1, <1>4, Put DEF Moved
<1>6. ThreadInv(y) /\ (Working(x) => Working(y)) /\ (x.then # "idle" => Eff(y) = x.then)
  <2>1. CASE x.then = "idle"
    BY <1>3, <1>4, <2>1, IdleInv DEF Working, WorkAt, WorkPCs
  <2>2. CASE x.then # "idle"
    <3>1. Eff(y) = x.then
      BY <1>3, <1>4, <2>2 DEF Eff
    <3> QED
      BY <1>2, <1>3, <1>4, <2>2, <3>1 DEF ThreadInv, Working
  <2> QED
    BY <2>1, <2>2
<1>7. Turn(t) /\ proc # "down"
  BY <1>1, TurnTaken
<1>8. CodexType'
  BY <1>1, <1>2, <1>3, <1>5 DEF CodexInv, CodexType, Moved, World
<1>9. MetaInv(row.m)' /\ MetaInv(file)' /\ MetaInv(mem)' /\ MetaInv(fin.m)'
  BY <1>1, <1>2, <1>3 DEF CodexInv, World, MetaInv
<1>10. \A o \in Locks : ThreadInv(th[o])'
  BY <1>1, <1>5, <1>6, OtherThreads DEF World
<1>11. RowInv'
  <2>1. \A o \in Locks : Working(th[o]) => Working(th'[o])
    BY <1>2, <1>5, <1>6 DEF Moved
  <2>2. \A o \in Locks : Working(th[o]) => Working(th[o])'
    BY <1>1, <2>1 DEF Working, WorkAt, Eff
  <2>3. Attended => Attended'
    BY <1>1, <2>2 DEF Attended, World
  <2> QED
    BY <1>1, <2>3 DEF CodexInv, RowInv, World
<1>12. FinInv'
  BY <1>1 DEF CodexInv, FinInv, World
<1>13. ExecInv'
  BY <1>1, <1>2, <1>3 DEF CodexInv, ExecInv, Verified, Exec, World
<1>14. SoloInv'
  <2>1. CASE t = "key" /\ proc = "up" /\ ~replayed /\ y.pc # "idle"
    <3>1. x.then # "idle"
      BY <1>4, <2>1, IdleThread
    <3>2. LaunchAt(x.then, x.m, x.life)
      BY <1>1, <1>2, <1>3, <2>1, LaunchNow
    <3>3. LaunchInv(y) /\ Eff(y) = Eff(x) /\ (Eff(y) \in EarlyPCs => x.m.status = "pending")
      BY <1>3, <1>4, <1>6, <3>1, <3>2 DEF LaunchInv, LaunchAt
    <3>4. LaunchStep(t) /\ (Eff(th'[t]) \in EarlyPCs => mem'.status # "running")
      BY <1>1, <1>2, <1>5, <3>3 DEF LaunchStep
    <3> QED
      BY <1>1, <1>5, <1>7, <3>4, SoloStep
  <2>2. CASE ~(t = "key" /\ proc = "up" /\ ~replayed /\ y.pc # "idle")
    <3>1. LaunchStep(t)
      BY <1>5, <2>2 DEF LaunchStep
    <3> QED
      BY <1>1, <1>5, <1>7, <2>2, <3>1, SoloStep
  <2> QED
    BY <2>1, <2>2
<1> QED
  BY <1>8, <1>9, <1>10, <1>11, <1>12, <1>13, <1>14 DEF CodexInv

LEMMA StartWatchersInv == ASSUME CodexInv, NEW t \in Locks, StartWatchers(t) PROVE CodexInv'
<1>1. /\ At(t, "watching") /\ UNCHANGED <<row, file, mem, conts, shm, fin, proc, invoked, gaveUp, replayed>>
      /\ th' = [th EXCEPT ![t] = Idle]
  BY DEF StartWatchers
<1>2. PICK m \in MetaRec : m = th[t].m
  BY Parts
<1>3. th[t].pc = "watching" /\ MetaInv(m) /\ m.stage \in m.made /\ m.stage \in Stages
  BY <1>1, <1>2, AtPc DEF PCInv, AfterPCs
<1>4. PICK c \in CIDs : c = Cid(m, m.stage)
  BY <1>3, CidOf DEF MetaInv
<1>5. watch' = [watch EXCEPT ![c] = watch[c] + 1]
  BY <1>2, <1>4 DEF StartWatchers
<1>6. watch \in [CIDs -> Nat] /\ watch' \in [CIDs -> Nat] /\ watch'[c] > 0 /\ \A d \in CIDs : watch[d] > 0 => watch'[d] > 0
  <2>1. watch \in [CIDs -> Nat]
    BY DEF CodexInv, CodexType
  <2> QED
    BY <1>5, <2>1
<1>7. Moved(t) /\ th'[t] = Idle
  BY <1>1, Put, IdleThread, ContTypes DEF Moved
<1>8. Turn(t) /\ proc # "down"
  BY <1>3, TurnTaken
<1>9. CodexType'
  BY <1>1, <1>6, <1>7 DEF CodexInv, CodexType, Moved
<1>10. MetaInv(row.m)' /\ MetaInv(file)' /\ MetaInv(mem)' /\ MetaInv(fin.m)'
  BY <1>1 DEF CodexInv, MetaInv
<1>11. \A o \in Locks : ThreadInv(th[o])'
  BY <1>1, <1>7, OtherThreads, IdleInv
<1>12. RowInv'
  <2>1. ASSUME Attended, proc # "down" PROVE Attended'
    <3>1. CASE row.m.step = "running" /\ watch[Cid(row.m, row.m.stage)] > 0
      <4>1. Cid(row.m, row.m.stage) \in CIDs
        <5>1. row.m \in MetaRec /\ MetaInv(row.m) /\ row.m.stage \in Stages
          BY Parts, MetaFields DEF CodexInv
        <5> QED
          BY <3>1, <5>1, CidOf DEF MetaInv
      <4> QED
        BY <1>1, <1>6, <3>1, <4>1 DEF Attended
    <3>2. CASE row.m.stage = "del" /\ row.m.step = "term"
      BY <1>1, <3>2 DEF Attended
    <3>3. CASE \E o \in Locks : Working(th[o])
      <4>1. PICK o \in Locks : Working(th[o])
        BY <3>3
      <4>2. CASE o = t
        <5>1. m = row.m /\ m.step = "running"
          BY <1>2, <1>3, <4>1, <4>2 DEF Working, WorkAt, Eff, WorkPCs
        <5> QED
          BY <1>1, <1>4, <1>6, <5>1 DEF Attended
      <4>3. CASE o # t
        <5>1. Working(th[o])'
          BY <1>1, <1>7, <4>1, <4>3 DEF Working, WorkAt, Eff, Moved
        <5> QED
          BY <5>1 DEF Attended
      <4> QED
        BY <4>2, <4>3
    <3> QED
      BY <2>1, <3>1, <3>2, <3>3 DEF Attended
  <2> QED
    BY <1>1, <2>1 DEF CodexInv, RowInv
<1>13. FinInv' /\ ExecInv'
  BY <1>1 DEF CodexInv, FinInv, ExecInv, Verified, Exec
<1>14. SoloInv'
  <2>1. "key" \in Locks /\ "codex" \in Locks /\ (t = "key" \/ t = "codex")
    BY DEF Locks
  <2>2. ~replayed => th'["key"].pc = "idle"
    BY <1>3, <1>7, <2>1, OnlyOne, IdleThread DEF Moved
  <2> QED
    BY <1>1, <1>8, <2>2 DEF SoloInv
<1> QED
  BY <1>9, <1>10, <1>11, <1>12, <1>13, <1>14 DEF CodexInv

LEMMA AwaitFinalInv == ASSUME CodexInv, NEW t \in Locks, AwaitFinal(t) PROVE CodexInv'
<1>1. At(t, "await") /\ UNCHANGED <<World, row, file, mem>> /\ th' = [th EXCEPT ![t] = Idle]
  BY DEF AwaitFinal, World, rest
<1>2. th[t].pc = "await" /\ Moved(t) /\ th'[t] = Idle
  BY <1>1, Put, IdleThread, ContTypes DEF Moved, At
<1>3. PICK m \in MetaRec, life \in Lives : m = th[t].m /\ life = th[t].life
  BY Parts
<1>4. ~WorkAt("await", m)
  BY DEF WorkAt, WorkPCs
<1> QED
  BY <1>1, <1>2, <1>3, <1>4, ToIdle, IdleThread, MoveTo

\* A step of the finalizer, or of a goroutine that claims the run for it.
LEMMA FinalStep ==
  ASSUME CodexInv, proc # "down", UNCHANGED <<conts, shm, watch, proc, invoked, gaveUp, replayed>>,
         th' \in [Locks -> Thread],
         \A o \in Locks : ThreadInv(th'[o]) /\ (Working(th[o]) => Working(th'[o])),
         \A o \in Locks : th'[o] = th[o] \/ (th[o].pc # "idle" /\ ~(o = "key" /\ proc = "up" /\ ~replayed)),
         fin' \in Final, MetaInv(fin'.m), ~replayed => Verified(fin'.m), FinInv',
         mem' \in {mem, fin.m}, file' \in {file, fin.m},
         row' = row \/ (row' = [st |-> "terminal", m |-> fin.m] /\ fin.m.status \in Terminal),
         fin.pc # "idle" \/ mem.status = "running" \/ (fin' = fin /\ mem' = mem)
  PROVE  CodexInv'
<1>1. /\ "key" \in Locks /\ "codex" \in Locks /\ fin \in Final /\ fin.m \in MetaRec
      /\ MetaInv(fin.m) /\ (~replayed => Verified(fin.m))
  BY FinalFields DEF CodexInv, CodexType, ExecInv, Locks
<1>2. row' = row \/ (row'.st = "terminal" /\ row'.m = fin.m /\ fin.m.status \in Terminal)
  OBVIOUS
<1>3. CodexType'
  <2>1. "terminal" \in RowStates
    BY DEF RowStates
  <2>2. row' \in [st: RowStates, m: MetaRec] /\ mem' \in MetaRec /\ file' \in MetaRec
    BY <1>1, <2>1 DEF CodexInv, CodexType
  <2> QED
    BY <2>2 DEF CodexInv, CodexType
<1>4. MetaInv(row.m)' /\ MetaInv(file)' /\ MetaInv(mem)' /\ MetaInv(fin.m)'
  <2>1. MetaInv(row'.m) /\ MetaInv(file') /\ MetaInv(mem')
    BY <1>1, <1>2 DEF CodexInv
  <2> QED
    BY <2>1 DEF MetaInv
<1>5. \A o \in Locks : ThreadInv(th[o])'
  BY DEF ThreadInv, ThreadAt, Eff, Verified, StartInv, Exec
<1>6. RowInv'
  <2>1. CASE row' = row
    <3>1. \A o \in Locks : Working(th[o]) => Working(th[o])'
      BY <2>1 DEF Working, WorkAt, Eff
    <3>2. Attended => Attended'
      BY <2>1, <3>1 DEF Attended
    <3> QED
      BY <2>1, <3>2 DEF CodexInv, RowInv
  <2>2. CASE row'.m.status \in Terminal
    BY <2>2 DEF RowInv, Terminal
  <2> QED
    BY <1>2, <2>1, <2>2
<1>7. ExecInv'
  <2>1. ~replayed => Verified(row'.m) /\ Verified(file') /\ Verified(mem') /\ Verified(fin'.m)
    BY <1>1, <1>2 DEF CodexInv, ExecInv
  <2> QED
    BY <2>1 DEF CodexInv, ExecInv, Verified, Exec
<1>8. SoloInv'
  <2>1. ASSUME ~replayed, th'["key"].pc # "idle"
        PROVE  th'["codex"].pc = "idle" /\ (\A c \in CIDs : watch[c] = 0) /\ (proc = "up" => Launching')
    <3>1. th["key"].pc # "idle" /\ (proc = "up" => th'["key"] = th["key"])
      BY <1>1, <2>1
    <3>2. th["codex"].pc = "idle" /\ (\A c \in CIDs : watch[c] = 0) /\ (proc = "up" => Launching)
      BY <2>1, <3>1 DEF CodexInv, SoloInv
    <3>3. th'["codex"] = th["codex"]
      BY <1>1, <3>2
    <3>4. row.m.status # "waiting" => row'.m.status # "waiting"
      BY <1>2 DEF Terminal
    <3>5. proc = "up" => Launching'
      BY <3>1, <3>2, <3>4 DEF Launching, LaunchInv, LaunchAt, Eff, Prep1
    <3> QED
      BY <3>2, <3>3, <3>5
  <2> QED
    BY <2>1 DEF SoloInv
<1> QED
  BY <1>3, <1>4, <1>5, <1>6, <1>7, <1>8 DEF CodexInv

LEMMA Unmoved ==
  ASSUME CodexInv, UNCHANGED th
  PROVE  /\ th' \in [Locks -> Thread]
         /\ \A o \in Locks : ThreadInv(th'[o]) /\ (Working(th[o]) => Working(th'[o])) /\ th'[o] = th[o]
  BY DEF CodexInv, CodexType

LEMMA Claimed ==
  ASSUME CodexInv, NEW why \in {"exit", "stop", "deadline"}, NEW life \in Lives, Claim(why, life)
  PROVE  /\ mem.status = "running" /\ fin' \in Final /\ fin'.m = mem /\ fin'.pc = "act"
         /\ MetaInv(fin'.m) /\ (~replayed => Verified(fin'.m)) /\ FinInv'
<1>1. fin' = [pc |-> "act", why |-> why, m |-> mem, life |-> life] /\ mem.status = "running" /\ mem \in MetaRec
  BY DEF Claim, CodexInv, CodexType
<1>2. fin' \in Final /\ fin'.m = mem /\ fin'.pc = "act"
  BY <1>1 DEF Final
<1> QED
  BY <1>1, <1>2 DEF CodexInv, ExecInv, FinInv

LEMMA FinKept ==
  ASSUME CodexInv, fin' = fin
  PROVE  fin' \in Final /\ MetaInv(fin'.m) /\ (~replayed => Verified(fin'.m)) /\ FinInv'
  BY DEF CodexInv, CodexType, ExecInv, FinInv

LEMMA FinalizeDeliveryInv == ASSUME CodexInv, NEW t \in Locks, FinalizeDelivery(t) PROVE CodexInv'
<1>1. /\ At(t, "finalize")
      /\ UNCHANGED <<row, file, mem, conts, shm, watch, proc, invoked, gaveUp, replayed>>
  BY DEF FinalizeDelivery
<1>2. PICK m \in MetaRec, life \in Lives : m = th[t].m /\ life = th[t].life
  BY Parts
<1>3. th[t].pc = "finalize" /\ ThreadAt("finalize", m, life) /\ proc # "down"
  BY <1>1, <1>2, AtPc, Parts DEF ThreadInv, Eff, At
<1>4. (th' = [th EXCEPT ![t] = Idle]) \/ Goto(t, "await")
  BY DEF FinalizeDelivery
<1>5. Moved(t) /\ ThreadInv(th'[t])
  <2>1. CASE th' = [th EXCEPT ![t] = Idle]
    BY <2>1, Put, IdleThread, IdleInv, ContTypes DEF Moved
  <2>2. CASE Goto(t, "await")
    <3>1. Moved(t) /\ th'[t].pc = "await" /\ th'[t].m = m /\ th'[t].life = life
      BY <1>2, <2>2, Went, ContTypes DEF Moved, PCs
    <3>2. ThreadAt("await", m, life)
      BY <1>3 DEF ThreadAt, PCInv, StartInv, BeforePCs, AfterPCs, ExecPCs
    <3> QED
      BY <3>1, <3>2 DEF ThreadInv, Eff
  <2> QED
    BY <1>4, <2>1, <2>2
<1>6. ~Working(th[t])
  BY <1>3 DEF Working, WorkAt, Eff, WorkPCs
<1>7. ~(t = "key" /\ proc = "up" /\ ~replayed)
  BY <1>3, LaunchNow DEF LaunchAt, Eff, EarlyPCs
<1>8. \/ Claim("exit", life)
      \/ fin' = fin
  BY <1>2 DEF FinalizeDelivery
<1>9. /\ \A o \in Locks : ThreadInv(th'[o]) /\ (Working(th[o]) => Working(th'[o]))
      /\ \A o \in Locks : th'[o] = th[o] \/ (th[o].pc # "idle" /\ ~(o = "key" /\ proc = "up" /\ ~replayed))
      /\ th' \in [Locks -> Thread]
  BY <1>3, <1>5, <1>6, <1>7 DEF Moved, CodexInv
<1>10. /\ fin' \in Final /\ MetaInv(fin'.m) /\ (~replayed => Verified(fin'.m)) /\ FinInv'
       /\ fin.pc # "idle" \/ mem.status = "running" \/ (fin' = fin /\ mem' = mem)
  BY <1>1, <1>8, Claimed, FinKept
<1> QED
  BY <1>1, <1>3, <1>9, <1>10, FinalStep

\* A stop or a deadline claims the run.
LEMMA ClaimInv == ASSUME CodexInv, StopAgent \/ \E g \in timers : DeadlineFires(g) PROVE CodexInv'
<1>1. /\ proc # "down" /\ UNCHANGED <<row, file, mem, conts, shm, th, watch, proc, invoked, gaveUp, replayed>>
      /\ \E why \in {"stop", "deadline"} : Claim(why, "none") \/ fin' = fin
  BY DEF StopAgent, DeadlineFires
<1>2. PICK why \in {"exit", "stop", "deadline"}, life \in Lives : Claim(why, life) \/ fin' = fin
  BY <1>1 DEF Lives
<1>3. /\ fin' \in Final /\ MetaInv(fin'.m) /\ (~replayed => Verified(fin'.m)) /\ FinInv'
      /\ fin.pc # "idle" \/ mem.status = "running" \/ (fin' = fin /\ mem' = mem)
  BY <1>1, <1>2, Claimed, FinKept
<1> QED
  BY <1>1, <1>3, Unmoved, FinalStep

LEMMA FinalWritesInv == ASSUME CodexInv, FinalizeStore \/ FinalizeFile \/ FinalizeRow PROVE CodexInv'
<1>1. /\ proc # "down" /\ UNCHANGED <<conts, shm, th, watch, proc, invoked, gaveUp, replayed>>
      /\ fin.pc \in {"store", "file", "row"} /\ mem' \in {mem, fin.m} /\ file' \in {file, fin.m}
      /\ row' = row \/ row' = [st |-> "terminal", m |-> fin.m]
      /\ fin' = NoFinal \/ \E pc \in {"file", "row"} : fin' = [fin EXCEPT !.pc = pc]
  BY DEF FinalizeStore, FinalizeFile, FinalizeRow
<1>2. fin.m.status \in Terminal /\ fin \in Final /\ MetaInv(fin.m) /\ (~replayed => Verified(fin.m))
  BY <1>1 DEF CodexInv, FinInv, CodexType, ExecInv
<1>3. fin' \in Final /\ MetaInv(fin'.m) /\ (~replayed => Verified(fin'.m)) /\ FinInv'
  <2>1. CASE fin' = NoFinal
    BY <2>1, IdleThread, Blank DEF FinInv, Verified
  <2>2. CASE \E pc \in {"file", "row"} : fin' = [fin EXCEPT !.pc = pc]
    <3>1. fin' \in Final /\ fin'.m = fin.m
      BY <1>2, <2>2 DEF Final
    <3> QED
      BY <1>2, <3>1 DEF FinInv
  <2> QED
    BY <1>1, <2>1, <2>2
<1>4. fin.pc # "idle"
  BY <1>1
<1> QED
  BY <1>1, <1>2, <1>3, <1>4, Unmoved, FinalStep

-----------------------------------------------------------------------------
(* Containers that end by themselves or are stopped.                       *)

StartKept == Exec = "running" \/ (invoked' = invoked /\ (Exec' = Exec \/ Exec' \notin {"running", "ok"}))

LEMMA WorldStep ==
  ASSUME CodexInv, UNCHANGED <<row, file, mem, th, watch, proc, gaveUp, replayed>>,
         conts' \in [CIDs -> Lives], shm' \in {"empty", "injected", "accepted"}, invoked' \in Nat,
         fin' \in Final, MetaInv(fin'.m), ~replayed => Verified(fin.m)', FinInv',
         ~replayed => ExecKept /\ StartKept,
         fin.pc # "idle" \/ (fin' = fin /\ (Prep1' = Prep1 \/ Prep1 = "running"))
  PROVE  CodexInv'
<1>1. CodexType'
  BY DEF CodexInv, CodexType
<1>2. MetaInv(row.m)' /\ MetaInv(file)' /\ MetaInv(mem)' /\ MetaInv(fin.m)'
  BY DEF CodexInv, MetaInv
<1>3. ASSUME NEW o \in Locks PROVE ThreadInv(th[o])'
  <2>1. PICK x \in Thread : x = th[o] /\ x = th'[o] /\ ThreadInv(x)
    BY Parts
  <2>2. ~replayed => Verified(x.m)' /\ StartInv(Eff(x), x.m, x.life)'
    BY <2>1 DEF ThreadInv, ThreadAt, Verified, StartInv, ExecKept, StartKept
  <2>3. ThreadInv(x)'
    BY <2>1, <2>2 DEF ThreadInv, ThreadAt
  <2> QED
    BY <2>1, <2>3 DEF ThreadInv, ThreadAt, Eff, Verified, StartInv
<1>4. RowInv'
  <2>1. \A o \in Locks : Working(th[o]) => Working(th[o])'
    BY DEF Working, WorkAt, Eff
  <2>2. Attended => Attended'
    BY <2>1 DEF Attended
  <2> QED
    BY <2>2 DEF CodexInv, RowInv
<1>5. ExecInv'
  <2>1. ~replayed => Verified(row.m)' /\ Verified(file)' /\ Verified(mem)'
    BY DEF CodexInv, ExecInv, Verified, ExecKept
  <2> QED
    BY <2>1 DEF ExecInv, ExecKept
<1>6. SoloInv'
  <2>1. Launching => Launching'
    BY DEF Launching, LaunchInv, LaunchAt, Eff, EarlyPCs
  <2> QED
    BY <2>1 DEF CodexInv, SoloInv
<1> QED
  BY <1>1, <1>2, <1>3, <1>4, <1>5, <1>6 DEF CodexInv

LEMMA WorkerExitsInv == ASSUME CodexInv, NEW c \in CIDs, WorkerExits(c) PROVE CodexInv'
<1>1. /\ conts[c] = "running" /\ UNCHANGED <<row, file, mem, th, fin, watch, proc, gaveUp, replayed, shm, invoked>>
  BY DEF WorkerExits
<1>2. PICK e \in Exited : conts' = [conts EXCEPT ![c] = e]
  BY DEF WorkerExits, Ends, Exited
<1>3. conts' \in [CIDs -> Lives] /\ \A d \in CIDs : conts'[d] = conts[d] \/ (conts[d] = "running" /\ conts'[d] \in Exited)
  BY <1>1, <1>2, ContTypes DEF Lives
<1>4. ~replayed => ExecKept
  <2>1. Exec' = Exec \/ (Exec = "running" /\ Exec' \in Exited)
    BY <1>3, Containers DEF Exec
  <2>2. \A d \in CIDs : conts'[d] \notin {"none", "created"} => conts[d] \notin {"none", "created"}
    BY <1>3
  <2> QED
    BY <1>1, <2>1, <2>2, ExecNow DEF ExecKept, Exited
<1>5. StartKept
  BY <1>1, <1>3, Containers DEF StartKept, Exec
<1>6. Prep1' = Prep1 \/ Prep1 = "running"
  BY <1>3, Containers DEF Prep1
<1>7. ~replayed => Verified(fin.m)'
  BY <1>1, <1>4, FinKept DEF ExecKept, Verified, Exec
<1> QED
  BY <1>1, <1>3, <1>4, <1>5, <1>6, <1>7, FinKept, ContTypes, WorldStep

LEMMA WorkerAcceptsInv == ASSUME CodexInv, WorkerAccepts PROVE CodexInv'
<1>1. /\ Exec = "running" /\ UNCHANGED <<row, file, mem, th, fin, watch, proc, gaveUp, replayed, conts>>
      /\ shm = "injected" /\ shm' = "accepted" /\ invoked' = invoked + 1
  BY DEF WorkerAccepts, ExecRunning, Exec
<1>2. ~replayed => ExecKept
  BY <1>1, ExecNow DEF ExecKept, Exec
<1>3. StartKept /\ Prep1' = Prep1 /\ invoked' \in Nat
  BY <1>1, ContTypes DEF StartKept, Prep1
<1>4. ~replayed => Verified(fin.m)'
  BY <1>1, FinKept DEF Verified, Exec
<1> QED
  BY <1>1, <1>2, <1>3, <1>4, FinKept, ContTypes, WorldStep

LEMMA FinalizeActInv == ASSUME CodexInv, FinalizeAct PROVE CodexInv'
<1>1. /\ fin.pc = "act" /\ UNCHANGED <<row, file, mem, shm, th, watch, proc, invoked, gaveUp, replayed>>
  BY DEF FinalizeAct
<1>2. PICK m \in MetaRec : m = fin.m /\ MetaInv(m) /\ (~replayed => Verified(m))
  BY Parts DEF CodexInv, ExecInv, Locks
<1> DEFINE c == Cid(m, m.cur)
<1>3. /\ conts' = conts \/ (m.cur # "none" /\ conts[c] \in {"created", "running"} /\ conts' = [conts EXCEPT ![c] = "bad"])
      /\ fin' = NoFinal \/ \E s \in {"completed", "failed", "stopped", "timed_out"} : fin' = [fin EXCEPT !.pc = "store", !.m.status = s]
  BY <1>2 DEF FinalizeAct, ExitStatus
<1>4. fin \in Final
  BY DEF CodexInv, CodexType
<1>5. fin' \in Final /\ MetaInv(fin'.m) /\ FinInv' /\ fin'.m.stage \in {m.stage, "prep"}
  <2>1. CASE fin' = NoFinal
    BY <2>1, IdleThread, Blank DEF FinInv
  <2>2. ASSUME NEW s \in {"completed", "failed", "stopped", "timed_out"}, fin' = [fin EXCEPT !.pc = "store", !.m.status = s]
        PROVE  fin' \in Final /\ MetaInv(fin'.m) /\ FinInv' /\ fin'.m.stage \in {m.stage, "prep"}
    <3>1. s \in Statuses /\ s \in Terminal /\ s # "waiting"
      BY DEF Statuses, Terminal
    <3>2. PICK k \in MetaRec : k = [m EXCEPT !.status = s] /\ SameMeta(m, k) /\ k.status = s /\ k.step = m.step
      BY <3>1, Stated
    <3>3. MetaInv(k)
      BY <1>2, <3>1, <3>2 DEF MetaInv, SameMeta
    <3>4. fin' = [fin EXCEPT !.pc = "store", !.m = k]
      BY <1>2, <1>4, <2>2, <3>2 DEF Final
    <3>5. fin' \in Final /\ fin'.m = k
      BY <1>4, <3>4 DEF Final
    <3> QED
      BY <3>1, <3>2, <3>3, <3>5 DEF FinInv, SameMeta
  <2> QED
    BY <1>3, <2>1, <2>2
<1>6. /\ conts' \in [CIDs -> Lives]
      /\ \A d \in CIDs : conts'[d] = conts[d] \/
            (d = c /\ m.cur # "none" /\ conts[d] \in {"created", "running"} /\ conts'[d] = "bad")
  BY <1>3, ContTypes DEF Lives, Exited
<1>7. c[1] = m.cur /\ (m.cur # "none" => m.cur = m.stage)
  BY <1>2, CidStage DEF MetaInv
<1> HIDE DEF c
<1>8. Exec' = Exec \/ (Exec \in {"created", "running"} /\ Exec' = "bad")
  BY <1>6, Containers DEF Exec
<1>9. ~replayed => ExecKept
  <2> SUFFICES ASSUME ~replayed PROVE ExecKept
    OBVIOUS
  <2>1. ASSUME NEW d \in CIDs, d[1] = "del", conts'[d] \notin {"none", "created"} PROVE Exec' = "ok"
    <3>1. Exec = "ok"
      BY <1>2, <1>6, <1>7, <2>1, ExecNow DEF Verified
    <3> QED
      BY <1>8, <3>1
  <2> QED
    BY <1>1, <1>8, <2>1, ExecNow DEF ExecKept
<1>10. StartKept
  BY <1>1, <1>8 DEF StartKept
<1>11. ~replayed => Verified(fin.m)'
  BY <1>2, <1>5, <1>9 DEF Verified, ExecKept
<1> QED
  BY <1>1, <1>5, <1>6, <1>9, <1>10, <1>11, ContTypes, WorldStep

-----------------------------------------------------------------------------
(* The process, and the calls and watchers that set the workflow going.    *)

LEMMA HaltedInv == ASSUME CodexInv, Halted PROVE CodexInv'
<1>1. /\ th' = [t \in Locks |-> Idle] /\ fin' = NoFinal /\ watch' = [c \in CIDs |-> 0] /\ proc' = "down"
      /\ gaveUp' = FALSE /\ UNCHANGED <<row, file, mem, conts, shm, invoked, replayed>>
  BY DEF Halted
<1>2. CodexType'
  BY <1>1, IdleThread DEF CodexInv, CodexType
<1>3. MetaInv(row.m)' /\ MetaInv(file)' /\ MetaInv(mem)' /\ MetaInv(fin.m)'
  BY <1>1, IdleThread, Blank DEF CodexInv, MetaInv
<1>4. \A t \in Locks : ThreadInv(th[t])'
  <2>1. \A t \in Locks : ThreadInv(th'[t])
    BY <1>1, IdleInv
  <2> QED
    BY <1>1, <2>1 DEF ThreadInv, ThreadAt, Eff, Verified, StartInv, Exec
<1>5. RowInv' /\ FinInv'
  BY <1>1, IdleThread DEF CodexInv, RowInv, FinInv
<1>6. ExecInv'
  BY <1>1, IdleThread, Blank DEF CodexInv, ExecInv, Verified, Exec
<1>7. SoloInv'
  BY <1>1, IdleThread DEF SoloInv, Locks
<1> QED
  BY <1>2, <1>3, <1>4, <1>5, <1>6, <1>7 DEF CodexInv

LEMMA SaveFailsInv == ASSUME CodexInv, NEW t \in Locks, SaveFails(t) PROVE CodexInv'
<1>1. CASE Halted
  BY <1>1, HaltedInv
<1>2. CASE ~Halted
  <2>1. /\ th[t].pc \in SavePCs /\ proc # "down" /\ th' = [th EXCEPT ![t] = Idle] /\ gaveUp' = TRUE
        /\ UNCHANGED <<row, file, mem, conts, shm, fin, watch, proc, invoked, replayed>>
    BY <1>2 DEF SaveFails
  <2>2. Moved(t) /\ th'[t] = Idle /\ th[t].pc # "idle"
    BY <2>1, Put, IdleThread, ContTypes DEF Moved, SavePCs
  <2>3. CodexType'
    BY <2>1, <2>2 DEF CodexInv, CodexType, Moved
  <2>4. MetaInv(row.m)' /\ MetaInv(file)' /\ MetaInv(mem)' /\ MetaInv(fin.m)'
    BY <2>1 DEF CodexInv, MetaInv
  <2>5. \A o \in Locks : ThreadInv(th[o])'
    BY <2>1, <2>2, OtherThreads, IdleInv
  <2>6. RowInv' /\ FinInv' /\ ExecInv'
    BY <2>1 DEF CodexInv, RowInv, FinInv, ExecInv, Verified, Exec
  <2>7. SoloInv'
    <3>1. "key" \in Locks /\ "codex" \in Locks /\ (t = "key" \/ t = "codex")
      BY DEF Locks
    <3>2. ~replayed => th'["key"].pc = "idle"
      BY <2>2, <3>1, OnlyOne, IdleThread DEF Moved
    <3> QED
      BY <2>1, <3>2 DEF SoloInv
  <2> QED
    BY <2>3, <2>4, <2>5, <2>6, <2>7 DEF CodexInv
<1> QED
  BY <1>1, <1>2

\* A goroutine that begins with the metadata of the row.
LEMMA Begins ==
  ASSUME CodexInv, NEW pc \in PCs, pc # "publish", PCInv(pc, row.m), NEW life \in Lives,
         pc \notin {"save_start", "start", "save_made"},
         NEW x, x = [Idle EXCEPT !.pc = pc, !.m = row.m] \/ x = [Idle EXCEPT !.pc = pc, !.m = row.m, !.life = life]
  PROVE  x \in Thread /\ x.pc = pc /\ x.m = row.m /\ ThreadInv(x) /\ Eff(x) = pc
<1>1. PICK m \in MetaRec : m = row.m /\ MetaInv(m) /\ (~replayed => Verified(m))
  BY DEF CodexInv, CodexType, ExecInv
<1>2. x \in Thread /\ x.pc = pc /\ x.m = m
  BY <1>1, IdleThread DEF Thread
<1>3. Eff(x) = pc
  BY <1>2 DEF Eff
<1>4. ThreadInv(x)
  BY <1>1, <1>2, <1>3 DEF ThreadInv, ThreadAt, StartInv
<1> QED
  BY <1>1, <1>2, <1>3, <1>4

LEMMA Entering ==
  ASSUME CodexInv
  PROVE  \E x \in Thread : /\ x = [Idle EXCEPT !.pc = "enter", !.m = row.m]
                           /\ x.pc = "enter" /\ x.m = row.m /\ ThreadInv(x) /\ Eff(x) = "enter"
<1>1. "enter" \in PCs /\ PCInv("enter", row.m) /\ "none" \in Lives
  BY DEF PCs, PCInv, BeforePCs, AfterPCs, ExecPCs, Lives
<1>2. PICK x : x = [Idle EXCEPT !.pc = "enter", !.m = row.m]
  OBVIOUS
<1>3. x \in Thread /\ x.pc = "enter" /\ x.m = row.m /\ ThreadInv(x) /\ Eff(x) = "enter"
  BY <1>1, <1>2, Begins
<1> QED
  BY <1>2, <1>3

LEMMA BootInv == ASSUME CodexInv, Boot PROVE CodexInv'
<1>1. /\ proc = "down" /\ proc' = "boot" /\ mem' = file
      /\ UNCHANGED <<row, file, conts, shm, fin, watch, invoked, gaveUp, replayed>>
  BY DEF Boot
<1>2. /\ \A t \in Locks : th[t].pc = "idle"
      /\ \A c \in CIDs : watch[c] = 0
      /\ "key" \in Locks /\ "codex" \in Locks
  BY <1>1 DEF CodexInv, SoloInv, Locks
<1>3. PICK x \in Thread : /\ x = [Idle EXCEPT !.pc = "enter", !.m = row.m]
                          /\ x.pc = "enter" /\ x.m = row.m /\ ThreadInv(x) /\ Eff(x) = "enter"
  BY Entering
<1>4. th' = IF row.st = "terminal" THEN th ELSE [th EXCEPT !["key"] = x]
  BY <1>3 DEF Boot
<1>5. /\ th' \in [Locks -> Thread] /\ th'["codex"] = th["codex"]
      /\ \A o \in Locks : ThreadInv(th'[o])
      /\ row.st # "terminal" => th'["key"] = x
  BY <1>2, <1>3, <1>4, ContTypes DEF CodexInv
<1>6. CodexType'
  BY <1>1, <1>5 DEF CodexInv, CodexType
<1>7. MetaInv(row.m)' /\ MetaInv(file)' /\ MetaInv(mem)' /\ MetaInv(fin.m)'
  BY <1>1 DEF CodexInv, MetaInv
<1>8. \A o \in Locks : ThreadInv(th[o])'
  BY <1>1, <1>5 DEF ThreadInv, ThreadAt, Eff, Verified, StartInv, Exec
<1>9. RowInv'
  <2>1. ASSUME row.m.status \in {"pending", "running"} PROVE Attended'
    <3>1. row.st # "terminal"
      BY <2>1 DEF CodexInv, RowInv, Terminal
    <3>2. Working(x)
      BY <1>3, <2>1 DEF Working, WorkAt, WorkPCs, PCs, Terminal
    <3>3. Working(th["key"])'
      BY <1>1, <1>5, <3>1, <3>2 DEF Working, WorkAt, Eff
    <3> QED
      BY <1>2, <3>3 DEF Attended
  <2> QED
    BY <1>1, <2>1 DEF CodexInv, RowInv
<1>10. FinInv' /\ ExecInv'
  BY <1>1 DEF CodexInv, FinInv, ExecInv, Verified, Exec
<1>11. SoloInv'
  BY <1>1, <1>2, <1>5 DEF SoloInv
<1> QED
  BY <1>6, <1>7, <1>8, <1>9, <1>10, <1>11 DEF CodexInv

LEMMA BootedInv == ASSUME CodexInv, Booted PROVE CodexInv'
<1>1. /\ proc = "boot" /\ th["key"].pc = "idle" /\ proc' = "up"
      /\ UNCHANGED <<row, file, mem, conts, shm, th, fin, watch, invoked, gaveUp, replayed>>
  BY DEF Booted
<1>2. CodexType'
  BY <1>1 DEF CodexInv, CodexType
<1>3. MetaInv(row.m)' /\ MetaInv(file)' /\ MetaInv(mem)' /\ MetaInv(fin.m)'
  BY <1>1 DEF CodexInv, MetaInv
<1>4. \A o \in Locks : ThreadInv(th[o])'
  BY <1>1 DEF CodexInv, ThreadInv, ThreadAt, Eff, Verified, StartInv, Exec
<1>5. RowInv'
  <2>1. \A o \in Locks : Working(th[o]) => Working(th[o])'
    BY <1>1 DEF Working, WorkAt, Eff
  <2>2. Attended => Attended'
    BY <1>1, <2>1 DEF Attended
  <2> QED
    BY <1>1, <2>2 DEF CodexInv, RowInv
<1>6. FinInv' /\ ExecInv' /\ SoloInv'
  BY <1>1 DEF CodexInv, FinInv, ExecInv, Verified, Exec, SoloInv
<1> QED
  BY <1>2, <1>3, <1>4, <1>5, <1>6 DEF CodexInv

LEMMA ReplayInv == ASSUME CodexInv, NEW t \in Locks, Replay(t) PROVE CodexInv'
<1>1. /\ proc = "up" /\ th[t].pc = "idle" /\ replayed' = TRUE
      /\ UNCHANGED <<row, file, mem, conts, shm, fin, watch, proc, invoked, gaveUp>>
  BY DEF Replay
<1>2. PICK x \in Thread : x = [Idle EXCEPT !.pc = "enter", !.m = row.m] /\ ThreadInv(x)
  BY Entering
<1>3. th' = [th EXCEPT ![t] = x]
  BY <1>2 DEF Replay
<1>4. Moved(t) /\ th'[t] = x
  BY <1>3, Put, ContTypes DEF Moved
<1>5. CodexType'
  BY <1>1, <1>4 DEF CodexInv, CodexType, Moved
<1>6. MetaInv(row.m)' /\ MetaInv(file)' /\ MetaInv(mem)' /\ MetaInv(fin.m)'
  BY <1>1 DEF CodexInv, MetaInv
<1>7. \A o \in Locks : ThreadInv(th[o])'
  <2>1. \A o \in Locks : ThreadInv(th'[o])
    BY <1>2, <1>4 DEF CodexInv, Moved
  <2> QED
    BY <1>1, <2>1 DEF ThreadInv, ThreadAt, Eff
<1>8. RowInv'
  <2>1. ASSUME NEW o \in Locks, Working(th[o]) PROVE Working(th[o])'
    <3>1. o # t
      BY <1>1, <2>1 DEF Working, WorkAt, Eff, WorkPCs
    <3> QED
      BY <1>1, <1>4, <2>1, <3>1 DEF Working, WorkAt, Eff, Moved
  <2>2. Attended => Attended'
    BY <1>1, <2>1 DEF Attended
  <2> QED
    BY <1>1, <2>2 DEF CodexInv, RowInv
<1>9. FinInv' /\ ExecInv' /\ SoloInv'
  BY <1>1 DEF CodexInv, FinInv, ExecInv, SoloInv
<1> QED
  BY <1>5, <1>6, <1>7, <1>8, <1>9 DEF CodexInv

LEMMA ResumedMeta ==
  ASSUME NEW m \in MetaRec, MetaInv(m), m.status = "waiting", m.gen < MaxResumes
  PROVE  \E k \in MetaRec : k = Resumed(m) /\ MetaInv(k) /\ k.status = "pending" /\ k.stage = m.stage
<1>1. /\ m.prep \in Nat /\ m.del \in Nat /\ m.rec \in Nat /\ m.gen \in Nat /\ m.made \in SUBSET Stages
      /\ m.stage \in {"prep", "del"} /\ m.stage \in Stages
  BY MetaFields DEF MetaInv
<1> DEFINE p == IF m.stage = "prep" THEN m.prep + 1 ELSE m.prep
           d == IF m.stage = "del" THEN m.del + 1 ELSE m.del
           g == m.gen + 1
           made == m.made \ {m.stage}
<1>2. p \in Nat /\ d \in Nat /\ g \in Nat /\ made \in SUBSET Stages
  BY <1>1
<1> DEFINE k == [m EXCEPT !.status = "pending", !.step = "create", !.gen = g, !.cur = "none", !.made = made,
                          !.prep = p, !.del = d]
<1>4. k = Resumed(m)
  BY DEF Resumed, MetaRec
<1> HIDE DEF p, d, g, made
<1>3. /\ k \in MetaRec /\ k.status = "pending" /\ k.step = "create" /\ k.gen = g /\ k.cur = "none"
      /\ k.made = made /\ k.prep = p /\ k.del = d /\ k.stage = m.stage /\ k.rec = m.rec
  BY <1>2 DEF MetaRec, Statuses, Steps
<1> HIDE DEF k
<1>5. MetaInv(k)
  BY <1>1, <1>3, CodexAssumption DEF MetaInv, p, d, g, made
<1> QED
  BY <1>3, <1>4, <1>5

LEMMA ResumeRunInv == ASSUME CodexInv, ResumeRun PROVE CodexInv'
<1>1. /\ proc = "up" /\ th["codex"].pc = "idle" /\ row.m.status = "waiting" /\ row.m.gen < MaxResumes
      /\ PersistArming("codex", "create_pending", Resumed(row.m), "enter", TRUE)
      /\ "codex" \in Locks /\ "key" \in Locks
  BY DEF ResumeRun, Locks
<1>2. PICK n \in MetaRec : n = row.m /\ MetaInv(n) /\ (~replayed => Verified(n))
  BY DEF CodexInv, CodexType, ExecInv
<1>3. PICK m \in MetaRec : m = Resumed(n) /\ MetaInv(m) /\ m.status = "pending" /\ m.stage = n.stage
  BY <1>1, <1>2, ResumedMeta
<1>4. PICK arm \in BOOLEAN : PersistArming("codex", "create_pending", m, "enter", arm)
  BY <1>1, <1>2, <1>3
<1>5. Turn("codex")
  BY <1>1, LaunchNow DEF Turn
<1>6. "create_pending" \in RowStates /\ "enter" \in PCs /\ Covered("enter", m) /\ "codex" # "key"
  BY DEF RowStates, PCs, Covered, WorkPCs
<1>7. Moved("codex") /\ th'["codex"].pc = "publish" /\ th'["codex"].m = m /\ th'["codex"].then = "enter"
  BY <1>1, <1>4, <1>6, Persisted, ContTypes
<1>8. ThreadInv(th'["codex"])
  BY <1>2, <1>3, <1>7 DEF ThreadInv, ThreadAt, Eff, PCInv, StartInv, Verified, BeforePCs, AfterPCs, ExecPCs
<1>9. LaunchStep("codex")
  BY <1>6 DEF LaunchStep
<1> QED
  BY <1>1, <1>3, <1>4, <1>5, <1>6, <1>8, <1>9, PersistStep

\* A phase watcher has ended: the codex lock goes to a goroutine that acts on it.
LEMMA WatchStep ==
  ASSUME CodexInv, proc # "down", th["codex"].pc = "idle",
         NEW c \in CIDs, watch[c] > 0, watch' = [watch EXCEPT ![c] = @ - 1],
         UNCHANGED <<row, file, mem, conts, shm, fin, proc, invoked, gaveUp, replayed>>,
         NEW x \in Thread, ThreadInv(x), th' = [th EXCEPT !["codex"] = x],
         row.m.status \in {"pending", "running"} => Working(x) \/ (x = th["codex"] /\ row.m.step # "running")
  PROVE  CodexInv'
<1>1. "codex" \in Locks /\ "key" \in Locks
  BY DEF Locks
<1>2. Moved("codex") /\ th'["codex"] = x
  BY <1>1, Put, ContTypes DEF Moved
<1>3. watch \in [CIDs -> Nat] /\ watch' \in [CIDs -> Nat]
  <2>1. watch \in [CIDs -> Nat]
    BY DEF CodexInv, CodexType
  <2> QED
    BY <2>1
<1>4. ~replayed => th["key"].pc = "idle"
  BY <1>3 DEF CodexInv, SoloInv
<1>5. CodexType'
  BY <1>2, <1>3 DEF CodexInv, CodexType, Moved
<1>6. MetaInv(row.m)' /\ MetaInv(file)' /\ MetaInv(mem)' /\ MetaInv(fin.m)'
  BY DEF CodexInv, MetaInv
<1>7. \A o \in Locks : ThreadInv(th[o])'
  BY <1>1, <1>2, OtherThreads
<1>8. RowInv'
  <2>1. ASSUME row.m.status \in {"pending", "running"}, ~gaveUp PROVE Attended'
    <3>1. CASE Working(x)
      <4>1. Working(th["codex"])'
        BY <1>2, <3>1 DEF Working, WorkAt, Eff
      <4> QED
        BY <1>1, <4>1 DEF Attended
    <3>2. CASE x = th["codex"] /\ row.m.step # "running"
      <4>1. \A o \in Locks : th'[o] = th[o]
        BY <1>2, <3>2 DEF Moved
      <4>2. \A o \in Locks : Working(th[o]) => Working(th[o])'
        BY <4>1 DEF Working, WorkAt, Eff
      <4>3. Attended
        BY <2>1 DEF CodexInv, RowInv
      <4> QED
        BY <3>2, <4>2, <4>3 DEF Attended
    <3> QED
      BY <2>1, <3>1, <3>2
  <2> QED
    BY <2>1 DEF CodexInv, RowInv
<1>9. FinInv' /\ ExecInv'
  BY DEF CodexInv, FinInv, ExecInv, Verified, Exec
<1>10. SoloInv'
  BY <1>1, <1>2, <1>4 DEF SoloInv, Moved
<1> QED
  BY <1>5, <1>6, <1>7, <1>8, <1>9, <1>10 DEF CodexInv

LEMMA WatcherInv == ASSUME CodexInv, NEW c \in CIDs, WatcherReturns(c) \/ WatcherFails(c) PROVE CodexInv'
<1>1. /\ proc # "down" /\ th["codex"].pc = "idle" /\ watch[c] > 0 /\ watch' = [watch EXCEPT ![c] = @ - 1]
      /\ UNCHANGED <<row, file, mem, conts, shm, fin, proc, invoked, gaveUp, replayed>>
  BY DEF WatcherReturns, WatcherFails
<1>2. /\ "codex" \in Locks /\ th["codex"] \in Thread /\ ThreadInv(th["codex"])
      /\ th \in [Locks -> Thread] /\ th = [th EXCEPT !["codex"] = th["codex"]]
  BY Parts DEF Locks
<1>3. PICK m \in MetaRec : m = row.m /\ MetaInv(m)
  BY DEF CodexInv, CodexType
<1>4. CASE th' = th /\ (row.m.status \in Terminal \/ row.m.step # "running")
  <2>1. PICK x \in Thread : x = th["codex"] /\ ThreadInv(x) /\ th' = [th EXCEPT !["codex"] = x]
    BY <1>2, <1>4
  <2>2. row.m.status \in {"pending", "running"} => x = th["codex"] /\ row.m.step # "running"
    BY <1>4, <2>1 DEF Terminal
  <2> QED
    BY <1>1, <2>1, <2>2, WatchStep
<1>5. CASE WatcherReturns(c) /\ WatcherActs
  <2>1. PICK l \in Lives : l = conts[c] /\ "term" \in PCs
    BY ContTypes DEF PCs
  <2>2. PCInv("term", row.m)
    BY <1>3, <1>5 DEF WatcherActs, PCInv, MetaInv, BeforePCs, AfterPCs, ExecPCs
  <2>3. PICK x : x = [Idle EXCEPT !.pc = "term", !.m = row.m, !.life = l] /\ th' = [th EXCEPT !["codex"] = x]
    BY <1>5, <2>1 DEF WatcherReturns
  <2>4. x \in Thread /\ ThreadInv(x) /\ Eff(x) = "term"
    <3>1. x = [Idle EXCEPT !.pc = "term", !.m = row.m] \/ x = [Idle EXCEPT !.pc = "term", !.m = row.m, !.life = l]
      BY <2>3
    <3>2. "term" # "publish" /\ "term" \notin {"save_start", "start", "save_made"}
      OBVIOUS
    <3> QED
      BY <2>1, <2>2, <3>1, <3>2, Begins, Zenon
  <2>5. Working(x)
    BY <2>4 DEF Working, WorkAt, WorkPCs, PCs
  <2> QED
    BY <1>1, <2>3, <2>4, <2>5, WatchStep
<1>6. CASE WatcherFails(c) /\ row.m.status \notin Terminal
  <2>1. "none" \in Lives /\ "fail" \in PCs /\ PCInv("fail", row.m)
    BY DEF PCs, Lives, PCInv, BeforePCs, AfterPCs, ExecPCs
  <2>2. PICK x : x = [Idle EXCEPT !.pc = "fail", !.m = row.m] /\ th' = [th EXCEPT !["codex"] = x]
    BY <1>6 DEF WatcherFails
  <2>3. x \in Thread /\ ThreadInv(x) /\ Eff(x) = "fail"
    BY <2>1, <2>2, Begins
  <2>4. Working(x)
    BY <2>3 DEF Working, WorkAt, WorkPCs, PCs
  <2> QED
    BY <1>1, <2>2, <2>3, <2>4, WatchStep
<1> QED
  BY <1>4, <1>5, <1>6 DEF WatcherReturns, WatcherFails, WatcherActs

LEMMA StutterInv == ASSUME CodexInv, UNCHANGED codexVars PROVE CodexInv'
<1>1. UNCHANGED <<World, row, file, mem, th>>
  BY DEF codexVars, World
<1>2. CodexType'
  BY <1>1 DEF CodexInv, CodexType, World
<1>3. MetaInv(row.m)' /\ MetaInv(file)' /\ MetaInv(mem)' /\ MetaInv(fin.m)'
  BY <1>1 DEF CodexInv, World, MetaInv
<1>4. \A o \in Locks : ThreadInv(th[o])'
  BY <1>1 DEF CodexInv, ThreadInv, ThreadAt, Eff, Verified, StartInv, Exec, World
<1>5. RowInv'
  <2>1. \A o \in Locks : Working(th[o]) => Working(th[o])'
    BY <1>1 DEF Working, WorkAt, Eff
  <2>2. Attended => Attended'
    BY <1>1, <2>1 DEF Attended, World
  <2> QED
    BY <1>1, <2>2 DEF CodexInv, RowInv, World
<1>6. FinInv' /\ ExecInv'
  BY <1>1 DEF CodexInv, FinInv, ExecInv, Verified, Exec, World
<1>7. SoloInv'
  BY <1>1 DEF CodexInv, SoloInv, Launching, LaunchInv, LaunchAt, Eff, Prep1, World
<1> QED
  BY <1>2, <1>3, <1>4, <1>5, <1>6, <1>7 DEF CodexInv

-----------------------------------------------------------------------------
(* The invariant, and what it shows.                                       *)

LEMMA InitInv == ASSUME Init PROVE CodexInv
<1>1. /\ row = [st |-> "created", m |-> Fresh] /\ file = Absent /\ mem = Absent /\ shm = "empty"
      /\ conts = [c \in CIDs |-> "none"] /\ fin = NoFinal /\ watch = [c \in CIDs |-> 0] /\ proc = "up"
      /\ invoked = 0 /\ gaveUp = FALSE /\ replayed = FALSE
      /\ th = [t \in Locks |-> IF t = "key" THEN [Idle EXCEPT !.pc = "enter", !.m = Fresh] ELSE Idle]
  BY DEF Init
<1>2. PICK x : x = [Idle EXCEPT !.pc = "enter", !.m = Fresh]
  OBVIOUS
<1>3. x \in Thread /\ x.pc = "enter" /\ x.m = Fresh
  BY <1>2, IdleThread, Blank DEF Thread, PCs
<1>4. /\ th \in [Locks -> Thread] /\ th["key"] = x /\ th["codex"] = Idle /\ "key" \in Locks
      /\ \A t \in Locks : th[t] = x \/ th[t] = Idle
  BY <1>1, <1>2, <1>3, IdleThread DEF Locks
<1>5. Exec = "none" /\ Prep1 = "none" /\ \A c \in CIDs : conts[c] = "none"
  BY <1>1, Containers DEF Exec, Prep1
<1>6. CodexType
  <2>1. "none" \in Lives /\ "created" \in RowStates
    BY DEF Lives, RowStates
  <2> QED
    BY <1>1, <1>4, <2>1, Blank, IdleThread DEF CodexType
<1>7. row.m = Fresh /\ row.st = "created"
  BY <1>1
<1>8. MetaInv(row.m) /\ MetaInv(file) /\ MetaInv(mem) /\ MetaInv(fin.m)
  BY <1>1, <1>7, Blank, IdleThread
<1>9. ThreadInv(x)
  BY <1>3, Blank DEF ThreadInv, ThreadAt, Eff, PCInv, BeforePCs, AfterPCs, ExecPCs, Verified, StartInv
<1>10. RowInv
  <2>1. Working(x)
    BY <1>3, Blank DEF Working, WorkAt, Eff, WorkPCs, PCs, Terminal
  <2> QED
    BY <1>4, <1>7, <2>1 DEF RowInv, Attended
<1>11. FinInv
  BY <1>1, IdleThread DEF FinInv
<1>12. ExecInv
  BY <1>1, <1>5, <1>7, Blank, IdleThread DEF ExecInv, Verified
<1>13. SoloInv
  <2>1. LaunchInv(x) /\ Eff(x) = "enter"
    BY <1>3, <1>5, Blank DEF LaunchInv, LaunchAt, Eff, EarlyPCs
  <2>2. Launching
    BY <1>1, <1>4, <1>7, <2>1, Blank, IdleThread DEF Launching
  <2> QED
    BY <1>1, <1>4, <2>2, IdleThread DEF SoloInv
<1> QED
  BY <1>4, <1>6, <1>8, <1>9, <1>10, <1>11, <1>12, <1>13, IdleInv DEF CodexInv

LEMMA NextInv == ASSUME CodexInv, [Next]_vars PROVE CodexInv'
<1>1. ASSUME NEW t \in Locks, Drive(t) PROVE CodexInv'
  BY <1>1, EnterInv, SaveAttemptInv, SaveCreateInv, CreateInv, SaveMadeInv, InspectInv, SaveStartInv, StartContainerInv,
     SaveExecInv, ExecLocalInv, InjectInv, SaveRunningInv, StartWatchersInv, PublishInv, SaveTermInv, DecideInv,
     SaveNextInv, SaveLastInv, FailStopInv, FinalizeDeliveryInv, AwaitFinalInv DEF Drive
<1>2. ASSUME NEW t \in Locks, CallFails(t) \/ SaveFails(t) \/ Replay(t) PROVE CodexInv'
  BY <1>2, ExecLocalInv, SaveFailsInv, ReplayInv
<1>3. ASSUME Finalizer PROVE CodexInv'
  BY <1>3, FinalizeActInv, FinalWritesInv DEF Finalizer
<1>4. ASSUME StopAgent \/ \E g \in timers : DeadlineFires(g) PROVE CodexInv'
  BY <1>4, ClaimInv
<1>5. ASSUME ResumeRun \/ Crash \/ Boot \/ Booted PROVE CodexInv'
  BY <1>5, ResumeRunInv, HaltedInv, BootInv, BootedInv DEF Crash
<1>6. ASSUME NEW c \in CIDs, WatcherReturns(c) \/ WatcherFails(c) \/ WorkerExits(c) PROVE CodexInv'
  BY <1>6, WatcherInv, WorkerExitsInv
<1>7. ASSUME WorkerAccepts PROVE CodexInv'
  BY <1>7, WorkerAcceptsInv
<1>8. ASSUME RefreshStep \/ UNCHANGED vars PROVE CodexInv'
  BY <1>8, StutterInv DEF RefreshStep, vars
<1> QED
  BY <1>1, <1>2, <1>3, <1>4, <1>5, <1>6, <1>7, <1>8 DEF Next

LEMMA CodexInvariant == Spec => []CodexInv
<1>1. Init => CodexInv
  BY InitInv
<1>2. CodexInv /\ [Next]_vars => CodexInv'
  BY NextInv
<1> QED
  BY <1>1, <1>2, PTL DEF Spec

\* However the process dies between the writes, calls and injections of
\* resumeExecution, and whatever stops, deadlines, resumes and failing calls
\* come in between, at most one execution accepts a credential unless a launch
\* or resume call is repeated: the credential file of a container that is
\* started the first time is the only one that can be filled.
THEOREM CodexRunsOnce == Spec => []ExecutesOnce
<1>1. CodexInv => ExecutesOnce
  BY DEF CodexInv, ExecInv, ExecutesOnce
<1> QED
  BY <1>1, CodexInvariant, PTL

\* Every delivery worker that was ever started, of any attempt, works on an
\* execution that ended well and was verified (completeExecution,
\* completeRecoveryValidation, ResumeRun), unless a call is repeated.
THEOREM DeliveryIsVerified == Spec => []DeliversVerifiedWork
<1>1. ASSUME CodexInv PROVE DeliversVerifiedWork
  <2> SUFFICES ASSUME ~replayed, NEW n \in Attempts, conts[<<"del", n>>] \notin {"none", "created"}
               PROVE  Exec = "ok"
    BY DEF DeliversVerifiedWork, Exec
  <2>1. PICK c \in CIDs : c = <<"del", n>> /\ c[1] = "del"
    BY Containers
  <2> QED
    BY <1>1, <2>1, ExecNow
<1> QED
  BY <1>1, CodexInvariant, PTL

\* While nobody is at work on it, a run that has not ended and does not wait for
\* GitHub has a watcher on the container of its phase, or is a delivery that
\* ended while a stop held s.finalizing: no path of the resume and complete
\* functions, after a crash or a resume either, leaves it unattended.
THEOREM RunIsAttended == Spec => []PhaseIsWatched
<1>1. ASSUME CodexInv PROVE PhaseIsWatched
  <2> SUFFICES ASSUME Quiet, ~gaveUp, row.m.status \in {"pending", "running"}
               PROVE  \/ row.m.step = "running" /\ watch[Cid(row.m, row.m.stage)] > 0
                      \/ row.m.stage = "del" /\ row.m.step = "term"
    BY DEF PhaseIsWatched
  <2>1. Attended
    BY <1>1 DEF CodexInv, RowInv, Quiet
  <2>2. \A t \in Locks : ~Working(th[t])
    BY DEF Quiet, Working, WorkAt, Eff, WorkPCs
  <2> QED
    BY <2>1, <2>2 DEF Attended
<1> QED
  BY <1>1, CodexInvariant, PTL

\* Outside a refresh, and unless an answer of the provider was lost, the master
\* file holds what the provider gave out last.
MasterInv == refreshing \in BOOLEAN /\ lost \in BOOLEAN /\ (~refreshing /\ ~lost => master = provider)

\* A step of the workflow touches the holder only through its operations.
HolderStep == Issue \/ Consume \/ HolderCrash \/ RefreshAsk \/ RefreshWrite \/ UNCHANGED holderVars

LEMMA HolderSteps == ASSUME [Next]_vars PROVE HolderStep
<1>1. ASSUME NEW t \in Locks, Drive(t) PROVE HolderStep
  BY <1>1 DEF Drive, Enter, SaveAttempt, SaveCreate, CreateContainer, SaveMade, InspectContainer, SaveStart,
     StartContainer, SaveInject, ProbeMarker, CheckMarker, IssueBundle, InjectSecret, SaveAccept, WaitForPath,
     ConsumeBundle, SaveRunning, StartWatchers, Publish, SaveTerm, Decide, SaveNext, WaitForGitHub, FailStop,
     FailSave, FinalizeDelivery, AwaitFinal, Persist, PersistArming, HolderStep
<1>2. ASSUME NEW t \in Locks, CallFails(t) \/ SaveFails(t) \/ Replay(t) PROVE HolderStep
  BY <1>2 DEF CallFails, SaveFails, Halted, Replay, HolderStep
<1>3. ASSUME Finalizer \/ StopAgent \/ \E g \in timers : DeadlineFires(g) PROVE HolderStep
  BY <1>3 DEF Finalizer, FinalizeAct, FinalizeStore, FinalizeFile, FinalizeRow, StopAgent, DeadlineFires, HolderStep
<1>4. ASSUME ResumeRun \/ Crash \/ Boot \/ Booted PROVE HolderStep
  BY <1>4 DEF ResumeRun, PersistArming, Crash, Halted, Boot, Booted, HolderStep
<1>5. ASSUME NEW c \in CIDs, WatcherReturns(c) \/ WatcherFails(c) \/ WorkerExits(c) PROVE HolderStep
  BY <1>5 DEF WatcherReturns, WatcherFails, WorkerExits, HolderStep
<1>6. ASSUME WorkerAccepts \/ RefreshStep \/ UNCHANGED vars PROVE HolderStep
  BY <1>6 DEF WorkerAccepts, RefreshStep, vars, HolderStep
<1> QED
  BY <1>1, <1>2, <1>3, <1>4, <1>5, <1>6 DEF Next

\* Issue never projects an access token that a refresh under way has already
\* replaced: a bundle is of the provider's latest generation unless an answer
\* of the provider was lost before it was written (Refresh and Issue).
THEOREM BundlesAreCurrent == Spec => BundleIsCurrent
<1>1. Init => MasterInv
  BY DEF Init, HolderInit, MasterInv
<1>2. MasterInv /\ [Next]_vars => MasterInv'
  <2> SUFFICES ASSUME MasterInv, HolderStep PROVE MasterInv'
    BY HolderSteps
  <2> QED
    BY DEF MasterInv, HolderStep, Issue, Issuable, Consume, HolderCrash, RefreshAsk, RefreshWrite, holderVars, masterVars
<1>3. MasterInv /\ [Next]_vars => [bundle' # bundle => bundle' = provider \/ lost]_vars
  <2> SUFFICES ASSUME MasterInv, HolderStep, bundle' # bundle PROVE bundle' = provider \/ lost
    BY HolderSteps
  <2>1. Issue
    BY DEF HolderStep, Consume, HolderCrash, RefreshAsk, RefreshWrite, holderVars
  <2> QED
    BY <2>1 DEF MasterInv, Issue, Issuable
<1> QED
  BY <1>1, <1>2, <1>3, PTL DEF Spec, BundleIsCurrent
=============================================================================
