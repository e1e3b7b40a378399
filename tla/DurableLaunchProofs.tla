------------------------ MODULE DurableLaunchProofs ------------------------
(***************************************************************************)
(* Theorems about DurableLaunch, for every set of runs, keys, requests and *)
(* callers and every bound.                                                *)
(***************************************************************************)
EXTENDS DurableLaunch, FiniteSetTheorems, TLAPS

-----------------------------------------------------------------------------
(* Type correctness.                                                       *)

\* A finalization that is past its update has a terminal outcome, and so has a
\* launch that is committing a startup failure.
Decided ==
    /\ \A r \in Runs : fin[r].step \in {"persist", "memory", "file", "store"}
                          => fin[r].next \in Terminal
    /\ \A p \in Threads : th[p].pc \in {"fail_result", "fail_file", "fail_store"}
                             => th[p].out \in Terminal

TypeInv == TypeOK /\ Decided

LEMMA ExitOutcomeTerminal == \A c : ExitOutcome(c) \in Terminal
  BY DEF ExitOutcome, Terminal

LEMMA IdleType == Idle \in Thread
  BY NonEmpty DEF Idle, Thread, PCs, IntentState, Outcome, Terminal, ContState

LEMMA InitType == Init => TypeInv
<1> SUFFICES ASSUME Init PROVE TypeInv
  OBVIOUS
<1>1. NotFinalizing \in Finalizer
  BY DEF NotFinalizing, Finalizer, Steps
<1>2. LifeTypeOK
  BY <1>1, MaxFaultsNat DEF Init, LifeInit, LifeTypeOK, Outcome, Active,
     ContState, IntentState, WorkerState
<1>3. conf \in Versions
  BY NonEmpty DEF Init
<1>5. TypeOK
  BY <1>2, <1>3, IdleType, MaxCrashesNat DEF Init, TypeOK, Thread
<1>4. Decided
  BY DEF Init, LifeInit, Decided, NotFinalizing, Idle
<1> QED
  BY <1>5, <1>4 DEF TypeInv

\* What the building blocks of the actions keep.

FinDecided(f) ==
    \A q \in Runs : f[q].step \in {"persist", "memory", "file", "store"}
                       => f[q].next \in Terminal

ThDecided(t) ==
    \A q \in Threads : t[q].pc \in {"fail_result", "fail_file", "fail_store"}
                          => t[q].out \in Terminal

LEMMA TypeFacts ==
  TypeInv => /\ th \in [Threads -> Thread] /\ ThDecided(th)
             /\ fin \in [Runs -> Finalizer] /\ FinDecided(fin)
             /\ wk \in [Runs -> [Workers -> WorkerState]]
             /\ runs \in [Runs -> Outcome \cup {"absent"}]
             /\ metaFile \in [Runs -> Outcome \cup {"absent"}]
             /\ termFile \in [Runs -> Terminal \cup {"absent"}]
             /\ istate \in [Runs -> IntentState]
             /\ iout \in [Runs -> Outcome \cup {"absent"}]
  BY DEF TypeInv, TypeOK, LifeTypeOK, Decided, ThDecided, FinDecided

LEMMA GotoType ==
  ASSUME TypeInv, NEW p \in Threads, NEW pc \in PCs, Goto(p, pc),
         pc \in {"fail_result", "fail_file", "fail_store"} => th[p].out \in Terminal
  PROVE  th' \in [Threads -> Thread] /\ ThDecided(th')
<1>0. th \in [Threads -> Thread]
  BY TypeFacts
<1>1. th' \in [Threads -> Thread]
  BY <1>0 DEF Goto, Thread
<1>2. \A q \in Threads : q # p => th'[q] = th[q]
  BY <1>0 DEF Goto
<1>3. th'[p].pc = pc /\ th'[p].out = th[p].out
  BY <1>0 DEF Goto, Thread
<1> QED
  BY <1>1, <1>2, <1>3, TypeFacts DEF ThDecided

LEMMA HoldType ==
  ASSUME TypeInv, NEW p \in Threads, NEW pc \in PCs, NEW st \in IntentState,
         NEW out \in Outcome \cup {"absent"}, Hold(p, pc, st, out),
         pc \in {"fail_result", "fail_file", "fail_store"} => out \in Terminal
  PROVE  th' \in [Threads -> Thread] /\ ThDecided(th')
<1>0. th \in [Threads -> Thread]
  BY TypeFacts
<1>1. th' \in [Threads -> Thread]
  BY <1>0 DEF Hold, Thread
<1>2. \A q \in Threads : q # p => th'[q] = th[q]
  BY <1>0 DEF Hold
<1>3. th'[p].pc = pc /\ th'[p].out = out
  BY <1>0 DEF Hold, Thread
<1> QED
  BY <1>1, <1>2, <1>3, TypeFacts DEF ThDecided

LEMMA ClaimType ==
  ASSUME TypeInv, NEW r \in Runs, NEW w \in Workers, NEW step \in Steps,
         NEW next \in Terminal \cup {"running"}, Claim(r, w, step, next),
         step # "update" => next \in Terminal
  PROVE  /\ runs' \in [Runs -> Outcome \cup {"absent"}]
         /\ fin' \in [Runs -> Finalizer] /\ FinDecided(fin')
         /\ wk' \in [Runs -> [Workers -> WorkerState]]
<1> DEFINE taken == [by |-> w, step |-> step, next |-> next]
<1>1. LookupRun(r) \in Outcome \cup {"absent"}
  BY TypeFacts DEF LookupRun
<1>2. runs' = [runs EXCEPT ![r] = LookupRun(r)]
  BY DEF Claim
<1>3. \E v \in {"off", "blocked", "busy"} : wk' = [wk EXCEPT ![r][w] = v]
  BY DEF Claim
<1>4. fin' = fin \/ fin' = [fin EXCEPT ![r] = taken]
  BY DEF Claim
<1>5. runs' \in [Runs -> Outcome \cup {"absent"}]
  BY <1>1, <1>2, TypeFacts
<1>6. wk' \in [Runs -> [Workers -> WorkerState]]
  BY <1>3, TypeFacts DEF WorkerState
<1>7. taken \in Finalizer
  BY DEF Finalizer
<1>8. fin' \in [Runs -> Finalizer]
  BY <1>4, <1>7, TypeFacts
<1>9. FinDecided(fin')
  BY <1>4, TypeFacts DEF FinDecided
<1> QED
  BY <1>5, <1>6, <1>8, <1>9

LEMMA ReleaseType ==
  ASSUME TypeInv, NEW r \in Runs, NEW result \in {"off", "failed"}, Release(r, result)
  PROVE  /\ fin' \in [Runs -> Finalizer] /\ FinDecided(fin')
         /\ wk' \in [Runs -> [Workers -> WorkerState]]
<1>1. NotFinalizing \in Finalizer
  BY DEF Finalizer, NotFinalizing, Steps
<1>2. fin' \in [Runs -> Finalizer]
  BY <1>1, TypeFacts DEF Release
<1>3. FinDecided(fin')
  BY TypeFacts DEF Release, FinDecided, NotFinalizing
<1>4. [w \in Workers |-> IF w = fin[r].by
                            THEN IF w = "resume" THEN result ELSE "off"
                            ELSE IF wk[r][w] = "blocked" THEN "off" ELSE wk[r][w]]
        \in [Workers -> WorkerState]
  BY TypeFacts DEF WorkerState
<1>5. wk' \in [Runs -> [Workers -> WorkerState]]
  BY <1>4, TypeFacts DEF Release
<1> QED
  BY <1>2, <1>3, <1>5

LEMMA AdvanceType ==
  ASSUME TypeInv, NEW r \in Runs, NEW step \in Steps, Advance(r, step),
         fin[r].next \in Terminal
  PROVE  fin' \in [Runs -> Finalizer] /\ FinDecided(fin') /\ wk' = wk
<1>0. fin \in [Runs -> Finalizer]
  BY TypeFacts
<1>1. fin' \in [Runs -> Finalizer]
  BY <1>0 DEF Advance, Finalizer
<1>2. \A q \in Runs : fin'[q].next = fin[q].next
  BY <1>0 DEF Advance, Finalizer
<1>3. \A q \in Runs : q # r => fin'[q] = fin[q]
  BY <1>0 DEF Advance
<1> QED
  BY <1>1, <1>2, <1>3, TypeFacts DEF FinDecided, Advance

LEMMA DecideType ==
  ASSUME TypeInv, NEW r \in Runs, NEW next \in Terminal, Decide(r, next)
  PROVE  fin' \in [Runs -> Finalizer] /\ FinDecided(fin') /\ wk' = wk
<1>0. fin \in [Runs -> Finalizer]
  BY TypeFacts
<1>1. "persist" \in Steps
  BY DEF Steps
<1>2. fin' \in [Runs -> Finalizer]
  BY <1>0, <1>1 DEF Decide, Finalizer
<1>3. fin'[r].next = next
  BY <1>0 DEF Decide, Finalizer
<1>4. \A q \in Runs : q # r => fin'[q] = fin[q]
  BY <1>0 DEF Decide
<1> QED
  BY <1>2, <1>3, <1>4, TypeFacts DEF FinDecided, Decide

LEMMA SaveIntentType ==
  ASSUME TypeInv, NEW r \in Runs, NEW st \in IntentState,
         NEW out \in Outcome \cup {"absent"}, SaveIntent(r, st, out)
  PROVE  /\ istate' \in [Runs -> IntentState]
         /\ iout' \in [Runs -> Outcome \cup {"absent"}]
  BY TypeFacts DEF SaveIntent

LEMMA FaultType ==
  ASSUME TypeInv, Fault \/ faults' = faults
  PROVE  faults' \in 0..MaxFaults
  BY MaxFaultsNat DEF TypeInv, TypeOK, LifeTypeOK, Fault

LEMMA MaybeStoppedType ==
  ASSUME TypeInv, NEW r \in Runs
  PROVE  \A f \in MaybeStopped(r) : f \in [Runs -> ContState]
<1>1. \A c \in Exited : [cont EXCEPT ![r] = c] \in [Runs -> ContState]
  BY DEF TypeInv, TypeOK, LifeTypeOK, Exited, ContState
<1>2. \A f \in MaybeStopped(r) : f = cont \/ \E c \in Exited : f = [cont EXCEPT ![r] = c]
  BY DEF MaybeStopped
<1> QED
  BY <1>1, <1>2 DEF TypeInv, TypeOK, LifeTypeOK

\* RunLifecycle: the variables of DurableLaunch do not change, so it is enough
\* that LifeTypeOK and the outcome of the finalization are kept.
LEMMA LifeStep ==
  ASSUME TypeInv, UNCHANGED launchVars, LifeTypeOK', FinDecided(fin')
  PROVE  TypeInv'
  BY DEF TypeInv, TypeOK, Decided, FinDecided, launchVars

LEMMA FinalizeType ==
  ASSUME TypeInv, NEW r \in Runs, Finalize(r), UNCHANGED launchVars
  PROVE  TypeInv'
<1> USE FaultType, LifeStep
<1> USE DEF TypeInv, TypeOK, LifeTypeOK, docker, durable
<1>0. fin[r].step \in {"persist", "memory", "file", "store"} => fin[r].next \in Terminal
  BY DEF Decided
<1>1. CASE MarkTimedOut(r)
  <2>1. PICK next \in Terminal : Decide(r, next)
    BY <1>1, ExitOutcomeTerminal DEF MarkTimedOut, Terminal
  <2>2. cont' \in [Runs -> ContState]
    <3>1. \A c \in Exited : [cont EXCEPT ![r] = c] \in [Runs -> ContState]
      BY DEF Exited, ContState
    <3> QED
      BY <1>1, <3>1, MaybeStoppedType DEF MarkTimedOut
  <2>3. faults' \in 0..MaxFaults
    BY <1>1 DEF MarkTimedOut
  <2> QED
    BY <1>1, <2>1, <2>2, <2>3, DecideType DEF MarkTimedOut
<1>2. CASE StopUpdate(r)
  <2>1. \/ Decide(r, "stopped") /\ "stopped" \in Terminal
        \/ Release(r, "off")
    BY <1>2 DEF StopUpdate, Terminal
  <2>2. cont' \in [Runs -> ContState]
    <3>1. \A c \in Exited : [cont EXCEPT ![r] = c] \in [Runs -> ContState]
      BY DEF Exited, ContState
    <3> QED
      BY <1>2, <3>1, MaybeStoppedType DEF StopUpdate
  <2>3. faults' \in 0..MaxFaults
    BY <1>2 DEF StopUpdate
  <2>4. /\ fin' \in [Runs -> Finalizer] /\ FinDecided(fin')
        /\ wk' \in [Runs -> [Workers -> WorkerState]]
    BY <2>1, DecideType, ReleaseType
  <2> QED
    BY <1>2, <2>2, <2>3, <2>4 DEF StopUpdate
<1>3. CASE PersistTerminal(r)
  <2>1. Advance(r, "memory") \/ Release(r, "failed")
    BY <1>3 DEF PersistTerminal
  <2>2. /\ fin' \in [Runs -> Finalizer] /\ FinDecided(fin')
        /\ wk' \in [Runs -> [Workers -> WorkerState]]
    BY <1>0, <1>3, <2>1, AdvanceType, ReleaseType DEF PersistTerminal, Steps
  <2>3. termFile' \in [Runs -> Terminal \cup {"absent"}]
    BY <1>0, <1>3 DEF PersistTerminal
  <2>4. faults' \in 0..MaxFaults
    BY <1>3 DEF PersistTerminal
  <2> QED
    BY <1>3, <2>2, <2>3, <2>4 DEF PersistTerminal
<1>4. CASE PublishInMemory(r)
  <2>1. Advance(r, "file") \/ Release(r, "off")
    BY <1>4 DEF PublishInMemory
  <2>2. /\ fin' \in [Runs -> Finalizer] /\ FinDecided(fin')
        /\ wk' \in [Runs -> [Workers -> WorkerState]]
    BY <1>0, <1>4, <2>1, AdvanceType, ReleaseType DEF PublishInMemory, Steps
  <2>3. runs' \in [Runs -> Outcome \cup {"absent"}]
    BY <1>0, <1>4 DEF PublishInMemory, Outcome
  <2> QED
    BY <1>4, <2>2, <2>3 DEF PublishInMemory
<1>5. CASE WriteMetadata(r)
  <2>1. Advance(r, "store") \/ Release(r, "failed")
    BY <1>5 DEF WriteMetadata
  <2>2. /\ fin' \in [Runs -> Finalizer] /\ FinDecided(fin')
        /\ wk' \in [Runs -> [Workers -> WorkerState]]
    BY <1>0, <1>5, <2>1, AdvanceType, ReleaseType DEF WriteMetadata, Steps
  <2>3. metaFile' \in [Runs -> Outcome \cup {"absent"}]
    BY <1>0, <1>5 DEF WriteMetadata, Outcome
  <2>4. faults' \in 0..MaxFaults
    BY <1>5 DEF WriteMetadata
  <2> QED
    BY <1>5, <2>2, <2>3, <2>4 DEF WriteMetadata
<1>6. CASE SaveFinal(r)
  <2>1. PICK result \in {"off", "failed"} : Release(r, result)
    BY <1>6 DEF SaveFinal
  <2>2. fin[r].next \in Outcome /\ "terminal" \in IntentState
    BY <1>0, <1>6 DEF SaveFinal, Outcome, IntentState
  <2>3. /\ istate' \in [Runs -> IntentState]
        /\ iout' \in [Runs -> Outcome \cup {"absent"}]
    BY <1>6, <2>2, SaveIntentType DEF SaveFinal
  <2>4. faults' \in 0..MaxFaults
    BY <1>6 DEF SaveFinal
  <2> QED
    BY <1>6, <2>1, <2>3, <2>4, ReleaseType DEF SaveFinal
<1> QED
  BY <1>1, <1>2, <1>3, <1>4, <1>5, <1>6 DEF Finalize

LEMMA WorkerMoves ==
  ASSUME TypeInv, NEW r \in Runs, NEW w \in Workers, NEW v \in WorkerState,
         wk' = [wk EXCEPT ![r][w] = v]
  PROVE  wk' \in [Runs -> [Workers -> WorkerState]]
  BY TypeFacts

LEMMA ArmType ==
  ASSUME TypeInv, NEW r \in Runs, Arm(r)
  PROVE  wk' \in [Runs -> [Workers -> WorkerState]]
  BY TypeFacts DEF Arm, WorkerState, Workers

LEMMA RunStepType ==
  ASSUME TypeInv, NEW r \in Runs, RunStep(r)
  PROVE  TypeInv'
<1> USE FaultType, LifeStep, TypeFacts
<1> USE DEF TypeInv, TypeOK, LifeTypeOK, docker, durable
<1>0. UNCHANGED launchVars
  BY DEF RunStep
<1>a. "exit" \in Workers /\ "timeout" \in Workers /\ "poll" \in Workers
      /\ "stop" \in Workers /\ "cleanup" \in Workers /\ "resume" \in Workers
  BY DEF Workers
<1>b. "off" \in WorkerState /\ "busy" \in WorkerState /\ "failed" \in WorkerState
  BY DEF WorkerState
<1>c. "update" \in Steps /\ "persist" \in Steps
  BY DEF Steps
<1>1. CASE WorkerExits(r)
  BY <1>0, <1>1 DEF WorkerExits, Exited, ContState
<1>2. CASE DeadlinePasses(r)
  BY <1>0, <1>2 DEF DeadlinePasses
<1>3. CASE Finalize(r)
  BY <1>0, <1>3, FinalizeType
<1>4. CASE WatchExit(r)
  <2>1. /\ runs' \in [Runs -> Outcome \cup {"absent"}]
        /\ fin' \in [Runs -> Finalizer] /\ FinDecided(fin')
        /\ wk' \in [Runs -> [Workers -> WorkerState]]
    BY <1>4, <1>a, <1>b, <1>c, ClaimType, WorkerMoves, ExitOutcomeTerminal DEF WatchExit
  <2>2. faults' \in 0..MaxFaults
    BY <1>4 DEF WatchExit
  <2> QED
    BY <1>0, <1>4, <2>1, <2>2 DEF WatchExit
<1>5. CASE WatchTimeout(r)
  <2>1. /\ runs' \in [Runs -> Outcome \cup {"absent"}]
        /\ fin' \in [Runs -> Finalizer] /\ FinDecided(fin')
        /\ wk' \in [Runs -> [Workers -> WorkerState]]
    BY <1>5, <1>a, <1>c, ClaimType DEF WatchTimeout
  <2> QED
    BY <1>0, <1>5, <2>1 DEF WatchTimeout
<1>6. CASE CleanupDirectory(r)
  <2>1. wk' \in [Runs -> [Workers -> WorkerState]]
    BY <1>6, <1>a, <1>b, WorkerMoves DEF CleanupDirectory
  <2>2. /\ metaFile' \in [Runs -> Outcome \cup {"absent"}]
        /\ termFile' \in [Runs -> Terminal \cup {"absent"}]
        /\ runs' \in [Runs -> Outcome \cup {"absent"}]
    BY <1>6 DEF CleanupDirectory
  <2>3. faults' \in 0..MaxFaults
    BY <1>6 DEF CleanupDirectory
  <2> QED
    BY <1>0, <1>6, <2>1, <2>2, <2>3 DEF CleanupDirectory
<1>7. CASE GetAgentStatus(r)
  <2>1. /\ runs' \in [Runs -> Outcome \cup {"absent"}]
        /\ fin' \in [Runs -> Finalizer] /\ FinDecided(fin')
        /\ wk' \in [Runs -> [Workers -> WorkerState]]
    BY <1>7, <1>a, <1>c, ClaimType, ExitOutcomeTerminal DEF GetAgentStatus
  <2> QED
    BY <1>0, <1>7, <2>1 DEF GetAgentStatus
<1>8. CASE StopAgent(r)
  <2>1. /\ runs' \in [Runs -> Outcome \cup {"absent"}]
        /\ fin' \in [Runs -> Finalizer] /\ FinDecided(fin')
        /\ wk' \in [Runs -> [Workers -> WorkerState]]
    BY <1>8, <1>a, <1>c, ClaimType DEF StopAgent
  <2> QED
    BY <1>0, <1>8, <2>1 DEF StopAgent
<1>9. CASE CleanupContainer(r)
  <2>1. wk' \in [Runs -> [Workers -> WorkerState]]
    BY <1>9, <1>a, <1>b, WorkerMoves DEF CleanupContainer
  <2>2. cont' \in [Runs -> ContState]
    BY <1>9 DEF CleanupContainer, ContState
  <2>3. faults' \in 0..MaxFaults
    BY <1>9 DEF CleanupContainer
  <2> QED
    BY <1>0, <1>9, <2>1, <2>2, <2>3 DEF CleanupContainer
<1>10. CASE GiveUp(r)
  <2>1. wk' \in [Runs -> [Workers -> WorkerState]]
    BY <1>10, <1>a, <1>b, WorkerMoves DEF GiveUp
  <2> QED
    BY <1>0, <1>10, <2>1 DEF GiveUp
<1> QED
  BY <1>1, <1>2, <1>3, <1>4, <1>5, <1>6, <1>7, <1>8, <1>9, <1>10
     DEF RunStep, Watch, Client

-----------------------------------------------------------------------------
(* The launch and startup steps.                                           *)

LEMMA LaunchStep ==
  ASSUME TypeInv, UNCHANGED NotLife, LifeTypeOK', FinDecided(fin'),
         th' \in [Threads -> Thread], ThDecided(th'),
         label' \in [Runs -> Nat], minted' \in Nat
  PROVE  TypeInv'
  BY DEF TypeInv, TypeOK, Decided, FinDecided, ThDecided, NotLife, intentVars, procVars

LEMMA LearnType ==
  ASSUME TypeInv, NEW p \in Threads, NEW pc \in PCs, NEW c \in ContState,
         Learn(p, pc, c), pc \notin {"fail_result", "fail_file", "fail_store"}
  PROVE  th' \in [Threads -> Thread] /\ ThDecided(th')
<1>0. th \in [Threads -> Thread]
  BY TypeFacts
<1>1. th' \in [Threads -> Thread]
  BY <1>0 DEF Learn, Thread
<1>2. \A q \in Threads : q # p => th'[q] = th[q]
  BY <1>0 DEF Learn
<1>3. th'[p].pc = pc
  BY <1>0 DEF Learn, Thread
<1> QED
  BY <1>1, <1>2, <1>3, TypeFacts DEF ThDecided

LEMMA ThreadFacts ==
  ASSUME TypeInv, NEW p \in Threads
  PROVE  /\ th[p].run \in Runs /\ th[p].out \in Outcome \cup {"absent"}
         /\ th[p].st \in IntentState /\ th[p].life \in ContState
         /\ th[p].hd \in Nat /\ th[p].key \in Keys /\ th[p].fp \in Fps
  BY TypeFacts DEF Thread

LEMMA SaveStepType ==
  ASSUME TypeInv, NEW p \in Threads, NEW from, NEW st \in IntentState,
         NEW out \in Outcome \cup {"absent"}, NEW pc \in PCs,
         pc \notin {"fail_result", "fail_file", "fail_store"},
         SaveStep(p, from, st, out, pc)
  PROVE  TypeInv'
<1>1. th' \in [Threads -> Thread] /\ ThDecided(th')
  BY HoldType, GotoType DEF SaveStep, PCs
<1>2. /\ istate' \in [Runs -> IntentState]
      /\ iout' \in [Runs -> Outcome \cup {"absent"}]
  BY SaveIntentType, ThreadFacts, TypeFacts DEF SaveStep
<1>3. faults' \in 0..MaxFaults
  BY FaultType DEF SaveStep
<1>4. LifeTypeOK'
  BY <1>2, <1>3 DEF SaveStep, TypeInv, TypeOK, LifeTypeOK, docker
<1>5. FinDecided(fin')
  BY TypeFacts DEF SaveStep, FinDecided
<1> QED
  BY <1>1, <1>4, <1>5, LaunchStep DEF SaveStep, TypeInv, TypeOK

LEMMA WriteFileStepType ==
  ASSUME TypeInv, NEW p \in Threads, NEW from, NEW pc \in PCs,
         pc \in {"fail_result", "fail_file", "fail_store"} => th[p].out \in Terminal,
         WriteFileStep(p, from, pc)
  PROVE  TypeInv'
<1>1. th' \in [Threads -> Thread] /\ ThDecided(th')
  BY GotoType DEF WriteFileStep, PCs
<1>2. metaFile' \in [Runs -> Outcome \cup {"absent"}]
  BY ThreadFacts, TypeFacts DEF WriteFileStep
<1>3. faults' \in 0..MaxFaults
  BY FaultType DEF WriteFileStep
<1>4. LifeTypeOK'
  BY <1>2, <1>3 DEF WriteFileStep, TypeInv, TypeOK, LifeTypeOK, docker
<1>5. FinDecided(fin')
  BY TypeFacts DEF WriteFileStep, FinDecided
<1> QED
  BY <1>1, <1>4, <1>5, LaunchStep DEF WriteFileStep, TypeInv, TypeOK

LEMMA FollowType == \A c : Follow(c) \in {"commit_save", "exited_publish", "save_start"}
  BY DEF Follow

LEMMA ResumeType ==
  ASSUME TypeInv, NEW p \in Threads, ResumeStep(p)
  PROVE  TypeInv'
<1> DEFINE r == th[p].run
<1> USE TypeFacts, FaultType
<1> USE DEF docker, durable
<1>0. /\ r \in Runs /\ th[p].out \in Outcome \cup {"absent"} /\ th[p].st \in IntentState
      /\ th[p].life \in ContState /\ th[p].hd \in Nat
  BY ThreadFacts
<1>a. "resume" \in Workers /\ "off" \in WorkerState /\ "persist" \in Steps
  BY DEF Workers, WorkerState, Steps
<1>b. /\ "intent_created" \in IntentState /\ "create_pending" \in IntentState
      /\ "container_created" \in IntentState /\ "start_pending" \in IntentState
      /\ "running" \in IntentState /\ "terminal" \in IntentState
  BY DEF IntentState
<1>c. /\ "made" \in Outcome /\ "running" \in Outcome
      /\ "create_failed" \in Terminal /\ "start_failed" \in Terminal
      /\ \A o \in Terminal : o \in Outcome
  BY DEF Outcome, Active, Terminal
<1>d. \A c \in {"inspect", "await", "done", "error", "reinspect", "save_create",
              "create", "save_made", "save_start", "start", "commit_save",
              "commit_file", "commit_store", "exited_publish", "exited_claim",
              "exited_save", "fail_result", "fail_file", "fail_store"} : c \in PCs
  BY DEF PCs
<1>e. FinDecided(fin) /\ label \in [Runs -> Nat] /\ minted \in Nat
  BY DEF TypeInv, TypeOK
<1>1. CASE PublishRunning(p)
  <2>1. th' \in [Threads -> Thread] /\ ThDecided(th')
    BY <1>1, <1>d, GotoType DEF PublishRunning
  <2>2. LifeTypeOK'
    BY <1>0, <1>1 DEF PublishRunning, TypeInv, TypeOK, LifeTypeOK
  <2> QED
    BY <1>1, <1>e, <2>1, <2>2, LaunchStep DEF PublishRunning
<1>2. CASE InspectRunning(p)
  <2>1. th' \in [Threads -> Thread] /\ ThDecided(th')
    BY <1>2, <1>d, GotoType DEF InspectRunning
  <2>2. Arm(r) => wk' \in [Runs -> [Workers -> WorkerState]]
    BY <1>0, ArmType
  <2>3. /\ runs' \in [Runs -> Outcome \cup {"absent"}]
        /\ fin' \in [Runs -> Finalizer] /\ FinDecided(fin')
        /\ wk' \in [Runs -> [Workers -> WorkerState]]
    BY <1>0, <1>2, <1>a, <2>2, ClaimType, ExitOutcomeTerminal DEF InspectRunning
  <2>4. faults' \in 0..MaxFaults
    BY <1>2 DEF InspectRunning
  <2>5. LifeTypeOK'
    BY <1>2, <2>3, <2>4 DEF InspectRunning, TypeInv, TypeOK, LifeTypeOK
  <2> QED
    BY <1>2, <1>e, <2>1, <2>3, <2>5, LaunchStep DEF InspectRunning
<1>3. CASE Await(p)
  <2>1. th' \in [Threads -> Thread] /\ ThDecided(th')
    BY <1>3, <1>d, GotoType DEF Await
  <2>2. LifeTypeOK'
    BY <1>0, <1>3, <1>a, WorkerMoves DEF Await, TypeInv, TypeOK, LifeTypeOK
  <2> QED
    BY <1>3, <1>e, <2>1, <2>2, LaunchStep DEF Await
<1>4. CASE Prepare(p)
  <2> DEFINE pc == IF Created(th[p].st) THEN "reinspect" ELSE "save_create"
             hd == IF ~Created(th[p].st) /\ Mints THEN minted + 1 ELSE 0
             new == [th[p] EXCEPT !.pc = pc, !.hd = hd]
  <2>1. pc \in PCs /\ hd \in Nat
    BY <1>d, <1>e
  <2>2. new \in Thread /\ new.pc = pc
    BY <2>1, <1>0 DEF Thread
  <2>3. th' = [th EXCEPT ![p] = new] \/ Goto(p, "error")
    BY <1>4 DEF Prepare
  <2>4. th' = [th EXCEPT ![p] = new] => th' \in [Threads -> Thread] /\ ThDecided(th')
    BY <2>2 DEF ThDecided
  <2>5. th' \in [Threads -> Thread] /\ ThDecided(th')
    BY <2>3, <2>4, <1>d, GotoType
  <2>6. minted' \in Nat /\ label' = label
    BY <1>4, <1>e DEF Prepare
  <2>7. metaFile' \in [Runs -> Outcome \cup {"absent"}]
    BY <1>0, <1>4 DEF Prepare
  <2>8. faults' \in 0..MaxFaults
    BY <1>4 DEF Prepare
  <2>9. LifeTypeOK'
    BY <1>4, <2>7, <2>8 DEF Prepare, TypeInv, TypeOK, LifeTypeOK
  <2> QED
    BY <1>4, <1>e, <2>5, <2>6, <2>9, LaunchStep DEF Prepare
<1>5. CASE SaveCreatePending(p)
  BY <1>0, <1>5, <1>b, <1>d, SaveStepType DEF SaveCreatePending
<1>6. CASE RuntimeCreate(p)
  <2>1. th' \in [Threads -> Thread] /\ ThDecided(th')
    <3>1. \/ Learn(p, "save_made", "created") \/ Learn(p, "save_made", cont[r])
          \/ Hold(p, "fail_result", th[p].st, "create_failed")
      BY <1>6 DEF RuntimeCreate
    <3>2. "created" \in ContState /\ cont[r] \in ContState
      BY <1>0 DEF TypeInv, TypeOK, LifeTypeOK, ContState
    <3>3. CASE Learn(p, "save_made", "created") \/ Learn(p, "save_made", cont[r])
      BY <3>2, <3>3, <1>d, LearnType
    <3>4. CASE Hold(p, "fail_result", th[p].st, "create_failed")
      BY <3>4, <1>0, <1>c, <1>d, HoldType
    <3> QED
      BY <3>1, <3>3, <3>4
  <2>2. cont' \in [Runs -> ContState]
    BY <1>0, <1>6 DEF RuntimeCreate, TypeInv, TypeOK, LifeTypeOK, ContState
  <2>3. label' \in [Runs -> Nat]
    BY <1>0, <1>6, <1>e DEF RuntimeCreate
  <2>4. faults' \in 0..MaxFaults
    BY <1>6 DEF RuntimeCreate
  <2>5. LifeTypeOK'
    BY <1>6, <2>2, <2>4 DEF RuntimeCreate, TypeInv, TypeOK, LifeTypeOK
  <2> QED
    BY <1>6, <1>e, <2>1, <2>3, <2>5, LaunchStep DEF RuntimeCreate
<1>7. CASE SaveContainerCreated(p)
  BY <1>7, <1>b, <1>c, <1>d, FollowType, SaveStepType DEF SaveContainerCreated
<1>8. CASE Reinspect(p)
  <2>1. cont[r] \in ContState
    BY <1>0 DEF TypeInv, TypeOK, LifeTypeOK
  <2>2. th' \in [Threads -> Thread] /\ ThDecided(th')
    BY <1>8, <1>d, <2>1, GotoType, LearnType, FollowType DEF Reinspect
  <2>3. LifeTypeOK'
    BY <1>8 DEF Reinspect, TypeInv, TypeOK, LifeTypeOK
  <2> QED
    BY <1>8, <1>e, <2>2, <2>3, LaunchStep DEF Reinspect
<1>9. CASE SaveStartPending(p)
  BY <1>0, <1>9, <1>b, <1>d, SaveStepType DEF SaveStartPending
<1>10. CASE RuntimeStart(p)
  <2>1. Exited \cup {"running"} \subseteq ContState
    BY DEF Exited, ContState
  <2>2. th' \in [Threads -> Thread] /\ ThDecided(th')
    <3>1. \/ Goto(p, "commit_save")
          \/ \E c \in Exited \cup {"running"} : Learn(p, Follow(c), c)
          \/ Hold(p, "fail_result", th[p].st, "start_failed")
      BY <1>10 DEF RuntimeStart
    <3> QED
      BY <3>1, <2>1, <1>0, <1>c, <1>d, GotoType, LearnType, HoldType, FollowType
  <2>3. \/ cont' = cont /\ starts' = starts
        \/ \E c \in Exited \cup {"running"} :
              /\ cont' = [cont EXCEPT ![r] = c]
              /\ starts' = [starts EXCEPT ![r] = @ + 1]
    BY <1>10 DEF RuntimeStart
  <2>4. cont' \in [Runs -> ContState]
    BY <1>0, <2>1, <2>3 DEF TypeInv, TypeOK, LifeTypeOK
  <2>5. starts' \in [Runs -> Nat]
    BY <1>0, <2>3 DEF TypeInv, TypeOK, LifeTypeOK
  <2>6. faults' \in 0..MaxFaults
    BY <1>10 DEF RuntimeStart
  <2>7. LifeTypeOK'
    BY <1>10, <2>4, <2>5, <2>6 DEF RuntimeStart, TypeInv, TypeOK, LifeTypeOK
  <2> QED
    BY <1>10, <1>e, <2>2, <2>7, LaunchStep DEF RuntimeStart
<1>11. CASE CommitSave(p)
  BY <1>11, <1>b, <1>c, <1>d, SaveStepType DEF CommitSave
<1>12. CASE CommitFile(p)
  BY <1>12, <1>d, WriteFileStepType DEF CommitFile
<1>13. CASE CommitStore(p)
  <2>1. th' \in [Threads -> Thread] /\ ThDecided(th')
    BY <1>13, <1>d, GotoType DEF CommitStore
  <2>2. wk' \in [Runs -> [Workers -> WorkerState]]
    BY <1>0, <1>13, ArmType DEF CommitStore
  <2>3. /\ istate' \in [Runs -> IntentState]
        /\ iout' \in [Runs -> Outcome \cup {"absent"}]
    BY <1>0, <1>13, <1>b, <1>c, SaveIntentType DEF CommitStore
  <2>4. runs' \in [Runs -> Outcome \cup {"absent"}]
    BY <1>0, <1>13, <1>c DEF CommitStore
  <2>5. faults' \in 0..MaxFaults
    BY <1>13 DEF CommitStore
  <2>6. LifeTypeOK'
    BY <1>13, <2>2, <2>3, <2>4, <2>5 DEF CommitStore, TypeInv, TypeOK, LifeTypeOK
  <2> QED
    BY <1>13, <1>e, <2>1, <2>6, LaunchStep DEF CommitStore
<1>14. CASE ExitedPublish(p)
  <2>1. th' \in [Threads -> Thread] /\ ThDecided(th')
    BY <1>14, <1>d, GotoType DEF ExitedPublish
  <2>2. LifeTypeOK'
    BY <1>0, <1>14, <1>c DEF ExitedPublish, TypeInv, TypeOK, LifeTypeOK
  <2> QED
    BY <1>14, <1>e, <2>1, <2>2, LaunchStep DEF ExitedPublish
<1>15. CASE ExitedClaim(p)
  <2>1. \E o \in Outcome : Hold(p, "exited_save", th[p].st, o)
    BY <1>15, <1>c, ExitOutcomeTerminal DEF ExitedClaim
  <2>2. th' \in [Threads -> Thread] /\ ThDecided(th')
    BY <1>0, <1>d, <2>1, HoldType
  <2>3. /\ runs' \in [Runs -> Outcome \cup {"absent"}]
        /\ fin' \in [Runs -> Finalizer] /\ FinDecided(fin')
        /\ wk' \in [Runs -> [Workers -> WorkerState]]
    BY <1>0, <1>15, <1>a, ClaimType, ExitOutcomeTerminal DEF ExitedClaim
  <2>4. LifeTypeOK'
    BY <1>15, <2>3 DEF ExitedClaim, TypeInv, TypeOK, LifeTypeOK
  <2> QED
    BY <1>15, <1>e, <2>2, <2>3, <2>4, LaunchStep DEF ExitedClaim
<1>16. CASE ExitedSave(p)
  <2>1. th' \in [Threads -> Thread] /\ ThDecided(th')
    BY <1>16, <1>d, GotoType DEF ExitedSave
  <2>2. LookupRun(r) \in Outcome \cup {"absent"}
    BY <1>0 DEF LookupRun
  <2>3. /\ istate' \in [Runs -> IntentState]
        /\ iout' \in [Runs -> Outcome \cup {"absent"}]
    BY <1>0, <1>16, <1>b, <2>2, SaveIntentType DEF ExitedSave
  <2>4. wk' \in [Runs -> [Workers -> WorkerState]]
    BY <1>0, <1>16, <1>a, WorkerMoves DEF ExitedSave
  <2>5. faults' \in 0..MaxFaults
    BY <1>16 DEF ExitedSave
  <2>6. LifeTypeOK'
    BY <1>16, <2>3, <2>4, <2>5 DEF ExitedSave, TypeInv, TypeOK, LifeTypeOK
  <2> QED
    BY <1>16, <1>e, <2>1, <2>6, LaunchStep DEF ExitedSave
<1>17. CASE FailResult(p)
  <2>1. th[p].out \in Terminal
    BY <1>17 DEF FailResult, ThDecided
  <2>2. th' \in [Threads -> Thread] /\ ThDecided(th')
    BY <1>17, <1>d, <2>1, GotoType DEF FailResult
  <2>3. termFile' \in [Runs -> Terminal \cup {"absent"}]
    BY <1>0, <1>17, <2>1 DEF FailResult
  <2>4. faults' \in 0..MaxFaults
    BY <1>17 DEF FailResult
  <2>5. LifeTypeOK'
    BY <1>17, <2>3, <2>4 DEF FailResult, TypeInv, TypeOK, LifeTypeOK
  <2> QED
    BY <1>17, <1>e, <2>2, <2>5, LaunchStep DEF FailResult
<1>18. CASE FailFile(p)
  <2>1. th[p].out \in Terminal
    BY <1>18 DEF FailFile, WriteFileStep, ThDecided
  <2> QED
    BY <1>18, <1>d, <2>1, WriteFileStepType DEF FailFile
<1>19. CASE FailStore(p)
  <2>1. th' \in [Threads -> Thread] /\ ThDecided(th')
    BY <1>19, <1>d, GotoType DEF FailStore
  <2>2. /\ istate' \in [Runs -> IntentState]
        /\ iout' \in [Runs -> Outcome \cup {"absent"}]
    BY <1>0, <1>19, <1>b, SaveIntentType DEF FailStore
  <2>3. runs' \in [Runs -> Outcome \cup {"absent"}]
    BY <1>0, <1>19 DEF FailStore
  <2>4. faults' \in 0..MaxFaults
    BY <1>19 DEF FailStore
  <2>5. LifeTypeOK'
    BY <1>19, <2>2, <2>3, <2>4 DEF FailStore, TypeInv, TypeOK, LifeTypeOK
  <2> QED
    BY <1>19, <1>e, <2>1, <2>5, LaunchStep DEF FailStore
<1> QED
  BY <1>1, <1>2, <1>3, <1>4, <1>5, <1>6, <1>7, <1>8, <1>9, <1>10, <1>11,
     <1>12, <1>13, <1>14, <1>15, <1>16, <1>17, <1>18, <1>19 DEF ResumeStep

LEMMA SnapshotType ==
  ASSUME TypeInv, NEW r \in Runs, NEW k \in Keys, NEW f \in Fps
  PROVE  /\ Snapshot(r, k, f) \in Thread
         /\ Snapshot(r, k, f).pc \notin {"fail_result", "fail_file", "fail_store"}
<1>1. Entry(istate[r], iout[r]) \in {"done", "publish", "prepare"}
  BY DEF Entry
<1>2. Entry(istate[r], iout[r]) \in PCs /\ "none" \in ContState
  BY <1>1 DEF PCs, ContState
<1> QED
  BY <1>1, <1>2, TypeFacts DEF Snapshot, Thread

LEMMA NewThreadType ==
  ASSUME TypeInv, NEW p \in Threads, NEW t \in Thread, th' = [th EXCEPT ![p] = t],
         t.pc \notin {"fail_result", "fail_file", "fail_store"}
  PROVE  th' \in [Threads -> Thread] /\ ThDecided(th')
  BY TypeFacts DEF ThDecided

\* An idle thread that is told its key, request or run.
LEMMA IdleVariants ==
  ASSUME NEW k \in Keys, NEW f \in Fps, NEW r \in Runs
  PROVE  /\ Idle.pc = "idle"
         /\ [Idle EXCEPT !.pc = "create_intent", !.key = k, !.fp = f] \in Thread
         /\ [Idle EXCEPT !.pc = "error", !.key = k] \in Thread
         /\ [Idle EXCEPT !.pc = "prepare", !.key = k, !.fp = f, !.run = r,
                         !.st = "intent_created", !.out = "pending"] \in Thread
<1>1. /\ "create_intent" \in PCs /\ "error" \in PCs /\ "prepare" \in PCs
      /\ "intent_created" \in IntentState /\ "pending" \in Outcome
  BY DEF PCs, IntentState, Outcome, Active
<1> QED
  BY <1>1, IdleType DEF Idle, Thread

\* What Reconcile's goroutine becomes when it comes to a row.
LEMMA BootResumeThread ==
  ASSUME NEW r \in Runs, BootResume(r)
  PROVE  \E x : /\ th' = [th EXCEPT ![Boot] = x]
               /\ \/ x = Snapshot(r, keyOf[r], fpOf[r])
                  \/ x.pc = "error" /\ x.run \in Runs /\ x.hd = 0 /\ x.out = "failed"
<1>1. CASE th' = [th EXCEPT ![Boot] = Snapshot(r, keyOf[r], fpOf[r])]
  BY <1>1
<1>2. CASE th' = [th EXCEPT ![Boot] = [Idle EXCEPT !.pc = "error", !.key = keyOf[r]]]
  <2>1. PICK x : x = [Idle EXCEPT !.pc = "error", !.key = keyOf[r]]
    OBVIOUS
  <2>2. x.pc = "error" /\ x.run \in Runs /\ x.hd = 0 /\ x.out = "failed"
    BY <2>1, NonEmpty DEF Idle
  <2> QED
    BY <1>2, <2>1, <2>2
<1> QED
  BY <1>1, <1>2 DEF BootResume

LEMMA RequestType ==
  ASSUME TypeInv, NEW c \in Callers, NEW k \in Keys, NEW f \in Fps, Request(c, k, f)
  PROVE  TypeInv'
<1> DEFINE fresh == [Idle EXCEPT !.pc = "create_intent", !.key = k, !.fp = f]
           refused == [Idle EXCEPT !.pc = "error", !.key = k]
<1>0. c \in Threads
  BY DEF Threads
<1>1. fresh \in Thread /\ refused \in Thread
  BY IdleVariants, NonEmpty
<1>2. fresh.pc = "create_intent" /\ refused.pc = "error"
  BY DEF Idle
<1>3. \A r \in RowsOf(k) : r \in Runs
  BY DEF RowsOf, Rows
<1>4. \/ th' = [th EXCEPT ![c] = fresh]
      \/ th' = [th EXCEPT ![c] = refused]
      \/ \E r \in Runs : th' = [th EXCEPT ![c] = Snapshot(r, k, f)]
  <2> HIDE DEF fresh, refused
  <2>1. \/ th' = [th EXCEPT ![c] = fresh]
        \/ \E r \in RowsOf(k) :
              th' = [th EXCEPT ![c] = IF /\ SameRequest(r, f)
                                         /\ SameConfig(r) /\ iout[r] # "absent"
                                      THEN Snapshot(r, k, f) ELSE refused]
    BY DEF Request, fresh, refused
  <2> QED
    BY <2>1, <1>3
<1>5. th' \in [Threads -> Thread] /\ ThDecided(th')
  <2> HIDE DEF fresh, refused
  <2>1. CASE th' = [th EXCEPT ![c] = fresh]
    BY <2>1, <1>0, <1>1, <1>2, NewThreadType
  <2>2. CASE th' = [th EXCEPT ![c] = refused]
    BY <2>2, <1>0, <1>1, <1>2, NewThreadType
  <2>3. CASE \E r \in Runs : th' = [th EXCEPT ![c] = Snapshot(r, k, f)]
    BY <2>3, <1>0, SnapshotType, NewThreadType
  <2> QED
    BY <2>1, <2>2, <2>3, <1>4
<1> QED
  BY <1>5, LaunchStep DEF Request, NotLife, lifeVars, TypeInv, TypeOK, LifeTypeOK,
     Decided, FinDecided

LEMMA CreateIntentType ==
  ASSUME TypeInv, NEW c \in Callers, NEW r \in Runs, CreateIntent(c, r)
  PROVE  TypeInv'
<1> DEFINE k == th[c].key
           f == th[c].fp
           launched == [Idle EXCEPT !.pc = "prepare", !.key = k, !.fp = f, !.run = r,
                                    !.st = "intent_created", !.out = "pending"]
<1>0. c \in Threads
  BY DEF Threads
<1>1. k \in Keys /\ f \in Fps
  BY <1>0, ThreadFacts
<1>2. launched \in Thread
  BY <1>1, IdleVariants
<1>3. launched.pc = "prepare"
  BY DEF Idle
<1>4. th' = [th EXCEPT ![c] = launched] \/ Goto(c, "error")
  BY DEF CreateIntent
<1>5. th' \in [Threads -> Thread] /\ ThDecided(th')
  <2> HIDE DEF launched
  <2>1. "error" \in PCs
    BY DEF PCs
  <2> QED
    BY <1>0, <1>2, <1>3, <1>4, <2>1, NewThreadType, GotoType
<1>6. \/ /\ istate' = istate /\ iout' = iout /\ keyOf' = keyOf /\ fpOf' = fpOf
         /\ confOf' = confOf
      \/ /\ istate' = [istate EXCEPT ![r] = "intent_created"]
         /\ iout' = [iout EXCEPT ![r] = "pending"]
         /\ keyOf' = [keyOf EXCEPT ![r] = k]
         /\ fpOf' = [fpOf EXCEPT ![r] = f]
         /\ confOf' = [confOf EXCEPT ![r] = conf]
  BY DEF CreateIntent, intentVars
<1>7. /\ istate' \in [Runs -> IntentState]
      /\ iout' \in [Runs -> Outcome \cup {"absent"}]
      /\ keyOf' \in [Runs -> Keys] /\ fpOf' \in [Runs -> Fps]
  BY <1>1, <1>6 DEF TypeInv, TypeOK, LifeTypeOK, IntentState, Outcome, Active
<1>9. confOf' \in [Runs -> Versions]
  <2>1. confOf \in [Runs -> Versions] /\ conf \in Versions
    BY DEF TypeInv, TypeOK
  <2>2. confOf' = confOf \/ confOf' = [confOf EXCEPT ![r] = conf]
    BY <1>6
  <2> QED
    BY <2>1, <2>2
<1>8. faults' \in 0..MaxFaults
  BY FaultType DEF CreateIntent
<1> QED
  BY <1>5, <1>7, <1>8, <1>9 DEF CreateIntent, TypeInv, TypeOK, LifeTypeOK, Decided,
     ThDecided, docker, procVars

LEMMA AnswerType ==
  ASSUME TypeInv, NEW c \in Callers, Answer(c)
  PROVE  TypeInv'
<1>0. c \in Threads
  BY DEF Threads
<1>1. th' \in [Threads -> Thread] /\ ThDecided(th')
  BY <1>0, IdleType, IdleVariants, NonEmpty, NewThreadType DEF Answer
<1>2. acked' \subseteq [key: Keys, fp: Fps, run: Runs]
  BY <1>0, ThreadFacts DEF Answer, TypeInv, TypeOK
<1> QED
  BY <1>1, <1>2 DEF Answer, TypeInv, TypeOK, LifeTypeOK, Decided, ThDecided,
     lifeVars, procVars, intentVars

LEMMA DieType ==
  ASSUME TypeInv, Die, crashes' \in 0..MaxCrashes
  PROVE  TypeInv'
<1>1. th' \in [Threads -> Thread] /\ ThDecided(th')
  BY IdleType DEF Die, ThDecided, Idle
<1>2. NotFinalizing \in Finalizer /\ NotFinalizing.step = "idle"
  BY DEF NotFinalizing, Finalizer, Steps
<1>3. fin' \in [Runs -> Finalizer] /\ FinDecided(fin')
  BY <1>2 DEF Die, FinDecided
<1>4. wk' \in [Runs -> [Workers -> WorkerState]]
  BY DEF Die, WorkerState
<1>5. LifeTypeOK'
  BY <1>3, <1>4 DEF Die, TypeInv, TypeOK, LifeTypeOK, docker, durable
<1> QED
  BY <1>1, <1>3, <1>5 DEF Die, TypeInv, TypeOK, Decided, ThDecided, FinDecided, intentVars

LEMMA BootType ==
  ASSUME TypeInv, BootStep
  PROVE  TypeInv'
<1> USE TypeFacts
<1>0. Boot \in Threads
  BY DEF Threads
<1>a. "idle" \in PCs /\ "error" \in PCs /\ "scan_await" \in PCs
  BY DEF PCs
<1>b. Idle \in Thread /\ Idle.pc = "idle"
  BY IdleType DEF Idle
<1>c. "resume" \in Workers /\ "off" \in WorkerState
      /\ "persist" \in Steps /\ "update" \in Steps /\ "missing" \in Terminal
  BY DEF Workers, WorkerState, Steps, Terminal
<1>1. CASE Start
  BY <1>1 DEF Start, TypeInv, TypeOK, LifeTypeOK, Decided, lifeVars, intentVars
<1>2. ASSUME NEW r \in Runs, ScanRun(r) PROVE TypeInv'
  <2>1. /\ runs' \in [Runs -> Outcome \cup {"absent"}]
        /\ fin' \in [Runs -> Finalizer] /\ FinDecided(fin')
        /\ wk' \in [Runs -> [Workers -> WorkerState]]
    BY <1>2, <1>c, ClaimType, ExitOutcomeTerminal DEF ScanRun
  <2>2. faults' \in 0..MaxFaults
    BY <1>2, FaultType DEF ScanRun
  <2>3. [th[Boot] EXCEPT !.pc = "scan_await", !.run = r] \in Thread
    BY <1>0, <1>a DEF Thread
  <2>4. [th[Boot] EXCEPT !.pc = "scan_await", !.run = r].pc = "scan_await"
    BY <1>0 DEF Thread
  <2>5. th' \in [Threads -> Thread] /\ ThDecided(th')
    BY <1>0, <1>2, <2>3, <2>4, NewThreadType DEF ScanRun
  <2> QED
    BY <1>2, <2>1, <2>2, <2>5 DEF ScanRun, TypeInv, TypeOK, LifeTypeOK, Decided,
       ThDecided, FinDecided, docker, durable, intentVars, procVars
<1>3. CASE ScanPublish
  <2> DEFINE r == th[Boot].run
             m == LookupRun(r)
  <2>1. r \in Runs /\ m \in Outcome \cup {"absent"}
    BY <1>0, ThreadFacts DEF LookupRun
  <2>2. runs' \in [Runs -> Outcome \cup {"absent"}]
    BY <1>3, <2>1 DEF ScanPublish
  <2>3. wk' \in [Runs -> [Workers -> WorkerState]]
    <3> DEFINE orphan == m = "running" /\ r \notin Nonterminal
               row == [w \in Workers |->
                        IF w = "resume" THEN "off"
                        ELSE IF orphan /\ w \in {"exit", "timeout"} THEN "armed"
                        ELSE wk[r][w]]
    <3>1. wk' = [wk EXCEPT ![r] = row]
      BY <1>3 DEF ScanPublish
    <3>2. wk[r] \in [Workers -> WorkerState]
      BY <2>1
    <3> HIDE DEF orphan, m, r
    <3>3. row \in [Workers -> WorkerState]
      BY <3>2 DEF WorkerState
    <3> QED
      BY <3>1, <3>3
  <2>4. termFile' \in [Runs -> Terminal \cup {"absent"}]
    BY <1>3, <2>1 DEF ScanPublish
  <2>5. th' \in [Threads -> Thread] /\ ThDecided(th')
    BY <1>0, <1>3, <1>a, GotoType DEF ScanPublish
  <2>6. todo' \subseteq Runs
    BY <1>3 DEF ScanPublish, TypeInv, TypeOK
  <2>7. faults' \in 0..MaxFaults
    BY <1>3, FaultType DEF ScanPublish
  <2> QED
    BY <1>3, <2>2, <2>3, <2>4, <2>5, <2>6, <2>7 DEF ScanPublish, TypeInv, TypeOK,
       LifeTypeOK, Decided, ThDecided, docker, intentVars
<1>4. CASE ScanDone
  BY <1>4 DEF ScanDone, Nonterminal, Rows, TypeInv, TypeOK, LifeTypeOK, Decided,
     lifeVars, intentVars
<1>5. ASSUME NEW r \in Runs, BootResume(r) PROVE TypeInv'
  <2>1. keyOf[r] \in Keys /\ fpOf[r] \in Fps
    BY DEF TypeInv, TypeOK
  <2>2. th' \in [Threads -> Thread] /\ ThDecided(th')
    <3> DEFINE refused == [Idle EXCEPT !.pc = "error", !.key = keyOf[r]]
    <3>1. refused \in Thread /\ refused.pc = "error"
      BY <2>1, IdleVariants, NonEmpty DEF Idle
    <3> HIDE DEF refused
    <3>2. \/ th' = [th EXCEPT ![Boot] = Snapshot(r, keyOf[r], fpOf[r])]
          \/ th' = [th EXCEPT ![Boot] = refused]
      BY <1>5 DEF BootResume, refused
    <3> QED
      BY <1>0, <2>1, <3>1, <3>2, SnapshotType, NewThreadType
  <2> QED
    BY <1>5, <2>2 DEF BootResume, TypeInv, TypeOK, LifeTypeOK, Decided, ThDecided,
       lifeVars, intentVars, procVars
<1>6. CASE BootResumed
  <2>1. th' \in [Threads -> Thread] /\ ThDecided(th')
    BY <1>0, <1>6, <1>b, NewThreadType DEF BootResumed
  <2> QED
    BY <1>6, <2>1 DEF BootResumed, TypeInv, TypeOK, LifeTypeOK, Decided, ThDecided,
       lifeVars, intentVars
<1>7. CASE Serve
  BY <1>7 DEF Serve, TypeInv, TypeOK, LifeTypeOK, Decided, lifeVars, intentVars
<1>8. CASE BootFails
  BY <1>8, DieType DEF BootFails, TypeInv, TypeOK
<1> QED
  BY <1>1, <1>2, <1>3, <1>4, <1>5, <1>6, <1>7, <1>8 DEF BootStep

LEMMA NextType == TypeInv /\ [Next]_vars => TypeInv'
<1> SUFFICES ASSUME TypeInv, [Next]_vars PROVE TypeInv'
  OBVIOUS
<1>1. ASSUME NEW r \in Runs, RunStep(r) PROVE TypeInv'
  BY <1>1, RunStepType
<1>2. ASSUME NEW c \in Callers, NEW k \in Keys, NEW f \in Fps, Request(c, k, f)
      PROVE TypeInv'
  BY <1>2, RequestType
<1>3. ASSUME NEW c \in Callers, NEW r \in Runs, CreateIntent(c, r) PROVE TypeInv'
  BY <1>3, CreateIntentType
<1>4. ASSUME NEW c \in Callers, Answer(c) PROVE TypeInv'
  BY <1>4, AnswerType
<1>5. ASSUME NEW p \in Threads, ResumeStep(p) PROVE TypeInv'
  BY <1>5, ResumeType
<1>6. CASE BootStep
  BY <1>6, BootType
<1>7. CASE Crash
  BY <1>7, DieType, MaxCrashesNat DEF Crash, TypeInv, TypeOK
<1>8. CASE UNCHANGED vars
  BY <1>8 DEF vars, lifeVars, launchVars, TypeInv, TypeOK, LifeTypeOK, Decided
<1> QED
  BY <1>1, <1>2, <1>3, <1>4, <1>5, <1>6, <1>7, <1>8 DEF Next

LEMMA TypeInvariant == Spec => []TypeInv
<1>1. Init => TypeInv
  BY InitType
<1>2. TypeInv /\ [Next]_vars => TypeInv'
  BY NextType
<1> QED
  BY <1>1, <1>2, PTL DEF Spec

\* Every state that the sandbox-broker reaches has the shape TypeOK says: in
\* particular no status that is not terminal reaches a terminal result file.
THEOREM TypeCorrect == Spec => []TypeOK
<1>1. TypeInv => TypeOK
  BY DEF TypeInv
<1> QED
  BY <1>1, TypeInvariant, PTL

-----------------------------------------------------------------------------
(* Launching implements LaunchContract.                                    *)

\* Every answer that was given agrees with the row of its run, a key has at
\* most one row, and a launch under way works on the row of its own key and
\* request.
AnswersMatch ==
    \A a \in acked : /\ istate[a.run] # "absent"
                      /\ keyOf[a.run] = a.key /\ fpOf[a.run] = a.fp

OneRowPerKey ==
    \A r, s \in Runs : /\ istate[r] # "absent" /\ istate[s] # "absent"
                        /\ keyOf[r] = keyOf[s]
                        => r = s

Underway(t) == t.pc \notin {"idle", "create_intent", "error"}

LaunchesMatch ==
    \A c \in Callers : Underway(th[c]) =>
        /\ istate[th[c].run] # "absent"
        /\ keyOf[th[c].run] = th[c].key /\ fpOf[th[c].run] = th[c].fp

ContractInv == AnswersMatch /\ OneRowPerKey /\ LaunchesMatch

\* What all steps but CreateIntent do to the rows: none comes, none goes.
RowsKept ==
    /\ keyOf' = keyOf /\ fpOf' = fpOf
    /\ \A r \in Runs : istate'[r] = "absent" <=> istate[r] = "absent"

\* What all steps of a launch but its first and last do to its thread.
ThreadsKept ==
    \A p \in Threads :
        /\ Underway(th'[p]) => Underway(th[p])
        /\ th'[p].key = th[p].key /\ th'[p].fp = th[p].fp /\ th'[p].run = th[p].run

LEMMA KeptIsEnough ==
  ASSUME TypeInv, ContractInv, RowsKept, ThreadsKept, acked' = acked
  PROVE  ContractInv'
<1>1. AnswersMatch'
  BY DEF TypeInv, TypeOK, ContractInv, AnswersMatch, RowsKept
<1>2. OneRowPerKey'
  BY DEF ContractInv, OneRowPerKey, RowsKept
<1>3. LaunchesMatch'
  BY TypeFacts DEF ContractInv, LaunchesMatch, RowsKept, ThreadsKept, Threads, Thread
<1> QED
  BY <1>1, <1>2, <1>3 DEF ContractInv

LEMMA SaveIntentKeepsRows ==
  ASSUME TypeInv, NEW r \in Runs, NEW st, st # "absent", NEW out, SaveIntent(r, st, out)
  PROVE  \A q \in Runs : istate'[q] = "absent" <=> istate[q] = "absent"
  BY TypeFacts DEF SaveIntent

LEMMA RunStepKeepsRows ==
  ASSUME TypeInv, NEW r \in Runs, RunStep(r)
  PROVE  RowsKept /\ th' = th /\ acked' = acked
<1>0. keyOf' = keyOf /\ fpOf' = fpOf /\ th' = th /\ acked' = acked
  BY DEF RunStep, launchVars
<1>1. CASE SaveFinal(r)
  BY <1>0, <1>1, SaveIntentKeepsRows DEF SaveFinal, RowsKept
<1>2. CASE ~SaveFinal(r)
  <2>1. istate' = istate
    BY <1>2 DEF RunStep, Finalize, Watch, Client, WorkerExits, DeadlinePasses,
       MarkTimedOut, StopUpdate, PersistTerminal, PublishInMemory, WriteMetadata,
       WatchExit, WatchTimeout, CleanupDirectory, GetAgentStatus, StopAgent,
       CleanupContainer, GiveUp, durable
  <2> QED
    BY <1>0, <2>1 DEF RowsKept
<1> QED
  BY <1>1, <1>2

LEMMA MoveKeepsThreads ==
  ASSUME TypeInv, NEW p \in Threads, NEW pc, Underway(th[p]),
         \/ Goto(p, pc)
         \/ \E st, out : Hold(p, pc, st, out)
         \/ \E c : Learn(p, pc, c)
         \/ \E hd : th' = [th EXCEPT ![p] = [@ EXCEPT !.pc = pc, !.hd = hd]]
  PROVE  ThreadsKept
<1>0. th \in [Threads -> Thread]
  BY TypeFacts
<1>1. \A q \in Threads : q # p => th'[q] = th[q]
  BY <1>0 DEF Goto, Hold, Learn
<1>2. th'[p].key = th[p].key /\ th'[p].fp = th[p].fp /\ th'[p].run = th[p].run
  <2>1. CASE Goto(p, pc)
    BY <1>0, <2>1 DEF Goto, Thread
  <2>2. CASE \E st, out : Hold(p, pc, st, out)
    BY <1>0, <2>2 DEF Hold, Thread
  <2>3. CASE \E c : Learn(p, pc, c)
    BY <1>0, <2>3 DEF Learn, Thread
  <2>4. CASE \E hd : th' = [th EXCEPT ![p] = [@ EXCEPT !.pc = pc, !.hd = hd]]
    BY <1>0, <2>4 DEF Thread
  <2> QED
    BY <2>1, <2>2, <2>3, <2>4
<1> QED
  BY <1>1, <1>2 DEF ThreadsKept

LEMMA ResumeKeeps ==
  ASSUME TypeInv, NEW p \in Threads, ResumeStep(p)
  PROVE  RowsKept /\ ThreadsKept /\ acked' = acked
<1>0. keyOf' = keyOf /\ fpOf' = fpOf /\ acked' = acked
  BY DEF ResumeStep, PublishRunning, InspectRunning, Await, Prepare,
     SaveCreatePending, RuntimeCreate, SaveContainerCreated, Reinspect,
     SaveStartPending, RuntimeStart, CommitSave, CommitFile, CommitStore,
     ExitedPublish, ExitedClaim, ExitedSave, FailResult, FailFile, FailStore,
     SaveStep, WriteFileStep, NotLife, intentVars
<1>1. Underway(th[p])
  BY DEF ResumeStep, PublishRunning, InspectRunning, Await, Prepare,
     SaveCreatePending, RuntimeCreate, SaveContainerCreated, Reinspect,
     SaveStartPending, RuntimeStart, CommitSave, CommitFile, CommitStore,
     ExitedPublish, ExitedClaim, ExitedSave, FailResult, FailFile, FailStore,
     SaveStep, WriteFileStep, Underway
<1>2. ThreadsKept
  <2>1. CASE Prepare(p)
    BY <1>1, <2>1, MoveKeepsThreads DEF Prepare
  <2>2. CASE ~Prepare(p)
    <3>1. \E pc : \/ Goto(p, pc)
                  \/ \E st, out : Hold(p, pc, st, out)
                  \/ \E c : Learn(p, pc, c)
      BY <2>2 DEF ResumeStep, PublishRunning, InspectRunning, Await,
         SaveCreatePending, RuntimeCreate, SaveContainerCreated, Reinspect,
         SaveStartPending, RuntimeStart, CommitSave, CommitFile, CommitStore,
         ExitedPublish, ExitedClaim, ExitedSave, FailResult, FailFile, FailStore,
         SaveStep, WriteFileStep
    <3> QED
      BY <1>1, <3>1, MoveKeepsThreads
  <2> QED
    BY <2>1, <2>2
<1>3. th[p].run \in Runs
  BY ThreadFacts
<1>4. \/ istate' = istate
      \/ \E st, out : st # "absent" /\ SaveIntent(th[p].run, st, out)
  BY DEF ResumeStep, PublishRunning, InspectRunning, Await, Prepare,
     SaveCreatePending, RuntimeCreate, SaveContainerCreated, Reinspect,
     SaveStartPending, RuntimeStart, CommitSave, CommitFile, CommitStore,
     ExitedPublish, ExitedClaim, ExitedSave, FailResult, FailFile, FailStore,
     SaveStep, WriteFileStep, durable
<1> QED
  BY <1>0, <1>2, <1>3, <1>4, SaveIntentKeepsRows DEF RowsKept

\* Steps that leave the rows and the answers alone and change one thread, which
\* then matches its row if it is a caller's and its launch is under way.
LEMMA ThreadChange ==
  ASSUME TypeInv, ContractInv, RowsKept, acked' = acked,
         NEW p \in Threads, NEW t, th' = [th EXCEPT ![p] = t],
         p \in Callers /\ Underway(t) =>
            /\ istate[t.run] # "absent" /\ t.run \in Runs
            /\ keyOf[t.run] = t.key /\ fpOf[t.run] = t.fp
  PROVE  ContractInv'
<1>1. AnswersMatch'
  BY DEF TypeInv, TypeOK, ContractInv, AnswersMatch, RowsKept
<1>2. OneRowPerKey'
  BY DEF ContractInv, OneRowPerKey, RowsKept
<1>3. th'[p] = t /\ \A q \in Threads : q # p => th'[q] = th[q]
  BY TypeFacts
<1>4. \A q \in Callers : th[q].run \in Runs /\ q \in Threads
  BY ThreadFacts DEF Threads
<1>5. ASSUME NEW q \in Callers, Underway(th'[q])
      PROVE  /\ istate'[th'[q].run] # "absent"
             /\ keyOf'[th'[q].run] = th'[q].key /\ fpOf'[th'[q].run] = th'[q].fp
  <2>1. CASE q = p
    BY <1>3, <1>5, <2>1 DEF RowsKept
  <2>2. CASE q # p
    BY <1>3, <1>4, <1>5, <2>2 DEF RowsKept, ContractInv, LaunchesMatch
  <2> QED
    BY <2>1, <2>2
<1> QED
  BY <1>1, <1>2, <1>5 DEF ContractInv, LaunchesMatch

LEMMA RequestContract ==
  ASSUME TypeInv, ContractInv, NEW c \in Callers, NEW k \in Keys, NEW f \in Fps,
         Request(c, k, f)
  PROVE  ContractInv'
<1> DEFINE fresh == [Idle EXCEPT !.pc = "create_intent", !.key = k, !.fp = f]
           refused == [Idle EXCEPT !.pc = "error", !.key = k]
<1>0. c \in Threads
  BY DEF Threads
<1>1. RowsKept /\ acked' = acked
  BY DEF Request, lifeVars, intentVars, RowsKept
<1>2. ~Underway(fresh) /\ ~Underway(refused)
  BY DEF Idle, Underway
<1> HIDE DEF fresh, refused
<1>3. \/ th' = [th EXCEPT ![c] = fresh]
      \/ \E r \in RowsOf(k) :
            th' = [th EXCEPT ![c] = IF /\ SameRequest(r, f)
                                       /\ SameConfig(r) /\ iout[r] # "absent"
                                    THEN Snapshot(r, k, f) ELSE refused]
  BY DEF Request, fresh, refused
<1>4. CASE th' = [th EXCEPT ![c] = fresh]
  BY <1>0, <1>1, <1>2, <1>4, ThreadChange
<1>5. CASE th' = [th EXCEPT ![c] = refused]
  BY <1>0, <1>1, <1>2, <1>5, ThreadChange
<1>6. ASSUME NEW r \in RowsOf(k), SameRequest(r, f),
             th' = [th EXCEPT ![c] = Snapshot(r, k, f)]
      PROVE  ContractInv'
  <2>1. /\ Snapshot(r, k, f).run = r /\ Snapshot(r, k, f).key = k
        /\ Snapshot(r, k, f).fp = f
    BY DEF Snapshot
  <2>2. r \in Runs /\ istate[r] # "absent" /\ keyOf[r] = k /\ fpOf[r] = f
    BY <1>6 DEF RowsOf, Rows, SameRequest
  <2> QED
    BY <1>0, <1>1, <1>6, <2>1, <2>2, ThreadChange
<1> QED
  BY <1>3, <1>4, <1>5, <1>6

LEMMA CreateIntentContract ==
  ASSUME TypeInv, ContractInv, NEW c \in Callers, NEW r \in Runs, CreateIntent(c, r)
  PROVE  ContractInv'
<1> DEFINE k == th[c].key
           f == th[c].fp
           launched == [Idle EXCEPT !.pc = "prepare", !.key = k, !.fp = f, !.run = r,
                                    !.st = "intent_created", !.out = "pending"]
           inserted == /\ istate[r] = "absent"
                       /\ istate' = [istate EXCEPT ![r] = "intent_created"]
                       /\ keyOf' = [keyOf EXCEPT ![r] = k]
                       /\ fpOf' = [fpOf EXCEPT ![r] = f]
<1>0. c \in Threads /\ th \in [Threads -> Thread] /\ acked' = acked
      /\ istate \in [Runs -> IntentState]
      /\ keyOf \in [Runs -> Keys] /\ fpOf \in [Runs -> Fps]
  BY DEF Threads, CreateIntent, TypeInv, TypeOK, LifeTypeOK
<1>1. /\ launched.pc = "prepare" /\ launched.key = k
      /\ launched.fp = f /\ launched.run = r
  BY DEF Idle
<1>2. \/ th' = [th EXCEPT ![c] = launched] /\ inserted
      \/ Goto(c, "error") /\ inserted
      \/ Goto(c, "error") /\ RowsKept
  BY DEF CreateIntent, intentVars, RowsKept, Fresh
<1> HIDE DEF launched
<1>3. \A q \in Threads : q # c => th'[q] = th[q]
  BY <1>0, <1>2 DEF Goto
<1>4. CASE Goto(c, "error") /\ RowsKept
  <2>1. ~Underway([th[c] EXCEPT !.pc = "error"])
    BY <1>0 DEF Underway, Thread
  <2> QED
    BY <1>0, <1>4, <2>1, ThreadChange DEF Goto
<1>5. CASE inserted
  <2>1. \A q \in Runs : istate[q] # "absent" => keyOf[q] # k
    BY DEF CreateIntent, RowsOf, Rows
  <2>2. /\ istate'[r] = "intent_created" /\ keyOf'[r] = k /\ fpOf'[r] = f
        /\ \A q \in Runs : q # r => /\ istate'[q] = istate[q]
                                    /\ keyOf'[q] = keyOf[q] /\ fpOf'[q] = fpOf[q]
    BY <1>0, <1>5
  <2>3. AnswersMatch'
    <3>1. \A a \in acked : a.run \in Runs /\ a.run # r
      BY <1>5 DEF ContractInv, AnswersMatch, TypeInv, TypeOK
    <3> QED
      BY <1>0, <2>2, <3>1 DEF ContractInv, AnswersMatch
  <2>4. OneRowPerKey'
    BY <2>1, <2>2 DEF ContractInv, OneRowPerKey
  <2>5. Underway(th'[c]) => th'[c].run = r /\ th'[c].key = k /\ th'[c].fp = f
    <3>1. CASE Goto(c, "error")
      BY <1>0, <3>1 DEF Goto, Underway, Thread
    <3>2. CASE th' = [th EXCEPT ![c] = launched]
      BY <1>0, <1>1, <3>2
    <3>3. Goto(c, "error") \/ th' = [th EXCEPT ![c] = launched]
      BY <1>2
    <3> QED
      BY <3>1, <3>2, <3>3
  <2>6. ASSUME NEW q \in Callers, Underway(th'[q])
        PROVE  /\ istate'[th'[q].run] # "absent"
               /\ keyOf'[th'[q].run] = th'[q].key /\ fpOf'[th'[q].run] = th'[q].fp
    <3>1. CASE q = c
      BY <2>2, <2>5, <2>6, <3>1
    <3>2. CASE q # c
      <4>1. th'[q] = th[q] /\ th[q].run \in Runs
        BY <1>3, <3>2, ThreadFacts DEF Threads
      <4>2. th[q].run # r
        BY <1>5, <2>6, <4>1 DEF ContractInv, LaunchesMatch
      <4> QED
        BY <2>2, <2>6, <4>1, <4>2 DEF ContractInv, LaunchesMatch
    <3> QED
      BY <3>1, <3>2
  <2> QED
    BY <2>3, <2>4, <2>6 DEF ContractInv, LaunchesMatch
<1> QED
  BY <1>2, <1>4, <1>5

LEMMA AnswerContract ==
  ASSUME TypeInv, ContractInv, NEW c \in Callers, Answer(c)
  PROVE  ContractInv' /\ [Contract!Next]_acked
<1> DEFINE a == [key |-> th[c].key, fp |-> th[c].fp, run |-> th[c].run]
<1>0. c \in Threads /\ RowsKept /\ th' = [th EXCEPT ![c] = Idle]
  BY DEF Threads, Answer, RowsKept, lifeVars, intentVars
<1>1. ~Underway(Idle)
  BY DEF Idle, Underway
<1>2. CASE th[c].pc = "error"
  <2>1. acked' = acked
    BY <1>2 DEF Answer
  <2> QED
    BY <1>0, <1>1, <2>1, ThreadChange
<1>3. CASE th[c].pc # "error"
  <2>1. acked' = acked \cup {a}
    BY <1>3 DEF Answer
  <2>2. Underway(th[c])
    BY <1>3 DEF Answer, Underway
  <2>3. /\ istate[a.run] # "absent"
        /\ keyOf[a.run] = a.key /\ fpOf[a.run] = a.fp
    BY <2>2 DEF ContractInv, LaunchesMatch
  <2>4. a \in Contract!Answer /\ a.run \in Runs
    BY <1>0, ThreadFacts DEF Contract!Answer
  <2>5. acked \subseteq Contract!Answer
    BY DEF TypeInv, TypeOK, Contract!Answer
  <2> HIDE DEF a
  <2>6. AnswersMatch'
    BY <1>0, <2>1, <2>3, <2>4, <2>5 DEF ContractInv, AnswersMatch, RowsKept, Contract!Answer
  <2>7. OneRowPerKey'
    BY <1>0 DEF ContractInv, OneRowPerKey, RowsKept
  <2>8. LaunchesMatch'
    <3>1. th'[c] = Idle /\ \A q \in Threads : q # c => th'[q] = th[q]
      BY <1>0, TypeFacts
    <3>2. \A q \in Callers : th[q].run \in Runs /\ q \in Threads
      BY ThreadFacts DEF Threads
    <3> QED
      BY <1>0, <1>1, <3>1, <3>2 DEF ContractInv, LaunchesMatch, RowsKept
  <2>9. \A b \in acked : b.key = a.key \/ b.run = a.run => b = a
    <3>1. TAKE b \in acked
    <3>2. HAVE b.key = a.key \/ b.run = a.run
    <3>3. /\ istate[b.run] # "absent" /\ b.run \in Runs
          /\ keyOf[b.run] = b.key /\ fpOf[b.run] = b.fp
      BY <2>5 DEF ContractInv, AnswersMatch, Contract!Answer
    <3>4. b.run = a.run
      BY <2>3, <2>4, <3>2, <3>3 DEF ContractInv, OneRowPerKey
    <3> QED
      BY <2>3, <2>4, <2>5, <3>3, <3>4 DEF Contract!Answer
  <2>10. Contract!Give(a)
    BY <2>1, <2>9 DEF Contract!Give
  <2> QED
    BY <2>4, <2>6, <2>7, <2>8, <2>10 DEF ContractInv, Contract!Next
<1> QED
  BY <1>2, <1>3

LEMMA DieContract ==
  ASSUME TypeInv, ContractInv, Die
  PROVE  ContractInv' /\ acked' = acked
<1>0. RowsKept /\ acked' = acked
  BY DEF Die, RowsKept, durable, intentVars
<1>1. \A p \in Threads : ~Underway(th'[p])
  BY DEF Die, Idle, Underway
<1>2. AnswersMatch'
  BY <1>0 DEF TypeInv, TypeOK, ContractInv, AnswersMatch, RowsKept
<1>3. OneRowPerKey'
  BY <1>0 DEF ContractInv, OneRowPerKey, RowsKept
<1> QED
  BY <1>0, <1>1, <1>2, <1>3 DEF ContractInv, LaunchesMatch, Threads

LEMMA BootContract ==
  ASSUME TypeInv, ContractInv, BootStep
  PROVE  ContractInv' /\ acked' = acked
<1>1. CASE BootFails
  BY <1>1, DieContract DEF BootFails
<1>2. CASE ~BootFails
  <2>1. RowsKept /\ acked' = acked
    BY <1>2 DEF BootStep, Start, ScanRun, ScanPublish, ScanDone, BootResume,
       BootResumed, Serve, RowsKept, lifeVars, intentVars, durable
  <2>2. th' = th \/ \E t : th' = [th EXCEPT ![Boot] = t]
    BY <1>2 DEF BootStep, Start, ScanRun, ScanPublish, ScanDone, BootResume,
       BootResumed, Serve, Goto
  <2>3. Boot \in Threads /\ Boot \notin Callers
    BY BootNotCaller DEF Threads
  <2>4. CASE th' = th
    BY <2>1, <2>4, KeptIsEnough DEF ThreadsKept
  <2>5. CASE \E t : th' = [th EXCEPT ![Boot] = t]
    BY <2>1, <2>3, <2>5, ThreadChange
  <2> QED
    BY <2>1, <2>2, <2>4, <2>5
<1> QED
  BY <1>1, <1>2

LEMMA NextContract ==
  TypeInv /\ ContractInv /\ [Next]_vars => ContractInv' /\ [Contract!Next]_acked
<1> SUFFICES ASSUME TypeInv, ContractInv, [Next]_vars
             PROVE  ContractInv' /\ [Contract!Next]_acked
  OBVIOUS
<1>1. ASSUME NEW r \in Runs, RunStep(r) PROVE ContractInv' /\ acked' = acked
  BY <1>1, RunStepKeepsRows, KeptIsEnough DEF ThreadsKept
<1>2. ASSUME NEW c \in Callers, NEW k \in Keys, NEW f \in Fps, Request(c, k, f)
      PROVE ContractInv' /\ acked' = acked
  BY <1>2, RequestContract DEF Request
<1>3. ASSUME NEW c \in Callers, NEW r \in Runs, CreateIntent(c, r)
      PROVE ContractInv' /\ acked' = acked
  BY <1>3, CreateIntentContract DEF CreateIntent
<1>4. ASSUME NEW c \in Callers, Answer(c)
      PROVE ContractInv' /\ [Contract!Next]_acked
  BY <1>4, AnswerContract
<1>5. ASSUME NEW p \in Threads, ResumeStep(p) PROVE ContractInv' /\ acked' = acked
  BY <1>5, ResumeKeeps, KeptIsEnough
<1>6. CASE BootStep
  BY <1>6, BootContract
<1>7. CASE Crash
  BY <1>7, DieContract DEF Crash
<1>8. CASE UNCHANGED vars
  <2>1. RowsKept /\ ThreadsKept /\ acked' = acked
    BY <1>8 DEF vars, lifeVars, launchVars, RowsKept, ThreadsKept
  <2> QED
    BY <2>1, KeptIsEnough
<1> QED
  BY <1>1, <1>2, <1>3, <1>4, <1>5, <1>6, <1>7, <1>8 DEF Next

LEMMA InitContract == Init => ContractInv /\ Contract!Init
<1> SUFFICES ASSUME Init PROVE ContractInv /\ Contract!Init
  OBVIOUS
<1>1. AnswersMatch /\ OneRowPerKey
  BY DEF Init, LifeInit, AnswersMatch, OneRowPerKey
<1>2. LaunchesMatch
  BY DEF Init, LaunchesMatch, Underway, Idle, Threads
<1> QED
  BY <1>1, <1>2 DEF ContractInv, Init, Contract!Init

\* Launching with an Idempotency-Key implements LaunchContract, however many
\* callers, keys, runs, failing calls and crashes there are: through all of
\* them a key is answered with one run for one request, and two keys never
\* share a run (LaunchProfile, LaunchIntentStore.Create).
THEOREM LaunchKeepsContract == Spec => KeepsContract
<1>1. Init => ContractInv /\ Contract!Init
  BY InitContract
<1>2. TypeInv /\ ContractInv /\ [Next]_vars => ContractInv' /\ [Contract!Next]_acked
  BY NextContract
<1> QED
  BY <1>1, <1>2, TypeInvariant, PTL DEF Spec, KeepsContract, Contract!Spec

-----------------------------------------------------------------------------
(* What a launch knows of its run.                                         *)

Early   == {"intent_created", "create_pending"}
Made    == {"container_created", "start_pending"}
Opening == Early \cup Made
Past    == {"running", "terminal"}

CommitPCs == {"commit_save", "commit_file", "commit_store"}
FailPCs   == {"fail_result", "fail_file", "fail_store"}
ExitedPCs == {"exited_publish", "exited_claim", "exited_save"}
WorkPCs   == PCs \ {"idle", "create_intent", "scan_await", "done", "error"}

\* The worker has been started and runs no more.
Over(r) == starts[r] = 1 /\ cont[r] \notin {"created", "running"}

\* Nobody finalizes the run or can begin to.
Unclaimed(r) ==
    /\ fin[r].by = "none" /\ fin[r].step = "idle" /\ runs[r] # "running"
    /\ phase = "up" => runs[r] = "absent"
    /\ \A w \in Workers : wk[r][w] = "off"

\* The row says how far the launch of the container got, and until it says
\* running only the launch itself touches the run.
RowInv(r) ==
    /\ \/ starts[r] = 0 /\ cont[r] \in {"none", "created"}
       \/ starts[r] = 1 /\ cont[r] # "created"
    /\ istate[r] \in {"absent", "container_created"} \cup Early => starts[r] = 0
    /\ istate[r] \in {"absent"} \cup Opening =>
         metaFile[r] # "running" /\ (Unclaimed(r) \/ Over(r))
    /\ istate[r] = "absent" => metaFile[r] = "absent" /\ runs[r] = "absent"
    /\ istate[r] \in Early => iout[r] = "pending"
    /\ istate[r] \in Made => iout[r] = "made" /\ (starts[r] = 0 => cont[r] = "created")
    /\ istate[r] = "running" => iout[r] = "running" /\ starts[r] = 1
    /\ runs[r] = "running" \/ metaFile[r] = "running" \/ fin[r].step # "idle" => starts[r] = 1

\* What goroutine x knows at its step.
ThreadInv(x) ==
    LET r == x.run IN
    /\ x.pc = "prepare" =>
         \/ x.st \in Early /\ x.out = "pending" /\ istate[r] \in Early
         \/ x.st \in Made /\ x.out = "made" /\ (istate[r] \in Made \/ Over(r))
    /\ x.pc = "save_create" => istate[r] \in Early /\ x.out = "pending"
    /\ x.pc \in {"create", "save_made"} => istate[r] = "create_pending" /\ x.out = "pending"
    /\ x.pc = "save_made" => x.life = "created" /\ cont[r] = "created"
    /\ x.pc = "reinspect" => (istate[r] \in Made \/ Over(r)) /\ x.out = "made"
    /\ x.pc = "save_start" => istate[r] \in Made /\ starts[r] = 0 /\ x.out = "made"
    /\ x.pc = "start" => istate[r] = "start_pending" /\ starts[r] = 0 /\ x.out = "made"
    /\ x.pc = "commit_save" => istate[r] = "start_pending" /\ starts[r] = 1 /\ Unclaimed(r)
    /\ x.pc \in {"commit_file", "commit_store"} =>
         istate[r] = "running" /\ Unclaimed(r) /\ x.out = "running"
    /\ x.pc \in ExitedPCs => Over(r) /\ x.life \in Exited
    /\ x.pc \in FailPCs => istate[r] # "absent"
    /\ x.pc = "publish" => x.out = "running" /\ starts[r] = 1
    /\ x.pc \in {"publish", "inspect", "await", "done"} => istate[r] \in Past

\* One goroutine at a time works on a run.  Reconcile is over before calls are
\* served, and has by then resumed every launch that was under way.
PhaseInv ==
    /\ phase # "up" => \A c \in Callers : th[c].pc = "idle"
    /\ phase = "up" => th[Boot].pc = "idle"
    /\ th[Boot].pc = "scan_await" => phase = "scan"
    /\ th[Boot].pc \notin {"idle", "scan_await", "error"} => phase = "resume"
    /\ phase = "resume" => /\ todo \subseteq Rows
                           /\ \A r \in Runs : istate[r] \in Opening => r \in todo
    /\ \A c, d \in Callers : th[c].pc # "idle" /\ th[d].pc # "idle" /\ th[c].key = th[d].key => c = d

LaunchInv ==
    /\ \A r \in Runs : RowInv(r)
    /\ \A p \in Threads : ThreadInv(th[p])
    /\ PhaseInv

\* Nothing of run r changes.
Same(r) ==
    /\ cont'[r] = cont[r] /\ starts'[r] = starts[r] /\ metaFile'[r] = metaFile[r]
    /\ termFile'[r] = termFile[r] /\ istate'[r] = istate[r] /\ iout'[r] = iout[r]
    /\ runs'[r] = runs[r] /\ fin'[r] = fin[r] /\ wk'[r] = wk[r]

LEMMA SameRow ==
  ASSUME NEW r \in Runs, Same(r), phase' = phase, RowInv(r) PROVE RowInv(r)'
  BY DEF Same, RowInv, Over, Unclaimed

LEMMA SameThread ==
  ASSUME NEW x, x.run \in Runs, Same(x.run), phase' = phase, ThreadInv(x) PROVE ThreadInv(x)'
  BY DEF Same, ThreadInv, Over, Unclaimed

LEMMA LifeFacts ==
  TypeInv => /\ cont \in [Runs -> ContState] /\ starts \in [Runs -> Nat]
             /\ metaFile \in [Runs -> Outcome \cup {"absent"}]
             /\ termFile \in [Runs -> Terminal \cup {"absent"}]
             /\ istate \in [Runs -> IntentState] /\ iout \in [Runs -> Outcome \cup {"absent"}]
             /\ runs \in [Runs -> Outcome \cup {"absent"}] /\ fin \in [Runs -> Finalizer]
             /\ wk \in [Runs -> [Workers -> WorkerState]]
             /\ th \in [Threads -> Thread] /\ Boot \in Threads
  BY DEF TypeInv, TypeOK, LifeTypeOK, Threads

LEMMA ClaimElsewhere ==
  ASSUME TypeInv, NEW r \in Runs, NEW w, NEW step, NEW next, Claim(r, w, step, next)
  PROVE  \A q \in Runs : q # r => runs'[q] = runs[q] /\ fin'[q] = fin[q] /\ wk'[q] = wk[q]
  BY LifeFacts DEF Claim

LEMMA ReleaseElsewhere ==
  ASSUME TypeInv, NEW r \in Runs, NEW result, Release(r, result)
  PROVE  \A q \in Runs : q # r => fin'[q] = fin[q] /\ wk'[q] = wk[q]
  BY LifeFacts DEF Release

LEMMA SaveElsewhere ==
  ASSUME TypeInv, NEW r \in Runs, NEW st, NEW out, SaveIntent(r, st, out)
  PROVE  \A q \in Runs : q # r => istate'[q] = istate[q] /\ iout'[q] = iout[q]
  BY LifeFacts DEF SaveIntent

LEMMA RunElsewhere ==
  ASSUME TypeInv, NEW r \in Runs, RunStep(r)
  PROVE  \A q \in Runs : q # r => Same(q)
<1> SUFFICES ASSUME NEW q \in Runs, q # r PROVE Same(q)
  OBVIOUS
<1> USE LifeFacts, ClaimElsewhere, ReleaseElsewhere, SaveElsewhere DEF Same, durable, docker
<1>1. CASE WorkerExits(r) \/ DeadlinePasses(r)
  BY <1>1 DEF WorkerExits, DeadlinePasses
<1>2. CASE MarkTimedOut(r)
  BY <1>2 DEF MarkTimedOut, Decide, MaybeStopped
<1>3. CASE StopUpdate(r)
  BY <1>3 DEF StopUpdate, Decide, MaybeStopped
<1>4. CASE PersistTerminal(r)
  BY <1>4 DEF PersistTerminal, Advance
<1>5. CASE PublishInMemory(r)
  BY <1>5 DEF PublishInMemory, Advance
<1>6. CASE WriteMetadata(r)
  BY <1>6 DEF WriteMetadata, Advance
<1>7. CASE SaveFinal(r)
  BY <1>7 DEF SaveFinal
<1>8. CASE WatchExit(r)
  BY <1>8 DEF WatchExit
<1>9. CASE WatchTimeout(r) \/ CleanupDirectory(r)
  BY <1>9 DEF WatchTimeout, CleanupDirectory
<1>10. CASE GetAgentStatus(r) \/ StopAgent(r)
  BY <1>10 DEF GetAgentStatus, StopAgent
<1>11. CASE CleanupContainer(r) \/ GiveUp(r)
  BY <1>11 DEF CleanupContainer, GiveUp
<1> QED
  BY <1>1, <1>2, <1>3, <1>4, <1>5, <1>6, <1>7, <1>8, <1>9, <1>10, <1>11
  DEF RunStep, Finalize, Watch, Client

\* Beside the launch nothing happens to an unclaimed run but its worker's exit.
LEMMA UnclaimedStep ==
  ASSUME TypeInv, NEW r \in Runs, Unclaimed(r), RunStep(r)
  PROVE  /\ starts'[r] = starts[r] /\ metaFile'[r] = metaFile[r] /\ termFile'[r] = termFile[r]
         /\ istate'[r] = istate[r] /\ iout'[r] = iout[r]
         /\ runs'[r] = runs[r] /\ fin'[r] = fin[r] /\ wk'[r] = wk[r] /\ phase' = phase
         /\ cont'[r] = cont[r] \/ (cont[r] = "running" /\ cont'[r] \in Exited)
<1>1. \A w \in Workers : wk[r][w] = "off"
  BY DEF Unclaimed
<1>2. /\ wk[r]["exit"] = "off" /\ wk[r]["timeout"] = "off" /\ wk[r]["poll"] = "off"
      /\ wk[r]["stop"] = "off" /\ wk[r]["cleanup"] = "off" /\ wk[r]["resume"] = "off"
  BY <1>1 DEF Workers
<1>3. ~Finalize(r)
  BY DEF Unclaimed, Finalize, MarkTimedOut, StopUpdate, PersistTerminal, PublishInMemory,
         WriteMetadata, SaveFinal
<1>4. ~Watch(r)
  BY <1>2 DEF Watch, WatchExit, WatchTimeout, CleanupDirectory
<1>5. ~(phase = "up" /\ Client(r))
  BY <1>2 DEF Unclaimed, Client, GetAgentStatus, StopAgent, CleanupContainer, ClientCall, GiveUp
<1>6. (WorkerExits(r) \/ DeadlinePasses(r)) /\ phase' = phase
  BY <1>3, <1>4, <1>5 DEF RunStep, launchVars
<1> QED
  BY <1>6, LifeFacts DEF WorkerExits, DeadlinePasses, durable, docker

\* What a call, a watcher or a finalization does to its run.
LEMMA ClaimedStep ==
  ASSUME TypeInv, NEW r \in Runs, RunStep(r)
  PROVE  /\ starts'[r] = starts[r] /\ phase' = phase
         /\ \/ cont'[r] = cont[r]
            \/ cont[r] = "running" /\ cont'[r] \in Exited
            \/ cont'[r] = "none"
         /\ \/ istate'[r] = istate[r] /\ iout'[r] = iout[r]
            \/ /\ fin[r].step = "store"
               /\ istate'[r] = IF istate[r] = "absent" THEN "absent" ELSE "terminal"
         /\ metaFile'[r] = "running" => metaFile[r] = "running"
         /\ runs'[r] = "running" => runs[r] = "running" \/ metaFile[r] = "running"
         /\ fin'[r].step # "idle" =>
              fin[r].step # "idle" \/ runs[r] = "running" \/ metaFile[r] = "running"
<1>0. phase' = phase
  BY DEF RunStep, launchVars
<1>1. fin \in [Runs -> Finalizer] /\ FinDecided(fin) /\ NotFinalizing.step = "idle"
  BY TypeFacts DEF NotFinalizing
<1>2. fin[r].step \in {"persist", "memory", "file", "store"} => fin[r].next # "running"
  BY <1>1 DEF FinDecided, Terminal
<1>3. ASSUME NEW w, NEW step, NEW next, Claim(r, w, step, next)
      PROVE  /\ runs'[r] = "running" => runs[r] = "running" \/ metaFile[r] = "running"
             /\ fin'[r].step # "idle" =>
                  fin[r].step # "idle" \/ runs[r] = "running" \/ metaFile[r] = "running"
  BY <1>3, LifeFacts DEF Claim, LookupRun
<1>4. ASSUME NEW result, Release(r, result) PROVE fin'[r].step = "idle"
  BY <1>4, <1>1 DEF Release
<1> USE <1>0, <1>1, <1>2, <1>3, <1>4, LifeFacts DEF durable, docker
<1>5. CASE WorkerExits(r) \/ DeadlinePasses(r)
  BY <1>5 DEF WorkerExits, DeadlinePasses
<1>6. CASE MarkTimedOut(r)
  BY <1>6 DEF MarkTimedOut, Decide, MaybeStopped
<1>7. CASE StopUpdate(r)
  BY <1>7 DEF StopUpdate, Decide, MaybeStopped
<1>8. CASE PersistTerminal(r)
  BY <1>8 DEF PersistTerminal, Advance
<1>9. CASE PublishInMemory(r)
  BY <1>9 DEF PublishInMemory, Advance
<1>10. CASE WriteMetadata(r)
  BY <1>10 DEF WriteMetadata, Advance
<1>11. CASE SaveFinal(r)
  BY <1>11 DEF SaveFinal, SaveIntent
<1>12. CASE WatchExit(r)
  BY <1>12 DEF WatchExit
<1>13. CASE WatchTimeout(r)
  BY <1>13 DEF WatchTimeout
<1>14. CASE CleanupDirectory(r)
  BY <1>14 DEF CleanupDirectory
<1>15. CASE GetAgentStatus(r) \/ StopAgent(r)
  BY <1>15 DEF GetAgentStatus, StopAgent
<1>16. CASE CleanupContainer(r) \/ GiveUp(r)
  BY <1>16 DEF CleanupContainer, GiveUp
<1> QED
  BY <1>5, <1>6, <1>7, <1>8, <1>9, <1>10, <1>11, <1>12, <1>13, <1>14, <1>15, <1>16
  DEF RunStep, Finalize, Watch, Client

\* Nothing that happens beside the launches contradicts what they know.
LEMMA RunRow ==
  ASSUME TypeInv, NEW r \in Runs, RowInv(r), RunStep(r)
  PROVE  /\ RowInv(r)'
         /\ \A x : x.run = r /\ ThreadInv(x) => ThreadInv(x)'
         /\ istate[r] = "terminal" => istate'[r] = "terminal"
         /\ istate'[r] \in Opening => istate[r] \in Opening
         /\ istate'[r] = "absent" <=> istate[r] = "absent"
<1>1. CASE Unclaimed(r)
  <2>1. Unclaimed(r)' /\ (Over(r) => Over(r)')
    BY <1>1, UnclaimedStep DEF Unclaimed, Over, Exited
  <2>2. RowInv(r)'
    BY <1>1, <2>1, UnclaimedStep DEF RowInv, Exited
  <2>3. ASSUME NEW x, x.run = r, ThreadInv(x) PROVE ThreadInv(x)'
    BY <1>1, <2>1, <2>3, UnclaimedStep DEF ThreadInv
  <2> QED
    BY <1>1, <2>2, <2>3, UnclaimedStep
<1>2. CASE ~Unclaimed(r)
  <2>1. istate[r] \in Past \/ (Over(r) /\ istate[r] \notin {"absent", "container_created"} \cup Early)
    BY <1>2, LifeFacts DEF RowInv, Past, Opening, Early, Made, IntentState, Over
  <2>2. Over(r) => Over(r)'
    BY ClaimedStep DEF Over, Exited
  <2>3. RowInv(r)'
    BY <2>1, <2>2, ClaimedStep DEF RowInv, Past, Opening, Early, Made, Over, Exited
  <2>4. ASSUME NEW x, x.run = r, ThreadInv(x) PROVE ThreadInv(x)'
    <3>1. x.pc \notin {"save_create", "create", "save_made", "save_start", "start"} \cup CommitPCs
      BY <1>2, <2>1, <2>4 DEF ThreadInv, Past, Early, Made, Over, CommitPCs, RowInv
    <3>2. istate[r] \in Past => istate'[r] \in Past
      BY ClaimedStep DEF Past
    <3>3. istate[r] # "absent" => istate'[r] # "absent"
      BY ClaimedStep
    <3>4. /\ x.pc \in {"prepare", "reinspect"} => Over(r) /\ x.out = "made"
          /\ x.pc = "prepare" => x.st \in Made
      BY <2>1, <2>4 DEF ThreadInv, Past, Early, Made
    <3> QED
      BY <2>2, <2>4, <3>1, <3>2, <3>3, <3>4, ClaimedStep DEF ThreadInv, CommitPCs
  <2> QED
    <3>1. /\ istate[r] = "terminal" => istate'[r] = "terminal"
          /\ istate'[r] \in Opening => istate[r] \in Opening
          /\ istate'[r] = "absent" <=> istate[r] = "absent"
      BY ClaimedStep DEF Opening, Early, Made
    <3> QED
      BY <2>3, <2>4, <3>1
<1> QED
  BY <1>1, <1>2

\* No row is reopened.
Closed == \A r \in Runs : istate[r] = "terminal" => istate'[r] = "terminal"

\* How the state of a row goes on.
Forward(r) ==
    /\ istate[r] = "terminal" => istate'[r] = "terminal"
    /\ istate[r] \in Past => istate'[r] \in Past
    /\ istate'[r] \in Opening => istate[r] \in Opening
    /\ istate'[r] = "absent" <=> istate[r] = "absent"

LEMMA SameForward == ASSUME NEW r, Same(r) PROVE Forward(r)
  BY DEF Same, Forward

LEMMA RunLaunch ==
  ASSUME TypeInv, LaunchInv, NEW r \in Runs, RunStep(r)
  PROVE  LaunchInv' /\ Closed
<1>1. th' = th /\ phase' = phase /\ todo' = todo
  BY DEF RunStep, launchVars
<1>2. \A q \in Runs : RowInv(q)'
  <2> TAKE q \in Runs
  <2>1. CASE q = r
    BY <2>1, RunRow DEF LaunchInv
  <2>2. CASE q # r
    BY <1>1, <2>2, RunElsewhere, SameRow DEF LaunchInv
  <2> QED
    BY <2>1, <2>2
<1>3. ASSUME NEW p \in Threads PROVE ThreadInv(th[p])'
  <2>1. PICK x : x = th[p]
    OBVIOUS
  <2>2. x.run \in Runs /\ ThreadInv(x) /\ th'[p] = x
    BY <1>1, <2>1, ThreadFacts DEF LaunchInv
  <2>3. ThreadInv(x)'
    <3>1. CASE x.run = r
      BY <2>2, <3>1, RunRow DEF LaunchInv
    <3>2. CASE x.run # r
      BY <1>1, <2>2, <3>2, RunElsewhere, SameThread
    <3> QED
      BY <3>1, <3>2
  <2> QED
    BY <2>2, <2>3
<1>4. ASSUME NEW q \in Runs
      PROVE  /\ istate[q] = "terminal" => istate'[q] = "terminal"
             /\ istate'[q] \in Opening => istate[q] \in Opening
             /\ istate'[q] = "absent" <=> istate[q] = "absent"
  <2>1. CASE q = r
    BY <2>1, RunRow DEF LaunchInv
  <2>2. CASE q # r
    BY <2>2, RunElsewhere DEF Same
  <2> QED
    BY <2>1, <2>2
<1>5. PhaseInv'
  BY <1>1, <1>4 DEF LaunchInv, PhaseInv, Rows
<1> QED
  BY <1>2, <1>3, <1>4, <1>5 DEF LaunchInv, Closed

\* The goroutines that work on one run are one.
LEMMA Alone ==
  ASSUME TypeInv, ContractInv, LaunchInv, NEW p \in Threads, NEW q \in Threads, p # q,
         th[p].pc \in WorkPCs, th[q].pc \in WorkPCs
  PROVE  th[p].run # th[q].run
<1>1. th[p].pc # "idle" /\ th[q].pc # "idle" /\ Underway(th[p]) /\ Underway(th[q])
  BY DEF WorkPCs, Underway
<1>2. p \in Callers /\ q \in Callers
  BY <1>1 DEF LaunchInv, PhaseInv, Threads
<1>3. th[p].key # th[q].key
  BY <1>1, <1>2 DEF LaunchInv, PhaseInv
<1> QED
  BY <1>1, <1>2, <1>3 DEF ContractInv, LaunchesMatch

\* A step of a goroutine keeps the invariant if it does for its own run.
LEMMA ResumeFrame ==
  ASSUME TypeInv, ContractInv, LaunchInv, NEW p \in Threads, NEW r \in Runs, r = th[p].run,
         th[p].pc \in WorkPCs, NEW x, x.run = r, x.key = th[p].key,
         x.pc \in WorkPCs \cup {"done", "error"}, th' = [th EXCEPT ![p] = x],
         phase' = phase, todo' = todo, \A q \in Runs : q # r => Same(q),
         RowInv(r)', ThreadInv(x)', Forward(r)
  PROVE  LaunchInv' /\ Closed
<1>0. th'[p] = x /\ \A q \in Threads : q # p => th'[q] = th[q]
  BY LifeFacts
<1>1. \A q \in Runs : RowInv(q)'
  BY SameRow DEF LaunchInv
<1>2. \A q \in Runs : Forward(q)
  BY SameForward
<1>3. ASSUME NEW q \in Threads PROVE ThreadInv(th[q])'
  <2>1. CASE q = p
    BY <1>0, <2>1
  <2>2. CASE q # p
    <3>1. PICK y : y = th[q]
      OBVIOUS
    <3>2. y.run \in Runs /\ ThreadInv(y) /\ th'[q] = y
      BY <1>0, <2>2, <3>1, ThreadFacts DEF LaunchInv
    <3>3. ThreadInv(y)'
      <4>1. CASE y.run # r
        BY <3>2, <4>1, SameThread
      <4>2. CASE y.run = r
        <5>1. y.pc \in PCs \ WorkPCs
          BY <2>2, <3>1, <4>2, Alone, LifeFacts DEF Thread
        <5>2. y.pc \in {"idle", "create_intent", "scan_await", "done", "error"}
          BY <5>1 DEF WorkPCs
        <5>3. y.pc = "done" => istate'[r] \in Past
          BY <3>2, <4>2 DEF ThreadInv, Forward
        <5> QED
          BY <4>2, <5>2, <5>3 DEF ThreadInv, ExitedPCs, FailPCs
      <4> QED
        BY <4>1, <4>2
    <3> QED
      BY <3>2, <3>3
  <2> QED
    BY <2>1, <2>2
<1>4. PhaseInv'
  <2>1. th[p].pc # "idle" /\ th[p].pc \notin {"scan_await", "error"}
    BY DEF WorkPCs
  <2>2. x.pc # "idle" /\ x.pc # "scan_await"
    BY DEF WorkPCs
  <2>3. Boot \notin Callers /\ Boot \in Threads /\ \A c \in Callers : c \in Threads
    BY BootNotCaller DEF Threads
  <2>4. /\ phase' # "up" => \A c \in Callers : th'[c].pc = "idle"
        /\ phase' = "up" => th'[Boot].pc = "idle"
        /\ th'[Boot].pc = "scan_await" => phase' = "scan"
        /\ th'[Boot].pc \notin {"idle", "scan_await", "error"} => phase' = "resume"
    BY <1>0, <2>1, <2>2, <2>3 DEF LaunchInv, PhaseInv
  <2>5. \A c, d \in Callers : th'[c].pc # "idle" /\ th'[d].pc # "idle" /\ th'[c].key = th'[d].key => c = d
    BY <1>0, <2>1, <2>2, <2>3 DEF LaunchInv, PhaseInv
  <2>6. phase' = "resume" => /\ todo' \subseteq Rows'
                             /\ \A q \in Runs : istate'[q] \in Opening => q \in todo'
    BY <1>2 DEF LaunchInv, PhaseInv, Rows, Forward
  <2> QED
    BY <2>4, <2>5, <2>6 DEF PhaseInv
<1> QED
  BY <1>1, <1>2, <1>3, <1>4 DEF LaunchInv, Closed, Forward

\* The copy of the intent after a step.
LEMMA GotoThread ==
  ASSUME TypeInv, NEW p \in Threads, NEW pc \in PCs, Goto(p, pc)
  PROVE  \E x \in Thread : /\ th' = [th EXCEPT ![p] = x] /\ x.pc = pc
                           /\ x.run = th[p].run /\ x.key = th[p].key /\ x.st = th[p].st
                           /\ x.out = th[p].out /\ x.life = th[p].life /\ x.hd = th[p].hd
<1> DEFINE y == [th[p] EXCEPT !.pc = pc]
<1>1. /\ y \in Thread /\ y.pc = pc /\ y.run = th[p].run /\ y.key = th[p].key
      /\ y.st = th[p].st /\ y.out = th[p].out /\ y.life = th[p].life /\ y.hd = th[p].hd
  BY LifeFacts DEF Thread
<1>2. th' = [th EXCEPT ![p] = y]
  BY DEF Goto
<1> HIDE DEF y
<1> QED
  BY <1>1, <1>2

LEMMA HoldThread ==
  ASSUME TypeInv, NEW p \in Threads, NEW pc \in PCs, NEW st \in IntentState,
         NEW out \in Outcome \cup {"absent"}, Hold(p, pc, st, out)
  PROVE  \E x \in Thread : /\ th' = [th EXCEPT ![p] = x] /\ x.pc = pc
                           /\ x.run = th[p].run /\ x.key = th[p].key /\ x.st = st
                           /\ x.out = out /\ x.life = th[p].life /\ x.hd = th[p].hd
<1> DEFINE y == [th[p] EXCEPT !.pc = pc, !.st = st, !.out = out]
<1>1. /\ y \in Thread /\ y.pc = pc /\ y.run = th[p].run /\ y.key = th[p].key
      /\ y.st = st /\ y.out = out /\ y.life = th[p].life /\ y.hd = th[p].hd
  BY LifeFacts DEF Thread
<1>2. th' = [th EXCEPT ![p] = y]
  BY DEF Hold
<1> HIDE DEF y
<1> QED
  BY <1>1, <1>2

LEMMA LearnThread ==
  ASSUME TypeInv, NEW p \in Threads, NEW pc \in PCs, NEW c \in ContState, Learn(p, pc, c)
  PROVE  \E x \in Thread : /\ th' = [th EXCEPT ![p] = x] /\ x.pc = pc
                           /\ x.run = th[p].run /\ x.key = th[p].key /\ x.st = th[p].st
                           /\ x.out = th[p].out /\ x.life = c /\ x.hd = th[p].hd
<1> DEFINE y == [th[p] EXCEPT !.pc = pc, !.life = c]
<1>1. /\ y \in Thread /\ y.pc = pc /\ y.run = th[p].run /\ y.key = th[p].key
      /\ y.st = th[p].st /\ y.out = th[p].out /\ y.life = c /\ y.hd = th[p].hd
  BY LifeFacts DEF Thread
<1>2. th' = [th EXCEPT ![p] = y]
  BY DEF Learn
<1> HIDE DEF y
<1> QED
  BY <1>1, <1>2

-----------------------------------------------------------------------------
(* The steps of resumeLaunchIntent.                                        *)

LEMMA ResumeElsewhere ==
  ASSUME TypeInv, NEW p \in Threads, ResumeStep(p)
  PROVE  /\ th[p].pc \in WorkPCs /\ phase' = phase /\ todo' = todo
         /\ \A q \in Runs : q # th[p].run => Same(q)
<1>0. PICK r \in Runs : r = th[p].run
  BY ThreadFacts
<1> SUFFICES ASSUME NEW q \in Runs
             PROVE  /\ th[p].pc \in WorkPCs /\ phase' = phase /\ todo' = todo
                    /\ q # r => Same(q)
  BY <1>0
<1> USE <1>0, LifeFacts, ClaimElsewhere, SaveElsewhere DEF Same, durable, docker, NotLife, procVars,
        WorkPCs, PCs
<1>1. CASE PublishRunning(p) \/ InspectRunning(p) \/ Await(p)
  BY <1>1 DEF PublishRunning, InspectRunning, Await, Arm
<1>2. CASE Prepare(p) \/ Reinspect(p)
  BY <1>2 DEF Prepare, Reinspect
<1>3. CASE RuntimeCreate(p) \/ RuntimeStart(p)
  BY <1>3 DEF RuntimeCreate, RuntimeStart
<1>4. CASE \/ SaveCreatePending(p) \/ SaveContainerCreated(p) \/ SaveStartPending(p)
           \/ CommitSave(p)
  BY <1>4 DEF SaveCreatePending, SaveContainerCreated, SaveStartPending, CommitSave, SaveStep
<1>5. CASE CommitFile(p) \/ FailFile(p)
  BY <1>5 DEF CommitFile, FailFile, WriteFileStep
<1>6. CASE CommitStore(p) \/ FailStore(p)
  BY <1>6 DEF CommitStore, FailStore, Arm
<1>7. CASE ExitedPublish(p) \/ FailResult(p)
  BY <1>7 DEF ExitedPublish, FailResult
<1>8. CASE ExitedClaim(p) \/ ExitedSave(p)
  BY <1>8 DEF ExitedClaim, ExitedSave
<1> QED
  BY <1>1, <1>2, <1>3, <1>4, <1>5, <1>6, <1>7, <1>8 DEF ResumeStep

\* A goroutine goes on, and what it and the row of its run say holds.
Sound(p, r) ==
    \E x : /\ th' = [th EXCEPT ![p] = x] /\ x.run = r /\ x.key = th[p].key
           /\ x.pc \in WorkPCs \cup {"done", "error"}
           /\ RowInv(r)' /\ ThreadInv(x)' /\ Forward(r)

\* It gives up: the row has still to be right.
LEMMA ErrorSound ==
  ASSUME TypeInv, NEW p \in Threads, NEW r, r = th[p].run, Goto(p, "error"), RowInv(r)', Forward(r)
  PROVE  Sound(p, r)
<1>1. "error" \in PCs
  BY DEF PCs
<1>2. PICK x \in Thread : /\ th' = [th EXCEPT ![p] = x] /\ x.pc = "error"
                          /\ x.run = th[p].run /\ x.key = th[p].key
  BY <1>1, GotoThread
<1>3. ThreadInv(x)'
  BY <1>2 DEF ThreadInv, ExitedPCs, FailPCs
<1> QED
  BY <1>2, <1>3 DEF Sound

\* A claim is made only on a run that memory or metadata.json calls running.
LEMMA ClaimEffect ==
  ASSUME TypeInv, NEW r \in Runs, NEW w, NEW step, NEW next, Claim(r, w, step, next)
  PROVE  /\ runs'[r] = "running" => runs[r] = "running" \/ metaFile[r] = "running"
         /\ fin'[r].step # "idle" =>
              fin[r].step # "idle" \/ runs[r] = "running" \/ metaFile[r] = "running"
  BY LifeFacts DEF Claim, LookupRun

LEMMA SaveEffect ==
  ASSUME TypeInv, NEW r \in Runs, NEW st, NEW out, SaveIntent(r, st, out), istate[r] # "absent"
  PROVE  istate'[r] = st /\ iout'[r] = out
  BY LifeFacts DEF SaveIntent

\* For a run whose row is running or terminal only this matters.
LEMMA PastRow ==
  ASSUME NEW r \in Runs, RowInv(r), istate[r] \in Past, istate' = istate, iout' = iout,
         cont' = cont, starts' = starts,
         runs'[r] = "running" \/ metaFile'[r] = "running" \/ fin'[r].step # "idle" =>
            starts[r] = 1
  PROVE  RowInv(r)' /\ Forward(r)
  BY DEF RowInv, Past, Forward, Opening, Early, Made

LEMMA RunningSound ==
  ASSUME TypeInv, NEW p \in Threads, NEW r \in Runs, r = th[p].run, RowInv(r), ThreadInv(th[p]),
         PublishRunning(p) \/ InspectRunning(p) \/ Await(p)
  PROVE  Sound(p, r)
<1>0. /\ "inspect" \in PCs /\ "await" \in PCs /\ "done" \in PCs /\ "error" \in PCs
      /\ "inspect" \in WorkPCs /\ "await" \in WorkPCs
  BY DEF PCs, WorkPCs
<1>1. istate[r] \in Past /\ (th[p].pc = "publish" => th[p].out = "running" /\ starts[r] = 1)
  BY DEF ThreadInv, PublishRunning, InspectRunning, Await
<1>2. RowInv(r)' /\ Forward(r)
  <2>1. istate' = istate /\ iout' = iout /\ cont' = cont /\ starts' = starts /\ metaFile' = metaFile
    BY DEF PublishRunning, InspectRunning, Await, durable, docker
  <2>2. \/ fin' = fin /\ runs' = runs
        \/ fin' = fin /\ starts[r] = 1
        \/ Claim(r, "resume", "persist", ExitOutcome(cont[r]))
    <3>1. CASE PublishRunning(p)
      BY <1>1, <3>1 DEF PublishRunning
    <3>2. CASE InspectRunning(p)
      BY <3>2 DEF InspectRunning
    <3>3. CASE Await(p)
      BY <3>3 DEF Await
    <3> QED
      BY <3>1, <3>2, <3>3
  <2>3. runs'[r] = "running" \/ metaFile'[r] = "running" \/ fin'[r].step # "idle" => starts[r] = 1
    BY <2>1, <2>2, ClaimEffect DEF RowInv
  <2> QED
    BY <1>1, <2>1, <2>3, PastRow
<1>3. PICK pc \in {"inspect", "await", "done", "error"} : Goto(p, pc)
  BY DEF PublishRunning, InspectRunning, Await
<1>4. PICK x \in Thread : /\ th' = [th EXCEPT ![p] = x] /\ x.pc = pc
                          /\ x.run = th[p].run /\ x.key = th[p].key
  BY <1>0, <1>3, GotoThread
<1>5. ThreadInv(x)'
  BY <1>1, <1>2, <1>3, <1>4 DEF ThreadInv, Forward, ExitedPCs, FailPCs
<1> QED
  BY <1>0, <1>2, <1>4, <1>5 DEF Sound

\* Unless it is over or past, nothing of a run changes but its metadata file.
LEMMA FileRow ==
  ASSUME NEW r \in Runs, RowInv(r), istate[r] # "absent",
         UNCHANGED <<cont, starts, istate, iout, runs, fin, wk, phase>>,
         metaFile'[r] = "running" => metaFile[r] = "running" \/ (istate[r] = "running" /\ starts[r] = 1)
  PROVE  /\ RowInv(r)' /\ Forward(r)
         /\ Unclaimed(r)' <=> Unclaimed(r)
         /\ Over(r)' <=> Over(r)
<1>1. (Unclaimed(r)' <=> Unclaimed(r)) /\ (Over(r)' <=> Over(r))
  BY DEF Unclaimed, Over
<1>2. RowInv(r)'
  BY <1>1 DEF RowInv, Opening, Early, Made
<1> QED
  BY <1>1, <1>2 DEF Forward

LEMMA PrepareSound ==
  ASSUME TypeInv, NEW p \in Threads, NEW r \in Runs, r = th[p].run, RowInv(r), ThreadInv(th[p]),
         Prepare(p)
  PROVE  Sound(p, r)
<1>0. /\ "reinspect" \in PCs /\ "save_create" \in PCs
      /\ "reinspect" \in WorkPCs /\ "save_create" \in WorkPCs
  BY DEF PCs, WorkPCs
<1>1. \/ th[p].st \in Early /\ th[p].out = "pending" /\ istate[r] \in Early
      \/ th[p].st \in Made /\ th[p].out = "made" /\ (istate[r] \in Made \/ Over(r))
  BY DEF Prepare, ThreadInv
<1>2. istate[r] # "absent"
  BY <1>1 DEF RowInv, Over, Early, Made
<1>3. UNCHANGED <<cont, starts, istate, iout, runs, fin, wk, phase>>
  BY DEF Prepare, docker, NotLife, procVars
<1>4. metaFile'[r] \in {metaFile[r], "pending", "made"}
  BY <1>1, LifeFacts DEF Prepare
<1>5. /\ RowInv(r)' /\ Forward(r)
      /\ Unclaimed(r)' <=> Unclaimed(r)
      /\ Over(r)' <=> Over(r)
  BY <1>2, <1>3, <1>4, FileRow
<1>6. CASE Goto(p, "error")
  BY <1>5, <1>6, ErrorSound
<1>7. CASE ~Goto(p, "error")
  <2> DEFINE pc == IF Created(th[p].st) THEN "reinspect" ELSE "save_create"
             y  == [th[p] EXCEPT !.pc = pc,
                                 !.hd = IF ~Created(th[p].st) /\ Mints THEN minted + 1 ELSE 0]
  <2>1. th' = [th EXCEPT ![p] = y]
    BY <1>7 DEF Prepare
  <2>2. PICK x : x = y
    OBVIOUS
  <2>3. x.pc = pc /\ x.run = r /\ x.key = th[p].key /\ x.out = th[p].out
    BY <2>2, LifeFacts DEF Thread
  <2>4. x.pc = (IF th[p].st \in Made THEN "reinspect" ELSE "save_create") /\ th' = [th EXCEPT ![p] = x]
    BY <2>1, <2>2, <2>3 DEF Created, Made
  <2> HIDE DEF y, pc
  <2>5. ThreadInv(x)'
    BY <1>1, <1>3, <1>5, <2>3, <2>4 DEF ThreadInv, Early, Made, ExitedPCs, FailPCs
  <2> QED
    BY <1>0, <1>5, <2>3, <2>4, <2>5 DEF Sound
<1> QED
  BY <1>6, <1>7

LEMMA SaveStepEffect ==
  ASSUME TypeInv, NEW p \in Threads, NEW r \in Runs, r = th[p].run, istate[r] # "absent",
         NEW from, NEW st, NEW out, NEW pc, SaveStep(p, from, st, out, pc)
  PROVE  /\ UNCHANGED <<cont, starts, metaFile, runs, fin, wk, phase>>
         /\ \/ istate'[r] = st /\ iout'[r] = out
            \/ istate'[r] = istate[r] /\ iout'[r] = iout[r] /\ Goto(p, "error")
         /\ Goto(p, "error") \/ Hold(p, pc, st, out)
  BY SaveEffect DEF SaveStep, docker, NotLife, procVars

\* Save of the copy: right if the row may say so and the goroutine goes on from it.
LEMMA SaveSound ==
  ASSUME TypeInv, NEW p \in Threads, NEW r \in Runs, r = th[p].run, RowInv(r), istate[r] # "absent",
         NEW from, NEW st \in IntentState, NEW out \in Outcome \cup {"absent"}, NEW pc \in WorkPCs,
         SaveStep(p, from, st, out, pc),
         istate'[r] = st /\ iout'[r] = out => RowInv(r)' /\ Forward(r),
         \A x : /\ x.run = r /\ x.pc = pc /\ x.out = out /\ x.life = th[p].life
                /\ istate'[r] = st /\ RowInv(r)'
                => ThreadInv(x)'
  PROVE  Sound(p, r)
<1>0. pc \in PCs
  BY DEF WorkPCs
<1>1. RowInv(r)' /\ Forward(r)
  <2>1. CASE istate'[r] = st /\ iout'[r] = out
    BY <2>1
  <2>2. CASE istate'[r] = istate[r] /\ iout'[r] = iout[r]
    BY <2>2, SaveStepEffect DEF RowInv, Unclaimed, Over, Forward
  <2> QED
    BY <2>1, <2>2, SaveStepEffect
<1>2. CASE Goto(p, "error")
  BY <1>1, <1>2, ErrorSound
<1>3. CASE ~Goto(p, "error")
  <2>1. Hold(p, pc, st, out) /\ istate'[r] = st
    BY <1>3, SaveStepEffect
  <2>2. PICK x \in Thread : /\ th' = [th EXCEPT ![p] = x] /\ x.pc = pc
                            /\ x.run = th[p].run /\ x.key = th[p].key
                            /\ x.out = out /\ x.life = th[p].life
    BY <1>0, <2>1, HoldThread
  <2>3. ThreadInv(x)'
    BY <1>1, <2>1, <2>2
  <2> QED
    BY <1>1, <2>2, <2>3 DEF Sound
<1> QED
  BY <1>2, <1>3

LEMMA StateNames ==
  /\ "create_pending" \in IntentState /\ "container_created" \in IntentState
  /\ "start_pending" \in IntentState /\ "running" \in IntentState
  /\ "pending" \in Outcome /\ "made" \in Outcome /\ "running" \in Outcome
  /\ "create_failed" \in Outcome /\ "start_failed" \in Outcome
  /\ "create" \in WorkPCs /\ "save_made" \in WorkPCs /\ "save_start" \in WorkPCs
  /\ "start" \in WorkPCs /\ "commit_save" \in WorkPCs /\ "commit_file" \in WorkPCs
  /\ "commit_store" \in WorkPCs /\ "exited_publish" \in WorkPCs /\ "exited_claim" \in WorkPCs
  /\ "exited_save" \in WorkPCs /\ "fail_result" \in WorkPCs /\ "fail_file" \in WorkPCs
  /\ "fail_store" \in WorkPCs /\ WorkPCs \subseteq PCs /\ "done" \in PCs /\ "error" \in PCs
  BY DEF IntentState, Outcome, Terminal, Active, WorkPCs, PCs

LEMMA SaveStepsSound ==
  ASSUME TypeInv, NEW p \in Threads, NEW r \in Runs, r = th[p].run, RowInv(r), ThreadInv(th[p]),
         SaveCreatePending(p) \/ SaveContainerCreated(p) \/ SaveStartPending(p) \/ CommitSave(p)
  PROVE  Sound(p, r)
<1> USE StateNames
<1>1. CASE SaveCreatePending(p)
  <2>1. istate[r] \in Early /\ th[p].out = "pending"
    BY <1>1 DEF SaveCreatePending, SaveStep, ThreadInv
  <2>2. istate[r] # "absent" /\ SaveStep(p, "save_create", "create_pending", "pending", "create")
    BY <1>1, <2>1 DEF SaveCreatePending, Early
  <2>3. istate'[r] = "create_pending" /\ iout'[r] = "pending" => RowInv(r)' /\ Forward(r)
    BY <2>1, <2>2, SaveStepEffect DEF RowInv, Unclaimed, Over, Forward, Opening, Early, Made, Past
  <2>4. ASSUME NEW x, x.run = r, x.pc = "create", x.out = "pending", istate'[r] = "create_pending"
        PROVE  ThreadInv(x)'
    BY <2>4 DEF ThreadInv, ExitedPCs, FailPCs
  <2> QED
    BY <2>2, <2>3, <2>4, SaveSound
<1>2. CASE SaveContainerCreated(p)
  <2>1. istate[r] = "create_pending" /\ th[p].life = "created" /\ cont[r] = "created"
    BY <1>2 DEF SaveContainerCreated, SaveStep, ThreadInv
  <2>2. istate[r] # "absent" /\ SaveStep(p, "save_made", "container_created", "made", "save_start")
    BY <1>2, <2>1 DEF SaveContainerCreated, Follow, Exited
  <2>3. starts[r] = 0
    BY <2>1 DEF RowInv, Early
  <2>4. istate'[r] = "container_created" /\ iout'[r] = "made" => RowInv(r)' /\ Forward(r)
    BY <2>1, <2>2, <2>3, SaveStepEffect
    DEF RowInv, Unclaimed, Over, Forward, Opening, Early, Made, Past
  <2>5. ASSUME NEW x, x.run = r, x.pc = "save_start", x.out = "made", istate'[r] = "container_created"
        PROVE  ThreadInv(x)'
    BY <2>2, <2>3, <2>5, SaveStepEffect DEF ThreadInv, ExitedPCs, FailPCs, Made
  <2> QED
    BY <2>2, <2>4, <2>5, SaveSound
<1>3. CASE SaveStartPending(p)
  <2>1. istate[r] \in Made /\ starts[r] = 0 /\ th[p].out = "made"
    BY <1>3 DEF SaveStartPending, SaveStep, ThreadInv
  <2>2. istate[r] # "absent" /\ SaveStep(p, "save_start", "start_pending", "made", "start")
    BY <1>3, <2>1 DEF SaveStartPending, Made
  <2>3. istate'[r] = "start_pending" /\ iout'[r] = "made" => RowInv(r)' /\ Forward(r)
    BY <2>1, <2>2, SaveStepEffect DEF RowInv, Unclaimed, Over, Forward, Opening, Early, Made, Past
  <2>4. ASSUME NEW x, x.run = r, x.pc = "start", x.out = "made", istate'[r] = "start_pending"
        PROVE  ThreadInv(x)'
    BY <2>1, <2>2, <2>4, SaveStepEffect DEF ThreadInv, ExitedPCs, FailPCs
  <2> QED
    BY <2>2, <2>3, <2>4, SaveSound
<1>4. CASE CommitSave(p)
  <2>1. istate[r] = "start_pending" /\ starts[r] = 1 /\ Unclaimed(r)
    BY <1>4 DEF CommitSave, SaveStep, ThreadInv
  <2>2. istate[r] # "absent" /\ SaveStep(p, "commit_save", "running", "running", "commit_file")
    BY <1>4, <2>1 DEF CommitSave
  <2>3. istate'[r] = "running" /\ iout'[r] = "running" => RowInv(r)' /\ Forward(r)
    BY <2>1, <2>2, SaveStepEffect DEF RowInv, Unclaimed, Over, Forward, Opening, Early, Made, Past
  <2>4. Unclaimed(r)'
    BY <2>1, <2>2, SaveStepEffect DEF Unclaimed
  <2>5. ASSUME NEW x, x.run = r, x.pc = "commit_file", x.out = "running", istate'[r] = "running"
        PROVE  ThreadInv(x)'
    BY <2>4, <2>5 DEF ThreadInv, ExitedPCs, FailPCs
  <2> QED
    BY <2>2, <2>3, <2>5, SaveSound
<1> QED
  BY <1>1, <1>2, <1>3, <1>4

LEMMA CreateSound ==
  ASSUME TypeInv, NEW p \in Threads, NEW r \in Runs, r = th[p].run, RowInv(r), ThreadInv(th[p]),
         RuntimeCreate(p)
  PROVE  Sound(p, r)
<1> USE StateNames
<1>1. istate[r] = "create_pending" /\ starts[r] = 0 /\ th[p].out = "pending"
  BY DEF RuntimeCreate, ThreadInv, RowInv, Early
<1>2. UNCHANGED <<starts, metaFile, istate, iout, runs, fin, wk, phase>>
  BY DEF RuntimeCreate, durable, NotLife, procVars
<1>3. cont'[r] \in {"none", "created"}
  BY <1>1, LifeFacts DEF RuntimeCreate, RowInv
<1>4. RowInv(r)' /\ Forward(r)
  BY <1>1, <1>2, <1>3 DEF RowInv, Unclaimed, Over, Forward, Opening, Early, Made, Past
<1>5. CASE Hold(p, "fail_result", th[p].st, "create_failed")
  <2>1. PICK x \in Thread : /\ th' = [th EXCEPT ![p] = x] /\ x.pc = "fail_result"
                            /\ x.run = th[p].run /\ x.key = th[p].key
    BY <1>5, HoldThread, ThreadFacts
  <2>2. ThreadInv(x)'
    BY <1>1, <1>2, <2>1 DEF ThreadInv, ExitedPCs, FailPCs
  <2> QED
    BY <1>4, <2>1, <2>2 DEF Sound
<1>6. CASE ~Hold(p, "fail_result", th[p].st, "create_failed")
  <2>1. cont'[r] = "created" /\ Learn(p, "save_made", "created")
    BY <1>1, <1>6, LifeFacts DEF RuntimeCreate, RowInv
  <2>2. PICK x \in Thread : /\ th' = [th EXCEPT ![p] = x] /\ x.pc = "save_made"
                            /\ x.run = th[p].run /\ x.key = th[p].key
                            /\ x.out = th[p].out /\ x.life = "created"
    BY <2>1, LearnThread DEF ContState
  <2>3. ThreadInv(x)'
    BY <1>1, <1>2, <2>1, <2>2 DEF ThreadInv, ExitedPCs, FailPCs
  <2> QED
    BY <1>4, <2>2, <2>3 DEF Sound
<1> QED
  BY <1>5, <1>6

\* Where a container in this lifecycle leads.
LEMMA FollowSound ==
  ASSUME TypeInv, NEW p \in Threads, NEW r \in Runs, r = th[p].run, RowInv(r)', Forward(r),
         NEW c \in ContState \ {"none"}, Learn(p, Follow(c), c), cont'[r] = c, th[p].out = "made",
         istate'[r] \in Made \/ Over(r)', c = "running" => istate'[r] = "start_pending"
  PROVE  Sound(p, r)
<1> USE StateNames
<1>1. PICK pc \in WorkPCs : pc = Follow(c)
  BY DEF Follow
<1>2. PICK x \in Thread : /\ th' = [th EXCEPT ![p] = x] /\ x.pc = pc
                          /\ x.run = th[p].run /\ x.key = th[p].key
                          /\ x.out = th[p].out /\ x.life = c
  BY <1>1, LearnThread
<1>3. ThreadInv(x)'
  <2>1. CASE c = "running"
    <3>0. pc = "commit_save" /\ cont'[r] = "running"
      BY <1>1, <2>1 DEF Follow, Exited
    <3>1. istate'[r] = "start_pending" /\ starts'[r] = 1 /\ ~Over(r)'
      BY <2>1, <3>0 DEF RowInv, Over
    <3>2. Unclaimed(r)'
      BY <3>1 DEF RowInv, Opening, Made
    <3> QED
      BY <1>2, <3>0, <3>1, <3>2 DEF ThreadInv, ExitedPCs, FailPCs
  <2>2. CASE c \in Exited
    <3>1. pc = "exited_publish" /\ Over(r)'
      BY <1>1, <2>2 DEF Follow, RowInv, Over, Exited
    <3> QED
      BY <1>2, <2>2, <3>1 DEF ThreadInv, ExitedPCs, FailPCs, Over
  <2>3. CASE c = "created"
    <3>1. pc = "save_start" /\ starts'[r] = 0 /\ istate'[r] \in Made
      BY <1>1, <2>3 DEF Follow, RowInv, Over, Exited
    <3> QED
      BY <1>2, <3>1 DEF ThreadInv, ExitedPCs, FailPCs
  <2> QED
    BY <2>1, <2>2, <2>3 DEF ContState, Exited
<1> QED
  BY <1>1, <1>2, <1>3 DEF Sound

LEMMA ReinspectSound ==
  ASSUME TypeInv, NEW p \in Threads, NEW r \in Runs, r = th[p].run, RowInv(r), ThreadInv(th[p]),
         Reinspect(p)
  PROVE  Sound(p, r)
<1>1. (istate[r] \in Made \/ Over(r)) /\ th[p].out = "made"
  BY DEF Reinspect, ThreadInv
<1>2. UNCHANGED <<cont, starts, metaFile, istate, iout, runs, fin, wk, phase>>
  BY DEF Reinspect, docker, durable, NotLife, procVars
<1>3. RowInv(r)' /\ Forward(r) /\ (Over(r)' <=> Over(r))
  BY <1>2 DEF RowInv, Unclaimed, Over, Forward
<1>4. CASE Goto(p, "error")
  BY <1>3, <1>4, ErrorSound
<1>5. CASE ~Goto(p, "error")
  <2>1. PICK c \in ContState \ {"none"} : c = cont[r] /\ Learn(p, Follow(c), c)
    BY <1>5, LifeFacts DEF Reinspect
  <2>2. c = "running" => istate'[r] = "start_pending"
    BY <1>1, <1>2, <2>1 DEF RowInv, Over, Made
  <2> QED
    BY <1>1, <1>2, <1>3, <2>1, <2>2, FollowSound
<1> QED
  BY <1>4, <1>5

LEMMA StartSound ==
  ASSUME TypeInv, NEW p \in Threads, NEW r \in Runs, r = th[p].run, RowInv(r), ThreadInv(th[p]),
         RuntimeStart(p)
  PROVE  Sound(p, r)
<1> USE StateNames
<1>1. istate[r] = "start_pending" /\ starts[r] = 0 /\ th[p].out = "made" /\ cont[r] = "created"
  BY DEF RuntimeStart, ThreadInv, RowInv, Made
<1>2. UNCHANGED <<metaFile, istate, iout, runs, fin, wk, phase>>
  BY DEF RuntimeStart, durable, NotLife, procVars
<1>3. Unclaimed(r) /\ Unclaimed(r)'
  BY <1>1, <1>2 DEF RowInv, Over, Unclaimed, Opening, Made
<1>4. \/ UNCHANGED <<cont, starts>>
      \/ starts'[r] = 1 /\ cont'[r] \in Exited \cup {"running"}
  BY <1>1, LifeFacts DEF RuntimeStart, docker
<1>5. RowInv(r)' /\ Forward(r)
  BY <1>1, <1>2, <1>3, <1>4 DEF RowInv, Forward, Opening, Early, Made, Past, Exited
<1>6. CASE Hold(p, "fail_result", th[p].st, "start_failed")
  <2>1. PICK x \in Thread : /\ th' = [th EXCEPT ![p] = x] /\ x.pc = "fail_result"
                            /\ x.run = th[p].run /\ x.key = th[p].key
    BY <1>6, HoldThread, ThreadFacts
  <2>2. ThreadInv(x)'
    BY <1>1, <1>2, <2>1 DEF ThreadInv, ExitedPCs, FailPCs
  <2> QED
    BY <1>5, <2>1, <2>2 DEF Sound
<1>7. CASE Goto(p, "commit_save") /\ cont' = [cont EXCEPT ![r] = "running"]
                                  /\ starts' = [starts EXCEPT ![r] = @ + 1]
  <2>1. PICK x \in Thread : /\ th' = [th EXCEPT ![p] = x] /\ x.pc = "commit_save"
                            /\ x.run = th[p].run /\ x.key = th[p].key
    BY <1>7, GotoThread
  <2>2. starts'[r] = 1
    BY <1>1, <1>7, LifeFacts
  <2>3. ThreadInv(x)'
    BY <1>1, <1>2, <1>3, <2>1, <2>2 DEF ThreadInv, ExitedPCs, FailPCs
  <2> QED
    BY <1>5, <2>1, <2>3 DEF Sound
<1>8. CASE \E c \in Exited \cup {"running"} : cont' = [cont EXCEPT ![r] = c] /\ Learn(p, Follow(c), c)
  <2>1. PICK c \in Exited \cup {"running"} : cont' = [cont EXCEPT ![r] = c] /\ Learn(p, Follow(c), c)
    BY <1>8
  <2>2. cont'[r] = c /\ c \in ContState \ {"none"}
    BY <2>1, LifeFacts DEF ContState, Exited
  <2> QED
    BY <1>1, <1>2, <1>5, <2>1, <2>2, FollowSound DEF Made
<1> QED
  BY <1>6, <1>7, <1>8 DEF RuntimeStart

LEMMA CommitSound ==
  ASSUME TypeInv, NEW p \in Threads, NEW r \in Runs, r = th[p].run, RowInv(r), ThreadInv(th[p]),
         CommitFile(p) \/ CommitStore(p)
  PROVE  Sound(p, r)
<1> USE StateNames
<1>1. istate[r] = "running" /\ Unclaimed(r) /\ th[p].out = "running"
  BY DEF CommitFile, CommitStore, WriteFileStep, ThreadInv
<1>2. starts[r] = 1 /\ iout[r] = "running"
  BY <1>1 DEF RowInv
<1>3. CASE CommitFile(p)
  <2>1. UNCHANGED <<cont, starts, istate, iout, runs, fin, wk, phase>>
    BY <1>3 DEF CommitFile, WriteFileStep, docker, NotLife, procVars
  <2>2. RowInv(r)' /\ Forward(r) /\ (Unclaimed(r)' <=> Unclaimed(r))
    BY <1>1, <1>2, <2>1, FileRow
  <2>3. CASE Goto(p, "error")
    BY <2>2, <2>3, ErrorSound
  <2>4. CASE Goto(p, "commit_store")
    <3>1. PICK x \in Thread : /\ th' = [th EXCEPT ![p] = x] /\ x.pc = "commit_store"
                              /\ x.run = th[p].run /\ x.key = th[p].key /\ x.out = th[p].out
      BY <2>4, GotoThread
    <3>2. ThreadInv(x)'
      BY <1>1, <2>1, <2>2, <3>1 DEF ThreadInv, ExitedPCs, FailPCs
    <3> QED
      BY <2>2, <3>1, <3>2 DEF Sound
  <2> QED
    BY <1>3, <2>3, <2>4 DEF CommitFile, WriteFileStep
<1>4. CASE CommitStore(p)
  <2>1. UNCHANGED <<cont, starts, metaFile, fin, phase>>
    BY <1>4 DEF CommitStore, docker, NotLife, procVars
  <2>2. istate'[r] = "running" /\ iout'[r] = "running"
    BY <1>1, <1>2, <1>4, SaveEffect DEF CommitStore
  <2>3. RowInv(r)' /\ Forward(r)
    BY <1>1, <1>2, <2>1, <2>2 DEF RowInv, Forward, Opening, Early, Made, Past
  <2>4. PICK pc \in {"done", "error"} : Goto(p, pc)
    BY <1>4 DEF CommitStore
  <2>5. PICK x \in Thread : /\ th' = [th EXCEPT ![p] = x] /\ x.pc = pc
                            /\ x.run = th[p].run /\ x.key = th[p].key
    BY <2>4, GotoThread
  <2>6. ThreadInv(x)'
    BY <2>2, <2>4, <2>5 DEF ThreadInv, ExitedPCs, FailPCs, Past
  <2> QED
    BY <2>3, <2>4, <2>5, <2>6 DEF Sound
<1> QED
  BY <1>3, <1>4

\* Once the worker is over the launch can only end.
LEMMA OverRow ==
  ASSUME NEW r \in Runs, RowInv(r), Over(r), UNCHANGED <<cont, starts>>,
         metaFile' = metaFile,
         \/ istate'[r] = istate[r] /\ iout'[r] = iout[r]
         \/ istate'[r] = "terminal"
  PROVE  RowInv(r)' /\ Over(r)' /\ Forward(r) /\ istate[r] # "absent"
<1>1. Over(r)'
  BY DEF Over
<1>2. istate[r] \notin {"absent", "container_created"} \cup Early
  BY DEF RowInv, Over
<1>3. RowInv(r)'
  BY <1>1, <1>2 DEF RowInv, Over, Opening, Early, Made
<1> QED
  BY <1>1, <1>2, <1>3 DEF Forward, Opening, Early, Made, Past

LEMMA ExitedSound ==
  ASSUME TypeInv, NEW p \in Threads, NEW r \in Runs, r = th[p].run, RowInv(r), ThreadInv(th[p]),
         ExitedPublish(p) \/ ExitedClaim(p) \/ ExitedSave(p)
  PROVE  Sound(p, r)
<1> USE StateNames
<1>1. Over(r) /\ th[p].life \in Exited
  BY DEF ExitedPublish, ExitedClaim, ExitedSave, ThreadInv, ExitedPCs
<1>2. UNCHANGED <<cont, starts, metaFile>>
  BY DEF ExitedPublish, ExitedClaim, ExitedSave, docker, durable
<1>3. istate[r] # "absent"
  BY <1>1 DEF RowInv, Over
<1>4. CASE ExitedPublish(p)
  <2>1. RowInv(r)' /\ Over(r)' /\ Forward(r)
    BY <1>1, <1>2, <1>4, OverRow DEF ExitedPublish, durable
  <2>2. PICK x \in Thread : /\ th' = [th EXCEPT ![p] = x] /\ x.pc = "exited_claim"
                            /\ x.run = th[p].run /\ x.key = th[p].key /\ x.life = th[p].life
    BY <1>4, GotoThread DEF ExitedPublish
  <2>3. ThreadInv(x)'
    BY <1>1, <2>1, <2>2 DEF ThreadInv, ExitedPCs, FailPCs
  <2> QED
    BY <2>1, <2>2, <2>3 DEF Sound
<1>5. CASE ExitedClaim(p)
  <2>1. RowInv(r)' /\ Over(r)' /\ Forward(r)
    BY <1>1, <1>2, <1>5, OverRow DEF ExitedClaim, durable
  <2>2. PICK out \in Outcome \cup {"absent"} : Hold(p, "exited_save", th[p].st, out)
    BY <1>5, ExitOutcomeTerminal DEF ExitedClaim, Outcome
  <2>3. PICK x \in Thread : /\ th' = [th EXCEPT ![p] = x] /\ x.pc = "exited_save"
                            /\ x.run = th[p].run /\ x.key = th[p].key /\ x.life = th[p].life
    BY <2>2, HoldThread, ThreadFacts
  <2>4. ThreadInv(x)'
    BY <1>1, <2>1, <2>3 DEF ThreadInv, ExitedPCs, FailPCs
  <2> QED
    BY <2>1, <2>3, <2>4 DEF Sound
<1>6. CASE ExitedSave(p)
  <2>1. \/ istate'[r] = istate[r] /\ iout'[r] = iout[r] /\ Goto(p, "error")
        \/ istate'[r] = "terminal"
    BY <1>3, <1>6, SaveEffect DEF ExitedSave
  <2>2. RowInv(r)' /\ Over(r)' /\ Forward(r)
    BY <1>1, <1>2, <2>1, OverRow
  <2>3. CASE Goto(p, "error")
    BY <2>2, <2>3, ErrorSound
  <2>4. CASE ~Goto(p, "error")
    <3>1. Goto(p, "done") /\ istate'[r] = "terminal"
      BY <1>6, <2>1, <2>4 DEF ExitedSave
    <3>2. PICK x \in Thread : /\ th' = [th EXCEPT ![p] = x] /\ x.pc = "done"
                              /\ x.run = th[p].run /\ x.key = th[p].key
      BY <3>1, GotoThread
    <3>3. ThreadInv(x)'
      BY <3>1, <3>2 DEF ThreadInv, ExitedPCs, FailPCs, Past
    <3> QED
      BY <2>2, <3>2, <3>3 DEF Sound
  <2> QED
    BY <2>3, <2>4
<1> QED
  BY <1>4, <1>5, <1>6

LEMMA FailSound ==
  ASSUME TypeInv, NEW p \in Threads, NEW r \in Runs, r = th[p].run, RowInv(r), ThreadInv(th[p]),
         FailResult(p) \/ FailFile(p) \/ FailStore(p)
  PROVE  Sound(p, r)
<1> USE StateNames
<1>1. istate[r] # "absent" /\ th[p].pc \in FailPCs
  BY DEF FailResult, FailFile, FailStore, WriteFileStep, ThreadInv, FailPCs
<1>2. th[p].out # "running"
  BY <1>1, TypeFacts DEF ThDecided, FailPCs, Terminal
<1>3. UNCHANGED <<cont, starts, fin, wk, phase>>
  BY DEF FailResult, FailFile, FailStore, WriteFileStep, docker, NotLife, procVars
<1>4. CASE FailResult(p) \/ FailFile(p)
  <2>1. UNCHANGED <<istate, iout, runs>> /\ metaFile'[r] \in {metaFile[r], th[p].out}
    BY <1>4, LifeFacts DEF FailResult, FailFile, WriteFileStep
  <2>2. RowInv(r)' /\ Forward(r)
    BY <1>1, <1>2, <1>3, <2>1, FileRow
  <2>3. PICK pc \in {"fail_file", "fail_store", "error"} : Goto(p, pc)
    BY <1>4 DEF FailResult, FailFile, WriteFileStep
  <2>4. PICK x \in Thread : /\ th' = [th EXCEPT ![p] = x] /\ x.pc = pc
                            /\ x.run = th[p].run /\ x.key = th[p].key
    BY <2>3, GotoThread
  <2>5. ThreadInv(x)'
    BY <1>1, <2>1, <2>3, <2>4 DEF ThreadInv, ExitedPCs, FailPCs
  <2> QED
    BY <2>2, <2>3, <2>4, <2>5 DEF Sound
<1>5. CASE FailStore(p)
  <2>1. metaFile' = metaFile
    BY <1>5 DEF FailStore
  <2>2. \/ istate'[r] = istate[r] /\ iout'[r] = iout[r] /\ Goto(p, "error") /\ runs' = runs
        \/ istate'[r] = "terminal" /\ runs'[r] \in {runs[r], th[p].out}
    BY <1>1, <1>5, SaveEffect, LifeFacts DEF FailStore
  <2>3. RowInv(r)' /\ Forward(r)
    BY <1>1, <1>2, <1>3, <2>1, <2>2
    DEF RowInv, Unclaimed, Over, Forward, Opening, Early, Made, Past
  <2>4. CASE Goto(p, "error")
    BY <2>3, <2>4, ErrorSound
  <2>5. CASE ~Goto(p, "error")
    <3>1. Goto(p, "done") /\ istate'[r] = "terminal"
      BY <1>5, <2>2, <2>5 DEF FailStore
    <3>2. PICK x \in Thread : /\ th' = [th EXCEPT ![p] = x] /\ x.pc = "done"
                              /\ x.run = th[p].run /\ x.key = th[p].key
      BY <3>1, GotoThread
    <3>3. ThreadInv(x)'
      BY <3>1, <3>2 DEF ThreadInv, ExitedPCs, FailPCs, Past
    <3> QED
      BY <2>3, <3>2, <3>3 DEF Sound
  <2> QED
    BY <2>4, <2>5
<1> QED
  BY <1>4, <1>5

LEMMA ResumeLaunch ==
  ASSUME TypeInv, ContractInv, LaunchInv, NEW p \in Threads, ResumeStep(p)
  PROVE  LaunchInv' /\ Closed
<1>1. PICK r \in Runs : r = th[p].run
  BY ThreadFacts
<1>2. RowInv(r) /\ ThreadInv(th[p])
  BY DEF LaunchInv
<1>3. Sound(p, r)
  BY <1>1, <1>2, RunningSound, PrepareSound, SaveStepsSound, CreateSound, ReinspectSound, StartSound,
     CommitSound, ExitedSound, FailSound DEF ResumeStep
<1>4. PICK x : /\ th' = [th EXCEPT ![p] = x] /\ x.run = r /\ x.key = th[p].key
               /\ x.pc \in WorkPCs \cup {"done", "error"}
               /\ RowInv(r)' /\ ThreadInv(x)' /\ Forward(r)
  BY <1>3 DEF Sound
<1>5. /\ th[p].pc \in WorkPCs /\ phase' = phase /\ todo' = todo
      /\ \A q \in Runs : q # r => Same(q)
  BY <1>1, ResumeElsewhere
<1> QED
  BY <1>1, <1>4, <1>5, ResumeFrame
-----------------------------------------------------------------------------
(* Requests, answers and the process.                                      *)

\* One goroutine begins or ends.
LEMMA ThreadOnly ==
  ASSUME TypeInv, LaunchInv, NEW p \in Threads, NEW x, x.run \in Runs, ThreadInv(x),
         th' = [th EXCEPT ![p] = x], UNCHANGED lifeVars, phase' = phase
  PROVE  (\A r \in Runs : RowInv(r)') /\ (\A q \in Threads : ThreadInv(th[q])') /\ Closed
<1>1. \A r \in Runs : Same(r)
  BY DEF lifeVars, Same
<1>2. \A r \in Runs : RowInv(r)'
  BY <1>1, SameRow DEF LaunchInv
<1>3. ASSUME NEW q \in Threads PROVE ThreadInv(th[q])'
  <2>1. PICK y : y = IF q = p THEN x ELSE th[q]
    OBVIOUS
  <2>2. th'[q] = y /\ y.run \in Runs /\ ThreadInv(y)
    BY <2>1, LifeFacts, ThreadFacts DEF LaunchInv
  <2>3. ThreadInv(y)'
    BY <1>1, <2>2, SameThread
  <2> QED
    BY <2>2, <2>3
<1> QED
  BY <1>1, <1>2, <1>3 DEF Closed, Same

\* A copy read from a row that exists is right.
LEMMA SnapshotSound ==
  ASSUME TypeInv, NEW r \in Runs, RowInv(r), istate[r] # "absent", NEW k, NEW f
  PROVE  /\ ThreadInv(Snapshot(r, k, f)) /\ Snapshot(r, k, f).run = r /\ Snapshot(r, k, f).key = k
         /\ Snapshot(r, k, f).pc \in {"done", "publish", "prepare"}
<1>1. PICK x : x = Snapshot(r, k, f)
  OBVIOUS
<1>2. /\ x.pc = Entry(istate[r], iout[r]) /\ x.run = r /\ x.key = k
      /\ x.st = istate[r] /\ x.out = iout[r]
  BY <1>1 DEF Snapshot
<1>3. istate[r] \in Early \cup Made \cup Past
  BY LifeFacts DEF IntentState, Early, Made, Past
<1>4. /\ istate[r] \in Early => x.pc = "prepare"
      /\ istate[r] \in Made => x.pc = "prepare"
      /\ istate[r] = "running" => x.pc = "publish"
      /\ istate[r] = "terminal" => x.pc = "done"
  BY <1>2 DEF Entry, RowInv, Early, Made, Terminal
<1>5. ThreadInv(x) /\ x.pc \in {"done", "publish", "prepare"}
  BY <1>2, <1>3, <1>4 DEF ThreadInv, RowInv, Early, Made, Past, ExitedPCs, FailPCs
<1> QED
  BY <1>1, <1>2, <1>5

LEMMA RequestLaunch ==
  ASSUME TypeInv, LaunchInv, NEW c \in Callers, NEW k \in Keys, NEW f \in Fps, Request(c, k, f)
  PROVE  LaunchInv' /\ Closed
<1>0. c \in Threads /\ c # Boot
  BY BootNotCaller DEF Threads
<1>1. phase = "up" /\ phase' = phase /\ todo' = todo /\ UNCHANGED lifeVars /\ th[c].pc = "idle"
      /\ \A d \in Callers : th[d].pc # "idle" => th[d].key # k
  BY DEF Request, procVars, Locked
<1>2. PICK x : th' = [th EXCEPT ![c] = x] /\ x.run \in Runs /\ x.key = k /\ ThreadInv(x)
  <2>1. CASE \E r \in RowsOf(k) : th' = [th EXCEPT ![c] = Snapshot(r, k, f)]
    <3>1. PICK r \in RowsOf(k) : th' = [th EXCEPT ![c] = Snapshot(r, k, f)]
      BY <2>1
    <3>2. r \in Runs /\ istate[r] # "absent" /\ RowInv(r)
      BY DEF RowsOf, Rows, LaunchInv
    <3>3. ThreadInv(Snapshot(r, k, f)) /\ Snapshot(r, k, f).run = r /\ Snapshot(r, k, f).key = k
      BY <3>2, SnapshotSound
    <3> QED
      BY <3>1, <3>2, <3>3
  <2>2. CASE th' = [th EXCEPT ![c] = [Idle EXCEPT !.pc = "error", !.key = k]]
    <3>1. PICK x : x = [Idle EXCEPT !.pc = "error", !.key = k]
      OBVIOUS
    <3>2. x.pc = "error" /\ x.key = k /\ x.run \in Runs
      BY <3>1, IdleType DEF Thread
    <3>3. ThreadInv(x) /\ x.run \in Runs
      BY <3>2 DEF ThreadInv, ExitedPCs, FailPCs
    <3> QED
      BY <2>2, <3>1, <3>2, <3>3
  <2>3. CASE th' = [th EXCEPT ![c] = [Idle EXCEPT !.pc = "create_intent", !.key = k, !.fp = f]]
    <3>1. PICK x : x = [Idle EXCEPT !.pc = "create_intent", !.key = k, !.fp = f]
      OBVIOUS
    <3>2. x.pc = "create_intent" /\ x.key = k /\ x.run \in Runs
      BY <3>1, IdleType DEF Thread
    <3>3. ThreadInv(x) /\ x.run \in Runs
      BY <3>2 DEF ThreadInv, ExitedPCs, FailPCs
    <3> QED
      BY <2>3, <3>1, <3>2, <3>3
  <2> QED
    BY <2>1, <2>2, <2>3 DEF Request
<1>3. (\A r \in Runs : RowInv(r)') /\ (\A q \in Threads : ThreadInv(th[q])') /\ Closed
  BY <1>0, <1>1, <1>2, ThreadOnly
<1>4. th'[c] = x /\ \A q \in Threads : q # c => th'[q] = th[q]
  BY <1>0, <1>2, LifeFacts
<1>5. PhaseInv'
  <2>1. th'[Boot].pc = "idle"
    BY <1>0, <1>1, <1>4, LifeFacts DEF LaunchInv, PhaseInv
  <2>2. \A d, e \in Callers : th'[d].pc # "idle" /\ th'[e].pc # "idle" /\ th'[d].key = th'[e].key => d = e
    BY <1>1, <1>2, <1>4 DEF LaunchInv, PhaseInv, Threads
  <2> QED
    BY <1>1, <2>1, <2>2 DEF PhaseInv
<1> QED
  BY <1>3, <1>5 DEF LaunchInv

LEMMA AnswerLaunch ==
  ASSUME TypeInv, LaunchInv, NEW c \in Callers, Answer(c)
  PROVE  LaunchInv' /\ Closed
<1>0. c \in Threads /\ c # Boot
  BY BootNotCaller DEF Threads
<1>1. phase' = phase /\ todo' = todo /\ UNCHANGED lifeVars /\ th[c].pc # "idle"
  BY DEF Answer, procVars
<1>2. PICK x : th' = [th EXCEPT ![c] = x] /\ x = Idle
  BY DEF Answer
<1>3. x.run \in Runs /\ x.pc = "idle"
  BY <1>2, IdleType DEF Idle, Thread
<1>4. ThreadInv(x)
  BY <1>3 DEF ThreadInv, ExitedPCs, FailPCs
<1>5. (\A r \in Runs : RowInv(r)') /\ (\A q \in Threads : ThreadInv(th[q])') /\ Closed
  BY <1>0, <1>1, <1>2, <1>3, <1>4, ThreadOnly
<1>6. th'[c] = x /\ \A q \in Threads : q # c => th'[q] = th[q]
  BY <1>0, <1>2, LifeFacts
<1>7. PhaseInv'
  <2>1. th'[Boot] = th[Boot] /\ \A d \in Callers : th'[d].pc # "idle" => th'[d] = th[d]
    BY <1>0, <1>3, <1>6, LifeFacts DEF Threads
  <2>2. \A d \in Callers : th'[d].pc # "idle" => th[d].pc # "idle"
    BY <2>1
  <2>3. Rows' = Rows /\ istate' = istate
    BY <1>1 DEF Rows, lifeVars
  <2> QED
    BY <1>1, <2>1, <2>2, <2>3 DEF LaunchInv, PhaseInv
<1> QED
  BY <1>5, <1>7 DEF LaunchInv

LEMMA CreateIntentLaunch ==
  ASSUME TypeInv, LaunchInv, NEW c \in Callers, NEW r \in Runs, CreateIntent(c, r)
  PROVE  LaunchInv' /\ Closed
<1>0. c \in Threads /\ c # Boot
  BY BootNotCaller DEF Threads
<1>1. /\ phase' = phase /\ todo' = todo /\ th[c].pc = "create_intent"
      /\ UNCHANGED <<cont, starts, metaFile, termFile, runs, fin, wk>>
  BY DEF CreateIntent, procVars, docker
<1>2. phase = "up"
  BY <1>1 DEF LaunchInv, PhaseInv
<1> DEFINE inserted == /\ istate[r] = "absent" /\ istate'[r] = "intent_created" /\ iout'[r] = "pending"
                       /\ \A q \in Runs : q # r => Same(q)
<1>3. inserted \/ (\A q \in Runs : Same(q))
  BY <1>1, LifeFacts DEF CreateIntent, Fresh, Same
<1>4. RowInv(r)'
  <2>1. CASE inserted
    BY <1>1, <1>2, <2>1 DEF LaunchInv, RowInv, Unclaimed, Over, Opening, Early, Made
  <2>2. CASE Same(r)
    BY <1>1, <2>2, SameRow DEF LaunchInv
  <2> QED
    BY <1>3, <2>1, <2>2
<1>5. \A q \in Runs : RowInv(q)'
  BY <1>1, <1>3, <1>4, SameRow DEF LaunchInv
<1>6. PICK x : /\ th' = [th EXCEPT ![c] = x] /\ x.key = th[c].key /\ x.pc # "idle"
               /\ ThreadInv(x)'
  <2> DEFINE k == th[c].key
             f == th[c].fp
             new == [Idle EXCEPT !.pc = "prepare", !.key = k, !.fp = f,
                                 !.run = r, !.st = "intent_created", !.out = "pending"]
  <2>1. CASE th' = [th EXCEPT ![c] = new] /\ inserted
    <3>1. PICK x : x = new
      OBVIOUS
    <3>2. x.pc = "prepare" /\ x.key = k /\ x.run = r /\ x.st = "intent_created" /\ x.out = "pending"
      BY <3>1 DEF Idle
    <3>3. ThreadInv(x)'
      BY <2>1, <3>2 DEF ThreadInv, Early, ExitedPCs, FailPCs
    <3> QED
      BY <2>1, <3>1, <3>2, <3>3
  <2>2. CASE Goto(c, "error")
    <3>1. PICK x \in Thread : th' = [th EXCEPT ![c] = x] /\ x.pc = "error" /\ x.key = th[c].key
      BY <1>0, <2>2, StateNames, GotoThread
    <3>2. ThreadInv(x)'
      BY <3>1 DEF ThreadInv, ExitedPCs, FailPCs
    <3> QED
      BY <3>1, <3>2
  <2>3. \/ th' = [th EXCEPT ![c] = new] /\ istate'[r] = "intent_created"
        \/ Goto(c, "error")
    BY LifeFacts DEF CreateIntent
  <2> QED
    BY <1>3, <2>1, <2>2, <2>3, LifeFacts DEF Same, CreateIntent, Fresh
<1>7. th'[c] = x /\ \A q \in Threads : q # c => th'[q] = th[q]
  BY <1>0, <1>6, LifeFacts
<1>8. ASSUME NEW q \in Threads PROVE ThreadInv(th[q])'
  <2>1. CASE q = c
    BY <1>6, <1>7, <2>1
  <2>2. CASE q # c
    <3>1. PICK y : y = th[q]
      OBVIOUS
    <3>2. y.run \in Runs /\ ThreadInv(y) /\ th'[q] = y
      BY <1>7, <2>2, <3>1, ThreadFacts DEF LaunchInv
    <3>3. ThreadInv(y)'
      <4>1. CASE Same(y.run)
        BY <1>1, <3>2, <4>1, SameThread
      <4>2. CASE inserted /\ y.run = r
        <5>1. starts[r] = 0 /\ ~Over(r)
          BY <4>2 DEF LaunchInv, RowInv, Over
        <5>2. y.pc \notin {"prepare", "save_create", "create", "save_made", "reinspect", "save_start", "start",
                           "publish", "inspect", "await", "done"} \cup CommitPCs \cup ExitedPCs \cup FailPCs
          BY <3>2, <4>2, <5>1 DEF ThreadInv, Early, Made, Past, CommitPCs
        <5> QED
          BY <5>2 DEF ThreadInv, CommitPCs
      <4> QED
        BY <1>3, <3>2, <4>1, <4>2
    <3> QED
      BY <3>2, <3>3
  <2> QED
    BY <2>1, <2>2
<1>9. PhaseInv'
  <2>1. th'[Boot].pc = "idle"
    BY <1>0, <1>2, <1>7, LifeFacts DEF LaunchInv, PhaseInv
  <2>2. \A d \in Callers : th'[d].key = th[d].key /\ (th'[d].pc # "idle" => th[d].pc # "idle")
    BY <1>1, <1>6, <1>7 DEF Threads
  <2> QED
    BY <1>1, <1>2, <2>1, <2>2 DEF LaunchInv, PhaseInv
<1>10. Closed
  BY <1>3 DEF Closed, Same
<1> QED
  BY <1>5, <1>8, <1>9, <1>10 DEF LaunchInv

LEMMA DieLaunch ==
  ASSUME TypeInv, LaunchInv, Die
  PROVE  LaunchInv' /\ Closed
<1>1. /\ phase' = "down" /\ UNCHANGED <<cont, starts, metaFile, istate, iout>>
      /\ \A r \in Runs : runs'[r] = "absent" /\ fin'[r] = NotFinalizing /\ wk'[r] = [w \in Workers |-> "off"]
      /\ \A p \in Threads : th'[p] = Idle
  BY DEF Die, docker, durable
<1>2. NotFinalizing.by = "none" /\ NotFinalizing.step = "idle" /\ Idle.pc = "idle"
  BY DEF NotFinalizing, Idle
<1>3. \A r \in Runs : Unclaimed(r)'
  BY <1>1, <1>2 DEF Unclaimed
<1>4. \A r \in Runs : RowInv(r)'
  BY <1>1, <1>2, <1>3 DEF LaunchInv, RowInv
<1>5. ASSUME NEW p \in Threads PROVE ThreadInv(th[p])'
  <2>1. PICK x : x = Idle
    OBVIOUS
  <2>2. th'[p] = x /\ x.pc = "idle"
    BY <1>1, <1>2, <2>1
  <2>3. ThreadInv(x)'
    BY <2>2 DEF ThreadInv, ExitedPCs, FailPCs
  <2> QED
    BY <2>2, <2>3
<1>6. PhaseInv'
  BY <1>1, <1>2 DEF PhaseInv, Threads
<1> QED
  BY <1>1, <1>4, <1>5, <1>6 DEF LaunchInv, Closed

\* Reconcile looks at a directory: it claims only what was running.
LEMMA ScanRunLaunch ==
  ASSUME TypeInv, LaunchInv, NEW r \in Runs, ScanRun(r)
  PROVE  LaunchInv' /\ Closed
<1>0. Boot \in Threads /\ Boot \notin Callers
  BY BootNotCaller DEF Threads
<1>1. /\ phase = "scan" /\ phase' = phase /\ todo' = todo
      /\ UNCHANGED <<cont, starts, metaFile, termFile, istate, iout>>
  BY DEF ScanRun, docker, durable, procVars
<1> DEFINE y == [th[Boot] EXCEPT !.pc = "scan_await", !.run = r]
<1>2. y.pc = "scan_await" /\ th' = [th EXCEPT ![Boot] = y]
  BY LifeFacts DEF ScanRun, Thread
<1>3. PICK x : x.pc = "scan_await" /\ th' = [th EXCEPT ![Boot] = x]
  BY <1>2
<1> HIDE DEF y
<1>4. th'[Boot] = x /\ \A q \in Threads : q # Boot => th'[q] = th[q]
  BY <1>0, <1>3, LifeFacts
<1>5. \A c \in Callers : th[c].pc = "idle"
  BY <1>1 DEF LaunchInv, PhaseInv
<1>6. \/ UNCHANGED <<runs, fin, wk>>
      \/ metaFile[r] = "running" /\ \E step, next : Claim(r, "resume", step, next)
  BY DEF ScanRun
<1>7. \A q \in Runs : q # r => Same(q)
  BY <1>1, <1>6, ClaimElsewhere DEF Same
<1>8. RowInv(r)'
  <2>1. CASE UNCHANGED <<runs, fin, wk>>
    BY <1>1, <2>1, SameRow DEF Same, LaunchInv
  <2>2. CASE metaFile[r] = "running"
    <3>1. starts[r] = 1 /\ istate[r] \in Past /\ RowInv(r)
      BY <2>2, LifeFacts DEF LaunchInv, RowInv, Opening, Early, Made, Past, IntentState
    <3> QED
      BY <1>1, <3>1, PastRow
  <2> QED
    BY <1>6, <2>1, <2>2
<1>9. \A q \in Runs : RowInv(q)'
  BY <1>1, <1>7, <1>8, SameRow DEF LaunchInv
<1>10. ASSUME NEW q \in Threads PROVE ThreadInv(th[q])'
  <2>1. PICK z : z = th'[q]
    OBVIOUS
  <2>2. z.pc \in {"idle", "scan_await"}
    BY <1>3, <1>4, <1>5, <2>1 DEF Threads
  <2>3. ThreadInv(z)'
    BY <2>2 DEF ThreadInv, ExitedPCs, FailPCs
  <2> QED
    BY <2>1, <2>3
<1>11. PhaseInv'
  BY <1>0, <1>1, <1>3, <1>4, <1>5 DEF PhaseInv, Threads
<1> QED
  BY <1>1, <1>9, <1>10, <1>11 DEF LaunchInv, Closed

LEMMA ScanPublishLaunch ==
  ASSUME TypeInv, LaunchInv, ScanPublish
  PROVE  LaunchInv' /\ Closed
<1>0. Boot \in Threads /\ Boot \notin Callers /\ "idle" \in PCs /\ "error" \in PCs
  BY BootNotCaller DEF Threads, PCs
<1>1. PICK r \in Runs : r = th[Boot].run
  BY <1>0, ThreadFacts
<1>2. /\ th[Boot].pc = "scan_await" /\ phase' = phase
      /\ UNCHANGED <<cont, starts, metaFile, istate, iout, fin>>
  BY DEF ScanPublish, docker
<1>3. phase = "scan" /\ \A c \in Callers : th[c].pc = "idle"
  BY <1>2 DEF LaunchInv, PhaseInv
<1>4. PICK pc \in {"idle", "error"} : Goto(Boot, pc)
  BY DEF ScanPublish
<1>5. PICK x \in Thread : th' = [th EXCEPT ![Boot] = x] /\ x.pc = pc
  BY <1>0, <1>4, GotoThread
<1>6. th'[Boot] = x /\ \A q \in Threads : q # Boot => th'[q] = th[q]
  BY <1>0, <1>5, LifeFacts
<1>7. runs'[r] = LookupRun(r) /\ \A q \in Runs : q # r => runs'[q] = runs[q] /\ wk'[q] = wk[q]
  BY <1>1, LifeFacts DEF ScanPublish
<1>8. ASSUME LookupRun(r) # "running", \A w \in Workers : wk[r][w] = "off"
      PROVE  \A w \in Workers : wk'[r][w] = "off"
  BY <1>1, <1>8, LifeFacts DEF ScanPublish
<1>9. ASSUME NEW q \in Runs PROVE RowInv(q)'
  <2>1. CASE q # r
    BY <1>2, <1>7, <2>1 DEF LaunchInv, RowInv, Unclaimed, Over
  <2>2. CASE q = r
    <3>1. RowInv(r)
      BY DEF LaunchInv
    <3>2. runs'[r] = "running" => runs[r] = "running" \/ metaFile[r] = "running"
      BY <1>7 DEF LookupRun
    <3>3. metaFile[r] # "running" /\ Unclaimed(r) => Unclaimed(r)'
      BY <1>2, <1>3, <1>7, <1>8 DEF Unclaimed, LookupRun
    <3>4. istate[r] = "absent" => runs'[r] = "absent"
      BY <1>7, <3>1 DEF LookupRun, RowInv
    <3> QED
      BY <1>2, <2>2, <3>1, <3>2, <3>3, <3>4 DEF RowInv, Over
  <2> QED
    BY <2>1, <2>2
<1>10. ASSUME NEW q \in Threads PROVE ThreadInv(th[q])'
  <2>1. PICK z : z = th'[q]
    OBVIOUS
  <2>2. z.pc \in {"idle", "error"}
    BY <1>3, <1>4, <1>5, <1>6, <2>1 DEF Threads
  <2>3. ThreadInv(z)'
    BY <2>2 DEF ThreadInv, ExitedPCs, FailPCs
  <2> QED
    BY <2>1, <2>3
<1>11. PhaseInv'
  BY <1>0, <1>2, <1>3, <1>4, <1>5, <1>6 DEF PhaseInv, Threads
<1> QED
  BY <1>2, <1>9, <1>10, <1>11 DEF LaunchInv, Closed

\* Beginning and end of Reconcile's loops.
LEMMA BootLaunch ==
  ASSUME TypeInv, LaunchInv, BootStep
  PROVE  LaunchInv' /\ Closed
<1>0. Boot \in Threads /\ Boot \notin Callers /\ \A c \in Callers : c \in Threads /\ c # Boot
  BY BootNotCaller DEF Threads
<1>1. CASE Start \/ ScanDone
  <2>1. /\ UNCHANGED lifeVars /\ th' = th /\ phase # "up" /\ phase' # "up"
        /\ phase' = "resume" => todo' = Nonterminal /\ th[Boot].pc = "idle"
        /\ phase' # phase /\ phase # "resume"
    BY <1>1 DEF Start, ScanDone
  <2>2. \A r \in Runs : RowInv(r)'
    BY <2>1 DEF LaunchInv, RowInv, Unclaimed, Over, lifeVars
  <2>3. ASSUME NEW q \in Threads PROVE ThreadInv(th[q])'
    <3>1. PICK y : y = th[q]
      OBVIOUS
    <3>2. ThreadInv(y) /\ th'[q] = y
      BY <2>1, <3>1 DEF LaunchInv
    <3>3. ThreadInv(y)'
      BY <2>1, <3>2 DEF ThreadInv, Unclaimed, Over, lifeVars
    <3> QED
      BY <3>2, <3>3
  <2>4. PhaseInv'
    <3>1. th[Boot].pc \in {"idle", "scan_await", "error"}
      BY <2>1 DEF LaunchInv, PhaseInv
    <3>2. th[Boot].pc = "scan_await" => phase' = "scan"
      BY <1>1 DEF Start, ScanDone, LaunchInv, PhaseInv
    <3>3. phase' = "resume" => /\ todo' \subseteq Rows'
                               /\ \A r \in Runs : istate'[r] \in Opening => r \in todo'
      BY <2>1 DEF Nonterminal, Rows, lifeVars, Opening, Early, Made
    <3> QED
      BY <2>1, <3>1, <3>2, <3>3 DEF LaunchInv, PhaseInv
  <2> QED
    BY <2>1, <2>2, <2>3, <2>4 DEF LaunchInv, Closed, lifeVars
<1>2. CASE Serve
  <2>1. /\ UNCHANGED lifeVars /\ th' = th /\ phase = "resume" /\ phase' = "up" /\ todo = {}
        /\ th[Boot].pc = "idle"
    BY <1>2 DEF Serve
  <2>2. \A p \in Threads : th[p].pc = "idle"
    BY <2>1 DEF LaunchInv, PhaseInv, Threads
  <2>3. \A r \in Runs : istate[r] \notin Opening
    BY <2>1 DEF LaunchInv, PhaseInv
  <2>4. \A r \in Runs : RowInv(r)'
    BY <2>1, <2>3 DEF LaunchInv, RowInv, Unclaimed, Over, lifeVars, Opening
  <2>5. ASSUME NEW q \in Threads PROVE ThreadInv(th[q])'
    <3>1. PICK y : y = th[q]
      OBVIOUS
    <3>2. y.pc = "idle" /\ th'[q] = y
      BY <2>1, <2>2, <3>1
    <3>3. ThreadInv(y)'
      BY <3>2 DEF ThreadInv, ExitedPCs, FailPCs
    <3> QED
      BY <3>2, <3>3
  <2>6. PhaseInv'
    BY <2>1, <2>2, <1>0 DEF PhaseInv
  <2> QED
    BY <2>1, <2>4, <2>5, <2>6 DEF LaunchInv, Closed, lifeVars
<1>3. ASSUME NEW r \in Runs, BootResume(r) PROVE LaunchInv' /\ Closed
  <2>1. /\ phase = "resume" /\ phase' = phase /\ todo' = todo /\ UNCHANGED lifeVars /\ r \in todo
    BY <1>3 DEF BootResume, procVars
  <2>2. istate[r] # "absent" /\ RowInv(r)
    BY <2>1 DEF LaunchInv, PhaseInv, Rows
  <2>3. PICK x : /\ th' = [th EXCEPT ![Boot] = x]
                 /\ \/ x = Snapshot(r, keyOf[r], fpOf[r])
                    \/ x.pc = "error" /\ x.run \in Runs
    BY <1>3, BootResumeThread
  <2>4. ThreadInv(x) /\ x.run \in Runs /\ x.pc \in {"done", "publish", "prepare", "error"}
    <3>1. CASE x = Snapshot(r, keyOf[r], fpOf[r])
      BY <2>2, <3>1, SnapshotSound
    <3>2. CASE x.pc = "error" /\ x.run \in Runs
      BY <3>2 DEF ThreadInv, ExitedPCs, FailPCs
    <3> QED
      BY <2>3, <3>1, <3>2
  <2>5. (\A q \in Runs : RowInv(q)') /\ (\A q \in Threads : ThreadInv(th[q])') /\ Closed
    BY <1>0, <2>1, <2>3, <2>4, ThreadOnly
  <2>6. th'[Boot] = x /\ \A q \in Threads : q # Boot => th'[q] = th[q]
    BY <1>0, <2>3, LifeFacts
  <2>7. PhaseInv'
    BY <1>0, <2>1, <2>4, <2>6 DEF LaunchInv, PhaseInv, Rows, lifeVars
  <2> QED
    BY <2>5, <2>7 DEF LaunchInv
<1>4. CASE BootResumed
  <2>1. PICK r \in Runs : r = th[Boot].run
    BY <1>0, ThreadFacts
  <2>2. /\ phase' = phase /\ todo' = todo \ {r} /\ UNCHANGED lifeVars /\ th[Boot].pc = "done"
    BY <1>4, <2>1 DEF BootResumed
  <2>3. phase = "resume" /\ istate[r] \in Past
    BY <1>0, <2>1, <2>2 DEF LaunchInv, PhaseInv, ThreadInv
  <2>4. PICK x : th' = [th EXCEPT ![Boot] = x] /\ x = Idle
    BY <1>4 DEF BootResumed
  <2>5. x.run \in Runs /\ x.pc = "idle"
    BY <2>4, IdleType DEF Idle, Thread
  <2>6. ThreadInv(x)
    BY <2>5 DEF ThreadInv, ExitedPCs, FailPCs
  <2>7. (\A q \in Runs : RowInv(q)') /\ (\A q \in Threads : ThreadInv(th[q])') /\ Closed
    BY <1>0, <2>2, <2>4, <2>5, <2>6, ThreadOnly
  <2>8. th'[Boot] = x /\ \A q \in Threads : q # Boot => th'[q] = th[q]
    BY <1>0, <2>4, LifeFacts
  <2>9. PhaseInv'
    BY <1>0, <2>2, <2>3, <2>5, <2>8 DEF LaunchInv, PhaseInv, Rows, lifeVars, Opening, Early, Made, Past
  <2> QED
    BY <2>7, <2>9 DEF LaunchInv
<1> QED
  BY <1>1, <1>2, <1>3, <1>4, ScanRunLaunch, ScanPublishLaunch, DieLaunch DEF BootStep, BootFails

LEMMA InitLaunch == Init => LaunchInv
<1> SUFFICES ASSUME Init PROVE LaunchInv
  OBVIOUS
<1>1. NotFinalizing.by = "none" /\ NotFinalizing.step = "idle" /\ Idle.pc = "idle"
  BY DEF NotFinalizing, Idle
<1>2. \A r \in Runs : RowInv(r)
  BY <1>1 DEF Init, LifeInit, RowInv, Unclaimed, Opening, Early, Made
<1>3. \A p \in Threads : ThreadInv(th[p])
  BY <1>1 DEF Init, ThreadInv, ExitedPCs, FailPCs
<1>4. PhaseInv
  BY <1>1 DEF Init, PhaseInv, Threads
<1> QED
  BY <1>2, <1>3, <1>4 DEF LaunchInv

LEMMA NextLaunch ==
  TypeInv /\ ContractInv /\ LaunchInv /\ [Next]_vars => LaunchInv' /\ Closed
<1> SUFFICES ASSUME TypeInv, ContractInv, LaunchInv, [Next]_vars PROVE LaunchInv' /\ Closed
  OBVIOUS
<1>1. CASE UNCHANGED vars
  <2>1. UNCHANGED lifeVars /\ th' = th /\ phase' = phase /\ todo' = todo
    BY <1>1 DEF vars, launchVars
  <2>2. \A r \in Runs : Same(r)
    BY <2>1 DEF lifeVars, Same
  <2>3. \A r \in Runs : RowInv(r)'
    BY <2>1, <2>2, SameRow DEF LaunchInv
  <2>4. ASSUME NEW q \in Threads PROVE ThreadInv(th[q])'
    <3>1. PICK y : y = th[q]
      OBVIOUS
    <3>2. ThreadInv(y) /\ th'[q] = y /\ y.run \in Runs
      BY <2>1, <3>1, ThreadFacts DEF LaunchInv
    <3>3. ThreadInv(y)'
      BY <2>1, <2>2, <3>2, SameThread
    <3> QED
      BY <3>2, <3>3
  <2>5. PhaseInv'
    BY <2>1 DEF LaunchInv, PhaseInv, Rows, lifeVars
  <2> QED
    BY <2>1, <2>3, <2>4, <2>5 DEF LaunchInv, Closed, lifeVars
<1>2. CASE Next
  BY <1>2, RunLaunch, RequestLaunch, CreateIntentLaunch, AnswerLaunch, ResumeLaunch, BootLaunch, DieLaunch
  DEF Next, Crash
<1> QED
  BY <1>1, <1>2

LEMMA ContractInvariant == Spec => [](TypeInv /\ ContractInv)
<1>1. Init => ContractInv
  BY InitContract
<1>2. TypeInv /\ ContractInv /\ [Next]_vars => ContractInv'
  BY NextContract
<1> QED
  BY <1>1, <1>2, TypeInvariant, PTL DEF Spec

LEMMA LaunchInvariant == Spec => [](TypeInv /\ ContractInv /\ LaunchInv)
<1>1. TypeInv /\ ContractInv /\ LaunchInv /\ [Next]_vars => LaunchInv'
  BY NextLaunch
<1> QED
  BY <1>1, InitLaunch, ContractInvariant, PTL DEF Spec

\* However often a launch is retried, resumed after a crash or interrupted by a
\* failing call, and whatever is stopped or cleaned up meanwhile, the worker of
\* a run is started at most once (resumeLaunchIntent, DockerBackend.adopt).
THEOREM WorkerStartedOnce == Spec => []StartedOnce
<1>1. LaunchInv => StartedOnce
  BY DEF LaunchInv, RowInv, StartedOnce
<1> QED
  BY <1>1, LaunchInvariant, PTL

\* No step reopens a row that is terminal: neither a launch that is still being
\* committed while the run is finalized, nor a replay, nor a restart
\* (resumeLaunchIntent, finalizeTerminalRun, reconcileLaunchIntents).
THEOREM TerminalIsFinal == Spec => TerminalIntentStays
<1>1. TypeInv /\ ContractInv /\ LaunchInv /\ [Next]_vars =>
        [\A r \in Runs : istate[r] = "terminal" => istate'[r] = "terminal"]_vars
  BY NextLaunch DEF Closed
<1> QED
  BY <1>1, LaunchInvariant, PTL DEF Spec, TerminalIntentStays

-----------------------------------------------------------------------------
(* While no call fails.                                                    *)

\* The watchers that the run needs are there.
Watched(r) ==
    /\ runs[r] = "running" /\ wk[r]["exit"] = "armed"
    /\ wk[r]["timeout"] = "armed" \/ fin[r].by # "none"

\* A terminal outcome is decided, and a cleanup goes on, only once the worker
\* is over; while it runs its row holds the slot of the profile.
CalmRun(r) ==
    /\ fin[r].step \notin {"idle", "update"} => Over(r)
    /\ wk[r]["cleanup"] = "busy" => cont[r] # "running"
    /\ cont[r] = "running" => istate[r] \in {"start_pending", "running"}

CalmThread(x) ==
    /\ x.pc \in FailPCs => starts[x.run] = 0
    /\ x.pc = "inspect" /\ cont[x.run] = "running" => runs[x.run] = "running"
    /\ x.pc = "await" => cont[x.run] # "running"

\* Somebody looks after a running worker: its watchers, the launch that is
\* about to start them, or Reconcile, which has still to come to it.
Attended(r) ==
    cont[r] = "running" =>
        /\ phase = "up" => Watched(r) \/ \E p \in Threads : th[p].run = r /\ th[p].pc \in CommitPCs
        /\ phase = "resume" => r \in todo \/ Watched(r)
        /\ th[Boot].pc = "done" /\ th[Boot].run = r => Watched(r)

Calm ==
    /\ \A r \in Runs : CalmRun(r) /\ Attended(r)
    /\ \A p \in Threads : CalmThread(th[p])

\* Calls, watchers and finalizations leave a running worker to its watchers.
LEMMA RunCalm ==
  ASSUME TypeInv, NEW r \in Runs, RowInv(r), CalmRun(r), RunStep(r), faults = 0, faults' = 0,
         phase = "up" /\ cont[r] = "running" => runs[r] \in {"running", "absent"}
  PROVE  /\ CalmRun(r)'
         /\ cont'[r] = "running" => /\ cont[r] = "running"
                                    /\ runs[r] = "running" => runs'[r] = "running"
                                    /\ Watched(r) => Watched(r)'
<1>0. ~Fault /\ starts'[r] = starts[r]
  BY ClaimedStep DEF Fault
<1>1. cont'[r] = "running" => cont[r] = "running" /\ istate'[r] = istate[r]
  BY ClaimedStep DEF CalmRun, Over, Exited
<1>2. ASSUME NEW w, NEW step, NEW next, Claim(r, w, step, next)
      PROVE  /\ runs[r] = "running" => runs'[r] = "running"
             /\ fin'[r] # fin[r] => /\ starts[r] = 1 /\ fin[r].by = "none" /\ runs'[r] = "running"
                                    /\ fin'[r].by = w /\ fin'[r].step = step
             /\ \A v \in Workers : v # w => wk'[r][v] = wk[r][v]
             /\ runs[r] = "running" => fin'[r].by # "none" \/ w = "none"
  BY <1>2, LifeFacts DEF Claim, LookupRun, RowInv
<1>3. "exit" \in Workers /\ "timeout" \in Workers /\ "cleanup" \in Workers /\ fin[r] \in Finalizer
  BY LifeFacts DEF Workers
<1>4. Over(r) \/ cont[r] = "running" \/ starts[r] = 0
  BY DEF RowInv, Over
<1>5. fin[r].step # "idle" => starts[r] = 1
  BY DEF RowInv
<1>6. SUFFICES /\ fin'[r].step \notin {"idle", "update"} => Over(r)'
               /\ wk'[r]["cleanup"] = "busy" => cont'[r] # "running"
               /\ cont'[r] = "running" => /\ runs[r] = "running" => runs'[r] = "running"
                                          /\ Watched(r) => Watched(r)'
  BY <1>1 DEF CalmRun
<1>7. CASE WorkerExits(r) \/ DeadlinePasses(r)
  BY <1>0, <1>7, LifeFacts DEF WorkerExits, DeadlinePasses, durable, docker, CalmRun, Over, Watched, Exited
<1>8. CASE MarkTimedOut(r)
  BY <1>0, <1>3, <1>4, <1>5, <1>8, LifeFacts
  DEF MarkTimedOut, Decide, durable, CalmRun, Over, Watched, Exited, Halted, RowInv, Finalizer
<1>9. CASE StopUpdate(r)
  BY <1>0, <1>3, <1>4, <1>5, <1>9, LifeFacts
  DEF StopUpdate, Decide, Release, durable, CalmRun, Over, Watched, Exited, RowInv, Finalizer, NotFinalizing
<1>10. CASE PersistTerminal(r)
  BY <1>0, <1>3, <1>10, LifeFacts
  DEF PersistTerminal, Advance, Release, docker, CalmRun, Over, NotFinalizing
<1>11. CASE PublishInMemory(r)
  BY <1>0, <1>3, <1>11, LifeFacts
  DEF PublishInMemory, Advance, Release, docker, CalmRun, Over, NotFinalizing
<1>12. CASE WriteMetadata(r)
  BY <1>0, <1>3, <1>12, LifeFacts
  DEF WriteMetadata, Advance, Release, docker, CalmRun, Over, NotFinalizing
<1>13. CASE SaveFinal(r)
  BY <1>0, <1>3, <1>13, LifeFacts
  DEF SaveFinal, Release, docker, CalmRun, Over, NotFinalizing
<1>14. CASE WatchExit(r)
  BY <1>0, <1>2, <1>3, <1>14, LifeFacts
  DEF WatchExit, docker, CalmRun, Over, Watched, Exited, Halted, RowInv
<1>15. CASE WatchTimeout(r)
  BY <1>0, <1>2, <1>3, <1>15, LifeFacts
  DEF WatchTimeout, docker, CalmRun, Over, Watched
<1>16. CASE CleanupDirectory(r)
  BY <1>0, <1>3, <1>16, LifeFacts
  DEF CleanupDirectory, docker, CalmRun, Over
<1>17. CASE GetAgentStatus(r)
  <2>1. cont' = cont /\ runs[r] = "running"
    BY <1>17 DEF GetAgentStatus, docker
  <2>2. CASE Claim(r, "poll", "update", "running")
    BY <1>0, <1>2, <1>3, <2>1, <2>2 DEF CalmRun, Over, Watched
  <2>3. CASE cont[r] \in Halted /\ Claim(r, "poll", "persist", ExitOutcome(cont[r]))
    BY <1>0, <1>2, <1>3, <2>1, <2>3 DEF CalmRun, Over, Exited, Halted, RowInv
  <2> QED
    BY <1>17, <2>2, <2>3 DEF GetAgentStatus
<1>18. CASE StopAgent(r)
  BY <1>0, <1>2, <1>3, <1>18, LifeFacts
  DEF StopAgent, docker, CalmRun, Over, Watched
<1>19. CASE phase = "up" /\ CleanupContainer(r)
  BY <1>0, <1>3, <1>19, LifeFacts
  DEF CleanupContainer, ClientCall, HasContainerID, CalmRun, Over, Watched
<1>20. CASE GiveUp(r)
  BY <1>0, <1>3, <1>20, LifeFacts
  DEF GiveUp, docker, CalmRun, Over, Watched
<1> QED
  BY <1>7, <1>8, <1>9, <1>10, <1>11, <1>12, <1>13, <1>14, <1>15, <1>16, <1>17, <1>18, <1>19, <1>20
  DEF RunStep, Finalize, Watch, Client

LEMMA SameCalm ==
  ASSUME NEW r \in Runs, Same(r)
  PROVE  /\ CalmRun(r) => CalmRun(r)'
         /\ Watched(r)' <=> Watched(r)
         /\ \A x : x.run = r /\ CalmThread(x) => CalmThread(x)'
  BY DEF Same, CalmRun, Watched, CalmThread, Over

LEMMA RunStepCalm ==
  ASSUME TypeInv, LaunchInv, Calm, NEW r \in Runs, RunStep(r), faults = 0, faults' = 0
  PROVE  Calm'
<1>1. th' = th /\ phase' = phase /\ todo' = todo
  BY DEF RunStep, launchVars
<1>2. RowInv(r) /\ CalmRun(r) /\ Attended(r)
  BY DEF LaunchInv, Calm
<1>3. phase = "up" /\ cont[r] = "running" => runs[r] \in {"running", "absent"}
  <2>1. ASSUME NEW p \in Threads, th[p].run = r, th[p].pc \in CommitPCs PROVE Unclaimed(r)
    BY <2>1 DEF LaunchInv, ThreadInv, CommitPCs
  <2> QED
    BY <1>2, <2>1 DEF Attended, Watched, Unclaimed
<1>4. /\ CalmRun(r)'
      /\ cont'[r] = "running" => /\ cont[r] = "running"
                                 /\ runs[r] = "running" => runs'[r] = "running"
                                 /\ Watched(r) => Watched(r)'
  BY <1>2, <1>3, RunCalm
<1>5. ASSUME NEW q \in Runs PROVE CalmRun(q)' /\ Attended(q)'
  <2>1. CASE q = r
    <3>1. Attended(r)'
      BY <1>1, <1>2, <1>4 DEF Attended
    <3> QED
      BY <1>4, <2>1, <3>1
  <2>2. CASE q # r
    <3>1. Same(q)
      BY <2>2, RunElsewhere
    <3>2. CalmRun(q)' /\ (Watched(q)' <=> Watched(q)) /\ cont'[q] = cont[q]
      BY <3>1, SameCalm DEF Calm, Same
    <3> QED
      BY <1>1, <3>2 DEF Calm, Attended
  <2> QED
    BY <2>1, <2>2
<1>6. ASSUME NEW p \in Threads PROVE CalmThread(th[p])'
  <2>1. PICK x : x = th[p]
    OBVIOUS
  <2>2. x.run \in Runs /\ CalmThread(x) /\ th'[p] = x
    BY <1>1, <2>1, ThreadFacts DEF Calm
  <2>3. CalmThread(x)'
    <3>1. CASE x.run = r
      <4>1. starts'[r] = starts[r]
        BY ClaimedStep
      <4> QED
        BY <1>4, <2>2, <3>1, <4>1 DEF CalmThread
    <3>2. CASE x.run # r
      BY <2>2, <3>2, RunElsewhere, SameCalm
    <3> QED
      BY <3>1, <3>2
  <2> QED
    BY <2>2, <2>3
<1> QED
  BY <1>5, <1>6 DEF Calm

\* What a step of the launch of run r must leave behind.
Keeps(p, r, x) ==
    cont'[r] = "running" =>
        /\ phase = "up" => Watched(r)' \/ x.pc \in CommitPCs
        /\ phase = "resume" => r \in todo \/ Watched(r)'
        /\ p = Boot /\ x.pc = "done" => Watched(r)'

LEMMA CalmFrame ==
  ASSUME TypeInv, ContractInv, LaunchInv, Calm, NEW p \in Threads, NEW r \in Runs, r = th[p].run,
         th[p].pc \in WorkPCs, NEW x, x.run = r, th' = [th EXCEPT ![p] = x],
         phase' = phase, todo' = todo, \A q \in Runs : q # r => Same(q),
         CalmRun(r)', CalmThread(x)', Keeps(p, r, x)
  PROVE  Calm'
<1>0. th'[p] = x /\ \A q \in Threads : q # p => th'[q] = th[q]
  BY LifeFacts
<1>1. \A q \in Threads : q # p /\ th[q].run = r => th[q].pc \notin WorkPCs
  BY Alone
<1>2. p # Boot => phase = "up" /\ th[Boot].pc = "idle"
  <2>1. th[p].pc # "idle"
    BY DEF WorkPCs
  <2> QED
    BY <2>1 DEF LaunchInv, PhaseInv, Threads
<1>3. Boot \in Threads
  BY DEF Threads
<1>4. Attended(r)'
  <2>1. CASE p = Boot
    BY <1>0, <2>1 DEF Keeps, Attended
  <2>2. CASE p # Boot
    BY <1>0, <1>2, <1>3, <2>2 DEF Keeps, Attended
  <2> QED
    BY <2>1, <2>2
<1>5. ASSUME NEW q \in Runs, q # r PROVE CalmRun(q)' /\ Attended(q)'
  <2>1. CalmRun(q)' /\ (Watched(q)' <=> Watched(q)) /\ cont'[q] = cont[q]
    BY <1>5, SameCalm DEF Calm, Same
  <2>2. \A s \in Threads : th[s].run = q => th'[s] = th[s]
    BY <1>0, <1>5
  <2>3. th'[Boot].run = q => th'[Boot] = th[Boot]
    BY <1>0, <1>3, <1>5
  <2>4. Attended(q)
    BY DEF Calm
  <2>5. Attended(q)'
    BY <2>1, <2>2, <2>3, <2>4 DEF Attended
  <2> QED
    BY <2>1, <2>5
<1>6. ASSUME NEW q \in Threads PROVE CalmThread(th[q])'
  <2>1. CASE q = p
    BY <1>0, <2>1
  <2>2. CASE q # p
    <3>1. PICK y : y = th[q]
      OBVIOUS
    <3>2. y.run \in Runs /\ CalmThread(y) /\ th'[q] = y
      BY <1>0, <2>2, <3>1, ThreadFacts DEF Calm
    <3>3. CalmThread(y)'
      <4>1. CASE y.run # r
        BY <3>2, <4>1, SameCalm
      <4>2. CASE y.run = r
        <5>1. y.pc \notin FailPCs \cup {"inspect", "await"}
          BY <1>1, <2>2, <3>1, <4>2 DEF WorkPCs, PCs, FailPCs
        <5> QED
          BY <5>1 DEF CalmThread
      <4> QED
        BY <4>1, <4>2
    <3> QED
      BY <3>2, <3>3
  <2> QED
    BY <2>1, <2>2
<1> QED
  BY <1>4, <1>5, <1>6 DEF Calm

LEMMA Moves ==
  ASSUME TypeInv, NEW p \in Threads, NEW pc,
         \/ Goto(p, pc)
         \/ \E st, out : Hold(p, pc, st, out)
         \/ \E c : Learn(p, pc, c)
  PROVE  th'[p].pc = pc
<1>1. th[p] \in Thread /\ th \in [Threads -> Thread]
  BY LifeFacts
<1>2. CASE Goto(p, pc)
  BY <1>1, <1>2 DEF Goto, Thread
<1>3. CASE \E st, out : Hold(p, pc, st, out)
  BY <1>1, <1>3 DEF Hold, Thread
<1>4. CASE \E c : Learn(p, pc, c)
  BY <1>1, <1>4 DEF Learn, Thread
<1> QED
  BY <1>2, <1>3, <1>4

\* The worker of the run does not run: there is nothing to look after.
LEMMA AtRest ==
  ASSUME NEW p, NEW r, NEW x, x.run = r, cont'[r] # "running",
         fin'[r].step \notin {"idle", "update"} => Over(r)',
         x.pc \in FailPCs => starts'[r] = 0
  PROVE  CalmRun(r)' /\ CalmThread(x)' /\ Keeps(p, r, x)
  BY DEF CalmRun, CalmThread, Keeps

\* The launch of a worker that runs goes on, and leaves it to those who looked
\* after it before.
LEMMA StillWatched ==
  ASSUME NEW p, NEW r, NEW x, x.run = r, CalmRun(r), Watched(r) => Watched(r)',
         cont'[r] = cont[r], starts'[r] = starts[r], fin'[r] = fin[r],
         wk'[r]["cleanup"] = wk[r]["cleanup"],
         istate'[r] = istate[r] \/ istate'[r] = "running",
         x.pc \notin FailPCs \cup {"await"}, x.pc = "inspect" => runs'[r] = "running",
         cont[r] = "running" =>
            /\ phase = "up" => Watched(r) \/ x.pc \in CommitPCs
            /\ phase = "resume" => r \in todo \/ Watched(r)
            /\ p = Boot => x.pc # "done"
  PROVE  CalmRun(r)' /\ CalmThread(x)' /\ Keeps(p, r, x)
  BY DEF CalmRun, CalmThread, Keeps, Over

\* A claim that decides an outcome comes after the worker's end.
LEMMA ClaimOver ==
  ASSUME TypeInv, NEW r \in Runs, RowInv(r), CalmRun(r), NEW w, NEW step, NEW next,
         Claim(r, w, step, next), cont' = cont, starts' = starts, cont[r] # "running"
  PROVE  fin'[r].step \notin {"idle", "update"} => Over(r)'
<1>1. fin'[r] # fin[r] => starts[r] = 1
  BY LifeFacts DEF Claim, LookupRun, RowInv
<1> QED
  BY <1>1 DEF CalmRun, Over, RowInv

LEMMA ResumeCalm ==
  ASSUME TypeInv, ContractInv, LaunchInv, Calm, NEW p \in Threads, ResumeStep(p),
         faults = 0, faults' = 0
  PROVE  Calm'
<1>0. ~Fault
  BY DEF Fault
<1>1. PICK r \in Runs : r = th[p].run
  BY ThreadFacts
<1>2. RowInv(r) /\ ThreadInv(th[p]) /\ CalmRun(r) /\ CalmThread(th[p]) /\ Attended(r)
  BY DEF LaunchInv, Calm
<1>3. Sound(p, r)
  BY <1>1, <1>2, RunningSound, PrepareSound, SaveStepsSound, CreateSound, ReinspectSound, StartSound,
     CommitSound, ExitedSound, FailSound DEF ResumeStep
<1>4. PICK x : th' = [th EXCEPT ![p] = x] /\ x.run = r
  BY <1>3 DEF Sound
<1>5. th'[p] = x
  BY <1>4, LifeFacts
<1>6. /\ th[p].pc \in WorkPCs /\ phase' = phase /\ todo' = todo
      /\ \A q \in Runs : q # r => Same(q)
  BY <1>1, ResumeElsewhere
<1>7. (p = Boot => phase = "resume") /\ (p # Boot => phase = "up")
  BY <1>6 DEF LaunchInv, PhaseInv, Threads, WorkPCs
<1>8. cont[r] = "running" =>
         /\ phase = "up" => Watched(r) \/ th[p].pc \in CommitPCs
         /\ phase = "resume" => r \in todo \/ Watched(r)
  <2>1. ASSUME NEW q \in Threads, th[q].run = r, th[q].pc \in CommitPCs PROVE q = p
    BY <1>1, <1>6, <2>1, Alone DEF CommitPCs, WorkPCs, PCs
  <2> QED
    BY <1>2, <2>1 DEF Attended
<1>9. istate[r] \in Opening /\ phase = "resume" => r \in todo
  BY DEF LaunchInv, PhaseInv
<1> SUFFICES CalmRun(r)' /\ CalmThread(x)' /\ Keeps(p, r, x)
  BY <1>1, <1>4, <1>6, CalmFrame
<1>10. CASE PublishRunning(p)
  <2>1. x.pc = "inspect" /\ th[p].pc = "publish" /\ th[p].out = "running"
    BY <1>2, <1>5, <1>10, Moves DEF PublishRunning, ThreadInv
  <2>2. runs'[r] = "running" /\ UNCHANGED <<cont, starts, istate, fin, wk>>
    BY <1>1, <1>10, <2>1, LifeFacts DEF PublishRunning, docker, durable
  <2> QED
    BY <1>2, <1>4, <1>8, <2>1, <2>2, StillWatched DEF FailPCs, CommitPCs, Watched
<1>11. CASE InspectRunning(p)
  <2>1. UNCHANGED <<cont, starts, istate>> /\ th[p].pc = "inspect"
    BY <1>11 DEF InspectRunning, docker, durable
  <2>2. CASE cont[r] # "running"
    <3>1. x.pc \in {"error", "await"}
      BY <1>0, <1>1, <1>5, <1>11, <2>2, Moves DEF InspectRunning
    <3>2. fin'[r].step \notin {"idle", "update"} => Over(r)'
      <4>1. CASE fin' = fin
        BY <1>2, <2>1, <4>1 DEF CalmRun, Over
      <4>2. CASE Claim(r, "resume", "persist", ExitOutcome(cont[r]))
        BY <1>2, <2>1, <2>2, <4>2, ClaimOver
      <4> QED
        BY <1>1, <1>11, <4>1, <4>2 DEF InspectRunning
    <3> QED
      BY <1>4, <2>1, <2>2, <3>1, <3>2, AtRest DEF FailPCs
  <2>3. CASE cont[r] = "running"
    <3>1. runs[r] = "running" /\ runs' = runs /\ fin' = fin /\ x.pc = "done"
      BY <1>0, <1>1, <1>2, <1>5, <1>11, <2>1, <2>3, Moves DEF InspectRunning, CalmThread, Halted, Exited
    <3>2. CASE p = Boot
      <4>1. Arm(r)
        BY <1>0, <1>1, <1>11, <2>3, <3>2 DEF InspectRunning, Recovering, Halted, Exited
      <4>2. Watched(r)' /\ wk'[r]["cleanup"] = wk[r]["cleanup"]
        BY <3>1, <4>1, LifeFacts DEF Arm, Watched, Workers
      <4> QED
        BY <1>2, <1>4, <2>1, <3>1, <4>2 DEF CalmRun, CalmThread, Keeps, Over, FailPCs
    <3>3. CASE p # Boot
      <4>1. wk' = wk
        BY <1>0, <1>1, <1>11, <2>3, <3>3 DEF InspectRunning, Recovering, Halted, Exited
      <4> QED
        BY <1>2, <1>4, <1>8, <2>1, <2>3, <3>1, <3>3, <4>1
        DEF CalmRun, CalmThread, Keeps, Over, FailPCs, CommitPCs, Watched
    <3> QED
      BY <3>2, <3>3
  <2> QED
    BY <2>2, <2>3
<1>12. CASE Await(p)
  <2>1. UNCHANGED <<cont, starts, fin>> /\ cont[r] # "running" /\ x.pc \in {"done", "error"}
    BY <1>1, <1>2, <1>5, <1>12, Moves DEF Await, docker, CalmThread
  <2> QED
    BY <1>2, <1>4, <2>1, AtRest DEF FailPCs, CalmRun, Over
<1>13. CASE Prepare(p)
  <2>1. UNCHANGED <<cont, starts, istate, runs, fin, wk>> /\ th[p].pc = "prepare"
    BY <1>13 DEF Prepare, docker
  <2>2. x.pc \in {"reinspect", "save_create"}
    <3> DEFINE pc == IF Created(th[p].st) THEN "reinspect" ELSE "save_create"
               hd == IF ~Created(th[p].st) /\ Mints THEN minted + 1 ELSE 0
    <3>1. th' = [th EXCEPT ![p] = [@ EXCEPT !.pc = pc, !.hd = hd]]
      BY <1>0, <1>13 DEF Prepare
    <3> HIDE DEF hd
    <3> QED
      BY <1>5, <3>1, LifeFacts DEF Thread
  <2> QED
    BY <1>2, <1>4, <1>8, <2>1, <2>2, StillWatched DEF FailPCs, CommitPCs, Watched
<1>14. CASE Reinspect(p)
  <2>1. UNCHANGED <<cont, starts, istate, runs, fin, wk>> /\ th[p].pc = "reinspect"
    BY <1>14 DEF Reinspect, docker, durable
  <2>2. CASE cont[r] = "running"
    <3>1. x.pc = "commit_save"
      BY <1>0, <1>1, <1>5, <1>14, <2>2, Moves DEF Reinspect, Follow, Exited
    <3> QED
      BY <1>2, <1>4, <1>8, <2>1, <3>1, StillWatched DEF FailPCs, CommitPCs, Watched
  <2>3. CASE cont[r] # "running"
    <3>1. x.pc \in {"error", "commit_save", "exited_publish", "save_start"}
      BY <1>5, <1>14, Moves, FollowType DEF Reinspect
    <3> QED
      BY <1>2, <1>4, <2>1, <2>3, <3>1, AtRest DEF FailPCs, CalmRun, Over
  <2> QED
    BY <2>2, <2>3
<1>15. CASE SaveCreatePending(p) \/ SaveContainerCreated(p) \/ SaveStartPending(p)
  <2>1. UNCHANGED <<cont, starts, fin>>
    BY <1>15 DEF SaveCreatePending, SaveContainerCreated, SaveStartPending, SaveStep, docker
  <2>2. starts[r] = 0
    BY <1>1, <1>2, <1>15
    DEF SaveCreatePending, SaveContainerCreated, SaveStartPending, SaveStep, ThreadInv, RowInv, Early
  <2>3. cont[r] # "running"
    BY <1>2, <2>2 DEF RowInv
  <2> QED
    BY <1>2, <1>4, <2>1, <2>2, <2>3, AtRest DEF CalmRun, Over
<1>16. CASE RuntimeCreate(p)
  <2>1. UNCHANGED <<starts, fin>> /\ cont'[r] \in {cont[r], "created"}
    BY <1>1, <1>16, LifeFacts DEF RuntimeCreate
  <2>2. starts[r] = 0
    BY <1>1, <1>2, <1>16 DEF RuntimeCreate, ThreadInv, RowInv, Early
  <2>3. cont[r] # "running" /\ ~Over(r)
    BY <1>2, <2>2 DEF RowInv, Over
  <2> QED
    BY <1>2, <1>4, <2>1, <2>2, <2>3, AtRest DEF CalmRun
<1>17. CASE RuntimeStart(p)
  <2>1. istate[r] = "start_pending" /\ starts[r] = 0 /\ cont[r] = "created"
    BY <1>1, <1>2, <1>17 DEF RuntimeStart, ThreadInv, RowInv, Made
  <2>2. UNCHANGED <<istate, fin, wk>> /\ x.pc = "commit_save" /\ cont'[r] = "running"
    BY <1>0, <1>1, <1>5, <1>17, <2>1, Moves, LifeFacts DEF RuntimeStart, durable
  <2>3. wk[r]["cleanup"] = "off" /\ fin[r].step = "idle"
    BY <1>2, <2>1 DEF RowInv, Over, Unclaimed, Opening, Made, Workers
  <2> QED
    BY <1>4, <1>7, <1>9, <2>1, <2>2, <2>3
    DEF CalmRun, CalmThread, Keeps, FailPCs, CommitPCs, Opening, Made
<1>18. CASE CommitSave(p)
  <2>1. /\ UNCHANGED <<cont, starts, runs, fin, wk>>
        /\ istate'[r] = istate[r] \/ istate'[r] = "running"
    BY <1>1, <1>18, LifeFacts DEF CommitSave, SaveStep, SaveIntent, docker
  <2>2. x.pc = "commit_file"
    BY <1>0, <1>5, <1>18, Moves DEF CommitSave, SaveStep
  <2> QED
    BY <1>2, <1>4, <1>8, <2>1, <2>2, StillWatched DEF FailPCs, CommitPCs, Watched
<1>19. CASE CommitFile(p)
  <2>1. UNCHANGED <<cont, starts, istate, runs, fin, wk>>
    BY <1>19 DEF CommitFile, WriteFileStep, docker
  <2>2. x.pc = "commit_store"
    BY <1>0, <1>5, <1>19, Moves DEF CommitFile, WriteFileStep
  <2> QED
    BY <1>2, <1>4, <1>8, <2>1, <2>2, StillWatched DEF FailPCs, CommitPCs, Watched
<1>20. CASE CommitStore(p)
  <2>1. /\ UNCHANGED <<cont, starts, fin>> /\ runs'[r] = "running" /\ Arm(r) /\ x.pc = "done"
        /\ istate'[r] = istate[r] \/ istate'[r] = "running"
    BY <1>0, <1>1, <1>5, <1>20, Moves, LifeFacts DEF CommitStore, SaveIntent, docker
  <2>2. Watched(r)' /\ wk'[r]["cleanup"] = wk[r]["cleanup"]
    BY <2>1, LifeFacts DEF Arm, Watched, Workers
  <2> QED
    BY <1>2, <1>4, <2>1, <2>2 DEF CalmRun, CalmThread, Keeps, Over, FailPCs
<1>21. CASE ExitedPublish(p) \/ ExitedClaim(p) \/ ExitedSave(p)
  <2>1. UNCHANGED <<cont, starts>>
    BY <1>21 DEF ExitedPublish, ExitedClaim, ExitedSave, docker
  <2>2. Over(r)
    BY <1>1, <1>2, <1>21 DEF ExitedPublish, ExitedClaim, ExitedSave, ThreadInv, ExitedPCs
  <2>3. x.pc \notin FailPCs
    BY <1>5, <1>21, Moves DEF ExitedPublish, ExitedClaim, ExitedSave, FailPCs
  <2> QED
    BY <1>4, <2>1, <2>2, <2>3, AtRest DEF Over
<1>22. CASE FailResult(p) \/ FailFile(p) \/ FailStore(p)
  <2>1. UNCHANGED <<cont, starts, fin>> /\ th[p].pc \in FailPCs
    BY <1>22 DEF FailResult, FailFile, FailStore, WriteFileStep, docker, FailPCs
  <2>2. starts[r] = 0
    BY <1>1, <1>2, <2>1 DEF CalmThread
  <2>3. cont[r] # "running"
    BY <1>2, <2>2 DEF RowInv
  <2> QED
    BY <1>2, <1>4, <2>1, <2>2, <2>3, AtRest DEF CalmRun, Over
<1> QED
  BY <1>10, <1>11, <1>12, <1>13, <1>14, <1>15, <1>16, <1>17, <1>18, <1>19, <1>20, <1>21, <1>22
  DEF ResumeStep

\* One goroutine begins or ends, and no worker loses the launch that looks
\* after it.
LEMMA ThreadCalmly ==
  ASSUME TypeInv, Calm, NEW p \in Threads, NEW x, th' = [th EXCEPT ![p] = x], UNCHANGED lifeVars,
         phase' = phase, th[p].pc \notin CommitPCs, CalmThread(x),
         \A r \in Runs : r \in todo => r \in todo' \/ Watched(r) \/ cont[r] # "running",
         p = Boot /\ x.pc = "done" => cont[x.run] # "running"
  PROVE  Calm'
<1>0. th'[p] = x /\ \A q \in Threads : q # p => th'[q] = th[q]
  BY LifeFacts
<1>1. \A r \in Runs : Same(r)
  BY DEF lifeVars, Same
<1>2. ASSUME NEW r \in Runs PROVE CalmRun(r)' /\ Attended(r)'
  <2>1. CalmRun(r)' /\ (Watched(r)' <=> Watched(r)) /\ cont'[r] = cont[r] /\ Attended(r)
    BY <1>1, SameCalm DEF Calm, Same
  <2>2. \A q \in Threads : th[q].run = r /\ th[q].pc \in CommitPCs => th'[q] = th[q]
    BY <1>0
  <2>3. th'[Boot] = th[Boot] \/ (th'[Boot] = x /\ p = Boot)
    BY <1>0 DEF Threads
  <2>4. Attended(r)'
    BY <2>1, <2>2, <2>3 DEF Attended
  <2> QED
    BY <2>1, <2>4
<1>3. ASSUME NEW q \in Threads PROVE CalmThread(th[q])'
  <2>1. PICK y : y = IF q = p THEN x ELSE th[q]
    OBVIOUS
  <2>2. th'[q] = y /\ CalmThread(y)
    BY <1>0, <2>1 DEF Calm
  <2>3. CalmThread(y)'
    BY <2>2 DEF CalmThread, lifeVars
  <2> QED
    BY <2>2, <2>3
<1> QED
  BY <1>2, <1>3 DEF Calm

LEMMA RequestCalm ==
  ASSUME TypeInv, LaunchInv, Calm, NEW c \in Callers, NEW k \in Keys, NEW f \in Fps, Request(c, k, f)
  PROVE  Calm'
<1>0. c \in Threads /\ c # Boot
  BY BootNotCaller DEF Threads
<1>1. /\ phase' = phase /\ todo' = todo /\ UNCHANGED lifeVars /\ th[c].pc = "idle"
  BY DEF Request, procVars
<1>2. PICK x : th' = [th EXCEPT ![c] = x] /\ x.pc \in {"create_intent", "error", "done", "publish", "prepare"}
  <2>1. ASSUME NEW r PROVE Snapshot(r, k, f).pc \in {"done", "publish", "prepare"}
    BY DEF Snapshot, Entry
  <2>2. /\ [Idle EXCEPT !.pc = "error", !.key = k].pc = "error"
        /\ [Idle EXCEPT !.pc = "create_intent", !.key = k, !.fp = f].pc = "create_intent"
    BY DEF Idle
  <2>3. CASE \E r \in RowsOf(k) : th' = [th EXCEPT ![c] = Snapshot(r, k, f)]
    BY <2>1, <2>3
  <2>4. CASE th' = [th EXCEPT ![c] = [Idle EXCEPT !.pc = "error", !.key = k]]
    BY <2>2, <2>4
  <2>5. CASE th' = [th EXCEPT ![c] = [Idle EXCEPT !.pc = "create_intent", !.key = k, !.fp = f]]
    BY <2>2, <2>5
  <2> QED
    BY <2>3, <2>4, <2>5 DEF Request
<1>3. CalmThread(x)
  BY <1>2 DEF CalmThread, FailPCs
<1> QED
  BY <1>0, <1>1, <1>2, <1>3, ThreadCalmly DEF CommitPCs

LEMMA IdleCalm == CalmThread(Idle)
<1>1. Idle.pc = "idle"
  BY DEF Idle
<1> QED
  BY <1>1 DEF CalmThread, FailPCs

LEMMA AnswerCalm ==
  ASSUME TypeInv, LaunchInv, Calm, NEW c \in Callers, Answer(c)
  PROVE  Calm'
<1>0. c \in Threads /\ c # Boot
  BY BootNotCaller DEF Threads
<1>1. /\ phase' = phase /\ todo' = todo /\ UNCHANGED lifeVars /\ th[c].pc \in {"done", "error"}
      /\ th' = [th EXCEPT ![c] = Idle]
  BY DEF Answer, procVars
<1> QED
  BY <1>0, <1>1, IdleCalm, ThreadCalmly DEF CommitPCs

LEMMA CreateIntentCalm ==
  ASSUME TypeInv, LaunchInv, Calm, NEW c \in Callers, NEW r \in Runs, CreateIntent(c, r)
  PROVE  Calm'
<1>0. c \in Threads /\ c # Boot
  BY BootNotCaller DEF Threads
<1>1. /\ th[c].pc = "create_intent" /\ phase' = phase /\ todo' = todo
      /\ UNCHANGED <<cont, starts, runs, fin, wk>>
  BY DEF CreateIntent, docker, procVars
<1>2. \A q \in Runs : istate'[q] = istate[q] \/ cont[q] # "running"
  BY LifeFacts DEF CreateIntent, Fresh, LaunchInv, RowInv
<1>3. PICK x : th' = [th EXCEPT ![c] = x] /\ x.pc \in {"prepare", "error"}
  <2> DEFINE k == th[c].key
             f == th[c].fp
             new == [Idle EXCEPT !.pc = "prepare", !.key = k, !.fp = f,
                                 !.run = r, !.st = "intent_created", !.out = "pending"]
  <2>1. new.pc = "prepare"
    BY DEF Idle
  <2>2. CASE Goto(c, "error")
    BY <1>0, <2>2, StateNames, GotoThread
  <2>3. CASE th' = [th EXCEPT ![c] = new]
    BY <2>1, <2>3
  <2> QED
    BY <2>2, <2>3 DEF CreateIntent
<1>4. th'[c] = x /\ \A q \in Threads : q # c => th'[q] = th[q]
  BY <1>0, <1>3, LifeFacts
<1>5. ASSUME NEW q \in Runs PROVE CalmRun(q)' /\ Attended(q)'
  <2>1. CalmRun(q) /\ Attended(q)
    BY DEF Calm
  <2>2. CalmRun(q)'
    BY <1>1, <1>2, <2>1 DEF CalmRun, Over
  <2>3. \A s \in Threads : th[s].pc \in CommitPCs => th'[s] = th[s]
    BY <1>1, <1>4 DEF CommitPCs
  <2>4. th'[Boot] = th[Boot] /\ (Watched(q)' <=> Watched(q))
    BY <1>0, <1>1, <1>4 DEF Threads, Watched
  <2>5. Attended(q)'
    BY <1>1, <2>1, <2>3, <2>4 DEF Attended
  <2> QED
    BY <2>2, <2>5
<1>6. ASSUME NEW q \in Threads PROVE CalmThread(th[q])'
  <2>1. PICK y : y = IF q = c THEN x ELSE th[q]
    OBVIOUS
  <2>2. th'[q] = y /\ CalmThread(y)
    BY <1>3, <1>4, <2>1 DEF Calm, CalmThread, FailPCs
  <2>3. CalmThread(y)'
    BY <1>1, <2>2 DEF CalmThread
  <2> QED
    BY <2>2, <2>3
<1> QED
  BY <1>5, <1>6 DEF Calm

LEMMA DieCalm ==
  ASSUME TypeInv, Calm, Die
  PROVE  Calm'
<1>1. /\ phase' = "down" /\ UNCHANGED <<cont, istate>>
      /\ \A r \in Runs : fin'[r] = NotFinalizing /\ wk'[r] = [w \in Workers |-> "off"]
      /\ \A p \in Threads : th'[p] = Idle
  BY DEF Die, docker, durable
<1>2. NotFinalizing.step = "idle" /\ Idle.pc = "idle" /\ Boot \in Threads /\ "cleanup" \in Workers
  BY DEF NotFinalizing, Idle, Threads, Workers
<1>3. \A r \in Runs : CalmRun(r)' /\ Attended(r)'
  BY <1>1, <1>2 DEF Calm, CalmRun, Attended
<1>4. \A p \in Threads : CalmThread(th[p])'
  BY <1>1, <1>2 DEF CalmThread, FailPCs
<1> QED
  BY <1>3, <1>4 DEF Calm

LEMMA ScanCalm ==
  ASSUME TypeInv, LaunchInv, Calm, faults = 0, faults' = 0, ScanPublish \/ \E r \in Runs : ScanRun(r)
  PROVE  Calm'
<1>0. ~Fault /\ Boot \in Threads
  BY DEF Fault, Threads
<1>1. /\ phase' = phase /\ UNCHANGED <<cont, starts, istate>>
  BY DEF ScanPublish, ScanRun, docker, durable, procVars
<1>2. phase = "scan" /\ \A c \in Callers : th[c].pc = "idle"
  BY DEF ScanPublish, ScanRun, LaunchInv, PhaseInv
<1>3. \A c \in Callers : th'[c] = th[c]
  <2>1. \A c \in Callers : c # Boot /\ c \in Threads
    BY BootNotCaller DEF Threads
  <2>2. \E y : th' = [th EXCEPT ![Boot] = y]
    BY DEF ScanPublish, ScanRun, Goto
  <2> QED
    BY <2>1, <2>2, LifeFacts
<1>4. th'[Boot].pc \in {"idle", "error", "scan_await"}
  <2>1. CASE ScanPublish
    BY <1>0, <2>1, Moves DEF ScanPublish
  <2>2. CASE \E r \in Runs : ScanRun(r)
    <3>1. PICK r \in Runs : th' = [th EXCEPT ![Boot] = [@ EXCEPT !.pc = "scan_await", !.run = r]]
      BY <2>2 DEF ScanRun
    <3> QED
      BY <1>0, <3>1, LifeFacts DEF Thread
  <2> QED
    BY <2>1, <2>2
<1>5. ASSUME NEW q \in Runs PROVE CalmRun(q)'
  <2>1. CalmRun(q) /\ RowInv(q)
    BY DEF Calm, LaunchInv
  <2>2. CASE ScanPublish
    <3>1. fin' = fin /\ wk'[q]["cleanup"] = wk[q]["cleanup"]
      BY <1>0, <2>2, ThreadFacts, LifeFacts DEF ScanPublish, Workers
    <3> QED
      BY <1>1, <2>1, <3>1 DEF CalmRun, Over
  <2>3. ASSUME NEW r \in Runs, ScanRun(r) PROVE CalmRun(q)'
    <3>1. CASE UNCHANGED <<runs, fin, wk>>
      BY <1>1, <2>1, <3>1 DEF CalmRun, Over
    <3>2. CASE q # r /\ \E step, next : Claim(r, "resume", step, next)
      BY <1>1, <2>1, <3>2, ClaimElsewhere DEF CalmRun, Over
    <3>3. CASE q = r /\ \E step, next : /\ Claim(r, "resume", step, next)
                                        /\ cont[r] # "running" \/ step = "update"
      <4>1. PICK step, next : /\ Claim(r, "resume", step, next)
                              /\ cont[r] # "running" \/ step = "update"
        BY <3>3
      <4>2. wk'[r]["cleanup"] = wk[r]["cleanup"]
        BY <4>1, LifeFacts DEF Claim, Workers
      <4>3. CASE cont[r] # "running"
        BY <1>1, <2>1, <3>3, <4>1, <4>2, <4>3, ClaimOver DEF CalmRun
      <4>4. CASE step = "update"
        <5>1. fin'[r] = fin[r] \/ fin'[r].step = "update"
          BY <4>1, <4>4, LifeFacts DEF Claim
        <5> QED
          BY <1>1, <2>1, <3>3, <4>2, <5>1 DEF CalmRun, Over
      <4> QED
        BY <4>1, <4>3, <4>4
    <3> QED
      BY <1>0, <2>3, <3>1, <3>2, <3>3 DEF ScanRun, Halted, Exited
  <2> QED
    BY <2>2, <2>3
<1>6. \A q \in Runs : Attended(q)'
  BY <1>1, <1>2, <1>4 DEF Attended
<1>7. \A p \in Threads : CalmThread(th[p])'
  BY <1>2, <1>3, <1>4 DEF CalmThread, FailPCs, Threads
<1> QED
  BY <1>5, <1>6, <1>7 DEF Calm

LEMMA BootCalm ==
  ASSUME TypeInv, LaunchInv, Calm, faults = 0, faults' = 0, BootStep
  PROVE  Calm'
<1>0. Boot \in Threads
  BY DEF Threads
<1>1. CASE Start \/ ScanDone \/ Serve
  <2>1. /\ UNCHANGED lifeVars /\ th' = th
        /\ phase' \in {"scan", "resume", "up"} /\ th[Boot].pc # "done"
        /\ phase' = "resume" => todo' = Nonterminal
        /\ phase' = "up" => phase = "resume" /\ todo = {}
    BY <1>1 DEF Start, ScanDone, Serve, LaunchInv, PhaseInv
  <2>2. \A r \in Runs : Same(r)
    BY <2>1 DEF lifeVars, Same
  <2>3. ASSUME NEW r \in Runs PROVE CalmRun(r)' /\ Attended(r)'
    <3>1. CalmRun(r)' /\ (Watched(r)' <=> Watched(r)) /\ cont'[r] = cont[r] /\ Attended(r) /\ CalmRun(r)
      BY <2>2, SameCalm DEF Calm, Same
    <3>2. cont[r] = "running" => r \in Nonterminal
      BY <3>1 DEF CalmRun, Nonterminal, Rows
    <3> QED
      BY <2>1, <3>1, <3>2 DEF Attended
  <2>4. \A p \in Threads : CalmThread(th[p])'
    BY <2>1 DEF Calm, CalmThread, lifeVars
  <2> QED
    BY <2>3, <2>4 DEF Calm
<1>2. ASSUME NEW r \in Runs, BootResume(r) PROVE Calm'
  <2>1. /\ phase = "resume" /\ phase' = phase /\ todo' = todo /\ UNCHANGED lifeVars /\ r \in todo
        /\ th[Boot].pc = "idle"
    BY <1>2 DEF BootResume, procVars
  <2>2. istate[r] # "absent" /\ RowInv(r) /\ CalmRun(r)
    BY <2>1 DEF LaunchInv, PhaseInv, Rows, Calm
  <2>3. PICK x : /\ th' = [th EXCEPT ![Boot] = x]
                 /\ \/ x = Snapshot(r, keyOf[r], fpOf[r])
                    \/ x.pc = "error"
    BY <1>2, BootResumeThread
  <2>4. x.pc = "error" \/ (x.run = r /\ x.pc = Entry(istate[r], iout[r]))
    BY <2>3 DEF Snapshot
  <2>5. CalmThread(x)
    BY <2>4 DEF Entry, CalmThread, FailPCs
  <2>6. x.pc = "done" => cont[x.run] # "running"
    BY <2>2, <2>4 DEF CalmRun, RowInv, Entry, Made, Terminal
  <2> QED
    BY <1>0, <2>1, <2>3, <2>5, <2>6, ThreadCalmly DEF CommitPCs
<1>3. CASE BootResumed
  <2>1. PICK r \in Runs : r = th[Boot].run
    BY <1>0, ThreadFacts
  <2>2. /\ phase' = phase /\ todo' = todo \ {r} /\ UNCHANGED lifeVars /\ th[Boot].pc = "done"
        /\ th' = [th EXCEPT ![Boot] = Idle]
    BY <1>3, <2>1 DEF BootResumed
  <2>3. Watched(r) \/ cont[r] # "running"
    BY <2>1, <2>2 DEF Calm, Attended
  <2>4. Idle.pc # "done"
    BY DEF Idle
  <2> QED
    BY <1>0, <2>2, <2>3, <2>4, IdleCalm, ThreadCalmly DEF CommitPCs
<1> QED
  BY <1>1, <1>2, <1>3, ScanCalm, DieCalm DEF BootStep, BootFails

LEMMA InitCalm == Init => Calm
<1> SUFFICES ASSUME Init PROVE Calm
  OBVIOUS
<1>1. NotFinalizing.step = "idle" /\ Idle.pc = "idle" /\ "cleanup" \in Workers
  BY DEF NotFinalizing, Idle, Workers
<1>2. \A r \in Runs : CalmRun(r) /\ Attended(r)
  BY <1>1 DEF Init, LifeInit, CalmRun, Attended
<1>3. \A p \in Threads : CalmThread(th[p])
  BY <1>1 DEF Init, CalmThread, FailPCs
<1> QED
  BY <1>2, <1>3 DEF Calm

\* Failing calls are counted and never forgotten.
LEMMA FaultsCount ==
  ASSUME TypeInv, [Next]_vars, faults' = 0
  PROVE  faults = 0
<1>0. faults \in Nat /\ ~Fault
  BY DEF TypeInv, TypeOK, LifeTypeOK, Fault
<1>1. SUFFICES faults' = faults
  OBVIOUS
<1>2. ASSUME NEW r \in Runs, RunStep(r) PROVE faults' = faults
  BY <1>0, <1>2 DEF RunStep, Finalize, Watch, Client, WorkerExits, DeadlinePasses,
     MarkTimedOut, StopUpdate, PersistTerminal, PublishInMemory, WriteMetadata, SaveFinal,
     WatchExit, WatchTimeout, CleanupDirectory, GetAgentStatus, StopAgent, CleanupContainer, GiveUp
<1>3. ASSUME NEW p \in Threads, ResumeStep(p) PROVE faults' = faults
  BY <1>0, <1>3 DEF ResumeStep, PublishRunning, InspectRunning, Await, Prepare,
     SaveCreatePending, RuntimeCreate, SaveContainerCreated, Reinspect,
     SaveStartPending, RuntimeStart, CommitSave, CommitFile, CommitStore,
     ExitedPublish, ExitedClaim, ExitedSave, FailResult, FailFile, FailStore,
     SaveStep, WriteFileStep
<1>4. ASSUME NEW c \in Callers, NEW k \in Keys, NEW f \in Fps, NEW r \in Runs,
             Request(c, k, f) \/ CreateIntent(c, r) \/ Answer(c)
      PROVE  faults' = faults
  BY <1>0, <1>4 DEF Request, CreateIntent, Answer, lifeVars
<1>5. CASE BootStep \/ Crash
  BY <1>0, <1>5 DEF BootStep, Start, ScanPublish, ScanDone, BootResumed, Serve, BootFails, ScanRun,
     BootResume, Crash, Die, lifeVars
<1>6. CASE UNCHANGED vars
  BY <1>6 DEF vars, lifeVars
<1> QED
  BY <1>2, <1>3, <1>4, <1>5, <1>6, NonEmpty DEF Next

LEMMA NextCalm ==
  ASSUME TypeInv, ContractInv, LaunchInv, faults = 0 => Calm, [Next]_vars
  PROVE  faults' = 0 => Calm'
<1> SUFFICES ASSUME faults' = 0 PROVE Calm'
  OBVIOUS
<1>1. faults = 0 /\ Calm
  BY FaultsCount
<1>2. CASE UNCHANGED vars
  BY <1>1, <1>2 DEF vars, lifeVars, launchVars, Calm, CalmRun, CalmThread, Attended, Watched, Over
<1>3. CASE Next
  BY <1>1, <1>3, RunStepCalm, RequestCalm, CreateIntentCalm, AnswerCalm, ResumeCalm, BootCalm, DieCalm
  DEF Next, Crash
<1> QED
  BY <1>2, <1>3

CalmInv == faults = 0 => Calm

LEMMA CalmInvariant == Spec => [](LaunchInv /\ CalmInv)
<1>1. Init => CalmInv
  BY InitCalm DEF CalmInv
<1>2. TypeInv /\ ContractInv /\ LaunchInv /\ CalmInv /\ [Next]_vars => CalmInv'
  BY NextCalm DEF CalmInv
<1> QED
  BY <1>1, <1>2, LaunchInvariant, PTL DEF Spec

\* Unless a call fails, a serving process has for every running worker both
\* watchers, or finalizes the run, or is still launching it, whatever crashes
\* and restarts came before (commitRunningIntent, resumeLaunchIntent,
\* watchExit, watchTimeout).
THEOREM WorkersAreWatched == Spec => []RunningIsWatched
<1>1. CalmInv => RunningIsWatched
  <2> SUFFICES ASSUME CalmInv, faults = 0, phase = "up", NEW r \in Runs, cont[r] = "running", ~Committing(r)
               PROVE  /\ wk[r]["exit"] = "armed"
                      /\ wk[r]["timeout"] = "armed" \/ fin[r].by # "none"
    BY DEF RunningIsWatched
  <2>1. Attended(r)
    BY DEF CalmInv, Calm
  <2>2. ~\E p \in Threads : th[p].run = r /\ th[p].pc \in CommitPCs
    BY DEF Committing, CommitPCs
  <2> QED
    BY <2>1, <2>2 DEF Attended, Watched
<1> QED
  BY <1>1, CalmInvariant, PTL

-----------------------------------------------------------------------------
(* The slots of the profile.                                               *)

\* The rows that hold a slot are within the limit.
Limited ==
    /\ IsFiniteSet(Nonterminal)
    /\ MaxConcurrent > 0 => Cardinality(Nonterminal) <= MaxConcurrent

\* Only LaunchIntentStore.Create takes a slot, and it counts them first.
LEMMA NextLimited ==
  ASSUME TypeInv, ContractInv, LaunchInv, Limited, [Next]_vars
  PROVE  Limited'
<1>0. Closed
  BY NextLaunch
<1>1. ASSUME Nonterminal' \subseteq Nonterminal PROVE Limited'
  <2>1. /\ IsFiniteSet(Nonterminal') /\ Cardinality(Nonterminal') <= Cardinality(Nonterminal)
        /\ Cardinality(Nonterminal) \in Nat /\ Cardinality(Nonterminal') \in Nat
    BY <1>1, FS_Subset, FS_CardinalityType DEF Limited
  <2> QED
    BY <2>1, MaxConcurrentNat DEF Limited
<1>2. ASSUME \A r \in Runs : istate[r] = "absent" => istate'[r] = "absent" PROVE Limited'
  BY <1>0, <1>1, <1>2 DEF Closed, Nonterminal, Rows
<1>3. ASSUME NEW r \in Runs, RunStep(r) PROVE Limited'
  BY <1>2, <1>3, RunStepKeepsRows DEF RowsKept
<1>4. ASSUME NEW p \in Threads, ResumeStep(p) PROVE Limited'
  BY <1>2, <1>4, ResumeKeeps DEF RowsKept
<1>5. ASSUME NEW c \in Callers, NEW k \in Keys, NEW f \in Fps, Request(c, k, f) \/ Answer(c)
      PROVE  Limited'
  BY <1>2, <1>5 DEF Request, Answer, lifeVars
<1>6. CASE BootStep \/ Crash
  BY <1>2, <1>6 DEF BootStep, Start, ScanPublish, ScanDone, BootResumed, Serve, BootFails, ScanRun,
     BootResume, Crash, Die, lifeVars, durable
<1>7. ASSUME NEW c \in Callers, NEW r \in Runs, CreateIntent(c, r) PROVE Limited'
  <2>1. CASE istate' = istate
    BY <1>2, <2>1
  <2>2. CASE ~ProfileBusy /\ istate' = [istate EXCEPT ![r] = "intent_created"]
    <3>1. Nonterminal' \subseteq Nonterminal \cup {r}
      BY <2>2, LifeFacts DEF Nonterminal, Rows
    <3>2. /\ IsFiniteSet(Nonterminal \cup {r})
          /\ Cardinality(Nonterminal \cup {r}) <= Cardinality(Nonterminal) + 1
          /\ Cardinality(Nonterminal) \in Nat /\ Cardinality(Nonterminal \cup {r}) \in Nat
      <4>1. IsFiniteSet(Nonterminal)
        BY DEF Limited
      <4>2. Cardinality(Nonterminal) \in Nat
        BY <4>1, FS_CardinalityType
      <4>3. /\ IsFiniteSet(Nonterminal \cup {r})
            /\ \/ Cardinality(Nonterminal \cup {r}) = Cardinality(Nonterminal)
               \/ Cardinality(Nonterminal \cup {r}) = Cardinality(Nonterminal) + 1
        BY <4>1, FS_AddElement, Zenon
      <4> QED
        BY <4>2, <4>3
    <3>3. /\ IsFiniteSet(Nonterminal')
          /\ Cardinality(Nonterminal') <= Cardinality(Nonterminal \cup {r})
          /\ Cardinality(Nonterminal') \in Nat
      BY <3>1, <3>2, FS_Subset, FS_CardinalityType
    <3>4. MaxConcurrent > 0 => Cardinality(Nonterminal) < MaxConcurrent
      BY <2>2, <3>2, MaxConcurrentNat DEF ProfileBusy
    <3> QED
      BY <3>2, <3>3, <3>4, MaxConcurrentNat DEF Limited
  <2> QED
    BY <1>7, <2>1, <2>2 DEF CreateIntent
<1>8. CASE UNCHANGED vars
  BY <1>2, <1>8 DEF vars, lifeVars
<1> QED
  BY <1>3, <1>4, <1>5, <1>6, <1>7, <1>8, NonEmpty DEF Next

LEMMA LimitedInvariant == Spec => []Limited
<1>1. Init => Limited
  <2> SUFFICES ASSUME Init PROVE Limited
    OBVIOUS
  <2>1. Nonterminal = {}
    BY DEF Init, LifeInit, Nonterminal, Rows
  <2> QED
    BY <2>1, FS_EmptySet, MaxConcurrentNat DEF Limited
<1>2. TypeInv /\ ContractInv /\ LaunchInv /\ Limited /\ [Next]_vars => Limited'
  BY NextLimited
<1> QED
  BY <1>1, <1>2, LaunchInvariant, PTL DEF Spec

\* Unless a call fails, no more workers run than the profile allows, those of a
\* process that crashed included: a row keeps its slot until its worker is over
\* (LaunchIntentStore.Create, finalizeTerminalRun).
THEOREM WorkersLimited == Spec => []WorkersWithinLimit
<1>1. CalmInv /\ Limited => WorkersWithinLimit
  <2> SUFFICES ASSUME CalmInv, Limited, faults = 0, MaxConcurrent > 0
               PROVE  Cardinality({r \in Runs : cont[r] = "running"}) <= MaxConcurrent
    BY DEF WorkersWithinLimit
  <2> DEFINE W == {r \in Runs : cont[r] = "running"}
  <2>1. W \subseteq Nonterminal
    BY DEF CalmInv, Calm, CalmRun, Nonterminal, Rows
  <2> HIDE DEF W
  <2>2. /\ IsFiniteSet(W) /\ Cardinality(W) <= Cardinality(Nonterminal)
        /\ Cardinality(W) \in Nat /\ Cardinality(Nonterminal) \in Nat
    BY <2>1, FS_Subset, FS_CardinalityType DEF Limited
  <2>3. Cardinality(W) <= MaxConcurrent
    BY <2>2, MaxConcurrentNat DEF Limited
  <2> QED
    BY <2>3 DEF W
<1> QED
  BY <1>1, CalmInvariant, LimitedInvariant, PTL

-----------------------------------------------------------------------------
(* Where outcomes come from.                                               *)

StartupFailure == {"create_failed", "start_failed"}

LEMMA ClaimFlow ==
  ASSUME TypeInv, NEW r \in Runs, NEW w, NEW step, NEW next, Claim(r, w, step, next)
  PROVE  runs'[r] \in {runs[r], metaFile[r]} /\ fin'[r].next \in {fin[r].next, next}
  BY LifeFacts DEF Claim, LookupRun

LEMMA ExitOutcomes == \A c : ExitOutcome(c) \in {"completed", "failed"}
  BY DEF ExitOutcome

\* What calls, watchers and finalizations publish was decided by the
\* finalization, which decides on the end of a worker only.
LEMMA RunFlow ==
  ASSUME TypeInv, NEW r \in Runs, RunStep(r)
  PROVE  /\ iout'[r] \in {iout[r], fin[r].next}
         /\ metaFile'[r] \in {metaFile[r], fin[r].next, "absent"}
         /\ runs'[r] \in {runs[r], metaFile[r], fin[r].next, "absent"}
         /\ fin'[r].next \in {fin[r].next, "running", "completed", "failed", "timed_out", "stopped"}
<1>0. fin[r] \in Finalizer /\ NotFinalizing.next = "running"
  BY LifeFacts DEF NotFinalizing
<1>1. CASE WorkerExits(r) \/ DeadlinePasses(r) \/ GiveUp(r) \/ CleanupContainer(r)
  BY <1>1 DEF WorkerExits, DeadlinePasses, GiveUp, CleanupContainer, durable
<1>2. CASE MarkTimedOut(r) \/ StopUpdate(r)
  <2>1. UNCHANGED <<iout, metaFile, runs>>
    BY <1>2 DEF MarkTimedOut, StopUpdate, durable
  <2>2. (\E result : Release(r, result))
         \/ (\E next \in {"completed", "failed", "timed_out", "stopped"} : Decide(r, next))
    BY <1>2, ExitOutcomes DEF MarkTimedOut, StopUpdate
  <2>3. fin'[r].next \in {"running", "completed", "failed", "timed_out", "stopped"}
    <3>1. CASE \E result : Release(r, result)
      BY <1>0, <3>1, LifeFacts DEF Release
    <3>2. ASSUME NEW next, Decide(r, next) PROVE fin'[r].next = next
      BY <1>0, <3>2, LifeFacts DEF Decide, Finalizer
    <3> QED
      BY <2>2, <3>1, <3>2
  <2> QED
    BY <2>1, <2>3
<1>3. CASE PersistTerminal(r) \/ PublishInMemory(r) \/ WriteMetadata(r) \/ SaveFinal(r)
  <2>1. (\E result : Release(r, result)) \/ (\E step : Advance(r, step))
    BY <1>3 DEF PersistTerminal, PublishInMemory, WriteMetadata, SaveFinal
  <2>2. fin'[r].next \in {fin[r].next, "running"}
    BY <1>0, <2>1, LifeFacts DEF Release, Advance, Finalizer
  <2>3. iout'[r] \in {iout[r], fin[r].next}
    BY <1>3, LifeFacts DEF PersistTerminal, PublishInMemory, WriteMetadata, SaveFinal, SaveIntent, durable
  <2>4. metaFile'[r] \in {metaFile[r], fin[r].next} /\ runs'[r] \in {runs[r], fin[r].next}
    BY <1>3, LifeFacts DEF PersistTerminal, PublishInMemory, WriteMetadata, SaveFinal, durable
  <2> QED
    BY <2>2, <2>3, <2>4
<1>4. CASE WatchExit(r) \/ WatchTimeout(r) \/ GetAgentStatus(r) \/ StopAgent(r)
  <2>1. UNCHANGED <<iout, metaFile>>
    BY <1>4 DEF WatchExit, WatchTimeout, GetAgentStatus, StopAgent, durable
  <2>2. UNCHANGED <<runs, fin>>
         \/ \E w, step : \E next \in {"completed", "failed", "running"} : Claim(r, w, step, next)
    <3>1. CASE WatchExit(r)
      BY <3>1, ExitOutcomes DEF WatchExit
    <3>2. CASE GetAgentStatus(r)
      BY <3>2, ExitOutcomes DEF GetAgentStatus
    <3>3. CASE WatchTimeout(r) \/ StopAgent(r)
      BY <3>3 DEF WatchTimeout, StopAgent
    <3> QED
      BY <1>4, <3>1, <3>2, <3>3
  <2> QED
    BY <2>1, <2>2, ClaimFlow
<1>5. CASE CleanupDirectory(r)
  BY <1>5, LifeFacts DEF CleanupDirectory
<1> QED
  BY <1>1, <1>2, <1>3, <1>4, <1>5 DEF RunStep, Finalize, Watch, Client

\* Nobody has recorded, or is about to record, that the run failed to start.
\* Without a capability every launch makes the same container.
CleanRun(r) ==
    /\ iout[r] \notin StartupFailure /\ runs[r] \notin StartupFailure
    /\ metaFile[r] \notin StartupFailure /\ fin[r].next \notin StartupFailure
    /\ label[r] = 0

CleanThread(x) == x.pc \notin FailPCs /\ x.hd = 0 /\ x.out \notin StartupFailure

Clean ==
    /\ \A r \in Runs : CleanRun(r)
    /\ \A p \in Threads : CleanThread(th[p])

LEMMA ResumeClean ==
  ASSUME ~Mints, TypeInv, LaunchInv, Clean, NEW p \in Threads, ResumeStep(p),
         faults = 0, faults' = 0
  PROVE  Clean'
<1>0. ~Fault
  BY DEF Fault
<1>1. PICK r \in Runs : r = th[p].run
  BY ThreadFacts
<1>2. RowInv(r) /\ ThreadInv(th[p]) /\ CleanRun(r) /\ CleanThread(th[p]) /\ th[p] \in Thread
  BY LifeFacts DEF LaunchInv, Clean
<1>3. \A q \in Runs : q # r => Same(q)
  BY <1>1, ResumeElsewhere
<1>4. label \in [Runs -> Nat] /\ \A q \in Runs : q # r => label'[q] = label[q]
  BY <1>1 DEF TypeInv, TypeOK, ResumeStep, PublishRunning, InspectRunning, Await, Prepare,
     SaveCreatePending, RuntimeCreate, SaveContainerCreated, Reinspect,
     SaveStartPending, RuntimeStart, CommitSave, CommitFile, CommitStore,
     ExitedPublish, ExitedClaim, ExitedSave, FailResult, FailFile, FailStore,
     SaveStep, WriteFileStep
<1>5. SUFFICES CleanRun(r)' /\ \E x : th' = [th EXCEPT ![p] = x] /\ CleanThread(x)
  <2>1. \A q \in Runs : CleanRun(q)'
    BY <1>3, <1>4, <1>5 DEF Clean, CleanRun, Same
  <2>2. \A q \in Threads : CleanThread(th'[q])
    BY <1>5, LifeFacts DEF Clean
  <2> QED
    BY <2>1, <2>2 DEF Clean, CleanThread
<1>6. ASSUME NEW pc \in PCs \ FailPCs, Goto(p, pc)
      PROVE  \E x : th' = [th EXCEPT ![p] = x] /\ CleanThread(x)
  <2>1. PICK x \in Thread : th' = [th EXCEPT ![p] = x] /\ x.pc = pc /\ x.out = th[p].out /\ x.hd = th[p].hd
    BY <1>6, GotoThread
  <2> QED
    BY <1>2, <1>6, <2>1 DEF CleanThread
<1>7. ASSUME NEW pc \in PCs \ FailPCs, NEW st \in IntentState, NEW out \in Outcome \ StartupFailure,
             Hold(p, pc, st, out)
      PROVE  \E x : th' = [th EXCEPT ![p] = x] /\ CleanThread(x)
  <2>1. PICK x \in Thread : th' = [th EXCEPT ![p] = x] /\ x.pc = pc /\ x.out = out /\ x.hd = th[p].hd
    BY <1>7, HoldThread
  <2> QED
    BY <1>2, <1>7, <2>1 DEF CleanThread
<1>8. ASSUME NEW pc \in PCs \ FailPCs, NEW c \in ContState, Learn(p, pc, c)
      PROVE  \E x : th' = [th EXCEPT ![p] = x] /\ CleanThread(x)
  <2>1. PICK x \in Thread : th' = [th EXCEPT ![p] = x] /\ x.pc = pc /\ x.out = th[p].out /\ x.hd = th[p].hd
    BY <1>8, LearnThread
  <2> QED
    BY <1>2, <1>8, <2>1 DEF CleanThread
<1>9. {"inspect", "await", "done", "error", "save_create", "reinspect", "create", "save_made", "save_start",
       "start", "commit_save", "commit_file", "commit_store", "exited_publish", "exited_claim",
       "exited_save"} \subseteq PCs \ FailPCs
  BY DEF PCs, FailPCs
<1>10. {"pending", "made", "running", "completed", "failed"} \subseteq Outcome \ StartupFailure
  BY DEF Outcome, Terminal, Active, StartupFailure
<1>11. CASE PublishRunning(p) \/ InspectRunning(p) \/ Await(p)
  <2>1. UNCHANGED <<iout, metaFile, label>>
    BY <1>11 DEF PublishRunning, InspectRunning, Await, durable
  <2>2. \/ UNCHANGED <<runs, fin>>
        \/ runs'[r] = th[p].out /\ fin' = fin
        \/ Claim(r, "resume", "persist", ExitOutcome(cont[r]))
    BY <1>1, <1>11, LifeFacts DEF PublishRunning, InspectRunning, Await
  <2>3. CleanRun(r)'
    BY <1>2, <2>1, <2>2, ClaimFlow, ExitOutcomes DEF CleanRun, CleanThread, StartupFailure
  <2>4. PICK pc \in {"inspect", "await", "done", "error"} : Goto(p, pc)
    BY <1>11 DEF PublishRunning, InspectRunning, Await
  <2> QED
    BY <1>6, <1>9, <2>3, <2>4
<1>12. CASE Prepare(p)
  <2>1. UNCHANGED <<iout, runs, fin, label>> /\ metaFile'[r] \in {metaFile[r], th[p].out}
    BY <1>1, <1>12, LifeFacts DEF Prepare
  <2>2. CleanRun(r)'
    BY <1>2, <2>1 DEF CleanRun, CleanThread
  <2> DEFINE pc == IF Created(th[p].st) THEN "reinspect" ELSE "save_create"
             y  == [th[p] EXCEPT !.pc = pc, !.hd = 0]
  <2>3. th' = [th EXCEPT ![p] = y]
    BY <1>0, <1>12 DEF Prepare
  <2>4. y.pc = pc /\ y.hd = 0 /\ y.out = th[p].out
    BY <1>2 DEF Thread
  <2>5. pc \notin FailPCs
    BY <1>9
  <2> HIDE DEF y, pc
  <2>6. CleanThread(y)
    BY <1>2, <2>4, <2>5 DEF CleanThread
  <2> QED
    BY <2>2, <2>3, <2>6
<1>13. CASE SaveCreatePending(p) \/ SaveContainerCreated(p) \/ SaveStartPending(p) \/ CommitSave(p)
  <2>1. PICK st \in IntentState, out \in Outcome \ StartupFailure, pc \in PCs \ FailPCs :
           \E from : SaveStep(p, from, st, out, pc)
    <3>1. th[p].pc \in {"save_create", "save_start"} => th[p].out \in {"pending", "made"}
      BY <1>2 DEF ThreadInv
    <3>2. Follow(th[p].life) \in PCs \ FailPCs
      BY <1>9, FollowType
    <3>3. CASE SaveCreatePending(p)
      BY <1>9, <1>10, <3>1, <3>3, StateNames DEF SaveCreatePending, SaveStep
    <3>4. CASE SaveContainerCreated(p)
      BY <1>10, <3>2, <3>4, StateNames DEF SaveContainerCreated
    <3>5. CASE SaveStartPending(p)
      BY <1>9, <1>10, <3>1, <3>5, StateNames DEF SaveStartPending, SaveStep
    <3>6. CASE CommitSave(p)
      BY <1>9, <1>10, <3>6, StateNames DEF CommitSave
    <3> QED
      BY <1>13, <3>3, <3>4, <3>5, <3>6
  <2>2. Hold(p, pc, st, out) /\ iout'[r] \in {iout[r], out} /\ UNCHANGED <<runs, metaFile, fin, label>>
    BY <1>0, <1>1, <2>1, LifeFacts DEF SaveStep, SaveIntent
  <2>3. CleanRun(r)'
    BY <1>2, <2>2 DEF CleanRun
  <2> QED
    BY <1>7, <2>2, <2>3
<1>14. CASE RuntimeCreate(p)
  <2>1. /\ UNCHANGED <<iout, runs, metaFile, fin>>
        /\ label' = label \/ label' = [label EXCEPT ![r] = th[p].hd]
    BY <1>1, <1>14 DEF RuntimeCreate, durable
  <2>2. CleanRun(r)'
    BY <1>2, <1>4, <2>1 DEF CleanRun, CleanThread
  <2>3. Adoptable(r, th[p].hd)
    BY <1>2 DEF Adoptable, CleanRun, CleanThread
  <2>4. \E c \in ContState : Learn(p, "save_made", c)
    BY <1>0, <1>1, <1>14, <2>3, LifeFacts DEF RuntimeCreate, ContState
  <2> QED
    BY <1>8, <1>9, <2>2, <2>4
<1>15. CASE Reinspect(p)
  <2>1. UNCHANGED <<iout, runs, metaFile, fin, label>>
    BY <1>15 DEF Reinspect, durable
  <2>2. CleanRun(r)'
    BY <1>2, <2>1 DEF CleanRun
  <2>3. CASE Goto(p, "error")
    BY <1>6, <1>9, <2>2, <2>3
  <2>4. CASE Learn(p, Follow(cont[r]), cont[r])
    BY <1>8, <1>9, <2>2, <2>4, FollowType, LifeFacts
  <2> QED
    BY <1>1, <1>15, <2>3, <2>4 DEF Reinspect
<1>16. CASE RuntimeStart(p)
  <2>1. UNCHANGED <<iout, runs, metaFile, fin, label>>
    BY <1>16 DEF RuntimeStart, durable
  <2>2. CleanRun(r)'
    BY <1>2, <2>1 DEF CleanRun
  <2>3. cont[r] # "none"
    BY <1>1, <1>2, <1>16 DEF RuntimeStart, ThreadInv, RowInv, Made
  <2>4. Goto(p, "commit_save")
    BY <1>0, <1>1, <1>16, <2>3 DEF RuntimeStart
  <2> QED
    BY <1>6, <1>9, <2>2, <2>4
<1>17. CASE CommitFile(p) \/ CommitStore(p)
  <2>1. /\ UNCHANGED <<fin, label>> /\ metaFile'[r] \in {metaFile[r], th[p].out}
        /\ iout'[r] \in {iout[r], "running"} /\ runs'[r] \in {runs[r], "running"}
    BY <1>1, <1>17, LifeFacts DEF CommitFile, CommitStore, WriteFileStep, SaveIntent
  <2>2. CleanRun(r)'
    BY <1>2, <2>1 DEF CleanRun, CleanThread, StartupFailure
  <2>3. PICK pc \in {"commit_store", "done", "error"} : Goto(p, pc)
    BY <1>17 DEF CommitFile, CommitStore, WriteFileStep
  <2> QED
    BY <1>6, <1>9, <2>2, <2>3
<1>18. CASE ExitedPublish(p)
  <2>1. UNCHANGED <<iout, metaFile, fin, label>> /\ runs'[r] = "running"
    BY <1>1, <1>18, LifeFacts DEF ExitedPublish, durable
  <2>2. CleanRun(r)'
    BY <1>2, <2>1 DEF CleanRun, StartupFailure
  <2> QED
    BY <1>6, <1>9, <1>18, <2>2 DEF ExitedPublish
<1>19. CASE ExitedClaim(p)
  <2>1. UNCHANGED <<iout, metaFile, label>> /\ Claim(r, "resume", "persist", ExitOutcome(th[p].life))
    BY <1>1, <1>19 DEF ExitedClaim, durable
  <2>2. CleanRun(r)'
    BY <1>2, <2>1, ClaimFlow, ExitOutcomes DEF CleanRun, StartupFailure
  <2>3. PICK out \in {"completed", "failed", "running"} : Hold(p, "exited_save", th[p].st, out)
    BY <1>19, ExitOutcomes DEF ExitedClaim
  <2> QED
    BY <1>7, <1>9, <1>10, <2>2, <2>3, ThreadFacts
<1>20. CASE ExitedSave(p)
  <2>1. UNCHANGED <<metaFile, runs, fin, label>> /\ iout'[r] \in {iout[r], runs[r], metaFile[r], th[p].out}
    BY <1>1, <1>20, LifeFacts DEF ExitedSave, SaveIntent, LookupRun
  <2>2. CleanRun(r)'
    BY <1>2, <2>1 DEF CleanRun, CleanThread
  <2>3. PICK pc \in {"done", "error"} : Goto(p, pc)
    BY <1>20 DEF ExitedSave
  <2> QED
    BY <1>6, <1>9, <2>2, <2>3
<1>21. CASE FailResult(p) \/ FailFile(p) \/ FailStore(p)
  BY <1>2, <1>21 DEF FailResult, FailFile, FailStore, WriteFileStep, CleanThread, FailPCs
<1> QED
  BY <1>11, <1>12, <1>13, <1>14, <1>15, <1>16, <1>17, <1>18, <1>19, <1>20, <1>21 DEF ResumeStep

LEMMA BeginClean ==
  ASSUME Clean, NEW p \in Threads, th \in [Threads -> Thread], NEW x, th' = [th EXCEPT ![p] = x],
         CleanThread(x), UNCHANGED <<lifeVars, label>>
  PROVE  Clean'
<1>1. \A r \in Runs : CleanRun(r)'
  BY DEF Clean, CleanRun, lifeVars
<1>2. \A q \in Threads : CleanThread(th'[q])
  BY DEF Clean
<1> QED
  BY <1>1, <1>2 DEF Clean, CleanThread

LEMMA NextClean ==
  ASSUME ~Mints, TypeInv, LaunchInv, faults = 0 => Clean, [Next]_vars
  PROVE  faults' = 0 => Clean'
<1> SUFFICES ASSUME faults' = 0 PROVE Clean'
  OBVIOUS
<1>0. faults = 0 /\ Clean /\ ~Fault /\ th \in [Threads -> Thread]
  BY FaultsCount, LifeFacts DEF Fault
<1>1. Idle.pc = "idle" /\ Idle.hd = 0 /\ Idle.out = "failed" /\ NotFinalizing.next = "running"
  BY DEF Idle, NotFinalizing
<1>2. CleanThread(Idle)
  BY <1>1 DEF CleanThread, FailPCs, StartupFailure
<1>3. ASSUME NEW r \in Runs, NEW k, NEW f PROVE CleanThread(Snapshot(r, k, f))
  <2>1. PICK x : x = Snapshot(r, k, f)
    OBVIOUS
  <2>2. x.pc \in {"done", "publish", "prepare"} /\ x.hd = 0 /\ x.out = iout[r]
    BY <2>1 DEF Snapshot, Entry
  <2> QED
    BY <1>0, <2>1, <2>2 DEF Clean, CleanRun, CleanThread, FailPCs
<1>4. ASSUME NEW r \in Runs, RunStep(r) PROVE Clean'
  <2>1. label' = label /\ th' = th
    BY <1>4 DEF RunStep, launchVars
  <2>2. ASSUME NEW q \in Runs PROVE CleanRun(q)'
    <3>1. CASE q = r
      BY <1>0, <1>4, <2>1, <3>1, RunFlow DEF Clean, CleanRun, StartupFailure
    <3>2. CASE q # r
      BY <1>0, <1>4, <2>1, <3>2, RunElsewhere DEF Clean, CleanRun, Same
    <3> QED
      BY <3>1, <3>2
  <2> QED
    BY <1>0, <2>1, <2>2 DEF Clean, CleanThread
<1>5. ASSUME NEW c \in Callers, NEW k \in Keys, NEW f \in Fps, Request(c, k, f) PROVE Clean'
  <2>1. UNCHANGED <<lifeVars, label>> /\ c \in Threads
    BY <1>5 DEF Request, Threads
  <2>2. CASE \E r \in RowsOf(k) : th' = [th EXCEPT ![c] = Snapshot(r, k, f)]
    BY <1>0, <1>3, <2>1, <2>2, BeginClean DEF RowsOf, Rows
  <2>3. CASE th' = [th EXCEPT ![c] = [Idle EXCEPT !.pc = "error", !.key = k]]
    <3>1. PICK x : x = [Idle EXCEPT !.pc = "error", !.key = k]
      OBVIOUS
    <3>2. x.pc = "error" /\ x.hd = 0 /\ x.out = "failed"
      BY <3>1 DEF Idle
    <3>3. CleanThread(x)
      BY <3>2 DEF CleanThread, FailPCs, StartupFailure
    <3> QED
      BY <1>0, <2>1, <2>3, <3>1, <3>3, BeginClean
  <2>4. CASE th' = [th EXCEPT ![c] = [Idle EXCEPT !.pc = "create_intent", !.key = k, !.fp = f]]
    <3>1. PICK x : x = [Idle EXCEPT !.pc = "create_intent", !.key = k, !.fp = f]
      OBVIOUS
    <3>2. x.pc = "create_intent" /\ x.hd = 0 /\ x.out = "failed"
      BY <3>1 DEF Idle
    <3>3. CleanThread(x)
      BY <3>2 DEF CleanThread, FailPCs, StartupFailure
    <3> QED
      BY <1>0, <2>1, <2>4, <3>1, <3>3, BeginClean
  <2> QED
    BY <1>5, <2>2, <2>3, <2>4 DEF Request
<1>6. ASSUME NEW c \in Callers, NEW r \in Runs, CreateIntent(c, r) PROVE Clean'
  <2>1. UNCHANGED <<runs, metaFile, fin, label>> /\ \A q \in Runs : iout'[q] \in {iout[q], "pending"}
    BY <1>6, LifeFacts DEF CreateIntent
  <2>2. \A q \in Runs : CleanRun(q)'
    BY <1>0, <2>1 DEF Clean, CleanRun, StartupFailure
  <2>3. PICK x : th' = [th EXCEPT ![c] = x] /\ CleanThread(x)
    <3> DEFINE k == th[c].key
               f == th[c].fp
               new == [Idle EXCEPT !.pc = "prepare", !.key = k, !.fp = f,
                                   !.run = r, !.st = "intent_created", !.out = "pending"]
    <3>0. c \in Threads
      BY DEF Threads
    <3>1. CASE th' = [th EXCEPT ![c] = new]
      <4>1. PICK x : x = new
        OBVIOUS
      <4>2. x.pc = "prepare" /\ x.hd = 0 /\ x.out = "pending"
        BY <4>1 DEF Idle
      <4>3. CleanThread(x)
        BY <4>2 DEF CleanThread, FailPCs, StartupFailure
      <4> QED
        BY <3>1, <4>1, <4>3
    <3>2. CASE Goto(c, "error")
      <4>1. PICK x \in Thread : th' = [th EXCEPT ![c] = x] /\ x.pc = "error"
                             /\ x.out = th[c].out /\ x.hd = th[c].hd
        BY <3>0, <3>2, StateNames, GotoThread
      <4> QED
        BY <1>0, <3>0, <4>1 DEF Clean, CleanThread, FailPCs
    <3> QED
      BY <1>6, <3>1, <3>2 DEF CreateIntent
  <2>4. \A q \in Threads : CleanThread(th'[q])
    BY <1>0, <2>3 DEF Clean
  <2> QED
    BY <2>2, <2>4 DEF Clean, CleanThread
<1>7. ASSUME NEW c \in Callers, Answer(c) PROVE Clean'
  BY <1>0, <1>2, <1>7, BeginClean DEF Answer, Threads
<1>8. CASE BootStep /\ ~BootFails
  <2>0. Boot \in Threads /\ label' = label
    BY <1>8 DEF Threads, BootStep, Start, ScanPublish, ScanDone, BootResumed, Serve, ScanRun, BootResume
  <2>1. CASE Start \/ ScanDone \/ Serve
    BY <1>0, <2>0, <2>1 DEF Start, ScanDone, Serve, Clean, CleanRun, CleanThread, lifeVars
  <2>2. CASE BootResumed
    BY <1>0, <1>2, <2>0, <2>2, BeginClean DEF BootResumed
  <2>3. ASSUME NEW r \in Runs, BootResume(r) PROVE Clean'
    <3>1. PICK x : /\ th' = [th EXCEPT ![Boot] = x]
                   /\ \/ x = Snapshot(r, keyOf[r], fpOf[r])
                      \/ x.pc = "error" /\ x.hd = 0 /\ x.out = "failed"
      BY <2>3, BootResumeThread
    <3>2. CleanThread(x)
      BY <1>3, <3>1 DEF CleanThread, FailPCs, StartupFailure
    <3>3. UNCHANGED <<lifeVars, label>>
      BY <2>3 DEF BootResume
    <3> QED
      BY <1>0, <2>0, <3>1, <3>2, <3>3, BeginClean
  <2>4. ASSUME NEW r \in Runs, ScanRun(r) PROVE Clean'
    <3>1. UNCHANGED <<iout, metaFile>>
      BY <2>4 DEF ScanRun, durable
    <3>2. \/ UNCHANGED <<runs, fin, wk>>
          \/ \E step : \E next \in {"missing", "completed", "failed", "running"} :
               Claim(r, "resume", step, next)
      BY <2>4, ExitOutcomes DEF ScanRun
    <3>3. \A q \in Runs : CleanRun(q)'
      BY <1>0, <2>0, <3>1, <3>2, ClaimFlow, ClaimElsewhere DEF Clean, CleanRun, StartupFailure
    <3>4. th' = [th EXCEPT ![Boot] = [@ EXCEPT !.pc = "scan_await", !.run = r]]
      BY <2>4 DEF ScanRun
    <3> DEFINE y == [th[Boot] EXCEPT !.pc = "scan_await", !.run = r]
    <3>5. y.pc = "scan_await" /\ y.hd = th[Boot].hd /\ y.out = th[Boot].out /\ th' = [th EXCEPT ![Boot] = y]
      BY <1>0, <2>0, <3>4 DEF Thread
    <3> HIDE DEF y
    <3>6. \A q \in Threads : CleanThread(th'[q])
      BY <1>0, <2>0, <3>5 DEF Clean, CleanThread, FailPCs
    <3> QED
      BY <3>3, <3>6 DEF Clean, CleanThread
  <2>5. CASE ScanPublish
    <3>1. /\ UNCHANGED <<iout, metaFile, fin>>
          /\ \A q \in Runs : runs'[q] \in {runs[q], metaFile[q]}
      BY <2>5, LifeFacts DEF ScanPublish, LookupRun
    <3>2. \A q \in Runs : CleanRun(q)'
      BY <1>0, <2>0, <3>1 DEF Clean, CleanRun
    <3>3. PICK pc \in {"idle", "error"} : Goto(Boot, pc)
      BY <2>5 DEF ScanPublish
    <3>4. PICK x \in Thread : th' = [th EXCEPT ![Boot] = x] /\ x.pc = pc
                           /\ x.out = th[Boot].out /\ x.hd = th[Boot].hd
      BY <2>0, <3>3, GotoThread DEF PCs
    <3>5. \A q \in Threads : CleanThread(th'[q])
      BY <1>0, <2>0, <3>3, <3>4 DEF Clean, CleanThread, FailPCs
    <3> QED
      BY <3>2, <3>5 DEF Clean, CleanThread
  <2> QED
    BY <1>8, <2>1, <2>2, <2>3, <2>4, <2>5 DEF BootStep
<1>9. CASE BootFails \/ Crash
  <2>1. /\ UNCHANGED <<iout, metaFile, label>>
        /\ \A r \in Runs : runs'[r] = "absent" /\ fin'[r] = NotFinalizing
        /\ \A p \in Threads : th'[p] = Idle
    BY <1>9 DEF BootFails, Crash, Die, durable
  <2>2. \A r \in Runs : CleanRun(r)'
    BY <1>0, <1>1, <2>1 DEF Clean, CleanRun, StartupFailure
  <2> QED
    BY <1>2, <2>1, <2>2 DEF Clean, CleanThread
<1>10. CASE UNCHANGED vars
  BY <1>0, <1>10 DEF vars, lifeVars, launchVars, Clean, CleanRun, CleanThread
<1> QED
  BY <1>0, <1>4, <1>5, <1>6, <1>7, <1>8, <1>9, <1>10, ResumeClean DEF Next

CleanInv == ~Mints /\ faults = 0 => Clean

\* A launch that asks for no capability is recorded as failed to start only
\* when a call failed: a resumed launch, however often it was interrupted,
\* finds or adopts the container it made before (DockerBackend.Create, adopt,
\* resumeLaunchIntent).
THEOREM LaunchesAdopt == ~Mints => (Spec => []NoSpuriousStartupFailure)
<1>1. Init => CleanInv
  <2> SUFFICES ASSUME Init PROVE Clean
    BY DEF CleanInv
  <2>1. Idle.pc = "idle" /\ Idle.hd = 0 /\ Idle.out = "failed" /\ NotFinalizing.next = "running"
    BY DEF Idle, NotFinalizing
  <2> QED
    BY <2>1 DEF Init, LifeInit, Clean, CleanRun, CleanThread, FailPCs, StartupFailure
<1>2. TypeInv /\ LaunchInv /\ CleanInv /\ [Next]_vars => CleanInv'
  BY NextClean DEF CleanInv
<1>3. Spec => []CleanInv
  BY <1>1, <1>2, LaunchInvariant, PTL DEF Spec
<1>4. SUFFICES ASSUME ~Mints PROVE Spec => []NoSpuriousStartupFailure
  OBVIOUS
<1>5. CleanInv => NoSpuriousStartupFailure
  BY <1>4 DEF CleanInv, Clean, CleanRun, StartupFailure, NoSpuriousStartupFailure
<1> QED
  BY <1>3, <1>5, PTL

-----------------------------------------------------------------------------
(* The terminal result.                                                    *)

\* The result file is there before anything says that the run has ended.
RecordedRun(r) ==
    /\ wk[r]["cleanup"] = "off"
    /\ \/ runs[r] \in Terminal \/ metaFile[r] \in Terminal
       \/ fin[r].step \in {"memory", "file", "store"}
       => termFile[r] # "absent"

RecordedThread(x) == x.pc \in {"fail_file", "fail_store"} => termFile[x.run] # "absent"

Recorded ==
    /\ \A r \in Runs : RecordedRun(r)
    /\ \A p \in Threads : RecordedThread(th[p])

LEMMA ClaimRecords ==
  ASSUME TypeInv, NEW r \in Runs, NEW w, w # "cleanup", NEW step, step \in {"update", "persist"}, NEW next,
         Claim(r, w, step, next)
  PROVE  /\ wk'[r]["cleanup"] = wk[r]["cleanup"] /\ runs'[r] \in {runs[r], metaFile[r]}
         /\ fin'[r].step \in {fin[r].step, "update", "persist"}
  BY LifeFacts DEF Claim, LookupRun, Workers

LEMMA RunRecorded ==
  ASSUME "cleanup" \notin ClientOps, TypeInv, NEW r \in Runs, RecordedRun(r), RunStep(r)
  PROVE  RecordedRun(r)' /\ (termFile[r] # "absent" => termFile'[r] # "absent")
<1>0. /\ fin[r] \in Finalizer /\ FinDecided(fin) /\ NotFinalizing.step = "idle"
      /\ "cleanup" \in Workers /\ "absent" \notin Terminal
  BY TypeFacts DEF NotFinalizing, Workers, Terminal
<1>1. CASE WorkerExits(r) \/ DeadlinePasses(r)
  BY <1>1 DEF WorkerExits, DeadlinePasses, durable, RecordedRun
<1>2. CASE GiveUp(r)
  BY <1>2, LifeFacts DEF GiveUp, durable, RecordedRun
<1>3. CASE CleanupContainer(r) \/ CleanupDirectory(r)
  BY <1>3 DEF CleanupContainer, CleanupDirectory, ClientCall, RecordedRun
<1>4. ASSUME NEW result, Release(r, result)
      PROVE  fin'[r].step = "idle" /\ (wk[r]["cleanup"] = "off" => wk'[r]["cleanup"] = "off")
  BY <1>0, <1>4, LifeFacts DEF Release
<1>5. ASSUME NEW step, Advance(r, step) PROVE fin'[r].step = step /\ wk' = wk
  BY <1>0, <1>5, LifeFacts DEF Advance, Finalizer
<1>6. ASSUME NEW next, Decide(r, next) PROVE fin'[r].step = "persist" /\ wk' = wk
  BY <1>0, <1>6, LifeFacts DEF Decide, Finalizer
<1>7. CASE MarkTimedOut(r)
  <2>1. fin'[r].step = "persist" /\ wk' = wk
    BY <1>6, <1>7 DEF MarkTimedOut
  <2> QED
    BY <1>7, <2>1 DEF MarkTimedOut, durable, RecordedRun
<1>8. CASE StopUpdate(r)
  <2>1. fin'[r].step \in {"idle", "persist"} /\ (wk[r]["cleanup"] = "off" => wk'[r]["cleanup"] = "off")
    BY <1>4, <1>6, <1>8 DEF StopUpdate
  <2> QED
    BY <1>8, <2>1 DEF StopUpdate, durable, RecordedRun
<1>9. CASE PersistTerminal(r)
  <2>1. fin[r].next \in Terminal
    BY <1>0, <1>9 DEF PersistTerminal, FinDecided
  <2>2. CASE \E result : Release(r, result)
    BY <1>0, <1>4, <1>9, <2>1, <2>2, LifeFacts DEF PersistTerminal, RecordedRun
  <2>3. CASE Advance(r, "memory") /\ termFile' = [termFile EXCEPT ![r] = fin[r].next]
    BY <1>0, <1>5, <1>9, <2>1, <2>3, LifeFacts DEF PersistTerminal, RecordedRun
  <2> QED
    BY <1>9, <2>2, <2>3 DEF PersistTerminal
<1>10. CASE PublishInMemory(r) \/ WriteMetadata(r) \/ SaveFinal(r)
  <2>1. fin[r].step \in {"memory", "file", "store"} /\ termFile' = termFile
    BY <1>10 DEF PublishInMemory, WriteMetadata, SaveFinal, durable
  <2>2. (\E result : Release(r, result)) \/ (\E step : Advance(r, step))
    BY <1>10 DEF PublishInMemory, WriteMetadata, SaveFinal
  <2>3. wk'[r]["cleanup"] = "off"
    BY <1>4, <1>5, <2>2 DEF RecordedRun
  <2> QED
    BY <2>1, <2>3 DEF RecordedRun
<1>11. CASE WatchExit(r) \/ WatchTimeout(r) \/ GetAgentStatus(r) \/ StopAgent(r)
  <2>1. UNCHANGED <<metaFile, termFile>>
    BY <1>11 DEF WatchExit, WatchTimeout, GetAgentStatus, StopAgent, durable
  <2>2. \/ UNCHANGED <<runs, fin>> /\ wk' = [wk EXCEPT ![r]["exit"] = "off"]
        \/ \E w \in {"exit", "timeout", "poll", "stop"}, step \in {"update", "persist"} :
             \E next : Claim(r, w, step, next)
    <3>1. CASE WatchExit(r)
      BY <3>1 DEF WatchExit
    <3>2. CASE GetAgentStatus(r)
      BY <3>2 DEF GetAgentStatus
    <3>3. CASE WatchTimeout(r) \/ StopAgent(r)
      BY <3>3 DEF WatchTimeout, StopAgent
    <3> QED
      BY <1>11, <3>1, <3>2, <3>3
  <2>3. /\ wk'[r]["cleanup"] = wk[r]["cleanup"] /\ runs'[r] \in {runs[r], metaFile[r]}
        /\ fin'[r].step \in {fin[r].step, "update", "persist"}
    BY <1>0, <2>2, ClaimRecords, LifeFacts
  <2> QED
    BY <2>1, <2>3 DEF RecordedRun
<1> QED
  BY <1>1, <1>2, <1>3, <1>7, <1>8, <1>9, <1>10, <1>11 DEF RunStep, Finalize, Watch, Client

LEMMA ResumeRecorded ==
  ASSUME TypeInv, LaunchInv, Recorded, NEW p \in Threads, ResumeStep(p)
  PROVE  Recorded'
<1>1. PICK r \in Runs : r = th[p].run
  BY ThreadFacts
<1>2. /\ RowInv(r) /\ ThreadInv(th[p]) /\ RecordedRun(r) /\ RecordedThread(th[p]) /\ th[p] \in Thread
      /\ "cleanup" \in Workers /\ "absent" \notin Terminal
      /\ "running" \notin Terminal /\ "pending" \notin Terminal /\ "made" \notin Terminal
  BY LifeFacts DEF LaunchInv, Recorded, Workers, Terminal
<1>3. \A q \in Runs : q # r => Same(q)
  BY <1>1, ResumeElsewhere
<1>4. PICK x : th' = [th EXCEPT ![p] = x] /\ x.run = r
  <2>1. Sound(p, r)
    BY <1>1, <1>2, RunningSound, PrepareSound, SaveStepsSound, CreateSound, ReinspectSound, StartSound,
       CommitSound, ExitedSound, FailSound DEF ResumeStep
  <2> QED
    BY <2>1 DEF Sound
<1>5. th'[p] = x /\ \A q \in Threads : q # p => th'[q] = th[q]
  BY <1>4, LifeFacts
<1>6. SUFFICES /\ RecordedRun(r)' /\ (termFile[r] # "absent" => termFile'[r] # "absent")
               /\ x.pc \in {"fail_file", "fail_store"} => termFile'[r] # "absent"
  <2>1. \A q \in Runs : RecordedRun(q)' /\ (termFile[q] # "absent" => termFile'[q] # "absent")
    BY <1>3, <1>6 DEF Recorded, RecordedRun, Same
  <2>2. \A q \in Threads : RecordedThread(th[q])'
    BY <1>4, <1>5, <1>6, <2>1, ThreadFacts DEF Recorded, RecordedThread
  <2> QED
    BY <2>1, <2>2 DEF Recorded
<1>7. CASE PublishRunning(p) \/ InspectRunning(p) \/ Await(p)
  <2>1. UNCHANGED <<metaFile, termFile>> /\ x.pc \in {"inspect", "await", "done", "error"}
    BY <1>5, <1>7, Moves DEF PublishRunning, InspectRunning, Await, durable
  <2>2. /\ wk'[r]["cleanup"] = wk[r]["cleanup"] /\ runs'[r] \in {runs[r], metaFile[r], "running"}
        /\ fin'[r].step \in {fin[r].step, "update", "persist"}
    <3>1. CASE PublishRunning(p)
      BY <1>1, <1>2, <3>1, LifeFacts DEF PublishRunning, ThreadInv
    <3>2. CASE InspectRunning(p)
      <4>1. CASE Claim(r, "resume", "persist", ExitOutcome(cont[r]))
        BY <4>1, ClaimRecords
      <4>2. CASE UNCHANGED <<runs, fin>> /\ (wk' = wk \/ Arm(r))
        BY <1>2, <4>2, LifeFacts DEF Arm
      <4> QED
        BY <1>1, <3>2, <4>1, <4>2 DEF InspectRunning
    <3>3. CASE Await(p)
      BY <1>1, <1>2, <3>3, LifeFacts DEF Await
    <3> QED
      BY <1>7, <3>1, <3>2, <3>3
  <2> QED
    BY <1>2, <2>1, <2>2 DEF RecordedRun
<1>8. CASE Prepare(p)
  <2>1. UNCHANGED <<termFile, runs, fin, wk>> /\ metaFile'[r] \in {metaFile[r], "pending", "made"}
    BY <1>1, <1>2, <1>8, LifeFacts DEF Prepare, ThreadInv
  <2>2. x.pc \notin {"fail_file", "fail_store"}
    <3> DEFINE pc == IF Created(th[p].st) THEN "reinspect" ELSE "save_create"
               hd == IF ~Created(th[p].st) /\ Mints THEN minted + 1 ELSE 0
    <3>1. \/ th' = [th EXCEPT ![p] = [@ EXCEPT !.pc = pc, !.hd = hd]]
          \/ Goto(p, "error")
      BY <1>8 DEF Prepare
    <3> HIDE DEF hd
    <3>2. th'[p].pc \in {"reinspect", "save_create", "error"}
      <4>1. CASE Goto(p, "error")
        BY <4>1, Moves
      <4>2. CASE th' = [th EXCEPT ![p] = [@ EXCEPT !.pc = pc, !.hd = hd]]
        BY <1>2, <4>2, LifeFacts DEF Thread
      <4> QED
        BY <3>1, <4>1, <4>2
    <3> QED
      BY <1>5, <3>2
  <2> QED
    BY <1>2, <2>1, <2>2 DEF RecordedRun
<1>9. CASE SaveCreatePending(p) \/ SaveContainerCreated(p) \/ SaveStartPending(p) \/ CommitSave(p)
  <2>1. UNCHANGED <<metaFile, termFile, runs, fin, wk>>
    BY <1>9 DEF SaveCreatePending, SaveContainerCreated, SaveStartPending, CommitSave, SaveStep
  <2>2. x.pc \notin {"fail_file", "fail_store"}
    BY <1>5, <1>9, Moves, FollowType
    DEF SaveCreatePending, SaveContainerCreated, SaveStartPending, CommitSave, SaveStep
  <2> QED
    BY <1>2, <2>1, <2>2 DEF RecordedRun
<1>10. CASE RuntimeCreate(p) \/ Reinspect(p) \/ RuntimeStart(p)
  <2>1. UNCHANGED <<metaFile, termFile, runs, fin, wk>>
    BY <1>10 DEF RuntimeCreate, Reinspect, RuntimeStart, durable
  <2>2. x.pc \notin {"fail_file", "fail_store"}
    <3>1. CASE RuntimeCreate(p)
      BY <1>5, <3>1, Moves DEF RuntimeCreate
    <3>2. CASE Reinspect(p)
      BY <1>5, <3>2, Moves, FollowType DEF Reinspect
    <3>3. CASE RuntimeStart(p)
      BY <1>5, <3>3, Moves, FollowType DEF RuntimeStart
    <3> QED
      BY <1>10, <3>1, <3>2, <3>3
  <2> QED
    BY <1>2, <2>1, <2>2 DEF RecordedRun
<1>11. CASE CommitFile(p)
  <2>1. UNCHANGED <<termFile, runs, fin, wk>> /\ metaFile'[r] \in {metaFile[r], "running"}
    BY <1>1, <1>2, <1>11, LifeFacts DEF CommitFile, WriteFileStep, ThreadInv
  <2>2. x.pc \in {"commit_store", "error"}
    BY <1>5, <1>11, Moves DEF CommitFile, WriteFileStep
  <2> QED
    BY <1>2, <2>1, <2>2 DEF RecordedRun
<1>12. CASE CommitStore(p)
  <2>1. UNCHANGED <<metaFile, termFile, fin>> /\ runs'[r] \in {runs[r], "running"} /\ (wk' = wk \/ Arm(r))
    BY <1>1, <1>12, LifeFacts DEF CommitStore
  <2>2. wk'[r]["cleanup"] = wk[r]["cleanup"]
    <3>1. CASE Arm(r)
      BY <1>2, <3>1, LifeFacts DEF Arm
    <3> QED
      BY <2>1, <3>1
  <2>3. x.pc \in {"done", "error"}
    BY <1>5, <1>12, Moves DEF CommitStore
  <2> QED
    BY <1>2, <2>1, <2>2, <2>3 DEF RecordedRun
<1>13. CASE ExitedPublish(p) \/ ExitedClaim(p) \/ ExitedSave(p)
  <2>1. UNCHANGED <<metaFile, termFile>>
    BY <1>13 DEF ExitedPublish, ExitedClaim, ExitedSave, durable
  <2>2. x.pc \in {"exited_claim", "exited_save", "done", "error"}
    BY <1>5, <1>13, Moves DEF ExitedPublish, ExitedClaim, ExitedSave
  <2>3. /\ wk'[r]["cleanup"] = wk[r]["cleanup"] /\ runs'[r] \in {runs[r], metaFile[r], "running"}
        /\ fin'[r].step \in {fin[r].step, "update", "persist"}
    <3>1. CASE ExitedPublish(p)
      BY <1>1, <3>1, LifeFacts DEF ExitedPublish
    <3>2. CASE ExitedClaim(p)
      BY <1>1, <3>2, ClaimRecords DEF ExitedClaim
    <3>3. CASE ExitedSave(p)
      BY <1>1, <1>2, <3>3, LifeFacts DEF ExitedSave
    <3> QED
      BY <1>13, <3>1, <3>2, <3>3
  <2> QED
    BY <1>2, <2>1, <2>2, <2>3 DEF RecordedRun
<1>14. CASE FailResult(p)
  <2>1. th[p].out # "absent"
    BY <1>2, <1>14, TypeFacts DEF FailResult, ThDecided
  <2>2. /\ UNCHANGED <<metaFile, runs, fin, wk>> /\ termFile'[r] \in {termFile[r], th[p].out}
        /\ termFile'[r] = th[p].out \/ Goto(p, "error")
    BY <1>1, <1>14, LifeFacts DEF FailResult
  <2>3. x.pc \in {"fail_file", "error"} /\ (Goto(p, "error") => x.pc = "error")
    BY <1>5, <1>14, Moves DEF FailResult
  <2> QED
    BY <1>2, <2>1, <2>2, <2>3 DEF RecordedRun
<1>15. CASE FailFile(p) \/ FailStore(p)
  <2>1. UNCHANGED <<termFile, wk>> /\ termFile[r] # "absent"
    BY <1>1, <1>2, <1>15 DEF FailFile, FailStore, WriteFileStep, RecordedThread
  <2> QED
    BY <1>2, <2>1 DEF RecordedRun
<1> QED
  BY <1>7, <1>8, <1>9, <1>10, <1>11, <1>12, <1>13, <1>14, <1>15 DEF ResumeStep

LEMMA BeginRecorded ==
  ASSUME Recorded, NEW p \in Threads, th \in [Threads -> Thread], NEW x, th' = [th EXCEPT ![p] = x],
         x.pc \notin {"fail_file", "fail_store"}, UNCHANGED <<metaFile, termFile, runs, fin, wk>>
  PROVE  Recorded'
<1>1. \A r \in Runs : RecordedRun(r)'
  BY DEF Recorded, RecordedRun
<1>2. \A q \in Threads : RecordedThread(th[q])'
  BY DEF Recorded, RecordedThread
<1> QED
  BY <1>1, <1>2 DEF Recorded

LEMMA NextRecorded ==
  ASSUME "cleanup" \notin ClientOps, TypeInv, LaunchInv, Recorded, [Next]_vars
  PROVE  Recorded'
<1>0. /\ th \in [Threads -> Thread] /\ NotFinalizing.step = "idle" /\ Idle.pc = "idle"
      /\ "cleanup" \in Workers /\ "absent" \notin Terminal /\ Boot \in Threads
  BY LifeFacts DEF NotFinalizing, Idle, Workers, Terminal
<1>1. ASSUME NEW r \in Runs, RunStep(r) PROVE Recorded'
  <2>1. th' = th /\ RecordedRun(r)
    BY <1>1 DEF RunStep, launchVars, Recorded
  <2>2. \A q \in Runs : RecordedRun(q)' /\ (termFile[q] # "absent" => termFile'[q] # "absent")
    BY <1>1, <2>1, RunRecorded, RunElsewhere DEF Recorded, RecordedRun, Same
  <2>3. \A p \in Threads : RecordedThread(th[p])'
    BY <2>1, <2>2, ThreadFacts DEF Recorded, RecordedThread
  <2> QED
    BY <2>2, <2>3 DEF Recorded
<1>2. ASSUME NEW c \in Callers, NEW k \in Keys, NEW f \in Fps, Request(c, k, f) PROVE Recorded'
  <2>1. UNCHANGED <<metaFile, termFile, runs, fin, wk>> /\ c \in Threads
    BY <1>2 DEF Request, Threads, lifeVars
  <2>2. /\ [Idle EXCEPT !.pc = "error", !.key = k].pc = "error"
        /\ [Idle EXCEPT !.pc = "create_intent", !.key = k, !.fp = f].pc = "create_intent"
        /\ \A r : Snapshot(r, k, f).pc \in {"done", "publish", "prepare"}
    BY DEF Idle, Snapshot, Entry
  <2>3. CASE \E r \in RowsOf(k) : th' = [th EXCEPT ![c] = Snapshot(r, k, f)]
    BY <1>0, <2>1, <2>2, <2>3, BeginRecorded
  <2>4. CASE th' = [th EXCEPT ![c] = [Idle EXCEPT !.pc = "error", !.key = k]]
    BY <1>0, <2>1, <2>2, <2>4, BeginRecorded
  <2>5. CASE th' = [th EXCEPT ![c] = [Idle EXCEPT !.pc = "create_intent", !.key = k, !.fp = f]]
    BY <1>0, <2>1, <2>2, <2>5, BeginRecorded
  <2> QED
    BY <1>2, <2>3, <2>4, <2>5 DEF Request
<1>3. ASSUME NEW c \in Callers, NEW r \in Runs, CreateIntent(c, r) PROVE Recorded'
  <2> DEFINE k == th[c].key
             f == th[c].fp
             new == [Idle EXCEPT !.pc = "prepare", !.key = k, !.fp = f,
                                 !.run = r, !.st = "intent_created", !.out = "pending"]
  <2>1. UNCHANGED <<metaFile, termFile, runs, fin, wk>> /\ c \in Threads
    BY <1>3 DEF CreateIntent, Threads
  <2>2. CASE th' = [th EXCEPT ![c] = new]
    <3>1. new.pc = "prepare"
      BY DEF Idle
    <3> QED
      BY <1>0, <2>1, <2>2, <3>1, BeginRecorded
  <2>3. CASE Goto(c, "error")
    <3>1. PICK x \in Thread : th' = [th EXCEPT ![c] = x] /\ x.pc = "error"
      BY <2>1, <2>3, StateNames, GotoThread
    <3> QED
      BY <1>0, <2>1, <3>1, BeginRecorded
  <2> QED
    BY <1>3, <2>2, <2>3 DEF CreateIntent
<1>4. ASSUME NEW c \in Callers, Answer(c) PROVE Recorded'
  BY <1>0, <1>4, BeginRecorded DEF Answer, Threads, lifeVars
<1>5. CASE Start \/ ScanDone \/ Serve
  BY <1>5 DEF Start, ScanDone, Serve, Recorded, RecordedRun, RecordedThread, lifeVars
<1>6. CASE BootResumed
  BY <1>0, <1>6, BeginRecorded DEF BootResumed, lifeVars
<1>7. ASSUME NEW r \in Runs, BootResume(r) PROVE Recorded'
  <2>1. PICK x : /\ th' = [th EXCEPT ![Boot] = x]
                 /\ \/ x = Snapshot(r, keyOf[r], fpOf[r])
                    \/ x.pc = "error"
    BY <1>7, BootResumeThread
  <2>2. x.pc \in {"done", "publish", "prepare", "error"}
    BY <2>1 DEF Snapshot, Entry
  <2>3. UNCHANGED <<metaFile, termFile, runs, fin, wk>>
    BY <1>7 DEF BootResume, lifeVars
  <2> QED
    BY <1>0, <2>1, <2>2, <2>3, BeginRecorded
<1>8. ASSUME NEW r \in Runs, ScanRun(r) PROVE Recorded'
  <2>1. UNCHANGED <<metaFile, termFile>>
    BY <1>8 DEF ScanRun, durable
  <2>2. \/ UNCHANGED <<runs, fin, wk>>
        \/ \E step \in {"update", "persist"} : \E next : Claim(r, "resume", step, next)
    BY <1>8 DEF ScanRun
  <2>3. ASSUME NEW q \in Runs PROVE RecordedRun(q)'
    <3>1. CASE UNCHANGED <<runs, fin, wk>>
      BY <2>1, <3>1 DEF Recorded, RecordedRun
    <3>2. CASE q # r
      BY <2>1, <2>2, <3>1, <3>2, ClaimElsewhere DEF Recorded, RecordedRun
    <3>3. CASE q = r /\ \E step \in {"update", "persist"} : \E next : Claim(r, "resume", step, next)
      <4>1. /\ wk'[r]["cleanup"] = wk[r]["cleanup"] /\ runs'[r] \in {runs[r], metaFile[r]}
            /\ fin'[r].step \in {fin[r].step, "update", "persist"}
        BY <3>3, ClaimRecords
      <4> QED
        BY <2>1, <3>3, <4>1 DEF Recorded, RecordedRun
    <3> QED
      BY <2>2, <3>1, <3>2, <3>3
  <2>4. PICK y : y = [th[Boot] EXCEPT !.pc = "scan_await", !.run = r]
    OBVIOUS
  <2>5. th' = [th EXCEPT ![Boot] = y] /\ y.pc = "scan_await"
    BY <1>0, <1>8, <2>4 DEF ScanRun, Thread
  <2>6. \A q \in Threads : RecordedThread(th[q])'
    BY <1>0, <2>1, <2>5 DEF Recorded, RecordedThread
  <2> QED
    BY <2>3, <2>6 DEF Recorded
<1>9. CASE ScanPublish
  <2>1. PICK r \in Runs : r = th[Boot].run
    BY <1>0, ThreadFacts
  <2>2. /\ UNCHANGED <<metaFile, fin>> /\ runs'[r] \in {runs[r], metaFile[r]}
        /\ \A q \in Runs : q # r => runs'[q] = runs[q]
    BY <1>9, <2>1, LifeFacts DEF ScanPublish, LookupRun
  <2>3. \A q \in Runs : wk'[q]["cleanup"] = wk[q]["cleanup"]
    BY <1>0, <1>9, <2>1, LifeFacts DEF ScanPublish
  <2>4. \A q \in Runs : termFile[q] # "absent" => termFile'[q] # "absent"
    BY <1>0, <1>9, <2>1, LifeFacts DEF ScanPublish
  <2>5. \A q \in Runs : RecordedRun(q)'
    BY <2>2, <2>3, <2>4 DEF Recorded, RecordedRun
  <2>6. PICK pc \in {"idle", "error"} : Goto(Boot, pc)
    BY <1>9 DEF ScanPublish
  <2>7. PICK x \in Thread : th' = [th EXCEPT ![Boot] = x] /\ x.pc = pc
    BY <1>0, <2>6, GotoThread DEF PCs
  <2>8. \A q \in Threads : RecordedThread(th[q])'
    BY <1>0, <2>4, <2>6, <2>7, ThreadFacts DEF Recorded, RecordedThread
  <2> QED
    BY <2>5, <2>8 DEF Recorded
<1>10. CASE BootFails \/ Crash
  <2>1. /\ UNCHANGED <<metaFile, termFile>>
        /\ \A r \in Runs : /\ runs'[r] = "absent" /\ fin'[r] = NotFinalizing
                           /\ wk'[r] = [w \in Workers |-> "off"]
        /\ \A p \in Threads : th'[p] = Idle
    BY <1>10 DEF BootFails, Crash, Die, durable
  <2> QED
    BY <1>0, <2>1 DEF Recorded, RecordedRun, RecordedThread
<1>11. CASE UNCHANGED vars
  BY <1>11 DEF vars, lifeVars, launchVars, Recorded, RecordedRun, RecordedThread
<1> QED
  BY <1>1, <1>2, <1>3, <1>4, <1>5, <1>6, <1>7, <1>8, <1>9, <1>10, <1>11, ResumeRecorded
  DEF Next, BootStep

RecordedInv == "cleanup" \notin ClientOps => Recorded

\* As long as no client cleans the run up, a run that a serving process shows
\* as terminal has its terminal result, however finalizations, failing launches
\* and restarts interleave and whichever of their calls fail
\* (finalizeTerminalRun, commitStartupFailureIntent, Reconcile).
THEOREM ResultsAvailable == "cleanup" \notin ClientOps => (Spec => []TerminalResultAvailable)
<1>1. Init => RecordedInv
  <2>1. /\ NotFinalizing.step = "idle" /\ Idle.pc = "idle" /\ "cleanup" \in Workers
        /\ "absent" \notin Terminal
    BY DEF NotFinalizing, Idle, Workers, Terminal
  <2> QED
    BY <2>1 DEF Init, LifeInit, RecordedInv, Recorded, RecordedRun, RecordedThread
<1>2. TypeInv /\ LaunchInv /\ RecordedInv /\ [Next]_vars => RecordedInv'
  BY NextRecorded DEF RecordedInv
<1>3. Spec => []RecordedInv
  BY <1>1, <1>2, LaunchInvariant, PTL DEF Spec
<1>4. SUFFICES ASSUME "cleanup" \notin ClientOps PROVE Spec => []TerminalResultAvailable
  OBVIOUS
<1>5. RecordedInv => TerminalResultAvailable
  BY <1>4 DEF RecordedInv, Recorded, RecordedRun, TerminalResultAvailable
<1> QED
  BY <1>3, <1>5, PTL
=============================================================================
