----------------------------- MODULE PullCreate -----------------------------
(***************************************************************************)
(* POST /v1/repos/{owner}/{repo}/pulls with correlation configured:        *)
(* handlePullCreate and pullCreateWithCorrelation of the GitHub broker,    *)
(* over GitHub, the idempotency file, the mutation budget file and the     *)
(* correlation store.                                                      *)
(*                                                                         *)
(* The crash seam is the point: the pull request is made at GitHub, then   *)
(* recorded in one file, then marked done in another.  The process may die *)
(* and any call may fail between the three, callers retry, and consumers   *)
(* drain the outbox meanwhile.                                             *)
(*                                                                         *)
(* One agent, repository and run.  The operation id is a hash of the agent,*)
(* repository, head, base and key, and stands for all of them.             *)
(***************************************************************************)
EXTENDS CorrelationStore

CONSTANTS
    Callers,      \* concurrent requests
    Digests,      \* request digests (title, body, draft)
    Guarded,      \* the branch lifecycle guard is in mode enforce
    MaxObjects,   \* max_new_objects_per_run, 0 for no budget
    MaxCloses,    \* bound on pull requests closed at GitHub
    MaxFaults,    \* bound on failing calls
    MaxCrashes    \* bound on crashes

ASSUME NonEmpty == Ops # {} /\ Digests # {}
ASSUME GuardedBool == Guarded \in BOOLEAN
ASSUME BoundsNat == /\ MaxObjects \in Nat /\ MaxCloses \in Nat
                    /\ MaxFaults \in Nat /\ MaxCrashes \in Nat

VARIABLES
    pulls,        \* GitHub: the pull requests, by number
    record,       \* the idempotency file, by scoped key
    used,         \* the mutation budget file: objects of the run
    call,         \* the requests being handled
    answers,      \* history: the successful answers given
    closes, faults, crashes

pullVars == <<pulls, record, used, call, answers, closes, faults, crashes>>
vars     == <<storeVars, pullVars>>

PullNumbers == 1..MaxPulls

\* The steps of a request; from lookup on it holds pullCreateMu.
LockedPCs == {"lookup", "search", "create", "recover", "record", "store"}
PCs       == {"idle", "guard", "budget", "verify", "reserve"} \cup LockedPCs

Call == [pc: PCs, op: Ops, digest: Digests, valid: BOOLEAN, replay: BOOLEAN,
         pull: 0..MaxPulls]

TypeOK ==
    /\ StoreTypeOK
    /\ pulls \in Seq([op: Ops, open: BOOLEAN, titled: BOOLEAN]) /\ Len(pulls) <= MaxPulls
    /\ record \in [Ops -> [state: {"none", "pending", "done"}, digest: Digests,
                           pull: 0..MaxPulls]]
    /\ used \in 0..MaxObjects
    /\ call \in [Callers -> Call]
    /\ answers \subseteq [op: Ops, digest: Digests, pull: PullNumbers]
    /\ closes \in 0..MaxCloses /\ faults \in 0..MaxFaults /\ crashes \in 0..MaxCrashes

Idle == [pc |-> "idle", op |-> CHOOSE o \in Ops : TRUE,
         digest |-> CHOOSE d \in Digests : TRUE,
         valid |-> TRUE, replay |-> FALSE, pull |-> 0]

Init ==
    /\ StoreInit
    /\ pulls = << >>
    /\ record = [op \in Ops |-> [state |-> "none", digest |-> Idle.digest, pull |-> 0]]
    /\ used = 0
    /\ call = [c \in Callers |-> Idle]
    /\ answers = {}
    /\ closes = 0 /\ faults = 0 /\ crashes = 0

Goto(c, pc) == call' = [call EXCEPT ![c].pc = pc]

\* The request ends with an error answer.
Refuse(c) == call' = [call EXCEPT ![c] = Idle]

Fault == faults < MaxFaults /\ faults' = faults + 1

Use(c, pull) == call' = [call EXCEPT ![c] = [@ EXCEPT !.pc = "record", !.pull = pull]]

\* A successful answer with this pull request.
Succeed(c, pull) ==
    /\ answers' = answers \cup {[op |-> call[c].op, digest |-> call[c].digest, pull |-> pull]}
    /\ call' = [call EXCEPT ![c] = Idle]

-----------------------------------------------------------------------------
(* handlePullCreate.                                                       *)

\* A request is valid when it has a key and the handle of the run, and no
\* metadata field that disagrees with the verified claims.
Request(c, op, digest, valid) ==
    /\ call[c].pc = "idle"
    /\ call' = [call EXCEPT ![c] = [Idle EXCEPT !.pc = "guard", !.op = op,
                                                !.digest = digest, !.valid = valid]]
    /\ UNCHANGED <<storeVars, pulls, record, used, answers, closes, faults, crashes>>

\* checkBranchLifecycle: in mode enforce a branch that has backed a closed pull
\* request is refused, and so is one whose state cannot be listed.
CheckBranchLifecycle(c) ==
    LET stale == \E p \in DOMAIN pulls : pulls[p].op = call[c].op /\ ~pulls[p].open IN
    /\ call[c].pc = "guard"
    /\ \/ ~(Guarded /\ stale) /\ Goto(c, "budget") /\ UNCHANGED faults
       \/ Guarded /\ stale /\ Refuse(c) /\ UNCHANGED faults
       \/ Guarded /\ Fault /\ Refuse(c)
    /\ UNCHANGED <<storeVars, pulls, record, used, answers, closes, crashes>>

\* Mutant: one object too many.
BudgetSpentOffByOne == MaxObjects > 0 /\ used > MaxObjects

\* limits.CheckAndReserve
BudgetSpent == MaxObjects > 0 /\ used >= MaxObjects

\* reserveMutation: every attempt counts, retries of a done or pending
\* operation included.
ReserveMutation(c) ==
    /\ call[c].pc = "budget"
    /\ \/ /\ ~BudgetSpent
          /\ used' = IF MaxObjects > 0 THEN used + 1 ELSE used
          /\ Goto(c, "verify")
          /\ UNCHANGED faults
       \/ BudgetSpent /\ Refuse(c) /\ UNCHANGED <<used, faults>>
       \/ MaxObjects > 0 /\ Fault /\ Refuse(c) /\ UNCHANGED used
    /\ UNCHANGED <<storeVars, pulls, record, answers, closes, crashes>>

-----------------------------------------------------------------------------
(* pullCreateWithCorrelation.                                              *)

\* The capability, the identity fields and the Idempotency-Key are checked.
Verify(c) ==
    /\ call[c].pc = "verify"
    /\ \/ call[c].valid /\ Goto(c, "reserve") /\ UNCHANGED faults
       \/ ~call[c].valid /\ Refuse(c) /\ UNCHANGED faults
       \/ Fault /\ Refuse(c)
    /\ UNCHANGED <<storeVars, pulls, record, used, answers, closes, crashes>>

\* pullCreateMu
Locked == \E c \in Callers : call[c].pc \in LockedPCs

\* Mutant: the digest of the record is not compared.
ConflictNever(op, digest) == FALSE

\* The key was used for another request.
Conflict(op, digest) == record[op].state # "none" /\ record[op].digest # digest

\* Take pullCreateMu and ReserveExact: a durable pending record before the first
\* call that changes GitHub.  A done record is replayed.
ReserveExact(c) ==
    LET op == call[c].op
        digest == call[c].digest
        enter(replay) ==
            call' = [call EXCEPT ![c] = [@ EXCEPT !.pc = "lookup", !.replay = replay]]
    IN
    /\ call[c].pc = "reserve" /\ ~Locked
    /\ \/ /\ record[op].state = "none"
          /\ record' = [record EXCEPT ![op] =
                          [state |-> "pending", digest |-> digest, pull |-> 0]]
          /\ enter(FALSE)
          /\ UNCHANGED <<answers, faults>>
       \/ /\ Conflict(op, digest)
          /\ Refuse(c)
          /\ UNCHANGED <<record, answers, faults>>
       \/ /\ record[op].state = "done" /\ ~Conflict(op, digest)
          /\ Succeed(c, record[op].pull)
          /\ UNCHANGED <<record, faults>>
       \/ /\ record[op].state = "pending" /\ ~Conflict(op, digest)
          /\ enter(TRUE)
          /\ UNCHANGED <<record, answers, faults>>
       \/ Fault /\ Refuse(c) /\ UNCHANGED <<record, answers>>
    /\ UNCHANGED <<storeVars, pulls, used, closes, crashes>>

\* Mutant: an interrupted attempt is not looked for at GitHub.
AfterLookupCreates(replay) == "create"

AfterLookup(replay) == IF replay THEN "search" ELSE "create"

\* reconcileOrCreatePull: GetByOperation, then GetPull of a recorded one.
Lookup(c) ==
    LET found == ByOperation(call[c].op) IN
    /\ call[c].pc = "lookup"
    /\ \/ \E i \in found : Use(c, rows[i].pull) /\ UNCHANGED faults
       \/ found = {} /\ Goto(c, AfterLookup(call[c].replay)) /\ UNCHANGED faults
       \/ Fault /\ Refuse(c)
    /\ UNCHANGED <<storeVars, pulls, record, used, answers, closes, crashes>>

\* Mutant: the marker is not compared, any open pull request of the branch does.
OpenPullsOfAny(op) == {p \in DOMAIN pulls : pulls[p].open /\ pulls[p].titled}

\* openPullForOperation finds open pull requests with the title that was asked
\* for and the marker of the operation, and takes the one with the lowest number.
OpenPulls(op) == {p \in DOMAIN pulls : pulls[p].op = op /\ pulls[p].open /\ pulls[p].titled}
Lowest(ps)    == {p \in ps : \A q \in ps : p <= q}

Search(c) ==
    LET found == OpenPulls(call[c].op) IN
    /\ call[c].pc = "search"
    /\ \/ \E p \in Lowest(found) : Use(c, p) /\ UNCHANGED faults
       \/ found = {} /\ Goto(c, "create") /\ UNCHANGED faults
       \/ Fault /\ Refuse(c)
    /\ UNCHANGED <<storeVars, pulls, record, used, answers, closes, crashes>>

\* CreatePull.  When it fails GitHub may have made the pull request.
CreatePull(c) ==
    LET new == Append(pulls, [op |-> call[c].op, open |-> TRUE, titled |-> TRUE]) IN
    /\ call[c].pc = "create" /\ Len(pulls) < MaxPulls
    /\ \/ pulls' = new /\ Use(c, Len(new)) /\ UNCHANGED faults
       \/ Fault /\ pulls' \in {pulls, new} /\ Goto(c, "recover")
    /\ UNCHANGED <<storeVars, record, used, answers, closes, crashes>>

\* The same search after a failed CreatePull.
Recover(c) ==
    LET found == OpenPulls(call[c].op) IN
    /\ call[c].pc = "recover"
    /\ \/ \E p \in Lowest(found) : Use(c, p) /\ UNCHANGED faults
       \/ found = {} /\ Refuse(c) /\ UNCHANGED faults
       \/ Fault /\ Refuse(c)
    /\ UNCHANGED <<storeVars, pulls, record, used, answers, closes, crashes>>

\* Mutant: the result is stored although the correlation was not.
RecordCorrelationIgnoresError(c) ==
    /\ call[c].pc = "record"
    /\ \/ Record(call[c].op, call[c].pull) /\ UNCHANGED faults
       \/ Fault /\ UNCHANGED rows
    /\ Goto(c, "store")
    /\ UNCHANGED <<tick, held, pulls, record, used, answers, closes, crashes>>

\* Correlation and outbox event in one transaction.  After an error the pending
\* record stays; the transaction may have been committed all the same.
RecordCorrelation(c) ==
    LET op == call[c].op
        pull == call[c].pull
    IN
    /\ call[c].pc = "record"
    /\ \/ ~RecordFails(op, pull) /\ Record(op, pull) /\ Goto(c, "store") /\ UNCHANGED faults
       \/ RecordFails(op, pull) /\ Refuse(c) /\ UNCHANGED <<rows, faults>>
       \/ Fault /\ Refuse(c) /\ (Record(op, pull) \/ UNCHANGED rows)
    /\ UNCHANGED <<tick, held, pulls, record, used, answers, closes, crashes>>

\* writeExactIdempotentJSON stores the response and then sends it.
StoreResponse(c) ==
    /\ call[c].pc = "store"
    /\ \/ /\ record' = [record EXCEPT ![call[c].op] =
                          [state |-> "done", digest |-> call[c].digest, pull |-> call[c].pull]]
          /\ Succeed(c, call[c].pull)
          /\ UNCHANGED faults
       \/ Fault /\ Refuse(c) /\ UNCHANGED <<record, answers>>
    /\ UNCHANGED <<storeVars, pulls, used, closes, crashes>>

-----------------------------------------------------------------------------
(* The environment.                                                        *)

\* Somebody closes or merges a pull request.
Close(p) ==
    /\ closes < MaxCloses /\ pulls[p].open
    /\ closes' = closes + 1
    /\ pulls' = [pulls EXCEPT ![p].open = FALSE]
    /\ UNCHANGED <<storeVars, record, used, call, answers, faults, crashes>>

\* Somebody edits the title of a pull request.
Retitle(p) ==
    /\ closes < MaxCloses /\ pulls[p].open /\ pulls[p].titled
    /\ closes' = closes + 1
    /\ pulls' = [pulls EXCEPT ![p].titled = FALSE]
    /\ UNCHANGED <<storeVars, record, used, call, answers, faults, crashes>>

\* The process dies and is restarted: the requests and the mutex are gone.
Crash ==
    /\ crashes < MaxCrashes /\ \E c \in Callers : call[c].pc # "idle"
    /\ crashes' = crashes + 1
    /\ call' = [c \in Callers |-> Idle]
    /\ UNCHANGED <<storeVars, pulls, record, used, answers, closes, faults>>

Handle(c) ==
    \/ CheckBranchLifecycle(c) \/ ReserveMutation(c) \/ Verify(c) \/ ReserveExact(c)
    \/ Lookup(c) \/ Search(c) \/ CreatePull(c) \/ Recover(c)
    \/ RecordCorrelation(c) \/ StoreResponse(c)

Next ==
    \/ \E c \in Callers :
          \/ \E op \in Ops, d \in Digests, v \in BOOLEAN : Request(c, op, d, v)
          \/ Handle(c)
    \/ \E p \in DOMAIN pulls : Close(p) \/ Retitle(p)
    \/ Crash
    \/ (Tick \/ \E k \in Consumers : Consume(k)) /\ UNCHANGED pullVars

Spec == Init /\ [][Next]_vars

\* Handlers run to their end, and a caller with a valid request comes back: the
\* contract has it retry with the same Idempotency-Key.
Fairness ==
    /\ ConsumerFairness
    /\ \A c \in Callers :
         /\ WF_vars(Handle(c))
         /\ \A op \in Ops, d \in Digests : SF_vars(Request(c, op, d, TRUE))

LiveSpec == Spec /\ Fairness

-----------------------------------------------------------------------------
(* Properties.                                                             *)

\* The promise to the callers, through retries, concurrent requests, failing
\* calls, closed and edited pull requests and crashes (pullCreateWithCorrelation).
Contract == INSTANCE PullContract
                WITH Pulls <- PullNumbers,
                     recorded <- {[op |-> rows[i].op, pull |-> rows[i].pull] : i \in DOMAIN rows}
KeepsContract == Contract!Spec

\* Retries of one logical request never make a second pull request, through
\* crashes, lost answers and concurrent attempts, unless the first was closed or
\* given another title.
OneOpenPullPerOperation ==
    \A p, q \in DOMAIN pulls :
        /\ pulls[p].op = pulls[q].op
        /\ pulls[p].open /\ pulls[p].titled /\ pulls[q].open /\ pulls[q].titled
        => p = q

\* A correlation is recorded for a pull request that carries the marker of its
\* operation, never for one that only shares the branch.
CorrelatesOwnPull ==
    \A i \in DOMAIN rows : rows[i].pull \in DOMAIN pulls /\ pulls[rows[i].pull].op = rows[i].op

\* A pull request that was made is correlated, and its event is delivered to a
\* consumer, in the end: crashes and failures around the call to GitHub are
\* repaired by the next retry.
PullIsDelivered ==
    \A p \in PullNumbers :
        p \in DOMAIN pulls ~> \E i \in DOMAIN rows : rows[i].pull = p /\ rows[i].status = "acked"
=============================================================================
