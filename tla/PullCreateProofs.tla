-------------------------- MODULE PullCreateProofs --------------------------
(***************************************************************************)
(* Theorems about PullCreate, for every set of operations, requests,       *)
(* callers and consumers and every bound.                                  *)
(***************************************************************************)
EXTENDS PullCreate, SequenceTheorems, TLAPS

-----------------------------------------------------------------------------
(* The invariant.                                                          *)

RowOf(op, pull) == \E i \in DOMAIN rows : rows[i].op = op /\ rows[i].pull = pull

\* UNIQUE (operation_id) and UNIQUE (repo, pr_number).
RowsUnique ==
    \A i, j \in DOMAIN rows :
        rows[i].op = rows[j].op \/ rows[i].pull = rows[j].pull => i = j

\* What the idempotency file calls done has been recorded.
DoneIsRecorded ==
    \A op \in Ops : record[op].state = "done" => RowOf(op, record[op].pull)

\* pullCreateMu has one owner, and its owner works on a pending record.
Exclusive ==
    \A c, d \in Callers : call[c].pc \in LockedPCs /\ call[d].pc \in LockedPCs => c = d

OwnsPending(x) ==
    x.pc \in LockedPCs =>
        record[x.op].state = "pending" /\ record[x.op].digest = x.digest

\* What a request knows of the correlation store when it has got to its step.
Knows(x) ==
    /\ x.pc \in {"search", "create", "recover"} => ByOperation(x.op) = {}
    /\ x.pc \in {"record", "store"} => x.pull \in PullNumbers
    /\ x.pc = "record" => \A i \in ByOperation(x.op) : rows[i].pull = x.pull
    /\ x.pc = "store" => RowOf(x.op, x.pull)

CallsSound == \A c \in Callers : OwnsPending(call[c]) /\ Knows(call[c])

\* An answer is what the idempotency file says.
AnswersAreDone ==
    \A a \in answers : record[a.op] = [state |-> "done", digest |-> a.digest, pull |-> a.pull]

Safe == RowsUnique /\ DoneIsRecorded /\ Exclusive /\ CallsSound /\ AnswersAreDone

Inv == TypeOK /\ Safe

-----------------------------------------------------------------------------
(* Steps that leave the correlations, the records and the answers alone.   *)

Recorded == {[op |-> rows[i].op, pull |-> rows[i].pull] : i \in DOMAIN rows}

RowsKept ==
    /\ DOMAIN rows' = DOMAIN rows
    /\ \A i \in DOMAIN rows : rows'[i].op = rows[i].op /\ rows'[i].pull = rows[i].pull

LEMMA KeptRecorded == ASSUME RowsKept PROVE Recorded' = Recorded
  BY DEF RowsKept, Recorded

LEMMA KeptRows ==
  ASSUME RowsKept
  PROVE  /\ RowsUnique => RowsUnique'
         /\ \A op, pull : RowOf(op, pull)' <=> RowOf(op, pull)
         /\ \A op : ByOperation(op)' = ByOperation(op)
         /\ \A x : Knows(x) => Knows(x)'
<1>1. RowsUnique => RowsUnique'
  BY DEF RowsKept, RowsUnique
<1>2. \A op, pull : RowOf(op, pull)' <=> RowOf(op, pull)
  BY DEF RowsKept, RowOf
<1>3. \A op : ByOperation(op)' = ByOperation(op)
  BY DEF RowsKept, ByOperation
<1>4. ASSUME NEW x, Knows(x) PROVE Knows(x)'
  <2>1. x.pc = "record" => \A i \in ByOperation(x.op)' : rows'[i].pull = x.pull
    BY <1>3, <1>4 DEF RowsKept, Knows, ByOperation
  <2> QED
    BY <1>2, <1>3, <1>4, <2>1 DEF Knows
<1> QED
  BY <1>1, <1>2, <1>3, <1>4

\* One request moves on and all else stays.
LEMMA MoveSafe ==
  ASSUME Inv, NEW c \in Callers, NEW x \in Call,
         call' = [call EXCEPT ![c] = x],
         RowsKept, record' = record, answers' = answers,
         x.pc \in LockedPCs => /\ call[c].pc \in LockedPCs
                               /\ x.op = call[c].op /\ x.digest = call[c].digest,
         Knows(x)
  PROVE  Safe'
<1>0. call \in [Callers -> Call]
  BY DEF Inv, TypeOK
<1>1. RowsUnique'
  BY KeptRows DEF Inv, Safe
<1>2. DoneIsRecorded'
  BY KeptRows DEF Inv, Safe, DoneIsRecorded
<1>3. \A d \in Callers : call'[d] = IF d = c THEN x ELSE call[d]
  BY <1>0
<1>4. \A d \in Callers : call'[d].pc \in LockedPCs => call[d].pc \in LockedPCs
  BY <1>3
<1>5. Exclusive'
  BY <1>4 DEF Inv, Safe, Exclusive
<1>6. OwnsPending(x)
  BY DEF Inv, Safe, CallsSound, OwnsPending
<1>7. ASSUME NEW d \in Callers PROVE OwnsPending(call[d])' /\ Knows(call[d])'
  <2>1. CASE d = c
    <3>1. call'[d] = x
      BY <2>1, <1>3
    <3>2. OwnsPending(call[d])'
      BY <3>1, <1>6 DEF OwnsPending
    <3>3. Knows(x)'
      BY KeptRows
    <3>4. Knows(call[d])'
      BY <3>1, <3>3 DEF Knows, RowOf, ByOperation
    <3> QED
      BY <3>2, <3>4
  <2>2. CASE d # c
    <3>1. call'[d] = call[d] /\ OwnsPending(call[d]) /\ Knows(call[d])
      BY <2>2, <1>3 DEF Inv, Safe, CallsSound
    <3>2. OwnsPending(call[d])'
      BY <3>1 DEF OwnsPending
    <3>3. PICK y : y = call[d]
      OBVIOUS
    <3>4. Knows(y)'
      BY <3>1, <3>3, KeptRows
    <3>5. Knows(call[d])'
      BY <3>1, <3>3, <3>4 DEF Knows, RowOf, ByOperation
    <3> QED
      BY <3>2, <3>5
  <2> QED
    BY <2>1, <2>2
<1>8. CallsSound'
  BY <1>7 DEF CallsSound
<1>9. AnswersAreDone'
  BY DEF Inv, Safe, AnswersAreDone
<1> QED
  BY <1>1, <1>2, <1>5, <1>8, <1>9 DEF Safe

-----------------------------------------------------------------------------
(* The outbox.                                                             *)

\* A map over the rows that keeps each a row gives rows again.
LEMMA MappedRows ==
  ASSUME rows \in Seq(Row), NEW F, F \in [DOMAIN rows -> Row]
  PROVE  F \in Seq(Row)
<1>1. Len(rows) \in Nat /\ DOMAIN rows = 1..Len(rows)
  BY LenProperties
<1> QED
  BY <1>1, SeqDef

LEMMA RowType ==
  ASSUME rows \in Seq(Row)
  PROVE  \A i \in DOMAIN rows : rows[i] \in Row
  BY ElementOfSeq, LenProperties

LEMMA ClaimStore ==
  ASSUME StoreTypeOK, NEW c \in Consumers, NEW limit \in Int, ClaimPending(c, limit)
  PROVE  StoreTypeOK' /\ RowsKept
<1>1. rows \in Seq(Row) /\ \A i \in DOMAIN rows : rows[i] \in Row
  BY RowType DEF StoreTypeOK
<1>2. PICK batch : rows' = [i \in DOMAIN rows |->
                  IF i \in batch
                  THEN [rows[i] EXCEPT !.status = "claimed", !.token = c, !.age = 0]
                  ELSE rows[i]]
  BY DEF ClaimPending
<1>3. 0 \in 0..MaxAge
  BY ClaimTTLPositive, SecondPositive DEF MaxAge
<1>4. \A i \in DOMAIN rows :
         [rows[i] EXCEPT !.status = "claimed", !.token = c, !.age = 0] \in Row
  BY <1>1, <1>3 DEF Row
<1>5. rows' \in [DOMAIN rows -> Row]
  BY <1>1, <1>2, <1>4
<1>6. rows' \in Seq(Row)
  BY <1>1, <1>5, MappedRows
<1>7. RowsKept
  BY <1>1, <1>2 DEF RowsKept, Row
<1>8. DOMAIN rows \subseteq Nat
  BY <1>1, LenProperties
<1>9. Batch(Clamp(limit)) \subseteq Nat
  BY <1>8 DEF Batch, Claimable
<1>10. held' \in [Consumers -> SUBSET Nat]
  BY <1>9 DEF ClaimPending, StoreTypeOK
<1> QED
  BY <1>6, <1>7, <1>10 DEF StoreTypeOK, ClaimPending

LEMMA AckStore ==
  ASSUME StoreTypeOK, NEW c \in Consumers, NEW i \in held[c], Ack(c, i) \/ Reclaim(c, i)
  PROVE  StoreTypeOK' /\ RowsKept
<1>1. rows \in Seq(Row) /\ \A j \in DOMAIN rows : rows[j] \in Row
  BY RowType DEF StoreTypeOK
<1>2. 0 \in 0..MaxAge
  BY ClaimTTLPositive, SecondPositive DEF MaxAge
<1>3. held' \in [Consumers -> SUBSET Nat] /\ tick' = tick
  BY DEF Ack, Reclaim, Answered, StoreTypeOK
<1>4. CASE rows' = rows
  BY <1>1, <1>3, <1>4 DEF StoreTypeOK, RowsKept
<1>5. CASE \E s \in {"acked", "pending"}, t \in Consumers \cup {""}, a \in 0..MaxAge :
              rows' = [rows EXCEPT ![i] = [@ EXCEPT !.status = s, !.token = t, !.age = a]]
  <2>1. PICK s \in {"acked", "pending"}, t \in Consumers \cup {""}, a \in 0..MaxAge :
              rows' = [rows EXCEPT ![i] = [@ EXCEPT !.status = s, !.token = t, !.age = a]]
    BY <1>5
  <2>2. \A j \in DOMAIN rows : [rows[j] EXCEPT !.status = s, !.token = t, !.age = a] \in Row
    BY <1>1 DEF Row
  <2>3. rows' \in [DOMAIN rows -> Row]
    BY <1>1, <2>1, <2>2
  <2>4. rows' \in Seq(Row)
    BY <1>1, <2>3, MappedRows
  <2>5. RowsKept
    BY <1>1, <2>1 DEF RowsKept, Row
  <2> QED
    BY <1>3, <2>4, <2>5 DEF StoreTypeOK
<1>6. CASE Ack(c, i) /\ Holds(c, i) /\ i \in DOMAIN rows
  <2>1. rows' = [rows EXCEPT ![i].status = "acked"]
    BY <1>6 DEF Ack
  <2>2. [rows[i] EXCEPT !.status = "acked"] =
          [rows[i] EXCEPT !.status = "acked", !.token = rows[i].token, !.age = rows[i].age]
    BY <1>1, <1>6 DEF Row
  <2>3. rows' = [rows EXCEPT ![i] = [rows[i] EXCEPT !.status = "acked",
                            !.token = rows[i].token, !.age = rows[i].age]]
    BY <2>1, <2>2
  <2>4. rows[i].token \in Consumers \cup {""} /\ rows[i].age \in 0..MaxAge
    BY <1>1, <1>6 DEF Row
  <2> QED
    BY <2>3, <2>4, <1>5
<1>7. CASE Reclaim(c, i) /\ Holds(c, i) /\ i \in DOMAIN rows
  BY <1>2, <1>5, <1>7 DEF Reclaim
<1>8. CASE i \notin DOMAIN rows
  <2>1. rows = [j \in DOMAIN rows |-> rows[j]]
    BY <1>1, LenProperties
  <2>2. \A v : [rows EXCEPT ![i] = v] = rows
    BY <1>8, <2>1
  <2> QED
    BY <1>4, <2>2 DEF Ack, Reclaim
<1>9. CASE ~Holds(c, i)
  BY <1>4, <1>9 DEF Ack, Reclaim
<1> QED
  BY <1>6, <1>7, <1>8, <1>9

LEMMA TickStore == ASSUME StoreTypeOK, Tick PROVE StoreTypeOK' /\ RowsKept
<1>1. rows \in Seq(Row) /\ \A i \in DOMAIN rows : rows[i] \in Row
  BY RowType DEF StoreTypeOK
<1>2. MaxAge \in Nat
  BY ClaimTTLPositive, SecondPositive DEF MaxAge
<1>3. \A i \in DOMAIN rows : rows[i].age < MaxAge => [rows[i] EXCEPT !.age = @ + 1] \in Row
  <2> SUFFICES ASSUME NEW i \in DOMAIN rows, rows[i].age < MaxAge
               PROVE  [rows[i] EXCEPT !.age = @ + 1] \in Row
    OBVIOUS
  <2>1. rows[i] \in Row /\ rows[i].age \in 0..MaxAge
    BY <1>1 DEF Row
  <2>2. rows[i].age + 1 \in 0..MaxAge
    BY <1>2, <2>1
  <2> QED
    BY <2>1, <2>2 DEF Row
<1>4. rows' \in [DOMAIN rows -> Row]
  BY <1>1, <1>3 DEF Tick
<1>5. rows' \in Seq(Row)
  BY <1>1, <1>4, MappedRows
<1>6. RowsKept
  BY <1>1 DEF Tick, RowsKept, Row
<1>7. tick' \in 0..(Second - 1)
  BY SecondPositive DEF StoreTypeOK, Tick
<1> QED
  BY <1>5, <1>6, <1>7 DEF StoreTypeOK, Tick

LEMMA ConsumeStore ==
  ASSUME StoreTypeOK, NEW c \in Consumers, Consume(c)
  PROVE  StoreTypeOK' /\ RowsKept
<1>1. CASE \E limit \in 0..(MaxBatch + 1) : ClaimPending(c, limit)
  BY <1>1, ClaimStore, MaxBatchPositive
<1>2. CASE \E i \in held[c] : Ack(c, i) \/ Reclaim(c, i)
  BY <1>2, AckStore
<1>3. CASE ConsumerCrash(c)
  BY <1>3 DEF ConsumerCrash, StoreTypeOK, RowsKept
<1> QED
  BY <1>1, <1>2, <1>3 DEF Consume

-----------------------------------------------------------------------------
(* Every action keeps Inv, and is a step of the contract or of none.       *)

SameContract == answers' = answers /\ Recorded' = Recorded

LEMMA Typed ==
  Inv => /\ StoreTypeOK
         /\ rows \in Seq(Row) /\ \A i \in DOMAIN rows : rows[i] \in Row
         /\ record \in [Ops -> [state: {"none", "pending", "done"}, digest: Digests,
                                pull: 0..MaxPulls]]
         /\ call \in [Callers -> Call]
         /\ answers \subseteq [op: Ops, digest: Digests, pull: PullNumbers]
<1> SUFFICES ASSUME Inv PROVE rows \in Seq(Row) /\ \A i \in DOMAIN rows : rows[i] \in Row
  BY DEF Inv, TypeOK
<1> QED
  BY RowType DEF Inv, TypeOK, StoreTypeOK

LEMMA IdleCall == Idle \in Call /\ Idle.pc = "idle" /\ Idle.digest \in Digests
  BY NonEmpty, MaxPullsNat DEF Idle, Call, PCs

LEMMA FaultType == ASSUME Inv, Fault PROVE faults' \in 0..MaxFaults
  BY BoundsNat DEF Inv, TypeOK, Fault

\* A request is refused.
LEMMA RefuseSafe ==
  ASSUME Inv, NEW c \in Callers, Refuse(c), RowsKept,
         record' = record, answers' = answers
  PROVE  Safe' /\ call' \in [Callers -> Call]
<1>1. call' = [call EXCEPT ![c] = Idle]
  BY DEF Refuse
<1>2. Knows(Idle) /\ Idle.pc \notin LockedPCs
  BY IdleCall DEF Knows, LockedPCs
<1>3. Safe'
  BY <1>1, <1>2, IdleCall, MoveSafe
<1> QED
  BY <1>1, <1>3, IdleCall, Typed

\* A request goes on to a step before the lock.
LEMMA GotoSafe ==
  ASSUME Inv, NEW c \in Callers, NEW pc \in PCs, pc \notin LockedPCs, Goto(c, pc),
         RowsKept, record' = record, answers' = answers
  PROVE  Safe' /\ call' \in [Callers -> Call]
<1> DEFINE x == [call[c] EXCEPT !.pc = pc]
<1>1. x \in Call /\ x.pc = pc
  BY Typed DEF Call
<1>2. call' = [call EXCEPT ![c] = x]
  BY DEF Goto
<1>3. Knows(x)
  BY <1>1 DEF Knows, LockedPCs
<1> HIDE DEF x
<1>4. Safe'
  BY <1>1, <1>2, <1>3, MoveSafe
<1> QED
  BY <1>1, <1>2, <1>4, Typed

\* Under the lock a request that knows that the operation has no row goes on.
LEMMA GotoLocked ==
  ASSUME Inv, NEW c \in Callers, NEW pc \in {"search", "create", "recover"},
         call[c].pc \in LockedPCs, ByOperation(call[c].op) = {}, Goto(c, pc),
         RowsKept, record' = record, answers' = answers
  PROVE  Safe' /\ call' \in [Callers -> Call]
<1> DEFINE x == [call[c] EXCEPT !.pc = pc]
<1>1. x \in Call /\ x.pc = pc /\ x.op = call[c].op /\ x.digest = call[c].digest
  BY Typed DEF Call, PCs, LockedPCs
<1>2. call' = [call EXCEPT ![c] = x]
  BY DEF Goto
<1>3. Knows(x)
  BY <1>1 DEF Knows
<1> HIDE DEF x
<1>4. Safe'
  BY <1>1, <1>2, <1>3, MoveSafe
<1> QED
  BY <1>1, <1>2, <1>4, Typed

\* A request has got its pull request, which no other row of the operation denies.
LEMMA UseSafe ==
  ASSUME Inv, NEW c \in Callers, NEW p \in PullNumbers, Use(c, p),
         call[c].pc \in LockedPCs,
         \A i \in ByOperation(call[c].op) : rows[i].pull = p,
         RowsKept, record' = record, answers' = answers
  PROVE  Safe' /\ call' \in [Callers -> Call]
<1> DEFINE x == [call[c] EXCEPT !.pc = "record", !.pull = p]
<1>1. x \in Call /\ x.pc = "record" /\ x.pull = p
               /\ x.op = call[c].op /\ x.digest = call[c].digest
  <2>1. call[c] \in Call
    BY Typed
  <2>2. p \in 0..MaxPulls /\ "record" \in PCs
    BY MaxPullsNat DEF PullNumbers, PCs, LockedPCs
  <2> QED
    BY <2>1, <2>2 DEF Call
<1>2. call' = [call EXCEPT ![c] = x]
  BY DEF Use
<1>3. Knows(x)
  BY <1>1 DEF Knows
<1> HIDE DEF x
<1>4. Safe'
  BY <1>1, <1>2, <1>3, MoveSafe
<1> QED
  BY <1>1, <1>2, <1>4, Typed

\* The parts of TypeOK that are neither the store's nor a request's.
LEMMA Rest ==
  ASSUME Inv, StoreTypeOK', call' \in [Callers -> Call], pulls' = pulls,
         record' = record, used' = used, answers' = answers, closes' = closes,
         crashes' = crashes, faults' = faults \/ Fault
  PROVE  TypeOK'
  BY FaultType DEF Inv, TypeOK

LEMMA StoreKept ==
  ASSUME Inv, UNCHANGED storeVars PROVE StoreTypeOK' /\ RowsKept
  BY DEF Inv, TypeOK, StoreTypeOK, storeVars, RowsKept

LEMMA RequestInv ==
  ASSUME Inv, NEW c \in Callers, NEW op \in Ops, NEW d \in Digests, NEW v \in BOOLEAN,
         Request(c, op, d, v)
  PROVE  Inv' /\ SameContract
<1> DEFINE x == [Idle EXCEPT !.pc = "guard", !.op = op, !.digest = d, !.valid = v]
<1>1. x \in Call /\ x.pc = "guard"
  BY IdleCall DEF Call, PCs
<1>2. call' = [call EXCEPT ![c] = x]
  BY DEF Request
<1>3. Knows(x) /\ x.pc \notin LockedPCs
  BY <1>1 DEF Knows, LockedPCs
<1> HIDE DEF x
<1>4. StoreTypeOK' /\ RowsKept
  BY StoreKept DEF Request
<1>5. Safe'
  BY <1>1, <1>2, <1>3, <1>4, MoveSafe DEF Request
<1>6. call' \in [Callers -> Call]
  BY <1>1, <1>2, Typed
<1>7. TypeOK'
  BY <1>4, <1>6, Rest DEF Request
<1> QED
  BY <1>4, <1>5, <1>7, KeptRecorded DEF Inv, SameContract, Request

\* The steps before the lock.
LEMMA CheckInv ==
  ASSUME Inv, NEW c \in Callers, CheckBranchLifecycle(c) \/ Verify(c)
  PROVE  Inv' /\ SameContract
<1>1. StoreTypeOK' /\ RowsKept
  BY StoreKept DEF CheckBranchLifecycle, Verify
<1>2. Refuse(c) \/ \E pc \in {"budget", "reserve"} : Goto(c, pc)
  BY DEF CheckBranchLifecycle, Verify
<1>3. record' = record /\ answers' = answers
  BY DEF CheckBranchLifecycle, Verify
<1>4. {"budget", "reserve"} \subseteq PCs \ LockedPCs
  BY DEF PCs, LockedPCs
<1>5. Safe' /\ call' \in [Callers -> Call]
  BY <1>1, <1>2, <1>3, <1>4, RefuseSafe, GotoSafe
<1>6. TypeOK'
  BY <1>1, <1>5, Rest DEF CheckBranchLifecycle, Verify
<1> QED
  BY <1>1, <1>3, <1>5, <1>6, KeptRecorded DEF Inv, SameContract

LEMMA ReserveMutationInv ==
  ASSUME Inv, NEW c \in Callers, ReserveMutation(c)
  PROVE  Inv' /\ SameContract
<1>1. StoreTypeOK' /\ RowsKept
  BY StoreKept DEF ReserveMutation
<1>2. record' = record /\ answers' = answers /\ pulls' = pulls
      /\ closes' = closes /\ crashes' = crashes
  BY DEF ReserveMutation
<1>3. "verify" \in PCs /\ "verify" \notin LockedPCs
  BY DEF PCs, LockedPCs
<1>4. Safe' /\ call' \in [Callers -> Call]
  BY <1>1, <1>2, <1>3, RefuseSafe, GotoSafe DEF ReserveMutation
<1>5. used' \in 0..MaxObjects
  BY BoundsNat DEF Inv, TypeOK, ReserveMutation, BudgetSpent
<1>6. faults' \in 0..MaxFaults
  BY FaultType DEF Inv, TypeOK, ReserveMutation
<1>7. TypeOK'
  BY <1>1, <1>2, <1>4, <1>5, <1>6 DEF Inv, TypeOK
<1> QED
  BY <1>1, <1>2, <1>4, <1>7, KeptRecorded DEF Inv, SameContract

\* The steps under the lock that only read the correlation store.
LEMMA LookupInv ==
  ASSUME Inv, NEW c \in Callers, Lookup(c)
  PROVE  Inv' /\ SameContract
<1>1. StoreTypeOK' /\ RowsKept
  BY StoreKept DEF Lookup
<1>2. record' = record /\ answers' = answers
  BY DEF Lookup
<1>3. call[c].pc \in LockedPCs
  BY DEF Lookup, LockedPCs
<1>4. ASSUME \E i \in ByOperation(call[c].op) : Use(c, rows[i].pull)
      PROVE  Safe' /\ call' \in [Callers -> Call]
  <2>1. PICK i \in ByOperation(call[c].op) : Use(c, rows[i].pull)
    BY <1>4
  <2>2. \A j \in ByOperation(call[c].op) : j = i
    BY DEF ByOperation, Inv, Safe, RowsUnique
  <2>3. rows[i].pull \in PullNumbers
    BY Typed DEF ByOperation, Row, PullNumbers
  <2> QED
    BY <1>1, <1>2, <1>3, <2>1, <2>2, <2>3, UseSafe
<1>5. ASSUME ByOperation(call[c].op) = {} /\ Goto(c, AfterLookup(call[c].replay))
      PROVE  Safe' /\ call' \in [Callers -> Call]
  BY <1>1, <1>2, <1>3, <1>5, GotoLocked DEF AfterLookup
<1>6. ASSUME Refuse(c)
      PROVE  Safe' /\ call' \in [Callers -> Call]
  BY <1>1, <1>2, <1>6, RefuseSafe
<1>7. Safe' /\ call' \in [Callers -> Call]
  BY <1>4, <1>5, <1>6 DEF Lookup
<1>8. TypeOK'
  BY <1>1, <1>7, Rest DEF Lookup
<1> QED
  BY <1>1, <1>2, <1>7, <1>8, KeptRecorded DEF Inv, SameContract

LEMMA SearchInv ==
  ASSUME Inv, NEW c \in Callers, Search(c) \/ Recover(c)
  PROVE  Inv' /\ SameContract
<1>1. StoreTypeOK' /\ RowsKept
  BY StoreKept DEF Search, Recover
<1>2. record' = record /\ answers' = answers
  BY DEF Search, Recover
<1>3. call[c].pc \in LockedPCs /\ ByOperation(call[c].op) = {}
  BY DEF Search, Recover, LockedPCs, Inv, Safe, CallsSound, Knows
<1>4. DOMAIN pulls \subseteq PullNumbers
  <2>1. pulls \in Seq([op: Ops, open: BOOLEAN, titled: BOOLEAN]) /\ Len(pulls) <= MaxPulls
    BY DEF Inv, TypeOK
  <2> QED
    BY <2>1, LenProperties, MaxPullsNat DEF PullNumbers
<1>5. ASSUME \E p \in Lowest(OpenPulls(call[c].op)) : Use(c, p)
      PROVE  Safe' /\ call' \in [Callers -> Call]
  <2>1. PICK p \in PullNumbers : Use(c, p)
    BY <1>4, <1>5 DEF Lowest, OpenPulls
  <2> QED
    BY <1>1, <1>2, <1>3, <2>1, UseSafe
<1>6. ASSUME Goto(c, "create")
      PROVE  Safe' /\ call' \in [Callers -> Call]
  BY <1>1, <1>2, <1>3, <1>6, GotoLocked
<1>7. ASSUME Refuse(c)
      PROVE  Safe' /\ call' \in [Callers -> Call]
  BY <1>1, <1>2, <1>7, RefuseSafe
<1>8. Safe' /\ call' \in [Callers -> Call]
  BY <1>5, <1>6, <1>7 DEF Search, Recover
<1>9. TypeOK'
  BY <1>1, <1>8, Rest DEF Search, Recover
<1> QED
  BY <1>1, <1>2, <1>8, <1>9, KeptRecorded DEF Inv, SameContract

LEMMA CreatePullInv ==
  ASSUME Inv, NEW c \in Callers, CreatePull(c)
  PROVE  Inv' /\ SameContract
<1> DEFINE P == [op: Ops, open: BOOLEAN, titled: BOOLEAN]
           new == Append(pulls, [op |-> call[c].op, open |-> TRUE, titled |-> TRUE])
<1>1. StoreTypeOK' /\ RowsKept
  BY StoreKept DEF CreatePull
<1>2. /\ record' = record /\ answers' = answers /\ used' = used
      /\ closes' = closes /\ crashes' = crashes
  BY DEF CreatePull
<1>3. call[c].pc \in LockedPCs /\ ByOperation(call[c].op) = {}
  BY DEF CreatePull, LockedPCs, Inv, Safe, CallsSound, Knows
<1>4. pulls \in Seq(P) /\ Len(pulls) \in Nat /\ Len(pulls) < MaxPulls
  BY LenProperties DEF Inv, TypeOK, CreatePull
<1>5. [op |-> call[c].op, open |-> TRUE, titled |-> TRUE] \in P
  BY Typed DEF Call
<1>6. new \in Seq(P) /\ Len(new) = Len(pulls) + 1
  BY <1>4, <1>5, AppendProperties
<1>7. Len(new) \in PullNumbers
  BY <1>4, <1>6, MaxPullsNat DEF PullNumbers
<1>8. pulls' \in {pulls, new} /\ (Use(c, Len(new)) \/ Goto(c, "recover"))
      /\ (faults' = faults \/ Fault)
  BY DEF CreatePull
<1>9. Safe' /\ call' \in [Callers -> Call]
  BY <1>1, <1>2, <1>3, <1>7, <1>8, UseSafe, GotoLocked
<1>10. pulls' \in Seq(P) /\ Len(pulls') <= MaxPulls
  <2>1. CASE pulls' = pulls
    BY <1>4, <2>1, MaxPullsNat
  <2>2. CASE pulls' = new
    <3>1. new \in Seq(P) /\ Len(new) <= MaxPulls
      BY <1>4, <1>6, MaxPullsNat
    <3> HIDE DEF new
    <3> QED
      BY <2>2, <3>1
  <2> QED
    BY <1>8, <2>1, <2>2
<1>11. faults' \in 0..MaxFaults
  BY <1>8, FaultType DEF Inv, TypeOK
<1>12. TypeOK'
  BY <1>1, <1>2, <1>9, <1>10, <1>11 DEF Inv, TypeOK
<1> QED
  BY <1>1, <1>2, <1>9, <1>12, KeptRecorded DEF Inv, SameContract

\* A request takes the lock with a pending record of its own.
LEMMA EnterSafe ==
  ASSUME Inv, NEW c \in Callers, NEW x \in Call, ~Locked,
         call' = [call EXCEPT ![c] = x], x.pc = "lookup",
         RowsKept, answers' = answers,
         record[x.op].state # "done",
         record'[x.op].state = "pending" /\ record'[x.op].digest = x.digest,
         \A o \in Ops : o # x.op => record'[o] = record[o]
  PROVE  Safe'
<1>1. \A d \in Callers : call[d].pc \notin LockedPCs
  BY DEF Locked
<1>2. \A d \in Callers : call'[d] = IF d = c THEN x ELSE call[d]
  BY Typed
<1>3. RowsUnique'
  BY KeptRows DEF Inv, Safe
<1>4. DoneIsRecorded'
  BY KeptRows DEF Inv, Safe, DoneIsRecorded
<1>5. Exclusive'
  BY <1>1, <1>2 DEF Exclusive
<1>6. CallsSound'
  BY <1>1, <1>2 DEF CallsSound, OwnsPending, Knows, LockedPCs
<1>7. AnswersAreDone'
  <2> SUFFICES ASSUME NEW a \in answers
               PROVE  record'[a.op] = [state |-> "done", digest |-> a.digest, pull |-> a.pull]
    BY DEF AnswersAreDone
  <2>1. record[a.op] = [state |-> "done", digest |-> a.digest, pull |-> a.pull] /\ a.op \in Ops
    BY Typed DEF Inv, Safe, AnswersAreDone
  <2> QED
    BY <2>1
<1> QED
  BY <1>3, <1>4, <1>5, <1>6, <1>7 DEF Safe

\* The answer that the idempotency file has.
LEMMA ReplayInv ==
  ASSUME Inv, NEW c \in Callers, record[call[c].op].state = "done",
         record[call[c].op].digest = call[c].digest,
         Succeed(c, record[call[c].op].pull), RowsKept, record' = record
  PROVE  /\ Safe' /\ call' \in [Callers -> Call]
         /\ answers' \subseteq [op: Ops, digest: Digests, pull: PullNumbers]
         /\ Contract!Next \/ SameContract
<1> DEFINE op == call[c].op
           d == call[c].digest
           p == record[op].pull
           a == [op |-> op, digest |-> d, pull |-> p]
<1>1. op \in Ops /\ d \in Digests
  BY Typed DEF Call
<1>2. RowOf(op, p)
  BY <1>1 DEF Inv, Safe, DoneIsRecorded
<1>3. p \in PullNumbers
  BY <1>2, Typed DEF RowOf, Row, PullNumbers
<1>4. answers' = answers \cup {a} /\ Refuse(c)
  BY DEF Succeed, Refuse
<1>5. record[op] = [state |-> "done", digest |-> d, pull |-> p]
  BY <1>1, Typed
<1>6. /\ RowsUnique' /\ DoneIsRecorded' /\ Exclusive' /\ CallsSound'
      /\ call' \in [Callers -> Call]
  <2> DEFINE x == Idle
  <2>1. call' = [call EXCEPT ![c] = Idle]
    BY <1>4 DEF Refuse
  <2>2. \A e \in Callers : call'[e] = IF e = c THEN Idle ELSE call[e]
    BY <2>1, Typed
  <2>3. RowsUnique' /\ DoneIsRecorded'
    BY KeptRows DEF Inv, Safe, DoneIsRecorded
  <2>4. Idle.pc \notin LockedPCs
    BY IdleCall DEF LockedPCs
  <2>5. Exclusive'
    BY <2>2, <2>4 DEF Inv, Safe, Exclusive
  <2>6. ASSUME NEW e \in Callers PROVE OwnsPending(call[e])' /\ Knows(call[e])'
    <3>1. CASE e = c
      BY <2>2, <2>4, <3>1 DEF OwnsPending, Knows, LockedPCs
    <3>2. CASE e # c
      <4>1. PICK y : y = call[e]
        OBVIOUS
      <4>2. call'[e] = y /\ OwnsPending(y) /\ Knows(y)
        BY <2>2, <3>2, <4>1 DEF Inv, Safe, CallsSound
      <4>3. Knows(y)'
        BY <4>2, KeptRows
      <4> QED
        BY <4>2, <4>3 DEF OwnsPending, Knows, RowOf, ByOperation
    <3> QED
      BY <3>1, <3>2
  <2> QED
    BY <2>1, <2>3, <2>5, <2>6, IdleCall, Typed DEF CallsSound
<1>7. AnswersAreDone'
  <2>1. a.op = op /\ a.digest = d /\ a.pull = p
    OBVIOUS
  <2>2. record[a.op] = [state |-> "done", digest |-> a.digest, pull |-> a.pull]
    BY <1>5, <2>1
  <2> HIDE DEF a
  <2>3. \A b \in answers' : record[b.op] = [state |-> "done", digest |-> b.digest, pull |-> b.pull]
    BY <1>4, <2>2 DEF Inv, Safe, AnswersAreDone
  <2> QED
    BY <2>3 DEF AnswersAreDone
<1>8. answers' \subseteq [op: Ops, digest: Digests, pull: PullNumbers]
  BY <1>1, <1>3, <1>4, Typed
<1>9. Contract!Give(op, d, p)
  <2>1. [op |-> op, pull |-> p] \in Recorded
    BY <1>2 DEF RowOf, Recorded
  <2>2. ASSUME NEW b \in answers, b.op = op PROVE b.digest = d /\ b.pull = p
    <3>1. record[op] = [state |-> "done", digest |-> b.digest, pull |-> b.pull]
      BY <2>2 DEF Inv, Safe, AnswersAreDone
    <3> QED
      BY <3>1
  <2>3. Recorded' = Recorded
    BY KeptRecorded
  <2> QED
    BY <1>4, <2>1, <2>2, <2>3 DEF Contract!Give, Recorded
<1>10. Contract!Next
  BY <1>1, <1>3, <1>9 DEF Contract!Next
<1> QED
  BY <1>6, <1>7, <1>8, <1>10 DEF Safe

LEMMA ReserveExactInv ==
  ASSUME Inv, NEW c \in Callers, ReserveExact(c)
  PROVE  Inv' /\ (Contract!Next \/ SameContract)
<1> DEFINE op == call[c].op
           d == call[c].digest
           rec == [state |-> "pending", digest |-> d, pull |-> 0]
           R == [state: {"none", "pending", "done"}, digest: Digests, pull: 0..MaxPulls]
           x(b) == [call[c] EXCEPT !.pc = "lookup", !.replay = b]
<1>1. StoreTypeOK' /\ RowsKept
  BY StoreKept DEF ReserveExact
<1>2. /\ pulls' = pulls /\ used' = used /\ closes' = closes /\ crashes' = crashes
      /\ faults' = faults \/ Fault
  BY DEF ReserveExact
<1>3. call[c] \in Call /\ op \in Ops /\ d \in Digests
  BY Typed DEF Call
<1>4. \A b \in BOOLEAN : x(b) \in Call /\ x(b).pc = "lookup" /\ x(b).op = op /\ x(b).digest = d
  BY <1>3 DEF Call, PCs, LockedPCs
<1>5. faults' \in 0..MaxFaults
  BY <1>2, FaultType DEF Inv, TypeOK
<1>6. ASSUME record[op].state = "none",
             record' = [record EXCEPT ![op] = rec],
             call' = [call EXCEPT ![c] = x(FALSE)],
             answers' = answers, ~Locked
      PROVE  Safe' /\ record' \in [Ops -> R] /\ call' \in [Callers -> Call]
  <2>1. rec \in R
    BY <1>3, MaxPullsNat
  <2>2. record' \in [Ops -> R]
    BY <1>6, <2>1, Typed
  <2>3. record'[op] = rec /\ \A o \in Ops : o # op => record'[o] = record[o]
    BY <1>3, <1>6, Typed
  <2>4. PICK y \in Call : y = x(FALSE)
    BY <1>4
  <2>5. y.pc = "lookup" /\ y.op = op /\ y.digest = d /\ call' = [call EXCEPT ![c] = y]
    BY <1>4, <1>6, <2>4
  <2>6. /\ record'[y.op].state = "pending" /\ record'[y.op].digest = y.digest
        /\ record[y.op].state # "done"
        /\ \A o \in Ops : o # y.op => record'[o] = record[o]
    BY <1>6, <2>3, <2>5
  <2> HIDE DEF rec, op, d, x
  <2>7. Safe'
    BY <1>1, <1>6, <2>5, <2>6, EnterSafe
  <2> QED
    BY <2>2, <2>5, <2>7, Typed
<1>7. ASSUME record[op].state = "pending", record[op].digest = d,
             record' = record, call' = [call EXCEPT ![c] = x(TRUE)],
             answers' = answers, ~Locked
      PROVE  Safe' /\ call' \in [Callers -> Call]
  <2>1. PICK y \in Call : y = x(TRUE)
    BY <1>4
  <2>2. y.pc = "lookup" /\ y.op = op /\ y.digest = d /\ call' = [call EXCEPT ![c] = y]
    BY <1>4, <1>7, <2>1
  <2>3. Safe'
    BY <1>1, <1>7, <2>2, EnterSafe
  <2> QED
    BY <2>2, <2>3, Typed
<1>8. CASE Refuse(c) /\ record' = record /\ answers' = answers
  <2>1. Safe' /\ call' \in [Callers -> Call]
    BY <1>1, <1>8, RefuseSafe
  <2>2. TypeOK'
    BY <1>1, <1>2, <1>8, <2>1, Rest
  <2> QED
    BY <1>1, <1>8, <2>1, <2>2, KeptRecorded DEF Inv, SameContract
<1>9. CASE /\ record[op].state = "done" /\ ~Conflict(op, d)
           /\ Succeed(c, record[op].pull) /\ record' = record
  <2>1. record[op].digest = d
    BY <1>9 DEF Conflict
  <2>2. /\ Safe' /\ call' \in [Callers -> Call]
        /\ answers' \subseteq [op: Ops, digest: Digests, pull: PullNumbers]
        /\ Contract!Next \/ SameContract
    BY <1>1, <1>9, <2>1, ReplayInv
  <2>3. TypeOK'
    BY <1>1, <1>2, <1>5, <1>9, <2>2 DEF Inv, TypeOK
  <2> QED
    BY <2>2, <2>3 DEF Inv
<1>10. CASE /\ record[op].state = "none" /\ record' = [record EXCEPT ![op] = rec]
            /\ call' = [call EXCEPT ![c] = x(FALSE)] /\ answers' = answers /\ ~Locked
  <2>1. Safe' /\ record' \in [Ops -> R] /\ call' \in [Callers -> Call]
    BY <1>6, <1>10
  <2>2. TypeOK'
    BY <1>1, <1>2, <1>5, <1>10, <2>1 DEF Inv, TypeOK
  <2> QED
    BY <1>1, <1>10, <2>1, <2>2, KeptRecorded DEF Inv, SameContract
<1>11. CASE /\ record[op].state = "pending" /\ ~Conflict(op, d) /\ record' = record
            /\ call' = [call EXCEPT ![c] = x(TRUE)] /\ answers' = answers /\ ~Locked
  <2>1. Safe' /\ call' \in [Callers -> Call]
    BY <1>7, <1>11 DEF Conflict
  <2>2. TypeOK'
    BY <1>1, <1>2, <1>11, <2>1, Rest
  <2> QED
    BY <1>1, <1>11, <2>1, <2>2, KeptRecorded DEF Inv, SameContract
<1> QED
  BY <1>8, <1>9, <1>10, <1>11 DEF ReserveExact
-----------------------------------------------------------------------------
(* The two steps that change what is recorded or answered.                 *)

\* While a request holds the lock no other does.
LEMMA OthersOut ==
  ASSUME Inv, NEW c \in Callers, call[c].pc \in LockedPCs, NEW x,
         call' = [call EXCEPT ![c] = x],
         OwnsPending(x)', Knows(x)'
  PROVE  Exclusive' /\ CallsSound'
<1>1. \A e \in Callers : e # c => call[e].pc \notin LockedPCs
  BY DEF Inv, Safe, Exclusive
<1>2. \A e \in Callers : call'[e] = IF e = c THEN x ELSE call[e]
  BY Typed
<1>3. Exclusive'
  BY <1>1, <1>2 DEF Exclusive
<1>4. ASSUME NEW e \in Callers PROVE OwnsPending(call[e])' /\ Knows(call[e])'
  <2>1. CASE e = c
    <3>1. call'[e] = x
      BY <1>2, <2>1
    <3> QED
      BY <3>1 DEF OwnsPending, Knows, RowOf, ByOperation
  <2>2. CASE e # c
    BY <1>1, <1>2, <2>2 DEF OwnsPending, Knows, LockedPCs
  <2> QED
    BY <2>1, <2>2
<1> QED
  BY <1>3, <1>4 DEF CallsSound

LEMMA StoreResponseInv ==
  ASSUME Inv, NEW c \in Callers, StoreResponse(c)
  PROVE  Inv' /\ (Contract!Next \/ SameContract)
<1> DEFINE op == call[c].op
           d == call[c].digest
           p == call[c].pull
           a == [op |-> op, digest |-> d, pull |-> p]
           rec == [state |-> "done", digest |-> d, pull |-> p]
           R == [state: {"none", "pending", "done"}, digest: Digests, pull: 0..MaxPulls]
<1>1. StoreTypeOK' /\ RowsKept
  BY StoreKept DEF StoreResponse
<1>2. /\ pulls' = pulls /\ used' = used /\ closes' = closes /\ crashes' = crashes
      /\ faults' = faults \/ Fault
  BY DEF StoreResponse
<1>3. op \in Ops /\ d \in Digests
  BY Typed DEF Call
<1>4. call[c].pc = "store" /\ call[c].pc \in LockedPCs
  BY DEF StoreResponse, LockedPCs
<1>5. p \in PullNumbers /\ RowOf(op, p) /\ record[op].state = "pending"
  BY <1>4 DEF Inv, Safe, CallsSound, Knows, OwnsPending
<1>6. CASE Refuse(c) /\ record' = record /\ answers' = answers
  <2>1. Safe' /\ call' \in [Callers -> Call]
    BY <1>1, <1>6, RefuseSafe
  <2>2. TypeOK'
    BY <1>1, <1>2, <1>6, <2>1, Rest
  <2> QED
    BY <1>1, <1>6, <2>1, <2>2, KeptRecorded DEF Inv, SameContract
<1>7. CASE record' = [record EXCEPT ![op] = rec] /\ Succeed(c, p)
  <2>1. answers' = answers \cup {a} /\ call' = [call EXCEPT ![c] = Idle]
    BY <1>7 DEF Succeed
  <2>2. rec \in R
    BY <1>3, <1>5, MaxPullsNat DEF PullNumbers
  <2>3. record' \in [Ops -> R]
    BY <1>7, <2>2, Typed
  <2>4. record'[op] = rec /\ \A o \in Ops : o # op => record'[o] = record[o]
    BY <1>3, <1>7, Typed
  <2>5. call' \in [Callers -> Call]
    BY <2>1, IdleCall, Typed
  <2>6. a \in [op: Ops, digest: Digests, pull: PullNumbers]
    BY <1>3, <1>5
  <2>7. answers' \subseteq [op: Ops, digest: Digests, pull: PullNumbers]
    BY <2>1, <2>6, Typed
  <2>8. faults' \in 0..MaxFaults
    BY <1>2, FaultType DEF Inv, TypeOK
  <2>9. TypeOK'
    BY <1>1, <1>2, <2>3, <2>5, <2>7, <2>8 DEF Inv, TypeOK
  <2>10. \A b \in answers : b.op # op
    <3> SUFFICES ASSUME NEW b \in answers, b.op = op PROVE FALSE
      OBVIOUS
    <3>1. record[op] = [state |-> "done", digest |-> b.digest, pull |-> b.pull]
      BY DEF Inv, Safe, AnswersAreDone
    <3> QED
      BY <1>5, <3>1
  <2>11. RowsUnique'
    BY <1>1, KeptRows DEF Inv, Safe
  <2>12. DoneIsRecorded'
    <3> SUFFICES ASSUME NEW o \in Ops, record'[o].state = "done"
                 PROVE  RowOf(o, record[o].pull)'
      BY DEF DoneIsRecorded
    <3>1. RowOf(o, record'[o].pull)
      BY <1>5, <2>4 DEF Inv, Safe, DoneIsRecorded
    <3>2. PICK q : q = record'[o].pull
      OBVIOUS
    <3>3. RowOf(o, q)'
      BY <1>1, <3>1, <3>2, KeptRows
    <3> QED
      BY <3>2, <3>3 DEF RowOf
  <2>13. Exclusive' /\ CallsSound'
    <3>1. OwnsPending(Idle)' /\ Knows(Idle)'
      BY IdleCall DEF OwnsPending, Knows, LockedPCs
    <3> QED
      BY <1>4, <2>1, <3>1, OthersOut
  <2>14. ASSUME NEW b \in answers'
         PROVE  record'[b.op] = [state |-> "done", digest |-> b.digest, pull |-> b.pull]
    <3>1. CASE b \in answers
      <4>1. b.op \in Ops /\ b.op # op
        BY <2>10, <3>1, Typed
      <4> QED
        BY <2>4, <3>1, <4>1 DEF Inv, Safe, AnswersAreDone
    <3>2. CASE b = a
      <4>1. b.op = op /\ b.digest = d /\ b.pull = p
        BY <3>2
      <4> QED
        BY <2>4, <4>1
    <3> QED
      BY <2>1, <3>1, <3>2
  <2>15. AnswersAreDone'
    BY <2>14 DEF AnswersAreDone
  <2>16. Contract!Give(op, d, p)
    <3>1. [op |-> op, pull |-> p] \in Recorded
      BY <1>5 DEF RowOf, Recorded
    <3>2. Recorded' = Recorded
      BY <1>1, KeptRecorded
    <3> QED
      BY <2>1, <2>10, <3>1, <3>2 DEF Contract!Give, Recorded
  <2>17. Contract!Next
    BY <1>3, <1>5, <2>16 DEF Contract!Next
  <2> QED
    BY <2>9, <2>11, <2>12, <2>13, <2>15, <2>17 DEF Inv, Safe
<1> QED
  BY <1>6, <1>7 DEF StoreResponse

\* A correlation is appended: it is the only one of its operation and its number.
LEMMA AppendRow ==
  ASSUME StoreTypeOK, RowsUnique, NEW op \in Ops, NEW pull \in PullNumbers,
         ByOperation(op) = {}, ~PullTaken(pull), Record(op, pull)
  PROVE  /\ rows' \in Seq(Row) /\ RowsUnique'
         /\ \A o, q : RowOf(o, q) => RowOf(o, q)'
         /\ RowOf(op, pull)'
         /\ Contract!Correlate(op, pull) \/ answers' # answers
<1> DEFINE row == [op |-> op, pull |-> pull, status |-> "pending", token |-> "", age |-> 0]
           n == Len(rows)
<1>1. rows \in Seq(Row) /\ n \in Nat /\ DOMAIN rows = 1..n
  BY LenProperties DEF StoreTypeOK
<1>2. 0 \in 0..MaxAge
  BY ClaimTTLPositive, SecondPositive DEF MaxAge
<1>3. row \in Row
  BY <1>2 DEF Row, PullNumbers
<1>4. rows' = Append(rows, row)
  BY DEF Record
<1>5. row.op = op /\ row.pull = pull
  OBVIOUS
<1> HIDE DEF row
<1>6. /\ rows' \in Seq(Row) /\ Len(rows') = n + 1
      /\ \A i \in 1..n : rows'[i] = rows[i]
      /\ rows'[n + 1] = row
  BY <1>1, <1>3, <1>4, AppendProperties
<1>7. DOMAIN rows' = 1..(n + 1)
  BY <1>6, LenProperties
<1> HIDE DEF n
<1>8. \A i \in DOMAIN rows : rows[i].op # op /\ rows[i].pull # pull
  BY DEF ByOperation, PullTaken
<1>9. \A i \in DOMAIN rows' : i \in DOMAIN rows \/ i = n + 1
  BY <1>1, <1>7
<1>10. \A i \in DOMAIN rows : i \in DOMAIN rows' /\ rows'[i] = rows[i]
  BY <1>1, <1>6, <1>7
<1>11. n + 1 \in DOMAIN rows' /\ rows'[n + 1].op = op /\ rows'[n + 1].pull = pull
  BY <1>1, <1>5, <1>6, <1>7
<1>12. RowsUnique'
  <2> SUFFICES ASSUME NEW i \in DOMAIN rows', NEW j \in DOMAIN rows',
                      rows'[i].op = rows'[j].op \/ rows'[i].pull = rows'[j].pull
               PROVE  i = j
    BY DEF RowsUnique
  <2> QED
    BY <1>8, <1>9, <1>10, <1>11 DEF RowsUnique
<1>13. \A o, q : RowOf(o, q) => RowOf(o, q)'
  BY <1>10 DEF RowOf
<1>14. RowOf(op, pull)'
  BY <1>11 DEF RowOf
<1>15. Recorded' = Recorded \cup {[op |-> op, pull |-> pull]}
  <2>1. Recorded' = {[op |-> rows'[i].op, pull |-> rows'[i].pull] : i \in DOMAIN rows'}
    BY DEF Recorded
  <2>2. DOMAIN rows' = DOMAIN rows \cup {n + 1}
    BY <1>9, <1>10, <1>11
  <2> QED
    BY <1>10, <1>11, <2>1, <2>2 DEF Recorded
<1>16. \A b \in Recorded : b.op # op /\ b.pull # pull
  BY <1>8 DEF Recorded
<1>17. Contract!Correlate(op, pull) \/ answers' # answers
  BY <1>15, <1>16 DEF Contract!Correlate, Recorded
<1> QED
  BY <1>6, <1>12, <1>13, <1>14, <1>17

\* Recording the correlation, or finding that it is recorded.
LEMMA RecordRows ==
  ASSUME Inv, NEW c \in Callers, call[c].pc = "record", tick' = tick, held' = held,
         answers' = answers,
         NEW op \in Ops, op = call[c].op, NEW p \in PullNumbers, p = call[c].pull,
         Record(op, p) \/ rows' = rows
  PROVE  /\ StoreTypeOK' /\ RowsUnique'
         /\ \A o, q : RowOf(o, q) => RowOf(o, q)'
         /\ Contract!Next \/ SameContract
         /\ Record(op, p) /\ ~RecordFails(op, p) => RowOf(op, p)'
<1>1. \A i \in ByOperation(op) : rows[i].pull = p
  BY DEF Inv, Safe, CallsSound, Knows
<1>2. CASE Record(op, p) /\ ByOperation(op) = {} /\ ~PullTaken(p)
  <2>1. /\ rows' \in Seq(Row) /\ RowsUnique'
        /\ \A o, q : RowOf(o, q) => RowOf(o, q)'
        /\ RowOf(op, p)'
        /\ Contract!Correlate(op, p)
    BY <1>2, AppendRow DEF Inv, TypeOK, Safe
  <2>2. StoreTypeOK'
    BY <2>1 DEF Inv, TypeOK, StoreTypeOK
  <2>3. Contract!Next
    BY <2>1 DEF Contract!Next
  <2> QED
    BY <2>1, <2>2, <2>3
<1>3. CASE rows' = rows /\ ~(Record(op, p) /\ ByOperation(op) = {} /\ ~PullTaken(p))
  <2>1. RowsKept
    BY <1>3 DEF RowsKept
  <2>2. ByOperation(op) # {} => RowOf(op, p)
    BY <1>1 DEF ByOperation, RowOf
  <2>3. StoreTypeOK'
    BY <1>3 DEF Inv, TypeOK, StoreTypeOK
  <2>4. RowsUnique' /\ \A o, q : RowOf(o, q)' <=> RowOf(o, q)
    BY <2>1, KeptRows DEF Inv, Safe
  <2>5. Record(op, p) /\ ~RecordFails(op, p) => RowOf(op, p)'
    BY <1>3, <2>2, <2>4 DEF RecordFails
  <2> QED
    BY <2>1, <2>3, <2>4, <2>5, KeptRecorded DEF SameContract
<1> QED
  BY <1>2, <1>3 DEF Record

LEMMA RecordCorrelationInv ==
  ASSUME Inv, NEW c \in Callers, RecordCorrelation(c)
  PROVE  Inv' /\ (Contract!Next \/ SameContract)
<1>1. call[c].pc = "record" /\ call[c].pc \in LockedPCs
  BY DEF RecordCorrelation, LockedPCs
<1>2. PICK op \in Ops, p \in PullNumbers : op = call[c].op /\ p = call[c].pull
  <2>1. call[c].op \in Ops
    BY Typed DEF Call
  <2>2. call[c].pull \in PullNumbers
    BY <1>1 DEF Inv, Safe, CallsSound, Knows
  <2> QED
    BY <2>1, <2>2
<1>3. /\ tick' = tick /\ held' = held /\ pulls' = pulls /\ record' = record /\ used' = used
      /\ answers' = answers /\ closes' = closes /\ crashes' = crashes
      /\ faults' = faults \/ Fault
  BY DEF RecordCorrelation
<1>4. \/ Record(op, p) /\ ~RecordFails(op, p) /\ Goto(c, "store")
      \/ Refuse(c) /\ (Record(op, p) \/ rows' = rows)
  BY <1>2 DEF RecordCorrelation
<1>5. /\ StoreTypeOK' /\ RowsUnique'
      /\ \A o, q : RowOf(o, q) => RowOf(o, q)'
      /\ Contract!Next \/ SameContract
      /\ Record(op, p) /\ ~RecordFails(op, p) => RowOf(op, p)'
  BY <1>1, <1>2, <1>3, <1>4, RecordRows
<1>6. DoneIsRecorded'
  <2> SUFFICES ASSUME NEW o \in Ops, record[o].state = "done"
               PROVE  RowOf(o, record[o].pull)'
    BY <1>3 DEF DoneIsRecorded
  <2>1. PICK q : q = record[o].pull
    OBVIOUS
  <2>2. RowOf(o, q)'
    BY <1>5, <2>1 DEF Inv, Safe, DoneIsRecorded
  <2> QED
    BY <1>3, <2>1, <2>2 DEF RowOf
<1>7. AnswersAreDone'
  BY <1>3 DEF Inv, Safe, AnswersAreDone
<1>8. PICK x \in Call : /\ call' = [call EXCEPT ![c] = x]
                        /\ OwnsPending(x)' /\ Knows(x)'
  <2>1. CASE Refuse(c)
    <3>1. OwnsPending(Idle)' /\ Knows(Idle)'
      BY IdleCall DEF OwnsPending, Knows, LockedPCs
    <3> QED
      BY <2>1, <3>1, IdleCall DEF Refuse
  <2>2. CASE Record(op, p) /\ ~RecordFails(op, p) /\ Goto(c, "store")
    <3>1. PICK y : y = [call[c] EXCEPT !.pc = "store"]
      OBVIOUS
    <3>2. y \in Call /\ y.pc = "store" /\ y.op = op /\ y.digest = call[c].digest /\ y.pull = p
      BY <1>2, <3>1, Typed DEF Call, PCs, LockedPCs
    <3>3. record[op].state = "pending" /\ record[op].digest = call[c].digest
      BY <1>1, <1>2 DEF Inv, Safe, CallsSound, OwnsPending
    <3>4. OwnsPending(y)'
      BY <1>3, <3>2, <3>3 DEF OwnsPending
    <3>5. Knows(y)'
      BY <1>5, <2>2, <3>2 DEF Knows
    <3> QED
      BY <2>2, <3>1, <3>2, <3>4, <3>5 DEF Goto
  <2> QED
    BY <1>4, <2>1, <2>2
<1>9. Exclusive' /\ CallsSound'
  BY <1>1, <1>8, OthersOut
<1>10. call' \in [Callers -> Call]
  BY <1>8, Typed
<1>11. TypeOK'
  BY <1>3, <1>5, <1>10, Rest
<1> QED
  BY <1>5, <1>6, <1>7, <1>9, <1>11 DEF Inv, Safe

-----------------------------------------------------------------------------
(* The environment.                                                        *)

\* Steps that leave the requests, the records and the answers alone.
LEMMA EnvironmentSafe ==
  ASSUME Inv, RowsKept, call' = call, record' = record, answers' = answers
  PROVE  Safe'
<1>1. RowsUnique' /\ DoneIsRecorded'
  BY KeptRows DEF Inv, Safe, DoneIsRecorded
<1>2. ASSUME NEW e \in Callers PROVE OwnsPending(call[e])' /\ Knows(call[e])'
  <2>1. PICK y : y = call[e]
    OBVIOUS
  <2>2. OwnsPending(y) /\ Knows(y)
    BY <2>1 DEF Inv, Safe, CallsSound
  <2>3. Knows(y)'
    BY <2>2, KeptRows
  <2> QED
    BY <2>1, <2>2, <2>3 DEF OwnsPending, Knows, RowOf, ByOperation
<1> QED
  BY <1>1, <1>2 DEF Inv, Safe, Exclusive, CallsSound, AnswersAreDone

LEMMA CloseInv ==
  ASSUME Inv, NEW p \in DOMAIN pulls, Close(p) \/ Retitle(p)
  PROVE  Inv' /\ SameContract
<1> DEFINE P == [op: Ops, open: BOOLEAN, titled: BOOLEAN]
<1>1. StoreTypeOK' /\ RowsKept
  BY StoreKept DEF Close, Retitle
<1>2. Safe'
  BY <1>1, EnvironmentSafe DEF Close, Retitle
<1>3. pulls \in Seq(P) /\ Len(pulls) \in Nat /\ DOMAIN pulls = 1..Len(pulls)
  BY LenProperties DEF Inv, TypeOK
<1>4. \A q \in DOMAIN pulls : pulls[q] \in P
  BY <1>3, ElementOfSeq
<1>5. pulls' \in [1..Len(pulls) -> P]
  BY <1>3, <1>4 DEF Close, Retitle
<1>6. pulls' \in Seq(P)
  BY <1>3, <1>5, SeqDef
<1>7. Len(pulls') = Len(pulls)
  BY <1>3, <1>5, <1>6, LenProperties
<1>8. closes' \in 0..MaxCloses
  BY BoundsNat DEF Close, Retitle, Inv, TypeOK
<1>9. TypeOK'
  BY <1>1, <1>6, <1>7, <1>8 DEF Inv, TypeOK, Close, Retitle
<1> QED
  BY <1>1, <1>2, <1>9, KeptRecorded DEF Inv, SameContract, Close, Retitle

LEMMA CrashInv ==
  ASSUME Inv, Crash
  PROVE  Inv' /\ SameContract
<1>1. StoreTypeOK' /\ RowsKept
  BY StoreKept DEF Crash
<1>2. \A e \in Callers : call'[e] = Idle
  BY DEF Crash
<1>3. Idle.pc \notin LockedPCs
  BY IdleCall DEF LockedPCs
<1>4. RowsUnique' /\ DoneIsRecorded'
  BY <1>1, KeptRows DEF Inv, Safe, DoneIsRecorded, Crash
<1>5. Exclusive' /\ CallsSound'
  BY <1>2, <1>3 DEF Exclusive, CallsSound, OwnsPending, Knows, LockedPCs
<1>6. AnswersAreDone'
  BY DEF Inv, Safe, AnswersAreDone, Crash
<1>7. call' \in [Callers -> Call]
  BY IdleCall DEF Crash
<1>8. crashes' \in 0..MaxCrashes
  BY BoundsNat DEF Crash, Inv, TypeOK
<1>9. TypeOK'
  BY <1>1, <1>7, <1>8 DEF Inv, TypeOK, Crash
<1> QED
  BY <1>1, <1>4, <1>5, <1>6, <1>9, KeptRecorded DEF Inv, Safe, SameContract, Crash

LEMMA OutboxInv ==
  ASSUME Inv, Tick \/ \E k \in Consumers : Consume(k), UNCHANGED pullVars
  PROVE  Inv' /\ SameContract
<1>1. StoreTypeOK' /\ RowsKept
  BY TickStore, ConsumeStore DEF Inv, TypeOK
<1>2. Safe'
  BY <1>1, EnvironmentSafe DEF pullVars
<1>3. TypeOK'
  BY <1>1 DEF Inv, TypeOK, pullVars
<1> QED
  BY <1>1, <1>2, <1>3, KeptRecorded DEF Inv, SameContract, pullVars

LEMMA StutterInv ==
  ASSUME Inv, UNCHANGED vars
  PROVE  Inv' /\ SameContract
<1>1. StoreTypeOK' /\ RowsKept
  BY StoreKept DEF vars
<1>2. Safe'
  BY <1>1, EnvironmentSafe DEF vars, pullVars
<1>3. TypeOK'
  BY <1>1 DEF Inv, TypeOK, vars, pullVars
<1> QED
  BY <1>1, <1>2, <1>3, KeptRecorded DEF Inv, SameContract, vars, pullVars

-----------------------------------------------------------------------------
(* The theorems.                                                           *)

LEMMA InitInv == Init => Inv /\ Contract!Init
<1> SUFFICES ASSUME Init PROVE Inv /\ Contract!Init
  OBVIOUS
<1> USE DEF Init, StoreInit
<1>1. rows \in Seq(Row) /\ DOMAIN rows = {} /\ Len(rows) = 0
  BY EmptySeq
<1>2. StoreTypeOK
  BY <1>1, SecondPositive DEF StoreTypeOK
<1>3. pulls \in Seq([op: Ops, open: BOOLEAN, titled: BOOLEAN]) /\ Len(pulls) <= MaxPulls
  BY EmptySeq, MaxPullsNat
<1>4. record \in [Ops -> [state: {"none", "pending", "done"}, digest: Digests, pull: 0..MaxPulls]]
  BY IdleCall, MaxPullsNat
<1>5. call \in [Callers -> Call]
  BY IdleCall
<1>6. TypeOK
  BY <1>2, <1>3, <1>4, <1>5, BoundsNat DEF TypeOK
<1>7. RowsUnique /\ DoneIsRecorded /\ AnswersAreDone
  BY <1>1 DEF RowsUnique, DoneIsRecorded, AnswersAreDone
<1>8. Exclusive /\ CallsSound
  BY IdleCall DEF Exclusive, CallsSound, OwnsPending, Knows, LockedPCs
<1>9. Contract!Init
  BY <1>1 DEF Contract!Init
<1> QED
  BY <1>6, <1>7, <1>8, <1>9 DEF Inv, Safe

\* Every step keeps the invariant and is a step of the contract or of none.
LEMMA NextInv == Inv /\ [Next]_vars => Inv' /\ (Contract!Next \/ SameContract)
<1> SUFFICES ASSUME Inv, [Next]_vars PROVE Inv' /\ (Contract!Next \/ SameContract)
  OBVIOUS
<1>1. ASSUME NEW c \in Callers, NEW op \in Ops, NEW d \in Digests, NEW v \in BOOLEAN,
             Request(c, op, d, v)
      PROVE  Inv' /\ SameContract
  BY <1>1, RequestInv
<1>2. ASSUME NEW c \in Callers, Handle(c)
      PROVE  Inv' /\ (Contract!Next \/ SameContract)
  BY <1>2, CheckInv, ReserveMutationInv, ReserveExactInv, LookupInv, SearchInv,
     CreatePullInv, RecordCorrelationInv, StoreResponseInv DEF Handle
<1>3. ASSUME NEW p \in DOMAIN pulls, Close(p) \/ Retitle(p)
      PROVE  Inv' /\ SameContract
  BY <1>3, CloseInv
<1>4. CASE Crash
  BY <1>4, CrashInv
<1>5. CASE (Tick \/ \E k \in Consumers : Consume(k)) /\ UNCHANGED pullVars
  BY <1>5, OutboxInv
<1>6. CASE UNCHANGED vars
  BY <1>6, StutterInv
<1> QED
  BY <1>1, <1>2, <1>3, <1>4, <1>5, <1>6 DEF Next

\* The variables of a pull.create keep their types for all bounds.
THEOREM PullTypeCorrect == Spec => []TypeOK
<1>1. Inv => TypeOK
  BY DEF Inv
<1> QED
  BY <1>1, InitInv, NextInv, PTL DEF Spec

\* However many callers, retries, failing calls, crashes and consumers there are,
\* pull.create with a key keeps its contract: a key is answered with one request
\* and one pull request, that pull request has been recorded for the key, and no
\* two keys share one (pullCreateWithCorrelation and correlation.Store.Record).
THEOREM PullKeepsContract == Spec => KeepsContract
<1>1. SameContract => UNCHANGED <<answers, {[op |-> rows[i].op, pull |-> rows[i].pull] : i \in DOMAIN rows}>>
  BY DEF SameContract, Recorded
<1>2. Inv /\ [Next]_vars =>
        [Contract!Next]_<<answers, {[op |-> rows[i].op, pull |-> rows[i].pull] : i \in DOMAIN rows}>>
  BY <1>1, NextInv
<1> QED
  BY <1>2, InitInv, NextInv, PTL DEF Spec, KeepsContract, Contract!Spec
-----------------------------------------------------------------------------
(* Retries make no second open pull request.                               *)

\* A request that uses a pull request uses one of its operation; one that is
\* about to make one has made sure that the operation has none open.
Sees(x) ==
    /\ x.pc \in {"record", "store"} => x.pull \in DOMAIN pulls /\ pulls[x.pull].op = x.op
    /\ x.pc = "create" \/ (x.pc = "lookup" /\ ~x.replay) => OpenPulls(x.op) = {}

\* The pending record is there before the pull request.
ReservedFirst == \A p \in DOMAIN pulls : record[pulls[p].op].state # "none"

GitHubInv ==
    /\ ReservedFirst
    /\ OneOpenPullPerOperation
    /\ CorrelatesOwnPull
    /\ \A c \in Callers : Sees(call[c])

RecordsStay == \A o \in Ops : record[o].state # "none" => record'[o].state # "none"

\* No row but those there were and one for the pull request of c.
RowsFrom(c) ==
    \A i \in DOMAIN rows' :
        \/ /\ i \in DOMAIN rows
           /\ rows'[i].op = rows[i].op /\ rows'[i].pull = rows[i].pull
        \/ /\ call[c].pc = "record"
           /\ rows'[i].op = call[c].op /\ rows'[i].pull = call[c].pull

LEMMA PullTypes ==
  Inv => /\ pulls \in Seq([op: Ops, open: BOOLEAN, titled: BOOLEAN])
         /\ Len(pulls) \in Nat /\ DOMAIN pulls = 1..Len(pulls)
         /\ \A p \in DOMAIN pulls : pulls[p] \in [op: Ops, open: BOOLEAN, titled: BOOLEAN]
<1> SUFFICES ASSUME Inv
             PROVE  /\ pulls \in Seq([op: Ops, open: BOOLEAN, titled: BOOLEAN])
                    /\ Len(pulls) \in Nat /\ DOMAIN pulls = 1..Len(pulls)
                    /\ \A p \in DOMAIN pulls : pulls[p] \in [op: Ops, open: BOOLEAN, titled: BOOLEAN]
  OBVIOUS
<1>1. pulls \in Seq([op: Ops, open: BOOLEAN, titled: BOOLEAN])
  BY DEF Inv, TypeOK
<1> QED
  BY <1>1, LenProperties, ElementOfSeq

\* One request moves on, and GitHub stays as it is.
LEMMA MoveGitHub ==
  ASSUME Inv, GitHubInv, NEW c \in Callers, NEW x, call' = [call EXCEPT ![c] = x],
         pulls' = pulls, RowsFrom(c), RecordsStay, Sees(x)
  PROVE  GitHubInv'
<1>1. \A d \in Callers : call'[d] = IF d = c THEN x ELSE call[d]
  BY Typed
<1>2. ReservedFirst'
  BY PullTypes DEF ReservedFirst, RecordsStay, GitHubInv
<1>3. OneOpenPullPerOperation'
  BY DEF GitHubInv, OneOpenPullPerOperation
<1>4. CorrelatesOwnPull'
  BY DEF GitHubInv, CorrelatesOwnPull, RowsFrom, Sees
<1>5. ASSUME NEW d \in Callers PROVE Sees(call[d])'
  <2>1. PICK y : y = call'[d]
    OBVIOUS
  <2>2. Sees(y)
    BY <1>1, <2>1 DEF GitHubInv
  <2> QED
    BY <2>1, <2>2 DEF Sees, OpenPulls
<1> QED
  BY <1>2, <1>3, <1>4, <1>5 DEF GitHubInv

LEMMA RefuseGitHub ==
  ASSUME Inv, GitHubInv, NEW c \in Callers, Refuse(c), pulls' = pulls, RowsFrom(c), RecordsStay
  PROVE  GitHubInv'
<1>1. Sees(Idle)
  BY IdleCall DEF Sees
<1> QED
  BY <1>1, MoveGitHub DEF Refuse

\* The step pc needs no more than the request saw before.
LEMMA GotoGitHub ==
  ASSUME Inv, GitHubInv, NEW c \in Callers, NEW pc, Goto(c, pc),
         pulls' = pulls, RowsFrom(c), RecordsStay,
         \/ pc \notin {"record", "store", "create", "lookup"}
         \/ pc = "create" /\ OpenPulls(call[c].op) = {}
         \/ pc = "store" /\ call[c].pc = "record"
  PROVE  GitHubInv'
<1>1. PICK x : x = [call[c] EXCEPT !.pc = pc]
  OBVIOUS
<1>2. x.pc = pc /\ x.op = call[c].op /\ x.pull = call[c].pull
  BY <1>1, Typed DEF Call
<1>3. Sees(call[c])
  BY DEF GitHubInv
<1>4. Sees(x)
  BY <1>2, <1>3 DEF Sees
<1>5. call' = [call EXCEPT ![c] = x]
  BY <1>1 DEF Goto
<1> QED
  BY <1>4, <1>5, MoveGitHub

LEMMA UseGitHub ==
  ASSUME Inv, GitHubInv, NEW c \in Callers, NEW p \in DOMAIN pulls, Use(c, p),
         pulls[p].op = call[c].op, pulls' = pulls, RowsFrom(c), RecordsStay
  PROVE  GitHubInv'
<1>1. PICK x : x = [call[c] EXCEPT !.pc = "record", !.pull = p]
  OBVIOUS
<1>2. x.pc = "record" /\ x.op = call[c].op /\ x.pull = p
  BY <1>1, Typed DEF Call
<1>3. Sees(x)
  BY <1>2 DEF Sees
<1>4. call' = [call EXCEPT ![c] = x]
  BY <1>1 DEF Use
<1> QED
  BY <1>3, <1>4, MoveGitHub

\* Reading steps leave rows and records alone.
LEMMA StaysGitHub ==
  ASSUME NEW c \in Callers, rows' = rows, record' = record
  PROVE  RowsFrom(c) /\ RecordsStay
  BY DEF RowsFrom, RecordsStay

LEMMA RequestGitHub ==
  ASSUME Inv, GitHubInv, NEW c \in Callers, NEW op \in Ops, NEW d \in Digests,
         NEW v \in BOOLEAN, Request(c, op, d, v)
  PROVE  GitHubInv'
<1>1. PICK x : x = [Idle EXCEPT !.pc = "guard", !.op = op, !.digest = d, !.valid = v]
  OBVIOUS
<1>2. x.pc = "guard"
  BY <1>1, IdleCall DEF Call
<1>3. Sees(x)
  BY <1>2 DEF Sees
<1>4. call' = [call EXCEPT ![c] = x] /\ pulls' = pulls /\ RowsFrom(c) /\ RecordsStay
  BY <1>1, StaysGitHub DEF Request, storeVars
<1> QED
  BY <1>3, <1>4, MoveGitHub

LEMMA BeforeLockGitHub ==
  ASSUME Inv, GitHubInv, NEW c \in Callers,
         CheckBranchLifecycle(c) \/ ReserveMutation(c) \/ Verify(c)
  PROVE  GitHubInv'
<1>1. pulls' = pulls /\ RowsFrom(c) /\ RecordsStay
  BY StaysGitHub DEF CheckBranchLifecycle, ReserveMutation, Verify, storeVars
<1>2. Refuse(c) \/ Goto(c, "budget") \/ Goto(c, "verify") \/ Goto(c, "reserve")
  BY DEF CheckBranchLifecycle, ReserveMutation, Verify
<1> QED
  BY <1>1, <1>2, RefuseGitHub, GotoGitHub

LEMMA ReserveExactGitHub ==
  ASSUME Inv, GitHubInv, NEW c \in Callers, ReserveExact(c)
  PROVE  GitHubInv'
<1>1. call[c] \in Call /\ call[c].op \in Ops
  BY Typed DEF Call
<1>2. pulls' = pulls /\ RowsFrom(c)
  BY DEF ReserveExact, storeVars, RowsFrom
<1>3. RecordsStay
  <2> SUFFICES ASSUME NEW o \in Ops, record[o].state # "none" PROVE record'[o].state # "none"
    BY DEF RecordsStay
  <2>1. CASE record' = record
    BY <2>1
  <2>2. CASE record[call[c].op].state = "none"
             /\ record' = [record EXCEPT ![call[c].op] =
                             [state |-> "pending", digest |-> call[c].digest, pull |-> 0]]
    BY <2>2, Typed
  <2> QED
    BY <2>1, <2>2 DEF ReserveExact
<1>4. \/ Refuse(c)
      \/ \E b \in BOOLEAN :
            /\ call' = [call EXCEPT ![c] = [@ EXCEPT !.pc = "lookup", !.replay = b]]
            /\ ~b => record[call[c].op].state = "none"
  BY DEF ReserveExact, Succeed, Refuse
<1>5. CASE Refuse(c)
  BY <1>2, <1>3, <1>5, RefuseGitHub
<1>6. ASSUME NEW b \in BOOLEAN,
             call' = [call EXCEPT ![c] = [@ EXCEPT !.pc = "lookup", !.replay = b]],
             ~b => record[call[c].op].state = "none"
      PROVE  GitHubInv'
  <2>1. PICK x : x = [call[c] EXCEPT !.pc = "lookup", !.replay = b]
    OBVIOUS
  <2>2. x.pc = "lookup" /\ x.replay = b /\ x.op = call[c].op
    BY <1>1, <2>1 DEF Call
  <2>3. ~b => OpenPulls(call[c].op) = {}
    BY <1>6 DEF GitHubInv, ReservedFirst, OpenPulls
  <2>4. Sees(x)
    BY <2>2, <2>3 DEF Sees
  <2>5. call' = [call EXCEPT ![c] = x]
    BY <1>6, <2>1
  <2> QED
    BY <1>2, <1>3, <2>4, <2>5, MoveGitHub
<1> QED
  BY <1>4, <1>5, <1>6

LEMMA SearchGitHub ==
  ASSUME Inv, GitHubInv, NEW c \in Callers, Lookup(c) \/ Search(c) \/ Recover(c)
  PROVE  GitHubInv'
<1>1. pulls' = pulls /\ RowsFrom(c) /\ RecordsStay
  BY StaysGitHub DEF Lookup, Search, Recover, storeVars
<1>2. ASSUME NEW i \in ByOperation(call[c].op), Use(c, rows[i].pull) PROVE GitHubInv'
  <2>1. i \in DOMAIN rows /\ rows[i].op = call[c].op
    BY DEF ByOperation
  <2>2. rows[i].pull \in DOMAIN pulls /\ pulls[rows[i].pull].op = call[c].op
    BY <2>1 DEF GitHubInv, CorrelatesOwnPull
  <2> QED
    BY <1>1, <1>2, <2>2, UseGitHub
<1>3. ASSUME NEW p \in Lowest(OpenPulls(call[c].op)), Use(c, p) PROVE GitHubInv'
  <2>1. p \in DOMAIN pulls /\ pulls[p].op = call[c].op
    BY DEF Lowest, OpenPulls
  <2> QED
    BY <1>1, <1>3, <2>1, UseGitHub
<1>4. CASE call[c].pc = "lookup" /\ Goto(c, AfterLookup(call[c].replay))
  <2>1. ~call[c].replay => OpenPulls(call[c].op) = {}
    BY <1>4 DEF GitHubInv, Sees
  <2>2. CASE call[c].replay
    BY <1>1, <1>4, <2>2, GotoGitHub DEF AfterLookup
  <2>3. CASE ~call[c].replay
    BY <1>1, <1>4, <2>1, <2>3, GotoGitHub DEF AfterLookup
  <2> QED
    BY <2>2, <2>3
<1>5. CASE OpenPulls(call[c].op) = {} /\ Goto(c, "create")
  BY <1>1, <1>5, GotoGitHub
<1>6. CASE Refuse(c)
  BY <1>1, <1>6, RefuseGitHub
<1> QED
  BY <1>2, <1>3, <1>4, <1>5, <1>6 DEF Lookup, Search, Recover

LEMMA CreatePullGitHub ==
  ASSUME Inv, GitHubInv, NEW c \in Callers, CreatePull(c)
  PROVE  GitHubInv'
<1> DEFINE P == [op: Ops, open: BOOLEAN, titled: BOOLEAN]
           new == Append(pulls, [op |-> call[c].op, open |-> TRUE, titled |-> TRUE])
           n == Len(pulls)
<1>1. rows' = rows /\ record' = record /\ call[c].pc = "create" /\ call[c].pc \in LockedPCs
  BY DEF CreatePull, storeVars, LockedPCs
<1>2. call[c].op \in Ops /\ OpenPulls(call[c].op) = {} /\ record[call[c].op].state = "pending"
  <2>1. call[c].op \in Ops
    BY Typed DEF Call
  <2>2. Sees(call[c]) /\ OwnsPending(call[c])
    BY DEF GitHubInv, Inv, Safe, CallsSound
  <2>3. OpenPulls(call[c].op) = {}
    BY <1>1, <2>2 DEF Sees
  <2>4. record[call[c].op].state = "pending"
    BY <1>1, <2>2 DEF OwnsPending
  <2> QED
    BY <2>1, <2>3, <2>4
<1>3. CASE pulls' = pulls /\ Goto(c, "recover")
  BY <1>1, <1>3, GotoGitHub, StaysGitHub
<1>4. CASE pulls' = new /\ (Use(c, Len(new)) \/ Goto(c, "recover"))
  <2>1. pulls \in Seq(P) /\ n \in Nat /\ DOMAIN pulls = 1..n
    BY PullTypes
  <2>2. PICK m : m = [op |-> call[c].op, open |-> TRUE, titled |-> TRUE]
    OBVIOUS
  <2>3. m \in P /\ m.op = call[c].op
    BY <1>2, <2>2
  <2>4. /\ new \in Seq(P) /\ Len(new) = n + 1
        /\ \A q \in 1..n : new[q] = pulls[q]
        /\ new[n + 1] = m
    BY <2>1, <2>2, <2>3, AppendProperties
  <2>5. DOMAIN new = 1..(n + 1)
    BY <2>4, LenProperties
  <2>6. /\ DOMAIN pulls' = DOMAIN pulls \cup {n + 1} /\ n + 1 \notin DOMAIN pulls
        /\ \A q \in DOMAIN pulls : pulls'[q] = pulls[q]
        /\ pulls'[n + 1].op = call[c].op
        /\ Use(c, n + 1) \/ Goto(c, "recover")
    BY <1>4, <2>1, <2>3, <2>4, <2>5
  <2> HIDE DEF n, new
  <2>7. ReservedFirst'
    BY <1>1, <1>2, <2>6 DEF GitHubInv, ReservedFirst
  <2>8. OneOpenPullPerOperation'
    BY <1>2, <2>6 DEF GitHubInv, OneOpenPullPerOperation, OpenPulls
  <2>9. CorrelatesOwnPull'
    BY <1>1, <2>6 DEF GitHubInv, CorrelatesOwnPull
  <2>10. PICK x : /\ call' = [call EXCEPT ![c] = x]
                  /\ \/ x.pc = "record" /\ x.pull = n + 1 /\ x.op = call[c].op
                     \/ x.pc = "recover"
    <3>1. call[c] \in Call
      BY Typed
    <3>2. CASE Use(c, n + 1)
      <4>1. PICK y : y = [call[c] EXCEPT !.pc = "record", !.pull = n + 1]
        OBVIOUS
      <4>2. y.pc = "record" /\ y.pull = n + 1 /\ y.op = call[c].op
        BY <3>1, <4>1 DEF Call
      <4> QED
        BY <3>2, <4>1, <4>2 DEF Use
    <3>3. CASE Goto(c, "recover")
      <4>1. PICK y : y = [call[c] EXCEPT !.pc = "recover"]
        OBVIOUS
      <4>2. y.pc = "recover"
        BY <3>1, <4>1 DEF Call
      <4> QED
        BY <3>3, <4>1, <4>2 DEF Goto
    <3> QED
      BY <2>6, <3>2, <3>3
  <2>11. ASSUME NEW d \in Callers PROVE Sees(call[d])'
    <3>1. CASE d = c
      <4>1. call'[d] = x
        BY <2>10, <3>1, Typed
      <4> QED
        BY <2>6, <2>10, <4>1 DEF Sees
    <3>2. CASE d # c
      <4>1. call'[d] = call[d] /\ call[d].pc \notin LockedPCs
        BY <1>1, <2>10, <3>2, Typed DEF Inv, Safe, Exclusive
      <4> QED
        BY <4>1 DEF Sees, LockedPCs
    <3> QED
      BY <3>1, <3>2
  <2> QED
    BY <2>7, <2>8, <2>9, <2>11 DEF GitHubInv
<1> QED
  BY <1>3, <1>4 DEF CreatePull

LEMMA RecordCorrelationGitHub ==
  ASSUME Inv, GitHubInv, NEW c \in Callers, RecordCorrelation(c)
  PROVE  GitHubInv'
<1>1. call[c].pc = "record" /\ pulls' = pulls /\ RecordsStay
  BY DEF RecordCorrelation, RecordsStay
<1>2. RowsFrom(c)
  <2>1. CASE rows' = rows
    BY <2>1 DEF RowsFrom
  <2>2. CASE rows' # rows
    <3>1. PICK row : /\ row = [op |-> call[c].op, pull |-> call[c].pull, status |-> "pending",
                               token |-> "", age |-> 0]
                     /\ rows' = Append(rows, row)
      BY <2>2 DEF RecordCorrelation, Record
    <3>2. row.op = call[c].op /\ row.pull = call[c].pull
      BY <3>1
    <3>3. row \in Row
      <4>1. 0 \in 0..MaxAge
        BY ClaimTTLPositive, SecondPositive DEF MaxAge
      <4>2. call[c].op \in Ops /\ call[c].pull \in PullNumbers
        BY <1>1, Typed DEF Call, Inv, Safe, CallsSound, Knows
      <4> QED
        BY <3>1, <4>1, <4>2 DEF Row, PullNumbers
    <3>4. rows \in Seq(Row) /\ Len(rows) \in Nat /\ DOMAIN rows = 1..Len(rows)
      BY Typed, LenProperties
    <3>5. /\ rows' \in Seq(Row) /\ Len(rows') = Len(rows) + 1
          /\ \A i \in 1..Len(rows) : rows'[i] = rows[i]
          /\ rows'[Len(rows) + 1] = row
      <4>1. rows' = Append(rows, row)
        BY <3>1
      <4> QED
        BY <3>3, <3>4, <4>1, AppendProperties
    <3>6. DOMAIN rows' = 1..(Len(rows) + 1)
      BY <3>5, LenProperties
    <3>7. \A i \in DOMAIN rows' : (i \in DOMAIN rows /\ rows'[i] = rows[i]) \/ rows'[i] = row
      BY <3>4, <3>5, <3>6
    <3> QED
      BY <1>1, <3>2, <3>7 DEF RowsFrom
  <2> QED
    BY <2>1, <2>2
<1>3. Goto(c, "store") \/ Refuse(c)
  BY DEF RecordCorrelation
<1> QED
  BY <1>1, <1>2, <1>3, GotoGitHub, RefuseGitHub

LEMMA StoreResponseGitHub ==
  ASSUME Inv, GitHubInv, NEW c \in Callers, StoreResponse(c)
  PROVE  GitHubInv'
<1>1. pulls' = pulls /\ RowsFrom(c) /\ Refuse(c)
  BY DEF StoreResponse, storeVars, RowsFrom, Succeed, Refuse
<1>2. RecordsStay
  BY Typed DEF StoreResponse, RecordsStay
<1> QED
  BY <1>1, <1>2, RefuseGitHub

LEMMA CloseGitHub ==
  ASSUME Inv, GitHubInv, NEW p \in DOMAIN pulls, Close(p) \/ Retitle(p)
  PROVE  GitHubInv'
<1>1. rows' = rows /\ record' = record /\ call' = call
  BY DEF Close, Retitle, storeVars
<1>2. /\ DOMAIN pulls' = DOMAIN pulls
      /\ \A q \in DOMAIN pulls : /\ pulls'[q].op = pulls[q].op
                                 /\ pulls'[q].open /\ pulls'[q].titled => pulls[q].open /\ pulls[q].titled
  <2>1. pulls[p].op \in Ops /\ pulls[p] \in [op: Ops, open: BOOLEAN, titled: BOOLEAN]
    BY PullTypes
  <2>2. PICK y : /\ pulls' = [pulls EXCEPT ![p] = y] /\ y.op = pulls[p].op
                 /\ y.open /\ y.titled => pulls[p].open /\ pulls[p].titled
    <3>1. CASE Close(p)
      <4>1. PICK y : y = [pulls[p] EXCEPT !.open = FALSE]
        OBVIOUS
      <4>2. pulls' = [pulls EXCEPT ![p] = y] /\ y.op = pulls[p].op /\ y.open = FALSE
        BY <2>1, <3>1, <4>1 DEF Close
      <4> QED
        BY <4>2
    <3>2. CASE Retitle(p)
      <4>1. PICK y : y = [pulls[p] EXCEPT !.titled = FALSE]
        OBVIOUS
      <4>2. pulls' = [pulls EXCEPT ![p] = y] /\ y.op = pulls[p].op /\ y.titled = FALSE
        BY <2>1, <3>2, <4>1 DEF Retitle
      <4> QED
        BY <4>2
    <3> QED
      BY <3>1, <3>2
  <2>3. DOMAIN pulls' = DOMAIN pulls /\ \A q \in DOMAIN pulls : pulls'[q] = IF q = p THEN y ELSE pulls[q]
    BY <2>2
  <2> QED
    BY <2>2, <2>3
<1>3. \A op : OpenPulls(op)' \subseteq OpenPulls(op)
  BY <1>2 DEF OpenPulls
<1>4. ReservedFirst' /\ OneOpenPullPerOperation' /\ CorrelatesOwnPull'
  BY <1>1, <1>2 DEF GitHubInv, ReservedFirst, OneOpenPullPerOperation, CorrelatesOwnPull
<1>5. ASSUME NEW d \in Callers PROVE Sees(call[d])'
  <2>1. PICK x : x = call[d]
    OBVIOUS
  <2>2. Sees(x)
    BY <2>1 DEF GitHubInv
  <2>3. Sees(x)'
    BY <1>2, <1>3, <2>2 DEF Sees
  <2> QED
    BY <1>1, <2>1, <2>3 DEF Sees, OpenPulls
<1> QED
  BY <1>4, <1>5 DEF GitHubInv

\* Crashes, the outbox and stuttering leave GitHub and the records alone.
LEMMA OthersGitHub ==
  ASSUME Inv, GitHubInv, pulls' = pulls, record' = record, RowsKept,
         call' = call \/ call' = [c \in Callers |-> Idle]
  PROVE  GitHubInv'
<1>1. ReservedFirst' /\ OneOpenPullPerOperation' /\ CorrelatesOwnPull'
  BY DEF GitHubInv, ReservedFirst, OneOpenPullPerOperation, CorrelatesOwnPull, RowsKept
<1>2. Sees(Idle)
  BY IdleCall DEF Sees
<1>3. ASSUME NEW d \in Callers PROVE Sees(call[d])'
  <2>1. PICK x : x = call'[d]
    OBVIOUS
  <2>2. Sees(x)
    BY <1>2, <2>1 DEF GitHubInv
  <2> QED
    BY <2>1, <2>2 DEF Sees, OpenPulls
<1> QED
  BY <1>1, <1>3 DEF GitHubInv

LEMMA NextGitHub == Inv /\ GitHubInv /\ [Next]_vars => GitHubInv'
<1> SUFFICES ASSUME Inv, GitHubInv, [Next]_vars PROVE GitHubInv'
  OBVIOUS
<1>1. ASSUME NEW c \in Callers, NEW op \in Ops, NEW d \in Digests, NEW v \in BOOLEAN,
             Request(c, op, d, v)
      PROVE  GitHubInv'
  BY <1>1, RequestGitHub
<1>2. ASSUME NEW c \in Callers, Handle(c) PROVE GitHubInv'
  BY <1>2, BeforeLockGitHub, ReserveExactGitHub, SearchGitHub, CreatePullGitHub,
     RecordCorrelationGitHub, StoreResponseGitHub DEF Handle
<1>3. ASSUME NEW p \in DOMAIN pulls, Close(p) \/ Retitle(p) PROVE GitHubInv'
  BY <1>3, CloseGitHub
<1>4. CASE Crash
  BY <1>4, StoreKept, OthersGitHub DEF Crash
<1>5. CASE (Tick \/ \E k \in Consumers : Consume(k)) /\ UNCHANGED pullVars
  <2>1. RowsKept
    BY <1>5, TickStore, ConsumeStore DEF Inv, TypeOK
  <2> QED
    BY <1>5, <2>1, OthersGitHub DEF pullVars
<1>6. CASE UNCHANGED vars
  BY <1>6, StoreKept, OthersGitHub DEF vars, pullVars
<1> QED
  BY <1>1, <1>2, <1>3, <1>4, <1>5, <1>6 DEF Next

LEMMA InitGitHub == Init => GitHubInv
<1> SUFFICES ASSUME Init PROVE GitHubInv
  OBVIOUS
<1>1. DOMAIN rows = {} /\ DOMAIN pulls = {}
  BY DEF Init, StoreInit
<1>2. \A c \in Callers : call[c].pc = "idle"
  BY IdleCall DEF Init
<1> QED
  BY <1>1, <1>2 DEF GitHubInv, ReservedFirst, OneOpenPullPerOperation, CorrelatesOwnPull, Sees

\* However often a request is retried, whoever else asks for the same operation,
\* and wherever calls fail or the process dies, an operation never has two open
\* pull requests at GitHub (the reservation, the two searches and pullCreateMu of
\* pullCreateWithCorrelation).
THEOREM NoSecondOpenPull == Spec => []OneOpenPullPerOperation
<1>1. GitHubInv => OneOpenPullPerOperation
  BY DEF GitHubInv
<1> QED
  BY <1>1, InitInv, NextInv, InitGitHub, NextGitHub, PTL DEF Spec

\* Only a pull request with the marker of the operation is correlated with it
\* (openPullForOperation and reconcileOrCreatePull).
THEOREM CorrelationsAreOwn == Spec => []CorrelatesOwnPull
<1>1. GitHubInv => CorrelatesOwnPull
  BY DEF GitHubInv
<1> QED
  BY <1>1, InitInv, NextInv, InitGitHub, NextGitHub, PTL DEF Spec
-----------------------------------------------------------------------------
(* Acknowledgements and leases of the outbox.                              *)

\* What no step may do to event i.
Respects(i) ==
    /\ rows[i].status = "acked" => rows'[i] = rows[i]
    /\ TakenOver(i) => rows[i].age > ClaimTTL - Second

\* The texts of two times are in an order that is wrong by less than a second.
LEMMA TextOrderBounds ==
  ASSUME NEW t \in Int
  PROVE  TextOrder(t) \in Int /\ 2 * t <= TextOrder(t) /\ TextOrder(t) < 2 * (t + Second)
<1>1. Second \in Int /\ Second >= 1
  BY SecondPositive
<1>2. CASE t % Second = 0
  <2>1. TextOrder(t) = 2 * (t + Second) - 1
    BY <1>2 DEF TextOrder
  <2> QED
    BY <1>1, <2>1
<1>3. CASE t % Second # 0
  <2>1. TextOrder(t) = 2 * t
    BY <1>3 DEF TextOrder
  <2> QED
    BY <1>1, <2>1
<1> QED
  BY <1>2, <1>3

\* A lease that the query calls expired has less than a second left.
LEMMA ExpiredLease ==
  ASSUME StoreTypeOK, NEW i \in DOMAIN rows, Expired(i)
  PROVE  rows[i].age > ClaimTTL - Second
<1>1. rows[i].age \in 0..MaxAge
  BY RowType DEF StoreTypeOK, Row
<1>2. PICK age \in Int : age = rows[i].age
  BY <1>1, ClaimTTLPositive, SecondPositive DEF MaxAge
<1>3. tick \in Int /\ ClaimTTL \in Int /\ Second \in Int
  BY ClaimTTLPositive, SecondPositive DEF StoreTypeOK
<1>4. PICK a \in Int, b \in Int : a = tick - age /\ b = tick - ClaimTTL
  BY <1>3
<1>5. TextOrder(a) <= TextOrder(b)
  BY <1>2, <1>4 DEF Expired
<1>6. 2 * a <= TextOrder(a) /\ TextOrder(a) \in Int
  BY TextOrderBounds
<1>7. TextOrder(b) < 2 * (b + Second) /\ TextOrder(b) \in Int
  BY TextOrderBounds
<1>8. 2 * a < 2 * (b + Second)
  BY <1>3, <1>5, <1>6, <1>7
<1> QED
  BY <1>2, <1>3, <1>4, <1>8

\* A claim takes pending events and those whose lease the query calls expired.
LEMMA ClaimRespects ==
  ASSUME StoreTypeOK, NEW c \in Consumers, NEW limit \in Int, ClaimPending(c, limit),
         NEW i \in DOMAIN rows
  PROVE  Respects(i)
<1>1. PICK batch :
         /\ batch = Batch(Clamp(limit))
         /\ rows' = [j \in DOMAIN rows |->
                        IF j \in batch
                        THEN [rows[j] EXCEPT !.status = "claimed", !.token = c, !.age = 0]
                        ELSE rows[j]]
  BY DEF ClaimPending
<1>2. CASE i \notin batch
  BY <1>1, <1>2 DEF Respects, TakenOver
<1>3. CASE i \in batch
  <2>1. rows[i].status = "pending" \/ (rows[i].status = "claimed" /\ Expired(i))
    <3>1. batch \subseteq Claimable
      BY <1>1 DEF Batch
    <3> QED
      BY <1>3, <3>1 DEF Claimable
  <2> QED
    BY <2>1, ExpiredLease DEF Respects, TakenOver
<1> QED
  BY <1>2, <1>3

\* Only the holder's acknowledgement or return changes an event, and only a
\* claimed one.
LEMMA AckRespects ==
  ASSUME StoreTypeOK, NEW c \in Consumers, NEW k \in held[c], Ack(c, k) \/ Reclaim(c, k),
         NEW i \in DOMAIN rows
  PROVE  Respects(i)
<1>1. rows \in Seq(Row) /\ rows[i] \in Row
  BY RowType DEF StoreTypeOK
<1>2. CASE rows'[i] = rows[i]
  BY <1>2 DEF Respects, TakenOver
<1>3. CASE rows'[i] # rows[i]
  <2>1. Holds(c, k)
    BY <1>3 DEF Ack, Reclaim
  <2>2. DOMAIN rows = 1..Len(rows) /\ rows = [j \in DOMAIN rows |-> rows[j]]
    BY <1>1, LenProperties
  <2>3. k = i
    BY <1>3, <2>2 DEF Ack, Reclaim
  <2>4. rows[i].status = "claimed"
    BY <2>1, <2>3 DEF Holds
  <2>5. rows'[i].status \in {"acked", "pending"}
    <3>1. CASE Ack(c, k)
      <4>1. rows' = [rows EXCEPT ![i].status = "acked"]
        BY <2>1, <2>3, <3>1 DEF Ack
      <4> QED
        BY <1>1, <2>2, <4>1 DEF Row
    <3>2. CASE Reclaim(c, k)
      <4>1. rows' = [rows EXCEPT ![i] = [@ EXCEPT !.status = "pending", !.token = "", !.age = 0]]
        BY <2>1, <2>3, <3>2 DEF Reclaim
      <4> QED
        BY <1>1, <2>2, <4>1 DEF Row
    <3> QED
      BY <3>1, <3>2
  <2> QED
    BY <2>4, <2>5 DEF Respects, TakenOver
<1> QED
  BY <1>2, <1>3

LEMMA TickRespects ==
  ASSUME StoreTypeOK, Tick, NEW i \in DOMAIN rows
  PROVE  Respects(i)
<1>1. rows[i] \in Row
  BY RowType DEF StoreTypeOK
<1>2. rows'[i] = rows[i] \/ rows'[i] = [rows[i] EXCEPT !.age = @ + 1]
  BY DEF Tick
<1>3. rows[i].status = "acked" => rows'[i] = rows[i]
  BY DEF Tick
<1>4. rows'[i].token = rows[i].token
  BY <1>1, <1>2 DEF Row
<1> QED
  BY <1>3, <1>4 DEF Respects, TakenOver

\* Recording appends: the events that are there stay as they are.
LEMMA RecordRespects ==
  ASSUME Inv, NEW c \in Callers, RecordCorrelation(c), NEW i \in DOMAIN rows
  PROVE  rows'[i] = rows[i]
<1>1. PICK op, p : op = call[c].op /\ p = call[c].pull
  OBVIOUS
<1>2. rows' = rows \/ Record(op, p)
  BY <1>1 DEF RecordCorrelation
<1>3. CASE rows' = rows
  BY <1>3
<1>4. CASE rows' # rows
  <2>1. call[c].pc = "record" /\ call[c] \in Call
    BY Typed DEF RecordCorrelation
  <2>2. op \in Ops /\ p \in PullNumbers
    BY <1>1, <2>1 DEF Call, Inv, Safe, CallsSound, Knows
  <2> DEFINE row == [op |-> op, pull |-> p, status |-> "pending", token |-> "", age |-> 0]
  <2>3. rows' = Append(rows, row)
    BY <1>2, <1>4 DEF Record
  <2>4. 0 \in 0..MaxAge
    BY ClaimTTLPositive, SecondPositive DEF MaxAge
  <2>5. row \in Row
    BY <2>2, <2>4 DEF Row, PullNumbers
  <2>6. rows \in Seq(Row) /\ i \in 1..Len(rows)
    BY Typed, LenProperties
  <2> HIDE DEF row
  <2> QED
    BY <2>3, <2>5, <2>6, AppendProperties
<1> QED
  BY <1>3, <1>4

\* No step of the broker, a consumer or the clock disrespects an event.
LEMMA NextRespects == Inv /\ [Next]_vars => \A i \in DOMAIN rows : Respects(i)
<1> SUFFICES ASSUME Inv, [Next]_vars, NEW i \in DOMAIN rows PROVE Respects(i)
  OBVIOUS
<1>1. CASE rows'[i] = rows[i]
  BY <1>1 DEF Respects, TakenOver
<1>2. ASSUME NEW c \in Callers, Handle(c) PROVE rows'[i] = rows[i]
  <2>1. CASE RecordCorrelation(c)
    BY <2>1, RecordRespects
  <2>2. CASE ~RecordCorrelation(c)
    BY <1>2, <2>2 DEF Handle, CheckBranchLifecycle, ReserveMutation, Verify, ReserveExact,
       Lookup, Search, CreatePull, Recover, StoreResponse, storeVars
  <2> QED
    BY <2>1, <2>2
<1>3. ASSUME NEW k \in Consumers, Consume(k) PROVE Respects(i)
  <2>1. StoreTypeOK
    BY Typed
  <2>2. CASE \E limit \in 0..(MaxBatch + 1) : ClaimPending(k, limit)
    BY <2>1, <2>2, ClaimRespects, MaxBatchPositive
  <2>3. CASE \E j \in held[k] : Ack(k, j) \/ Reclaim(k, j)
    BY <2>1, <2>3, AckRespects
  <2>4. CASE ConsumerCrash(k)
    BY <1>1, <2>4 DEF ConsumerCrash
  <2> QED
    BY <1>3, <2>2, <2>3, <2>4 DEF Consume
<1>4. CASE Tick
  BY <1>4, Typed, TickRespects
<1>5. ASSUME NEW c \in Callers, NEW op \in Ops, NEW d \in Digests, NEW v \in BOOLEAN,
             Request(c, op, d, v)
      PROVE  rows'[i] = rows[i]
  BY <1>5 DEF Request, storeVars
<1>6. CASE Crash \/ (\E p \in DOMAIN pulls : Close(p) \/ Retitle(p)) \/ UNCHANGED vars
  BY <1>1, <1>6 DEF Crash, Close, Retitle, vars, storeVars
<1> QED
  BY <1>1, <1>2, <1>3, <1>4, <1>5, <1>6 DEF Next

\* Once an event is acknowledged, no late call of any consumer, no expired lease
\* and no new correlation changes it or hands it out again (Ack, Reclaim and
\* ClaimPending of correlation.Store).
THEOREM AcknowledgedForGood == Spec => AckedIsFinal
<1>1. Inv /\ [Next]_vars =>
        [\A i \in DOMAIN rows : rows[i].status = "acked" => rows'[i] = rows[i]]_rows
  BY NextRespects DEF Respects
<1> QED
  BY <1>1, InitInv, NextInv, PTL DEF Spec, AckedIsFinal

\* For every lease and every resolution of the clock, a consumer loses an event
\* to another one at most a second before its lease is over, although the query
\* of ClaimPending compares texts that leave out a fraction of zero.
THEOREM LeasesAreKept == Spec => LeaseKeptToTheSecond
<1>1. Inv /\ [Next]_vars =>
        [\A i \in DOMAIN rows : TakenOver(i) => rows[i].age > ClaimTTL - Second]_rows
  BY NextRespects DEF Respects
<1> QED
  BY <1>1, InitInv, NextInv, PTL DEF Spec, LeaseKeptToTheSecond
=============================================================================
