-------------------------- MODULE CorrelationStore --------------------------
(***************************************************************************)
(* The correlation store of the GitHub broker (internal/correlation) and   *)
(* the outbox API through which consumers drain it (server/outbox.go).     *)
(*                                                                         *)
(* Record inserts a pr_correlations row and its outbox event in one        *)
(* transaction, so one row of the model is both.  Consumers claim events   *)
(* for a lease, then acknowledge or hand them back; they may crash, and    *)
(* any answer to them may be lost.                                         *)
(*                                                                         *)
(* Time is a clock of Second ticks per second.  What is kept is the age of *)
(* a claim and the position of the clock within its second, so time has no *)
(* bound: ages are not counted beyond MaxAge, where every lease is over.   *)
(* The attempts counter, which no code reads, is left out.                 *)
(***************************************************************************)
EXTENDS Integers, Sequences, FiniteSets

CONSTANTS
    Ops,          \* operation ids
    MaxPulls,     \* bound on pull requests
    Consumers,    \* claim tokens, one per consumer
    MaxBatch,     \* max_claim_batch
    ClaimTTL,     \* claim_ttl_seconds, in ticks
    Second        \* ticks per second

ASSUME MaxPullsNat == MaxPulls \in Nat
ASSUME MaxBatchPositive == MaxBatch \in Nat \ {0}
ASSUME ClaimTTLPositive == ClaimTTL \in Nat \ {0}
ASSUME SecondPositive == Second \in Nat \ {0}

VARIABLES
    rows,         \* pr_correlations joined with outbox_events, in id order
    tick,         \* the clock's position within its second
    held          \* the events each consumer believes it has claimed

storeVars == <<rows, tick, held>>

MaxAge == ClaimTTL + Second

Row == [op: Ops, pull: 1..MaxPulls, status: {"pending", "claimed", "acked"},
        token: Consumers \cup {""}, age: 0..MaxAge]

StoreTypeOK ==
    /\ rows \in Seq(Row)
    /\ tick \in 0..(Second - 1)
    /\ held \in [Consumers -> SUBSET Nat]

StoreInit ==
    /\ rows = << >>
    /\ tick = 0
    /\ held = [c \in Consumers |-> {}]

-----------------------------------------------------------------------------
(* Record and GetByOperation.                                              *)

\* The ids of the rows of an operation.
ByOperation(op) == {i \in DOMAIN rows : rows[i].op = op}

\* UNIQUE (repo, pr_number)
PullTaken(pull) == \E i \in DOMAIN rows : rows[i].pull = pull

\* Record is idempotent on the operation id and refuses a taken number.
Record(op, pull) ==
    rows' = IF ByOperation(op) # {} \/ PullTaken(pull) THEN rows
            ELSE Append(rows, [op |-> op, pull |-> pull, status |-> "pending",
                               token |-> "", age |-> 0])

RecordFails(op, pull) == ByOperation(op) = {} /\ PullTaken(pull)

-----------------------------------------------------------------------------
(* ClaimPending, Ack and Reclaim.                                          *)

\* formatTime writes RFC3339Nano, which leaves out a fraction that is zero,
\* and the query compares the texts.  "...01.5Z" is smaller than "...01Z", so a
\* whole second comes after all the other ticks of its second.
TextOrder(t) == IF t % Second = 0 THEN 2 * (t + Second) - 1 ELSE 2 * t

\* Mutant: the lease is not subtracted from now.
ExpiredAtOnce(i) == TextOrder(tick - rows[i].age) <= TextOrder(tick)

\* claimed_at <= now - claimTTL
Expired(i) == TextOrder(tick - rows[i].age) <= TextOrder(tick - ClaimTTL)

Claimable ==
    {i \in DOMAIN rows : \/ rows[i].status = "pending"
                         \/ rows[i].status = "claimed" /\ Expired(i)}

\* handleClaim: at least one, at most max_claim_batch.
Clamp(limit) == IF limit <= 0 THEN 1 ELSE IF limit > MaxBatch THEN MaxBatch ELSE limit

\* ORDER BY id LIMIT n
Batch(n) == {i \in Claimable : Cardinality({j \in Claimable : j <= i}) <= n}

\* A consumer that holds nothing claims a batch.  Its answer may be lost.
ClaimPending(c, limit) ==
    LET batch == Batch(Clamp(limit)) IN
    /\ held[c] = {} /\ batch # {}
    /\ rows' = [i \in DOMAIN rows |->
                  IF i \in batch
                  THEN [rows[i] EXCEPT !.status = "claimed", !.token = c, !.age = 0]
                  ELSE rows[i]]
    /\ held' \in {held, [held EXCEPT ![c] = batch]}
    /\ UNCHANGED tick

\* Mutant: the status is not checked; an acked event still has its token.
HoldsToken(c, i) == rows[i].token = c

\* The claim token gate of Ack and Reclaim.
Holds(c, i) == rows[i].status = "claimed" /\ rows[i].token = c

\* The consumer learns how its call on event i ended, success or claim_mismatch,
\* and is done with the event; or the answer is lost and it may call again.
Answered(c, i) == held' \in {held, [held EXCEPT ![c] = @ \ {i}]}

\* ErrClaimMismatch unless the event is still claimed with this token.
Ack(c, i) ==
    /\ i \in held[c]
    /\ rows' = IF Holds(c, i) THEN [rows EXCEPT ![i].status = "acked"] ELSE rows
    /\ Answered(c, i)
    /\ UNCHANGED tick

Reclaim(c, i) ==
    /\ i \in held[c]
    /\ rows' = IF Holds(c, i)
               THEN [rows EXCEPT ![i] = [@ EXCEPT !.status = "pending", !.token = "", !.age = 0]]
               ELSE rows
    /\ Answered(c, i)
    /\ UNCHANGED tick

-----------------------------------------------------------------------------
(* The environment.                                                        *)

\* A consumer restarts and has forgotten what it claimed.
ConsumerCrash(c) ==
    /\ held[c] # {}
    /\ held' = [held EXCEPT ![c] = {}]
    /\ UNCHANGED <<rows, tick>>

Tick ==
    /\ tick' = (tick + 1) % Second
    /\ rows' = [i \in DOMAIN rows |->
                  IF rows[i].status = "claimed" /\ rows[i].age < MaxAge
                  THEN [rows[i] EXCEPT !.age = @ + 1] ELSE rows[i]]
    /\ UNCHANGED held

Consume(c) ==
    \/ \E limit \in 0..(MaxBatch + 1) : ClaimPending(c, limit)
    \/ \E i \in held[c] : Ack(c, i) \/ Reclaim(c, i)
    \/ ConsumerCrash(c)

\* Time goes on.  A consumer claims when it holds nothing and works through what
\* it holds; one that gets an event over and over acknowledges it within its
\* lease in the end, and hears of it: not every answer is lost, and it does not
\* crash or hand the event back every time.
ConsumerFairness ==
    /\ WF_storeVars(Tick)
    /\ \A c \in Consumers :
         /\ SF_storeVars(ClaimPending(c, MaxBatch) /\ held'[c] # {})
         /\ WF_storeVars(\E i \in held[c] : Ack(c, i) /\ held'[c] # held[c])
         /\ \A i \in 1..MaxPulls :
               SF_storeVars(/\ i \in held[c] /\ Holds(c, i)
                            /\ Ack(c, i) /\ held'[c] # held[c])

-----------------------------------------------------------------------------
(* Properties.                                                             *)

\* An acknowledged event is never handed out again: no late call of any
\* consumer and no lease reopens it (Ack, Reclaim, ClaimPending).
AckedIsFinal ==
    [][\A i \in DOMAIN rows : rows[i].status = "acked" => rows'[i] = rows[i]]_rows

\* Another consumer takes a claimed event.
TakenOver(i) == /\ rows[i].status = "claimed" /\ rows'[i].status = "claimed"
                /\ rows'[i].token # rows[i].token

\* An event is taken from a consumer at most a second before its lease ends,
\* whatever the textual comparison of claimed_at makes of fractions.
LeaseKeptToTheSecond ==
    [][\A i \in DOMAIN rows : TakenOver(i) => rows[i].age > ClaimTTL - Second]_rows

=============================================================================
