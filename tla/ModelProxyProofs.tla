-------------------------- MODULE ModelProxyProofs --------------------------
(***************************************************************************)
(* Proofs about gh-agent-proxy.  What requests in flight may still cost    *)
(* would be a sum over the handlers; instead of a sum the invariant says   *)
(* that the requests can be laid out side by side, without overlap, in the *)
(* interval between what was spent and what was granted.                   *)
(***************************************************************************)
EXTENDS ModelProxy, TLAPS

\* The requests of S, each as long as its size, fit between lo and hi.
Apart(S, size, at) ==
    \A p, q \in S : p # q => at[p] + size[p] <= at[q] \/ at[q] + size[q] <= at[p]

Between(S, size, at, lo, hi) == \A p \in S : lo <= at[p] /\ at[p] + size[p] <= hi

Sized(S, size) == \A p \in S : size[p] \in Nat /\ size[p] > 0

Packed(S, size, lo, hi) ==
    /\ lo <= hi /\ Sized(S, size)
    /\ \E at \in [S -> Nat] : Apart(S, size, at) /\ Between(S, size, at, lo, hi)

LEMMA PackedNone == ASSUME NEW size, NEW n \in Nat PROVE Packed({}, size, n, n)
<1> DEFINE at == [p \in {} |-> 0]
<1>1. at \in [{} -> Nat] /\ Apart({}, size, at) /\ Between({}, size, at, n, n) /\ Sized({}, size)
  BY DEF Apart, Between, Sized
<1>2. n <= n
  OBVIOUS
<1> HIDE DEF at
<1> QED
  BY <1>1, <1>2 DEF Packed

\* Requests that are given up, and grants nobody works against, leave room.
LEMMA PackedFewer ==
  ASSUME NEW S, NEW T \in SUBSET S, NEW size, NEW size2, \A p \in T : size2[p] = size[p],
         NEW lo \in Nat, NEW hi \in Nat, NEW hi2 \in Nat, hi <= hi2, Packed(S, size, lo, hi)
  PROVE  Packed(T, size2, lo, hi2)
<1>1. PICK at \in [S -> Nat] : Apart(S, size, at) /\ Between(S, size, at, lo, hi)
  BY DEF Packed
<1>2. lo <= hi2 /\ Sized(T, size2)
  BY DEF Packed, Sized
<1> DEFINE at2 == [p \in T |-> at[p]]
<1>3. at2 \in [T -> Nat] /\ \A p \in T : at2[p] = at[p] /\ at[p] \in Nat /\ size[p] \in Nat
  BY DEF Packed, Sized
<1> HIDE DEF at2
<1>4. Apart(T, size2, at2)
  BY <1>1, <1>3 DEF Apart
<1>5. Between(T, size2, at2, lo, hi2)
  BY <1>1, <1>3 DEF Between
<1> QED
  BY <1>2, <1>3, <1>4, <1>5 DEF Packed

\* A new request is laid where the grants ended.
LEMMA PackedMore ==
  ASSUME NEW S, NEW p, p \notin S, NEW size, NEW size2, \A q \in S : size2[q] = size[q],
         NEW lo \in Nat, NEW hi \in Nat, NEW n \in Nat, n > 0, size2[p] = n,
         Packed(S, size, lo, hi)
  PROVE  Packed(S \cup {p}, size2, lo, hi + n)
<1>1. PICK at \in [S -> Nat] : Apart(S, size, at) /\ Between(S, size, at, lo, hi)
  BY DEF Packed
<1>2. lo <= hi /\ lo <= hi + n /\ Sized(S \cup {p}, size2)
  BY DEF Packed, Sized
<1> DEFINE at2 == [q \in S \cup {p} |-> IF q = p THEN hi ELSE at[q]]
<1>3. /\ at2 \in [S \cup {p} -> Nat] /\ at2[p] = hi
      /\ \A q \in S : at2[q] = at[q] /\ at[q] \in Nat /\ size[q] \in Nat
  BY DEF Packed, Sized
<1> HIDE DEF at2
<1>4. \A q \in S : at2[q] + size2[q] <= hi /\ lo <= at2[q]
  BY <1>1, <1>3 DEF Between
<1>5. Apart(S \cup {p}, size2, at2)
  BY <1>1, <1>3, <1>4 DEF Apart
<1>6. Between(S \cup {p}, size2, at2, lo, hi + n)
  <2>1. \A q \in S : size2[q] \in Nat /\ at2[q] \in Nat
    BY <1>3
  <2>2. \A q \in S : lo <= at2[q] /\ at2[q] + size2[q] <= hi + n
    BY <2>1, <1>4
  <2>3. lo <= at2[p] /\ at2[p] + size2[p] <= hi + n
    BY <1>2, <1>3
  <2> QED
    BY <2>2, <2>3 DEF Between
<1> QED
  BY <1>2, <1>3, <1>5, <1>6 DEF Packed

\* A request that ends has spent no more than its size: those laid below it
\* move up by that much.
LEMMA PackedLess ==
  ASSUME NEW S, NEW p \in S, NEW size, NEW size2, \A q \in S \ {p} : size2[q] = size[q],
         NEW lo \in Nat, NEW hi \in Nat, NEW u \in Nat, u <= size[p],
         Packed(S, size, lo, hi)
  PROVE  Packed(S \ {p}, size2, lo + u, hi)
<1>1. PICK at \in [S -> Nat] : Apart(S, size, at) /\ Between(S, size, at, lo, hi)
  BY DEF Packed
<1>2. \A q \in S : size[q] \in Nat /\ size[q] > 0 /\ at[q] \in Nat
  BY DEF Packed, Sized
<1> DEFINE at2 == [q \in S \ {p} |-> IF at[q] < at[p] THEN at[q] + size[p] ELSE at[q]]
<1>3. /\ at2 \in [S \ {p} -> Nat]
      /\ \A q \in S \ {p} : at2[q] = IF at[q] < at[p] THEN at[q] + size[p] ELSE at[q]
  BY <1>2
<1> HIDE DEF at2
<1>4. \A q \in S \ {p} : \/ at[q] + size[q] <= at[p] /\ at[q] < at[p]
                         \/ at[p] + size[p] <= at[q] /\ ~(at[q] < at[p])
  <2> TAKE q \in S \ {p}
  <2>1. at[p] + size[p] <= at[q] \/ at[q] + size[q] <= at[p]
    BY <1>1 DEF Apart
  <2> QED
    BY <1>2, <2>1
<1>5. Apart(S \ {p}, size2, at2)
  <2> SUFFICES ASSUME NEW q \in S \ {p}, NEW r \in S \ {p}, q # r
               PROVE  at2[q] + size[q] <= at2[r] \/ at2[r] + size[r] <= at2[q]
    BY DEF Apart
  <2>1. at[q] + size[q] <= at[r] \/ at[r] + size[r] <= at[q]
    BY <1>1 DEF Apart
  <2> QED
    BY <1>2, <1>3, <1>4, <2>1
<1>6. \A q \in S \ {p} : lo + u <= at2[q] /\ at2[q] + size[q] <= hi
  <2> TAKE q \in S \ {p}
  <2>1. lo <= at[q] /\ lo <= at[p] /\ at[q] + size[q] <= hi /\ at[p] + size[p] <= hi
    BY <1>1 DEF Between
  <2> QED
    BY <1>2, <1>3, <1>4, <2>1
<1>7. lo + u <= hi
  <2>1. lo <= at[p] /\ at[p] + size[p] <= hi
    BY <1>1 DEF Between
  <2> QED
    BY <1>2, <2>1
<1>8. Between(S \ {p}, size2, at2, lo + u, hi) /\ Sized(S \ {p}, size2)
  BY <1>2, <1>6 DEF Between, Sized
<1> QED
  BY <1>3, <1>5, <1>7, <1>8 DEF Packed

-----------------------------------------------------------------------------
(* The inductive invariant.                                                *)

Forwarding(j, h) == {p \in Handlers : j[p].pc = "forward" /\ j[p].handle = h}
Sending(j, r) == {p \in Handlers : j[p].pc = "send" /\ j[p].run = r}

OneCall == [p \in Handlers |-> 1]
BoundOf(j) == [p \in Handlers |-> j[p].bound]

Amount == [calls: Nat, tokens: Nat]

\* What was done and what is under way against a handle was granted.
Backed(j, h, done, got) ==
    /\ Packed(Forwarding(j, h), OneCall, done.calls, got.calls)
    /\ Packed(Forwarding(j, h), BoundOf(j), done.tokens, got.tokens)

\* The calls that were made and those under way were counted in the file.
CallsCounted(j, r, done, counted) == Packed(Sending(j, r), OneCall, done, counted)

\* What a request knows at each of its steps.
JobOK(o) ==
    /\ o.pc \in {"preflight", "verify", "reserve", "forward"} => o.handle \in Handles
    /\ o.pc \in {"verify", "reserve", "forward"} => o.bound > 0
    /\ o.pc \in {"count", "send", "charge", "charge_stream"} => o.run \in Runs

ProxyInv ==
    /\ TypeOK
    /\ \A p \in Handlers : JobOK(job[p])
    /\ \A h \in Handles : Backed(job, h, up[h], caps[h].reserved)
    /\ \A r \in Runs : CallsCounted(job, r, up[r].calls, file[r].calls)
    /\ \A r \in Runs : file[r].calls <= MaxCallsPerRun /\ delivered[r] <= file[r].tokens

LEMMA Limits ==
  /\ MaxTokensPerRun \in Nat /\ MaxCallsPerRun \in Nat /\ MaxTime \in Nat /\ MaxRequests \in Nat
  /\ MaxFaults \in Nat /\ MaxUsage \in Nat /\ DefaultOut \in Nat
  BY ProxyAssumption, Zenon

LEMMA OneMore == ASSUME NEW n \in Nat, NEW k \in 0..n, k < n PROVE k + 1 \in 0..n
  OBVIOUS

LEMMA ZeroWithin == ASSUME NEW n \in Nat PROVE 0 \in 0..n /\ 0 <= n
  OBVIOUS

LEMMA IdleJob == Idle \in Job /\ Idle.pc = "idle" /\ JobOK(Idle)
<1>1. Idle \in Job /\ Idle.pc = "idle"
  BY DEF Idle, Job
<1> QED
  BY <1>1 DEF JobOK

LEMMA Types ==
  ASSUME TypeOK
  PROVE  /\ job \in [Handlers -> Job] /\ caps \in [Handles -> Capability]
         /\ \A h \in Handles : up[h] \in Amount /\ caps[h].reserved \in Amount /\ caps[h] \in Capability
         /\ \A r \in Runs : /\ up[r] \in Amount /\ file[r].calls \in Nat /\ delivered[r] \in Nat
                            /\ file[r].tokens \in 0..MaxTokensPerRun /\ file[r].tokens \in Nat
<1>1. \A h \in Handles : caps[h] \in Capability
  BY DEF TypeOK, CapTypeOK
<1>2. \A c \in Capability : c.reserved \in Amount
  BY DEF Capability, Amount
<1>3. \A r \in Runs : file[r] \in [calls: Nat, tokens: 0..MaxTokensPerRun]
  BY DEF TypeOK
<1> QED
  BY <1>1, <1>2, <1>3 DEF TypeOK, CapTypeOK, Amount

\* Requests that neither forward nor send against x change nothing for it.
LEMMA BackedStill ==
  ASSUME NEW j, NEW j2, NEW h, NEW done \in Amount, NEW got \in Amount, NEW got2 \in Amount,
         \A q \in Handlers : j2[q] = j[q] \/ j2[q].pc # "forward" \/ j2[q].handle # h,
         got.calls <= got2.calls, got.tokens <= got2.tokens, Backed(j, h, done, got)
  PROVE  Backed(j2, h, done, got2)
<1> DEFINE S == Forwarding(j, h)
           T == Forwarding(j2, h)
<1>1. T \in SUBSET S /\ T \subseteq Handlers /\ \A p \in T : BoundOf(j2)[p] = BoundOf(j)[p]
  BY DEF Forwarding, BoundOf
<1>2. done.calls \in Nat /\ done.tokens \in Nat /\ got.calls \in Nat /\ got.tokens \in Nat
      /\ got2.calls \in Nat /\ got2.tokens \in Nat
  BY DEF Amount
<1>3. Packed(S, OneCall, done.calls, got.calls) /\ Packed(S, BoundOf(j), done.tokens, got.tokens)
  BY DEF Backed
<1> HIDE DEF S, T
<1>4. Packed(T, OneCall, done.calls, got2.calls)
  BY <1>1, <1>2, <1>3, PackedFewer
<1>5. Packed(T, BoundOf(j2), done.tokens, got2.tokens)
  BY <1>1, <1>2, <1>3, PackedFewer
<1> QED
  BY <1>4, <1>5 DEF Backed, T

LEMMA CountedStill ==
  ASSUME NEW j, NEW j2, NEW r, NEW done \in Nat, NEW counted \in Nat,
         \A q \in Handlers : j2[q] = j[q] \/ j2[q].pc # "send" \/ j2[q].run # r,
         CallsCounted(j, r, done, counted)
  PROVE  CallsCounted(j2, r, done, counted)
<1> DEFINE S == Sending(j, r)
           T == Sending(j2, r)
<1>1. T \in SUBSET S
  BY DEF Sending
<1>2. Packed(S, OneCall, done, counted) /\ counted <= counted
  BY DEF CallsCounted
<1> HIDE DEF S, T
<1>3. Packed(T, OneCall, done, counted)
  BY <1>1, <1>2, PackedFewer
<1> QED
  BY <1>3 DEF CallsCounted, T

\* A reservation is made for p, and p goes on to forward its request.
LEMMA BackedMore ==
  ASSUME NEW j, NEW j2, NEW h, NEW done \in Amount, NEW got \in Amount, NEW p \in Handlers,
         \A q \in Handlers : q # p => j2[q] = j[q],
         j[p].pc # "forward", j2[p].pc = "forward", j2[p].handle = h, j2[p].bound \in Nat,
         j2[p].bound > 0, Backed(j, h, done, got)
  PROVE  Backed(j2, h, done, [calls |-> got.calls + 1, tokens |-> got.tokens + j2[p].bound])
<1> DEFINE S == Forwarding(j, h)
           T == Forwarding(j2, h)
<1>1. /\ T = S \cup {p} /\ p \notin S /\ \A q \in S : BoundOf(j2)[q] = BoundOf(j)[q]
      /\ BoundOf(j2)[p] = j2[p].bound /\ OneCall[p] = 1
  BY DEF Forwarding, BoundOf, OneCall
<1>2. done.calls \in Nat /\ done.tokens \in Nat /\ got.calls \in Nat /\ got.tokens \in Nat
  BY DEF Amount
<1>3. Packed(S, OneCall, done.calls, got.calls) /\ Packed(S, BoundOf(j), done.tokens, got.tokens)
  BY DEF Backed
<1> HIDE DEF S, T
<1>4. Packed(S \cup {p}, OneCall, done.calls, got.calls + 1)
  <2>1. 1 \in Nat /\ 1 > 0
    OBVIOUS
  <2> QED
    BY <2>1, <1>1, <1>2, <1>3, PackedMore
<1>5. Packed(S \cup {p}, BoundOf(j2), done.tokens, got.tokens + j2[p].bound)
  BY <1>1, <1>2, <1>3, PackedMore
<1> QED
  BY <1>1, <1>4, <1>5 DEF Backed, T

\* The request of p is answered and has cost no more than its bound.
LEMMA BackedLess ==
  ASSUME NEW j, NEW j2, NEW h, NEW done \in Amount, NEW got \in Amount, NEW p \in Handlers,
         \A q \in Handlers : q # p => j2[q] = j[q],
         j[p].pc = "forward", j[p].handle = h, j2[p].pc # "forward", NEW u \in Nat, u <= j[p].bound,
         Backed(j, h, done, got)
  PROVE  Backed(j2, h, [calls |-> done.calls + 1, tokens |-> done.tokens + u], got)
<1> DEFINE S == Forwarding(j, h)
           T == Forwarding(j2, h)
<1>1. /\ T = S \ {p} /\ p \in S /\ \A q \in S \ {p} : BoundOf(j2)[q] = BoundOf(j)[q]
      /\ BoundOf(j)[p] = j[p].bound /\ OneCall[p] = 1
  BY DEF Forwarding, BoundOf, OneCall
<1>2. done.calls \in Nat /\ done.tokens \in Nat /\ got.calls \in Nat /\ got.tokens \in Nat
  BY DEF Amount
<1>3. Packed(S, OneCall, done.calls, got.calls) /\ Packed(S, BoundOf(j), done.tokens, got.tokens)
  BY DEF Backed
<1> HIDE DEF S, T
<1>4. Packed(S \ {p}, OneCall, done.calls + 1, got.calls)
  <2>1. 1 \in Nat /\ 1 <= OneCall[p]
    BY <1>1
  <2> QED
    BY <2>1, <1>1, <1>2, <1>3, PackedLess
<1>5. Packed(S \ {p}, BoundOf(j2), done.tokens + u, got.tokens)
  BY <1>1, <1>2, <1>3, PackedLess
<1> QED
  BY <1>1, <1>4, <1>5 DEF Backed, T

\* A call is counted before it is sent, and made once it is answered.
LEMMA CountedMore ==
  ASSUME NEW j, NEW j2, NEW r, NEW done \in Nat, NEW counted \in Nat, NEW p \in Handlers,
         \A q \in Handlers : q # p => j2[q] = j[q],
         j[p].pc # "send", j2[p].pc = "send", j2[p].run = r, CallsCounted(j, r, done, counted)
  PROVE  CallsCounted(j2, r, done, counted + 1)
<1> DEFINE S == Sending(j, r)
           T == Sending(j2, r)
<1>1. T = S \cup {p} /\ p \notin S /\ OneCall[p] = 1
  BY DEF Sending, OneCall
<1>2. Packed(S, OneCall, done, counted) /\ 1 \in Nat /\ 1 > 0
  BY DEF CallsCounted
<1> HIDE DEF S, T
<1>3. Packed(S \cup {p}, OneCall, done, counted + 1)
  BY <1>1, <1>2, PackedMore
<1> QED
  BY <1>1, <1>3 DEF CallsCounted, T

LEMMA CountedLess ==
  ASSUME NEW j, NEW j2, NEW r, NEW done \in Nat, NEW counted \in Nat, NEW p \in Handlers,
         \A q \in Handlers : q # p => j2[q] = j[q],
         j[p].pc = "send", j[p].run = r, j2[p].pc # "send", CallsCounted(j, r, done, counted)
  PROVE  CallsCounted(j2, r, done + 1, counted)
<1> DEFINE S == Sending(j, r)
           T == Sending(j2, r)
<1>1. T = S \ {p} /\ p \in S /\ OneCall[p] = 1
  BY DEF Sending, OneCall
<1>2. Packed(S, OneCall, done, counted) /\ 1 \in Nat /\ 1 <= OneCall[p]
  BY <1>1 DEF CallsCounted
<1> HIDE DEF S, T
<1>3. Packed(S \ {p}, OneCall, done + 1, counted)
  BY <1>1, <1>2, PackedLess
<1> QED
  BY <1>1, <1>3 DEF CallsCounted, T

-----------------------------------------------------------------------------
(* The steps.                                                              *)

LEMMA ProxyInit == Init => ProxyInv
<1> SUFFICES ASSUME Init PROVE ProxyInv
  OBVIOUS
<1>1. job = [p \in Handlers |-> Idle] /\ job \in [Handlers -> Job]
  BY IdleJob DEF Init
<1>2. \A p \in Handlers : job[p].pc = "idle" /\ JobOK(job[p])
  BY <1>1, IdleJob
<1>3. Unissued \in Capability /\ Unissued.reserved = Zero /\ Zero = [calls |-> 0, tokens |-> 0]
  BY ProxyAssumption DEF Unissued, Capability, Zero
<1>4. CapTypeOK /\ \A h \in Handles : caps[h].reserved = Zero
  BY <1>3, Limits, ZeroWithin DEF Init, CapInit, CapTypeOK
<1>5. /\ file \in [Runs -> [calls: Nat, tokens: 0..MaxTokensPerRun]]
      /\ \A r \in Runs : file[r].calls = 0 /\ file[r].tokens = 0
  BY <1>3, Limits, ZeroWithin DEF Init
<1>6. /\ up \in [Handles \cup Runs -> [calls: Nat, tokens: Nat]] /\ delivered \in [Runs -> Nat]
      /\ \A x \in Handles \cup Runs : up[x] = Zero
      /\ \A r \in Runs : delivered[r] = 0
  BY <1>3 DEF Init
<1>7. requests \in 0..MaxRequests /\ faults \in 0..MaxFaults /\ enabled \in BOOLEAN
  BY Limits, ZeroWithin DEF Init
<1>8. TypeOK
  BY <1>1, <1>4, <1>5, <1>6, <1>7 DEF TypeOK
<1>9. \A x : Forwarding(job, x) = {} /\ Sending(job, x) = {}
  BY <1>2 DEF Forwarding, Sending
<1>10. \A size : Packed({}, size, 0, 0)
  BY PackedNone
<1>11. \A h \in Handles : Backed(job, h, up[h], caps[h].reserved)
  BY <1>3, <1>4, <1>6, <1>9, <1>10 DEF Backed
<1>12. \A r \in Runs : CallsCounted(job, r, up[r].calls, file[r].calls)
  BY <1>3, <1>5, <1>6, <1>9, <1>10 DEF CallsCounted
<1>13. \A r \in Runs : file[r].calls <= MaxCallsPerRun /\ delivered[r] <= file[r].tokens
  BY <1>5, <1>6, Limits, ZeroWithin
<1> QED
  BY <1>2, <1>8, <1>11, <1>12, <1>13 DEF ProxyInv

\* A request is replaced by a later stage of it.
LEMMA JobStep ==
  ASSUME job \in [Handlers -> Job], NEW p \in Handlers, NEW o \in Job, job' = [job EXCEPT ![p] = o]
  PROVE  /\ job' \in [Handlers -> Job] /\ job'[p] = o
         /\ \A q \in Handlers : q # p => job'[q] = job[q]
  OBVIOUS

LEMMA MovedJob ==
  ASSUME NEW o \in Job, NEW pc \in {"reserve", "forward", "send"}
  PROVE  LET u == [o EXCEPT !.pc = pc]
         IN  /\ u \in Job /\ u.pc = pc /\ u.handle = o.handle /\ u.run = o.run /\ u.bound = o.bound
             /\ u.bound \in Nat /\ u.ep = o.ep /\ u.model = o.model
  BY DEF Job

LEMMA CountFault ==
  ASSUME TypeOK, Fault \/ faults' = faults
  PROVE  faults' \in 0..MaxFaults
  BY Limits DEF TypeOK, Fault

\* The steps that start or end no upstream call.
LEMMA QuietProxy ==
  ASSUME ProxyInv, TypeOK', up' = up,
         \A q \in Handlers : job'[q] = job[q]
                             \/ (job'[q].pc # "forward" /\ job'[q].pc # "send" /\ JobOK(job'[q])),
         \A h \in Handles : /\ caps[h].reserved.calls <= caps'[h].reserved.calls
                            /\ caps[h].reserved.tokens <= caps'[h].reserved.tokens,
         \A r \in Runs : file'[r].calls = file[r].calls /\ delivered'[r] <= file'[r].tokens
  PROVE  ProxyInv'
<1>1. \A p \in Handlers : JobOK(job'[p])
  BY DEF ProxyInv
<1>2. TypeOK
  BY DEF ProxyInv
<1>3. ASSUME NEW h \in Handles PROVE Backed(job', h, up'[h], caps'[h].reserved)
  <2>1. up[h] \in Amount /\ caps[h].reserved \in Amount
    BY <1>2, Types
  <2>2. caps'[h].reserved \in Amount
    BY DEF TypeOK, CapTypeOK, Capability, Amount
  <2>3. Backed(job, h, up[h], caps[h].reserved)
    BY DEF ProxyInv
  <2> QED
    BY <2>1, <2>2, <2>3, BackedStill
<1>4. ASSUME NEW r \in Runs PROVE CallsCounted(job', r, up'[r].calls, file'[r].calls)
  <2>1. up[r].calls \in Nat /\ file[r].calls \in Nat
    BY <1>2, Types DEF Amount
  <2>2. CallsCounted(job, r, up[r].calls, file[r].calls)
    BY DEF ProxyInv
  <2> QED
    BY <2>1, <2>2, CountedStill
<1>5. \A r \in Runs : file'[r].calls <= MaxCallsPerRun /\ delivered'[r] <= file'[r].tokens
  BY DEF ProxyInv
<1> QED
  BY <1>1, <1>3, <1>4, <1>5 DEF ProxyInv

LEMMA ReservedStays ==
  ASSUME TypeOK, caps' = caps
  PROVE  \A h \in Handles : /\ caps[h].reserved.calls <= caps'[h].reserved.calls
                            /\ caps[h].reserved.tokens <= caps'[h].reserved.tokens
<1>1. \A h \in Handles : caps[h].reserved.calls \in Nat /\ caps[h].reserved.tokens \in Nat
  BY Types DEF Amount
<1> QED
  BY <1>1

LEMMA FileStays ==
  ASSUME ProxyInv, file' = file, delivered' = delivered
  PROVE  \A r \in Runs : file'[r].calls = file[r].calls /\ delivered'[r] <= file'[r].tokens
  BY DEF ProxyInv

\* One request moves on without a call, and nothing else changes.
LEMMA QuietJob ==
  ASSUME ProxyInv, NEW p \in Handlers, NEW o \in Job, job' = [job EXCEPT ![p] = o],
         o.pc # "forward", o.pc # "send", JobOK(o), up' = up, file' = file, delivered' = delivered,
         caps' = caps, now' = now, enabled' = enabled, requests' \in 0..MaxRequests,
         faults' \in 0..MaxFaults
  PROVE  ProxyInv'
<1>1. TypeOK /\ job \in [Handlers -> Job]
  BY DEF ProxyInv, TypeOK
<1>2. job' \in [Handlers -> Job] /\ job'[p] = o /\ \A q \in Handlers : q # p => job'[q] = job[q]
  BY <1>1, JobStep
<1>3. TypeOK'
  BY <1>1, <1>2 DEF TypeOK, CapTypeOK
<1> QED
  BY <1>1, <1>2, <1>3, ReservedStays, FileStays, QuietProxy

LEMMA Known ==
  ASSUME ProxyInv
  PROVE  /\ TypeOK /\ job \in [Handlers -> Job] /\ requests \in 0..MaxRequests /\ faults \in 0..MaxFaults
         /\ \A p \in Handlers : job[p] \in Job /\ JobOK(job[p])
  BY DEF ProxyInv, TypeOK

LEMMA DenyInv ==
  ASSUME ProxyInv, NEW p \in Handlers, Deny(p), UNCHANGED <<caps, now, enabled, proxyVars, requests>>,
         Fault \/ faults' = faults
  PROVE  ProxyInv'
<1>1. job' = [job EXCEPT ![p] = Idle]
  BY DEF Deny
<1>2. faults' \in 0..MaxFaults /\ requests' \in 0..MaxRequests
  BY Known, CountFault
<1> QED
  BY <1>1, <1>2, IdleJob, QuietJob DEF proxyVars

LEMMA ArriveInv == ASSUME ProxyInv, NEW p \in Handlers, Arrive(p) PROVE ProxyInv'
<1>1. PICK ep \in {"model_call", "responses"}, r \in Runs \cup {""}, h \in Handles \cup {""} :
        /\ enabled \/ (h = "" /\ r # "")
        /\ job' = [job EXCEPT ![p] = [Idle EXCEPT !.pc = IF enabled THEN "auth" ELSE "count",
                                                  !.ep = ep, !.run = r, !.handle = h]]
  BY DEF Arrive
<1> DEFINE o == [Idle EXCEPT !.pc = IF enabled THEN "auth" ELSE "count",
                             !.ep = ep, !.run = r, !.handle = h]
<1>2. o \in Job /\ o.pc = (IF enabled THEN "auth" ELSE "count") /\ o.run = r
  BY DEF Idle, Job
<1>3. job' = [job EXCEPT ![p] = o]
  BY <1>1
<1> HIDE DEF o
<1>4. JobOK(o) /\ o.pc # "forward" /\ o.pc # "send"
  <2>1. CASE enabled
    BY <2>1, <1>2 DEF JobOK
  <2>2. CASE ~enabled
    BY <2>2, <1>1, <1>2 DEF JobOK
  <2> QED
    BY <2>1, <2>2
<1>5. requests' \in 0..MaxRequests /\ faults' \in 0..MaxFaults
  <2>1. requests \in 0..MaxRequests /\ requests < MaxRequests /\ requests' = requests + 1
    BY Known DEF Arrive
  <2>2. faults' \in 0..MaxFaults
    BY Known DEF Arrive
  <2> QED
    BY <2>1, <2>2, Limits, OneMore
<1>6. up' = up /\ file' = file /\ delivered' = delivered /\ caps' = caps /\ now' = now /\ enabled' = enabled
  BY DEF Arrive, proxyVars
<1> QED
  BY <1>2, <1>3, <1>4, <1>5, <1>6, QuietJob

LEMMA AuthInv == ASSUME ProxyInv, NEW p \in Handlers, AuthenticateCapability(p) PROVE ProxyInv'
<1>1. UNCHANGED <<caps, now, enabled, proxyVars, requests>>
  BY DEF AuthenticateCapability
<1>2. CASE Deny(p) /\ (Fault \/ faults' = faults)
  BY <1>1, <1>2, DenyInv
<1>3. CASE /\ Identified(p) /\ faults' = faults
           /\ job' = [job EXCEPT ![p].pc = "preflight", ![p].models = caps[job[p].handle].models]
  <2> DEFINE h == job[p].handle
             ms == caps[h].models
             o == [job[p] EXCEPT !.pc = "preflight", !.models = ms]
  <2>1. job[p] \in Job /\ TypeOK /\ job \in [Handlers -> Job]
    BY Known
  <2>2. h \in Handles
    BY <1>3, <2>1 DEF Identified, Job
  <2>3. ms \in SUBSET Models
    <3>1. caps[h] \in Capability
      BY <2>1, <2>2, Types
    <3> QED
      BY <3>1 DEF Capability
  <2>4. job' = [job EXCEPT ![p] = o]
    BY <1>3, <2>1
  <2> HIDE DEF ms
  <2>5. o \in Job /\ o.pc = "preflight" /\ o.handle = h
    BY <2>1, <2>3 DEF Job
  <2> HIDE DEF o, h
  <2>6. JobOK(o)
    BY <2>2, <2>5 DEF JobOK
  <2>7. faults' \in 0..MaxFaults /\ requests' \in 0..MaxRequests
    BY <1>1, <1>3, Known
  <2> QED
    BY <1>1, <2>4, <2>5, <2>6, <2>7, QuietJob DEF proxyVars
<1> QED
  BY <1>2, <1>3 DEF AuthenticateCapability

LEMMA PreflightInv == ASSUME ProxyInv, NEW p \in Handlers, Preflight(p) PROVE ProxyInv'
<1>1. UNCHANGED <<caps, now, enabled, proxyVars, requests>> /\ faults' = faults /\ job[p].pc = "preflight"
  BY DEF Preflight
<1>2. CASE job' = [job EXCEPT ![p] = Idle]
  BY <1>1, <1>2, DenyInv DEF Deny
<1>3. CASE \E m \in Models \cup {NoModel}, b \in Sizes, o \in Outs :
             /\ ~BoundFails(b, EffectiveOut(p, o))
             /\ job' = [job EXCEPT ![p] = [@ EXCEPT !.pc = "verify", !.model = m,
                                           !.bound = b + EffectiveOut(p, o), !.run = "", !.models = {}]]
  <2>1. PICK m \in Models \cup {NoModel}, b \in Sizes, o \in Outs :
             /\ ~BoundFails(b, EffectiveOut(p, o))
             /\ job' = [job EXCEPT ![p] = [@ EXCEPT !.pc = "verify", !.model = m,
                                           !.bound = b + EffectiveOut(p, o), !.run = "", !.models = {}]]
    BY <1>3
  <2> DEFINE n == b + EffectiveOut(p, o)
             new == [job[p] EXCEPT !.pc = "verify", !.model = m, !.bound = n, !.run = "", !.models = {}]
  <2>2. b \in Nat /\ EffectiveOut(p, o) \in Nat
    BY ProxyAssumption DEF EffectiveOut
  <2>3. n \in Nat /\ n > 0
    BY <2>1, <2>2 DEF BoundFails
  <2>4. job[p] \in Job /\ JobOK(job[p]) /\ job \in [Handlers -> Job]
    BY Known
  <2>5. job' = [job EXCEPT ![p] = new]
    BY <2>1, <2>4
  <2> HIDE DEF n
  <2>6. new \in Job /\ new.pc = "verify" /\ new.handle = job[p].handle /\ new.bound = n
    BY <2>3, <2>4 DEF Job
  <2> HIDE DEF new
  <2>7. JobOK(new)
    BY <1>1, <2>3, <2>4, <2>6 DEF JobOK
  <2>8. faults' \in 0..MaxFaults /\ requests' \in 0..MaxRequests
    BY <1>1, Known
  <2> QED
    BY <1>1, <2>5, <2>6, <2>7, <2>8, QuietJob DEF proxyVars
<1>4. PICK m \in Models \cup {NoModel}, b \in Sizes, o \in Outs :
        job' = [job EXCEPT ![p] =
                  IF /\ job[p].ep = "responses" => m \in CodexModels
                     /\ ~BoundFails(b, EffectiveOut(p, o))
                     /\ m \in job[p].models
                    THEN [@ EXCEPT !.pc = "verify", !.model = m, !.bound = b + EffectiveOut(p, o),
                                   !.run = "", !.models = {}]
                    ELSE Idle]
  BY DEF Preflight
<1>5. CASE /\ job[p].ep = "responses" => m \in CodexModels
           /\ ~BoundFails(b, EffectiveOut(p, o))
           /\ m \in job[p].models
  BY <1>3, <1>4, <1>5
<1> QED
  BY <1>2, <1>4, <1>5

LEMMA VerifyInv == ASSUME ProxyInv, NEW p \in Handlers, ReserveVerify(p) PROVE ProxyInv'
<1>1. UNCHANGED <<caps, now, enabled, proxyVars, requests>> /\ faults' = faults /\ job[p].pc = "verify"
  BY DEF ReserveVerify
<1>2. CASE Deny(p)
  BY <1>1, <1>2, DenyInv
<1>3. CASE Goto(p, "reserve")
  <2> DEFINE o == [job[p] EXCEPT !.pc = "reserve"]
  <2>1. job[p] \in Job /\ JobOK(job[p]) /\ job \in [Handlers -> Job]
    BY Known
  <2>2. job' = [job EXCEPT ![p] = o]
    BY <1>3, <2>1 DEF Goto
  <2>3. o \in Job /\ o.pc = "reserve" /\ o.handle = job[p].handle /\ o.bound = job[p].bound
    BY <2>1, MovedJob
  <2> HIDE DEF o
  <2>4. JobOK(o)
    BY <1>1, <2>1, <2>3 DEF JobOK
  <2>5. faults' \in 0..MaxFaults /\ requests' \in 0..MaxRequests
    BY <1>1, Known
  <2> QED
    BY <1>1, <2>2, <2>3, <2>4, <2>5, QuietJob DEF proxyVars
<1> QED
  BY <1>2, <1>3 DEF ReserveVerify

LEMMA AddToAmount ==
  ASSUME NEW a \in Amount, NEW n \in Nat
  PROVE  [[a EXCEPT !.calls = @ + 1] EXCEPT !.tokens = @ + n] = [calls |-> a.calls + 1, tokens |-> a.tokens + n]
<1> DEFINE b == [a EXCEPT !.calls = @ + 1]
<1>1. a = [calls |-> a.calls, tokens |-> a.tokens]
  BY DEF Amount
<1>2. b = [calls |-> a.calls + 1, tokens |-> a.tokens]
  BY <1>1
<1> HIDE DEF b
<1>3. [b EXCEPT !.tokens = @ + n] = [calls |-> a.calls + 1, tokens |-> a.tokens + n]
  BY <1>2
<1> QED
  BY <1>3 DEF b

\* What a reservation of n tokens does to the table.
LEMMA ReserveEffect ==
  ASSUME caps \in [Handles -> Capability], NEW h \in Handles, NEW q, NEW n \in Nat, q.calls = 1, q.tokens = n,
         Reserve(h, q)
  PROVE  /\ caps' \in [Handles -> Capability]
         /\ caps'[h].reserved = [calls |-> caps[h].reserved.calls + 1, tokens |-> caps[h].reserved.tokens + n]
         /\ caps'[h].state = caps[h].state /\ caps'[h].expiry = caps[h].expiry
         /\ caps'[h].calls = caps[h].calls /\ caps'[h].tokens = caps[h].tokens
         /\ \A g \in Handles : g # h => caps'[g] = caps[g]
<1> DEFINE c == caps[h]
           kept == [calls |-> c.reserved.calls + 1, tokens |-> c.reserved.tokens + n]
           new == [c EXCEPT !.reserved = kept]
<1>1. c \in Capability /\ c.reserved \in Amount
  BY DEF Capability, Amount
<1>2. kept \in Amount
  BY <1>1 DEF Amount
<1>3. [[c.reserved EXCEPT !.calls = @ + 1] EXCEPT !.tokens = @ + n] = kept
  BY <1>1, AddToAmount
<1>4. caps' = [[caps EXCEPT ![h].reserved.calls = @ + 1] EXCEPT ![h].reserved.tokens = @ + n]
  BY DEF Reserve
<1>5. caps' = [caps EXCEPT ![h] = [c EXCEPT !.reserved = [[c.reserved EXCEPT !.calls = @ + 1] EXCEPT !.tokens = @ + n]]]
  BY <1>1, <1>4 DEF Capability
<1>6. caps' = [caps EXCEPT ![h] = new]
  BY <1>3, <1>5
<1> HIDE DEF kept
<1>7. new \in Capability /\ new.reserved = kept /\ new.state = c.state /\ new.expiry = c.expiry
      /\ new.calls = c.calls /\ new.tokens = c.tokens
  BY <1>1, <1>2 DEF Capability, Amount
<1> HIDE DEF new
<1>8. caps'[h] = new /\ caps' \in [Handles -> Capability] /\ \A g \in Handles : g # h => caps'[g] = caps[g]
  BY <1>6, <1>7
<1> QED
  BY <1>7, <1>8 DEF kept

LEMMA NotLess == ASSUME NEW a \in Nat, NEW b \in Nat PROVE a <= a /\ a <= a + b
  OBVIOUS

LEMMA ReserveBudgetInv == ASSUME ProxyInv, NEW p \in Handlers, ReserveBudget(p) PROVE ProxyInv'
<1> DEFINE h == job[p].handle
           n == job[p].bound
<1>1. /\ UNCHANGED <<enabled, proxyVars, requests>> /\ job[p].pc = "reserve"
      /\ up' = up /\ file' = file /\ delivered' = delivered
  BY DEF ReserveBudget, proxyVars
<1>2. CASE Deny(p) /\ UNCHANGED <<caps, now, faults>>
  BY <1>1, <1>2, DenyInv
<1>3. job[p] \in Job /\ JobOK(job[p]) /\ job \in [Handlers -> Job] /\ TypeOK
  BY Known
<1>4. h \in Handles /\ n \in Nat /\ n > 0
  BY <1>1, <1>3 DEF JobOK, Job
<1>5. ASSUME Reserve(h, Query(p)), Fault \/ faults' = faults, Deny(p) \/ Goto(p, "forward")
      PROVE  ProxyInv'
  <2> HIDE DEF h, n
  <2>1. Query(p).calls = 1 /\ Query(p).tokens = n
    BY DEF Query, n
  <2>2. /\ caps' \in [Handles -> Capability]
        /\ caps'[h].reserved = [calls |-> caps[h].reserved.calls + 1, tokens |-> caps[h].reserved.tokens + n]
        /\ \A g \in Handles : g # h => caps'[g] = caps[g]
    BY <1>3, <1>4, <1>5, <2>1, Types, ReserveEffect
  <2>3. now' = now /\ faults' \in 0..MaxFaults
    BY <1>3, <1>5, CountFault DEF Reserve
  <2>4. \A g \in Handles : caps[g].reserved.calls \in Nat /\ caps[g].reserved.tokens \in Nat
    BY <1>3, Types DEF Amount
  <2>5. \A g \in Handles : /\ caps[g].reserved.calls <= caps'[g].reserved.calls
                           /\ caps[g].reserved.tokens <= caps'[g].reserved.tokens
    <3> TAKE g \in Handles
    <3>1. CASE g = h
      BY <3>1, <1>4, <2>2, <2>4, NotLess
    <3>2. CASE g # h
      BY <3>2, <2>2, <2>4, NotLess
    <3> QED
      BY <3>1, <3>2
  <2>6. CASE Deny(p)
    <3>1. job' = [job EXCEPT ![p] = Idle]
      BY <2>6 DEF Deny
    <3>2. job' \in [Handlers -> Job] /\ job'[p] = Idle /\ \A q \in Handlers : q # p => job'[q] = job[q]
      BY <1>3, <3>1, IdleJob, JobStep
    <3>3. TypeOK'
      BY <1>1, <1>3, <2>2, <2>3, <3>2 DEF TypeOK, CapTypeOK
    <3> QED
      BY <1>1, <2>5, <3>2, <3>3, IdleJob, FileStays, QuietProxy
  <2>7. CASE Goto(p, "forward")
    <3> DEFINE o == [job[p] EXCEPT !.pc = "forward"]
    <3>1. job' = [job EXCEPT ![p] = o]
      BY <1>3, <2>7 DEF Goto
    <3>2. o \in Job /\ o.pc = "forward" /\ o.handle = h /\ o.bound = n
      BY <1>3, MovedJob DEF h, n
    <3> HIDE DEF o
    <3>3. job' \in [Handlers -> Job] /\ job'[p] = o /\ \A q \in Handlers : q # p => job'[q] = job[q]
      BY <1>3, <3>1, <3>2, JobStep
    <3>4. TypeOK'
      BY <1>1, <1>3, <2>2, <2>3, <3>3 DEF TypeOK, CapTypeOK
    <3>5. \A q \in Handlers : JobOK(job'[q])
      <4>1. JobOK(o)
        BY <1>4, <3>2 DEF JobOK
      <4> QED
        BY <3>3, <4>1, Known
    <3>6. ASSUME NEW g \in Handles PROVE Backed(job', g, up'[g], caps'[g].reserved)
      <4>1. Backed(job, g, up[g], caps[g].reserved) /\ up[g] \in Amount /\ caps[g].reserved \in Amount
        BY <1>3, Types DEF ProxyInv
      <4>2. CASE g = h
        <5>1. Backed(job', h, up[h], [calls |-> caps[h].reserved.calls + 1,
                                      tokens |-> caps[h].reserved.tokens + job'[p].bound])
          BY <1>1, <1>4, <3>2, <3>3, <4>1, <4>2, BackedMore
        <5>2. job'[p].bound = n
          BY <3>2, <3>3
        <5> QED
          BY <1>1, <2>2, <4>2, <5>1, <5>2
      <4>3. CASE g # h
        <5>1. \A q \in Handlers : job'[q] = job[q] \/ job'[q].handle # g
          BY <3>2, <3>3, <4>3
        <5>2. caps[g].reserved.calls <= caps[g].reserved.calls /\ caps[g].reserved.tokens <= caps[g].reserved.tokens
          BY <2>4, NotLess
        <5>3. Backed(job', g, up[g], caps[g].reserved)
          BY <4>1, <5>1, <5>2, BackedStill
        <5> QED
          BY <1>1, <2>2, <4>3, <5>3
      <4> QED
        BY <4>2, <4>3
    <3>7. ASSUME NEW r \in Runs PROVE CallsCounted(job', r, up'[r].calls, file'[r].calls)
      <4>1. CallsCounted(job, r, up[r].calls, file[r].calls) /\ up[r].calls \in Nat /\ file[r].calls \in Nat
        BY <1>3, Types DEF ProxyInv, Amount
      <4>2. \A q \in Handlers : job'[q] = job[q] \/ job'[q].pc # "send"
        BY <3>2, <3>3
      <4> QED
        BY <1>1, <4>1, <4>2, CountedStill
    <3>8. \A r \in Runs : file'[r].calls <= MaxCallsPerRun /\ delivered'[r] <= file'[r].tokens
      BY <1>1 DEF ProxyInv
    <3> QED
      BY <3>4, <3>5, <3>6, <3>7, <3>8 DEF ProxyInv
  <2> QED
    BY <1>5, <2>6, <2>7
<1> QED
  BY <1>2, <1>5 DEF ReserveBudget

\* One entry of the upstream work grows.
LEMMA UpEffect ==
  ASSUME TypeOK, NEW x \in Handles \cup Runs, NEW u \in Nat, up' = [up EXCEPT ![x] = Plus(@, 1, u)]
  PROVE  /\ up' \in [Handles \cup Runs -> [calls: Nat, tokens: Nat]]
         /\ up'[x] = [calls |-> up[x].calls + 1, tokens |-> up[x].tokens + u]
         /\ \A y \in Handles \cup Runs : y # x => up'[y] = up[y]
<1>1. up \in [Handles \cup Runs -> [calls: Nat, tokens: Nat]] /\ up[x] \in [calls: Nat, tokens: Nat]
  BY DEF TypeOK
<1> DEFINE new == [calls |-> up[x].calls + 1, tokens |-> up[x].tokens + u]
<1>2. new \in [calls: Nat, tokens: Nat]
  BY <1>1
<1>3. up' = [up EXCEPT ![x] = new]
  BY DEF Plus
<1> HIDE DEF new
<1>4. /\ up' \in [Handles \cup Runs -> [calls: Nat, tokens: Nat]] /\ up'[x] = new
      /\ \A y \in Handles \cup Runs : y # x => up'[y] = up[y]
  BY <1>1, <1>2, <1>3
<1> QED
  BY <1>4 DEF new

LEMMA Namespaces == \A h \in Handles, r \in Runs : h # r
  BY ProxyAssumption, Zenon

LEMMA SpendInv == ASSUME ProxyInv, NEW p \in Handlers, NEW ep, SpendReserved(p, ep) PROVE ProxyInv'
<1> DEFINE h == job[p].handle
<1>1. /\ job[p].pc = "forward" /\ job' = [job EXCEPT ![p] = Idle]
      /\ caps' = caps /\ now' = now /\ enabled' = enabled /\ file' = file /\ delivered' = delivered
      /\ requests' = requests /\ faults' = faults
  BY DEF SpendReserved, Deny
<1>2. job[p] \in Job /\ JobOK(job[p]) /\ job \in [Handlers -> Job] /\ TypeOK
  BY Known
<1>3. h \in Handles /\ job[p].bound \in Nat
  BY <1>1, <1>2 DEF JobOK, Job
<1>4. PICK u \in 0..job[p].bound : up' = [up EXCEPT ![h] = Plus(@, 1, u)]
  BY DEF SpendReserved
<1>5. u \in Nat /\ u <= job[p].bound
  BY <1>3
<1> HIDE DEF h
<1>6. /\ up' \in [Handles \cup Runs -> [calls: Nat, tokens: Nat]]
      /\ up'[h] = [calls |-> up[h].calls + 1, tokens |-> up[h].tokens + u]
      /\ \A y \in Handles \cup Runs : y # h => up'[y] = up[y]
  BY <1>2, <1>3, <1>4, <1>5, UpEffect
<1>7. job' \in [Handlers -> Job] /\ job'[p] = Idle /\ \A q \in Handlers : q # p => job'[q] = job[q]
  BY <1>1, <1>2, IdleJob, JobStep
<1>8. TypeOK'
  BY <1>1, <1>2, <1>6, <1>7 DEF TypeOK, CapTypeOK
<1>9. \A q \in Handlers : JobOK(job'[q])
  BY <1>7, IdleJob, Known
<1>10. ASSUME NEW g \in Handles PROVE Backed(job', g, up'[g], caps'[g].reserved)
  <2>1. Backed(job, g, up[g], caps[g].reserved) /\ up[g] \in Amount /\ caps[g].reserved \in Amount
    BY <1>2, Types DEF ProxyInv
  <2>2. CASE g = h
    <3>1. job[p].handle = h /\ job'[p].pc # "forward"
      BY <1>7, IdleJob DEF h
    <3>2. Backed(job', h, [calls |-> up[h].calls + 1, tokens |-> up[h].tokens + u], caps[h].reserved)
      BY <1>1, <1>5, <1>7, <2>1, <2>2, <3>1, BackedLess
    <3> QED
      BY <1>1, <1>6, <2>2, <3>2
  <2>3. CASE g # h
    <3>1. caps[g].reserved.calls <= caps[g].reserved.calls /\ caps[g].reserved.tokens <= caps[g].reserved.tokens
      BY <2>1, NotLess DEF Amount
    <3>2. \A q \in Handlers : job'[q] = job[q] \/ job'[q].pc # "forward"
      BY <1>7, IdleJob
    <3>3. Backed(job', g, up[g], caps[g].reserved)
      BY <2>1, <3>1, <3>2, BackedStill
    <3> QED
      BY <1>1, <1>6, <2>3, <3>3
  <2> QED
    BY <2>2, <2>3
<1>11. ASSUME NEW r \in Runs PROVE CallsCounted(job', r, up'[r].calls, file'[r].calls)
  <2>1. CallsCounted(job, r, up[r].calls, file[r].calls) /\ up[r].calls \in Nat /\ file[r].calls \in Nat
    BY <1>2, Types DEF ProxyInv, Amount
  <2>2. up'[r] = up[r]
    BY <1>3, <1>6, Namespaces
  <2>3. \A q \in Handlers : job'[q] = job[q] \/ job'[q].pc # "send"
    BY <1>7, IdleJob
  <2> QED
    BY <1>1, <2>1, <2>2, <2>3, CountedStill
<1>12. \A r \in Runs : file'[r].calls <= MaxCallsPerRun /\ delivered'[r] <= file'[r].tokens
  BY <1>1 DEF ProxyInv
<1> QED
  BY <1>8, <1>9, <1>10, <1>11, <1>12 DEF ProxyInv

\* Nothing is done against a handle by a request without one.
LEMMA HandlesStill ==
  ASSUME ProxyInv, caps' = caps, \A h \in Handles : up'[h] = up[h],
         \A q \in Handlers : job'[q] = job[q] \/ job'[q].pc # "forward"
  PROVE  \A h \in Handles : Backed(job', h, up'[h], caps'[h].reserved)
<1> SUFFICES ASSUME NEW h \in Handles PROVE Backed(job', h, up'[h], caps'[h].reserved)
  OBVIOUS
<1>1. Backed(job, h, up[h], caps[h].reserved) /\ up[h] \in Amount /\ caps[h].reserved \in Amount
  BY Known, Types DEF ProxyInv
<1>2. caps[h].reserved.calls <= caps[h].reserved.calls /\ caps[h].reserved.tokens <= caps[h].reserved.tokens
  BY <1>1, NotLess DEF Amount
<1>3. Backed(job', h, up[h], caps[h].reserved)
  BY <1>1, <1>2, BackedStill
<1> QED
  BY <1>3

LEMMA CountAnother == ASSUME NEW a \in Nat, NEW b \in Nat, ~(a >= b) PROVE a + 1 \in Nat /\ a + 1 <= b
  OBVIOUS

FileRow == [calls: Nat, tokens: 0..MaxTokensPerRun]

LEMMA ReserveCallInv == ASSUME ProxyInv, NEW p \in Handlers, ReserveCall(p) PROVE ProxyInv'
<1> DEFINE r == job[p].run
<1>1. /\ job[p].pc = "count" /\ caps' = caps /\ now' = now /\ enabled' = enabled /\ up' = up
      /\ delivered' = delivered /\ requests' = requests
  BY DEF ReserveCall
<1>2. CASE Deny(p) /\ file' = file /\ (Fault \/ faults' = faults)
  BY <1>1, <1>2, DenyInv DEF proxyVars
<1>3. CASE ~CallsSpent(r) /\ file' = [file EXCEPT ![r].calls = @ + 1] /\ Goto(p, "send") /\ faults' = faults
  <2> DEFINE o == [job[p] EXCEPT !.pc = "send"]
             row == [file[r] EXCEPT !.calls = @ + 1]
  <2>1. job[p] \in Job /\ JobOK(job[p]) /\ job \in [Handlers -> Job] /\ TypeOK
    BY Known
  <2>2. job' = [job EXCEPT ![p] = o]
    BY <1>3, <2>1 DEF Goto
  <2>3. o \in Job /\ o.pc = "send" /\ o.run = r
    BY <2>1, MovedJob
  <2>4. r \in Runs
    BY <1>1, <2>1 DEF JobOK
  <2> HIDE DEF o, r
  <2>5. job' \in [Handlers -> Job] /\ job'[p] = o /\ \A q \in Handlers : q # p => job'[q] = job[q]
    BY <2>1, <2>2, <2>3, JobStep
  <2>6. file \in [Runs -> FileRow] /\ file[r] \in FileRow /\ file[r].calls \in Nat
    BY <2>1, <2>4 DEF TypeOK, FileRow
  <2>7. file[r].calls + 1 \in Nat /\ file[r].calls + 1 <= MaxCallsPerRun
    BY <1>3, <2>6, Limits, CountAnother DEF CallsSpent
  <2>8. row \in FileRow /\ row.calls = file[r].calls + 1 /\ row.tokens = file[r].tokens
    BY <2>6, <2>7 DEF FileRow
  <2>9. file' = [file EXCEPT ![r] = row]
    BY <1>3, <2>6
  <2> HIDE DEF row
  <2>10. file' \in [Runs -> FileRow] /\ file'[r] = row /\ \A s \in Runs : s # r => file'[s] = file[s]
    BY <2>4, <2>6, <2>8, <2>9
  <2>11. TypeOK'
    BY <1>1, <1>3, <2>1, <2>5, <2>10 DEF TypeOK, CapTypeOK, FileRow
  <2>12. \A q \in Handlers : JobOK(job'[q])
    <3>1. JobOK(o)
      BY <2>3, <2>4 DEF JobOK
    <3> QED
      BY <2>5, <3>1, Known
  <2>13. \A g \in Handles : Backed(job', g, up'[g], caps'[g].reserved)
    <3>1. \A q \in Handlers : job'[q] = job[q] \/ job'[q].pc # "forward"
      BY <2>3, <2>5
    <3> QED
      BY <1>1, <3>1, HandlesStill
  <2>14. ASSUME NEW s \in Runs PROVE CallsCounted(job', s, up'[s].calls, file'[s].calls)
    <3>1. CallsCounted(job, s, up[s].calls, file[s].calls) /\ up[s].calls \in Nat /\ file[s].calls \in Nat
      BY <2>1, Types DEF ProxyInv, Amount
    <3>2. CASE s = r
      <4>1. job[p].pc # "send" /\ job'[p].pc = "send" /\ job'[p].run = s
        BY <1>1, <2>3, <2>5, <3>2
      <4>2. CallsCounted(job', s, up[s].calls, file[s].calls + 1)
        BY <2>5, <3>1, <4>1, CountedMore
      <4> QED
        BY <1>1, <2>8, <2>10, <3>2, <4>2
    <3>3. CASE s # r
      <4>1. \A q \in Handlers : job'[q] = job[q] \/ job'[q].run # s
        BY <2>3, <2>5, <3>3
      <4>2. CallsCounted(job', s, up[s].calls, file[s].calls)
        BY <3>1, <4>1, CountedStill
      <4> QED
        BY <1>1, <2>10, <3>3, <4>2
    <3> QED
      BY <3>2, <3>3
  <2>15. \A s \in Runs : file'[s].calls <= MaxCallsPerRun /\ delivered'[s] <= file'[s].tokens
    <3> TAKE s \in Runs
    <3>1. file[s].calls <= MaxCallsPerRun /\ delivered[s] <= file[s].tokens
      BY DEF ProxyInv
    <3>2. CASE s = r
      BY <1>1, <2>7, <2>8, <2>10, <3>1, <3>2
    <3>3. CASE s # r
      BY <1>1, <2>10, <3>1, <3>3
    <3> QED
      BY <3>2, <3>3
  <2> QED
    BY <2>11, <2>12, <2>13, <2>14, <2>15 DEF ProxyInv
<1> QED
  BY <1>2, <1>3 DEF ReserveCall, WriteBudget

LEMMA AnsweredInv ==
  ASSUME ProxyInv, NEW p \in Handlers, NEW pc \in {"charge", "charge_stream"}, Answered(p, pc)
  PROVE  ProxyInv'
<1> DEFINE r == job[p].run
<1>1. /\ job[p].pc = "send" /\ caps' = caps /\ now' = now /\ enabled' = enabled /\ file' = file
      /\ delivered' = delivered /\ requests' = requests
  BY DEF Answered
<1>2. PICK u \in 0..MaxUsage :
        /\ up' = [up EXCEPT ![r] = Plus(@, 1, u)]
        /\ \/ Deny(p) /\ Fault
           \/ job' = [job EXCEPT ![p].pc = pc, ![p].bound = u] /\ faults' = faults
  BY DEF Answered
<1>3. job[p] \in Job /\ JobOK(job[p]) /\ job \in [Handlers -> Job] /\ TypeOK
  BY Known
<1>4. r \in Runs /\ u \in Nat
  BY <1>1, <1>3, Limits DEF JobOK
<1>5. PICK o \in Job : job' = [job EXCEPT ![p] = o] /\ JobOK(o) /\ o.pc # "forward" /\ o.pc # "send"
  <2>1. CASE Deny(p)
    BY <2>1, IdleJob DEF Deny
  <2>2. CASE job' = [job EXCEPT ![p].pc = pc, ![p].bound = u]
    <3> DEFINE o == [job[p] EXCEPT !.pc = pc, !.bound = u]
    <3>1. o \in Job /\ o.pc = pc /\ o.run = r
      BY <1>3, <1>4 DEF Job
    <3>2. job' = [job EXCEPT ![p] = o]
      BY <2>2, <1>3
    <3> HIDE DEF o
    <3>3. JobOK(o)
      BY <1>4, <3>1 DEF JobOK
    <3> QED
      BY <3>1, <3>2, <3>3
  <2> QED
    BY <1>2, <2>1, <2>2
<1>6. job' \in [Handlers -> Job] /\ job'[p] = o /\ \A q \in Handlers : q # p => job'[q] = job[q]
  BY <1>3, <1>5, JobStep
<1> HIDE DEF r
<1>7. /\ up' \in [Handles \cup Runs -> [calls: Nat, tokens: Nat]]
      /\ up'[r] = [calls |-> up[r].calls + 1, tokens |-> up[r].tokens + u]
      /\ \A y \in Handles \cup Runs : y # r => up'[y] = up[y]
  BY <1>2, <1>3, <1>4, UpEffect
<1>8. faults' \in 0..MaxFaults
  BY <1>2, <1>3, CountFault
<1>9. TypeOK'
  BY <1>1, <1>3, <1>6, <1>7, <1>8 DEF TypeOK, CapTypeOK
<1>10. \A q \in Handlers : JobOK(job'[q])
  BY <1>5, <1>6, Known
<1>11. \A g \in Handles : Backed(job', g, up'[g], caps'[g].reserved)
  <2>1. \A q \in Handlers : job'[q] = job[q] \/ job'[q].pc # "forward"
    BY <1>5, <1>6
  <2>2. \A g \in Handles : up'[g] = up[g]
    BY <1>4, <1>7, Namespaces
  <2> QED
    BY <1>1, <2>1, <2>2, HandlesStill
<1>12. ASSUME NEW s \in Runs PROVE CallsCounted(job', s, up'[s].calls, file'[s].calls)
  <2>1. CallsCounted(job, s, up[s].calls, file[s].calls) /\ up[s].calls \in Nat /\ file[s].calls \in Nat
    BY <1>3, Types DEF ProxyInv, Amount
  <2>2. CASE s = r
    <3>1. job[p].run = s /\ job'[p].pc # "send"
      BY <1>5, <1>6, <2>2 DEF r
    <3>2. CallsCounted(job', s, up[s].calls + 1, file[s].calls)
      BY <1>1, <1>6, <2>1, <3>1, CountedLess
    <3> QED
      BY <1>1, <1>7, <2>2, <3>2
  <2>3. CASE s # r
    <3>1. \A q \in Handlers : job'[q] = job[q] \/ job'[q].pc # "send"
      BY <1>5, <1>6
    <3>2. CallsCounted(job', s, up[s].calls, file[s].calls)
      BY <2>1, <3>1, CountedStill
    <3> QED
      BY <1>1, <1>7, <2>3, <3>2
  <2> QED
    BY <2>2, <2>3
<1>13. \A s \in Runs : file'[s].calls <= MaxCallsPerRun /\ delivered'[s] <= file'[s].tokens
  BY <1>1 DEF ProxyInv
<1> QED
  BY <1>9, <1>10, <1>11, <1>12, <1>13 DEF ProxyInv

LEMMA ChargeMore ==
  ASSUME NEW f \in Nat, NEW d \in Nat, NEW u \in Nat, d <= f, f + u <= MaxTokensPerRun
  PROVE  f + u \in 0..MaxTokensPerRun /\ d + u \in Nat /\ d + u <= f + u /\ d <= f + u
  BY Limits

LEMMA ReserveTokensInv == ASSUME ProxyInv, NEW p \in Handlers, ReserveTokens(p) PROVE ProxyInv'
<1> DEFINE r == job[p].run
           u == job[p].bound
<1>1. /\ job[p].pc \in {"charge", "charge_stream"} /\ Deny(p) /\ caps' = caps /\ now' = now
      /\ enabled' = enabled /\ up' = up /\ requests' = requests
  BY DEF ReserveTokens
<1>2. CASE file' = file /\ delivered' = delivered /\ (Fault \/ faults' = faults)
  BY <1>1, <1>2, DenyInv DEF proxyVars
<1>3. CASE /\ ~TokensExceeded(r, u) /\ faults' = faults /\ file' = [file EXCEPT ![r].tokens = @ + u]
           /\ delivered' = [delivered EXCEPT ![r] = IF job[p].pc = "charge" THEN @ + u ELSE @]
  <2> DEFINE row == [file[r] EXCEPT !.tokens = @ + u]
             given == IF job[p].pc = "charge" THEN delivered[r] + u ELSE delivered[r]
  <2>1. job[p] \in Job /\ JobOK(job[p]) /\ job \in [Handlers -> Job] /\ TypeOK
    BY Known
  <2>2. r \in Runs /\ u \in Nat
    BY <1>1, <2>1 DEF JobOK, Job
  <2>3. job' \in [Handlers -> Job] /\ job'[p] = Idle /\ \A q \in Handlers : q # p => job'[q] = job[q]
    BY <1>1, <2>1, IdleJob, JobStep DEF Deny
  <2> HIDE DEF r, u
  <2>4. file \in [Runs -> FileRow] /\ file[r] \in FileRow /\ delivered \in [Runs -> Nat]
    BY <2>1, <2>2 DEF TypeOK, FileRow
  <2>5. file[r].tokens \in Nat /\ delivered[r] \in Nat /\ delivered[r] <= file[r].tokens
    BY <2>1, <2>2, Types DEF ProxyInv
  <2>6. file[r].tokens + u <= MaxTokensPerRun
    BY <1>3, <2>2, <2>5, Limits DEF TokensExceeded
  <2>7. file[r].tokens + u \in 0..MaxTokensPerRun /\ given \in Nat /\ given <= file[r].tokens + u
    BY <2>2, <2>5, <2>6, ChargeMore
  <2>8. row \in FileRow /\ row.calls = file[r].calls /\ row.tokens = file[r].tokens + u
    BY <2>4, <2>7 DEF FileRow
  <2>9. file' = [file EXCEPT ![r] = row] /\ delivered' = [delivered EXCEPT ![r] = given]
    BY <1>3, <2>4
  <2> HIDE DEF row, given
  <2>10. /\ file' \in [Runs -> FileRow] /\ file'[r] = row /\ \A s \in Runs : s # r => file'[s] = file[s]
         /\ delivered' \in [Runs -> Nat] /\ delivered'[r] = given
         /\ \A s \in Runs : s # r => delivered'[s] = delivered[s]
    BY <2>2, <2>4, <2>7, <2>8, <2>9
  <2>11. TypeOK'
    BY <1>1, <1>3, <2>1, <2>3, <2>10 DEF TypeOK, CapTypeOK, FileRow
  <2>12. \A s \in Runs : file'[s].calls = file[s].calls /\ delivered'[s] <= file'[s].tokens
    <3> TAKE s \in Runs
    <3>1. delivered[s] <= file[s].tokens
      BY DEF ProxyInv
    <3>2. CASE s = r
      BY <2>7, <2>8, <2>10, <3>2
    <3>3. CASE s # r
      BY <2>10, <3>1, <3>3
    <3> QED
      BY <3>2, <3>3
  <2> QED
    BY <1>1, <2>1, <2>3, <2>11, <2>12, IdleJob, ReservedStays, QuietProxy
<1> QED
  BY <1>2, <1>3 DEF ReserveTokens, WriteBudget

LEMMA RestartInv == ASSUME ProxyInv, Restart PROVE ProxyInv'
<1>1. /\ job' = [p \in Handlers |-> Idle] /\ Fault
      /\ UNCHANGED <<caps, now, enabled, proxyVars, requests>>
  BY DEF Restart
<1>2. job' \in [Handlers -> Job] /\ \A q \in Handlers : job'[q] = Idle
  BY <1>1, IdleJob
<1>3. TypeOK'
  BY <1>1, <1>2, Known, CountFault DEF TypeOK, CapTypeOK, proxyVars
<1> QED
  BY <1>1, <1>2, <1>3, Known, IdleJob, ReservedStays, FileStays, QuietProxy DEF proxyVars

LEMMA IssuedClaims ==
  ASSUME NEW pol \in Policies, NEW r \in Runs, NEW d \in 1..MaxTime
  PROVE  LET c == DeriveCapabilityClaims(pol, r, d)
         IN  /\ c \in Capability /\ c.reserved = Zero /\ c.state = "active" /\ c.expiry = d
             /\ c.calls = pol.calls /\ c.tokens = pol.tokens
<1>1. pol \in [models: SUBSET Models, calls: Nat, tokens: Nat]
  BY ProxyAssumption, Zenon
<1>2. pol.models \in SUBSET Models /\ pol.calls \in Nat /\ pol.tokens \in Nat
  BY <1>1
<1>3. d \in Nat
  BY Limits
<1> QED
  BY <1>2, <1>3 DEF DeriveCapabilityClaims, NewClaims, Capability, Zero

\* Nothing has been reserved on a handle that was not minted.
Fresh == \A h \in Handles : caps[h].state = "unissued" => caps[h].reserved = Zero

\* The three things the store does to its table by itself.
LEMMA IssueEffect ==
  ASSUME TypeOK, Fresh, NEW h \in Handles, Issue(h)
  PROVE  \E pol \in Policies, d \in Nat :
           /\ caps' \in [Handles -> Capability] /\ now < d /\ now' = now /\ caps[h].state = "unissued"
           /\ caps'[h].state = "active" /\ caps'[h].expiry = d /\ caps'[h].reserved = caps[h].reserved
           /\ caps'[h].calls = pol.calls /\ caps'[h].tokens = pol.tokens
           /\ \A g \in Handles : g # h => caps'[g] = caps[g]
<1>1. PICK pol \in Policies, r \in Runs, d \in 1..MaxTime :
        /\ Validate(DeriveCapabilityClaims(pol, r, d))
        /\ caps' = [caps EXCEPT ![h] = DeriveCapabilityClaims(pol, r, d)]
  BY DEF Issue
<1> DEFINE c == DeriveCapabilityClaims(pol, r, d)
<1>2. /\ c \in Capability /\ c.reserved = Zero /\ c.state = "active" /\ c.expiry = d
      /\ c.calls = pol.calls /\ c.tokens = pol.tokens
  BY IssuedClaims
<1>3. caps' = [caps EXCEPT ![h] = c] /\ Validate(c)
  BY <1>1
<1> HIDE DEF c
<1>4. caps \in [Handles -> Capability]
  BY Types
<1>5. caps' \in [Handles -> Capability] /\ caps'[h] = c /\ \A g \in Handles : g # h => caps'[g] = caps[g]
  BY <1>2, <1>3, <1>4
<1>6. now < d /\ now' = now /\ caps[h].state = "unissued"
  BY <1>2, <1>3 DEF Validate, Issue
<1>7. caps[h].reserved = Zero
  BY <1>6 DEF Fresh
<1>8. d \in Nat
  BY Limits
<1> QED
  BY <1>2, <1>5, <1>6, <1>7, <1>8

LEMMA RevokeEffect ==
  ASSUME TypeOK, NEW h \in Handles, Revoke(h)
  PROVE  /\ caps' \in [Handles -> Capability] /\ now' = now /\ caps[h].state # "unissued"
         /\ caps'[h].state = "revoked" /\ caps'[h].reserved = caps[h].reserved
         /\ caps'[h].calls = caps[h].calls /\ caps'[h].tokens = caps[h].tokens
         /\ \A g \in Handles : g # h => caps'[g] = caps[g]
<1> DEFINE c == [caps[h] EXCEPT !.state = "revoked"]
<1>1. caps \in [Handles -> Capability] /\ caps[h] \in Capability
  BY Types
<1>2. caps' = [caps EXCEPT ![h] = c] /\ now' = now /\ caps[h].state # "unissued"
  BY <1>1 DEF Revoke
<1>3. /\ c \in Capability /\ c.state = "revoked" /\ c.reserved = caps[h].reserved
      /\ c.calls = caps[h].calls /\ c.tokens = caps[h].tokens
  BY <1>1 DEF Capability
<1> HIDE DEF c
<1>4. caps' \in [Handles -> Capability] /\ caps'[h] = c /\ \A g \in Handles : g # h => caps'[g] = caps[g]
  BY <1>1, <1>2, <1>3
<1> QED
  BY <1>2, <1>3, <1>4

LEMMA StoreInv == ASSUME ProxyInv, Fresh, StoreStep PROVE ProxyInv'
<1>1. enabled' = enabled /\ job' = job /\ UNCHANGED proxyVars /\ requests' = requests /\ faults' = faults
  BY DEF StoreStep
<1>2. TypeOK /\ now \in 0..MaxTime
  BY Known DEF TypeOK, CapTypeOK
<1>3. /\ caps' \in [Handles -> Capability] /\ now' \in 0..MaxTime
      /\ \A h \in Handles : caps'[h].reserved = caps[h].reserved
  <2>1. CASE Tick
    <3>1. now < MaxTime /\ now' = now + 1 /\ caps' = caps
      BY <2>1 DEF Tick
    <3> QED
      BY <3>1, <1>2, Limits, OneMore, Types
  <2>2. ASSUME NEW h \in Handles, Issue(h) PROVE
      /\ caps' \in [Handles -> Capability] /\ now' \in 0..MaxTime
      /\ \A g \in Handles : caps'[g].reserved = caps[g].reserved
    BY <1>2, <2>2, IssueEffect
  <2>3. ASSUME NEW h \in Handles, Revoke(h) PROVE
      /\ caps' \in [Handles -> Capability] /\ now' \in 0..MaxTime
      /\ \A g \in Handles : caps'[g].reserved = caps[g].reserved
    BY <1>2, <2>3, RevokeEffect
  <2> QED
    BY <2>1, <2>2, <2>3 DEF StoreStep
<1>4. TypeOK'
  BY <1>1, <1>2, <1>3 DEF TypeOK, CapTypeOK, proxyVars
<1>5. \A h \in Handles : /\ caps[h].reserved.calls <= caps'[h].reserved.calls
                         /\ caps[h].reserved.tokens <= caps'[h].reserved.tokens
  BY <1>2, <1>3, Types, NotLess DEF Amount
<1> QED
  BY <1>1, <1>4, <1>5, FileStays, QuietProxy DEF proxyVars

\* Every step, those of the store and the restart included.
LEMMA ProxyNext == ASSUME ProxyInv, Fresh, [Next]_vars PROVE ProxyInv'
<1>1. CASE UNCHANGED vars
  <2>1. TypeOK' /\ job' = job /\ up' = up /\ file' = file /\ delivered' = delivered /\ caps' = caps
    BY <1>1, Known DEF vars, TypeOK, CapTypeOK
  <2> QED
    BY <2>1, Known, ReservedStays, FileStays, QuietProxy
<1>2. ASSUME NEW p \in Handlers,
             \/ Arrive(p) \/ AuthenticateCapability(p) \/ Preflight(p)
             \/ ReserveVerify(p) \/ ReserveBudget(p) \/ Forward(p) \/ ForwardCodex(p)
      PROVE  ProxyInv'
  BY <1>2, ArriveInv, AuthInv, PreflightInv, VerifyInv, ReserveBudgetInv, SpendInv DEF Forward, ForwardCodex
<1>3. ASSUME NEW p \in Handlers,
             ReserveCall(p) \/ Send(p) \/ StreamCodexResponse(p) \/ ReserveTokens(p)
      PROVE  ProxyInv'
  BY <1>3, ReserveCallInv, AnsweredInv, ReserveTokensInv DEF Send, StreamCodexResponse
<1> QED
  BY <1>1, <1>2, <1>3, StoreInv, RestartInv DEF Next

LEMMA FreshInit == Init => Fresh
  BY DEF Init, CapInit, Unissued, Fresh

LEMMA FreshNext == ASSUME ProxyInv, Fresh, [Next]_vars PROVE Fresh'
<1>1. CASE caps' = caps
  BY <1>1 DEF Fresh
<1>2. CASE StoreStep
  <2>1. TypeOK
    BY Known
  <2>2. CASE Tick
    BY <1>1, <2>2 DEF Tick
  <2>3. ASSUME NEW h \in Handles, Issue(h) PROVE Fresh'
    <3>1. caps'[h].state = "active" /\ \A g \in Handles : g # h => caps'[g] = caps[g]
      BY <2>1, <2>3, IssueEffect
    <3> QED
      BY <3>1 DEF Fresh
  <2>4. ASSUME NEW h \in Handles, Revoke(h) PROVE Fresh'
    <3>1. caps'[h].state = "revoked" /\ \A g \in Handles : g # h => caps'[g] = caps[g]
      BY <2>1, <2>4, RevokeEffect
    <3> QED
      BY <3>1 DEF Fresh
  <2> QED
    BY <1>2, <2>2, <2>3, <2>4 DEF StoreStep
<1>3. ASSUME NEW p \in Handlers, Reserve(job[p].handle, Query(p)), job[p].pc = "reserve" PROVE Fresh'
  <2>1. job[p].handle \in Handles /\ job[p].bound \in Nat /\ TypeOK
    BY <1>3, Known DEF JobOK, Job
  <2>2. /\ caps'[job[p].handle].state = caps[job[p].handle].state
        /\ \A g \in Handles : g # job[p].handle => caps'[g] = caps[g]
    <3>1. Query(p).calls = 1 /\ Query(p).tokens = job[p].bound
      BY DEF Query
    <3> QED
      BY <1>3, <2>1, <3>1, Types, ReserveEffect
  <2>3. caps[job[p].handle].state = "active"
    BY <1>3 DEF Reserve, CanReserve, Found
  <2> QED
    BY <2>2, <2>3 DEF Fresh
<1>4. caps' = caps \/ StoreStep
      \/ \E p \in Handlers : Reserve(job[p].handle, Query(p)) /\ job[p].pc = "reserve"
  BY DEF Next, vars, Restart, Arrive, AuthenticateCapability, Preflight, ReserveVerify, ReserveBudget,
         Forward, ForwardCodex, SpendReserved, ReserveCall, Send, StreamCodexResponse, Answered,
         ReserveTokens
<1> QED
  BY <1>1, <1>2, <1>3, <1>4

LEMMA ProxyInvariant == Spec => [](ProxyInv /\ Fresh)
<1>1. Init => ProxyInv /\ Fresh
  BY ProxyInit, FreshInit
<1>2. ProxyInv /\ Fresh /\ [Next]_vars => (ProxyInv /\ Fresh)'
  BY ProxyNext, FreshNext
<1> QED
  BY <1>1, <1>2, PTL DEF Spec

\* Without capabilities a run makes no more upstream calls than
\* max_calls_per_run and is handed no more tokens in whole answers than
\* max_tokens_per_run, however its requests overlap and whenever the proxy
\* restarts (proxy.go reserveCall, reserveTokens).
THEOREM LegacyBudgetHolds == Spec => []LegacyWithinBudget
<1>1. ProxyInv => LegacyWithinBudget
  <2> SUFFICES ASSUME ProxyInv, NEW r \in Runs
               PROVE  up[r].calls <= MaxCallsPerRun /\ delivered[r] <= MaxTokensPerRun
    BY DEF LegacyWithinBudget
  <2>1. up[r].calls <= file[r].calls
    BY DEF ProxyInv, CallsCounted, Packed
  <2>2. file[r].calls <= MaxCallsPerRun /\ delivered[r] <= file[r].tokens
    BY DEF ProxyInv
  <2>3. /\ up[r].calls \in Nat /\ file[r].calls \in Nat /\ delivered[r] \in Nat
        /\ file[r].tokens \in 0..MaxTokensPerRun
    BY Known, Types DEF Amount
  <2> QED
    BY <2>1, <2>2, <2>3, Limits
<1> QED
  BY <1>1, ProxyInvariant, PTL

-----------------------------------------------------------------------------
(* The contract of a handle.                                               *)

\* The contract's variables, handle by handle.
PhaseOf(c, t) ==
    IF c.state = "unissued" THEN "new"
    ELSE IF c.state = "revoked" \/ (c.state = "active" /\ t >= c.expiry) THEN "closed" ELSE "open"

BudgetOf(c) == [calls |-> c.calls, tokens |-> c.tokens]

phases == [h \in Handles |-> PhaseOf(caps[h], now)]
budgets == [h \in Handles |-> BudgetOf(caps[h])]
grants == [h \in Handles |-> caps[h].reserved]
work == [h \in Handles |-> up[h]]

LEMMA Mapping ==
  /\ phases = [h \in Handles |-> IF caps[h].state = "unissued" THEN "new"
                                 ELSE IF Ended(h) THEN "closed" ELSE "open"]
  /\ budgets = [h \in Handles |-> [calls |-> caps[h].calls, tokens |-> caps[h].tokens]]
  BY DEF phases, budgets, PhaseOf, BudgetOf, Ended

LEMMA MappingNext ==
  /\ phases' = [h \in Handles |-> IF caps[h].state = "unissued" THEN "new"
                                 ELSE IF Ended(h) THEN "closed" ELSE "open"]'
  /\ budgets' = [h \in Handles |-> [calls |-> caps[h].calls, tokens |-> caps[h].tokens]]'
  BY DEF phases, budgets, PhaseOf, BudgetOf, Ended

\* Steps that touch no handle are invisible to the contract.
LEMMA ContractStill ==
  ASSUME caps' = caps, now' = now, \A h \in Handles : up'[h] = up[h]
  PROVE  UNCHANGED Contract!contractVars
<1>1. phases' = phases /\ budgets' = budgets /\ grants' = grants /\ work' = work
  BY DEF phases, budgets, grants, work
<1> QED
  BY <1>1, Mapping, MappingNext DEF Contract!contractVars, grants, work

LEMMA ContractCloses ==
  ASSUME \A h \in Handles : /\ BudgetOf(caps'[h]) = BudgetOf(caps[h]) /\ caps'[h].reserved = caps[h].reserved
                            /\ up'[h] = up[h]
                            /\ \/ PhaseOf(caps'[h], now') = PhaseOf(caps[h], now)
                               \/ PhaseOf(caps[h], now) = "open" /\ PhaseOf(caps'[h], now') = "closed"
  PROVE  Contract!Close
<1>1. budgets' = budgets /\ grants' = grants /\ work' = work
  BY DEF budgets, grants, work
<1>2. \A h \in Handles : phases'[h] = phases[h] \/ (phases[h] = "open" /\ phases'[h] = "closed")
  BY DEF phases
<1> QED
  BY <1>1, <1>2, Mapping, MappingNext DEF Contract!Close, grants, work

LEMMA ContractOpens ==
  ASSUME NEW h \in Handles, NEW pol \in Policies,
         PhaseOf(caps[h], now) = "new", PhaseOf(caps'[h], now') = "open",
         BudgetOf(caps'[h]) = [calls |-> pol.calls, tokens |-> pol.tokens],
         caps'[h].reserved = caps[h].reserved, now' = now, \A g \in Handles : up'[g] = up[g],
         \A g \in Handles : g # h => caps'[g] = caps[g]
  PROVE  Contract!Open(h)
<1>1. phases[h] = "new" /\ phases' = [phases EXCEPT ![h] = "open"]
  BY DEF phases
<1>2. budgets' = [budgets EXCEPT ![h] = [calls |-> pol.calls, tokens |-> pol.tokens]]
  BY DEF budgets
<1>3. grants' = grants /\ work' = work
  BY DEF grants, work
<1>4. \E b \in {[calls |-> p.calls, tokens |-> p.tokens] : p \in Policies} :
        budgets' = [budgets EXCEPT ![h] = b]
  BY <1>2
<1> QED
  BY <1>1, <1>3, <1>4, Mapping, MappingNext DEF Contract!Open, grants, work

LEMMA ContractGrants ==
  ASSUME NEW h \in Handles, PhaseOf(caps[h], now) = "open", PhaseOf(caps'[h], now') = "open",
         BudgetOf(caps'[h]) = BudgetOf(caps[h]), now' = now, \A g \in Handles : up'[g] = up[g],
         \A g \in Handles : g # h => caps'[g] = caps[g],
         Contract!Covers(caps'[h].reserved, caps[h].reserved),
         Contract!Covers(BudgetOf(caps[h]), caps'[h].reserved)
  PROVE  Contract!Grant(h)
<1>1. phases[h] = "open" /\ phases' = phases /\ budgets' = budgets /\ work' = work
  BY DEF phases, budgets, work
<1>2. grants' = [grants EXCEPT ![h] = grants'[h]] /\ grants'[h] = caps'[h].reserved
      /\ grants[h] = caps[h].reserved /\ budgets[h] = BudgetOf(caps[h])
  BY DEF grants, budgets
<1>3. Contract!Covers(grants'[h], grants[h]) /\ Contract!Covers(budgets[h], grants'[h])
  BY <1>2
<1> QED
  BY <1>1, <1>2, <1>3, Mapping, MappingNext DEF Contract!Grant, Contract!Covers, grants, work

LEMMA ContractSpends ==
  ASSUME NEW h \in Handles, caps' = caps, now' = now, \A g \in Handles : g # h => up'[g] = up[g],
         Contract!Covers(up'[h], up[h]), Contract!Covers(caps[h].reserved, up'[h])
  PROVE  Contract!Spend(h)
<1>1. phases' = phases /\ budgets' = budgets /\ grants' = grants
  BY DEF phases, budgets, grants
<1>2. work' = [work EXCEPT ![h] = work'[h]] /\ work'[h] = up'[h] /\ work[h] = up[h]
      /\ grants[h] = caps[h].reserved
  BY DEF work, grants
<1>3. Contract!Covers(work'[h], work[h]) /\ Contract!Covers(grants[h], work'[h])
  BY <1>2
<1> QED
  BY <1>1, <1>2, <1>3, Mapping, MappingNext DEF Contract!Spend, Contract!Covers, grants, work

LEMMA ClockStep ==
  ASSUME NEW c \in Capability, NEW t \in Nat
  PROVE  \/ PhaseOf(c, t + 1) = PhaseOf(c, t)
         \/ PhaseOf(c, t) = "open" /\ PhaseOf(c, t + 1) = "closed"
<1>1. c.expiry \in Nat /\ c.state \in {"unissued", "active", "revoked"}
  BY DEF Capability
<1> QED
  BY <1>1 DEF PhaseOf

LEMMA StoreContract == ASSUME ProxyInv, Fresh, StoreStep PROVE Contract!ContractNext
<1>1. TypeOK /\ now \in Nat /\ \A h \in Handles : up'[h] = up[h]
  BY Known, Limits DEF TypeOK, CapTypeOK, StoreStep, proxyVars
<1>2. CASE Tick
  <2>1. caps' = caps /\ now' = now + 1
    BY <1>2 DEF Tick
  <2>2. \A h \in Handles : \/ PhaseOf(caps[h], now + 1) = PhaseOf(caps[h], now)
                           \/ PhaseOf(caps[h], now) = "open" /\ PhaseOf(caps[h], now + 1) = "closed"
    BY <1>1, Types, ClockStep
  <2>3. Contract!Close
    BY <1>1, <2>1, <2>2, ContractCloses
  <2> QED
    BY <2>3 DEF Contract!ContractNext
<1>3. ASSUME NEW h \in Handles, Issue(h) PROVE Contract!ContractNext
  <2>1. PICK pol \in Policies, d \in Nat :
           /\ now < d /\ now' = now /\ caps[h].state = "unissued"
           /\ caps'[h].state = "active" /\ caps'[h].expiry = d /\ caps'[h].reserved = caps[h].reserved
           /\ caps'[h].calls = pol.calls /\ caps'[h].tokens = pol.tokens
           /\ \A g \in Handles : g # h => caps'[g] = caps[g]
    BY <1>1, <1>3, IssueEffect
  <2>2. PhaseOf(caps[h], now) = "new" /\ PhaseOf(caps'[h], now') = "open"
    BY <1>1, <2>1 DEF PhaseOf
  <2>3. BudgetOf(caps'[h]) = [calls |-> pol.calls, tokens |-> pol.tokens]
    BY <2>1 DEF BudgetOf
  <2>4. Contract!Open(h)
    BY <1>1, <2>1, <2>2, <2>3, ContractOpens
  <2> QED
    BY <2>4 DEF Contract!ContractNext
<1>4. ASSUME NEW h \in Handles, Revoke(h) PROVE Contract!ContractNext
  <2>1. /\ now' = now /\ caps[h].state # "unissued"
        /\ caps'[h].state = "revoked" /\ caps'[h].reserved = caps[h].reserved
        /\ caps'[h].calls = caps[h].calls /\ caps'[h].tokens = caps[h].tokens
        /\ \A g \in Handles : g # h => caps'[g] = caps[g]
    BY <1>1, <1>4, RevokeEffect
  <2>2. PhaseOf(caps'[h], now') = "closed" /\ PhaseOf(caps[h], now) \in {"open", "closed"}
    BY <2>1 DEF PhaseOf
  <2>3. BudgetOf(caps'[h]) = BudgetOf(caps[h])
    BY <2>1 DEF BudgetOf
  <2>4. ASSUME NEW g \in Handles
        PROVE /\ BudgetOf(caps'[g]) = BudgetOf(caps[g]) /\ caps'[g].reserved = caps[g].reserved
              /\ up'[g] = up[g]
              /\ \/ PhaseOf(caps'[g], now') = PhaseOf(caps[g], now)
                 \/ PhaseOf(caps[g], now) = "open" /\ PhaseOf(caps'[g], now') = "closed"
    <3>1. CASE g = h
      BY <1>1, <2>1, <2>2, <2>3, <3>1
    <3>2. CASE g # h
      BY <1>1, <2>1, <3>2
    <3> QED
      BY <3>1, <3>2
  <2>5. Contract!Close
    BY <2>4, ContractCloses
  <2> QED
    BY <2>5 DEF Contract!ContractNext
<1> QED
  BY <1>2, <1>3, <1>4 DEF StoreStep

LEMMA ReserveContract ==
  ASSUME ProxyInv, NEW p \in Handlers, job[p].pc = "reserve", Reserve(job[p].handle, Query(p)), up' = up
  PROVE  Contract!ContractNext
<1>1. PICK h \in Handles, n \in Nat : h = job[p].handle /\ n = job[p].bound /\ n > 0 /\ TypeOK
  BY Known DEF JobOK, Job
<1>2. Query(p).calls = 1 /\ Query(p).tokens = n /\ Reserve(h, Query(p)) /\ now' = now
  BY <1>1 DEF Query, Reserve
<1>3. /\ caps'[h].reserved = [calls |-> caps[h].reserved.calls + 1, tokens |-> caps[h].reserved.tokens + n]
      /\ caps'[h].state = caps[h].state /\ caps'[h].expiry = caps[h].expiry
      /\ caps'[h].calls = caps[h].calls /\ caps'[h].tokens = caps[h].tokens
      /\ \A g \in Handles : g # h => caps'[g] = caps[g]
  BY <1>1, <1>2, Types, ReserveEffect
<1>4. CanReserve(h, Query(p))
  BY <1>2 DEF Reserve
<1>5. caps[h].state = "active" /\ now < caps[h].expiry /\ Within(caps[h], Query(p))
  <2>1. Query(p).calls # 0
    BY <1>2
  <2> QED
    BY <1>4, <2>1 DEF CanReserve, Found, Authorize, Validate
<1>6. /\ caps[h].expiry \in Nat /\ now \in Nat /\ caps[h].calls \in Nat /\ caps[h].tokens \in Nat
      /\ caps[h].reserved.calls \in Nat /\ caps[h].reserved.tokens \in Nat
  <2>1. caps[h] \in Capability /\ caps[h].reserved \in Amount
    BY <1>1, Types
  <2>2. now \in Nat
    BY <1>1, Limits DEF TypeOK, CapTypeOK
  <2> QED
    BY <2>1, <2>2 DEF Capability, Amount
<1>7. PhaseOf(caps[h], now) = "open" /\ PhaseOf(caps'[h], now') = "open"
  BY <1>2, <1>3, <1>5, <1>6 DEF PhaseOf
<1>8. BudgetOf(caps'[h]) = BudgetOf(caps[h])
  BY <1>3 DEF BudgetOf
<1>9. Contract!Covers(caps'[h].reserved, caps[h].reserved)
  BY <1>1, <1>3, <1>6 DEF Contract!Covers
<1>10. Contract!Covers(BudgetOf(caps[h]), caps'[h].reserved)
  BY <1>1, <1>2, <1>3, <1>5, <1>6 DEF Contract!Covers, Within, BudgetOf
<1>11. Contract!Grant(h)
  BY <1>1, <1>2, <1>3, <1>7, <1>8, <1>9, <1>10, ContractGrants
<1> QED
  BY <1>1, <1>11 DEF Contract!ContractNext

\* By the packing, what was granted covers what p may have spent.
LEMMA SpendContract ==
  ASSUME ProxyInv, ProxyInv', NEW p \in Handlers, NEW ep, SpendReserved(p, ep)
  PROVE  Contract!ContractNext
<1>1. job[p].pc = "forward" /\ caps' = caps /\ now' = now
  BY DEF SpendReserved
<1>2. job[p] \in Job /\ JobOK(job[p]) /\ TypeOK
  BY Known
<1>3. PICK h \in Handles : h = job[p].handle /\ job[p].bound \in Nat
  BY <1>1, <1>2 DEF JobOK, Job
<1>4. PICK u \in 0..job[p].bound : up' = [up EXCEPT ![h] = Plus(@, 1, u)]
  BY <1>3 DEF SpendReserved
<1>5. u \in Nat
  BY <1>3
<1>6. /\ up'[h] = [calls |-> up[h].calls + 1, tokens |-> up[h].tokens + u]
      /\ \A y \in Handles \cup Runs : y # h => up'[y] = up[y]
  BY <1>2, <1>3, <1>4, <1>5, UpEffect
<1>7. Contract!Covers(up'[h], up[h])
  <2>1. up[h].calls \in Nat /\ up[h].tokens \in Nat
    BY <1>2, <1>3, Types DEF Amount
  <2> QED
    BY <1>5, <1>6, <2>1 DEF Contract!Covers
<1>8. Contract!Covers(caps[h].reserved, up'[h])
  <2>1. Backed(job', h, up'[h], caps'[h].reserved)
    BY <1>3 DEF ProxyInv
  <2> QED
    BY <1>1, <2>1 DEF Backed, Packed, Contract!Covers
<1>9. Contract!Spend(h)
  BY <1>1, <1>3, <1>6, <1>7, <1>8, ContractSpends
<1> QED
  BY <1>3, <1>9 DEF Contract!ContractNext

LEMMA AnsweredStill ==
  ASSUME ProxyInv, NEW p \in Handlers, NEW pc, Answered(p, pc)
  PROVE  caps' = caps /\ now' = now /\ \A h \in Handles : up'[h] = up[h]
<1>1. job[p].pc = "send" /\ caps' = caps /\ now' = now
  BY DEF Answered
<1>2. job[p].run \in Runs /\ TypeOK
  BY <1>1, Known DEF JobOK
<1>3. PICK u \in 0..MaxUsage : up' = [up EXCEPT ![job[p].run] = Plus(@, 1, u)]
  BY DEF Answered
<1>4. u \in Nat
  BY Limits
<1>5. \A y \in Handles \cup Runs : y # job[p].run => up'[y] = up[y]
  BY <1>2, <1>3, <1>4, UpEffect
<1> QED
  BY <1>1, <1>2, <1>5, Namespaces

LEMMA ContractStep ==
  ASSUME ProxyInv, ProxyInv', Fresh, [Next]_vars
  PROVE  [Contract!ContractNext]_(Contract!contractVars)
<1>1. CASE caps' = caps /\ now' = now /\ up' = up
  BY <1>1, ContractStill
<1>2. CASE StoreStep
  BY <1>2, StoreContract
<1>3. ASSUME NEW p \in Handlers, ReserveBudget(p) PROVE [Contract!ContractNext]_(Contract!contractVars)
  <2>1. up' = up /\ job[p].pc = "reserve"
    BY <1>3 DEF ReserveBudget, proxyVars
  <2>2. CASE Reserve(job[p].handle, Query(p))
    BY <2>1, <2>2, ReserveContract
  <2>3. CASE caps' = caps /\ now' = now
    BY <1>1, <2>1, <2>3
  <2> QED
    BY <1>3, <2>2, <2>3 DEF ReserveBudget
<1>4. ASSUME NEW p \in Handlers, Forward(p) \/ ForwardCodex(p)
      PROVE  [Contract!ContractNext]_(Contract!contractVars)
  BY <1>4, SpendContract DEF Forward, ForwardCodex
<1>5. ASSUME NEW p \in Handlers, Send(p) \/ StreamCodexResponse(p)
      PROVE  [Contract!ContractNext]_(Contract!contractVars)
  BY <1>5, AnsweredStill, ContractStill DEF Send, StreamCodexResponse
<1>6. ASSUME NEW p \in Handlers,
             \/ Arrive(p) \/ AuthenticateCapability(p) \/ Preflight(p) \/ ReserveVerify(p)
             \/ ReserveCall(p) \/ ReserveTokens(p)
      PROVE  caps' = caps /\ now' = now /\ up' = up
  BY <1>6 DEF Arrive, AuthenticateCapability, Preflight, ReserveVerify, ReserveCall, ReserveTokens, proxyVars
<1>7. CASE Restart \/ UNCHANGED vars
  BY <1>1, <1>7 DEF Restart, vars, proxyVars
<1> QED
  BY <1>1, <1>2, <1>3, <1>4, <1>5, <1>6, <1>7 DEF Next

LEMMA ContractStart == Init => Contract!ContractInit
<1> SUFFICES ASSUME Init PROVE Contract!ContractInit
  OBVIOUS
<1>1. \A h \in Handles : /\ caps[h].state = "unissued" /\ caps[h].reserved = Zero
                         /\ caps[h].calls = 0 /\ caps[h].tokens = 0 /\ up[h] = Zero
  BY DEF Init, CapInit, Unissued
<1>2. Zero = Contract!None
  BY DEF Zero, Contract!None
<1>3. /\ phases = [h \in Handles |-> "new"] /\ budgets = [h \in Handles |-> Contract!None]
      /\ grants = [h \in Handles |-> Contract!None] /\ work = [h \in Handles |-> Contract!None]
  BY <1>1, <1>2 DEF phases, budgets, grants, work, PhaseOf, BudgetOf, Contract!None
<1> QED
  BY <1>3, Mapping DEF Contract!ContractInit, grants, work

\* The proxy and the store keep the budget contract: upstream work stays within
\* what was reserved, reservations within the budget of the handle, and nothing
\* is reserved on a handle that was revoked or has expired (store.go Reserve,
\* capability.go Authorize, capability_enforce.go reserveCapabilityBudget).
THEOREM ProxyKeepsBudget == Spec => KeepsBudget
<1>1. ProxyInv /\ ProxyInv' /\ Fresh /\ [Next]_vars => [Contract!ContractNext]_(Contract!contractVars)
  BY ContractStep
<1> QED
  BY <1>1, ContractStart, ProxyInvariant, PTL DEF Spec, KeepsBudget, Contract!ContractSpec
=============================================================================
