------------------------- MODULE BrokerServerProofs -------------------------
(***************************************************************************)
(* Theorems about the git, CI, scan and tripwire areas of BrokerServer,    *)
(* for every configuration, history and bound.  Each area has an inductive *)
(* invariant over its own variables; the steps of the others leave it      *)
(* alone.                                                                  *)
(***************************************************************************)
EXTENDS BrokerServer, SequenceTheorems, WellFoundedInduction, TLAPS

-----------------------------------------------------------------------------
(* The push tripwire.                                                      *)

Requests == Reviewed \cup {NoRequest}

TripPcs == {"idle", "lookup", "apply", "fence", "mark", "report"}

TripRequest == [pc: TripPcs, key: TripKeys \cup {""}, req: Requests]
ResponseRow == [known: BOOLEAN, request: Requests, fence: {"none", "fence_requested", "fenced"}]

TripType ==
    /\ trip \in [Scanners -> TripRequest]
    /\ responses \in [TripKeys -> ResponseRow]

\* A handler at work has a key and a request that the scope allows.
HandlersReviewed ==
    \A s \in Scanners : trip[s].pc # "idle" => trip[s].key \in TripKeys /\ trip[s].req \in Reviewed

\* A handler that has got to the fence works on the row its key names.
HandlersOwnRow ==
    \A s \in Scanners : trip[s].pc \in {"fence", "mark", "report"} =>
        responses[trip[s].key].known /\ responses[trip[s].key].request = trip[s].req

\* What is about to be written down as fenced has been confirmed.
MarksConfirmed ==
    \A s \in Scanners : trip[s].pc \in {"mark", "report"} =>
        <<trip[s].req.finding, trip[s].req.binding>> \in confirmed

TripInv ==
    TripType /\ HandlersReviewed /\ HandlersOwnRow /\ MarksConfirmed /\ FencedIsConfirmed

LEMMA RestedType == Rested \in TripRequest
  BY DEF Rested, TripRequest, Requests, TripPcs

LEMMA ReviewedFields ==
  ASSUME NEW r \in Reviewed
  PROVE  /\ r \in Requests /\ r.profile \in Profiles
         /\ r = [finding |-> r.finding, profile |-> r.profile, actions |-> r.actions, binding |-> r.binding]
  BY DEF Reviewed, Requests

LEMMA TripInitInv == TripInit => TripInv
<1> SUFFICES ASSUME TripInit PROVE TripInv
  OBVIOUS
<1>1. NoResponse \in ResponseRow
  BY DEF NoResponse, ResponseRow, Requests
<1>2. TripType
  <2>1. trip \in [Scanners -> TripRequest]
    BY RestedType DEF TripInit
  <2>2. responses \in [TripKeys -> ResponseRow]
    BY <1>1 DEF TripInit
  <2> QED
    BY <2>1, <2>2 DEF TripInit, TripType
<1>3. \A s \in Scanners : trip[s].pc = "idle"
  BY DEF TripInit, Rested
<1>4. \A k \in TripKeys : ~responses[k].known /\ responses[k].fence = "none"
  BY DEF TripInit, NoResponse
<1> QED
  BY <1>2, <1>3, <1>4 DEF TripInit, TripInv, HandlersReviewed, HandlersOwnRow, MarksConfirmed,
     FencedIsConfirmed

\* What a handler that ends or moves on does to the others: nothing.
LEMMA DoneStep ==
  ASSUME TripType, NEW s \in Scanners, Done(s)
  PROVE  /\ trip' \in [Scanners -> TripRequest]
         /\ \A q \in Scanners : trip'[q] = trip[q] \/ trip'[q].pc = "idle"
<1>1. trip \in [Scanners -> TripRequest] /\ Rested \in TripRequest
  BY RestedType DEF TripType
<1>2. trip' \in [Scanners -> TripRequest]
  BY <1>1 DEF Done
<1>3. \A q \in Scanners : trip'[q] = trip[q] \/ trip'[q] = Rested
  BY <1>1 DEF Done
<1>4. Rested.pc = "idle"
  BY DEF Rested
<1> QED
  BY <1>2, <1>3, <1>4

LEMMA AtStep ==
  ASSUME TripType, NEW s \in Scanners, NEW pc \in TripPcs, At(s, pc)
  PROVE  /\ trip' \in [Scanners -> TripRequest]
         /\ trip'[s].pc = pc /\ trip'[s].key = trip[s].key /\ trip'[s].req = trip[s].req
         /\ \A q \in Scanners : q # s => trip'[q] = trip[q]
  BY DEF TripType, TripRequest, At

\* Nothing of what the invariant says is lost when rows and confirmations stay and every handler either stays, or ends, or moves to a
\* state that claims nothing new.
LEMMA CalmStep ==
  ASSUME TripInv,
         trip' \in [Scanners -> TripRequest],
         \A q \in Scanners : trip'[q] = trip[q] \/ trip'[q].pc = "idle",
         responses' = responses, confirmed \subseteq confirmed'
  PROVE  TripInv'
<1>1. TripType'
  BY DEF TripInv, TripType
<1>2. HandlersReviewed' /\ HandlersOwnRow' /\ MarksConfirmed'
  BY DEF TripInv, HandlersReviewed, HandlersOwnRow, MarksConfirmed
<1>3. FencedIsConfirmed'
  BY DEF TripInv, FencedIsConfirmed
<1> QED
  BY <1>1, <1>2, <1>3 DEF TripInv

LEMMA RespondInv == ASSUME TripInv, NEW s \in Scanners, Respond(s) PROVE TripInv'
<1>1. PICK k \in TripKeys, r \in Reviewed :
         trip' = [trip EXCEPT ![s] = [pc |-> "lookup", key |-> k, req |-> r]]
  BY DEF Respond
<1>2. trip' \in [Scanners -> TripRequest]
  BY <1>1, ReviewedFields DEF TripInv, TripType, TripRequest, TripPcs
<1>3. \A q \in Scanners : trip'[q] = trip[q] \/ (trip'[q].pc = "lookup" /\ trip'[q].key = k /\ trip'[q].req = r)
  BY <1>1 DEF TripInv, TripType
<1>4. responses' = responses /\ confirmed' = confirmed
  BY DEF Respond
<1>5. TripType' /\ FencedIsConfirmed'
  BY <1>2, <1>4 DEF TripInv, TripType, FencedIsConfirmed
<1>6. HandlersReviewed' /\ HandlersOwnRow' /\ MarksConfirmed'
  BY <1>3, <1>4 DEF TripInv, HandlersReviewed, HandlersOwnRow, MarksConfirmed
<1> QED
  BY <1>5, <1>6 DEF TripInv

LEMMA LookupInv == ASSUME TripInv, NEW s \in Scanners, LookupResponse(s) PROVE TripInv'
<1> DEFINE k == trip[s].key
<1>1. responses' = responses /\ confirmed' = confirmed
  BY DEF LookupResponse
<1>2. trip[s].pc = "lookup" /\ k \in TripKeys
  BY DEF LookupResponse, TripInv, HandlersReviewed
<1>3. CASE Done(s)
  BY <1>1, <1>3, DoneStep, CalmStep DEF TripInv
<1>4. CASE \/ At(s, "apply")
           \/ At(s, "fence") /\ responses[k].known /\ responses[k].request = trip[s].req
  <2>1. PICK pc \in {"apply", "fence"} :
           At(s, pc) /\ (pc = "fence" => responses[k].known /\ responses[k].request = trip[s].req)
    BY <1>4
  <2>2. /\ trip' \in [Scanners -> TripRequest]
        /\ trip'[s].pc = pc /\ trip'[s].key = k /\ trip'[s].req = trip[s].req
        /\ \A q \in Scanners : q # s => trip'[q] = trip[q]
    BY <2>1, AtStep DEF TripInv, TripPcs
  <2>3. TripType' /\ FencedIsConfirmed'
    BY <1>1, <2>2 DEF TripInv, TripType, FencedIsConfirmed
  <2>4. HandlersReviewed'
    BY <1>2, <2>2 DEF TripInv, HandlersReviewed
  <2>5. HandlersOwnRow' /\ MarksConfirmed'
    BY <1>1, <2>1, <2>2 DEF TripInv, HandlersOwnRow, MarksConfirmed
  <2> QED
    BY <2>3, <2>4, <2>5 DEF TripInv
<1> QED
  BY <1>3, <1>4 DEF LookupResponse

\* The transaction: the new row, its halt and its fence request come together.
LEMMA ApplyInv == ASSUME TripInv, NEW s \in Scanners, Apply(s) PROVE TripInv'
<1> DEFINE k == trip[s].key
           r == trip[s].req
           row == [known |-> TRUE, request |-> r,
                   fence |-> IF "fence" \in r.actions THEN "fence_requested" ELSE "none"]
<1>1. trip[s].pc = "apply" /\ k \in TripKeys /\ r \in Reviewed
  BY DEF Apply, TripInv, HandlersReviewed
<1>2. confirmed' = confirmed
  BY DEF Apply
<1>3. CASE Done(s) /\ responses' = responses
  BY <1>2, <1>3, DoneStep, CalmStep DEF TripInv
<1>4. CASE /\ ~responses[k].known /\ responses' = [responses EXCEPT ![k] = row]
           /\ Done(s) \/ At(s, "fence")
  <2>1. row \in ResponseRow /\ row.known /\ row.request = r /\ row.fence # "fenced"
    BY <1>1, ReviewedFields DEF ResponseRow
  <2> HIDE DEF row
  <2>2. responses \in [TripKeys -> ResponseRow]
    BY DEF TripInv, TripType
  <2>3. responses' \in [TripKeys -> ResponseRow]
    BY <1>1, <1>4, <2>1, <2>2
  <2>4. responses'[k] = row /\ \A j \in TripKeys : j # k => responses'[j] = responses[j]
    BY <1>1, <1>4, <2>2
  <2>5. /\ trip' \in [Scanners -> TripRequest]
        /\ \A q \in Scanners : \/ trip'[q] = trip[q] \/ trip'[q].pc = "idle"
                               \/ trip'[q].pc = "fence" /\ trip'[q].key = k /\ trip'[q].req = r
    BY <1>4, DoneStep, AtStep DEF TripInv, TripPcs
  <2>6. TripType'
    BY <2>3, <2>5 DEF TripType
  <2>7. HandlersReviewed' /\ MarksConfirmed'
    BY <1>1, <1>2, <2>5 DEF TripInv, HandlersReviewed, MarksConfirmed
  <2>8. \A q \in Scanners : trip[q].pc \in {"fence", "mark", "report"} =>
            trip[q].key \in TripKeys /\ trip[q].key # k
    BY <1>4 DEF TripInv, HandlersReviewed, HandlersOwnRow
  <2>9. HandlersOwnRow'
    BY <2>1, <2>4, <2>5, <2>8 DEF TripInv, HandlersOwnRow
  <2>10. FencedIsConfirmed'
    BY <1>2, <2>1, <2>4 DEF TripInv, FencedIsConfirmed
  <2> QED
    BY <2>6, <2>7, <2>9, <2>10 DEF TripInv
<1> QED
  BY <1>3, <1>4 DEF Apply

LEMMA FenceInv == ASSUME TripInv, NEW s \in Scanners, Fence(s) PROVE TripInv'
<1> DEFINE r == trip[s].req
           k == trip[s].key
<1>1. /\ trip[s].pc = "fence" /\ k \in TripKeys
      /\ responses[k].known /\ responses[k].request = r
  BY DEF Fence, TripInv, HandlersReviewed, HandlersOwnRow
<1>2. responses' = responses
  BY DEF Fence
<1>3. CASE confirmed' = confirmed /\ Done(s)
  BY <1>2, <1>3, DoneStep, CalmStep DEF TripInv
<1>4. CASE confirmed' = confirmed \cup {<<r.finding, r.binding>>} /\ At(s, "mark")
  <2>1. /\ trip' \in [Scanners -> TripRequest]
        /\ trip'[s].pc = "mark" /\ trip'[s].key = k /\ trip'[s].req = r
        /\ \A q \in Scanners : q # s => trip'[q] = trip[q]
    BY <1>4, AtStep DEF TripInv, TripPcs
  <2>2. TripType' /\ FencedIsConfirmed'
    BY <1>2, <1>4, <2>1 DEF TripInv, TripType, FencedIsConfirmed
  <2>3. HandlersReviewed' /\ HandlersOwnRow'
    BY <1>1, <1>2, <2>1 DEF TripInv, HandlersReviewed, HandlersOwnRow
  <2>4. MarksConfirmed'
    BY <1>4, <2>1 DEF TripInv, MarksConfirmed
  <2> QED
    BY <2>2, <2>3, <2>4 DEF TripInv
<1> QED
  BY <1>3, <1>4 DEF Fence, AfterFence

LEMMA MarkFenceInv == ASSUME TripInv, NEW s \in Scanners, MarkFence(s) PROVE TripInv'
<1>1. trip[s].pc = "mark"
  BY DEF MarkFence
<1>2. responses' = responses /\ confirmed' = confirmed
  BY DEF MarkFence
<1>3. CASE Done(s)
  BY <1>2, <1>3, DoneStep, CalmStep DEF TripInv
<1>4. CASE At(s, "report")
  <2>1. /\ trip' \in [Scanners -> TripRequest]
        /\ trip'[s].pc = "report" /\ trip'[s].key = trip[s].key /\ trip'[s].req = trip[s].req
        /\ \A q \in Scanners : q # s => trip'[q] = trip[q]
    BY <1>4, AtStep DEF TripInv, TripPcs
  <2>2. TripType' /\ FencedIsConfirmed'
    BY <1>2, <2>1 DEF TripInv, TripType, FencedIsConfirmed
  <2>3. HandlersReviewed' /\ HandlersOwnRow' /\ MarksConfirmed'
    BY <1>1, <1>2, <2>1 DEF TripInv, HandlersReviewed, HandlersOwnRow, MarksConfirmed
  <2> QED
    BY <2>2, <2>3 DEF TripInv
<1> QED
  BY <1>3, <1>4 DEF MarkFence

LEMMA MarkResponseInv == ASSUME TripInv, NEW s \in Scanners, MarkResponse(s) PROVE TripInv'
<1> DEFINE r == trip[s].req
           k == trip[s].key
<1>1. /\ trip[s].pc = "report" /\ k \in TripKeys /\ Done(s)
      /\ responses[k].known /\ responses[k].request = r
      /\ <<r.finding, r.binding>> \in confirmed
  BY DEF MarkResponse, TripInv, HandlersReviewed, HandlersOwnRow, MarksConfirmed
<1>2. confirmed' = confirmed
  BY DEF MarkResponse
<1>3. trip' \in [Scanners -> TripRequest] /\ \A q \in Scanners : trip'[q] = trip[q] \/ trip'[q].pc = "idle"
  BY <1>1, DoneStep DEF TripInv
<1>4. CASE responses' = responses
  BY <1>2, <1>3, <1>4, CalmStep
<1>5. CASE responses' = [responses EXCEPT ![k].fence = IF "fence" \in r.actions THEN "fenced" ELSE @]
  <2>1. responses \in [TripKeys -> ResponseRow]
    BY DEF TripInv, TripType
  <2>2. /\ responses' \in [TripKeys -> ResponseRow]
        /\ \A j \in TripKeys : /\ responses'[j].known = responses[j].known
                               /\ responses'[j].request = responses[j].request
                               /\ j # k => responses'[j].fence = responses[j].fence
    BY <1>1, <1>5, <2>1 DEF ResponseRow
  <2>3. TripType'
    BY <1>3, <2>2 DEF TripType
  <2>4. HandlersReviewed' /\ MarksConfirmed'
    BY <1>2, <1>3 DEF TripInv, HandlersReviewed, MarksConfirmed
  <2>5. HandlersOwnRow'
    BY <1>3, <2>2 DEF TripInv, HandlersReviewed, HandlersOwnRow
  <2>6. FencedIsConfirmed'
    BY <1>1, <1>2, <2>2 DEF TripInv, FencedIsConfirmed
  <2> QED
    BY <2>3, <2>4, <2>5, <2>6 DEF TripInv
<1> QED
  BY <1>4, <1>5 DEF MarkResponse

LEMMA CrashInv == ASSUME TripInv, TripCrash PROVE TripInv'
<1>1. responses' = responses /\ confirmed' = confirmed /\ trip' = [s \in Scanners |-> Rested]
  BY DEF TripCrash
<1>2. Rested.pc = "idle" /\ Rested \in TripRequest
  BY RestedType DEF Rested
<1>3. /\ trip' \in [Scanners -> TripRequest]
      /\ \A q \in Scanners : trip'[q] = trip[q] \/ trip'[q].pc = "idle"
  BY <1>1, <1>2
<1> QED
  BY <1>1, <1>3, CalmStep

LEMMA TripNextInv == ASSUME TripInv, [TripNext]_tripVars PROVE TripInv'
<1>1. CASE UNCHANGED tripVars
  BY <1>1 DEF tripVars, TripInv, TripType, HandlersReviewed, HandlersOwnRow, MarksConfirmed,
     FencedIsConfirmed
<1> QED
  BY <1>1, CrashInv, RespondInv, LookupInv, ApplyInv, FenceInv, MarkFenceInv, MarkResponseInv
     DEF TripNext

\* A step of the broker is one of the tripwire or leaves its tables alone.
LEMMA BrokerTripStep == ASSUME [BrokerNext]_brokerVars PROVE [TripNext]_tripVars
  BY DEF BrokerNext, ReloadConfig, brokerVars

LEMMA TripInvariant == BrokerSpec => []TripInv
<1>1. BrokerInit => TripInv
  BY TripInitInv DEF BrokerInit
<1>2. TripInv /\ [BrokerNext]_brokerVars => TripInv'
  BY BrokerTripStep, TripNextInv
<1> QED
  BY <1>1, <1>2, PTL DEF BrokerSpec

\* A stored response says fenced only if the adapter has confirmed the fence of
\* exactly its finding and binding, for any number of scanners, replays,
\* failing statements and crashes (Apply of pushtripwire.go).
THEOREM OnlyConfirmedIsFenced == BrokerSpec => []FencedIsConfirmed
<1>1. TripInv => FencedIsConfirmed
  BY DEF TripInv
<1> QED
  BY <1>1, TripInvariant, PTL

-----------------------------------------------------------------------------
(* Git over the broker.                                                    *)

GitPcs == {"idle", "guard", "preflight", "token", "forward"}

GitRequest ==
    [pc: GitPcs, operation: {"", Upload, ReceivePack}, updates: Seq(Updates),
     cfg: Configs \cup {""}, stale: SUBSET Refs, next: Nat]

GitType ==
    /\ cfg \in Configs
    /\ git \in [Pushers -> GitRequest]
    /\ stale \subseteq Refs

\* Every branch of a push in progress is one its configuration admits.
PushAdmitted(g) ==
    g.pc # "idle" => \A i \in DOMAIN g.updates :
        Admits(g.cfg, ReceivePack, g.updates[i].ref, TRUE) /\ ~g.cfg.opaque

\* The refs that have been looked at are not to be deleted.
PushLookedAt(g) ==
    /\ g.pc \in {"guard", "preflight"} => g.next \in Nat /\ g.next >= 1
    /\ g.pc = "guard" => g.next = 1
    /\ g.pc = "preflight" =>
         g.next \in DOMAIN g.updates /\ \A i \in 1..(g.next - 1) : g.updates[i].after # Zero
    /\ g.pc \in {"token", "forward"} => \A i \in DOMAIN g.updates : g.updates[i].after # Zero

\* Past a guard that denies, the first branch had an open pull request when
\* the push came in; what was closed then is closed still.
PushGuarded(g, closed) ==
    /\ g.pc \in {"preflight", "token", "forward"} /\ g.updates # <<>> /\ g.cfg.guard = "deny" =>
         g.updates[1].ref \notin g.stale
    /\ g.pc = "guard" => g.stale \subseteq closed

GitInv ==
    /\ GitType
    /\ \A c \in Pushers : PushAdmitted(git[c]) /\ PushLookedAt(git[c]) /\ PushGuarded(git[c], stale)
    /\ MovedWithinPolicy /\ GuardedPushIsFresh

LEMMA UnaskedType == Unasked \in GitRequest /\ Unasked.pc = "idle"
<1>1. <<>> \in Seq(Updates)
  BY EmptySeq
<1> QED
  BY <1>1 DEF Unasked, GitRequest, GitPcs

LEMMA UnaskedInv == PushAdmitted(Unasked) /\ PushLookedAt(Unasked) /\ \A closed : PushGuarded(Unasked, closed)
  BY UnaskedType DEF PushAdmitted, PushLookedAt, PushGuarded

LEMMA SameInterval == ASSUME NEW m \in Nat, NEW n \in Nat, 1..m = 1..n PROVE m = n
<1>1. \A i \in Int : i \in 1..m <=> i \in 1..n
  OBVIOUS
<1>2. \A i \in Int : 1 <= i => (i <= m <=> i <= n)
  BY <1>1
<1>3. (1 <= m => m <= n) /\ (1 <= n => n <= m)
  BY <1>2
<1> QED
  BY <1>3

\* What is parsed is a list with at least one update.
LEMMA ParsedSeq ==
  ASSUME NEW u \in Parsed
  PROVE  u \in Seq(Updates) /\ Len(u) \in Nat \ {0} /\ DOMAIN u = 1..Len(u) /\ u # <<>>
<1>1. PICK n \in 1..MaxUpdates : u \in [1..n -> Updates]
  BY DEF Parsed
<1>2. n \in Nat /\ n # 0
  BY GitAssumption
<1>3. u \in Seq(Updates)
  BY <1>1, <1>2, SeqDef
<1>4. Len(u) \in Nat /\ DOMAIN u = 1..Len(u)
  BY <1>3, LenProperties
<1>5. DOMAIN u = 1..n
  BY <1>1
<1>6. Len(u) = n
  BY <1>2, <1>4, <1>5, SameInterval
<1>7. u # <<>>
  BY <1>2, <1>3, <1>6, EmptySeq
<1> QED
  BY <1>2, <1>3, <1>4, <1>6, <1>7

LEMMA GitInitInv == BrokerInit => GitInv
<1> SUFFICES ASSUME BrokerInit PROVE GitInv
  OBVIOUS
<1>1. git = [c \in Pushers |-> Unasked] /\ moved = {} /\ stale \subseteq Refs /\ cfg \in Configs
  BY DEF BrokerInit, GitInit, GitIdle, ConfigInit
<1>2. GitType
  BY <1>1, UnaskedType DEF GitType
<1>3. \A c \in Pushers : git[c] = Unasked
  BY <1>1
<1>4. \A c \in Pushers : PushAdmitted(git[c]) /\ PushLookedAt(git[c]) /\ PushGuarded(git[c], stale)
  BY <1>3, UnaskedInv
<1> QED
  BY <1>1, <1>2, <1>4 DEF GitInv, MovedWithinPolicy, GuardedPushIsFresh

\* One request changes; the branches that were closed stay so.
LEMMA GitChange ==
  ASSUME GitInv, NEW c \in Pushers, NEW g, git' = [git EXCEPT ![c] = g], g \in GitRequest,
         PushAdmitted(g), PushLookedAt(g), PushGuarded(g, stale),
         stale' = stale, cfg' = cfg, MovedWithinPolicy', GuardedPushIsFresh'
  PROVE  GitInv'
<1>1. git \in [Pushers -> GitRequest]
  BY DEF GitInv, GitType
<1>2. git' \in [Pushers -> GitRequest] /\ git'[c] = g /\ \A d \in Pushers : d # c => git'[d] = git[d]
  BY <1>1
<1>3. GitType'
  BY <1>2 DEF GitInv, GitType
<1>4. \A d \in Pushers : d # c => PushGuarded(git[d], stale)'
  BY <1>2 DEF GitInv, PushGuarded
<1>5. (\A d \in Pushers : PushAdmitted(git[d]) /\ PushLookedAt(git[d]) /\ PushGuarded(git[d], stale))'
  <2> SUFFICES ASSUME NEW d \in Pushers
               PROVE  (PushAdmitted(git[d]) /\ PushLookedAt(git[d]) /\ PushGuarded(git[d], stale))'
    OBVIOUS
  <2>1. CASE d = c
    BY <1>2, <2>1 DEF PushAdmitted, PushLookedAt, PushGuarded
  <2>2. CASE d # c
    BY <1>2, <1>4, <2>2 DEF GitInv, PushAdmitted, PushLookedAt
  <2> QED
    BY <2>1, <2>2
<1> QED
  BY <1>3, <1>5 DEF GitInv

LEMMA GitRequests ==
  ASSUME GitInv, NEW c \in Pushers
  PROVE  /\ git[c] \in GitRequest
         /\ git[c].updates \in Seq(Updates) /\ Len(git[c].updates) \in Nat
         /\ DOMAIN git[c].updates = 1..Len(git[c].updates)
         /\ PushAdmitted(git[c]) /\ PushLookedAt(git[c]) /\ PushGuarded(git[c], stale)
<1>1. git[c] \in GitRequest
  BY DEF GitInv, GitType
<1>2. git[c].updates \in Seq(Updates)
  BY <1>1 DEF GitRequest
<1>3. Len(git[c].updates) \in Nat /\ DOMAIN git[c].updates = 1..Len(git[c].updates)
  BY <1>2, LenProperties
<1> QED
  BY <1>1, <1>2, <1>3 DEF GitInv

\* A request that is answered claims nothing any more.
LEMMA AnsweredInv ==
  ASSUME GitInv, NEW c \in Pushers, Answered(c), stale' = stale, cfg' = cfg,
         MovedWithinPolicy', GuardedPushIsFresh'
  PROVE  GitInv'
  BY UnaskedType, UnaskedInv, GitChange DEF Answered

LEMMA SameMoved ==
  ASSUME GitInv, moved' = moved PROVE MovedWithinPolicy' /\ GuardedPushIsFresh'
  BY DEF GitInv, MovedWithinPolicy, GuardedPushIsFresh

LEMMA ReceiveInv ==
  ASSUME GitInv, NEW c \in Pushers, ReceiveGit(c), cfg' = cfg PROVE GitInv'
<1>1. PICK operation \in {Upload, ReceivePack}, u \in {<<>>} \cup Parsed :
         /\ u # <<>> => operation = ReceivePack
         /\ Admitted(cfg, operation, u)
         /\ git' = [git EXCEPT ![c] = [pc |-> "guard", operation |-> operation, updates |-> u,
                                       cfg |-> cfg, stale |-> stale, next |-> 1]]
  <2>1. PICK request \in {<<Upload, <<>>>>, <<ReceivePack, <<>>>>} \cup {<<ReceivePack, u>> : u \in Parsed} :
           /\ Admitted(cfg, request[1], request[2])
           /\ git' = [git EXCEPT ![c] = [pc |-> "guard", operation |-> request[1], updates |-> request[2],
                                         cfg |-> cfg, stale |-> stale, next |-> 1]]
    BY DEF ReceiveGit
  <2>2. CASE request = <<Upload, <<>>>>
    BY <2>1, <2>2
  <2>3. CASE request = <<ReceivePack, <<>>>>
    BY <2>1, <2>3
  <2>4. ASSUME NEW u \in Parsed, request = <<ReceivePack, u>>
        PROVE  \E operation \in {Upload, ReceivePack}, v \in {<<>>} \cup Parsed :
                 /\ v # <<>> => operation = ReceivePack
                 /\ Admitted(cfg, operation, v)
                 /\ git' = [git EXCEPT ![c] = [pc |-> "guard", operation |-> operation, updates |-> v,
                                               cfg |-> cfg, stale |-> stale, next |-> 1]]
    BY <2>1, <2>4
  <2> QED
    BY <2>2, <2>3, <2>4
<1> DEFINE g == [pc |-> "guard", operation |-> operation, updates |-> u,
                 cfg |-> cfg, stale |-> stale, next |-> 1]
<1>2. u \in Seq(Updates) /\ (u = <<>> => DOMAIN u = {})
  <2>1. <<>> \in Seq(Updates) /\ DOMAIN <<>> = {}
    BY EmptySeq
  <2> QED
    BY <2>1, ParsedSeq
<1>3. g \in GitRequest
  BY <1>2 DEF GitInv, GitType, GitRequest, GitPcs
<1>4. /\ g.pc = "guard" /\ g.operation = operation /\ g.updates = u /\ g.cfg = cfg
      /\ g.stale = stale /\ g.next = 1
  OBVIOUS
<1> HIDE DEF g
<1>5. PushAdmitted(g)
  BY <1>1, <1>2, <1>4 DEF PushAdmitted, Admitted, Branches
<1>6. PushLookedAt(g)
  BY <1>4 DEF PushLookedAt
<1>7. stale' = stale /\ moved' = moved
  BY DEF ReceiveGit
<1>8. PushGuarded(g, stale')
  BY <1>4, <1>7 DEF PushGuarded
<1>9. git' = [git EXCEPT ![c] = g]
  BY <1>1 DEF g
<1> QED
  BY <1>3, <1>5, <1>6, <1>7, <1>8, <1>9, GitChange, SameMoved

\* A handler moves on with its request as it is.
LEMMA GitStepType ==
  ASSUME GitInv, NEW c \in Pushers, NEW pc \in GitPcs, GitStep(c, pc)
  PROVE  /\ git' = [git EXCEPT ![c] = [git[c] EXCEPT !.pc = pc]]
         /\ LET g == [git[c] EXCEPT !.pc = pc]
            IN  /\ g \in GitRequest /\ g.pc = pc /\ g.updates = git[c].updates /\ g.cfg = git[c].cfg
                /\ g.stale = git[c].stale /\ g.next = git[c].next
<1>1. git[c] \in GitRequest
  BY GitRequests
<1>2. git' = [git EXCEPT ![c] = [git[c] EXCEPT !.pc = pc]]
  BY DEF GitStep
<1> QED
  BY <1>1, <1>2 DEF GitRequest

LEMMA GuardInv ==
  ASSUME GitInv, NEW c \in Pushers, CheckBranchLifecycle(c), cfg' = cfg PROVE GitInv'
<1> DEFINE updates == git[c].updates
           after == IF updates = <<>> THEN "token" ELSE "preflight"
           g == [git[c] EXCEPT !.pc = after]
<1>1. git[c].pc = "guard" /\ stale' = stale /\ moved' = moved
  BY DEF CheckBranchLifecycle
<1>2. CASE Answered(c)
  BY <1>1, <1>2, AnsweredInv, SameMoved
<1>3. CASE /\ GitStep(c, after)
           /\ updates # <<>> /\ git[c].cfg.guard = "deny" => updates[1].ref \notin stale
  <2>1. after \in GitPcs
    BY DEF GitPcs
  <2>2. /\ git' = [git EXCEPT ![c] = g]
        /\ g \in GitRequest /\ g.pc = after /\ g.updates = updates /\ g.cfg = git[c].cfg
        /\ g.stale = git[c].stale /\ g.next = git[c].next
    BY <1>3, <2>1, GitStepType
  <2> HIDE DEF g
  <2>3. /\ PushAdmitted(git[c]) /\ PushLookedAt(git[c]) /\ PushGuarded(git[c], stale)
        /\ updates \in Seq(Updates) /\ Len(updates) \in Nat /\ DOMAIN updates = 1..Len(updates)
    BY GitRequests
  <2>4. PushAdmitted(g)
    BY <1>1, <2>2, <2>3 DEF PushAdmitted
  <2>5. updates # <<>> => 1 \in DOMAIN updates
    BY <2>3, EmptySeq
  <2>6. updates = <<>> => DOMAIN updates = {}
    BY EmptySeq
  <2>7. PushLookedAt(g)
    BY <1>1, <2>2, <2>3, <2>5, <2>6 DEF PushLookedAt
  <2>8. PushGuarded(g, stale')
    BY <1>1, <1>3, <2>2, <2>3 DEF PushGuarded
  <2> QED
    BY <1>1, <2>2, <2>4, <2>7, <2>8, GitChange, SameMoved
<1> QED
  BY <1>2, <1>3 DEF CheckBranchLifecycle, GuardDenies

LEMMA NextRef ==
  ASSUME NEW r \in GitRequest, NEW n \in Nat
  PROVE  LET g == [r EXCEPT !.next = n]
         IN  /\ g \in GitRequest /\ g.pc = r.pc /\ g.updates = r.updates /\ g.cfg = r.cfg
             /\ g.stale = r.stale /\ g.next = n
  BY DEF GitRequest

LEMMA PreflightInv ==
  ASSUME GitInv, NEW c \in Pushers, Preflight(c), cfg' = cfg PROVE GitInv'
<1> DEFINE updates == git[c].updates
           next == git[c].next
<1>1. git[c].pc = "preflight" /\ stale' = stale /\ moved' = moved
  BY DEF Preflight
<1>2. /\ PushAdmitted(git[c]) /\ PushLookedAt(git[c]) /\ PushGuarded(git[c], stale)
      /\ updates \in Seq(Updates) /\ Len(updates) \in Nat /\ DOMAIN updates = 1..Len(updates)
      /\ git[c] \in GitRequest
  BY GitRequests
<1>3. CASE Answered(c)
  BY <1>1, <1>3, AnsweredInv, SameMoved
<1>4. CASE updates[next].after # Zero /\ next = Len(updates) /\ git' = [git EXCEPT ![c].pc = "token"]
  <2> DEFINE g == [git[c] EXCEPT !.pc = "token"]
  <2>1. /\ git' = [git EXCEPT ![c] = g]
        /\ g \in GitRequest /\ g.pc = "token" /\ g.updates = updates /\ g.cfg = git[c].cfg
        /\ g.stale = git[c].stale /\ g.next = next
    BY <1>4, GitStepType DEF GitStep, GitPcs
  <2> HIDE DEF g
  <2>2. PushAdmitted(g) /\ PushGuarded(g, stale')
    BY <1>1, <1>2, <2>1 DEF PushAdmitted, PushGuarded
  <2>3. PushLookedAt(g)
    BY <1>1, <1>2, <1>4, <2>1 DEF PushLookedAt
  <2> QED
    BY <1>1, <2>1, <2>2, <2>3, GitChange, SameMoved
<1>5. CASE updates[next].after # Zero /\ next # Len(updates) /\ git' = [git EXCEPT ![c].next = @ + 1]
  <2> DEFINE g == [git[c] EXCEPT !.next = next + 1]
  <2>1. /\ git' = [git EXCEPT ![c] = g]
        /\ g \in GitRequest /\ g.pc = "preflight" /\ g.updates = updates /\ g.cfg = git[c].cfg
        /\ g.stale = git[c].stale /\ g.next = next + 1
    <3>1. git' = [git EXCEPT ![c] = [git[c] EXCEPT !.next = @ + 1]]
      BY <1>5
    <3>2. next \in Nat
      BY <1>2 DEF GitRequest
    <3>3. git[c] \in GitRequest
      BY <1>2
    <3>4. /\ g \in GitRequest /\ g.pc = git[c].pc /\ g.updates = updates /\ g.cfg = git[c].cfg
          /\ g.stale = git[c].stale /\ g.next = next + 1
      <4>1. next + 1 \in Nat
        BY <3>2
      <4> QED
        BY <3>3, <4>1, NextRef
    <3> QED
      BY <1>1, <3>1, <3>4
  <2> HIDE DEF g
  <2>2. PushAdmitted(g) /\ PushGuarded(g, stale')
    BY <1>1, <1>2, <2>1 DEF PushAdmitted, PushGuarded
  <2>3. PushLookedAt(g)
    BY <1>1, <1>2, <1>5, <2>1 DEF PushLookedAt
  <2> QED
    BY <1>1, <2>1, <2>2, <2>3, GitChange, SameMoved
<1> QED
  BY <1>3, <1>4, <1>5 DEF Preflight, Answered, Passes

LEMMA TokenInv ==
  ASSUME GitInv, NEW c \in Pushers, Token(c), cfg' = cfg PROVE GitInv'
<1> DEFINE g == [git[c] EXCEPT !.pc = "forward"]
<1>1. git[c].pc = "token" /\ stale' = stale /\ moved' = moved
  BY DEF Token
<1>2. PushAdmitted(git[c]) /\ PushLookedAt(git[c]) /\ PushGuarded(git[c], stale)
  BY GitRequests
<1>3. CASE Answered(c)
  BY <1>1, <1>3, AnsweredInv, SameMoved
<1>4. CASE GitStep(c, "forward")
  <2>1. /\ git' = [git EXCEPT ![c] = g]
        /\ g \in GitRequest /\ g.pc = "forward" /\ g.updates = git[c].updates /\ g.cfg = git[c].cfg
        /\ g.stale = git[c].stale /\ g.next = git[c].next
    BY <1>4, GitStepType DEF GitPcs
  <2> HIDE DEF g
  <2>2. PushAdmitted(g) /\ PushLookedAt(g) /\ PushGuarded(g, stale')
    BY <1>1, <1>2, <2>1 DEF PushAdmitted, PushLookedAt, PushGuarded
  <2> QED
    BY <1>1, <2>1, <2>2, GitChange, SameMoved
<1> QED
  BY <1>3, <1>4 DEF Token

\* Only updates that were admitted, looked at and guarded move a ref.
LEMMA ForwardInv ==
  ASSUME GitInv, NEW c \in Pushers, Forward(c), cfg' = cfg PROVE GitInv'
<1> DEFINE g == git[c]
           landed == {i \in DOMAIN g.updates : Lands(g.updates, i)}
           move(i) == [ref |-> g.updates[i].ref, after |-> g.updates[i].after,
                       cfg |-> g.cfg, stale |-> g.updates[i].ref \in g.stale,
                       alone |-> Len(g.updates) = 1]
<1>1. g.pc = "forward" /\ stale' = stale /\ Answered(c)
  BY DEF Forward
<1>2. /\ PushAdmitted(g) /\ PushLookedAt(g) /\ PushGuarded(g, stale)
      /\ Len(g.updates) \in Nat /\ DOMAIN g.updates = 1..Len(g.updates)
  BY GitRequests
<1>3. moved' = moved \/ moved' = moved \cup {move(i) : i \in landed}
  BY DEF Forward
<1>4. ASSUME NEW i \in landed
      PROVE  /\ move(i).ref = g.updates[i].ref /\ move(i).after = g.updates[i].after
             /\ move(i).cfg = g.cfg
             /\ move(i).stale <=> g.updates[i].ref \in g.stale
             /\ move(i).alone <=> Len(g.updates) = 1
  OBVIOUS
<1> HIDE DEF move
<1>5. ASSUME NEW i \in landed
      PROVE  /\ Admits(move(i).cfg, ReceivePack, move(i).ref, TRUE) /\ ~move(i).cfg.opaque
             /\ move(i).after # Zero
             /\ move(i).cfg.guard = "deny" /\ move(i).alone => ~move(i).stale
  <2>1. i \in DOMAIN g.updates
    OBVIOUS
  <2>2. Admits(g.cfg, ReceivePack, g.updates[i].ref, TRUE) /\ ~g.cfg.opaque /\ g.updates[i].after # Zero
    BY <1>1, <1>2, <2>1 DEF PushAdmitted, PushLookedAt
  <2>3. g.cfg.guard = "deny" /\ Len(g.updates) = 1 => g.updates[i].ref \notin g.stale
    <3> SUFFICES ASSUME g.cfg.guard = "deny", Len(g.updates) = 1 PROVE g.updates[i].ref \notin g.stale
      OBVIOUS
    <3>1. i = 1
      BY <1>2, <2>1
    <3>2. g.updates # <<>>
      BY <2>1, EmptySeq
    <3> QED
      BY <1>1, <1>2, <3>1, <3>2 DEF PushGuarded
  <2> QED
    BY <1>4, <2>2, <2>3
<1>6. MovedWithinPolicy' /\ GuardedPushIsFresh'
  BY <1>3, <1>5 DEF GitInv, MovedWithinPolicy, GuardedPushIsFresh
<1> QED
  BY <1>1, <1>6, AnsweredInv

LEMMA GitCrashInv == ASSUME GitInv, GitCrash, cfg' = cfg PROVE GitInv'
<1>1. git' = [c \in Pushers |-> Unasked] /\ stale' = stale /\ moved' = moved
  BY DEF GitCrash
<1>2. GitType'
  BY <1>1, UnaskedType DEF GitInv, GitType
<1>3. \A c \in Pushers : git'[c] = Unasked
  BY <1>1
<1>4. \A c \in Pushers : PushAdmitted(git'[c]) /\ PushLookedAt(git'[c]) /\ PushGuarded(git'[c], stale')
  BY <1>3, UnaskedInv
<1> QED
  BY <1>1, <1>2, <1>4, SameMoved DEF GitInv

\* Other people's pushes, closed pull requests and reloads.
LEMMA GitOutsideInv ==
  ASSUME GitInv, git' = git, moved' = moved, stale \subseteq stale', stale' \subseteq Refs, cfg' \in Configs
  PROVE  GitInv'
<1>1. GitType'
  BY DEF GitInv, GitType
<1>2. \A c \in Pushers : PushAdmitted(git'[c]) /\ PushLookedAt(git'[c]) /\ PushGuarded(git'[c], stale')
  BY DEF GitInv, PushGuarded
<1> QED
  BY <1>1, <1>2, SameMoved DEF GitInv

LEMMA GitNextInv == ASSUME GitInv, [BrokerNext]_brokerVars PROVE GitInv'
<1>1. stale \subseteq Refs /\ cfg \in Configs
  BY DEF GitInv, GitType
<1>2. CASE git' = git /\ moved' = moved /\ stale' = stale /\ cfg' = cfg
  BY <1>1, <1>2, GitOutsideInv
<1>3. CASE ReloadConfig
  <2>1. git' = git /\ moved' = moved /\ stale' = stale /\ cfg' \in Configs
    BY <1>1, <1>3 DEF ReloadConfig, Reload, gitVars
  <2> QED
    BY <1>1, <2>1, GitOutsideInv
<1>4. CASE GitNext /\ cfg' = cfg
  <2>1. CASE PushedOutside \/ PullClosed
    <3>1. git' = git /\ moved' = moved /\ stale \subseteq stale' /\ stale' \subseteq Refs
      BY <1>1, <2>1 DEF PushedOutside, PullClosed
    <3> QED
      BY <1>1, <1>4, <3>1, GitOutsideInv
  <2>2. CASE GitCrash
    BY <1>4, <2>2, GitCrashInv
  <2>3. CASE \E c \in Pushers : \/ ReceiveGit(c) \/ CheckBranchLifecycle(c) \/ Preflight(c)
                                \/ Token(c) \/ Forward(c)
    BY <1>4, <2>3, ReceiveInv, GuardInv, PreflightInv, TokenInv, ForwardInv
  <2> QED
    BY <1>4, <2>1, <2>2, <2>3 DEF GitNext
<1> QED
  BY <1>2, <1>3, <1>4 DEF BrokerNext, brokerVars, configVars, gitVars

LEMMA GitInvariant == BrokerSpec => []GitInv
  BY GitInitInv, GitNextInv, PTL DEF BrokerSpec

\* Every ref that a push through the broker has moved is a branch that the
\* configuration of its request lets the agent push, and none was deleted, for
\* pushes of any number of refs (handleGit of server.go).
THEOREM PushesWithinPolicy == BrokerSpec => []MovedWithinPolicy
<1>1. GitInv => MovedWithinPolicy
  BY DEF GitInv
<1> QED
  BY <1>1, GitInvariant, PTL

\* A guard that denies keeps a push of one ref away from a branch whose pull
\* request was closed before the push came in (checkBranchLifecycle).
THEOREM GuardKeepsClosedBranches == BrokerSpec => []GuardedPushIsFresh
<1>1. GitInv => GuardedPushIsFresh
  BY DEF GitInv
<1> QED
  BY <1>1, GitInvariant, PTL

-----------------------------------------------------------------------------
(* The material of a scan.                                                 *)

\* Every set of naturals has a least element: the induction of these proofs.
LEMMA LeastElement ==
  ASSUME NEW T, T \subseteq Nat, T # {}
  PROVE  \E m \in T : \A k \in T : m <= k
<1>1. \A x, y \in Nat : x < y <=> <<x, y>> \in OpToRel(<, Nat)
  BY DEF OpToRel
<1>2. PICK m \in T : \A k \in T : ~(<<k, m>> \in OpToRel(<, Nat))
  BY WFMin, NatLessThanWellFounded
<1>3. \A k \in T : ~(k < m)
  BY <1>1, <1>2
<1> QED
  BY <1>3

\* Parents come before their children.
HistoryOK ==
    \A c \in Commits :
        /\ parents[c] # <<>> => 1 \in DOMAIN parents[c]
        /\ \A i \in DOMAIN parents[c] : parents[c][i] \in 0..(c - 1)

ScanInv == HistoryOK /\ MaterialCoversPush

LEMMA ReachClosed ==
  ASSUME NEW a \in Commits, NEW c \in Reach[a], NEW i \in DOMAIN parents[c], parents[c][i] \in Commits
  PROVE  c \in Commits /\ parents[c][i] \in Reach[a]
  BY DEF Reach, Ancestral

LEMMA ScanInitInv == BrokerInit => ScanInv
<1> SUFFICES ASSUME BrokerInit PROVE ScanInv
  OBVIOUS
<1>1. material = NoMaterial /\ (ScanInit \/ ScanIdle)
  BY DEF BrokerInit, ScanInit, ScanIdle
<1>2. CASE ScanIdle
  <2>1. \A c \in Commits : parents[c] = <<>> /\ DOMAIN parents[c] = {}
    BY <1>2 DEF ScanIdle
  <2> QED
    BY <1>1, <2>1 DEF ScanInv, HistoryOK, MaterialCoversPush, NoMaterial
<1>3. CASE ScanInit
  <2>1. \A c \in Commits : parents[c] \in ParentLists(c)
    BY <1>3 DEF ScanInit
  <2>2. ASSUME NEW c \in Commits, NEW l \in ParentLists(c)
        PROVE  /\ l # <<>> => 1 \in DOMAIN l
               /\ \A i \in DOMAIN l : l[i] \in 0..(c - 1)
    <3>1. CASE l = <<>>
      BY <3>1
    <3>2. CASE l \in {<<p>> : p \in 0..(c - 1)}
      <4>1. PICK p \in 0..(c - 1) : l = <<p>>
        BY <3>2
      <4>2. DOMAIN l = 1..1 /\ l[1] = p
        BY <4>1
      <4> QED
        BY <4>2
    <3>3. CASE l \in (0..(c - 1)) \X (0..(c - 1))
      <4>1. DOMAIN l = 1..2 /\ l[1] \in 0..(c - 1) /\ l[2] \in 0..(c - 1)
        BY <3>3
      <4> QED
        BY <4>1
    <3> QED
      BY <3>1, <3>2, <3>3 DEF ParentLists
  <2>3. HistoryOK
    BY <2>1, <2>2 DEF HistoryOK
  <2> QED
    BY <1>1, <2>3 DEF ScanInv, MaterialCoversPush, NoMaterial
<1> QED
  BY <1>1, <1>2, <1>3

\* A content that is not among the files of a commit comes from its first
\* parent; the least commit of the push that would show it nowhere cannot be.
AllSides(from, after, files) ==
    \A c \in Reach[after] \ Reach[from] : parents[c] # <<>> /\ Sides(c) \subseteq files

AllShown(from, after, files) ==
    \A c \in Reach[after] \ Reach[from], p \in Paths :
        \/ tree[c][p] = Absent
        \/ \E f \in files : f.path = p /\ f.blob = tree[c][p]
        \/ \E d \in Reach[from] : tree[d][p] = tree[c][p]

LEMMA FilesCover ==
  ASSUME HistoryOK, NEW from, NEW after \in Commits, NEW files, AllSides(from, after, files)
  PROVE  AllShown(from, after, files)
<1> SUFFICES ASSUME NEW p \in Paths, NEW c0 \in Reach[after] \ Reach[from]
             PROVE  \/ tree[c0][p] = Absent
                    \/ \E f \in files : f.path = p /\ f.blob = tree[c0][p]
                    \/ \E d \in Reach[from] : tree[d][p] = tree[c0][p]
  BY DEF AllShown
<1>0. \A c \in Reach[after] \ Reach[from] : parents[c] # <<>> /\ Sides(c) \subseteq files
  BY DEF AllSides
<1> DEFINE Shown(c) == \/ tree[c][p] = Absent
                       \/ \E f \in files : f.path = p /\ f.blob = tree[c][p]
                       \/ \E d \in Reach[from] : tree[d][p] = tree[c][p]
           T == {c \in Reach[after] \ Reach[from] : ~Shown(c)}
<1> SUFFICES ASSUME T # {} PROVE FALSE
  OBVIOUS
<1>1. T \subseteq Nat
  BY ScanAssumption DEF Reach, Commits
<1>2. PICK c \in T : \A k \in T : c <= k
  BY <1>1, LeastElement
<1>3. c \in Commits /\ c \in Nat
  BY <1>1 DEF Reach
<1> DEFINE q == parents[c][1]
<1>4. 1 \in DOMAIN parents[c] /\ q \in 0..(c - 1)
  BY <1>0, <1>3 DEF HistoryOK
<1>5. q \in Commits /\ q < c
  BY <1>3, <1>4, ScanAssumption DEF Commits
<1>6. q \in Reach[after]
  BY <1>4, <1>5, ReachClosed
<1>7. tree[c][p] = tree[q][p]
  <2> SUFFICES ASSUME tree[c][p] # tree[q][p] PROVE FALSE
    OBVIOUS
  <2>1. p \in Changed(c)
    BY DEF Changed
  <2>2. tree[c][p] # Absent
    OBVIOUS
  <2>3. [commit |-> c, path |-> p, blob |-> tree[c][p]] \in Sides(c)
    BY <2>1, <2>2 DEF Sides
  <2>4. [commit |-> c, path |-> p, blob |-> tree[c][p]] \in files
    BY <1>0, <2>3
  <2> QED
    BY <2>4
<1>8. q \in T
  BY <1>6, <1>7
<1> QED
  BY <1>1, <1>2, <1>3, <1>5, <1>8

LEMMA ScanStepInv == ASSUME ScanInv, Scan PROVE ScanInv'
<1>1. parents' = parents /\ tree' = tree
  BY DEF Scan
<1>2. HistoryOK' /\ Reach' = Reach
  BY <1>1 DEF ScanInv, HistoryOK, Reach, Ancestral
<1>3. PICK before \in Commits \cup {NewRef}, after \in Commits, lim \in Limits :
         \/ material' = PushTripwireMaterial(before, after, lim)
         \/ material' = [NoMaterial EXCEPT !.asked = TRUE]
  BY DEF Scan
<1>4. CASE material' = [NoMaterial EXCEPT !.asked = TRUE]
  BY <1>2, <1>4 DEF ScanInv, MaterialCoversPush, NoMaterial
<1>5. CASE material' = PushTripwireMaterial(before, after, lim) /\ material'.complete
  <2> DEFINE from == CompareBefore(before)
             listed == Reach[after] \ Reach[from]
  <2>1. Comparison(from, after).commits = listed
    BY DEF Comparison
  <2>2. /\ material'.from = from /\ material'.after = after
        /\ \A c \in listed : parents[c] # <<>>
        /\ material'.files = UNION {Sides(c) : c \in listed}
    BY <1>5, <2>1 DEF PushTripwireMaterial, Inspected
  <2>3. \A c \in listed : Sides(c) \subseteq material'.files
    BY <2>2
  <2>4. AllShown(from, after, material'.files)
    <3>1. HistoryOK
      BY DEF ScanInv
    <3>2. AllSides(from, after, material'.files)
      BY <2>2, <2>3 DEF AllSides
    <3> QED
      BY <3>1, <3>2, FilesCover
  <2>5. Reach'[material'.after] \ Reach'[material'.from] = listed /\ Reach'[material'.from] = Reach[from]
    BY <1>2, <2>2
  <2> HIDE DEF from
  <2> QED
    BY <1>1, <1>2, <2>4, <2>5 DEF ScanInv, MaterialCoversPush, AllShown
<1>6. CASE ~material'.complete
  BY <1>2, <1>6 DEF ScanInv, MaterialCoversPush
<1> QED
  BY <1>3, <1>4, <1>5, <1>6

LEMMA ScanNextInv == ASSUME ScanInv, [BrokerNext]_brokerVars PROVE ScanInv'
<1>1. CASE parents' = parents /\ tree' = tree /\ material' = material
  <2>1. HistoryOK' /\ Reach' = Reach
    BY <1>1 DEF ScanInv, HistoryOK, Reach, Ancestral
  <2>2. MaterialCoversPush'
    BY <1>1, <2>1 DEF ScanInv, MaterialCoversPush
  <2> QED
    BY <2>1, <2>2 DEF ScanInv
<1> QED
  BY <1>1, ScanStepInv DEF BrokerNext, ReloadConfig, ScanNext, BaseAdvances, brokerVars, scanVars

\* Material that claims to be complete shows every content that some commit of
\* the push holds and the repository did not hold at that path before, for
\* histories of any length and shape: what a commit does not change it has from
\* its first parent (PushTripwireMaterial of githubapp/client.go).  Content that
\* the push only takes away need not be shown.
THEOREM CompleteMaterialCovers == BrokerSpec => []MaterialCoversPush
<1>1. BrokerSpec => []ScanInv
  BY ScanInitInv, ScanNextInv, PTL DEF BrokerSpec
<1>2. ScanInv => MaterialCoversPush
  BY DEF ScanInv
<1> QED
  BY <1>1, <1>2, PTL

-----------------------------------------------------------------------------
(* The CI observation.                                                     *)

Evidence == [status: States, checks: [Apps -> States], runs: [Definitions -> States]]

ObsPcs == {"idle", "status", "checks", "runs", "rules", "reread"}

Observation == [pc: ObsPcs, head: Heads \cup {""}, got: Evidence, rules: Rules \cup {<<>>}]

CIType ==
    /\ head \in Heads /\ rules \in Rules
    /\ evidence \in [Heads -> Evidence]
    /\ seenGreen \in [Heads -> SUBSET Requirements]
    /\ obs \in Observation
    /\ answer.given => answer.head \in Heads

\* While a head is observed, whatever GitHub shows as satisfied for a head, and
\* whatever the observation has collected of its own, has been seen green.
Watched ==
    obs.pc # "idle" =>
        /\ obs.head \in Heads
        /\ \A q \in Requirements : Satisfied(q, evidence[obs.head]) => q \in seenGreen[obs.head]
        /\ \A q \in Requirements : Satisfied(q, obs.got) => q \in seenGreen[obs.head]

RulesRead == obs.pc = "reread" => obs.rules \in Rules

CIInv == CIType /\ Watched /\ RulesRead /\ SuccessWasGreen

LEMMA BlankEvidence == Blank \in Evidence /\ \A q : ~Satisfied(q, Blank)
<1>1. Blank \in Evidence
  BY DEF Blank, Evidence, States
<1>2. ASSUME NEW q PROVE ~Satisfied(q, Blank)
  BY DEF Blank, Satisfied
<1> QED
  BY <1>1, <1>2

LEMMA UnreadType == Unread \in Observation /\ Unread.pc = "idle" /\ Unread.got = Blank
  BY BlankEvidence DEF Unread, Observation, ObsPcs

LEMMA CIInitInv == BrokerInit => CIInv
<1> SUFFICES ASSUME BrokerInit PROVE CIInv
  OBVIOUS
<1>1. /\ head \in Heads /\ rules \in Rules /\ obs = Unread /\ answer = NoAnswer
      /\ evidence \in [Heads -> {Blank, AllGreen}] /\ seenGreen = [h \in Heads |-> {}]
  BY CIAssumption DEF BrokerInit, CIInit, CIIdle
<1>2. AllGreen \in Evidence
  BY DEF AllGreen, Evidence, States
<1>3. CIType
  BY <1>1, <1>2, BlankEvidence, UnreadType DEF CIType, NoAnswer
<1>4. Watched /\ RulesRead
  BY <1>1, UnreadType DEF Watched, RulesRead
<1> QED
  BY <1>1, <1>3, <1>4 DEF CIInv, SuccessWasGreen, NoAnswer

LEMMA BeginInv == ASSUME CIInv, ObserveBegins PROVE CIInv'
<1> DEFINE o == [Unread EXCEPT !.pc = "status", !.head = head]
<1>1. /\ head' = head /\ rules' = rules /\ evidence' = evidence /\ obs' = o
      /\ seenGreen' = Green(evidence) /\ answer' = NoAnswer
  BY DEF ObserveBegins
<1>2. o \in Observation /\ o.pc = "status" /\ o.head = head /\ o.got = Blank
  BY UnreadType DEF CIInv, CIType, Observation, ObsPcs
<1> HIDE DEF o
<1>3. CIType'
  <2>1. Green(evidence) \in [Heads -> SUBSET Requirements]
    BY DEF Green
  <2> QED
    BY <1>1, <1>2, <2>1 DEF CIInv, CIType, NoAnswer
<1>4. Watched'
  <2>1. \A q \in Requirements : Satisfied(q, evidence[head]) => q \in seenGreen'[head]
    BY <1>1 DEF Green, CIInv, CIType
  <2>2. obs'.head \in Heads /\ obs'.head = head /\ obs'.got = Blank /\ evidence' = evidence
    BY <1>1, <1>2 DEF CIInv, CIType
  <2> QED
    BY <2>1, <2>2, BlankEvidence DEF Watched
<1>5. RulesRead'
  BY <1>1, <1>2 DEF RulesRead
<1> QED
  BY <1>1, <1>3, <1>4, <1>5 DEF CIInv, SuccessWasGreen, NoAnswer

\* A part that is taken over adds only what it shows.
LEMMA TakenOver ==
  ASSUME NEW ev \in Evidence, NEW got \in Evidence, NEW new \in Evidence,
         new.status \in {got.status, ev.status}, new.checks \in {got.checks, ev.checks},
         new.runs \in {got.runs, ev.runs}, NEW q, Satisfied(q, new)
  PROVE  Satisfied(q, got) \/ Satisfied(q, ev)
<1>1. DOMAIN ev.runs = DOMAIN new.runs /\ DOMAIN got.runs = DOMAIN new.runs
  BY DEF Evidence
<1>2. CASE q.kind = "workflow"
  BY <1>1, <1>2 DEF Satisfied
<1>3. CASE q.kind # "workflow"
  BY <1>3 DEF Satisfied
<1> QED
  BY <1>2, <1>3

LEMMA CollectInv == ASSUME CIInv, Collect PROVE CIInv'
<1> DEFINE ev == evidence[obs.head]
<1>1. /\ head' = head /\ rules' = rules /\ evidence' = evidence /\ seenGreen' = seenGreen
      /\ answer' = answer
  BY DEF Collect
<1>2. /\ obs \in Observation /\ obs.pc # "idle" /\ obs.head \in Heads /\ ev \in Evidence
      /\ obs.got \in Evidence /\ rules \in Rules
      /\ \A q \in Requirements : Satisfied(q, ev) => q \in seenGreen[obs.head]
      /\ \A q \in Requirements : Satisfied(q, obs.got) => q \in seenGreen[obs.head]
  BY DEF Collect, CIInv, CIType, Watched, Observation
<1>3. /\ obs' \in Observation /\ obs'.head = obs.head
      /\ obs'.got.status \in {obs.got.status, ev.status}
      /\ obs'.got.checks \in {obs.got.checks, ev.checks}
      /\ obs'.got.runs \in {obs.got.runs, ev.runs}
      /\ obs'.pc = "reread" => obs'.rules \in Rules
  <2>1. CASE obs.pc = "status" /\ obs' = [obs EXCEPT !.pc = "checks", !.got.status = ev.status]
    BY <1>2, <2>1 DEF Observation, Evidence, ObsPcs
  <2>2. CASE obs.pc = "checks" /\ obs' = [obs EXCEPT !.pc = "runs", !.got.checks = ev.checks]
    BY <1>2, <2>2 DEF Observation, Evidence, ObsPcs
  <2>3. CASE obs.pc = "runs" /\ obs' = [obs EXCEPT !.pc = "rules", !.got.runs = ev.runs]
    BY <1>2, <2>3 DEF Observation, Evidence, ObsPcs
  <2>4. CASE obs.pc = "rules" /\ obs' = [obs EXCEPT !.pc = "reread", !.rules = rules]
    BY <1>2, <2>4 DEF Observation, Evidence, ObsPcs
  <2> QED
    BY <2>1, <2>2, <2>3, <2>4 DEF Collect
<1>4. obs'.got \in Evidence
  BY <1>3 DEF Observation
<1>5. \A q \in Requirements : Satisfied(q, obs'.got) => q \in seenGreen[obs.head]
  <2> DEFINE new == obs'.got
             got == obs.got
  <2> SUFFICES ASSUME NEW q \in Requirements, Satisfied(q, new) PROVE q \in seenGreen[obs.head]
    OBVIOUS
  <2>1. /\ new \in Evidence /\ got \in Evidence /\ ev \in Evidence
        /\ new.status \in {got.status, ev.status} /\ new.checks \in {got.checks, ev.checks}
        /\ new.runs \in {got.runs, ev.runs}
    BY <1>2, <1>3, <1>4
  <2> HIDE DEF new, got, ev
  <2>2. Satisfied(q, got) \/ Satisfied(q, ev)
    BY <2>1, TakenOver
  <2> QED
    BY <1>2, <2>2 DEF got, ev
<1>6. CIType' /\ RulesRead'
  BY <1>1, <1>3 DEF CIInv, CIType, RulesRead
<1>7. Watched'
  BY <1>1, <1>2, <1>3, <1>5 DEF Watched
<1> QED
  BY <1>1, <1>6, <1>7 DEF CIInv, SuccessWasGreen

\* An identity judged by the word "success" is satisfied by what was collected.
LEMMA SuccessSatisfies ==
  ASSUME NEW q, NEW ev, "success" \in Words(q, ev) PROVE Satisfied(q, ev)
<1>1. CASE q.kind = "workflow"
  BY <1>1 DEF Words, Satisfied, DefinitionMatches
<1>2. CASE q.kind # "workflow"
  BY <1>2 DEF Words, Satisfied
<1> QED
  BY <1>1, <1>2

\* Every identity of the rules has its place in the list of the required ones.
LEMMA AllRequired ==
  ASSUME NEW r \in Rules, NEW e \in Identities(r)
  PROVE  \E i \in DOMAIN RequiredCI(r) : RequiredCI(r)[i] = e
<1> DEFINE T == {i \in DOMAIN r : r[i] = e}
<1>1. Len(r) \in Nat /\ DOMAIN r = 1..Len(r)
  BY CIAssumption, LenProperties
<1>2. T # {} /\ T \subseteq Nat
  BY <1>1 DEF Identities, Entries
<1>3. PICK m \in T : \A k \in T : m <= k
  BY <1>2, LeastElement
<1>4. \A j \in 1..(m - 1) : r[j] # r[m]
  BY <1>1, <1>3
<1>5. m \in DOMAIN RequiredCI(r) /\ RequiredCI(r)[m] = e
  BY <1>3, <1>4 DEF RequiredCI
<1> QED
  BY <1>5

LEMMA EndsInv == ASSUME CIInv, ObserveEnds PROVE CIInv'
<1> DEFINE required == RequiredCI(obs.rules)
<1>1. /\ head' = head /\ rules' = rules /\ evidence' = evidence /\ seenGreen' = seenGreen
      /\ obs' = Unread
  BY DEF ObserveEnds
<1>2. PICK words \in [DOMAIN required -> States] :
         /\ \A i \in DOMAIN words : words[i] \in Words(required[i], obs.got)
         /\ answer' = IF StillCurrent
                        THEN [given |-> TRUE, state |-> Aggregate(words), head |-> head, rules |-> obs.rules]
                        ELSE NoAnswer
  BY DEF ObserveEnds
<1>3. obs.pc = "reread" /\ obs.rules \in Rules
  BY DEF ObserveEnds, CIInv, RulesRead
<1>4. SuccessWasGreen'
  <2>1. CASE StillCurrent /\ Aggregate(words) = "success"
    <3>1. \A i \in DOMAIN words : words[i] = "success"
      BY <2>1 DEF Aggregate
    <3>2. \A i \in DOMAIN required : Satisfied(required[i], obs.got)
      BY <1>2, <3>1, SuccessSatisfies
    <3>3. \A e \in Identities(obs.rules) : Satisfied(e, obs.got)
      BY <1>3, <3>2, AllRequired
    <3>4. \A e \in Identities(obs.rules) : e \in Requirements
      BY <1>3 DEF Requirements
    <3>5. Identities(obs.rules) \subseteq seenGreen[obs.head]
      BY <1>3, <3>3, <3>4 DEF CIInv, Watched
    <3>6. answer'.rules = obs.rules /\ answer'.head = obs.head
      BY <1>2, <2>1 DEF StillCurrent
    <3> QED
      BY <1>1, <3>5, <3>6 DEF SuccessWasGreen, Identities, Entries
  <2>2. CASE StillCurrent /\ Aggregate(words) # "success"
    BY <1>2, <2>2 DEF SuccessWasGreen
  <2>3. CASE ~StillCurrent
    BY <1>2, <2>3 DEF SuccessWasGreen, NoAnswer
  <2> QED
    BY <2>1, <2>2, <2>3
<1>5. answer'.given => answer'.head \in Heads
  BY <1>2 DEF CIInv, CIType, NoAnswer
<1>6. CIType' /\ Watched' /\ RulesRead'
  BY <1>1, <1>5, UnreadType DEF CIInv, CIType, Watched, RulesRead
<1> QED
  BY <1>4, <1>6 DEF CIInv

LEMMA ReportInv == ASSUME CIInv, Report PROVE CIInv'
<1>1. head' = head /\ rules' = rules /\ obs' = obs /\ answer' = answer /\ Watch(evidence')
  BY DEF Report
<1>2. PICK h \in Heads, s \in States \ {"none"} :
         \/ evidence' = [evidence EXCEPT ![h].status = s]
         \/ \E a \in Apps : evidence' = [evidence EXCEPT ![h].checks[a] = s]
         \/ \E d \in Definitions : evidence' = [evidence EXCEPT ![h].runs[d] = s]
  BY DEF Report
<1>3. evidence \in [Heads -> Evidence]
  BY DEF CIInv, CIType
<1>4. evidence' \in [Heads -> Evidence]
  <2>1. evidence[h] \in Evidence
    BY <1>3
  <2>2. [evidence[h] EXCEPT !.status = s] \in Evidence
    BY <2>1 DEF Evidence
  <2>3. \A a \in Apps : [evidence[h] EXCEPT !.checks[a] = s] \in Evidence
    BY <2>1 DEF Evidence
  <2>4. \A d \in Definitions : [evidence[h] EXCEPT !.runs[d] = s] \in Evidence
    BY <2>1 DEF Evidence
  <2>5. PICK e \in Evidence : evidence' = [evidence EXCEPT ![h] = e]
    BY <1>2, <2>2, <2>3, <2>4
  <2> QED
    BY <1>3, <2>5
<1>5. /\ seenGreen' \in [Heads -> SUBSET Requirements]
      /\ \A g \in Heads : seenGreen[g] \subseteq seenGreen'[g]
      /\ obs.pc # "idle" => \A g \in Heads : Green(evidence')[g] \subseteq seenGreen'[g]
  <2>1. seenGreen \in [Heads -> SUBSET Requirements]
    BY DEF CIInv, CIType
  <2>2. Green(evidence') \in [Heads -> SUBSET Requirements]
    BY DEF Green
  <2> QED
    BY <1>1, <2>1, <2>2 DEF Watch
<1>6. CIType'
  BY <1>1, <1>4, <1>5 DEF CIInv, CIType
<1>7. Watched'
  <2> SUFFICES ASSUME obs.pc # "idle"
               PROVE  /\ obs.head \in Heads
                      /\ \A q \in Requirements : Satisfied(q, evidence'[obs.head]) => q \in seenGreen'[obs.head]
                      /\ \A q \in Requirements : Satisfied(q, obs.got) => q \in seenGreen'[obs.head]
    BY <1>1 DEF Watched
  <2> QED
    BY <1>5 DEF CIInv, Watched, Green
<1>8. SuccessWasGreen'
  BY <1>1, <1>5 DEF CIInv, CIType, SuccessWasGreen
<1> QED
  BY <1>1, <1>6, <1>7, <1>8 DEF CIInv, RulesRead

LEMMA OtherCIInv == ASSUME CIInv, ReadFails \/ HeadMoves \/ RulesChange \/ UNCHANGED ciVars PROVE CIInv'
<1>1. /\ evidence' = evidence /\ seenGreen' = seenGreen /\ answer' = answer
      /\ obs' = obs \/ obs' = Unread
      /\ head' \in Heads /\ rules' \in Rules
  BY DEF ReadFails, HeadMoves, RulesChange, ciVars, CIInv, CIType
<1>2. CIType' /\ RulesRead' /\ Watched'
  BY <1>1, UnreadType DEF CIInv, CIType, RulesRead, Watched
<1> QED
  BY <1>1, <1>2 DEF CIInv, SuccessWasGreen

LEMMA CINextInv == ASSUME CIInv, [BrokerNext]_brokerVars PROVE CIInv'
<1>1. CINext \/ UNCHANGED ciVars
  BY DEF BrokerNext, ReloadConfig, brokerVars
<1> QED
  BY <1>1, BeginInv, CollectInv, EndsInv, ReportInv, OtherCIInv DEF CINext

LEMMA CIInvariant == BrokerSpec => []CIInv
  BY CIInitInv, CINextInv, PTL DEF BrokerSpec

\* For rules of any length, the answer "success" means that every identity the
\* rules require was satisfied at GitHub, for the head the answer shows, at a
\* moment of the observation (handleCIObservation, requiredCI, aggregateCI,
\* workflowRunMatches).
THEOREM SuccessIsEarned == BrokerSpec => []SuccessWasGreen
<1>1. CIInv => SuccessWasGreen
  BY DEF CIInv
<1> QED
  BY <1>1, CIInvariant, PTL
=============================================================================
