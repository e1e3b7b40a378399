----------------------------- MODULE ModelProxy -----------------------------
(***************************************************************************)
(* gh-agent-proxy (internal/proxy): requests to POST /v1/model/call and    *)
(* POST /v1/responses, handled concurrently.  With capability_api_url set  *)
(* a request presents a handle, is verified, and reserves one call and a   *)
(* bound on its tokens at the capability store before it is forwarded.     *)
(* Without it (the older configuration) a call is counted in a state file  *)
(* before and its tokens after the upstream answer.                        *)
(***************************************************************************)
EXTENDS CapabilityStore

CONSTANTS
    Handlers,       \* requests in progress
    CodexModels,    \* codex_allowed_models
    DefaultOut,     \* their max_output_tokens
    Sizes,          \* serialized request sizes, in bytes
    Outs,           \* output caps a caller declares, 0 for none
    MaxInt,         \* math.MaxInt64
    MaxCallsPerRun, \* max_calls_per_run
    MaxTokensPerRun,\* max_tokens_per_run
    MaxUsage,       \* bound on the tokens of one upstream answer
    MaxRequests,    \* bound on requests
    MaxFaults       \* bound on failing calls, lost answers and restarts

\* Validate refuses budgets that are not positive and, with capabilities, a
\* model without a cap of its own.
ConfigValid ==
    /\ MaxCallsPerRun >= 1 /\ MaxTokensPerRun >= 1
    /\ CodexModels # {} => DefaultOut >= 1

ASSUME ProxyConfigValid == ConfigValid

\* A minted handle is no run id, and neither is empty; sizes and limits are
\* counts.
ASSUME ProxyAssumption ==
    /\ Handles \cap Runs = {} /\ "" \notin Handles \cup Runs /\ Runs # {}
    /\ Policies \subseteq [models: SUBSET Models, calls: Nat, tokens: Nat]
    /\ Sizes \subseteq Nat /\ Outs \subseteq Nat /\ DefaultOut \in Nat
    /\ MaxInt \in Nat /\ MaxTokensPerRun \in Nat /\ MaxCallsPerRun \in Nat /\ MaxUsage \in Nat
    /\ MaxTime \in Nat /\ MaxRequests \in Nat /\ MaxFaults \in Nat

VARIABLES
    enabled,        \* capabilityEnabled
    job,            \* the request each handler works on
    file,           \* the budget state file
    up,             \* upstream work by handle or run
    delivered,      \* tokens of the complete answers each run was given
    requests,
    faults

vars == <<caps, now, enabled, job, file, up, delivered, requests, faults>>

proxyVars == <<file, up, delivered>>

Idle == [pc |-> "idle", ep |-> "", handle |-> "", run |-> "", model |-> NoModel,
         models |-> {}, bound |-> 0]

Plus(a, calls, tokens) == [calls |-> a.calls + calls, tokens |-> a.tokens + tokens]

Job == [pc: {"idle", "auth", "preflight", "verify", "reserve",
             "forward", "count", "send", "charge", "charge_stream"},
        ep: {"", "model_call", "responses"}, handle: Handles \cup {""},
        run: Runs \cup {""}, model: Models \cup {NoModel}, models: SUBSET Models, bound: Nat]

TypeOK ==
    /\ CapTypeOK
    /\ enabled \in BOOLEAN
    /\ job \in [Handlers -> Job]
    /\ file \in [Runs -> [calls: Nat, tokens: 0..MaxTokensPerRun]]
    /\ up \in [Handles \cup Runs -> [calls: Nat, tokens: Nat]]
    /\ delivered \in [Runs -> Nat]
    /\ requests \in 0..MaxRequests
    /\ faults \in 0..MaxFaults

Init ==
    /\ CapInit
    /\ enabled \in BOOLEAN
    /\ job = [p \in Handlers |-> Idle]
    /\ file = [r \in Runs |-> Zero]
    /\ up = [x \in Handles \cup Runs |-> Zero]
    /\ delivered = [r \in Runs |-> 0]
    /\ requests = 0
    /\ faults = 0

Fault == faults < MaxFaults /\ faults' = faults + 1

Goto(p, pc) == job' = [job EXCEPT ![p].pc = pc]
Deny(p) == job' = [job EXCEPT ![p] = Idle]

-----------------------------------------------------------------------------
(* Requests with a capability.                                             *)

\* A request for one of the two endpoints arrives; its bearer handle and the
\* run id it claims may be missing.  Without capabilities a request that names
\* no run or a model that is not allowed goes no further.
Arrive(p) ==
    /\ job[p].pc = "idle" /\ requests < MaxRequests
    /\ requests' = requests + 1
    /\ \E ep \in {"model_call", "responses"}, r \in Runs \cup {""}, h \in Handles \cup {""} :
         /\ enabled \/ (h = "" /\ r # "")
         /\ job' = [job EXCEPT ![p] = [Idle EXCEPT !.pc = IF enabled THEN "auth" ELSE "count",
                                                   !.ep = ep, !.run = r, !.handle = h]]
    /\ UNCHANGED <<caps, now, enabled, proxyVars, faults>>

\* The caller's run id only serves to refuse a request that names another run.
Identified(p) ==
    /\ job[p].handle # ""
    /\ Verify(job[p].handle)
    /\ job[p].run \in {"", caps[job[p].handle].run}

AuthenticateCapability(p) ==
    /\ job[p].pc = "auth"
    /\ \/ /\ Identified(p)
          /\ job' = [job EXCEPT ![p].pc = "preflight", ![p].models = caps[job[p].handle].models]
          /\ faults' = faults
       \/ ~Identified(p) /\ Deny(p) /\ faults' = faults
       \/ Fault /\ Deny(p)
    /\ UNCHANGED <<caps, now, enabled, proxyVars, requests>>

BoundFails(bytes, out) == bytes <= 0 \/ out <= 0 \/ bytes > MaxInt - out

\* A cap the caller leaves out is the model's own on /v1/responses.
EffectiveOut(p, out) ==
    IF job[p].ep = "responses" /\ out = 0 THEN DefaultOut ELSE out

\* What the request may cost upstream: its input and the output it asks for.
Preflight(p) ==
    /\ job[p].pc = "preflight"
    /\ \E m \in Models \cup {NoModel}, b \in Sizes, o \in Outs :
         LET out == EffectiveOut(p, o)
             admitted == /\ job[p].ep = "responses" => m \in CodexModels
                         /\ ~BoundFails(b, out)
                         /\ m \in job[p].models
         IN job' = [job EXCEPT ![p] =
                      IF admitted THEN [@ EXCEPT !.pc = "verify", !.model = m,
                                                 !.bound = b + out,
                                                 !.run = "", !.models = {}]
                                  ELSE Idle]
    /\ UNCHANGED <<caps, now, enabled, proxyVars, requests, faults>>

Query(p) == [model |-> job[p].model, calls |-> 1, tokens |-> job[p].bound]

\* handleReserve verifies the handle once more to fill in its identity.
ReserveVerify(p) ==
    /\ job[p].pc = "verify"
    /\ IF Verify(job[p].handle) THEN Goto(p, "reserve") ELSE Deny(p)
    /\ UNCHANGED <<caps, now, enabled, proxyVars, requests, faults>>

\* The reservation may be made and its answer lost: the call is refused and
\* what was reserved is not given back.
ReserveBudget(p) ==
    /\ job[p].pc = "reserve"
    /\ LET h == job[p].handle IN
         \/ Reserve(h, Query(p)) /\ Goto(p, "forward") /\ faults' = faults
         \/ Reserve(h, Query(p)) /\ Deny(p) /\ Fault
         \/ ~CanReserve(h, Query(p)) /\ Deny(p) /\ UNCHANGED <<caps, now, faults>>
    /\ UNCHANGED <<enabled, proxyVars, requests>>

\* Whatever becomes of the answer, nothing more is authorized or charged.
SpendReserved(p, ep) ==
    /\ job[p].pc = "forward" /\ job[p].ep = ep
    /\ \E u \in 0..job[p].bound :
         up' = [up EXCEPT ![job[p].handle] = Plus(@, 1, u)]
    /\ Deny(p)
    /\ UNCHANGED <<caps, now, enabled, file, delivered, requests, faults>>

Forward(p) == SpendReserved(p, "model_call")
ForwardCodex(p) == SpendReserved(p, "responses")

-----------------------------------------------------------------------------
(* Requests without capabilities: the budget file, under one mutex.        *)

\* Mutant: the limit is passed by one.
CallsSpentOffByOne(r) == file[r].calls > MaxCallsPerRun

CallsSpent(r) == file[r].calls >= MaxCallsPerRun

\* The file is written whole to a temporary name and renamed.
WriteBudget(f) == file' = f

ReserveCall(p) ==
    /\ job[p].pc = "count"
    /\ LET r == job[p].run IN
         \/ CallsSpent(r) /\ Deny(p) /\ UNCHANGED <<file, faults>>
         \/ /\ ~CallsSpent(r)
            /\ \/ WriteBudget([file EXCEPT ![r].calls = @ + 1]) /\ Goto(p, "send") /\ faults' = faults
               \/ file' = file /\ Deny(p) /\ Fault
    /\ UNCHANGED <<caps, now, enabled, up, delivered, requests>>

\* An answer that fails, is too large or breaks off is not charged.
Answered(p, pc) ==
    /\ job[p].pc = "send"
    /\ \E u \in 0..MaxUsage :
         /\ up' = [up EXCEPT ![job[p].run] = Plus(@, 1, u)]
         /\ \/ Deny(p) /\ Fault
            \/ job' = [job EXCEPT ![p].pc = pc, ![p].bound = u] /\ faults' = faults
    /\ UNCHANGED <<caps, now, enabled, file, delivered, requests>>

Send(p) == Answered(p, "charge")

\* A stream has been passed on by the time its usage is known.
StreamCodexResponse(p) == job[p].ep = "responses" /\ Answered(p, "charge_stream")

TokensExceeded(r, tokens) == file[r].tokens + tokens > MaxTokensPerRun

\* No usage costs nothing; too much is refused and leaves the counter as it
\* was; only a whole answer that was charged is given to the client.
ReserveTokens(p) ==
    /\ job[p].pc \in {"charge", "charge_stream"}
    /\ LET r == job[p].run
           u == job[p].bound
           Deliver == delivered' = [delivered EXCEPT ![r] = IF job[p].pc = "charge" THEN @ + u ELSE @]
       IN \/ u <= 0 /\ UNCHANGED <<file, delivered, faults>>
          \/ u > 0 /\ TokensExceeded(r, u) /\ UNCHANGED <<file, delivered, faults>>
          \/ /\ u > 0 /\ ~TokensExceeded(r, u)
             /\ \/ WriteBudget([file EXCEPT ![r].tokens = @ + u]) /\ Deliver /\ faults' = faults
                \/ UNCHANGED <<file, delivered>> /\ Fault
    /\ Deny(p)
    /\ UNCHANGED <<caps, now, enabled, up, requests>>

-----------------------------------------------------------------------------
\* The proxy is restarted: its requests are gone, the file and the store stay.
Restart ==
    /\ \E p \in Handlers : job[p] # Idle
    /\ Fault
    /\ job' = [p \in Handlers |-> Idle]
    /\ UNCHANGED <<caps, now, enabled, proxyVars, requests>>

StoreStep ==
    /\ enabled
    /\ Tick \/ \E h \in Handles : Issue(h) \/ Revoke(h)
    /\ UNCHANGED <<enabled, job, proxyVars, requests, faults>>

Next ==
    \/ StoreStep
    \/ Restart
    \/ \E p \in Handlers :
         \/ Arrive(p) \/ AuthenticateCapability(p) \/ Preflight(p)
         \/ ReserveVerify(p) \/ ReserveBudget(p) \/ Forward(p) \/ ForwardCodex(p)
         \/ ReserveCall(p) \/ Send(p) \/ StreamCodexResponse(p) \/ ReserveTokens(p)

Spec == Init /\ [][Next]_vars

-----------------------------------------------------------------------------
(* Properties.                                                             *)

Ended(h) == caps[h].state = "revoked" \/ (caps[h].state = "active" /\ now >= caps[h].expiry)

Contract == INSTANCE BudgetContract WITH
    Budgets <- {[calls |-> p.calls, tokens |-> p.tokens] : p \in Policies},
    phase <- [h \in Handles |-> IF caps[h].state = "unissued" THEN "new"
                               ELSE IF Ended(h) THEN "closed" ELSE "open"],
    budget <- [h \in Handles |-> [calls |-> caps[h].calls, tokens |-> caps[h].tokens]],
    granted <- [h \in Handles |-> caps[h].reserved],
    spent <- [h \in Handles |-> up[h]]

\* Concurrent requests, lost answers, revocations, expiry and restarts
\* notwithstanding, upstream work stays within what was reserved, what is
\* reserved within the budget of the handle, and nothing is reserved on a
\* handle that was revoked or has expired (store.go Reserve, capability.go
\* Authorize, capability_enforce.go reserveCapabilityBudget).
KeepsBudget == Contract!ContractSpec

\* Without capabilities a run never makes more upstream calls than
\* max_calls_per_run, and the answers it is handed whole never amount to
\* more than max_tokens_per_run (proxy.go reserveCall, reserveTokens).
LegacyWithinBudget ==
    \A r \in Runs : up[r].calls <= MaxCallsPerRun /\ delivered[r] <= MaxTokensPerRun
=============================================================================
