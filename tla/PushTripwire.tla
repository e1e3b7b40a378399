---------------------------- MODULE PushTripwire ----------------------------
(***************************************************************************)
(* The durable response controls of the push tripwire                      *)
(* (internal/pushtripwire and handlePushTripwireResponse): a scanner asks, *)
(* under an Idempotency-Key, that issuance for a profile be halted and a   *)
(* worker session be fenced.  Halt, fence request and response are one     *)
(* transaction; the fence itself is carried out by an adapter afterwards,  *)
(* and its outcome is written in two statements of their own.              *)
(***************************************************************************)
EXTENDS Integers, FiniteSets

CONSTANTS
    Scanners,       \* requests in progress
    TripKeys,       \* Idempotency-Keys
    Profiles,       \* profile generations
    Findings,       \* finding ids
    Bindings,       \* worker bindings
    HaltAllowed,    \* response_profiles with allow_halt
    FenceAllowed,   \* response_profiles with allow_fence
    MaxResponds,    \* bound on requests
    MaxTripFaults   \* bound on failing calls and crashes

NoBinding == "none"

VARIABLES
    trip,           \* the request each handler works on
    responses,      \* the responses table
    fences,         \* the fence_requests table: the state by finding
    halts,          \* the issuance_halts table
    catalog,        \* the issuance_enforcement_catalog table
    confirmed,      \* what the adapter has fenced: <<finding, binding>>
    responds,
    tripFaults

tripVars == <<trip, responses, fences, halts, catalog, confirmed, responds, tripFaults>>

\* Validate and responseWithinReviewedScope: a fence needs a binding, and the
\* profile must allow each action.
Reviewed ==
    {r \in [finding: Findings, profile: Profiles, actions: (SUBSET {"halt", "fence"}) \ {{}},
            binding: Bindings \cup {NoBinding}] :
        /\ "fence" \in r.actions => r.binding # NoBinding
        /\ "halt" \in r.actions => r.profile \in HaltAllowed
        /\ "fence" \in r.actions => r.profile \in FenceAllowed}

NoRequest == CHOOSE r \in Reviewed : TRUE
NoResponse == [known |-> FALSE, request |-> NoRequest, fence |-> "none"]
Rested == [pc |-> "idle", key |-> "", req |-> NoRequest]

\* The catalog is what another program has registered before: all or nothing.
\* No program of this repository does.
TripInit ==
    /\ trip = [s \in Scanners |-> Rested]
    /\ responses = [k \in TripKeys |-> NoResponse]
    /\ fences = [f \in Findings |-> "none"]
    /\ halts = {} /\ catalog \in {{}, Profiles}
    /\ confirmed = {}
    /\ responds = 0 /\ tripFaults = 0

TripFault == tripFaults < MaxTripFaults /\ tripFaults' = tripFaults + 1

Done(s) == trip' = [trip EXCEPT ![s] = Rested]
At(s, pc) == trip' = [trip EXCEPT ![s].pc = pc]

Respond(s) ==
    /\ trip[s].pc = "idle" /\ responds < MaxResponds
    /\ responds' = responds + 1
    /\ \E k \in TripKeys, r \in Reviewed :
         trip' = [trip EXCEPT ![s] = [pc |-> "lookup", key |-> k, req |-> r]]
    /\ UNCHANGED <<responses, fences, halts, catalog, confirmed, tripFaults>>

\* The row of the key: another request's is refused, this one's is replayed,
\* and a fence still requested is tried again.
LookupResponse(s) ==
    /\ trip[s].pc = "lookup"
    /\ LET row == responses[trip[s].key]
           r == trip[s].req
       IN \/ ~row.known /\ At(s, "apply") /\ tripFaults' = tripFaults
          \/ row.known /\ row.request # r /\ Done(s) /\ tripFaults' = tripFaults
          \/ /\ row.known /\ row.request = r /\ tripFaults' = tripFaults
             /\ IF row.fence = "fence_requested" THEN At(s, "fence") ELSE Done(s)
          \/ Done(s) /\ TripFault
    /\ UNCHANGED <<responses, fences, halts, catalog, confirmed, responds>>

\* One transaction under BEGIN IMMEDIATE; a response another request inserted
\* under the key meanwhile is a primary key conflict and rolls back.  An error
\* of COMMIT, or of closing after it, may leave the transaction done.
Apply(s) ==
    /\ trip[s].pc = "apply"
    /\ LET k == trip[s].key
           r == trip[s].req
           applies == /\ ~responses[k].known
                      /\ "halt" \in r.actions => r.profile \in catalog
       IN \/ /\ applies
             /\ halts' = IF "halt" \in r.actions THEN halts \cup {r.profile} ELSE halts
             /\ fences' = IF "fence" \in r.actions /\ fences[r.finding] = "none"
                            THEN [fences EXCEPT ![r.finding] = "requested"] ELSE fences
             /\ responses' = [responses EXCEPT ![k] =
                    [known |-> TRUE, request |-> r,
                     fence |-> IF "fence" \in r.actions THEN "fence_requested" ELSE "none"]]
             /\ \/ r.binding = NoBinding /\ Done(s) /\ tripFaults' = tripFaults
                \/ r.binding # NoBinding /\ At(s, "fence") /\ tripFaults' = tripFaults
                \/ Done(s) /\ TripFault
          \/ ~applies /\ Done(s) /\ UNCHANGED <<responses, fences, halts, tripFaults>>
          \/ TripFault /\ Done(s) /\ UNCHANGED <<responses, fences, halts>>
    /\ UNCHANGED <<catalog, confirmed, responds>>

\* Mutant: the adapter's error is not looked at.
AfterFenceAlways(s, ok) == At(s, "mark")

\* Only a confirmed fence is written down.
AfterFence(s, ok) == IF ok THEN At(s, "mark") ELSE Done(s)

\* Called for every request with a binding; no adapter is one that fails.
Fence(s) ==
    /\ trip[s].pc = "fence"
    /\ LET r == trip[s].req IN
         \/ /\ confirmed' = confirmed \cup {<<r.finding, r.binding>>}
            /\ AfterFence(s, TRUE)
         \/ confirmed' = confirmed /\ AfterFence(s, FALSE)
    /\ UNCHANGED <<responses, fences, halts, catalog, responds, tripFaults>>

\* The two updates; after a failing one the scanner is answered with an error.
MarkFence(s) ==
    /\ trip[s].pc = "mark"
    /\ LET f == trip[s].req.finding IN
         \/ /\ fences' = IF fences[f] = "none" THEN fences ELSE [fences EXCEPT ![f] = "fenced"]
            /\ At(s, "report") /\ tripFaults' = tripFaults
         \/ fences' = fences /\ Done(s) /\ TripFault
    /\ UNCHANGED <<responses, halts, catalog, confirmed, responds>>

MarkResponse(s) ==
    /\ trip[s].pc = "report"
    /\ LET r == trip[s].req IN
         \/ /\ responses' = [responses EXCEPT ![trip[s].key].fence =
                                IF "fence" \in r.actions THEN "fenced" ELSE @]
            /\ tripFaults' = tripFaults
         \/ responses' = responses /\ TripFault
    /\ Done(s)
    /\ UNCHANGED <<fences, halts, catalog, confirmed, responds>>

TripCrash ==
    /\ \E s \in Scanners : trip[s] # Rested
    /\ TripFault
    /\ trip' = [s \in Scanners |-> Rested]
    /\ UNCHANGED <<responses, fences, halts, catalog, confirmed, responds>>

TripNext ==
    \/ TripCrash
    \/ \E s \in Scanners : \/ Respond(s) \/ LookupResponse(s) \/ Apply(s)
                           \/ Fence(s) \/ MarkFence(s) \/ MarkResponse(s)

-----------------------------------------------------------------------------
\* Requested work is never reported as fenced: a stored response says fenced
\* only if the adapter confirmed the fence of exactly its binding, whatever
\* replays, concurrent requests, failing statements and crashes came between
\* (pushtripwire.go Apply).
FencedIsConfirmed ==
    \A k \in TripKeys : responses[k].fence = "fenced" =>
        <<responses[k].request.finding, responses[k].request.binding>> \in confirmed
=============================================================================
