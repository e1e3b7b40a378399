-------------------------- MODULE CapabilityStore ---------------------------
(***************************************************************************)
(* The capability store of the sandbox broker (internal/capability): a     *)
(* launch mints a handle with immutable claims, a failed launch or the     *)
(* REST surface revokes it, and consumers verify it and reserve calls and  *)
(* tokens.  The store has one connection, so a transaction is one step.    *)
(* The claims that never differ between a request and its row (agent type, *)
(* mode, work item) are left out: the REST surface copies them.            *)
(***************************************************************************)
EXTENDS Integers, FiniteSets

CONSTANTS
    Handles,     \* plaintext handles that may be minted
    Runs,        \* run ids
    Models,      \* model names
    Policies,    \* capability policies of templates: [models, calls, tokens]
    MaxTime      \* bound on the clock

NoModel == "none"

VARIABLES
    caps,        \* the capabilities table
    now          \* the clock

capVars == <<caps, now>>

Zero == [calls |-> 0, tokens |-> 0]

Unissued == [state |-> "unissued", run |-> CHOOSE r \in Runs : TRUE, models |-> {},
             calls |-> 0, tokens |-> 0, expiry |-> 0, reserved |-> Zero]

\* A row of the capabilities table, or none yet.
Capability == [state: {"unissued", "active", "revoked"}, run: Runs, models: SUBSET Models,
               calls: Nat, tokens: Nat, expiry: Nat, reserved: [calls: Nat, tokens: Nat]]

CapTypeOK == now \in 0..MaxTime /\ caps \in [Handles -> Capability]

CapInit ==
    /\ caps = [h \in Handles |-> Unissued]
    /\ now = 0

-----------------------------------------------------------------------------
(* PolicyEvaluator.                                                        *)

CoherentModelAccess(c) ==
    IF c.models # {} THEN c.calls > 0 /\ c.tokens > 0
                     ELSE c.calls = 0 /\ c.tokens = 0

Validate(c) == CoherentModelAccess(c) /\ now < c.expiry

\* The remaining budget, not the sum, is compared, so nothing overflows.
Within(c, q) ==
    /\ c.reserved.calls <= c.calls /\ q.calls <= c.calls - c.reserved.calls
    /\ c.reserved.tokens <= c.tokens /\ q.tokens <= c.tokens - c.reserved.tokens

Authorize(c, q) ==
    /\ Validate(c)
    /\ IF c.models = {}
         THEN q.model = NoModel /\ q.calls = 0 /\ q.tokens = 0 /\ c.reserved = Zero
         ELSE q.model \in c.models \cup {NoModel} /\ Within(c, q)

-----------------------------------------------------------------------------
(* Store.                                                                  *)

\* scanCapabilityTx finds a row that is not revoked.
Found(h) == caps[h].state = "active"

Verify(h) == Found(h) /\ Validate(caps[h])

\* Mutant: the verification that came before is relied on.
CanReserveVerified(h, q) == caps[h].state # "unissued" /\ Within(caps[h], q)

\* One transaction reads the row, authorizes against it and updates it.
CanReserve(h, q) == Found(h) /\ Authorize(caps[h], q)

Reserve(h, q) ==
    /\ CanReserve(h, q)
    /\ caps' = [caps EXCEPT ![h].reserved.calls = @ + q.calls,
                            ![h].reserved.tokens = @ + q.tokens]
    /\ now' = now

NewClaims(models, run, calls, tokens, expiry) ==
    [state |-> "active", run |-> run, models |-> models, calls |-> calls,
     tokens |-> tokens, expiry |-> expiry, reserved |-> Zero]

\* The policy of the template and the run's own metadata make the claims; the
\* run's deadline is the expiry.
DeriveCapabilityClaims(policy, run, deadline) ==
    NewClaims(policy.models, run, policy.calls, policy.tokens, deadline)

Issue(h) ==
    /\ caps[h].state = "unissued"
    /\ \E p \in Policies, r \in Runs, d \in 1..MaxTime :
         LET c == DeriveCapabilityClaims(p, r, d)
         IN Validate(c) /\ caps' = [caps EXCEPT ![h] = c]
    /\ now' = now

\* A failed launch or POST /v1/capabilities/revoke.
Revoke(h) ==
    /\ caps[h].state # "unissued"
    /\ caps' = [caps EXCEPT ![h].state = "revoked"]
    /\ now' = now

Tick ==
    /\ now < MaxTime
    /\ now' = now + 1
    /\ caps' = caps
=============================================================================
