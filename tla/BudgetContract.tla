--------------------------- MODULE BudgetContract ---------------------------
(***************************************************************************)
(* What a per-run capability promises about model work: a handle is opened *)
(* once with a budget of calls and tokens, grants are made from it only    *)
(* while it is open and only as far as the budget goes, and upstream work  *)
(* is done only against a grant.  Once closed, by revocation or expiry, no *)
(* grant is made any more; work granted before may still be done.          *)
(***************************************************************************)
EXTENDS Integers

CONSTANTS Handles, Budgets

VARIABLES
    phase,      \* of each handle: new, open or closed
    budget,     \* the calls and tokens it was opened with
    granted,    \* the calls and tokens reserved so far
    spent       \* the calls and tokens of upstream work done so far

contractVars == <<phase, budget, granted, spent>>

None == [calls |-> 0, tokens |-> 0]

Covers(a, b) == b.calls <= a.calls /\ b.tokens <= a.tokens

ContractInit ==
    /\ phase = [h \in Handles |-> "new"]
    /\ budget = [h \in Handles |-> None]
    /\ granted = [h \in Handles |-> None]
    /\ spent = [h \in Handles |-> None]

Open(h) ==
    /\ phase[h] = "new"
    /\ phase' = [phase EXCEPT ![h] = "open"]
    /\ \E b \in Budgets : budget' = [budget EXCEPT ![h] = b]
    /\ UNCHANGED <<granted, spent>>

Grant(h) ==
    /\ phase[h] = "open"
    /\ granted' = [granted EXCEPT ![h] = granted'[h]]
    /\ Covers(granted'[h], granted[h])
    /\ Covers(budget[h], granted'[h])
    /\ UNCHANGED <<phase, budget, spent>>

Spend(h) ==
    /\ spent' = [spent EXCEPT ![h] = spent'[h]]
    /\ Covers(spent'[h], spent[h])
    /\ Covers(granted[h], spent'[h])
    /\ UNCHANGED <<phase, budget, granted>>

\* Several handles may expire at one instant.
Close ==
    /\ \A h \in Handles : \/ phase'[h] = phase[h]
                          \/ phase[h] = "open" /\ phase'[h] = "closed"
    /\ UNCHANGED <<budget, granted, spent>>

ContractNext == Close \/ \E h \in Handles : Open(h) \/ Grant(h) \/ Spend(h)

ContractSpec == ContractInit /\ [][ContractNext]_contractVars
=============================================================================
