-------------------------- MODULE CredentialHolder --------------------------
(***************************************************************************)
(* The Codex credential holder (internal/codexauth): one master credential *)
(* that a loop refreshes at the provider, and the issuance record of a     *)
(* run.  Refresh and Issue hold the holder's mutex and the lock file for   *)
(* as long as they work.                                                   *)
(***************************************************************************)
EXTENDS Naturals

CONSTANT MaxRefreshes       \* bound on refreshes

ASSUME HolderAssumption == MaxRefreshes \in Nat

VARIABLES
    master,         \* access generation in the master file
    provider,       \* the generation the provider has given out last
    refreshing,     \* Refresh is between the provider's answer and its write
    lost,           \* history: an answer of the provider was never written
    record,         \* the run's issuance.json
    bundle          \* the generation projected to the run last, 0 for none

holderVars == <<master, provider, refreshing, lost, record, bundle>>
masterVars == <<master, provider, refreshing, lost>>

HolderTypeOK ==
    /\ master \in 1..(MaxRefreshes + 1) /\ provider \in 1..(MaxRefreshes + 1)
    /\ refreshing \in BOOLEAN /\ lost \in BOOLEAN
    /\ record \in {"none", "issued", "consumed"}
    /\ bundle \in 0..(MaxRefreshes + 1)

\* New refuses to start without a complete master file.
HolderInit ==
    /\ master = 1 /\ provider = 1
    /\ refreshing = FALSE /\ lost = FALSE
    /\ record = "none" /\ bundle = 0

\* The refresh loop asks the provider, which rotates the tokens.  It does so
\* only for the refresh token it gave out last.
RefreshAsk ==
    /\ ~refreshing /\ master = provider /\ provider <= MaxRefreshes
    /\ provider' = provider + 1
    /\ refreshing' = TRUE
    /\ UNCHANGED <<master, lost, record, bundle>>

\* writeJSONAtomic replaces the master file; without an answer, or when it
\* cannot be written, the file stays as it is.
RefreshWrite ==
    /\ refreshing
    /\ refreshing' = FALSE
    /\ \/ master' = provider /\ lost' = lost
       \/ master' = master /\ lost' = TRUE
    /\ UNCHANGED <<provider, record, bundle>>

\* A crash releases the locks.
HolderCrash ==
    /\ refreshing' = FALSE
    /\ lost' = (lost \/ refreshing)
    /\ UNCHANGED <<master, provider, record, bundle>>

\* Mutant: Issue does not wait for a refresh under way.
IssuableAnyTime == record # "consumed"

\* Issue has the locks, and the record was not consumed.
Issuable == ~refreshing /\ record # "consumed"

\* The bundle is a projection of what the master file holds now.
Issue ==
    /\ Issuable
    /\ record' = "issued"
    /\ bundle' = master
    /\ UNCHANGED masterVars

\* Consume marks the record of a bundle that was accepted.  Cleanup leaves it
\* alone: it only removes what older versions left.
Consume ==
    /\ ~refreshing
    /\ record' = IF record = "issued" THEN "consumed" ELSE record
    /\ UNCHANGED <<masterVars, bundle>>
=============================================================================
