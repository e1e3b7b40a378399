---------------------------- MODULE BrokerServer ----------------------------
(***************************************************************************)
(* The broker process: the handlers of internal/server besides pull.create *)
(* under one configuration that is reloaded while they run.  The five      *)
(* areas share no other state, so a behaviour exercises one of them,       *)
(* chosen at the start, and the others stay as they are.                   *)
(***************************************************************************)
EXTENDS IssueOps, GitTransport, CIObservation, PushScan, PushTripwire

VARIABLE serving

brokerVars == <<serving, configVars, issueVars, gitVars, ciVars, scanVars, tripVars>>

BrokerInit ==
    /\ serving \in {"issues", "git", "ci", "scan", "tripwire"}
    /\ ConfigInit
    /\ IssueInit /\ TripInit
    /\ serving # "tripwire" => catalog = {}
    /\ serving = "issues" => cfg.operations \cap (Replaying \cup {Reserving}) # {}
    /\ serving \in {"ci", "scan", "tripwire"} => "ci.read" \in cfg.operations
    /\ IF serving = "git" THEN GitInit ELSE GitIdle
    /\ IF serving = "ci" THEN CIInit ELSE CIIdle
    /\ IF serving = "scan" THEN ScanInit ELSE ScanIdle

\* A handler asks the policy once, when its request begins; only a push keeps
\* the configuration it found, so reloads are explored where pushes are.
ReloadConfig ==
    /\ serving = "git"
    /\ Reload
    /\ UNCHANGED <<serving, issueVars, gitVars, ciVars, scanVars, tripVars>>

BrokerNext ==
    \/ ReloadConfig
    \/ /\ serving = "issues" /\ IssueNext
       /\ UNCHANGED <<serving, configVars, gitVars, ciVars, scanVars, tripVars>>
    \/ /\ serving = "git" /\ GitNext
       /\ UNCHANGED <<serving, configVars, issueVars, ciVars, scanVars, tripVars>>
    \/ /\ serving = "ci" /\ CINext
       /\ UNCHANGED <<serving, configVars, issueVars, gitVars, scanVars, tripVars>>
    \/ /\ serving = "scan" /\ ScanNext
       /\ UNCHANGED <<serving, configVars, issueVars, gitVars, ciVars, tripVars>>
    \/ /\ serving = "tripwire" /\ TripNext
       /\ UNCHANGED <<serving, configVars, issueVars, gitVars, ciVars, scanVars>>

BrokerSpec == BrokerInit /\ [][BrokerNext]_brokerVars
=============================================================================
