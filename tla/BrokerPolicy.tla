---------------------------- MODULE BrokerPolicy ----------------------------
(***************************************************************************)
(* What the broker decides about a request before it does anything         *)
(* (internal/auth, internal/policy, snapshot and Reload of server.go): a   *)
(* handler works with the configuration it found when it started.  The one *)
(* agent of a configuration is a record of what it may do.                 *)
(***************************************************************************)
EXTENDS Integers, FiniteSets, Sequences

CONSTANTS
    Configs,    \* configurations: [enabled, operations, branches, assertion, guard, opaque, tripwire]
    MaxReloads  \* bound on reloads

VARIABLES
    cfg,        \* the current configuration
    reloads

configVars == <<cfg, reloads>>

ConfigInit == cfg \in Configs /\ reloads = 0

\* checkAssertions: a metadata field that is missing or wrong denies, warns or
\* does nothing, as the mode of the policy says.
Assertions(c, metadata) ==
    IF metadata \/ c.assertion = "off" THEN "allow"
    ELSE IF c.assertion = "warn" THEN "warn" ELSE "deny"

\* An operation or branch outside the lists denies, whatever the assertions
\* say; an empty list of branch patterns restricts nothing.
Check(c, operation, branch, metadata) ==
    IF \/ operation \notin c.operations
       \/ branch # "" /\ c.branches # {} /\ branch \notin c.branches
      THEN "deny" ELSE Assertions(c, metadata)

\* AuthenticateAgent and Check together: what gets past them.
Admits(c, operation, branch, metadata) ==
    c.enabled /\ Check(c, operation, branch, metadata) # "deny"

\* SIGHUP or POST /v1/admin/reload.  A file that does not load, or that would
\* switch the push tripwire, leaves everything as it was.
Reload ==
    /\ reloads < MaxReloads
    /\ reloads' = reloads + 1
    /\ \E c \in Configs : cfg' = IF c.tripwire = cfg.tripwire THEN c ELSE cfg
=============================================================================
