--------------------------- MODULE MCBrokerServer ---------------------------
EXTENDS BrokerServer, TLC

CONSTANTS r1, r2

Broad == {Reserving, Creating, Upload, ReceivePack, "ci.read"}

Config(allowed, branches, assertion, guard, opaque, tripwire) ==
    [enabled |-> TRUE, operations |-> allowed, branches |-> branches, assertion |-> assertion,
     guard |-> guard, opaque |-> opaque, tripwire |-> tripwire]

\* A broad configuration, a strict one that a reload may switch to, and one
\* whose tripwire differs, which a reload must not take over.  The operations
\* that are answered from the file share no key or counter with comments and issues,
\* so no configuration has both.
MCConfigs ==
    {Config(Broad, {}, "warn", "deny", FALSE, TRUE),
     Config({ReceivePack}, {r1}, "deny", "warn", FALSE, TRUE),
     Config({Upload} \cup Replaying, {}, "off", "off", TRUE, FALSE)}

\* Two new issues in all, one of them of class x.
MCBudget == [s \in Scopes |-> IF s = "x" THEN 1 ELSE IF s = Total THEN 2 ELSE 0]

MCLimits == {[commits |-> 2, paths |-> 3], [commits |-> 9, paths |-> 9]}

\* A direct run, which names its ref only; the same ref used by another workflow;
\* and another ref, which names the repository it is taken from.
MCDefinitions ==
    {[sha |-> Hidden, ref |-> "main", repository |-> Hidden],
     [sha |-> "sha1", ref |-> "main", repository |-> Hidden],
     [sha |-> "sha1", ref |-> "dev", repository |-> "repo2"]}

\* No rule; a check twice and a definition pinned to a SHA and a ref; a check
\* pinned to an app; a workflow of a repository.
MCRules ==
    LET Entry(kind, pin, ref, repository) ==
            [kind |-> kind, pin |-> pin, ref |-> ref, repository |-> repository]
        check == Entry("check", AnyPin, AnyPin, AnyPin)
    IN {<<>>,
        <<check, Entry("deletion", AnyPin, AnyPin, AnyPin), check, Entry("workflow", "sha1", "main", AnyPin)>>,
        <<Entry("check", "app1", AnyPin, AnyPin)>>,
        <<Entry("workflow", AnyPin, AnyPin, "repo1")>>}

\* Nothing tells one request, or one text, from another.
Symmetry == Permutations(Clients) \cup Permutations(Bodies)
=============================================================================
