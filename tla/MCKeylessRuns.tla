--------------------------- MODULE MCKeylessRuns ---------------------------
EXTENDS KeylessRuns

MCRuns == 1..2
MCProducts == {{"result", "summary", "lesson"}}
MCPolicies == {[keep |-> 0, age |-> 1, bytes |-> 5],
               [keep |-> 1, age |-> -1, bytes |-> 0]}
=============================================================================
