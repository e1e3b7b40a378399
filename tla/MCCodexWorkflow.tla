-------------------------- MODULE MCCodexWorkflow --------------------------
EXTENDS CodexWorkflow
=============================================================================
