----------------------------- MODULE MCProcLive -----------------------------
\* Instances of ProcLive for TLC.  No symmetry: it is unsound for liveness.
EXTENDS ProcLive
=============================================================================
