----------------------------- MODULE MCPersist -----------------------------
\* Instances of Persist.
EXTENDS Persist
=============================================================================
