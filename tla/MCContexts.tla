---------------------------- MODULE MCContexts ----------------------------
\* Instances of ContextStore for TLC.
EXTENDS ContextStore
OneQp == {30}
TwoQps == {30, 32}
=============================================================================
