----------------------------- MODULE MCChatSync -----------------------------
\* Instances of ChatSync.
EXTENDS ChatSync
=============================================================================
