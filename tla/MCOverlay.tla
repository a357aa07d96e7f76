----------------------------- MODULE MCOverlay -----------------------------
\* Instances of Overlay: the values of its constants are numbers, given in the
\* .cfg files.
EXTENDS Overlay
=============================================================================
