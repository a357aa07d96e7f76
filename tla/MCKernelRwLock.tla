--------------------------- MODULE MCKernelRwLock ---------------------------
\* Instances of KernelRwLock.
EXTENDS KernelRwLock

CONSTANTS page, w1, w2, w3
=============================================================================
