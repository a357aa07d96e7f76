---------------------------- MODULE MCKernelLock ----------------------------
EXTENDS KernelLock, TLC

CONSTANTS page, w1, w2, w3

TwoLocks == {1, 2}
OneLock == {1}
=============================================================================
