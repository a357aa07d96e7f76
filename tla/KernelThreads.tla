--------------------------- MODULE KernelThreads ---------------------------
(***************************************************************************)
(* What the two locks of the kernel (crates/bat-kernel/src/lock.rs) have   *)
(* in common: the threads that ask for them.                               *)
(***************************************************************************)
EXTENDS FiniteSets

CONSTANTS
  Threads,      \* instances of the kernel module: page, kerneld, workers
  CanBlock      \* those that may sleep in a futex wait (not the page)

ASSUME ThreadsAssumption ==
  /\ IsFiniteSet(Threads)
  /\ CanBlock \subseteq Threads
=============================================================================
