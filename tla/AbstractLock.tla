---------------------------- MODULE AbstractLock ----------------------------
(***************************************************************************)
(* What a kernel lock and the kill gate promise together: a lock has at    *)
(* most one owner, and a worker can only be stopped for good while it owns *)
(* none, so that no lock is ever lost with its owner.                      *)
(***************************************************************************)
CONSTANTS Threads, Locks, NoThread

VARIABLES
  owner,    \* the thread that owns each lock, or NoThread
  stopped   \* the threads that were stopped for good

vars == <<owner, stopped>>

Init ==
  /\ owner = [l \in Locks |-> NoThread]
  /\ stopped = {}

Acquire(t, l) ==
  /\ t \notin stopped
  /\ owner[l] = NoThread
  /\ owner' = [owner EXCEPT ![l] = t]
  /\ UNCHANGED stopped

Release(t, l) ==
  /\ t \notin stopped
  /\ owner[l] = t
  /\ owner' = [owner EXCEPT ![l] = NoThread]
  /\ UNCHANGED stopped

Stop(t) ==
  /\ t \notin stopped
  /\ \A l \in Locks : owner[l] # t
  /\ stopped' = stopped \cup {t}
  /\ UNCHANGED owner

Next ==
  \/ \E t \in Threads, l \in Locks : Acquire(t, l) \/ Release(t, l)
  \/ \E t \in Threads : Stop(t)

Spec == Init /\ [][Next]_vars
=============================================================================
