----------------------------- MODULE KernelLock -----------------------------
(***************************************************************************)
(* The kernel's futex lock (crates/bat-kernel/src/lock.rs, RawLock) with   *)
(* the kill gate around it: every worker counts the locks it holds or      *)
(* waits for in its thread record, and the supervisor (retire in           *)
(* runtime/src/kernel/kerneld.ts) marks a worker dying, polls that count   *)
(* until it reads zero and terminates the worker.                          *)
(*                                                                         *)
(* One action is one atomic access to shared memory.  A thread may hold    *)
(* several locks: the kernel nests them in one order (an object's lock,    *)
(* then the event queue of a process), which is the order of the numbers.  *)
(* Releases are in any order, since a guard can be dropped early.          *)
(***************************************************************************)
EXTENDS KernelThreads, Integers, Sequences

CONSTANTS
  Victims,      \* the workers the supervisor may retire
  Locks,        \* the locks, numbered in nesting order
  GiveUp,       \* TRUE: the supervisor's two seconds may run out
  NoThread

ASSUME LockAssumption ==
  /\ Victims \subseteq Threads
  /\ Locks \subseteq Int
  /\ IsFiniteSet(Locks)
  /\ GiveUp \in BOOLEAN
  /\ NoThread \notin Threads

VARIABLES
  word,     \* the lock word: 0 free, 1 held, 2 held with possible waiters
  held,     \* the locks whose guard each thread has
  want,     \* the lock a thread is acquiring or releasing
  pc,       \* where a thread is in lock() or unlock()
  depth,    \* Thread::lock_depth
  dying,    \* Thread::dying
  sleepers, \* the threads asleep on each word, in order of arrival
  phase     \* retirement of a worker: "live", "marked", "gone"

vars == <<word, held, want, pc, depth, dying, sleepers, phase>>

Idle == {"run", "parked"}
PC == Idle \cup {"gate", "cas", "spin", "swap", "futex", "asleep", "notify", "leave"}

\* A thread takes steps until its worker is terminated.
Runs(t, at) == phase[t] # "gone" /\ pc[t] = at

Goto(t, at) == pc' = [pc EXCEPT ![t] = at]

Init ==
  /\ word = [l \in Locks |-> 0]
  /\ held = [t \in Threads |-> {}]
  /\ want \in [Threads -> Locks]
  /\ pc = [t \in Threads |-> "run"]
  /\ depth = [t \in Threads |-> 0]
  /\ dying = [t \in Threads |-> FALSE]
  /\ sleepers = [l \in Locks |-> <<>>]
  /\ phase = [t \in Threads |-> "live"]

-----------------------------------------------------------------------------
\* lock()

\* gate_enter: count the lock before asking for it.
GateEnter(t, l) ==
  /\ Runs(t, "run")
  /\ \A h \in held[t] : h < l
  /\ depth' = [depth EXCEPT ![t] = @ + 1]
  /\ want' = [want EXCEPT ![t] = l]
  /\ Goto(t, "gate")
  /\ UNCHANGED <<word, held, dying, sleepers, phase>>

\* A gate that parks a dying thread between two locks.
GateCheckAlways(t) ==
  /\ Runs(t, "gate")
  /\ IF dying[t]
     THEN depth' = [depth EXCEPT ![t] = 0] /\ Goto(t, "parked")
     ELSE UNCHANGED depth /\ Goto(t, "cas")
  /\ UNCHANGED <<word, held, want, dying, sleepers, phase>>

\* The gate: a dying thread parks before its first lock, never between two.
GateCheck(t) ==
  /\ Runs(t, "gate")
  /\ IF depth[t] = 1 /\ dying[t]
     THEN depth' = [depth EXCEPT ![t] = 0] /\ Goto(t, "parked")
     ELSE UNCHANGED depth /\ Goto(t, "cas")
  /\ UNCHANGED <<word, held, want, dying, sleepers, phase>>

\* The word was seen free: leave v in it and own the lock.
Take(t, v) ==
  /\ word[want[t]] = 0
  /\ word' = [word EXCEPT ![want[t]] = v]
  /\ held' = [held EXCEPT ![t] = @ \cup {want[t]}]
  /\ Goto(t, "run")
  /\ UNCHANGED <<want, depth, dying, sleepers, phase>>

FastPath(t) == Runs(t, "cas") /\ Take(t, 1)

FastPathFails(t) ==
  /\ Runs(t, "cas")
  /\ word[want[t]] # 0
  /\ Goto(t, "spin")
  /\ UNCHANGED <<word, held, want, depth, dying, sleepers, phase>>

SpinTake(t) == Runs(t, "spin") /\ Take(t, 1)

\* SPINS tries failed.
SpinEnds(t) ==
  /\ Runs(t, "spin")
  /\ Goto(t, "swap")
  /\ UNCHANGED <<word, held, want, depth, dying, sleepers, phase>>

\* A woken thread that forgets those asleep behind it.
SwapTakeOne(t) == Runs(t, "swap") /\ Take(t, 1)

\* Others may be asleep, and this thread cannot know: it leaves 2 behind.
SwapTake(t) == Runs(t, "swap") /\ Take(t, 2)

SwapFails(t) ==
  /\ Runs(t, "swap")
  /\ word[want[t]] # 0
  /\ word' = [word EXCEPT ![want[t]] = 2]
  /\ Goto(t, IF t \in CanBlock THEN "futex" ELSE "swap")
  /\ UNCHANGED <<held, want, depth, dying, sleepers, phase>>

\* A sleep that does not compare the word.
SleepUnchecked(t) ==
  /\ Runs(t, "futex")
  /\ sleepers' = [sleepers EXCEPT ![want[t]] = Append(@, t)]
  /\ Goto(t, "asleep")
  /\ UNCHANGED <<word, held, want, depth, dying, phase>>

\* memory.atomic.wait compares and enqueues in one step.
Sleep(t) ==
  /\ Runs(t, "futex")
  /\ word[want[t]] = 2
  /\ sleepers' = [sleepers EXCEPT ![want[t]] = Append(@, t)]
  /\ Goto(t, "asleep")
  /\ UNCHANGED <<word, held, want, depth, dying, phase>>

SleepRefused(t) ==
  /\ Runs(t, "futex")
  /\ word[want[t]] # 2
  /\ Goto(t, "swap")
  /\ UNCHANGED <<word, held, want, depth, dying, sleepers, phase>>

-----------------------------------------------------------------------------
\* unlock()

Unlock(t, l) ==
  /\ Runs(t, "run")
  /\ l \in held[t]
  /\ word' = [word EXCEPT ![l] = 0]
  /\ held' = [held EXCEPT ![t] = @ \ {l}]
  /\ want' = [want EXCEPT ![t] = l]
  /\ Goto(t, IF word[l] = 2 THEN "notify" ELSE "leave")
  /\ UNCHANGED <<depth, dying, sleepers, phase>>

\* memory.atomic.notify wakes the waiter that came first.
Notify(t) ==
  /\ Runs(t, "notify")
  /\ LET l == want[t] IN
     IF sleepers[l] = <<>>
     THEN Goto(t, "leave") /\ UNCHANGED sleepers
     ELSE /\ sleepers' = [sleepers EXCEPT ![l] = Tail(@)]
          /\ pc' = [pc EXCEPT ![t] = "leave", ![Head(sleepers[l])] = "swap"]
  /\ UNCHANGED <<word, held, want, depth, dying, phase>>

GateLeave(t) ==
  /\ Runs(t, "leave")
  /\ depth' = [depth EXCEPT ![t] = @ - 1]
  /\ Goto(t, "run")
  /\ UNCHANGED <<word, held, want, dying, sleepers, phase>>

-----------------------------------------------------------------------------
\* The supervisor's side of the gate (retire).

MarkDying(v) ==
  /\ phase[v] = "live"
  /\ phase' = [phase EXCEPT ![v] = "marked"]
  /\ dying' = [dying EXCEPT ![v] = TRUE]
  /\ UNCHANGED <<word, held, want, pc, depth, sleepers>>

Without(s, u) ==
  LET i == CHOOSE j \in 1..Len(s) : s[j] = u
  IN  SubSeq(s, 1, i - 1) \o SubSeq(s, i + 1, Len(s))

\* A supervisor that does not poll the count.
TerminateAtOnce(v) ==
  /\ phase[v] = "marked"
  /\ phase' = [phase EXCEPT ![v] = "gone"]
  /\ UNCHANGED <<word, held, want, pc, depth, dying, sleepers>>

\* worker.terminate(): a worker asleep in a futex wait leaves the queue.
Terminate(v) ==
  /\ phase[v] = "marked"
  /\ depth[v] = 0 \/ GiveUp
  /\ phase' = [phase EXCEPT ![v] = "gone"]
  /\ sleepers' = IF pc[v] = "asleep"
                 THEN [sleepers EXCEPT ![want[v]] = Without(@, v)]
                 ELSE sleepers
  /\ UNCHANGED <<word, held, want, pc, depth, dying>>

-----------------------------------------------------------------------------
Waiting(t) ==
  \/ GateCheck(t) \/ FastPath(t) \/ FastPathFails(t)
  \/ SpinTake(t) \/ SpinEnds(t) \/ SwapTake(t) \/ SwapFails(t)
  \/ Sleep(t) \/ SleepRefused(t)

Leaving(t) == Notify(t) \/ GateLeave(t)

Next ==
  \/ \E t \in Threads, l \in Locks : GateEnter(t, l) \/ Unlock(t, l)
  \/ \E t \in Threads : Waiting(t) \/ Leaving(t)
  \/ \E v \in Victims : MarkDying(v) \/ Terminate(v)

Spec == Init /\ [][Next]_vars

\* Workers run in parallel, each on its own.  A critical section is short and
\* waits for nothing but inner locks, so its lock is released again and again.
Fairness ==
  /\ \A t \in Threads : WF_vars(Waiting(t)) /\ WF_vars(Leaving(t))
  /\ \A t \in Threads, l \in Locks : SF_vars(Unlock(t, l))

FairSpec == Spec /\ Fairness

-----------------------------------------------------------------------------
TypeOK ==
  /\ word \in [Locks -> 0..2]
  /\ held \in [Threads -> SUBSET Locks]
  /\ want \in [Threads -> Locks]
  /\ pc \in [Threads -> PC]
  /\ depth \in [Threads -> Nat]
  /\ dying \in [Threads -> BOOLEAN]
  /\ sleepers \in [Locks -> Seq(Threads)]
  /\ phase \in [Threads -> {"live", "marked", "gone"}]

\* Two threads never hold the guard of one lock, whatever mix of the fast
\* path, the spin and the swap of lock_slow they came through.
MutualExclusion ==
  \A t, u \in Threads : t # u => held[t] \cap held[u] = {}

\* lock.rs "Kill gate": a worker that was terminated after its count read zero,
\* or that parked, holds no lock and is not in the middle of taking or
\* releasing one, so no lock word stays set and no wake-up is owed for ever.
KillGateSafe ==
  \A t \in Threads :
    phase[t] = "gone" \/ pc[t] = "parked" => held[t] = {} /\ pc[t] \in Idle

\* No lost wake-up: while somebody sleeps on a lock, either the word tells the
\* next unlock to notify, or a thread is about to notify or to set it to 2.
SleeperIsCoveredBy(u, l) ==
  phase[u] # "gone" /\ want[u] = l /\ pc[u] \in {"notify", "swap"}

NoLostWakeup ==
  \A l \in Locks :
    sleepers[l] # <<>> => word[l] = 2 \/ \E u \in Threads : SleeperIsCoveredBy(u, l)

\* A thread asleep on the word of an innermost lock is woken again: FIFO notify
\* and the 2 left in the word by woken threads pass the wake-up on along the
\* queue.  (The holder of an outer lock may be overtaken at the inner one for
\* ever, and who waits for the outer one with it.)
Innermost(l) == \A m \in Locks : m <= l

AsleepInnermost(t) == pc[t] = "asleep" /\ Innermost(want[t])

SleeperWoken == \A t \in Threads : AsleepInnermost(t) ~> pc[t] # "asleep"

-----------------------------------------------------------------------------
\* The lock and its gate implement the abstract lock.
Owner(l) ==
  IF \E t \in Threads : l \in held[t]
  THEN CHOOSE t \in Threads : l \in held[t]
  ELSE NoThread

Abstract == INSTANCE AbstractLock WITH
  owner <- [l \in Locks |-> Owner(l)],
  stopped <- {t \in Threads : phase[t] = "gone"}

ImplementsAbstractLock == Abstract!Spec
=============================================================================
