-------------------------- MODULE KernelLockProofs --------------------------
(***************************************************************************)
(* Proofs about the two locks of the kernel, for any number of threads:    *)
(* the lock with its gate (types, mutual exclusion, no lost wake-up, the   *)
(* kill gate of a supervisor that never gives up, and that every step is a *)
(* step of the abstract lock), and behind it the reader/writer lock.       *)
(***************************************************************************)
EXTENDS KernelLock, KernelRwLock, FiniteSetTheorems, SequenceTheorems, TLAPS

\* The gate's count is exact: the guards a thread holds, and one more while
\* it is inside lock() or unlock().
DepthCounts ==
  \A t \in Threads :
    depth[t] = Cardinality(held[t]) + (IF pc[t] \in Idle THEN 0 ELSE 1)

\* A free word has no owner: whoever finds 0 takes the lock alone.
FreeWordUnowned ==
  \A l \in Locks : word[l] = 0 => \A t \in Threads : l \notin held[t]

ParkedHoldsNothing ==
  \A t \in Threads : pc[t] = "parked" => held[t] = {}

\* A wait queue holds threads that are asleep on that word, each once.
SleepersAreAsleep ==
  \A l \in Locks : \A i \in 1..Len(sleepers[l]) :
    /\ pc[sleepers[l][i]] = "asleep"
    /\ want[sleepers[l][i]] = l
    /\ \A j \in 1..Len(sleepers[l]) : sleepers[l][j] = sleepers[l][i] => j = i

\* A live thread asleep on a word is in that word's queue.
AsleepIsQueued ==
  \A t \in Threads : pc[t] = "asleep" /\ phase[t] # "gone" =>
    \E i \in 1..Len(sleepers[want[t]]) : sleepers[want[t]][i] = t

\* A worker that was terminated at depth zero was outside the lock code.
GoneIsIdle ==
  GiveUp = FALSE =>
    \A t \in Threads : phase[t] = "gone" => held[t] = {} /\ pc[t] \in Idle

IInv ==
  /\ TypeOK
  /\ MutualExclusion
  /\ FreeWordUnowned
  /\ DepthCounts
  /\ ParkedHoldsNothing
  /\ SleepersAreAsleep
  /\ AsleepIsQueued
  /\ GoneIsIdle

-----------------------------------------------------------------------------
\* The guards of one thread are a finite set, so its count is a number.
LEMMA HeldFinite ==
  ASSUME TypeOK, NEW t \in Threads
  PROVE  IsFiniteSet(held[t]) /\ Cardinality(held[t]) \in Nat
<1>1. held[t] \subseteq Locks
  BY DEF TypeOK
<1>2. IsFiniteSet(Locks)
  BY LockAssumption, ThreadsAssumption
     DEF LockAssumption, ThreadsAssumption
<1> QED
  BY <1>1, <1>2, FS_Subset, FS_CardinalityType

Distinct(q) == \A i, j \in 1..Len(q) : q[i] = q[j] => i = j

\* r is q without its k-th element.
Drops(q, k, r) ==
  /\ r \in Seq(Threads)
  /\ Len(r) = Len(q) - 1
  /\ \A i \in 1..k - 1 : r[i] = q[i]
  /\ \A i \in k..Len(q) - 1 : r[i] = q[i + 1]
  /\ \A i \in 1..Len(q) : i # k => \E j \in 1..Len(r) : r[j] = q[i]

\* Leaving a wait queue keeps the order and the identity of the others.
LEMMA WithoutKeeps ==
  ASSUME NEW q \in Seq(Threads), NEW u, Distinct(q),
         \E k \in 1..Len(q) : q[k] = u
  PROVE  \E k \in 1..Len(q) : q[k] = u /\ Drops(q, k, Without(q, u))
<1> PICK k \in 1..Len(q) : q[k] = u
  OBVIOUS
<1>1. (CHOOSE j \in 1..Len(q) : q[j] = u) = k
  BY DEF Distinct
<1> DEFINE a == SubSeq(q, 1, k - 1)
           b == SubSeq(q, k + 1, Len(q))
<1>2. Without(q, u) = a \o b
  BY <1>1 DEF Without
<1>3. a \in Seq(Threads) /\ Len(a) = k - 1 /\ \A i \in 1..k - 1 : a[i] = q[i]
  BY SubSeqProperties
<1>4. /\ b \in Seq(Threads)
      /\ Len(b) = Len(q) - k
      /\ \A i \in 1..Len(q) - k : b[i] = q[k + i]
  BY SubSeqProperties
<1> HIDE DEF a, b
<1>5. /\ a \o b \in Seq(Threads)
      /\ Len(a \o b) = Len(a) + Len(b)
      /\ \A i \in 1..Len(a) + Len(b) :
           (a \o b)[i] = IF i <= Len(a) THEN a[i] ELSE b[i - Len(a)]
  <2>1. a \in Seq(Threads) /\ b \in Seq(Threads)
    BY <1>3, <1>4
  <2> QED
    BY <2>1, ConcatProperties
<1>6. Len(q) \in Nat /\ k \in Nat /\ Len(a) + Len(b) = Len(q) - 1
  BY <1>3, <1>4
<1>7. ASSUME NEW i \in 1..Len(q) - 1
      PROVE  /\ i < k => (a \o b)[i] = q[i]
             /\ i >= k => (a \o b)[i] = q[i + 1]
  <2>1. CASE i < k
    BY <2>1, <1>3, <1>5, <1>6
  <2>2. CASE i >= k
    <3>1. (a \o b)[i] = b[i - (k - 1)]
      BY <2>2, <1>3, <1>5, <1>6
    <3>2. i - (k - 1) \in 1..Len(q) - k
      BY <2>2, <1>6
    <3>3. b[i - (k - 1)] = q[k + (i - (k - 1))]
      BY <3>2, <1>4
    <3> QED
      BY <3>1, <3>3, <2>2, <1>6
  <2> QED
    BY <2>1, <2>2, <1>6
<1>8. \A i \in 1..k - 1 : (a \o b)[i] = q[i]
  BY <1>6, <1>7
<1>9. \A i \in k..Len(q) - 1 : (a \o b)[i] = q[i + 1]
  BY <1>6, <1>7
<1> QED
  <2> DEFINE r == a \o b
  <2>1. /\ r \in Seq(Threads)
        /\ Len(r) = Len(q) - 1
        /\ \A i \in 1..k - 1 : r[i] = q[i]
        /\ \A i \in k..Len(q) - 1 : r[i] = q[i + 1]
    BY <1>5, <1>6, <1>8, <1>9
  <2> HIDE DEF r
  <2>2. ASSUME NEW i \in 1..Len(q), i # k
        PROVE  \E j \in 1..Len(r) : r[j] = q[i]
    <3>1. CASE i < k
      BY <1>6, <2>1, <3>1
    <3>2. CASE i > k
      <4>1. i - 1 \in k..Len(q) - 1 /\ i - 1 \in 1..Len(r) /\ (i - 1) + 1 = i
        BY <1>6, <2>1, <3>2
      <4>2. r[i - 1] = q[(i - 1) + 1]
        BY <2>1, <4>1
      <4> QED
        BY <4>1, <4>2
    <3> QED
      BY <1>6, <2>2, <3>1, <3>2
  <2>3. Drops(q, k, r)
    BY <2>1, <2>2 DEF Drops
  <2> QED
    BY <1>2, <2>3 DEF r

-----------------------------------------------------------------------------
\* A fresh kernel satisfies the invariant: no lock is held, nobody waits.
LEMMA InitIInv == Init => IInv
<1> SUFFICES ASSUME Init PROVE IInv
  OBVIOUS
<1> USE DEF Init, Idle, PC
<1>1. Cardinality({}) = 0
  BY FS_EmptySet
<1>2. TypeOK
  BY DEF TypeOK
<1>3. MutualExclusion /\ FreeWordUnowned /\ ParkedHoldsNothing /\ GoneIsIdle
  BY DEF MutualExclusion, FreeWordUnowned, ParkedHoldsNothing, GoneIsIdle
<1>4. DepthCounts
  BY <1>1 DEF DepthCounts
<1>5. SleepersAreAsleep /\ AsleepIsQueued
  BY DEF SleepersAreAsleep, AsleepIsQueued
<1> QED
  BY <1>2, <1>3, <1>4, <1>5 DEF IInv

\* A thread that asks, tries, spins, sleeps or finds the word taken changes no
\* ownership; it only moves along.
Moves(t) ==
  \/ GateCheck(t) \/ FastPathFails(t) \/ SpinEnds(t) \/ SwapFails(t)
  \/ Sleep(t) \/ SleepRefused(t)

Takes(t) == FastPath(t) \/ SpinTake(t) \/ SwapTake(t)

\* A step of the specification is a step of one of these eight kinds, by a
\* thread, or changes nothing.
LEMMA NextCases ==
  ASSUME [Next]_vars
  PROVE  \/ \E t \in Threads, l \in Locks : GateEnter(t, l)
         \/ \E t \in Threads, l \in Locks : Unlock(t, l)
         \/ \E t \in Threads : Moves(t)
         \/ \E t \in Threads : Takes(t)
         \/ \E t \in Threads : Notify(t)
         \/ \E t \in Threads : GateLeave(t)
         \/ \E v \in Threads : MarkDying(v)
         \/ \E v \in Threads : Terminate(v)
         \/ UNCHANGED vars
<1>1. Victims \subseteq Threads
  BY LockAssumption, ThreadsAssumption
     DEF LockAssumption, ThreadsAssumption
<1> QED
  BY <1>1 DEF Next, Waiting, Leaving, Moves, Takes

\* Steps keep the types.  The count stays a number because a thread that leaves
\* the lock was counted on entry; the queue of a terminated worker stays a
\* sequence because the worker was in it.
LEMMA TypeStep ==
  ASSUME TypeOK, DepthCounts, SleepersAreAsleep, AsleepIsQueued, [Next]_vars
  PROVE  TypeOK'
<1> USE DEF TypeOK, PC, Idle, Goto, Runs
<1>1. ASSUME NEW t \in Threads, NEW l \in Locks, GateEnter(t, l)
      PROVE  TypeOK'
  BY <1>1 DEF GateEnter
<1>2. ASSUME NEW t \in Threads, NEW l \in Locks, Unlock(t, l)
      PROVE  TypeOK'
  BY <1>2 DEF Unlock
<1>3. ASSUME NEW t \in Threads, Moves(t)
      PROVE  TypeOK'
  <2>1. CASE GateCheck(t)
    <3>1. CASE depth[t] = 1 /\ dying[t]
      <4>1. /\ depth' = [depth EXCEPT ![t] = 0]
            /\ pc' = [pc EXCEPT ![t] = "parked"]
            /\ UNCHANGED <<word, held, want, dying, sleepers, phase>>
        BY <2>1, <3>1, Zenon DEF GateCheck
      <4> QED
        BY <4>1
    <3>2. CASE ~(depth[t] = 1 /\ dying[t])
      BY <2>1, <3>2 DEF GateCheck
    <3> QED
      BY <3>1, <3>2
  <2>2. CASE FastPathFails(t) \/ SpinEnds(t) \/ SleepRefused(t)
    BY <2>2 DEF FastPathFails, SpinEnds, SleepRefused
  <2>3. CASE SwapFails(t)
    BY <2>3 DEF SwapFails
  <2>4. CASE Sleep(t)
    <3>1. Append(sleepers[want[t]], t) \in Seq(Threads)
      BY AppendProperties
    <3>2. sleepers' \in [Locks -> Seq(Threads)]
      BY <2>4, <3>1 DEF Sleep
    <3>3. pc' \in [Threads -> PC]
      BY <2>4 DEF Sleep
    <3> QED
      BY <2>4, <3>2, <3>3 DEF Sleep
  <2> QED
    BY <1>3, <2>1, <2>2, <2>3, <2>4 DEF Moves
<1>4. ASSUME NEW t \in Threads, Takes(t)
      PROVE  TypeOK'
  <2>1. PICK v \in {1, 2} : Take(t, v)
    BY <1>4 DEF Takes, FastPath, SpinTake, SwapTake
  <2> QED
    BY <2>1 DEF Take
<1>5. ASSUME NEW t \in Threads, Notify(t)
      PROVE  TypeOK'
  <2> DEFINE l == want[t]
  <2>1. CASE sleepers[l] = <<>>
    BY <1>5, <2>1 DEF Notify
  <2>2. CASE sleepers[l] # <<>>
    <3>1. Head(sleepers[l]) \in Threads /\ Tail(sleepers[l]) \in Seq(Threads)
      BY <2>2, HeadTailProperties
    <3>2. /\ sleepers' = [sleepers EXCEPT ![l] = Tail(@)]
          /\ pc' = [pc EXCEPT ![t] = "leave", ![Head(sleepers[l])] = "swap"]
          /\ UNCHANGED <<word, held, want, depth, dying, phase>>
      BY <1>5, <2>2 DEF Notify
    <3>3. sleepers' \in [Locks -> Seq(Threads)]
      BY <3>1, <3>2
    <3>4. pc' \in [Threads -> PC]
      BY <3>1, <3>2
    <3> QED
      BY <3>2, <3>3, <3>4
  <2> QED
    BY <2>1, <2>2
<1>6. ASSUME NEW t \in Threads, GateLeave(t)
      PROVE  TypeOK'
  <2>1. depth[t] = Cardinality(held[t]) + 1
    BY <1>6 DEF GateLeave, DepthCounts
  <2>2. depth[t] - 1 \in Nat
    BY <2>1, HeldFinite
  <2> QED
    BY <1>6, <2>2 DEF GateLeave
<1>7. ASSUME NEW v \in Threads, MarkDying(v)
      PROVE  TypeOK'
  BY <1>7 DEF MarkDying
<1>8. ASSUME NEW v \in Threads, Terminate(v)
      PROVE  TypeOK'
  <2>1. phase' = [phase EXCEPT ![v] = "gone"] /\ UNCHANGED <<word, held, want, pc, depth, dying>>
    BY <1>8 DEF Terminate
  <2>2. sleepers' \in [Locks -> Seq(Threads)]
    <3>1. CASE pc[v] # "asleep"
      BY <1>8, <3>1 DEF Terminate
    <3>2. CASE pc[v] = "asleep"
      <4> DEFINE q == sleepers[want[v]]
      <4>1. Without(q, v) \in Seq(Threads)
        <5>1. q \in Seq(Threads)
          OBVIOUS
        <5>2. \E k \in 1..Len(q) : q[k] = v
          BY <1>8, <3>2 DEF AsleepIsQueued, Terminate
        <5>3. Distinct(q)
          BY DEF SleepersAreAsleep, Distinct
        <5> QED
          BY <5>1, <5>2, <5>3, WithoutKeeps DEF Drops
      <4> QED
        BY <1>8, <3>2, <4>1 DEF Terminate
    <3> QED
      BY <3>1, <3>2
  <2> QED
    BY <2>1, <2>2
<1>9. CASE UNCHANGED vars
  BY <1>9 DEF vars
<1> QED
  BY <1>1, <1>2, <1>3, <1>4, <1>5, <1>6, <1>7, <1>8, <1>9, NextCases

-----------------------------------------------------------------------------
\* Ownership: only Takes and Unlock change a guard, and a lock is taken only
\* when its word is free.
LEMMA OwnershipStep ==
  ASSUME TypeOK, MutualExclusion, FreeWordUnowned, [Next]_vars
  PROVE  MutualExclusion' /\ FreeWordUnowned'
<1> USE DEF TypeOK, MutualExclusion, FreeWordUnowned
<1>1. ASSUME NEW t \in Threads, NEW l \in Locks, Unlock(t, l)
      PROVE  MutualExclusion' /\ FreeWordUnowned'
  BY <1>1 DEF Unlock
<1>2. ASSUME NEW t \in Threads, Takes(t)
      PROVE  MutualExclusion' /\ FreeWordUnowned'
  <2>1. PICK v \in {1, 2} : Take(t, v)
    BY <1>2 DEF Takes, FastPath, SpinTake, SwapTake
  <2> QED
    BY <2>1 DEF Take
<1>3. ASSUME NEW t \in Threads, SwapFails(t)
      PROVE  MutualExclusion' /\ FreeWordUnowned'
  BY <1>3 DEF SwapFails
<1>4. ASSUME UNCHANGED <<word, held>>
      PROVE  MutualExclusion' /\ FreeWordUnowned'
  BY <1>4
<1>5. ASSUME NEW t \in Threads, Moves(t), ~SwapFails(t)
      PROVE  UNCHANGED <<word, held>>
  BY <1>5 DEF Moves, GateCheck, FastPathFails, SpinEnds, Sleep, SleepRefused
<1>6. ASSUME NEW t \in Threads, NEW l \in Locks, GateEnter(t, l)
      PROVE  UNCHANGED <<word, held>>
  BY <1>6 DEF GateEnter
<1>7. ASSUME NEW t \in Threads, Notify(t) \/ GateLeave(t)
      PROVE  UNCHANGED <<word, held>>
  BY <1>7 DEF Notify, GateLeave
<1>8. ASSUME NEW v \in Threads, MarkDying(v) \/ Terminate(v)
      PROVE  UNCHANGED <<word, held>>
  BY <1>8 DEF MarkDying, Terminate
<1>9. ASSUME UNCHANGED vars
      PROVE  UNCHANGED <<word, held>>
  BY <1>9 DEF vars
<1> QED
  BY <1>1, <1>2, <1>3, <1>4, <1>5, <1>6, <1>7, <1>8, <1>9, NextCases

\* The count: one more for each guard gained, one less for each guard lost,
\* and one while the thread is between the gate's two ends.
LEMMA CountStep ==
  ASSUME TypeOK, FreeWordUnowned, DepthCounts, ParkedHoldsNothing,
         SleepersAreAsleep, [Next]_vars
  PROVE  DepthCounts' /\ ParkedHoldsNothing'
<1> USE DEF TypeOK, PC, Idle, Goto, Runs
<1> DEFINE Counted(u) ==
             /\ depth'[u] = Cardinality(held'[u])
                            + (IF pc'[u] \in Idle THEN 0 ELSE 1)
             /\ pc'[u] = "parked" => held'[u] = {}
<1>0. \A u \in Threads : IsFiniteSet(held[u]) /\ Cardinality(held[u]) \in Nat
  BY HeldFinite
<1>1. ASSUME NEW u \in Threads,
             depth'[u] = depth[u], held'[u] = held[u], pc'[u] = pc[u]
      PROVE  Counted(u)
  BY <1>1 DEF DepthCounts, ParkedHoldsNothing
<1>2. ASSUME NEW u \in Threads,
             depth'[u] = depth[u], held'[u] = held[u],
             pc[u] \notin Idle, pc'[u] \notin Idle
      PROVE  Counted(u)
  BY <1>2 DEF DepthCounts, ParkedHoldsNothing
<1>3. ASSUME NEW t \in Threads, NEW l \in Locks, GateEnter(t, l),
             NEW u \in Threads
      PROVE  Counted(u)
  <2>1. CASE u # t
    BY <1>1, <1>3, <2>1 DEF GateEnter
  <2>2. CASE u = t
    BY <1>0, <1>3, <2>2 DEF GateEnter, DepthCounts
  <2> QED
    BY <2>1, <2>2
<1>4. ASSUME NEW t \in Threads, NEW l \in Locks, Unlock(t, l),
             NEW u \in Threads
      PROVE  Counted(u)
  <2>1. CASE u # t
    BY <1>1, <1>4, <2>1 DEF Unlock
  <2>2. CASE u = t
    <3>1. /\ pc[u] = "run" /\ l \in held[u] /\ held'[u] = held[u] \ {l}
          /\ depth'[u] = depth[u] /\ pc'[u] \in {"notify", "leave"}
      BY <1>4, <2>2 DEF Unlock
    <3>2. Cardinality(held[u] \ {l}) = Cardinality(held[u]) - 1
      BY <1>0, <3>1, FS_RemoveElement, Zenon
    <3>3. depth[u] = Cardinality(held[u])
      BY <1>0, <3>1 DEF DepthCounts
    <3>4. depth'[u] = Cardinality(held'[u]) + 1
      BY <1>0, <3>1, <3>2, <3>3
    <3> QED
      BY <3>1, <3>4
  <2> QED
    BY <2>1, <2>2
<1>5. ASSUME NEW t \in Threads, Moves(t), NEW u \in Threads
      PROVE  Counted(u)
  <2>1. CASE GateCheck(t) /\ u = t /\ depth[t] = 1 /\ dying[t]
    <3>1. depth'[u] = 0 /\ pc'[u] = "parked" /\ held'[u] = held[u] /\ pc[u] = "gate"
      <4>1. /\ depth' = [depth EXCEPT ![t] = 0]
            /\ pc' = [pc EXCEPT ![t] = "parked"]
            /\ held' = held /\ pc[t] = "gate"
        BY <2>1, Zenon DEF GateCheck
      <4> QED
        BY <2>1, <4>1
    <3>2. Cardinality(held[u]) = 0
      <4>1. depth[u] = Cardinality(held[u]) + 1
        BY <3>1 DEF DepthCounts
      <4>2. depth[u] = 1
        BY <2>1, Zenon
      <4> QED
        BY <1>0, <4>1, <4>2
    <3>3. held[u] = {}
      BY <1>0, <3>2, FS_EmptySet
    <3> QED
      BY <3>1, <3>2, <3>3
  <2>2. CASE GateCheck(t) /\ u = t /\ ~(depth[t] = 1 /\ dying[t])
    BY <1>2, <2>2 DEF GateCheck
  <2>3. CASE GateCheck(t) /\ u # t
    <3>1. /\ held' = held
          /\ depth' = depth \/ depth' = [depth EXCEPT ![t] = 0]
          /\ pc' = [pc EXCEPT ![t] = "parked"] \/ pc' = [pc EXCEPT ![t] = "cas"]
      BY <2>3, Zenon DEF GateCheck
    <3> QED
      BY <1>1, <2>3, <3>1
  <2>4. CASE FastPathFails(t) \/ SpinEnds(t) \/ SwapFails(t)
    BY <1>1, <1>2, <2>4 DEF FastPathFails, SpinEnds, SwapFails
  <2>5. CASE Sleep(t) \/ SleepRefused(t)
    BY <1>1, <1>2, <2>5 DEF Sleep, SleepRefused
  <2> QED
    BY <1>5, <2>1, <2>2, <2>3, <2>4, <2>5 DEF Moves
<1>6. ASSUME NEW t \in Threads, Takes(t), NEW u \in Threads
      PROVE  Counted(u)
  <2>1. PICK v \in {1, 2} : Take(t, v) /\ pc[t] \in {"cas", "spin", "swap"}
    BY <1>6 DEF Takes, FastPath, SpinTake, SwapTake
  <2>2. CASE u # t
    BY <1>1, <2>1, <2>2 DEF Take
  <2>3. CASE u = t
    <3>1. /\ want[t] \notin held[t] /\ held'[u] = held[u] \cup {want[t]}
          /\ depth'[u] = depth[u] /\ pc'[u] = "run"
      BY <2>1, <2>3 DEF Take, FreeWordUnowned
    <3>2. Cardinality(held[u] \cup {want[t]}) = Cardinality(held[u]) + 1
      BY <1>0, <2>3, <3>1, FS_AddElement, Zenon
    <3>3. depth[u] = Cardinality(held[u]) + 1
      BY <1>0, <2>1, <2>3 DEF DepthCounts
    <3>4. depth'[u] = Cardinality(held'[u])
      BY <1>0, <3>1, <3>2, <3>3
    <3>5. pc'[u] \in Idle /\ pc'[u] # "parked" /\ depth'[u] + 0 = depth'[u]
      BY <1>0, <2>1, <3>1, <3>3
    <3>6. Cardinality(held'[u]) + 0 = Cardinality(held'[u])
      BY <3>4, <3>5
    <3> QED
      BY <3>4, <3>5, <3>6
  <2> QED
    BY <2>2, <2>3
<1>7. ASSUME NEW t \in Threads, Notify(t), NEW u \in Threads
      PROVE  Counted(u)
  <2> DEFINE q == sleepers[want[t]]
  <2>1. CASE q = <<>>
    BY <1>1, <1>2, <1>7, <2>1 DEF Notify
  <2>2. CASE q # <<>>
    <3>1. /\ pc' = [pc EXCEPT ![t] = "leave", ![Head(q)] = "swap"]
          /\ held' = held /\ depth' = depth /\ pc[t] = "notify"
      BY <1>7, <2>2 DEF Notify
    <3>2. Head(q) = q[1] /\ 1 \in 1..Len(q) /\ Head(q) \in Threads
      BY <2>2, HeadTailProperties
    <3>3. pc[Head(q)] = "asleep"
      BY <3>2 DEF SleepersAreAsleep
    <3>4. CASE u \in {t, Head(q)}
      BY <1>2, <3>1, <3>2, <3>3, <3>4
    <3>5. CASE u \notin {t, Head(q)}
      BY <1>1, <3>1, <3>5
    <3> QED
      BY <3>4, <3>5
  <2> QED
    BY <2>1, <2>2
<1>8. ASSUME NEW t \in Threads, GateLeave(t), NEW u \in Threads
      PROVE  Counted(u)
  <2>1. CASE u # t
    BY <1>1, <1>8, <2>1 DEF GateLeave
  <2>2. CASE u = t
    <3>1. /\ pc[u] = "leave" /\ pc'[u] = "run" /\ held'[u] = held[u]
          /\ depth'[u] = depth[u] - 1
      BY <1>8, <2>2 DEF GateLeave
    <3>2. depth[u] = Cardinality(held[u]) + 1
      BY <3>1 DEF DepthCounts
    <3>3. depth'[u] = Cardinality(held'[u])
      BY <1>0, <3>1, <3>2
    <3> QED
      BY <3>1, <3>3
  <2> QED
    BY <2>1, <2>2
<1>9. ASSUME UNCHANGED <<depth, held, pc>>, NEW u \in Threads
      PROVE  Counted(u)
  BY <1>1, <1>9
<1>10. ASSUME NEW v \in Threads, MarkDying(v) \/ Terminate(v)
       PROVE  UNCHANGED <<depth, held, pc>>
  BY <1>10 DEF MarkDying, Terminate
<1>11. ASSUME UNCHANGED vars
       PROVE  UNCHANGED <<depth, held, pc>>
  BY <1>11 DEF vars
<1>12. \A u \in Threads : Counted(u)
  BY <1>3, <1>4, <1>5, <1>6, <1>7, <1>8, <1>9, <1>10, <1>11, NextCases
<1> QED
  BY <1>12 DEF DepthCounts, ParkedHoldsNothing

-----------------------------------------------------------------------------
\* A step of a thread that neither goes to sleep nor is woken disturbs no queue.
LEMMA QueueFrame ==
  ASSUME TypeOK, SleepersAreAsleep, AsleepIsQueued,
         NEW t \in Threads, pc[t] # "asleep", pc'[t] # "asleep",
         sleepers' = sleepers,
         \A u \in Threads : u # t => pc'[u] = pc[u] /\ want'[u] = want[u],
         \A u \in Threads : phase[u] = "gone" => phase'[u] = "gone"
  PROVE  SleepersAreAsleep' /\ AsleepIsQueued'
<1>1. \A l \in Locks : \A i \in 1..Len(sleepers[l]) :
        sleepers[l][i] \in Threads /\ sleepers[l][i] # t
  BY DEF TypeOK, SleepersAreAsleep
<1>2. SleepersAreAsleep'
  BY <1>1 DEF SleepersAreAsleep
<1>3. AsleepIsQueued'
  BY DEF AsleepIsQueued
<1> QED
  BY <1>2, <1>3

\* The wait queues hold exactly the threads that are asleep: whoever goes to
\* sleep is appended, whoever is notified or terminated leaves.
LEMMA QueueStep ==
  ASSUME TypeOK, SleepersAreAsleep, AsleepIsQueued, [Next]_vars
  PROVE  SleepersAreAsleep' /\ AsleepIsQueued'
<1> USE DEF TypeOK, PC, Idle, Goto, Runs
<1> DEFINE Kept == SleepersAreAsleep' /\ AsleepIsQueued'
<1>1. ASSUME NEW t \in Threads, NEW l \in Locks, GateEnter(t, l)
      PROVE  Kept
  BY <1>1, QueueFrame DEF GateEnter
<1>2. ASSUME NEW t \in Threads, NEW l \in Locks, Unlock(t, l)
      PROVE  Kept
  BY <1>2, QueueFrame DEF Unlock
<1>3. ASSUME NEW t \in Threads, Moves(t), ~Sleep(t)
      PROVE  Kept
  <2>1. CASE GateCheck(t)
    <3>1. /\ pc' = [pc EXCEPT ![t] = "parked"] \/ pc' = [pc EXCEPT ![t] = "cas"]
          /\ pc[t] = "gate" /\ UNCHANGED <<want, sleepers, phase>>
      BY <2>1, Zenon DEF GateCheck
    <3> QED
      BY <3>1, QueueFrame
  <2>2. CASE FastPathFails(t) \/ SpinEnds(t) \/ SwapFails(t) \/ SleepRefused(t)
    BY <2>2, QueueFrame DEF FastPathFails, SpinEnds, SwapFails, SleepRefused
  <2> QED
    BY <1>3, <2>1, <2>2 DEF Moves
<1>4. ASSUME NEW t \in Threads, Sleep(t)
      PROVE  Kept
  <2> DEFINE q == sleepers[want[t]]
  <2>1. /\ pc[t] = "futex" /\ pc' = [pc EXCEPT ![t] = "asleep"]
        /\ sleepers' = [sleepers EXCEPT ![want[t]] = Append(q, t)]
        /\ want' = want /\ phase' = phase
    BY <1>4 DEF Sleep
  <2>2. /\ Append(q, t) \in Seq(Threads) /\ Len(Append(q, t)) = Len(q) + 1
        /\ \A i \in 1..Len(q) : Append(q, t)[i] = q[i]
        /\ Append(q, t)[Len(q) + 1] = t
        /\ Len(q) \in Nat
    BY AppendProperties
  <2>3. \A l \in Locks : \A i \in 1..Len(sleepers[l]) :
          sleepers[l][i] \in Threads /\ sleepers[l][i] # t
    BY <2>1 DEF SleepersAreAsleep
  <2>4. SleepersAreAsleep'
    <3>1. ASSUME NEW l \in Locks, l # want[t]
          PROVE  \A i \in 1..Len(sleepers'[l]) :
                   /\ pc'[sleepers'[l][i]] = "asleep"
                   /\ want'[sleepers'[l][i]] = l
                   /\ \A j \in 1..Len(sleepers'[l]) :
                        sleepers'[l][j] = sleepers'[l][i] => j = i
      BY <2>1, <2>3, <3>1 DEF SleepersAreAsleep
    <3>2. \A i \in 1..Len(Append(q, t)) :
             /\ pc'[Append(q, t)[i]] = "asleep"
             /\ want'[Append(q, t)[i]] = want[t]
             /\ \A j \in 1..Len(Append(q, t)) :
                  Append(q, t)[j] = Append(q, t)[i] => j = i
      BY <2>1, <2>2, <2>3 DEF SleepersAreAsleep
    <3>3. sleepers'[want[t]] = Append(q, t)
      BY <2>1
    <3> SUFFICES ASSUME NEW l \in Locks
                 PROVE  \A i \in 1..Len(sleepers'[l]) :
                          /\ pc'[sleepers'[l][i]] = "asleep"
                          /\ want'[sleepers'[l][i]] = l
                          /\ \A j \in 1..Len(sleepers'[l]) :
                               sleepers'[l][j] = sleepers'[l][i] => j = i
      BY DEF SleepersAreAsleep
    <3>4. CASE l # want[t]
      BY <3>1, <3>4
    <3>5. CASE l = want[t]
      <4>1. sleepers'[l] = Append(q, t)
        BY <3>3, <3>5
      <4> QED
        BY <3>2, <3>5, <4>1
    <3> QED
      BY <3>4, <3>5
  <2>5. AsleepIsQueued'
    <3> SUFFICES ASSUME NEW u \in Threads, pc'[u] = "asleep", phase'[u] # "gone"
                 PROVE  \E i \in 1..Len(sleepers'[want'[u]]) : sleepers'[want'[u]][i] = u
      BY DEF AsleepIsQueued
    <3>1. CASE u = t
      BY <2>1, <2>2, <3>1
    <3>2. CASE u # t
      <4>1. PICK i \in 1..Len(sleepers[want[u]]) : sleepers[want[u]][i] = u
        BY <2>1, <3>2 DEF AsleepIsQueued
      <4>2. CASE want[u] = want[t]
        BY <2>1, <2>2, <4>1, <4>2
      <4>3. CASE want[u] # want[t]
        BY <2>1, <4>1, <4>3
      <4> QED
        BY <4>2, <4>3
    <3> QED
      BY <3>1, <3>2
  <2> QED
    BY <2>4, <2>5
<1>5. ASSUME NEW t \in Threads, Takes(t)
      PROVE  Kept
  <2>1. PICK v \in {1, 2} : Take(t, v) /\ pc[t] \in {"cas", "spin", "swap"}
    BY <1>5 DEF Takes, FastPath, SpinTake, SwapTake
  <2> QED
    BY <2>1, QueueFrame DEF Take
<1>6. ASSUME NEW t \in Threads, GateLeave(t)
      PROVE  Kept
  BY <1>6, QueueFrame DEF GateLeave
<1>7. ASSUME NEW t \in Threads, Notify(t)
      PROVE  Kept
  <2> DEFINE q == sleepers[want[t]]
  <2>1. CASE q = <<>>
    BY <1>7, <2>1, QueueFrame DEF Notify
  <2>2. CASE q # <<>>
    <3>1. /\ pc' = [pc EXCEPT ![t] = "leave", ![Head(q)] = "swap"]
          /\ sleepers' = [sleepers EXCEPT ![want[t]] = Tail(q)]
          /\ want' = want /\ phase' = phase /\ pc[t] = "notify"
      BY <1>7, <2>2 DEF Notify
    <3>2. /\ Head(q) = q[1] /\ 1 \in 1..Len(q) /\ Head(q) \in Threads
          /\ Tail(q) \in Seq(Threads) /\ Len(Tail(q)) = Len(q) - 1
          /\ \A i \in 1..Len(q) - 1 : Tail(q)[i] = q[i + 1]
          /\ Len(q) \in Nat
      BY <2>2, HeadTailProperties
    <3>3. pc[Head(q)] = "asleep" /\ want[Head(q)] = want[t]
      BY <3>2 DEF SleepersAreAsleep
    <3>4. \A l \in Locks : \A i \in 1..Len(sleepers[l]) :
            sleepers[l][i] \in Threads /\ sleepers[l][i] # t
      BY SMTT(40), <3>1 DEF SleepersAreAsleep
    <3>5. SleepersAreAsleep'
      <4>1. ASSUME NEW l \in Locks, l # want[t]
            PROVE  \A i \in 1..Len(sleepers'[l]) :
                     /\ pc'[sleepers'[l][i]] = "asleep"
                     /\ want'[sleepers'[l][i]] = l
                     /\ \A j \in 1..Len(sleepers'[l]) :
                          sleepers'[l][j] = sleepers'[l][i] => j = i
        <5>1. \A i \in 1..Len(sleepers[l]) : sleepers[l][i] # Head(q)
          BY SMTT(40), <3>3, <4>1 DEF SleepersAreAsleep
        <5> QED
          BY SMTT(40), <3>1, <3>4, <4>1, <5>1 DEF SleepersAreAsleep
      <4>2. ASSUME NEW i \in 1..Len(Tail(q))
            PROVE  /\ pc'[Tail(q)[i]] = "asleep"
                   /\ want'[Tail(q)[i]] = want[t]
                   /\ \A j \in 1..Len(Tail(q)) : Tail(q)[j] = Tail(q)[i] => j = i
        <5>1. Tail(q)[i] = q[i + 1] /\ i + 1 \in 1..Len(q)
          BY <3>2
        <5>2. q[i + 1] # Head(q) /\ q[i + 1] # t /\ q[i + 1] \in Threads
          BY <3>2, <3>4, <5>1 DEF SleepersAreAsleep
        <5>3. pc'[q[i + 1]] = "asleep" /\ want'[q[i + 1]] = want[t]
          BY <3>1, <5>1, <5>2 DEF SleepersAreAsleep
        <5>4. ASSUME NEW j \in 1..Len(Tail(q)), Tail(q)[j] = Tail(q)[i]
              PROVE  j = i
          <6>1. q[j + 1] = q[i + 1] /\ j + 1 \in 1..Len(q)
            BY <3>2, <5>1, <5>4
          <6>2. j + 1 = i + 1
            BY <5>1, <6>1 DEF SleepersAreAsleep
          <6> QED
            BY <3>2, <6>2
        <5> QED
          BY <5>1, <5>3, <5>4
      <4>3. sleepers'[want[t]] = Tail(q)
        BY <3>1
      <4> SUFFICES ASSUME NEW l \in Locks
                   PROVE  \A i \in 1..Len(sleepers'[l]) :
                            /\ pc'[sleepers'[l][i]] = "asleep"
                            /\ want'[sleepers'[l][i]] = l
                            /\ \A j \in 1..Len(sleepers'[l]) :
                                 sleepers'[l][j] = sleepers'[l][i] => j = i
        BY DEF SleepersAreAsleep
      <4>4. CASE l # want[t]
        BY <4>1, <4>4
      <4>5. CASE l = want[t]
        <5>1. sleepers'[l] = Tail(q) /\ Len(Tail(q)) = Len(q) - 1
          BY <4>3, <4>5, <3>2
        <5> QED
          BY <4>2, <4>5, <5>1
      <4> QED
        BY <4>4, <4>5
    <3>6. AsleepIsQueued'
      <4> SUFFICES ASSUME NEW u \in Threads, pc'[u] = "asleep", phase'[u] # "gone"
                   PROVE  \E i \in 1..Len(sleepers'[want'[u]]) : sleepers'[want'[u]][i] = u
        BY DEF AsleepIsQueued
      <4>1. u # t /\ u # Head(q) /\ pc[u] = "asleep"
        BY <3>1, <3>2
      <4>2. PICK i \in 1..Len(sleepers[want[u]]) : sleepers[want[u]][i] = u
        BY <3>1, <4>1 DEF AsleepIsQueued
      <4>3. CASE want[u] = want[t]
        <5>1. i - 1 \in 1..Len(Tail(q)) /\ Tail(q)[i - 1] = u
          BY <3>2, <4>1, <4>2, <4>3
        <5> QED
          BY <3>1, <4>3, <5>1
      <4>4. CASE want[u] # want[t]
        BY <3>1, <4>2, <4>4
      <4> QED
        BY <4>3, <4>4
    <3> QED
      BY <3>5, <3>6
  <2> QED
    BY <2>1, <2>2
<1>8. ASSUME NEW v \in Threads, MarkDying(v)
      PROVE  Kept
  BY <1>8 DEF MarkDying, SleepersAreAsleep, AsleepIsQueued
<1>9. ASSUME UNCHANGED vars
      PROVE  Kept
  BY <1>9 DEF vars, SleepersAreAsleep, AsleepIsQueued
<1>10. ASSUME NEW v \in Threads, Terminate(v)
       PROVE  Kept
  <2>1. /\ phase[v] = "marked" /\ phase' = [phase EXCEPT ![v] = "gone"]
        /\ want' = want /\ pc' = pc
    BY <1>10 DEF Terminate
  <2>2. CASE pc[v] # "asleep"
    <3>1. sleepers' = sleepers
      BY <1>10, <2>2 DEF Terminate
    <3> QED
      BY <2>1, <2>2, <3>1, QueueFrame
  <2>3. CASE pc[v] = "asleep"
    <3> DEFINE q == sleepers[want[v]]
               r == Without(q, v)
    <3>1. sleepers' = [sleepers EXCEPT ![want[v]] = r]
      BY <1>10, <2>3 DEF Terminate
    <3>2. \E k \in 1..Len(q) : q[k] = v
      BY <2>1, <2>3 DEF AsleepIsQueued
    <3>3. q \in Seq(Threads) /\ Distinct(q)
      BY DEF SleepersAreAsleep, Distinct
    <3> HIDE DEF q
    <3> HIDE DEF r
    <3>8. PICK k \in 1..Len(q) : q[k] = v /\ Drops(q, k, r)
      BY <3>2, <3>3, WithoutKeeps DEF r
    <3>4. /\ r \in Seq(Threads)
          /\ Len(r) = Len(q) - 1
          /\ \A i \in 1..k - 1 : r[i] = q[i]
          /\ \A i \in k..Len(q) - 1 : r[i] = q[i + 1]
      BY <3>8 DEF Drops
    <3>7. Len(q) \in Nat /\ k \in Nat /\ k <= Len(q)
      BY <3>3
    <3>5. SleepersAreAsleep'
      <4>1. ASSUME NEW i \in 1..Len(r)
            PROVE  /\ pc'[r[i]] = "asleep"
                   /\ want'[r[i]] = want[v]
                   /\ \A j \in 1..Len(r) : r[j] = r[i] => j = i
        <5> DEFINE at(j) == IF j < k THEN j ELSE j + 1
        <5>1. \A j \in 1..Len(r) : at(j) \in 1..Len(q) /\ r[j] = q[at(j)]
          <6>1. ASSUME NEW j \in 1..Len(r), j < k
                PROVE  at(j) \in 1..Len(q) /\ r[j] = q[at(j)]
            <7>1. j \in 1..k - 1 /\ j \in 1..Len(q) /\ at(j) = j
              BY <3>7, <6>1
            <7> QED
              BY <3>4, <7>1
          <6>2. ASSUME NEW j \in 1..Len(r), ~(j < k)
                PROVE  at(j) \in 1..Len(q) /\ r[j] = q[at(j)]
            <7>1. j \in k..Len(q) - 1 /\ j + 1 \in 1..Len(q) /\ at(j) = j + 1
              BY <3>7, <3>4, <6>2
            <7> QED
              BY <3>4, <7>1
          <6> QED
            BY <6>1, <6>2
        <5>2. pc[q[at(i)]] = "asleep" /\ want[q[at(i)]] = want[v]
          BY SMTT(40), <5>1 DEF SleepersAreAsleep, q
        <5>3. ASSUME NEW j \in 1..Len(r), r[j] = r[i]
              PROVE  j = i
          <6>2. q[at(j)] = q[at(i)] /\ at(j) \in 1..Len(q) /\ at(i) \in 1..Len(q)
            BY <5>1, <5>3
          <6> HIDE DEF at
          <6>1. at(j) = at(i)
            BY <3>3, <6>2 DEF Distinct
          <6> USE DEF at
          <6> QED
            BY <3>7, <6>1
        <5> QED
          BY <2>1, <5>1, <5>2, <5>3
      <4>2. sleepers'[want[v]] = r
        BY <3>1
      <4>3. \A l \in Locks : l # want[v] => sleepers'[l] = sleepers[l]
        BY <3>1
      <4> SUFFICES ASSUME NEW l \in Locks
                   PROVE  \A i \in 1..Len(sleepers'[l]) :
                            /\ pc'[sleepers'[l][i]] = "asleep"
                            /\ want'[sleepers'[l][i]] = l
                            /\ \A j \in 1..Len(sleepers'[l]) :
                                 sleepers'[l][j] = sleepers'[l][i] => j = i
        BY DEF SleepersAreAsleep
      <4>4. CASE l # want[v]
        BY SMTT(40), <2>1, <4>3, <4>4 DEF SleepersAreAsleep
      <4>5. CASE l = want[v]
        <5>1. sleepers'[l] = r
          BY <4>2, <4>5
        <5> QED
          BY <4>1, <4>5, <5>1
      <4> QED
        BY <4>4, <4>5
    <3>6. AsleepIsQueued'
      <4> SUFFICES ASSUME NEW u \in Threads, pc'[u] = "asleep", phase'[u] # "gone"
                   PROVE  \E i \in 1..Len(sleepers'[want'[u]]) : sleepers'[want'[u]][i] = u
        BY DEF AsleepIsQueued
      <4>1. u # v /\ pc[u] = "asleep" /\ phase[u] # "gone"
        BY <2>1
      <4>2. PICK i \in 1..Len(sleepers[want[u]]) : sleepers[want[u]][i] = u
        BY <4>1 DEF AsleepIsQueued
      <4>3. CASE want[u] = want[v]
        <5>1. i # k /\ i \in 1..Len(q) /\ q[i] = u
          BY <3>8, <4>1, <4>2, <4>3 DEF q
        <5>2. \A m \in 1..Len(q) : m # k => \E j \in 1..Len(r) : r[j] = q[m]
          BY <3>8 DEF Drops
        <5>3. PICK j \in 1..Len(r) : r[j] = u
          BY <5>1, <5>2
        <5> QED
          BY <2>1, <3>1, <4>3, <5>3
      <4>4. CASE want[u] # want[v]
        BY <2>1, <3>1, <4>2, <4>4
      <4> QED
        BY <4>3, <4>4
    <3> QED
      BY <3>5, <3>6
  <2> QED
    BY <2>2, <2>3
<1> QED
  BY <1>1, <1>2, <1>3, <1>4, <1>5, <1>6, <1>7, <1>8, <1>9, <1>10, NextCases

-----------------------------------------------------------------------------
\* Termination at depth zero finds the worker outside the lock code, and a
\* worker that is gone takes no step.
LEMMA GoneStep ==
  ASSUME TypeOK, DepthCounts, SleepersAreAsleep, GoneIsIdle, [Next]_vars
  PROVE  GoneIsIdle'
<1> SUFFICES ASSUME GiveUp = FALSE, NEW u \in Threads, phase'[u] = "gone"
             PROVE  held'[u] = {} /\ pc'[u] \in Idle
  BY DEF GoneIsIdle
<1> USE DEF TypeOK, PC, Idle, Goto, Runs
<1>1. ASSUME held'[u] = held[u], pc'[u] = pc[u], phase'[u] = phase[u]
      PROVE  held'[u] = {} /\ pc'[u] \in Idle
  BY <1>1 DEF GoneIsIdle
<1>2. ASSUME NEW t \in Threads, NEW l \in Locks, GateEnter(t, l) \/ Unlock(t, l)
      PROVE  held'[u] = {} /\ pc'[u] \in Idle
  BY <1>1, <1>2 DEF GateEnter, Unlock
<1>3. ASSUME NEW t \in Threads, Moves(t)
      PROVE  held'[u] = {} /\ pc'[u] \in Idle
  <2>1. CASE GateCheck(t)
    <3>1. /\ pc' = [pc EXCEPT ![t] = "parked"] \/ pc' = [pc EXCEPT ![t] = "cas"]
          /\ phase[t] # "gone" /\ UNCHANGED <<held, phase>>
      BY <2>1, Zenon DEF GateCheck
    <3> QED
      BY <1>1, <3>1
  <2>2. CASE FastPathFails(t) \/ SpinEnds(t) \/ SwapFails(t) \/ Sleep(t) \/ SleepRefused(t)
    BY <1>1, <2>2 DEF FastPathFails, SpinEnds, SwapFails, Sleep, SleepRefused
  <2> QED
    BY <1>3, <2>1, <2>2 DEF Moves
<1>4. ASSUME NEW t \in Threads, Takes(t)
      PROVE  held'[u] = {} /\ pc'[u] \in Idle
  <2>1. PICK v \in {1, 2} : Take(t, v) /\ phase[t] # "gone"
    BY <1>4 DEF Takes, FastPath, SpinTake, SwapTake
  <2> QED
    BY <1>1, <2>1 DEF Take
<1>5. ASSUME NEW t \in Threads, Notify(t)
      PROVE  held'[u] = {} /\ pc'[u] \in Idle
  <2> DEFINE q == sleepers[want[t]]
  <2>1. CASE q = <<>>
    BY <1>1, <1>5, <2>1 DEF Notify
  <2>2. CASE q # <<>>
    <3>1. /\ pc' = [pc EXCEPT ![t] = "leave", ![Head(q)] = "swap"]
          /\ held' = held /\ phase' = phase /\ phase[t] # "gone"
      BY <1>5, <2>2 DEF Notify
    <3>2. Head(q) = q[1] /\ 1 \in 1..Len(q) /\ Head(q) \in Threads
      BY <2>2, HeadTailProperties
    <3>3. pc[Head(q)] = "asleep"
      BY <3>2 DEF SleepersAreAsleep
    <3>4. phase[Head(q)] # "gone"
      BY <3>2, <3>3 DEF GoneIsIdle
    <3> QED
      BY <1>1, <3>1, <3>2, <3>4
  <2> QED
    BY <2>1, <2>2
<1>6. ASSUME NEW t \in Threads, GateLeave(t)
      PROVE  held'[u] = {} /\ pc'[u] \in Idle
  BY <1>1, <1>6 DEF GateLeave
<1>7. ASSUME NEW v \in Threads, MarkDying(v)
      PROVE  held'[u] = {} /\ pc'[u] \in Idle
  BY <1>1, <1>7 DEF MarkDying
<1>8. ASSUME NEW v \in Threads, Terminate(v)
      PROVE  held'[u] = {} /\ pc'[u] \in Idle
  <2>1. CASE u # v
    BY <1>1, <1>8, <2>1 DEF Terminate
  <2>2. CASE u = v
    <3>1. depth[u] = 0 /\ held'[u] = held[u] /\ pc'[u] = pc[u]
      BY <1>8, <2>2 DEF Terminate
    <3>2. IsFiniteSet(held[u]) /\ Cardinality(held[u]) \in Nat
      BY HeldFinite
    <3>3. Cardinality(held[u]) = 0 /\ pc[u] \in Idle
      <4>1. CASE pc[u] \in Idle
        BY <3>1, <3>2, <4>1 DEF DepthCounts
      <4>2. CASE pc[u] \notin Idle
        <5>1. depth[u] = Cardinality(held[u]) + 1
          BY <4>2 DEF DepthCounts
        <5> QED
          BY <3>1, <3>2, <5>1
      <4> QED
        BY <4>1, <4>2
    <3>4. held[u] = {}
      BY <3>2, <3>3, FS_EmptySet
    <3> QED
      BY <3>1, <3>3, <3>4
  <2> QED
    BY <2>1, <2>2
<1>9. ASSUME UNCHANGED vars
      PROVE  held'[u] = {} /\ pc'[u] \in Idle
  BY <1>1, <1>9 DEF vars
<1> QED
  BY <1>2, <1>3, <1>4, <1>5, <1>6, <1>7, <1>8, <1>9, NextCases

\* The invariant is inductive.
LEMMA StepIInv == IInv /\ [Next]_vars => IInv'
BY TypeStep, OwnershipStep, CountStep, QueueStep, GoneStep DEF IInv

\* The strengthened invariant holds in every behaviour of the lock.
THEOREM Invariance == Spec => []IInv
<1>1. Init => IInv
  BY InitIInv
<1>2. IInv /\ [Next]_vars => IInv'
  BY StepIInv
<1> QED
  BY <1>1, <1>2, PTL DEF Spec

\* The types of the lock, for any number of threads and locks; the count of the
\* kill gate never goes below zero, whatever the supervisor does.
THEOREM TypeCorrect == Spec => []TypeOK
<1>1. IInv => TypeOK
  BY DEF IInv
<1> QED
  BY <1>1, Invariance, PTL

\* RawLock excludes: two threads never hold the guard of one lock, whatever mix
\* of fast path, spin and swap they came through, workers killed at any point.
THEOREM LockExclusion == Spec => []MutualExclusion
<1>1. IInv => MutualExclusion
  BY DEF IInv
<1> QED
  BY <1>1, Invariance, PTL

\* The kill gate: a supervisor that waits for the count to read zero never
\* terminates a worker that holds a lock or is inside lock() or unlock().
THEOREM KillGate == GiveUp = FALSE => (Spec => []KillGateSafe)
<1> SUFFICES ASSUME GiveUp = FALSE PROVE Spec => []KillGateSafe
  OBVIOUS
<1>1. IInv => KillGateSafe
  BY DEF IInv, KillGateSafe, GoneIsIdle, ParkedHoldsNothing, Idle
<1> QED
  BY <1>1, Invariance, PTL

-----------------------------------------------------------------------------
\* Who covers a lock's sleepers keeps covering them until it has notified or has
\* left 2 in the word, and then somebody else does, or the word.
LEMMA CoveredStep ==
  ASSUME GiveUp = FALSE, IInv, NoLostWakeup, [Next]_vars
  PROVE  NoLostWakeup'
<1> USE DEF TypeOK, PC, Idle, Goto, Runs, SleeperIsCoveredBy
<1>0. TypeOK
  BY DEF IInv
<1> SUFFICES ASSUME NEW m \in Locks, sleepers'[m] # <<>>
             PROVE  word'[m] = 2 \/ \E u \in Threads : SleeperIsCoveredBy(u, m)'
  BY DEF NoLostWakeup
<1> DEFINE Covered == word'[m] = 2 \/ \E u \in Threads : SleeperIsCoveredBy(u, m)'
<1>f. ASSUME NEW t \in Threads, ~SleeperIsCoveredBy(t, m),
             sleepers'[m] = sleepers[m], word[m] = 2 => word'[m] = 2,
             \A u \in Threads \ {t} : phase'[u] = phase[u] /\ want'[u] = want[u] /\ pc'[u] = pc[u]
      PROVE  Covered
  BY <1>f DEF NoLostWakeup
<1>1. ASSUME NEW t \in Threads, NEW l \in Locks, GateEnter(t, l)
      PROVE  Covered
  BY <1>0, <1>1, <1>f DEF GateEnter
<1>2. ASSUME NEW t \in Threads, NEW l \in Locks, Unlock(t, l)
      PROVE  Covered
  <2>1. CASE l = m /\ word[m] = 2
    <3>1. want'[t] = m /\ pc'[t] = "notify" /\ phase'[t] # "gone"
      BY <1>0, <1>2, <2>1 DEF Unlock
    <3> QED
      BY <3>1
  <2>2. CASE ~(l = m /\ word[m] = 2)
    BY <1>0, <1>2, <1>f, <2>2 DEF Unlock
  <2> QED
    BY <2>1, <2>2
<1>3. ASSUME NEW t \in Threads, Moves(t)
      PROVE  Covered
  <2>1. CASE GateCheck(t)
    <3>1. /\ pc' = [pc EXCEPT ![t] = "parked"] \/ pc' = [pc EXCEPT ![t] = "cas"]
          /\ pc[t] = "gate" /\ UNCHANGED <<word, want, sleepers, phase>>
      BY <2>1, Zenon DEF GateCheck
    <3> QED
      BY <1>0, <1>f, <3>1
  <2>2. CASE FastPathFails(t) \/ SpinEnds(t) \/ SleepRefused(t)
    BY <1>0, <1>f, <2>2 DEF FastPathFails, SpinEnds, SleepRefused
  <2>3. CASE SwapFails(t)
    <3>1. CASE want[t] = m
      BY <1>0, <2>3, <3>1 DEF SwapFails
    <3>2. CASE want[t] # m
      BY <1>0, <1>f, <2>3, <3>2 DEF SwapFails
    <3> QED
      BY <3>1, <3>2
  <2>4. CASE Sleep(t)
    <3>1. CASE want[t] = m
      BY <1>0, <2>4, <3>1 DEF Sleep
    <3>2. CASE want[t] # m
      BY <1>0, <1>f, <2>4, <3>2 DEF Sleep
    <3> QED
      BY <3>1, <3>2
  <2> QED
    BY <1>3, <2>1, <2>2, <2>3, <2>4 DEF Moves
<1>4. ASSUME NEW t \in Threads, Takes(t)
      PROVE  Covered
  <2>1. PICK v \in {1, 2} : Take(t, v) /\ (v = 2 \/ pc[t] \in {"cas", "spin"})
    BY <1>4 DEF Takes, FastPath, SpinTake, SwapTake
  <2>2. CASE want[t] = m /\ v = 2
    BY <1>0, <2>1, <2>2 DEF Take
  <2>3. CASE ~(want[t] = m /\ v = 2)
    <3>1. ~SleeperIsCoveredBy(t, m) /\ (word[m] = 2 => word'[m] = 2)
      BY <1>0, <2>1, <2>3 DEF Take
    <3> QED
      BY <1>0, <1>f, <2>1, <3>1 DEF Take
  <2> QED
    BY <2>2, <2>3
<1>5. ASSUME NEW t \in Threads, Notify(t)
      PROVE  Covered
  <2> DEFINE q == sleepers[want[t]]
  <2>1. CASE q = <<>>
    BY <1>0, <1>5, <1>f, <2>1 DEF Notify
  <2>2. CASE q # <<>>
    <3>1. /\ sleepers' = [sleepers EXCEPT ![want[t]] = Tail(@)]
          /\ pc' = [pc EXCEPT ![t] = "leave", ![Head(q)] = "swap"]
          /\ UNCHANGED <<word, want, phase>> /\ pc[t] = "notify"
      BY <1>5, <2>2 DEF Notify
    <3>2. Head(q) = q[1] /\ 1 \in 1..Len(q) /\ Head(q) \in Threads
      BY <1>0, <2>2, HeadTailProperties
    <3>3. pc[Head(q)] = "asleep" /\ want[Head(q)] = want[t]
      BY <1>0, <3>2 DEF IInv, SleepersAreAsleep
    <3>4. phase[Head(q)] # "gone"
      BY <3>2, <3>3 DEF IInv, GoneIsIdle
    <3> HIDE DEF q
    <3>5. CASE want[t] = m
      <4>1. PICK h \in Threads : h = Head(q)
        BY <3>2
      <4>2. phase'[h] # "gone" /\ want'[h] = m /\ pc'[h] = "swap"
        BY <1>0, <3>1, <3>3, <3>4, <3>5, <4>1
      <4> QED
        BY <4>2
    <3>6. CASE want[t] # m
      <4>1. sleepers[m] # <<>> /\ word' = word
        BY <1>0, <3>1, <3>6
      <4>2. CASE word[m] = 2
        BY <4>1, <4>2
      <4>3. ASSUME NEW u \in Threads, SleeperIsCoveredBy(u, m)
            PROVE  SleeperIsCoveredBy(u, m)'
        BY <1>0, <3>1, <3>3, <3>6, <4>3
      <4> QED
        BY <4>1, <4>2, <4>3 DEF NoLostWakeup
    <3> QED
      BY <3>5, <3>6
  <2> QED
    BY <2>1, <2>2
<1>6. ASSUME NEW t \in Threads, GateLeave(t)
      PROVE  Covered
  BY <1>0, <1>6, <1>f DEF GateLeave
<1>7. ASSUME NEW v \in Threads, MarkDying(v)
      PROVE  Covered
  <2>1. /\ UNCHANGED <<word, want, pc, sleepers>>
        /\ \A u \in Threads : phase[u] # "gone" => phase'[u] # "gone"
    BY <1>0, <1>7 DEF MarkDying
  <2> QED
    BY <2>1 DEF NoLostWakeup
<1>8. ASSUME NEW v \in Threads, Terminate(v)
      PROVE  Covered
  <2>1. /\ phase' = [phase EXCEPT ![v] = "gone"] /\ UNCHANGED <<word, held, want, pc>>
        /\ depth[v] = 0
    BY <1>8 DEF Terminate
  <2>2. pc[v] \in Idle
    <3>1. Cardinality(held[v]) \in Nat
      BY <1>0, HeldFinite
    <3>2. pc[v] \notin Idle => depth[v] = Cardinality(held[v]) + 1
      BY DEF IInv, DepthCounts
    <3> QED
      BY <2>1, <3>1, <3>2
  <2>3. sleepers' = sleepers
    BY <1>8, <2>2 DEF Terminate
  <2>4. ~SleeperIsCoveredBy(v, m)
    BY <2>2
  <2> QED
    BY <1>0, <1>f, <2>1, <2>3, <2>4
<1>9. ASSUME UNCHANGED vars
      PROVE  Covered
  BY <1>9 DEF vars, NoLostWakeup
<1> QED
  BY <1>1, <1>2, <1>3, <1>4, <1>5, <1>6, <1>7, <1>8, <1>9, NextCases

\* No wake-up is lost: while somebody sleeps on a lock the next unlock notifies,
\* or a thread is on its way to notify or to write 2, for any number of threads
\* that are killed anywhere outside the lock code.
THEOREM NoLostWakeupCorrect == GiveUp = FALSE => (Spec => []NoLostWakeup)
<1> SUFFICES ASSUME GiveUp = FALSE PROVE Spec => []NoLostWakeup
  OBVIOUS
<1>1. Init => NoLostWakeup
  BY DEF Init, NoLostWakeup
<1>2. IInv /\ NoLostWakeup /\ [Next]_vars => NoLostWakeup'
  BY CoveredStep
<1> QED
  BY <1>1, <1>2, Invariance, PTL DEF Spec

-----------------------------------------------------------------------------
\* The abstract owner of a lock is the one thread that holds its guard.
LEMMA OwnerIs ==
  ASSUME TypeOK, MutualExclusion, NEW l \in Locks
  PROVE  /\ \A t \in Threads : l \in held[t] => Owner(l) = t
         /\ (\A t \in Threads : l \notin held[t]) => Owner(l) = NoThread
         /\ \A t \in Threads : Owner(l) = t => l \in held[t]
<1>1. NoThread \notin Threads
  BY LockAssumption, ThreadsAssumption
     DEF LockAssumption, ThreadsAssumption
<1> QED
  BY <1>1 DEF Owner, MutualExclusion

\* Steps that change no guard and stop no worker are invisible above.
LEMMA InvisibleStep ==
  ASSUME held' = held,
         \A t \in Threads : (phase'[t] = "gone") = (phase[t] = "gone")
  PROVE  UNCHANGED Abstract!vars
<1>1. \A l \in Locks : Owner(l)' = Owner(l)
  BY DEF Owner
<1>2. [l \in Locks |-> Owner(l)]' = [l \in Locks |-> Owner(l)]
  BY <1>1
<1>3. {t \in Threads : phase[t] = "gone"}' = {t \in Threads : phase[t] = "gone"}
  OBVIOUS
<1> QED
  BY <1>2, <1>3 DEF Abstract!vars

\* A fresh lock is a fresh abstract lock.
LEMMA AbstractInit == Init => Abstract!Init
<1> SUFFICES ASSUME Init PROVE Abstract!Init
  OBVIOUS
<1>1. \A l \in Locks : Owner(l) = NoThread
  BY DEF Init, Owner
<1>2. {t \in Threads : phase[t] = "gone"} = {}
  BY DEF Init
<1> QED
  BY <1>1, <1>2 DEF Abstract!Init

\* Taking is acquiring, unlock() releases, terminating a worker stops it, and
\* everything else the lock does is invisible.
LEMMA AbstractStep ==
  ASSUME GiveUp = FALSE, IInv, IInv', [Next]_vars
  PROVE  [Abstract!Next]_(Abstract!vars)
<1> USE DEF IInv, TypeOK, PC, Idle, Goto, Runs
<1> DEFINE own  == [l \in Locks |-> Owner(l)]
           gone == {t \in Threads : phase[t] = "gone"}
<1>1. ASSUME NEW t \in Threads, NEW l \in Locks, l = want[t], Takes(t)
      PROVE  Abstract!Acquire(t, l)
  <2>1. PICK v \in {1, 2} : Take(t, v) /\ phase[t] # "gone"
    BY <1>1 DEF Takes, FastPath, SpinTake, SwapTake
  <2>2. /\ l \in Locks /\ word[l] = 0 /\ phase' = phase
        /\ held' = [held EXCEPT ![t] = @ \cup {l}]
    BY <1>1, <2>1 DEF Take
  <2>3. \A u \in Threads : l \notin held[u]
    BY <2>2 DEF FreeWordUnowned
  <2>4. Owner(l) = NoThread
    BY <2>3 DEF Owner
  <2>5. Owner(l)' = t
    <3>1. \A u \in Threads : (l \in held'[u]) = (u = t)
      BY <2>2, <2>3
    <3>2. (IF \E u \in Threads : l \in held'[u]
           THEN CHOOSE u \in Threads : l \in held'[u] ELSE NoThread) = t
      BY <3>1
    <3> QED
      BY <3>2 DEF Owner
  <2>6. \A m \in Locks : m # l => Owner(m)' = Owner(m)
    <3>1. \A m \in Locks : m # l => \A u \in Threads : (m \in held'[u]) = (m \in held[u])
      BY SMTT(40), <2>2
    <3> QED
      BY ZenonT(40), <3>1 DEF Owner
  <2>7. own' = [own EXCEPT ![l] = t]
    BY <2>5, <2>6
  <2> QED
    BY <2>1, <2>2, <2>4, <2>7 DEF Abstract!Acquire
<1>2. ASSUME NEW t \in Threads, NEW l \in Locks, Unlock(t, l)
      PROVE  Abstract!Release(t, l)
  <2>1. /\ l \in held[t] /\ phase[t] # "gone" /\ phase' = phase
        /\ held' = [held EXCEPT ![t] = @ \ {l}]
    BY <1>2 DEF Unlock
  <2>2. \A u \in Threads : u # t => l \notin held[u]
    BY <2>1 DEF MutualExclusion
  <2>3. Owner(l) = t
    BY <2>1, <2>2 DEF Owner
  <2>4. Owner(l)' = NoThread
    BY <2>1, <2>2 DEF Owner
  <2>5. \A m \in Locks : m # l => Owner(m)' = Owner(m)
    <3>1. \A m \in Locks : m # l => \A u \in Threads : (m \in held'[u]) = (m \in held[u])
      BY SMTT(40), <2>1
    <3> QED
      BY ZenonT(40), <3>1 DEF Owner
  <2>6. own' = [own EXCEPT ![l] = NoThread]
    BY <2>4, <2>5
  <2> QED
    BY <2>1, <2>3, <2>6 DEF Abstract!Release
<1>3. ASSUME NEW v \in Threads, Terminate(v)
      PROVE  Abstract!Stop(v)
  <2>1. phase[v] = "marked" /\ phase' = [phase EXCEPT ![v] = "gone"] /\ held' = held
    BY <1>3 DEF Terminate
  <2>2. held[v] = {}
    BY <2>1 DEF GoneIsIdle
  <2>3. \A l \in Locks : Owner(l) # v
    BY <2>2, OwnerIs
  <2>4. \A l \in Locks : Owner(l)' = Owner(l)
    BY <2>1 DEF Owner
  <2>5. own' = own
    BY <2>4
  <2>6. gone' = gone \cup {v}
    BY <2>1
  <2> QED
    BY <2>1, <2>3, <2>5, <2>6 DEF Abstract!Stop
<1>4. ASSUME NEW t \in Threads, NEW l \in Locks, GateEnter(t, l)
      PROVE  UNCHANGED Abstract!vars
  BY <1>4, InvisibleStep DEF GateEnter
<1>5. ASSUME NEW t \in Threads, Moves(t) \/ Notify(t) \/ GateLeave(t)
      PROVE  UNCHANGED Abstract!vars
  <2>1. held' = held /\ phase' = phase
    BY <1>5 DEF Moves, GateCheck, FastPathFails, SpinEnds, SwapFails, Sleep,
                SleepRefused, Notify, GateLeave
  <2> QED
    BY <2>1, InvisibleStep
<1>6. ASSUME NEW v \in Threads, MarkDying(v)
      PROVE  UNCHANGED Abstract!vars
  BY <1>6, InvisibleStep DEF MarkDying
<1>7. ASSUME UNCHANGED vars
      PROVE  UNCHANGED Abstract!vars
  BY <1>7, InvisibleStep DEF vars
<1>8. \A t \in Threads : want[t] \in Locks
  OBVIOUS
<1> QED
  BY <1>1, <1>2, <1>3, <1>4, <1>5, <1>6, <1>7, <1>8, NextCases DEF Abstract!Next

\* With a supervisor that waits, the futex lock and its kill gate are the
\* abstract lock: no step of either takes, frees or loses a lock by itself.
THEOREM Refinement == GiveUp = FALSE => (Spec => ImplementsAbstractLock)
<1> SUFFICES ASSUME GiveUp = FALSE PROVE Spec => ImplementsAbstractLock
  OBVIOUS
<1>1. Init => Abstract!Init
  BY AbstractInit
<1>2. IInv /\ IInv' /\ [Next]_vars => [Abstract!Next]_(Abstract!vars)
  BY AbstractStep
<1> QED
  BY <1>1, <1>2, Invariance, PTL DEF Spec, ImplementsAbstractLock, Abstract!Spec

-----------------------------------------------------------------------------
\* The reader/writer lock

\* The word is exact: the writer bit tells of the guard of a writer, the count
\* of those of readers.
WordCounts ==
  /\ s.n = Cardinality(Readers)
  /\ s.w = (Writers # {})
  /\ s.w => s.n = 0

\* A thread swaps only on a word that allowed it to.
SeenAllows ==
  \A t \in Threads: rwPc[t] \in {"cas", "trycas"} => Allows(seen[t], write[t])

Owners == RwTypeOK /\ WordCounts /\ Exclusion /\ SeenAllows

\* A thread that has read the present sequence number and set WAIT finds the
\* number changed, or the bit still there and, once its try has failed, the
\* lock held.
Announced == s.wait /\ ~Free(s)

WaitSeen ==
  \A t \in fresh:
    /\ rwPc[t] = "try" => Owed \/ s.wait
    /\ rwPc[t] = "trycas" => Owed \/ (s.wait /\ (~Free(s) \/ s = seen[t]))
    /\ rwPc[t] = "futex" => Owed \/ Announced

RwIInv == Owners /\ WaitSeen /\ NoLostWaiter

-----------------------------------------------------------------------------
\* What a step does to the guards: one is made, one goes, or none is touched.

RwTakes(t, wr) ==
  /\ rwPc[t] # "guard" /\ Allows(s, wr) /\ s' = Taken(s, wr)
  /\ rwPc' = [rwPc EXCEPT ![t] = "guard"] /\ write' = [write EXCEPT ![t] = wr]

KeepsGuards ==
  /\ s'.n = s.n /\ s'.w = s.w
  /\ \A u \in Threads: (rwPc'[u] = "guard") = (rwPc[u] = "guard")
  /\ \A u \in Threads: rwPc[u] = "guard" => write'[u] = write[u]

Releases(t) == ReleaseRead(t) \/ ReleaseWrite(t)

\* A taken word counts one reader more, or has the writer bit.
LEMMA TakenWord ==
  ASSUME NEW x \in Word, NEW wr \in BOOLEAN
  PROVE  /\ Taken(x, wr) \in Word
         /\ Taken(x, wr).wait = x.wait
         /\ ~Free(Taken(x, wr))
         /\ wr => Taken(x, wr).w /\ Taken(x, wr).n = x.n
         /\ ~wr => Taken(x, wr).w = x.w /\ Taken(x, wr).n = x.n + 1
  <1>1. CASE wr
    <2>1. Taken(x, wr) = [x EXCEPT !.w = TRUE]
      BY <1>1 DEF Taken
    <2>2. [x EXCEPT !.w = TRUE] \in Word
      BY DEF Word
    <2>3. /\ [x EXCEPT !.w = TRUE].w = TRUE
          /\ [x EXCEPT !.w = TRUE].wait = x.wait
          /\ [x EXCEPT !.w = TRUE].n = x.n
      BY DEF Word
    <2> QED
      BY <1>1, <2>1, <2>2, <2>3 DEF Free
  <1>2. CASE ~wr
    <2>1. Taken(x, wr) = [x EXCEPT !.n = @ + 1]
      BY <1>2 DEF Taken
    <2>2. [x EXCEPT !.n = @ + 1] \in Word /\ x.n \in Nat
      BY DEF Word
    <2>3. /\ [x EXCEPT !.n = @ + 1].w = x.w
          /\ [x EXCEPT !.n = @ + 1].wait = x.wait
          /\ [x EXCEPT !.n = @ + 1].n = x.n + 1
      BY DEF Word
    <2>4. x.n + 1 # 0
      BY <2>2
    <2> QED
      BY <1>2, <2>1, <2>2, <2>3, <2>4 DEF Free
  <1> QED
    BY <1>1, <1>2

\* Every step takes the lock, releases it or keeps the guards.
LEMMA StepKinds ==
  ASSUME Owners, [RwNext]_rwVars
  PROVE  \/ \E t \in Threads, wr \in BOOLEAN: RwTakes(t, wr)
         \/ \E t \in Threads: Releases(t)
         \/ KeepsGuards
  <1> USE DEF Owners, RwTypeOK, RwGoto
  <1>1. CASE UNCHANGED rwVars
    BY <1>1 DEF rwVars, KeepsGuards
  <1>2. ASSUME NEW t \in Threads, NEW else \in RwPC, else # "guard",
               rwPc[t] \in {"cas", "trycas"}, Cas(t, else)
        PROVE  (\E wr \in BOOLEAN: RwTakes(t, wr)) \/ KeepsGuards
    <2>1. CASE s = seen[t]
      <3>1. RwTakes(t, write[t])
        <4>1. Allows(s, write[t])
          BY <1>2, <2>1 DEF SeenAllows
        <4>2. s' = Taken(s, write[t]) /\ rwPc' = [rwPc EXCEPT ![t] = "guard"] /\ write' = write
          BY <1>2, <2>1 DEF Cas
        <4>3. write' = [write EXCEPT ![t] = write[t]]
          BY <4>2
        <4> QED
          BY <1>2, <4>1, <4>2, <4>3 DEF RwTakes
      <3> QED
        BY <3>1
    <2>2. CASE s # seen[t]
      BY <1>2, <2>2 DEF Cas, KeepsGuards
    <2> QED
      BY <2>1, <2>2
  <1>3. ASSUME NEW t \in Threads, TakeCas(t) \/ SlowCas(t)
        PROVE  (\E wr \in BOOLEAN: RwTakes(t, wr)) \/ KeepsGuards
    BY <1>2, <1>3 DEF TakeCas, SlowCas, Again, RwPC
  <1>4. ASSUME NEW t \in Threads, WriteEnter(t)
        PROVE  (\E wr \in BOOLEAN: RwTakes(t, wr)) \/ KeepsGuards
    BY <1>4 DEF WriteEnter, RwTakes, KeepsGuards, Allows
  <1>5. ASSUME NEW t \in Threads, ReadEnter(t)
        PROVE  KeepsGuards
    BY <1>5 DEF ReadEnter, KeepsGuards
  <1>6. ASSUME NEW t \in Threads, Spin(t) \/ SlowTry(t)
        PROVE  KeepsGuards
    BY <1>6 DEF Spin, SlowTry, Load, Again, KeepsGuards
  <1>7. ASSUME NEW t \in Threads, SlowOr(t) \/ WakeClear(t)
        PROVE  KeepsGuards
    BY <1>7 DEF SlowOr, WakeClear, KeepsGuards, Word
  <1>8. ASSUME NEW t \in Threads, RwSpinEnds(t) \/ SlowSeq(t) \/ RwSleep(t) \/ WakeBump(t)
        PROVE  KeepsGuards
    BY <1>8 DEF RwSpinEnds, SlowSeq, RwSleep, WakeBump, KeepsGuards
  <1>9. ASSUME NEW t \in Threads, WakeNotify(t)
        PROVE  KeepsGuards
    BY <1>9 DEF WakeNotify, KeepsGuards
  <1> QED
    BY <1>1, <1>3, <1>4, <1>5, <1>6, <1>7, <1>8, <1>9
       DEF RwNext, Enter, Continue, Releases

\* The word counts the guards after every step, and the exclusion holds.
LEMMA CountsStep ==
  ASSUME ThreadsAssumption, Owners, [RwNext]_rwVars
  PROVE  WordCounts' /\ Exclusion' /\ s'.n \in Nat /\ s'.w \in BOOLEAN
  <1> USE DEF Owners, RwTypeOK
  <1>1. IsFiniteSet(Readers) /\ Readers \subseteq Threads
    BY FS_Subset DEF ThreadsAssumption, Readers
  <1>2. s \in Word /\ s.n \in Nat /\ s.n = Cardinality(Readers) /\ s.w \in BOOLEAN
    BY DEF Word, WordCounts
  <1>3. ASSUME NEW t \in Threads, RwTakes(t, TRUE)
        PROVE  WordCounts' /\ Exclusion' /\ s'.n \in Nat /\ s'.w \in BOOLEAN
    <2>1. Free(s) /\ s'.w = TRUE /\ s'.n = 0
      BY <1>2, <1>3, TakenWord DEF RwTakes, Allows, Free
    <2>2. Readers = {} /\ Writers = {}
      BY <1>1, <1>2, <2>1, FS_EmptySet DEF Free, WordCounts
    <2>3. Readers' = {} /\ Writers' = {t}
      BY <1>3, <2>2 DEF RwTakes, Readers, Writers
    <2>4. WordCounts'
      BY <2>1, <2>3, FS_EmptySet DEF WordCounts
    <2>5. Exclusion'
      BY <2>3 DEF Exclusion
    <2>6. s'.n \in Nat
      BY <2>1
    <2>7. s'.w \in BOOLEAN
      BY <2>1
    <2> QED
      BY <2>4, <2>5, <2>6, <2>7
  <1>4. ASSUME NEW t \in Threads, RwTakes(t, FALSE)
        PROVE  WordCounts' /\ Exclusion' /\ s'.n \in Nat /\ s'.w \in BOOLEAN
    <2>1. s.w = FALSE /\ s'.w = FALSE /\ s'.n = s.n + 1
      BY <1>2, <1>4, TakenWord DEF RwTakes, Allows
    <2>2. Writers = {} /\ t \notin Readers
      BY <1>4, <2>1 DEF WordCounts, RwTakes, Readers
    <2>3. Readers' = Readers \cup {t} /\ Writers' = {}
      BY <1>4, <2>2 DEF RwTakes, Readers, Writers
    <2>4. Cardinality(Readers') = Cardinality(Readers) + 1
      BY <1>1, <2>2, <2>3, FS_AddElement
    <2>5. WordCounts'
      BY <1>2, <2>1, <2>3, <2>4 DEF WordCounts
    <2>6. Exclusion'
      BY <2>3 DEF Exclusion
    <2>7. s'.n \in Nat
      BY <1>2, <2>1
    <2>8. s'.w \in BOOLEAN
      BY <2>1
    <2> QED
      BY <2>5, <2>6, <2>7, <2>8
  <1>5. ASSUME NEW t \in Threads, ReleaseRead(t)
        PROVE  WordCounts' /\ Exclusion' /\ s'.n \in Nat /\ s'.w \in BOOLEAN
    <2>1. t \in Readers
      BY <1>5 DEF ReleaseRead, Readers
    <2>2. s'.n = s.n - 1 /\ s'.w = s.w
      BY <1>2, <1>5 DEF ReleaseRead, Word
    <2>3. Readers' = Readers \ {t} /\ Writers' = Writers
      BY <1>5, <2>1 DEF ReleaseRead, RwGoto, Readers, Writers
    <2>4. Cardinality(Readers') = Cardinality(Readers) - 1
      BY <1>1, <2>1, <2>3, FS_RemoveElement
    <2>5. Cardinality(Readers') \in Nat
      BY <1>1, <2>3, FS_Subset, FS_CardinalityType
    <2>6. Writers = {} /\ ~s.w
      BY <2>1 DEF Exclusion, WordCounts, Readers, Writers
    <2> QED
      BY <1>2, <2>2, <2>3, <2>4, <2>5, <2>6 DEF WordCounts, Exclusion
  <1>6. ASSUME NEW t \in Threads, ReleaseWrite(t)
        PROVE  WordCounts' /\ Exclusion' /\ s'.n \in Nat /\ s'.w \in BOOLEAN
    <2>1. t \in Writers
      BY <1>6 DEF ReleaseWrite, Writers
    <2>2. Writers = {t} /\ Readers = {}
      BY <2>1 DEF Exclusion, Readers, Writers
    <2>3. s'.n = s.n /\ s'.w = FALSE
      BY <1>2, <1>6 DEF ReleaseWrite, Word
    <2>4. Readers' = {} /\ Writers' = {}
      BY <1>6, <2>2 DEF ReleaseWrite, RwGoto, Readers, Writers
    <2>5. Cardinality({}) = 0
      BY FS_EmptySet
    <2> QED
      BY <1>2, <2>2, <2>3, <2>4, <2>5 DEF WordCounts, Exclusion
  <1>7. ASSUME KeepsGuards
        PROVE  WordCounts' /\ Exclusion' /\ s'.n \in Nat /\ s'.w \in BOOLEAN
    <2>1. Readers' = Readers /\ Writers' = Writers
      BY <1>7 DEF KeepsGuards, Readers, Writers
    <2> QED
      BY <1>2, <1>7, <2>1 DEF KeepsGuards, WordCounts, Exclusion
  <1> QED
    BY <1>3, <1>4, <1>5, <1>6, <1>7, StepKinds DEF Releases

\* Types are kept, and a thread on its way to a swap has a word that allows it.
LEMMA RwTypeStep ==
  ASSUME ThreadsAssumption, Owners, [RwNext]_rwVars
  PROVE  RwTypeOK' /\ SeenAllows'
  <1> USE DEF Owners, RwTypeOK, RwGoto, RwPC
  <1>1. s.w \in BOOLEAN /\ s.wait \in BOOLEAN /\ s.n \in Nat /\ Zero \in Word
    BY DEF Word, Zero
  <1>2. CASE UNCHANGED rwVars
    BY <1>2 DEF rwVars, SeenAllows
  <1>3. ASSUME NEW t \in Threads, NEW else \in RwPC \ {"cas", "trycas"}, Cas(t, else)
        PROVE  RwTypeOK' /\ SeenAllows'
    <2>1. s' \in Word
      BY <1>3, TakenWord DEF Cas
    <2>2. SeenAllows'
      BY <1>3 DEF Cas, SeenAllows
    <2> QED
      BY <1>1, <1>3, <2>1, <2>2 DEF Cas
  <1>4. ASSUME NEW t \in Threads, TakeCas(t) \/ SlowCas(t)
        PROVE  RwTypeOK' /\ SeenAllows'
    BY <1>3, <1>4 DEF TakeCas, SlowCas, Again
  <1>5. ASSUME NEW t \in Threads, WriteEnter(t)
        PROVE  RwTypeOK' /\ SeenAllows'
    <2>1. s' \in Word
      BY <1>5, TakenWord DEF WriteEnter
    <2>2. SeenAllows'
      BY <1>5 DEF WriteEnter, SeenAllows
    <2> QED
      BY <1>5, <2>1, <2>2 DEF WriteEnter
  <1>6. ASSUME NEW t \in Threads, ReadEnter(t)
        PROVE  RwTypeOK' /\ SeenAllows'
    BY <1>6 DEF ReadEnter, SeenAllows
  <1>7. ASSUME NEW t \in Threads, NEW then \in RwPC, NEW else \in RwPC \ {"cas", "trycas"},
               Load(t, then, else)
        PROVE  RwTypeOK' /\ SeenAllows'
    BY <1>7 DEF Load, SeenAllows
  <1>8. ASSUME NEW t \in Threads, Spin(t) \/ SlowTry(t)
        PROVE  RwTypeOK' /\ SeenAllows'
    BY <1>7, <1>8 DEF Spin, SlowTry, Again
  <1>9. ASSUME NEW t \in Threads, SlowOr(t) \/ WakeClear(t)
        PROVE  RwTypeOK' /\ SeenAllows'
    <2>1. s' \in Word
      BY <1>9 DEF SlowOr, WakeClear, Word
    <2> QED
      BY <1>9, <2>1 DEF SlowOr, WakeClear, SeenAllows
  <1>10. ASSUME NEW t \in Threads, ReleaseRead(t)
         PROVE  RwTypeOK' /\ SeenAllows'
    <2>1. s' = [s EXCEPT !.n = s.n - 1] /\ s'.n \in Nat
      BY <1>10, CountsStep DEF ReleaseRead
    <2>2. s.n - 1 \in Nat
      BY <2>1 DEF Word
    <2>3. s' \in Word
      BY <2>1, <2>2 DEF Word
    <2> QED
      BY <1>10, <2>3 DEF ReleaseRead, SeenAllows
  <1>11. ASSUME NEW t \in Threads, ReleaseWrite(t)
         PROVE  RwTypeOK' /\ SeenAllows'
    <2>1. s' \in Word
      BY <1>11 DEF ReleaseWrite, Word
    <2> QED
      BY <1>11, <2>1 DEF ReleaseWrite, SeenAllows
  <1>12. ASSUME NEW t \in Threads, RwSpinEnds(t) \/ SlowSeq(t) \/ RwSleep(t) \/ WakeBump(t)
         PROVE  RwTypeOK' /\ SeenAllows'
    BY <1>12 DEF RwSpinEnds, SlowSeq, RwSleep, WakeBump, SeenAllows
  <1>13. ASSUME NEW t \in Threads, WakeNotify(t)
         PROVE  RwTypeOK' /\ SeenAllows'
    BY <1>13 DEF WakeNotify, SeenAllows
  <1> QED
    BY <1>2, <1>4, <1>5, <1>6, <1>8, <1>9, <1>10, <1>11, <1>12, <1>13
       DEF RwNext, Enter, Continue

-----------------------------------------------------------------------------
\* Wake-ups

\* A step that is not a bump leaves a wake-up owed, or leaves WAIT in the word
\* and the lock held if it was.
WordKept == Owed' \/ (~Owed /\ (s.wait => s'.wait /\ (Free(s') => s' = s)))

LEMMA WordKeptStep ==
  ASSUME ThreadsAssumption, Owners, NEW t \in Threads,
         Enter(t) \/ Continue(t), ~WakeBump(t)
  PROVE  WordKept
  <1> USE DEF Owners, RwTypeOK, RwGoto
  <1>1. ASSUME s' = s, \A u \in Threads: rwPc[u] \in {"clear", "bump"} => rwPc'[u] = rwPc[u],
               \A u \in Threads: rwPc'[u] \in {"clear", "bump"} => rwPc'[u] = rwPc[u]
        PROVE  WordKept
    BY <1>1 DEF WordKept, Owed
  <1>2. ASSUME NEW wr \in BOOLEAN, s' = Taken(s, wr), rwPc' = [rwPc EXCEPT ![t] = "guard"],
               rwPc[t] \notin {"clear", "bump"}
        PROVE  WordKept
    <2>1. s'.wait = s.wait /\ ~Free(s')
      BY <1>2, TakenWord
    <2>2. Owed => Owed'
      BY <1>2 DEF Owed
    <2> QED
      BY <2>1, <2>2 DEF WordKept
  <1>3. CASE ReadEnter(t) \/ Spin(t) \/ RwSpinEnds(t) \/ SlowSeq(t) \/ SlowTry(t) \/ RwSleep(t)
    BY <1>1, <1>3 DEF ReadEnter, Spin, RwSpinEnds, SlowSeq, SlowTry, Load, Again, RwSleep
  <1>4. CASE WakeNotify(t)
    BY <1>1, <1>4 DEF WakeNotify
  <1>5. CASE WriteEnter(t)
    <2>1. CASE Free(s) /\ ~s.wait
      BY <1>2, <1>5, <2>1 DEF WriteEnter
    <2>2. CASE ~(Free(s) /\ ~s.wait)
      BY <1>1, <1>5, <2>2 DEF WriteEnter
    <2> QED
      BY <2>1, <2>2
  <1>6. CASE TakeCas(t) \/ SlowCas(t)
    <2>1. CASE s = seen[t]
      BY <1>2, <1>6, <2>1 DEF TakeCas, SlowCas, Cas
    <2>2. CASE s # seen[t]
      BY <1>1, <1>6, <2>2 DEF TakeCas, SlowCas, Cas, Again
    <2> QED
      BY <2>1, <2>2
  <1>7. CASE SlowOr(t)
    <2>1. s' = [s EXCEPT !.wait = TRUE] /\ (Owed => Owed')
      BY <1>7 DEF SlowOr, Owed
    <2>2. s'.wait /\ (s.wait => s' = s)
      BY <2>1 DEF Word
    <2> QED
      BY <2>1, <2>2 DEF WordKept
  <1>8. CASE ReleaseRead(t)
    <2>1. Owed => Owed'
      BY <1>8 DEF ReleaseRead, Owed
    <2>2. CASE s.wait /\ s.n = 1
      BY <1>8, <2>2 DEF ReleaseRead, WordKept, Owed
    <2>3. CASE ~s.wait
      BY <2>1, <2>3 DEF WordKept
    <2>4. CASE s.wait /\ s.n # 1
      <3>1. s'.n = s.n - 1 /\ s'.wait = s.wait /\ s.n \in Nat
        BY <1>8 DEF ReleaseRead, Word
      <3>2. ~Free(s')
        BY <2>4, <3>1 DEF Free
      <3> QED
        BY <2>1, <2>4, <3>1, <3>2 DEF WordKept
    <2> QED
      BY <2>2, <2>3, <2>4
  <1>9. CASE ReleaseWrite(t)
    <2>1. Owed => Owed'
      BY <1>9 DEF ReleaseWrite, Owed
    <2>2. s.wait => Owed'
      BY <1>9 DEF ReleaseWrite, Owed
    <2> QED
      BY <2>1, <2>2 DEF WordKept
  <1>10. CASE WakeClear(t)
    BY <1>10 DEF WakeClear, WordKept, Owed
  <1> QED
    BY <1>3, <1>4, <1>5, <1>6, <1>7, <1>8, <1>9, <1>10 DEF Enter, Continue

\* What the two invariants say of one thread.
Told(u) ==
  /\ u \in fresh =>
       /\ rwPc[u] = "try" => Owed \/ s.wait
       /\ rwPc[u] = "trycas" => Owed \/ (s.wait /\ (~Free(s) \/ s = seen[u]))
       /\ rwPc[u] = "futex" => Owed \/ Announced
  /\ rwPc[u] = "asleep" => Owed \/ (\E v \in Threads: rwPc[v] = "notify") \/ Announced

LEMMA ToldAll ==
  ASSUME fresh \subseteq Threads
  PROVE  WaitSeen /\ NoLostWaiter <=> \A u \in Threads: Told(u)
  BY DEF WaitSeen, NoLostWaiter, Told, Announced

\* A thread that does not move is told what it was, if the word is kept.
LEMMA ToldStays ==
  ASSUME NEW u \in Threads, Told(u), WordKept,
         rwPc'[u] = rwPc[u], seen'[u] = seen[u], u \in fresh' => u \in fresh,
         (\E v \in Threads: rwPc[v] = "notify") =>
           rwPc[u] # "asleep" \/ \E v \in Threads: rwPc'[v] = "notify"
  PROVE  Told(u)'
  <1>1. CASE Owed'
    BY <1>1 DEF Told
  <1>2. CASE ~Owed /\ (s.wait => s'.wait /\ (Free(s') => s' = s))
    <2>1. Announced => Announced'
      BY <1>2 DEF Announced
    <2>2. s.wait => s'.wait
      BY <1>2
    <2>3. s.wait /\ (~Free(s) \/ s = seen[u]) =>
            s'.wait /\ (~Free(s') \/ s' = seen'[u])
      BY <1>2
    <2> HIDE DEF Announced
    <2> QED
      BY <1>2, <2>1, <2>2, <2>3 DEF Told
  <1> QED
    BY <1>1, <1>2 DEF WordKept

LEMMA WakeStep ==
  ASSUME ThreadsAssumption, Owners, WaitSeen, NoLostWaiter, [RwNext]_rwVars
  PROVE  WaitSeen' /\ NoLostWaiter'
  <1> USE DEF Owners, RwTypeOK, RwGoto
  <1>1. \A u \in Threads: Told(u)
    BY ToldAll
  <1>2. fresh' \subseteq Threads
    BY RwTypeStep
  <1> SUFFICES ASSUME NEW u \in Threads
               PROVE  Told(u)'
    BY <1>2, ToldAll DEF WaitSeen, NoLostWaiter, Told, Announced
  <1>3. CASE UNCHANGED rwVars
    BY <1>1, <1>3 DEF rwVars, Told, Announced, Owed, Free
  <1>4. ASSUME NEW t \in Threads, WakeBump(t)
        PROVE  Told(u)'
    BY <1>4 DEF WakeBump, Told
  <1>5. ASSUME NEW t \in Threads, WakeNotify(t)
        PROVE  Told(u)'
    <2>1. WordKept
      BY <1>5, WordKeptStep DEF Continue, WakeNotify, WakeBump
    <2>2. CASE u = t \/ rwPc[u] = "asleep"
      BY <1>5, <2>2 DEF WakeNotify, Told
    <2>3. CASE u # t /\ rwPc[u] # "asleep"
      BY <1>1, <1>5, <2>1, <2>3, ToldStays DEF WakeNotify
    <2> QED
      BY <2>2, <2>3
  <1>6. ASSUME NEW t \in Threads, Enter(t) \/ Continue(t), ~WakeBump(t), ~WakeNotify(t)
        PROVE  Told(u)'
    <2>1. WordKept
      BY <1>6, WordKeptStep
    <2>2. CASE u # t
      <3>1. /\ rwPc'[u] = rwPc[u] /\ seen'[u] = seen[u] /\ fresh' \subseteq fresh \cup {t}
            /\ \A v \in Threads: v # t => rwPc'[v] = rwPc[v]
        BY <1>6, <2>2 DEF Enter, Continue, ReadEnter, WriteEnter, TakeCas, Cas, Spin, Load,
             RwSpinEnds, SlowSeq, SlowOr, SlowTry, SlowCas, RwSleep, ReleaseRead, ReleaseWrite,
             WakeClear
      <3>2. rwPc[t] # "notify"
        BY <1>6 DEF Enter, Continue, ReadEnter, WriteEnter, TakeCas, Cas, Spin, Load,
             RwSpinEnds, SlowSeq, SlowOr, SlowTry, SlowCas, RwSleep, ReleaseRead, ReleaseWrite,
             WakeClear, WakeNotify, WakeBump
      <3> QED
        BY <1>1, <2>1, <2>2, <3>1, <3>2, ToldStays
    <2>3. CASE u = t
      <3>1. CASE ReadEnter(t) \/ WriteEnter(t) \/ TakeCas(t) \/ Spin(t) \/ RwSpinEnds(t)
        BY <2>3, <3>1 DEF ReadEnter, WriteEnter, TakeCas, Cas, Spin, Load, RwSpinEnds, Told
      <3>2. CASE SlowSeq(t) \/ ReleaseRead(t) \/ ReleaseWrite(t) \/ WakeClear(t)
        BY <2>3, <3>2 DEF SlowSeq, ReleaseRead, ReleaseWrite, WakeClear, Told
      <3>3. CASE SlowOr(t)
        <4>1. s'.wait
          BY <3>3 DEF SlowOr, Word
        <4> QED
          BY <2>3, <3>3, <4>1 DEF SlowOr, Told
      <3>4. CASE SlowTry(t)
        <4>1. s' = s /\ fresh' = fresh /\ (Owed => Owed')
          BY <3>4 DEF SlowTry, Load, Again, Owed
        <4>2. t \in fresh => Owed \/ s.wait
          BY <1>1, <3>4 DEF SlowTry, Told
        <4>3. CASE Allows(s, write[t])
          <5>1. rwPc'[t] = "trycas" /\ seen'[t] = s
            BY <3>4, <4>3 DEF SlowTry, Load
          <5> QED
            BY <2>3, <4>1, <4>2, <5>1 DEF Told
        <4>4. CASE ~Allows(s, write[t])
          <5>1. rwPc'[t] \in {"futex", "seq"}
            BY <3>4, <4>4 DEF SlowTry, Load, Again
          <5>2. ~Free(s)
            BY <4>4 DEF Allows, Free
          <5> QED
            BY <2>3, <4>1, <4>2, <5>1, <5>2 DEF Told, Announced
        <4> QED
          BY <4>3, <4>4
      <3>5. CASE SlowCas(t)
        <4>1. CASE s = seen[t]
          BY <2>3, <3>5, <4>1 DEF SlowCas, Cas, Told
        <4>2. CASE s # seen[t]
          <5>1. /\ s' = s /\ fresh' = fresh /\ (Owed => Owed')
                /\ rwPc'[t] \in {"futex", "seq"}
            BY <3>5, <4>2 DEF SlowCas, Cas, Again, Owed
          <5>2. t \in fresh => Owed \/ Announced
            BY <1>1, <3>5, <4>2 DEF SlowCas, Told, Announced
          <5> QED
            BY <2>3, <5>1, <5>2 DEF Told, Announced
        <4> QED
          BY <4>1, <4>2
      <3>6. CASE RwSleep(t)
        <4>1. s' = s /\ fresh' = fresh /\ (Owed => Owed')
          BY <3>6 DEF RwSleep, Owed
        <4>2. t \in fresh => Owed \/ Announced
          BY <1>1, <3>6 DEF RwSleep, Told
        <4> QED
          BY <2>3, <3>6, <4>1, <4>2 DEF RwSleep, Told, Announced
      <3> QED
        BY <1>6, <3>1, <3>2, <3>3, <3>4, <3>5, <3>6 DEF Enter, Continue
    <2> QED
      BY <2>2, <2>3
  <1> QED
    BY <1>3, <1>4, <1>5, <1>6 DEF RwNext

-----------------------------------------------------------------------------
\* The inductive invariant of the lock.
THEOREM RwInvariance == RwSpec => []RwIInv
  <1>1. RwInit => RwIInv
    <2> SUFFICES ASSUME RwInit
                 PROVE  RwIInv
      OBVIOUS
    <2>1. Readers = {} /\ Writers = {}
      BY DEF RwInit, Readers, Writers
    <2>2. RwTypeOK
      BY DEF RwInit, RwTypeOK, RwPC, Zero, Word
    <2>3. WordCounts
      BY <2>1, FS_EmptySet DEF RwInit, Zero, WordCounts
    <2>4. Exclusion /\ SeenAllows /\ WaitSeen /\ NoLostWaiter
      BY <2>1 DEF RwInit, Exclusion, SeenAllows, WaitSeen, NoLostWaiter
    <2> QED
      BY <2>2, <2>3, <2>4 DEF RwIInv, Owners
  <1>2. RwIInv /\ [RwNext]_rwVars => RwIInv'
    BY ThreadsAssumption, CountsStep, RwTypeStep, WakeStep DEF RwIInv, Owners
  <1> QED
    BY <1>1, <1>2, PTL DEF RwSpec

\* The variables of the lock keep their types; the count of readers never goes
\* below zero.
THEOREM RwTypeCorrect == RwSpec => []RwTypeOK
  BY RwInvariance, PTL DEF RwIInv, Owners

\* A writer is alone under the lock.
THEOREM WriterAlone == RwSpec => []Exclusion
  BY RwInvariance, PTL DEF RwIInv, Owners

\* No thread sleeps before a lock that is free and that nobody will announce.
THEOREM WakeupKept == RwSpec => []NoLostWaiter
  BY RwInvariance, PTL DEF RwIInv
=============================================================================
