--------------------------- MODULE EventLoopProofs ---------------------------
(***************************************************************************)
(* Proofs about the event loop, for every number of files, descriptors and *)
(* timers: types and the count of references, that the loop never sleeps   *)
(* through something it should have seen, that the kernel's queue is about *)
(* the files that are open, that the process ends only when nothing is     *)
(* left, and that timers come first.                                       *)
(***************************************************************************)
EXTENDS EventLoop, FiniteSetTheorems, SequenceTheorems, WellFoundedInduction, TLAPS

\* Events that are queued, one for a number, about the file that is open there.
Has(q, d) == \E i \in DOMAIN q: q[i].fd = d
Once(q) == \A i, j \in DOMAIN q: q[i].fd = q[j].fd => i = j
Owned(q) == \A i \in DOMAIN q: fdfile[q[i].fd] = q[i].of

\* A file is open once, and who reads it has subscribed, or is about to.
FilesKnown ==
  /\ \A d \in Fds: fdfile[d] # None => status[fdfile[d]] # "new"
  /\ \A d, e \in Fds: fdfile[d] # None /\ fdfile[d] = fdfile[e] => d = e
  /\ \A d \in handler: fdfile[d] # None
  /\ \A d \in handler: fdfile[d] \in sub \/ (pc = "subscribe" /\ arming = d)
  /\ pc \in {"subscribe", "level", "pump"} => arming \in handler

\* Who can read has been told, will be, or is at it.
Told(d) == Has(evq, d) \/ Has(ready, d)
Heard ==
  \A d \in handler: Readable(fdfile[d]) =>
    Told(d) \/ (pc \in {"pump", "subscribe", "level"} /\ arming = d)

\* Whoever waits, or is about to, is woken by what is in the queue; who does
\* not wait is in a turn, or will be.
WordSeen ==
  /\ wait = "pending" /\ evq # <<>> => ppc # "idle"
  /\ pc = "await" /\ fresh /\ evq # <<>> => ppc = "bump"
  /\ wait # "none" => pc \notin {"load", "rest", "await"}
  /\ wait = "none" =>
       pinged \/ (task = "turn" /\ pc # "idle") \/ pc \in {"load", "rest", "await"}

\* Where in a turn the thread is, and what a phase leaves behind.
Phases ==
  /\ pc \in {"take", "turn", "back", "pump"} => task = "turn"
  /\ pc \in {"load", "rest", "await", "check", "stopped"} => task = "end"
  /\ task = "end" => phase = 0
  /\ task = "turn" /\ pc # "idle" => phase # 0
  /\ phase # 0 /\ (pc = "idle" \/ task = "native") => pinged
  /\ pc = "take" => phase = 2

Leftovers ==
  /\ batch > 0 => phase = 3
  /\ phase = 3 => ready = <<>>
  /\ phase = 0 /\ ready # <<>> => pc \in {"rest", "await"} \/ pinged
  /\ imm > 0 => pinged \/ phase # 0
  /\ pc = "stopped" => refs <= 0 /\ ready = <<>>

\* A microtask is run before the next task, and none is left by a turn that ran
\* nothing.
Microtasks ==
  /\ pc \in {"guest", "subscribe", "level", "pump", "back"} /\ task = "turn" => ran
  /\ micro => \/ pc = "idle" \/ task = "native" \/ ran
              \/ task = "end" /\ pc \in {"guest", "subscribe", "level"}
  /\ pc = "stopped" => ~micro

\* The timers by due time, each once; the host's timer is not later than the
\* first, unless a turn comes sooner; those due when the turn began come first.
Sorted ==
  /\ \A i, j \in DOMAIN heap: i < j => left[heap[i]] <= left[heap[j]]
  /\ \A i, j \in DOMAIN heap: heap[i] = heap[j] => i = j
HostTimer ==
  heap # <<>> => \/ pinged \/ phase # 0 \/ hostLeft = 0
                 \/ (hostLeft > 0 /\ hostLeft <= left[heap[1]])
OwedFirst ==
  /\ \A i, j \in DOMAIN heap: i < j /\ heap[j] \in owed => heap[i] \in owed
  /\ \A i \in DOMAIN heap: heap[i] \in owed => left[heap[i]] = 0
  /\ owed \cap late = {} /\ (phase = 0 => late = {})
  /\ phase \in {2, 3} => owed \cap Live = {}

Queues == Once(evq) /\ QueuedForOwner /\ Heard /\ WordSeen
TurnInv == Phases /\ Leftovers /\ Microtasks
Heap == Sorted /\ HostTimer /\ OwedFirst
IInv == RefsCounted /\ FilesKnown /\ Queues /\ TurnInv /\ Heap

-----------------------------------------------------------------------------

\* What runs, by what starts it.
Writes == (\E f \in Files: Write(f) \/ CloseWriter(f)) \/ WakeBump \/ WakeNotify
Starts == TaskPing \/ TaskTimer \/ TaskWake
Natives == FetchSettles \/ Microtask
Steps == StepTimer \/ EndTimers \/ StepKernel \/ EndKernel \/ StepImmediate
Takes == Take("take", "turn") \/ TakeRest
Ends == EndTurn \/ LoadWord \/ WaitAsync \/ Check \/ Drained
Pumps == PumpAll \/ PumpFull
Arms == Subscribe \/ Level

\* A call of the guest's.
Calls(A) ==
  pc = "guest" /\ A /\ UNCHANGED <<wclosed, sent, word, writer, task, turning, ready, active>>
Asks == Calls(SetImmediate) \/ Calls(Fetch) \/ Calls(QueueMicrotask)
Drops == \E t \in Timers: Calls(ClearTimeout(t)) \/ Calls(Unref(t))
Reads == (\E d \in Fds: Calls(Resume(d))) \/ (\E f \in Files: Calls(Open(f)))
Returns == Return \/ Yield

-----------------------------------------------------------------------------

USE DEF pipes, word, writer, files, timers, work, turning

LEMMA Sizes ==
  /\ Long \in Nat /\ Long > 1 /\ MaxData \in Nat /\ MaxOps \in Nat
  /\ None \notin Files /\ Fds \subseteq Nat
BY EventLoopAssumption

\* Every step is one of these.
LEMMA NextCases ==
  ASSUME [Next]_vars
  PROVE  \/ Writes \/ Tick \/ Starts \/ Natives \/ Steps \/ Takes \/ Ends \/ Pumps \/ Arms
         \/ \E t \in Timers, n \in {1, Long}: Calls(SetTimeout(t, n))
         \/ Asks \/ Drops \/ Reads \/ (\E d \in Fds: CloseFile(d)) \/ Returns
         \/ UNCHANGED vars
<1>1. CASE Guest
  BY <1>1 DEF Guest, GuestOps, Calls, Asks, Drops, Reads
<1>2. CASE Turn /\ ~Guest
  BY <1>2 DEF Turn, Steps, Takes, Ends, Pumps, Arms, Returns
<1> QED
  BY <1>1, <1>2 DEF Next, Task, Wake, Writes, Starts, Natives

\* The lowest of a set of numbers.
LEMMA Lowest ==
  ASSUME NEW S \in SUBSET Nat, S # {}
  PROVE  \E b \in S: \A d \in S: b <= d
<1>1. PICK b \in S: \A d \in S: <<d, b>> \notin OpToRel(<, Nat)
  BY WFMin, NatLessThanWellFounded, Zenon
<1>2. \A d \in S: ~(d < b)
  BY <1>1, Zenon DEF OpToRel
<1> QED
  BY <1>2

\* Sequences with an element more, or less.
LEMMA Inserted ==
  ASSUME NEW S, NEW s \in Seq(S), NEW i \in 1..Len(s) + 1, NEW e \in S
  PROVE  /\ InsertAt(s, i, e) \in Seq(S) /\ Len(InsertAt(s, i, e)) = Len(s) + 1
         /\ \A j \in 1..Len(s) + 1:
              InsertAt(s, i, e)[j] = IF j < i THEN s[j] ELSE IF j = i THEN e ELSE s[j - 1]
<1> DEFINE a == SubSeq(s, 1, i - 1)  b == SubSeq(s, i, Len(s))
<1>1. a \in Seq(S) /\ Len(a) = i - 1 /\ \A j \in 1..i - 1: a[j] = s[j]
  OBVIOUS
<1>2. b \in Seq(S) /\ Len(b) = Len(s) + 1 - i /\ \A j \in 1..Len(s) + 1 - i: b[j] = s[i + j - 1]
  OBVIOUS
<1>3. InsertAt(s, i, e) = a \o <<e>> \o b
  BY DEF InsertAt
<1> HIDE DEF a, b
<1>4. a \o <<e>> \in Seq(S) /\ Len(a \o <<e>>) = i
      /\ (\A j \in 1..i - 1: (a \o <<e>>)[j] = s[j]) /\ (a \o <<e>>)[i] = e
  BY <1>1
<1>5. InsertAt(s, i, e) \in Seq(S) /\ Len(InsertAt(s, i, e)) = Len(s) + 1
  BY <1>2, <1>3, <1>4
<1>6. ASSUME NEW j \in 1..Len(s) + 1
      PROVE  InsertAt(s, i, e)[j] = IF j < i THEN s[j] ELSE IF j = i THEN e ELSE s[j - 1]
  <2>1. CASE j <= i
    BY <1>2, <1>3, <1>4, <2>1
  <2>2. CASE j > i
    <3>1. j - i \in 1..Len(s) + 1 - i
      BY <2>2
    <3>3. InsertAt(s, i, e)[j] = b[j - i]
      <4> DEFINE c == a \o <<e>>
      <4>1. c \in Seq(S) /\ b \in Seq(S) /\ Len(c) = i /\ Len(b) = Len(s) + 1 - i
            /\ InsertAt(s, i, e) = c \o b
        BY <1>2, <1>3, <1>4
      <4> HIDE DEF c
      <4>2. j \in 1..Len(c) + Len(b) /\ ~(j <= Len(c))
        BY <2>2, <4>1
      <4> QED
        BY <4>1, <4>2, ConcatProperties
    <3>2. b[j - i] = s[i + (j - i) - 1]
      BY <1>2, <3>1
    <3> QED
      BY <2>2, <3>1, <3>2, <3>3
  <2> QED
    BY <2>1, <2>2
<1> QED
  BY <1>5, <1>6

LEMMA Removed ==
  ASSUME NEW S, NEW s \in Seq(S), NEW i \in 1..Len(s)
  PROVE  /\ RemoveAt(s, i) \in Seq(S) /\ Len(RemoveAt(s, i)) = Len(s) - 1
         /\ \A j \in 1..Len(s) - 1: RemoveAt(s, i)[j] = IF j < i THEN s[j] ELSE s[j + 1]
<1> DEFINE a == SubSeq(s, 1, i - 1)  b == SubSeq(s, i + 1, Len(s))
<1>1. a \in Seq(S) /\ Len(a) = i - 1 /\ \A j \in 1..i - 1: a[j] = s[j]
  OBVIOUS
<1>2. b \in Seq(S) /\ Len(b) = Len(s) - i /\ \A j \in 1..Len(s) - i: b[j] = s[i + j]
  OBVIOUS
<1>3. RemoveAt(s, i) = a \o b
  BY DEF RemoveAt
<1> HIDE DEF a, b
<1>4. /\ a \o b \in Seq(S) /\ Len(a \o b) = Len(s) - 1
      /\ \A j \in 1..Len(s) - 1: (a \o b)[j] = IF j <= i - 1 THEN a[j] ELSE b[j - (i - 1)]
  <2>1. a \o b \in Seq(S) /\ Len(a \o b) = Len(a) + Len(b)
        /\ \A j \in 1..Len(a) + Len(b): (a \o b)[j] = IF j <= Len(a) THEN a[j] ELSE b[j - Len(a)]
    BY <1>1, <1>2, ConcatProperties
  <2> QED
    BY <1>1, <1>2, <2>1
<1>5. ASSUME NEW j \in 1..Len(s) - 1
      PROVE  (a \o b)[j] = IF j < i THEN s[j] ELSE s[j + 1]
  <2>1. CASE j < i
    BY <1>1, <1>4, <2>1
  <2>2. CASE j >= i
    <3>1. j - (i - 1) \in 1..Len(s) - i /\ ~(j <= i - 1)
      BY <2>2
    <3>2. (a \o b)[j] = b[j - (i - 1)] /\ b[j - (i - 1)] = s[i + (j - (i - 1))]
      BY <1>2, <1>4, <3>1
    <3>3. i + (j - (i - 1)) = j + 1 /\ ~(j < i)
      BY <2>2
    <3> QED
      BY <3>2, <3>3
  <2>3. j < i \/ j >= i
    OBVIOUS
  <2> QED
    BY <2>1, <2>2, <2>3, Zenon
<1> QED
  BY <1>3, <1>4, <1>5

\* How many timers are due by then, which is where the next one goes.
Before(n) == Cardinality({i \in DOMAIN heap: left[heap[i]] <= n})

LEMMA BeforeRange ==
  ASSUME TypeOK, NEW n
  PROVE  Before(n) \in 0..Len(heap)
<1> DEFINE S == {i \in DOMAIN heap: left[heap[i]] <= n}
<1>1. Len(heap) \in Nat /\ DOMAIN heap = 1..Len(heap)
  BY DEF TypeOK, TimerTypes
<1>2. IsFiniteSet(1..Len(heap)) /\ Cardinality(1..Len(heap)) = Len(heap)
  <2> DEFINE l == Len(heap)
  <2>1. l \in Nat
    BY <1>1
  <2> HIDE DEF l
  <2>2. IsFiniteSet(1..l) /\ Cardinality(1..l) = IF 1 <= l THEN l - 1 + 1 ELSE 0
    BY <2>1, FS_Interval
  <2>3. Cardinality(1..l) = l
    BY <2>1, <2>2
  <2> QED
    BY <2>2, <2>3 DEF l
<1>3. S \subseteq 1..Len(heap)
  BY <1>1
<1> HIDE DEF S
<1>4. IsFiniteSet(S) /\ Cardinality(S) <= Len(heap)
  BY <1>2, <1>3, FS_Subset
<1>5. Cardinality(S) \in Nat
  BY <1>4, FS_CardinalityType
<1> QED
  BY <1>1, <1>4, <1>5 DEF Before, S

-----------------------------------------------------------------------------
\* Types.

\* The program has a file open that it reads.
LEMMA Opened ==
  ASSUME Init
  PROVE  \E f \in Files, d \in Fds:
    /\ sub = {f} /\ handler = {d} /\ arming = d
    /\ status = [g \in Files |-> IF g = f THEN "open" ELSE "new"]
    /\ fdfile = [e \in Fds |-> IF e = d THEN f ELSE None]
<1> DEFINE f == CHOOSE g \in Files: TRUE
           d == CHOOSE e \in Fds: \A other \in Fds: e <= other
<1>1. f \in Files
  BY EventLoopAssumption
<1>2. d \in Fds
  <2>1. \E e \in Fds: \A other \in Fds: e <= other
    BY EventLoopAssumption, Lowest
  <2> QED
    BY <2>1
<1>3. /\ sub = {f} /\ handler = {d} /\ arming = d
      /\ status = [g \in Files |-> IF g = f THEN "open" ELSE "new"]
      /\ fdfile = [e \in Fds |-> IF e = d THEN f ELSE None]
  BY DEF Init
<1> HIDE DEF f, d
<1> QED
  BY <1>1, <1>2, <1>3

LEMMA TypeInit == Init => TypeOK
<1> SUFFICES ASSUME Init PROVE TypeOK
  OBVIOUS
<1>2. PICK f \in Files, d \in Fds:
        /\ sub = {f} /\ handler = {d} /\ arming = d
        /\ status = [g \in Files |-> IF g = f THEN "open" ELSE "new"]
        /\ fdfile = [e \in Fds |-> IF e = d THEN f ELSE None]
  BY Opened
<1>3. /\ data = [g \in Files |-> 0] /\ sent = data
      /\ wclosed = [g \in Files |-> FALSE]
      /\ evq = <<>> /\ fresh = FALSE /\ wait = "none"
      /\ ppc = "idle" /\ pfile = None
  BY DEF Init
<1>4. /\ pc = "idle" /\ task = "turn"
      /\ phase = 0 /\ ran = FALSE /\ exitCheck = 0
      /\ ready = <<>> /\ pinged = TRUE
      /\ heap = <<>> /\ left = [t \in Timers |-> 0] /\ late = {} /\ owed = {}
      /\ timerRef = {} /\ refs = 1
      /\ hostLeft = -1
      /\ imm = 0 /\ batch = 0 /\ fetching = FALSE /\ micro = FALSE
      /\ active \in BOOLEAN /\ ops = 0
  BY DEF Init
<1>5. PipeTypes
  BY <1>2, <1>3, Sizes DEF PipeTypes
<1>6. QueueTypes
  <2>1. fdfile \in [Fds -> Files \cup {None}] /\ sub \subseteq Files
    BY <1>2
  <2>2. handler \subseteq Fds /\ IsFiniteSet(handler)
    BY <1>2, FS_Singleton
  <2>3. evq \in Seq(Events) /\ ready \in Seq(Events)
    BY <1>3, <1>4
  <2> QED
    BY <1>3, <2>1, <2>2, <2>3 DEF QueueTypes
<1>7. LoopTypes
  <2>1. pc \in PCs
    BY <1>4 DEF PCs
  <2>3. exitCheck \in 0..2 /\ phase \in 0..3
    BY <1>4
  <2> QED
    BY <1>2, <1>4, <2>1, <2>3 DEF LoopTypes
<1>8. TimerTypes
  BY <1>4, Sizes, FS_EmptySet DEF TimerTypes
<1>9. FlagTypes
  BY <1>4 DEF FlagTypes
<1> QED
  BY <1>5, <1>6, <1>7, <1>8, <1>9 DEF TypeOK

LEMMA PipesTyped ==
  ASSUME TypeOK, [Next]_vars
  PROVE  PipeTypes'
<1> USE Sizes DEF TypeOK, PipeTypes
<1>1. CASE Writes
  <2>1. ASSUME NEW f \in Files, Write(f) PROVE PipeTypes'
    <3>1. /\ data' = [data EXCEPT ![f] = @ + 1] /\ sent' = [sent EXCEPT ![f] = @ + 1]
          /\ sent[f] < MaxData /\ ppc' \in {"idle", "bump"} /\ pfile' \in {None, f}
          /\ UNCHANGED <<wclosed, status>>
      BY <2>1 DEF Write
    <3> QED
      BY <3>1
  <2>2. ASSUME NEW f \in Files, CloseWriter(f) PROVE PipeTypes'
    <3>1. /\ wclosed' = [wclosed EXCEPT ![f] = TRUE]
          /\ ppc' \in {"idle", "bump"} /\ pfile' \in {None, f}
          /\ UNCHANGED <<data, sent, status>>
      BY <2>2 DEF CloseWriter
    <3> QED
      BY <3>1
  <2>3. CASE WakeBump \/ WakeNotify
    BY <2>3 DEF WakeBump, WakeNotify
  <2> QED
    BY <1>1, <2>1, <2>2, <2>3 DEF Writes
<1>2. CASE Pumps
  <2>1. /\ fdfile[arming] \in Files /\ UNCHANGED <<sent, wclosed, ppc, pfile>>
        /\ \/ /\ data' = [data EXCEPT ![fdfile[arming]] = 0]
              /\ status' = status \/ status' = [status EXCEPT ![fdfile[arming]] = "ended"]
           \/ /\ \E n \in 0..data[fdfile[arming]] - 1: data' = [data EXCEPT ![fdfile[arming]] = n]
              /\ status' = status
    BY <1>2 DEF Pumps, PumpAll, PumpFull, QueueTypes, LoopTypes
  <2> QED
    BY <2>1
<1>3. CASE Reads
  <2>1. \/ UNCHANGED status
        \/ \E f \in Files: status' = [status EXCEPT ![f] = "open"]
    BY <1>3 DEF Reads, Calls, Resume, Open
  <2>2. UNCHANGED <<data, sent, wclosed, ppc, pfile>>
    BY <1>3 DEF Reads, Calls, Resume, Open, StartReading
  <2> QED
    BY <2>1, <2>2
<1>4. ASSUME NEW d \in Fds, CloseFile(d) PROVE PipeTypes'
  BY <1>4 DEF CloseFile, QueueTypes
<1>5. CASE \/ Tick \/ Starts \/ Natives \/ Steps \/ Takes \/ Ends \/ Arms \/ Returns
           \/ UNCHANGED vars
  <2>1. UNCHANGED <<data, sent, wclosed, ppc, pfile, status>>
    BY <1>5 DEF Tick, Starts, TaskPing, TaskTimer, TaskWake, Natives, FetchSettles, Microtask,
       Steps, StepTimer, EndTimers, StepKernel, EndKernel, StepImmediate, Takes, Take, TakeRest,
       Ends, EndTurn, LoadWord, WaitAsync, Check, Drained, Arms, Subscribe, Level,
       Returns, Return, Yield, vars
  <2> QED
    BY <2>1
<1>6. CASE Asks \/ Drops \/ \E t \in Timers, n \in {1, Long}: Calls(SetTimeout(t, n))
  <2>1. UNCHANGED <<data, sent, wclosed, ppc, pfile, status>>
    BY <1>6 DEF Calls, Asks, SetImmediate, Fetch, QueueMicrotask, Drops, ClearTimeout, Unref,
       DropTimer, SetTimeout
  <2> QED
    BY <2>1
<1> QED
  BY <1>1, <1>2, <1>3, <1>4, <1>5, <1>6, NextCases

-----------------------------------------------------------------------------
\* The kernel's queue.

LEMMA QueuedIs ==
  ASSUME NEW q \in Seq(Events), NEW d \in Fds, fdfile[d] \in Files
  PROVE  /\ Queued(q, d) \in Seq(Events) /\ Queued(q, d) # <<>>
         /\ Has(Queued(q, d), d) /\ \A e: Has(q, e) => Has(Queued(q, d), e)
         /\ Once(q) => Once(Queued(q, d))
         /\ Owned(q) => Owned(Queued(q, d))
<1> DEFINE new == [fd |-> d, of |-> fdfile[d]]
<1>1. CASE Has(q, d)
  BY <1>1 DEF Queued, Has
<1>2. CASE ~Has(q, d)
  <2>1. Queued(q, d) = Append(q, new)
    BY <1>2 DEF Queued, Has
  <2>2. new \in Events /\ new.fd = d /\ new.of = fdfile[d]
    BY DEF Events
  <2> HIDE DEF new
  <2>3. /\ Append(q, new) \in Seq(Events) /\ Len(Append(q, new)) = Len(q) + 1
        /\ \A i \in 1..Len(q): Append(q, new)[i] = q[i]
        /\ Append(q, new)[Len(q) + 1] = new
    BY <2>2
  <2> HIDE DEF Events
  <2>4. DOMAIN q = 1..Len(q) /\ Len(q) \in Nat /\ DOMAIN Append(q, new) = 1..Len(q) + 1
    BY <2>3
  <2>5. Has(Append(q, new), d) /\ \A e: Has(q, e) => Has(Append(q, new), e)
    BY <2>2, <2>3, <2>4 DEF Has
  <2>6. Once(q) => Once(Append(q, new))
    <3> SUFFICES ASSUME Once(q), NEW i \in 1..Len(q) + 1, NEW j \in 1..Len(q) + 1,
                        Append(q, new)[i].fd = Append(q, new)[j].fd
                 PROVE  i = j
      BY <2>4 DEF Once
    <3>1. \A k \in 1..Len(q): q[k].fd # d
      BY <1>2, <2>4 DEF Has
    <3>2. CASE i = Len(q) + 1 /\ j # i
      BY <2>2, <2>3, <2>4, <3>1, <3>2
    <3>3. CASE j = Len(q) + 1 /\ j # i
      BY <2>2, <2>3, <2>4, <3>1, <3>3
    <3>4. CASE i \in 1..Len(q) /\ j \in 1..Len(q)
      BY <2>3, <2>4, <3>4 DEF Once
    <3> QED
      BY <2>4, <3>2, <3>3, <3>4
  <2>7. Owned(q) => Owned(Append(q, new))
    <3> SUFFICES ASSUME Owned(q), NEW i \in 1..Len(q) + 1
                 PROVE  fdfile[Append(q, new)[i].fd] = Append(q, new)[i].of
      BY <2>4 DEF Owned
    <3>1. CASE i = Len(q) + 1
      BY <2>2, <2>3, <3>1
    <3>2. CASE i \in 1..Len(q)
      BY <2>3, <2>4, <3>2 DEF Owned
    <3> QED
      BY <2>4, <3>1, <3>2
  <2> QED
    BY <2>1, <2>3, <2>4, <2>5, <2>6, <2>7
<1> QED
  BY <1>1, <1>2

LEMMA PostedIs ==
  ASSUME NEW f
  PROVE  \/ Subscribers(f) = {} /\ Posted(f) = evq
         \/ \E d \in Subscribers(f): Posted(f) = Queued(evq, d)
BY DEF Posted

LEMMA PurgedIs ==
  ASSUME NEW q \in Seq(Events), NEW d
  PROVE  /\ Purged(q, d) \in Seq(Events)
         /\ q = <<>> => Purged(q, d) = <<>>
         /\ \A e: e # d /\ Has(q, e) => Has(Purged(q, d), e)
         /\ Once(q) => Once(Purged(q, d)) /\ ~Has(Purged(q, d), d)
         /\ \A i \in DOMAIN Purged(q, d): \E j \in DOMAIN q: Purged(q, d)[i] = q[j]
<1>0. DOMAIN q = 1..Len(q) /\ Len(q) \in Nat
  OBVIOUS
<1>1. CASE ~Has(q, d)
  BY <1>1 DEF Purged, Has
<1>2. CASE Has(q, d)
  <2>1. PICK k \in 1..Len(q): q[k].fd = d /\ Purged(q, d) = RemoveAt(q, k)
    BY <1>0, <1>2 DEF Purged, Has
  <2> DEFINE r == RemoveAt(q, k)
  <2>2. /\ r \in Seq(Events) /\ Len(r) = Len(q) - 1
        /\ \A j \in 1..Len(q) - 1: r[j] = IF j < k THEN q[j] ELSE q[j + 1]
    BY Removed
  <2> HIDE DEF r
  <2>3. DOMAIN r = 1..Len(q) - 1
    BY <2>2
  <2>4. \A i \in DOMAIN r: \E j \in DOMAIN q: r[i] = q[j] /\ j # k
    <3> SUFFICES ASSUME NEW i \in 1..Len(q) - 1 PROVE \E j \in 1..Len(q): r[i] = q[j] /\ j # k
      BY <1>0, <2>3
    <3>1. CASE i < k
      BY <1>0, <2>2, <3>1
    <3>2. CASE i >= k
      <4>1. i + 1 \in 1..Len(q) /\ i + 1 # k /\ r[i] = q[i + 1]
        BY <1>0, <2>2, <3>2
      <4> QED
        BY <4>1
    <3> QED
      BY <1>0, <3>1, <3>2
  <2>5. ASSUME NEW e, e # d, Has(q, e) PROVE Has(r, e)
    <3>1. PICK j \in 1..Len(q): q[j].fd = e
      BY <1>0, <2>5 DEF Has
    <3>2. CASE j < k
      <4>1. j \in 1..Len(q) - 1 /\ r[j] = q[j]
        BY <1>0, <2>2, <3>2
      <4> QED
        BY <2>3, <3>1, <4>1 DEF Has
    <3>3. CASE j > k
      <4>1. j - 1 \in 1..Len(q) - 1 /\ r[j - 1] = q[j]
        BY <1>0, <2>2, <3>3
      <4> QED
        BY <2>3, <3>1, <4>1 DEF Has
    <3> QED
      BY <1>0, <2>1, <2>5, <3>1, <3>2, <3>3
  <2>6. ASSUME Once(q) PROVE Once(r) /\ ~Has(r, d)
    <3>1. ~Has(r, d)
      BY <1>0, <2>1, <2>4, <2>6 DEF Has, Once
    <3>2. ASSUME NEW i \in 1..Len(q) - 1, NEW j \in 1..Len(q) - 1, r[i].fd = r[j].fd PROVE i = j
      <4> DEFINE at(n) == IF n < k THEN n ELSE n + 1
      <4>1. \A n \in 1..Len(q) - 1: at(n) \in 1..Len(q) /\ r[n] = q[at(n)]
        BY <1>0, <2>2
      <4>2. at(i) = at(j)
        BY <1>0, <2>6, <3>2, <4>1 DEF Once
      <4> QED
        BY <1>0, <4>2
    <3> QED
      BY <2>3, <3>1, <3>2 DEF Once
  <2> QED
    BY <1>0, <1>2, <2>1, <2>2, <2>4, <2>5, <2>6 DEF r
<1> QED
  BY <1>1, <1>2

LEMMA QueuesTyped ==
  ASSUME TypeOK, FilesKnown, [Next]_vars
  PROVE  QueueTypes'
<1> USE DEF TypeOK, QueueTypes
<1>1. CASE Writes
  <2>1. ASSUME NEW f \in Files, Write(f) \/ CloseWriter(f) PROVE evq' \in Seq(Events)
    <3>1. evq' = Posted(f)
      BY <2>1 DEF Write, CloseWriter
    <3>2. ASSUME NEW d \in Subscribers(f) PROVE Queued(evq, d) \in Seq(Events)
      BY QueuedIs DEF Subscribers
    <3> QED
      BY <3>1, <3>2, PostedIs
  <2>2. CASE WakeBump \/ WakeNotify
    BY <2>2 DEF WakeBump, WakeNotify
  <2>3. CASE \E f \in Files: Write(f) \/ CloseWriter(f)
    <3>1. UNCHANGED <<sub, fdfile, handler, ready, fresh, wait>>
      BY <2>3 DEF Write, CloseWriter
    <3> QED
      BY <2>1, <2>3, <3>1
  <2> QED
    BY <1>1, <2>2, <2>3 DEF Writes
<1>2. CASE Steps
  <2>1. ready' = ready \/ (ready # <<>> /\ ready' = Tail(ready))
    BY <1>2 DEF Steps, StepTimer, EndTimers, StepKernel, EndKernel, StepImmediate
  <2>2. UNCHANGED <<sub, fdfile, handler, evq, fresh, wait>>
    BY <1>2 DEF Steps, StepTimer, EndTimers, StepKernel, EndKernel, StepImmediate
  <2>3. ready' \in Seq(Events)
    <3> HIDE DEF Events
    <3> QED
      BY <2>1
  <2> QED
    BY <2>2, <2>3
<1>3. CASE Takes
  <2>1. ready' = ready \o evq /\ evq' = <<>> /\ UNCHANGED <<sub, fdfile, handler, fresh, wait>>
    BY <1>3 DEF Takes, Take, TakeRest
  <2>2. ready' \in Seq(Events) /\ evq' \in Seq(Events)
    BY <2>1
  <2> QED
    BY <2>1, <2>2
<1>4. CASE Pumps
  <2>1. /\ handler' \in {handler, handler \ {arming}} /\ sub' \subseteq sub
        /\ UNCHANGED <<fdfile, evq, ready, fresh, wait>>
    BY <1>4 DEF Pumps, PumpAll, PumpFull, StopReading
  <2> QED
    BY <2>1, FS_Subset
<1>5. CASE Arms
  <2>1. fdfile[arming] \in Files
    BY <1>5 DEF Arms, Subscribe, Level, FilesKnown, LoopTypes
  <2>2. CASE Subscribe
    BY <2>1, <2>2 DEF Subscribe
  <2>3. CASE Level
    <3>1. evq' = evq \/ evq' = Queued(evq, arming)
      BY <2>3 DEF Level
    <3>2. UNCHANGED <<sub, fdfile, handler, ready>> /\ fresh' \in BOOLEAN
          /\ wait' \in {"none", "pending", "resolved"}
      BY <2>3 DEF Level, Bumped
    <3>3. evq' \in Seq(Events)
      BY <2>1, <3>1, QueuedIs DEF LoopTypes
    <3> QED
      BY <3>2, <3>3
  <2> QED
    BY <1>5, <2>2, <2>3 DEF Arms
<1>6. CASE Reads
  <2>1. ASSUME NEW d \in Fds, Calls(Resume(d)) PROVE QueueTypes'
    <3>1. handler' = handler \cup {d} /\ UNCHANGED <<sub, fdfile, evq, ready, fresh, wait>>
      BY <2>1 DEF Calls, Resume, StartReading
    <3> QED
      BY <3>1, FS_AddElement
  <2>2. ASSUME NEW f \in Files, Calls(Open(f)) PROVE QueueTypes'
    <3>1. PICK d \in Fds: handler' = handler \cup {d} /\ fdfile' = [fdfile EXCEPT ![d] = f]
      BY <2>2 DEF Calls, Open, StartReading
    <3>2. UNCHANGED <<sub, evq, ready, fresh, wait>>
      BY <2>2 DEF Calls, Open
    <3> QED
      BY <3>1, <3>2, FS_AddElement
  <2> QED
    BY <1>6, <2>1, <2>2 DEF Reads
<1>7. ASSUME NEW d \in Fds, CloseFile(d) PROVE QueueTypes'
  <2>1. /\ handler' \in {handler, handler \ {d}} /\ sub' \subseteq sub
        /\ fdfile' = [fdfile EXCEPT ![d] = None] /\ evq' = Purged(evq, d)
        /\ UNCHANGED <<ready, fresh, wait>>
    BY <1>7 DEF CloseFile, StopReading
  <2> QED
    BY <2>1, FS_Subset, PurgedIs
<1>8. CASE Tick \/ Starts \/ Natives \/ Ends \/ Returns \/ UNCHANGED vars
  <2>1. UNCHANGED <<sub, fdfile, handler, evq, ready>>
    BY <1>8 DEF Tick, Starts, TaskPing, TaskTimer, TaskWake, Natives, FetchSettles, Microtask,
       Ends, EndTurn, LoadWord, WaitAsync, Check, Drained, Returns, Return, Yield, vars
  <2>2. fresh' \in BOOLEAN /\ wait' \in {"none", "pending", "resolved"}
    BY <1>8 DEF Tick, Starts, TaskPing, TaskTimer, TaskWake, Natives, FetchSettles, Microtask,
       Ends, EndTurn, LoadWord, WaitAsync, Check, Drained, Returns, Return, Yield, vars
  <2> QED
    BY <2>1, <2>2
<1>9. CASE Asks \/ Drops \/ \E t \in Timers, n \in {1, Long}: Calls(SetTimeout(t, n))
  <2>1. UNCHANGED <<sub, fdfile, handler, evq, ready, fresh, wait>>
    BY <1>9 DEF Calls, Asks, SetImmediate, Fetch, QueueMicrotask, Drops, ClearTimeout, Unref,
       DropTimer, SetTimeout
  <2> QED
    BY <2>1
<1> QED
  BY <1>1, <1>2, <1>3, <1>4, <1>5, <1>6, <1>7, <1>8, <1>9, NextCases

LEMMA LoopTyped ==
  ASSUME TypeOK, [Next]_vars
  PROVE  LoopTypes'
<1> USE Sizes DEF TypeOK, LoopTypes, PCs, Returned
<1>1. CASE Writes \/ Tick \/ UNCHANGED vars
  BY <1>1 DEF Writes, Write, CloseWriter, WakeBump, WakeNotify, Tick, vars
<1>2. CASE Starts
  <2>1. UNCHANGED <<arming, exitCheck, imm, batch, refs, ops>>
    BY <1>2 DEF Starts, TaskPing, TaskTimer, TaskWake, BeginTurn
  <2>2. pc' = "turn" /\ task' = "turn" /\ phase' \in {phase, 1}
    BY <1>2 DEF Starts, TaskPing, TaskTimer, TaskWake, BeginTurn
  <2> QED
    BY <2>1, <2>2
<1>3. CASE Natives
  <2>1. UNCHANGED <<arming, phase, exitCheck, imm, batch, ops>>
    BY <1>3 DEF Natives, FetchSettles, Microtask
  <2>2. pc' = "guest" /\ task' = "native" /\ refs' \in {refs, refs - 1}
    BY <1>3 DEF Natives, FetchSettles, Microtask
  <2> QED
    BY <2>1, <2>2
<1>4. CASE StepTimer
  <2>1. UNCHANGED <<task, arming, phase, exitCheck, imm, batch, ops>>
    BY <1>4 DEF StepTimer
  <2>2. pc' = "guest" /\ refs' \in {refs, refs - 1}
    BY <1>4 DEF StepTimer
  <2> QED
    BY <2>1, <2>2
<1>5. CASE StepKernel
  <2>1. Head(ready) \in Events
    <3> HIDE DEF Events
    <3>1. ready \in Seq(Events) /\ ready # <<>>
      BY <1>5 DEF StepKernel, QueueTypes
    <3> QED
      BY <3>1
  <2>2. Head(ready).fd \in Fds
    BY <2>1 DEF Events
  <2>3. UNCHANGED <<task, phase, exitCheck, imm, batch, ops, refs>>
    BY <1>5 DEF StepKernel
  <2>4. arming' = Head(ready).fd /\ pc' \in {"pump", "idle", "back", "turn"}
    BY <1>5 DEF StepKernel
  <2> QED
    BY <2>2, <2>3, <2>4
<1>6. CASE Takes
  <2>1. UNCHANGED <<task, arming, phase, exitCheck, imm, batch, ops, refs>>
    BY <1>6 DEF Takes, Take, TakeRest
  <2>2. pc' \in {"take", "turn", "rest", "await"}
    BY <1>6 DEF Takes, Take, TakeRest
  <2> QED
    BY <2>1, <2>2
<1>7. CASE EndTurn
  <2>1. UNCHANGED <<arming, exitCheck, imm, batch, ops, refs>>
    BY <1>7 DEF EndTurn
  <2>2. phase' = 0 /\ task' = "end" /\ pc' \in {"check", "load"}
    BY <1>7 DEF EndTurn
  <2> QED
    BY <2>1, <2>2
<1>8. CASE LoadWord \/ WaitAsync \/ Check \/ Drained
  <2>1. UNCHANGED <<arming, task, phase, imm, batch, ops, refs>>
    BY <1>8 DEF LoadWord, WaitAsync, Check, Drained
  <2>2. pc' \in {"rest", "check", "guest", "idle", "stopped"}
    BY <1>8 DEF LoadWord, WaitAsync, Check, Drained
  <2>3. exitCheck' \in 0..2
    BY <1>8 DEF LoadWord, WaitAsync, Check, Drained, Countdown
  <2> QED
    BY <2>1, <2>2, <2>3
<1>9. CASE Pumps \/ Arms \/ Returns
  <2>1. UNCHANGED <<arming, task, phase, exitCheck, imm, batch, ops>>
    BY <1>9 DEF Pumps, PumpAll, PumpFull, Arms, Subscribe, Level, Returns, Return, Yield
  <2>2. pc' \in {"guest", "level", "idle", "back", "turn"}
    BY <1>9 DEF Pumps, PumpAll, PumpFull, Arms, Subscribe, Level, Returns, Return, Yield
  <2>3. refs' \in {refs, refs - 1}
    BY <1>9 DEF Pumps, PumpAll, PumpFull, StopReading, Arms, Subscribe, Level, Returns, Return, Yield
  <2> QED
    BY <2>1, <2>2, <2>3
<1>10. ASSUME NEW t \in Timers, NEW n \in {1, Long}, Calls(SetTimeout(t, n)) PROVE LoopTypes'
  BY <1>10 DEF Calls, SetTimeout
<1>11. CASE Asks \/ Drops
  <2>1. UNCHANGED <<arming, task, phase, exitCheck, batch>>
    BY <1>11 DEF Calls, Asks, SetImmediate, Fetch, QueueMicrotask, Drops, ClearTimeout, Unref,
       DropTimer
  <2>2. pc' \in {"idle", "back", "turn"} /\ imm' \in {imm, imm + 1} /\ ops' \in {ops, ops + 1}
    BY <1>11 DEF Calls, Asks, SetImmediate, Fetch, QueueMicrotask, Drops, ClearTimeout, Unref,
       DropTimer
  <2>3. refs' \in {refs, refs - 1, refs - 0, refs + 1}
    BY <1>11 DEF Calls, Asks, SetImmediate, Fetch, QueueMicrotask, Drops, ClearTimeout, Unref,
       DropTimer
  <2> QED
    BY <2>1, <2>2, <2>3
<1>12. CASE Reads
  BY <1>12 DEF Reads, Calls, Resume, Open, StartReading
<1>13. ASSUME NEW d \in Fds, CloseFile(d) PROVE LoopTypes'
  <2>1. UNCHANGED <<arming, task, phase, exitCheck, imm, batch, ops>>
    BY <1>13 DEF CloseFile
  <2>2. pc' \in {"idle", "back", "turn"} /\ refs' \in {refs, refs - 1}
    BY <1>13 DEF CloseFile, StopReading
  <2> QED
    BY <2>1, <2>2
<1>14. CASE EndTimers \/ EndKernel \/ StepImmediate
  <2>1. UNCHANGED <<task, arming, exitCheck, ops>>
    BY <1>14 DEF EndTimers, EndKernel, StepImmediate
  <2>2. /\ pc' \in {"take", "turn", "guest"} /\ phase' \in {phase, 2, 3}
        /\ refs' \in {refs, refs - 1} /\ imm' \in {imm, 0}
        /\ batch' \in {batch, imm} \/ (batch > 0 /\ batch' = batch - 1)
    BY <1>14 DEF EndTimers, EndKernel, StepImmediate
  <2> QED
    BY <2>1, <2>2
<1> QED
  BY <1>1, <1>2, <1>3, <1>4, <1>5, <1>6, <1>7, <1>8, <1>9, <1>10, <1>11, <1>12, <1>13, <1>14,
     NextCases DEF Steps, Ends

LEMMA FlagsTyped ==
  ASSUME TypeOK, [Next]_vars
  PROVE  FlagTypes'
<1>0. ran \in BOOLEAN /\ pinged \in BOOLEAN /\ fetching \in BOOLEAN
      /\ micro \in BOOLEAN /\ active \in BOOLEAN
  BY DEF TypeOK, FlagTypes
<1>1. active' \in BOOLEAN
  <2>1. active' = active
    BY NextCases DEF Writes, Write, CloseWriter, WakeBump, WakeNotify, Tick, Starts, TaskPing,
       TaskTimer, TaskWake, Natives, FetchSettles, Microtask, Steps, StepTimer, EndTimers,
       StepKernel, EndKernel, StepImmediate, Takes, Take, TakeRest, Ends, EndTurn, LoadWord,
       WaitAsync, Check, Drained, Pumps, PumpAll, PumpFull, Arms, Subscribe, Level, Calls,
       Asks, Drops, Reads, CloseFile, Returns, Return, Yield, vars
  <2> QED
    BY <1>0, <2>1
<1>2. ran' \in BOOLEAN
  <2>1. ran' \in {ran, TRUE} \/ ran' = (phase # 0 /\ ran)
    BY NextCases DEF Writes, Write, CloseWriter, WakeBump, WakeNotify, Tick, Starts, TaskPing,
       TaskTimer, TaskWake, BeginTurn, Natives, FetchSettles, Microtask, Steps, StepTimer, EndTimers,
       StepKernel, EndKernel, StepImmediate, Takes, Take, TakeRest, Ends, EndTurn, LoadWord,
       WaitAsync, Check, Drained, Pumps, PumpAll, PumpFull, Arms, Subscribe, Level, Calls,
       Asks, Drops, Reads, CloseFile, Returns, Return, Yield, vars
  <2> QED
    BY <1>0, <2>1
<1>3. fetching' \in BOOLEAN /\ micro' \in BOOLEAN
  <2>1. fetching' \in {fetching, TRUE, FALSE} /\ micro' \in {micro, TRUE, FALSE}
    BY NextCases DEF Writes, Write, CloseWriter, WakeBump, WakeNotify, Tick, Starts, TaskPing,
       TaskTimer, TaskWake, Natives, FetchSettles, Microtask, Steps, StepTimer, EndTimers,
       StepKernel, EndKernel, StepImmediate, Takes, Take, TakeRest, Ends, EndTurn, LoadWord,
       WaitAsync, Check, Drained, Pumps, PumpAll, PumpFull, Arms, Subscribe, Level, Calls,
       Asks, SetImmediate, Fetch, QueueMicrotask, Drops, ClearTimeout, Unref, DropTimer,
       SetTimeout, Reads, Resume, Open, CloseFile, Returns, Return, Yield, vars
  <2> QED
    BY <1>0, <2>1
<1>4. pinged' \in BOOLEAN
  <2>1. CASE Writes \/ Tick \/ Starts \/ Natives \/ Steps \/ Takes \/ UNCHANGED vars
    BY <1>0, <2>1 DEF Writes, Write, CloseWriter, WakeBump, WakeNotify, Tick, Starts, TaskPing,
       TaskTimer, TaskWake, Natives, FetchSettles, Microtask, Steps, StepTimer, EndTimers,
       StepKernel, EndKernel, StepImmediate, Takes, Take, TakeRest, vars
  <2>2. CASE Ends
    BY <1>0, <2>2 DEF Ends, EndTurn, LoadWord, WaitAsync, Check, Drained
  <2>3. CASE Pumps \/ Arms \/ Returns \/ \E d \in Fds: CloseFile(d)
    BY <1>0, <2>3 DEF Pumps, PumpAll, PumpFull, StopReading, Arms, Subscribe, Level, CloseFile,
       Returns, Return, Yield
  <2>4. CASE Asks \/ Drops \/ \E t \in Timers, n \in {1, Long}: Calls(SetTimeout(t, n))
    BY <1>0, <2>4 DEF Calls, Asks, SetImmediate, Fetch, QueueMicrotask, Drops, ClearTimeout, Unref,
       DropTimer, SetTimeout
  <2>5. CASE Reads
    BY <1>0, <2>5 DEF Calls, Reads, Resume, Open
  <2> QED
    BY <2>1, <2>2, <2>3, <2>4, <2>5, NextCases
<1> QED
  BY <1>1, <1>2, <1>3, <1>4 DEF FlagTypes

-----------------------------------------------------------------------------
\* The timers.

LEMMA HostLeftRange ==
  ASSUME TypeOK, NEW h \in Seq(Timers), NEW l \in [Timers -> 0..Long]
  PROVE  HostLeft(h, l) \in -1..Long
<1>1. CASE h = <<>>
  BY <1>1 DEF HostLeft, TypeOK, TimerTypes
<1>2. CASE h # <<>>
  <2>1. h[1] \in Timers
    BY <1>2
  <2> QED
    BY <2>1, Sizes DEF HostLeft, Head1, TypeOK, TimerTypes
<1> QED
  BY <1>1, <1>2

LEMMA LiveIs == TypeOK => Live = {heap[i]: i \in 1..Len(heap)} /\ Live \subseteq Timers
BY DEF Live, TypeOK, TimerTypes

\* What a new timer does to the heap.
LEMMA Arming ==
  ASSUME TypeOK, NEW t \in Timers, NEW n \in {1, Long}, Calls(SetTimeout(t, n))
  PROVE  /\ Before(n) \in 0..Len(heap) /\ t \notin Live
         /\ heap' \in Seq(Timers) /\ Len(heap') = Len(heap) + 1
         /\ \A j \in 1..Len(heap) + 1:
              heap'[j] = IF j < Before(n) + 1 THEN heap[j]
                         ELSE IF j = Before(n) + 1 THEN t ELSE heap[j - 1]
         /\ left' = [left EXCEPT ![t] = n] /\ left' \in [Timers -> 0..Long]
         /\ hostLeft' = HostLeft(heap', left') /\ pinged' = (pinged \/ WantsPing(heap', left'))
         /\ timerRef' = timerRef \cup {t} /\ refs' = refs + 1
         /\ late' = (IF phase # 0 THEN late \cup {t} ELSE late) /\ owed' = owed \ {t}
<1>1. heap' = InsertAt(heap, Before(n) + 1, t)
  BY DEF Calls, SetTimeout, Armed, Before
<1>2. Before(n) \in 0..Len(heap) /\ heap \in Seq(Timers)
  BY BeforeRange DEF TypeOK, TimerTypes
<1>3. Before(n) + 1 \in 1..Len(heap) + 1
  BY <1>2
<1>4. left' = [left EXCEPT ![t] = n] /\ left' \in [Timers -> 0..Long]
  BY Sizes DEF Calls, SetTimeout, TypeOK, TimerTypes
<1>5. hostLeft' = HostLeft(heap', left') /\ pinged' = (pinged \/ WantsPing(heap', left'))
  BY DEF Calls, SetTimeout
<1>6. /\ t \notin Live /\ timerRef' = timerRef \cup {t} /\ refs' = refs + 1
      /\ late' = (IF phase # 0 THEN late \cup {t} ELSE late) /\ owed' = owed \ {t}
  BY DEF Calls, SetTimeout
<1> QED
  BY <1>1, <1>2, <1>3, <1>4, <1>5, <1>6, Inserted

\* What a timer that goes does to it: one that is cleared, or runs.
Gone(k) ==
  /\ k \in 1..Len(heap) /\ heap' \in Seq(Timers) /\ Len(heap') = Len(heap) - 1
  /\ \A j \in 1..Len(heap) - 1: heap'[j] = IF j < k THEN heap[j] ELSE heap[j + 1]
  /\ timerRef' = timerRef \ {heap[k]}
  /\ refs' = refs - (IF heap[k] \in timerRef THEN 1 ELSE 0)

LEMMA Clearing ==
  ASSUME TypeOK, NEW t \in Timers, Calls(ClearTimeout(t))
  PROVE  /\ UNCHANGED <<late, owed, hostLeft>>
         /\ \E k \in 1..Len(heap): heap[k] = t /\ Gone(k)
         /\ left' = left \/ left' = [left EXCEPT ![t] = 0]
<1>1. t \in Live
  BY DEF Calls, ClearTimeout, DropTimer
<1>2. \E k \in DOMAIN heap: heap[k] = t
  BY <1>1 DEF Live
<1>3. PICK k \in DOMAIN heap: heap[k] = t /\ heap' = RemoveAt(heap, k)
  <2> DEFINE k == CHOOSE i \in DOMAIN heap: heap[i] = t
  <2>1. k \in DOMAIN heap /\ heap[k] = t
    BY <1>2
  <2>2. heap' = RemoveAt(heap, k)
    BY DEF Calls, ClearTimeout, DropTimer
  <2> QED
    BY <2>1, <2>2
<1>4. heap \in Seq(Timers) /\ k \in 1..Len(heap)
  BY <1>3 DEF TypeOK, TimerTypes
<1>5. /\ timerRef' = timerRef \ {t} /\ refs' = refs - (IF t \in timerRef THEN 1 ELSE 0)
      /\ UNCHANGED <<late, owed, hostLeft>>
      /\ left' = left \/ left' = [left EXCEPT ![t] = 0]
  BY DEF Calls, ClearTimeout, DropTimer
<1>6. Gone(k)
  BY <1>3, <1>4, <1>5, Removed DEF Gone
<1> QED
  BY <1>3, <1>4, <1>5, <1>6

LEMMA Firing ==
  ASSUME TypeOK, StepTimer
  PROVE  Gone(1) /\ UNCHANGED <<left, late, owed, hostLeft>>
<1>1. heap \in Seq(Timers) /\ heap # <<>> /\ heap' = Tail(heap)
  BY DEF StepTimer, TimerDue, TypeOK, TimerTypes
<1>2. /\ 1 \in 1..Len(heap) /\ heap' \in Seq(Timers) /\ Len(heap') = Len(heap) - 1
      /\ \A j \in 1..Len(heap) - 1: heap'[j] = heap[j + 1]
  BY <1>1
<1> QED
  BY <1>2 DEF Gone, StepTimer

\* The rest leaves the heap alone.
LEMMA HeapKept ==
  ASSUME \/ Writes \/ Starts \/ Natives \/ EndTimers \/ StepKernel \/ EndKernel \/ StepImmediate
         \/ Takes \/ Ends \/ Pumps \/ Arms \/ Asks \/ Reads \/ (\E d \in Fds: CloseFile(d))
         \/ Returns \/ UNCHANGED vars
  PROVE  UNCHANGED <<heap, left, timerRef>>
<1>1. CASE Writes \/ Starts \/ Natives \/ EndTimers \/ StepKernel \/ EndKernel \/ StepImmediate
  BY <1>1 DEF Writes, Write, CloseWriter, WakeBump, WakeNotify, Starts, TaskPing,
     TaskTimer, TaskWake, Natives, FetchSettles, Microtask, EndTimers,
     StepKernel, EndKernel, StepImmediate
<1>2. CASE Takes \/ Ends \/ Pumps \/ Arms \/ Returns \/ UNCHANGED vars
  BY <1>2 DEF Takes, Take, TakeRest, Ends, EndTurn, LoadWord, WaitAsync, Check, Drained,
     Pumps, PumpAll, PumpFull, Arms, Subscribe, Level, Returns, Return, Yield, vars
<1>3. CASE Asks \/ Reads \/ \E d \in Fds: CloseFile(d)
  BY <1>3 DEF Calls, Asks, SetImmediate, Fetch, QueueMicrotask, Reads, Resume, Open, CloseFile
<1> QED
  BY <1>1, <1>2, <1>3

LEMMA Ticking ==
  ASSUME Tick
  PROVE  /\ left' = [t \in Timers |-> IF left[t] > 0 THEN left[t] - 1 ELSE 0]
         /\ hostLeft' = IF hostLeft > 0 THEN hostLeft - 1 ELSE hostLeft
         /\ UNCHANGED <<heap, late, owed, timerRef>>
BY DEF Tick

LEMMA Unreffing ==
  ASSUME TypeOK, NEW t \in Timers, Calls(Unref(t))
  PROVE  /\ t \in timerRef /\ timerRef' = timerRef \ {t} /\ refs' = refs - 1
         /\ UNCHANGED <<heap, left, late, owed, hostLeft>>
BY DEF Calls, Unref, DropTimer

LEMMA TimersTyped ==
  ASSUME TypeOK, [Next]_vars
  PROVE  TimerTypes'
<1> USE Sizes
<1>0. TimerTypes
  BY DEF TypeOK
<1>1. CASE Tick
  <2>1. left' \in [Timers -> 0..Long] /\ hostLeft' \in -1..Long
    BY <1>0, <1>1, Ticking DEF TimerTypes
  <2> QED
    BY <1>0, <1>1, <2>1, Ticking DEF TimerTypes
<1>2. CASE StepTimer
  <2>1. heap' \in Seq(Timers) /\ timerRef' \subseteq timerRef
    BY <1>2, Firing DEF Gone
  <2> QED
    BY <1>0, <1>2, <2>1, Firing, FS_Subset DEF TimerTypes
<1>3. ASSUME NEW t \in Timers, NEW n \in {1, Long}, Calls(SetTimeout(t, n)) PROVE TimerTypes'
  <2>1. heap' \in Seq(Timers) /\ left' \in [Timers -> 0..Long]
    BY <1>3, Arming
  <2>2. hostLeft' \in -1..Long
    BY <1>3, <2>1, Arming, HostLeftRange
  <2>3. /\ timerRef' = timerRef \cup {t} /\ owed' = owed \ {t}
        /\ late' \in {late, late \cup {t}}
    BY <1>3, Arming
  <2>4. late' \subseteq Timers /\ owed' \subseteq Timers /\ timerRef' \subseteq Timers
    BY <1>0, <2>3 DEF TimerTypes
  <2>5. IsFiniteSet(timerRef')
    BY <1>0, <2>3, FS_AddElement DEF TimerTypes
  <2> QED
    BY <2>1, <2>2, <2>4, <2>5 DEF TimerTypes
<1>4. ASSUME NEW t \in Timers, Calls(ClearTimeout(t)) PROVE TimerTypes'
  <2>1. heap' \in Seq(Timers) /\ timerRef' \subseteq timerRef
    BY <1>4, Clearing DEF Gone
  <2>2. left' \in [Timers -> 0..Long]
    BY <1>0, <1>4, Clearing DEF TimerTypes
  <2> QED
    BY <1>0, <1>4, <2>1, <2>2, Clearing, FS_Subset DEF TimerTypes
<1>5. ASSUME NEW t \in Timers, Calls(Unref(t)) PROVE TimerTypes'
  <2>1. timerRef' \subseteq timerRef
    BY <1>5, Unreffing
  <2> QED
    BY <1>0, <1>5, <2>1, Unreffing, FS_Subset DEF TimerTypes
<1>6. CASE Starts
  <2>1. UNCHANGED <<heap, left, timerRef, late>> /\ hostLeft' \in {hostLeft, -1}
    BY <1>6, HeapKept DEF Starts, TaskPing, TaskTimer, TaskWake
  <2>2. owed' = owed \/ owed' \subseteq Live
    BY <1>6 DEF Starts, TaskPing, TaskTimer, TaskWake, BeginTurn
  <2> QED
    BY <1>0, <2>1, <2>2, LiveIs DEF TimerTypes
<1>7. CASE EndTurn
  <2>1. UNCHANGED <<heap, left, timerRef, owed>> /\ hostLeft' = HostLeft(heap, left) /\ late' = {}
    BY <1>7 DEF EndTurn
  <2> QED
    BY <1>0, <2>1, HostLeftRange DEF TimerTypes
<1>8. CASE \/ Writes \/ Natives \/ EndTimers \/ StepKernel \/ EndKernel \/ StepImmediate
           \/ Takes \/ LoadWord \/ WaitAsync \/ Check \/ Drained \/ Pumps \/ Arms \/ Asks \/ Reads
           \/ (\E d \in Fds: CloseFile(d)) \/ Returns \/ UNCHANGED vars
  <2>1. UNCHANGED <<late, owed, hostLeft>>
    <3>1. CASE Writes \/ Natives \/ EndTimers \/ StepKernel \/ EndKernel \/ StepImmediate
      BY <3>1 DEF Writes, Write, CloseWriter, WakeBump, WakeNotify,
         Natives, FetchSettles, Microtask, EndTimers, StepKernel, EndKernel, StepImmediate
    <3>2. CASE \/ Takes \/ LoadWord \/ WaitAsync \/ Check \/ Drained \/ Pumps \/ Arms
               \/ Returns \/ UNCHANGED vars
      BY <3>2 DEF Takes, Take, TakeRest, LoadWord, WaitAsync, Check, Drained,
         Pumps, PumpAll, PumpFull, Arms, Subscribe, Level, Returns, Return, Yield, vars
    <3>3. CASE Asks \/ Reads \/ \E d \in Fds: CloseFile(d)
      BY <3>3 DEF Calls, Asks, SetImmediate, Fetch, QueueMicrotask, Reads, Resume, Open, CloseFile
    <3> QED
      BY <1>8, <3>1, <3>2, <3>3
  <2>2. UNCHANGED <<heap, left, timerRef>>
    BY <1>8, HeapKept DEF Ends
  <2> QED
    BY <1>0, <2>1, <2>2 DEF TimerTypes
<1> QED
  BY <1>1, <1>2, <1>3, <1>4, <1>5, <1>6, <1>7, <1>8, NextCases DEF Steps, Ends, Drops

LEMMA TypeStep ==
  ASSUME TypeOK, FilesKnown, [Next]_vars
  PROVE  TypeOK'
BY PipesTyped, QueuesTyped, LoopTyped, FlagsTyped, TimersTyped DEF TypeOK

-----------------------------------------------------------------------------
\* Descriptors.

At == {"subscribe", "level", "pump"}

LEMMA FilesQuiet ==
  ASSUME FilesKnown, UNCHANGED <<fdfile, status, handler, sub>>,
         \/ UNCHANGED <<pc, arming>>
         \/ pc # "subscribe" /\ (pc' \in At => arming' \in handler)
  PROVE  FilesKnown'
BY DEF FilesKnown, At

LEMMA FilesInit == Init => FilesKnown
<1> SUFFICES ASSUME Init PROVE FilesKnown
  OBVIOUS
<1>1. PICK f \in Files, d \in Fds:
        /\ sub = {f} /\ handler = {d} /\ arming = d
        /\ status = [g \in Files |-> IF g = f THEN "open" ELSE "new"]
        /\ fdfile = [e \in Fds |-> IF e = d THEN f ELSE None]
  BY Opened
<1>2. pc = "idle"
  BY DEF Init
<1> QED
  BY <1>1, <1>2, Sizes DEF FilesKnown

LEMMA FilesStep ==
  ASSUME TypeOK, FilesKnown, [Next]_vars
  PROVE  FilesKnown'
<1> USE DEF Returned
<1>1. CASE Writes \/ Tick \/ UNCHANGED vars
  <2>1. UNCHANGED <<fdfile, status, handler, sub, pc, arming>>
    BY <1>1 DEF Writes, Write, CloseWriter, WakeBump, WakeNotify, Tick, vars
  <2> QED
    BY <2>1, FilesQuiet
<1>2. CASE Starts \/ Natives \/ StepTimer \/ EndTimers \/ EndKernel \/ StepImmediate
  <2>1. UNCHANGED <<fdfile, status, handler, sub>> /\ pc # "subscribe" /\ pc' \notin At
    BY <1>2 DEF Starts, TaskPing, TaskTimer, TaskWake, BeginTurn, Natives, FetchSettles, Microtask,
       Idle, StepTimer, EndTimers, EndKernel, StepImmediate, At
  <2> QED
    BY <2>1, FilesQuiet
<1>3. CASE StepKernel
  <2>1. UNCHANGED <<fdfile, status, handler, sub>> /\ pc # "subscribe"
        /\ (pc' \in At => arming' \in handler)
    BY <1>3 DEF StepKernel, At
  <2> QED
    BY <2>1, FilesQuiet
<1>4. CASE Takes \/ Ends \/ Returns
  <2>1. UNCHANGED <<fdfile, status, handler, sub>> /\ pc # "subscribe" /\ pc' \notin At
    BY <1>4 DEF Takes, Take, TakeRest, Ends, EndTurn, LoadWord, WaitAsync, Check, Drained,
       Returns, Return, Yield, At
  <2> QED
    BY <2>1, FilesQuiet
<1>5. CASE Asks \/ Drops \/ \E t \in Timers, n \in {1, Long}: Calls(SetTimeout(t, n))
  <2>1. UNCHANGED <<fdfile, status, handler, sub>> /\ pc # "subscribe" /\ pc' \notin At
    BY <1>5 DEF Calls, Asks, SetImmediate, Fetch, QueueMicrotask, Drops, ClearTimeout, Unref,
       DropTimer, SetTimeout, At
  <2> QED
    BY <2>1, FilesQuiet
<1>6. CASE Pumps
  <2>1. /\ pc = "pump" /\ pc' = "guest" /\ fdfile[arming] # None /\ UNCHANGED <<fdfile>>
        /\ \/ UNCHANGED <<handler, sub>>
           \/ handler' = handler \ {arming} /\ sub' = sub \ {fdfile[arming]}
        /\ status' = status \/ status' = [status EXCEPT ![fdfile[arming]] = "ended"]
    BY <1>6 DEF Pumps, PumpAll, PumpFull, StopReading
  <2>2. \A d \in Fds: fdfile[d] # None => status'[fdfile[d]] # "new"
    BY <2>1 DEF FilesKnown, TypeOK, PipeTypes, QueueTypes
  <2>3. \A d \in handler': fdfile[d] \in sub'
    BY <2>1 DEF FilesKnown, TypeOK, QueueTypes, LoopTypes
  <2>4. \A d \in handler': fdfile[d] # None
    BY <2>1 DEF FilesKnown
  <2> QED
    BY <2>1, <2>2, <2>3, <2>4 DEF FilesKnown
<1>7. CASE Arms
  <2>1. CASE Subscribe
    <3>1. /\ pc = "subscribe" /\ pc' = "level" /\ sub' = sub \cup {fdfile[arming]}
          /\ UNCHANGED <<fdfile, status, handler, arming>>
      BY <2>1 DEF Subscribe
    <3> QED
      BY <3>1 DEF FilesKnown
  <2>2. CASE Level
    <3>1. UNCHANGED <<fdfile, status, handler, sub>> /\ pc # "subscribe" /\ pc' \notin At
      BY <2>2 DEF Level, At
    <3> QED
      BY <3>1, FilesQuiet
  <2> QED
    BY <1>7, <2>1, <2>2 DEF Arms
<1>8. ASSUME NEW d \in Fds, Calls(Resume(d)) PROVE FilesKnown'
  <2>1. /\ pc = "guest" /\ pc' = "subscribe" /\ handler' = handler \cup {d} /\ arming' = d
        /\ fdfile[d] # None /\ UNCHANGED <<fdfile, status, sub>>
    BY <1>8 DEF Calls, Resume, StartReading
  <2> QED
    BY <2>1 DEF FilesKnown
<1>9. ASSUME NEW f \in Files, Calls(Open(f)) PROVE FilesKnown'
  <2>1. PICK d \in Fds:
          /\ pc = "guest" /\ pc' = "subscribe" /\ handler' = handler \cup {d} /\ arming' = d
          /\ fdfile[d] = None /\ fdfile' = [fdfile EXCEPT ![d] = f] /\ UNCHANGED sub
          /\ status[f] = "new" /\ status' = [status EXCEPT ![f] = "open"]
    BY <1>9 DEF Calls, Open, StartReading
  <2>2. /\ fdfile'[d] = f /\ f # None
        /\ \A e \in Fds: e # d => fdfile'[e] = fdfile[e] /\ fdfile[e] # f
    BY <2>1, Sizes DEF FilesKnown, TypeOK, QueueTypes
  <2>3. \A e \in Fds: fdfile'[e] # None => status'[fdfile'[e]] # "new"
    BY <2>1, <2>2 DEF FilesKnown, TypeOK, PipeTypes, QueueTypes
  <2>4. \A e, g \in Fds: fdfile'[e] # None /\ fdfile'[e] = fdfile'[g] => e = g
    BY <2>2 DEF FilesKnown
  <2>5. \A e \in handler': fdfile'[e] # None /\ (fdfile'[e] \in sub' \/ e = d)
    BY <2>1, <2>2 DEF FilesKnown, TypeOK, QueueTypes
  <2> QED
    BY <2>1, <2>3, <2>4, <2>5 DEF FilesKnown
<1>10. ASSUME NEW d \in Fds, CloseFile(d) PROVE FilesKnown'
  <2>1. /\ pc = "guest" /\ pc' \notin At /\ fdfile[d] # None
        /\ handler' = handler \ {d} /\ sub' = sub \ {fdfile[d]}
        /\ fdfile' = [fdfile EXCEPT ![d] = None]
        /\ status' = [status EXCEPT ![fdfile[d]] = "closed"]
    BY <1>10 DEF CloseFile, StopReading, At
  <2>2. fdfile'[d] = None /\ \A e \in Fds: e # d => fdfile'[e] = fdfile[e]
    BY <2>1 DEF TypeOK, QueueTypes
  <2>3. \A e \in Fds: fdfile'[e] # None => status'[fdfile'[e]] # "new"
    BY <2>1, <2>2 DEF FilesKnown, TypeOK, PipeTypes, QueueTypes
  <2>4. \A e, g \in Fds: fdfile'[e] # None /\ fdfile'[e] = fdfile'[g] => e = g
    BY <2>2 DEF FilesKnown
  <2>5. \A e \in handler': fdfile'[e] # None /\ fdfile'[e] \in sub'
    BY <2>1, <2>2 DEF FilesKnown, TypeOK, QueueTypes
  <2> QED
    BY <2>1, <2>3, <2>4, <2>5 DEF FilesKnown, At
<1> QED
  BY <1>1, <1>2, <1>3, <1>4, <1>5, <1>6, <1>7, <1>8, <1>9, <1>10, NextCases DEF Steps, Reads

\* Types, for every number of files, descriptors and timers.
THEOREM TypeCorrect == Spec => []TypeOK
<1>1. TypeOK /\ FilesKnown /\ [Next]_vars => TypeOK' /\ FilesKnown'
  BY TypeStep, FilesStep
<1> QED
  BY <1>1, TypeInit, FilesInit, PTL DEF Spec

-----------------------------------------------------------------------------
\* The kernel's queue and the loop's.

\* What other processes write is told to whoever reads it.
LEMMA Writing ==
  ASSUME TypeOK, NEW f \in Files, Write(f) \/ CloseWriter(f)
  PROVE  /\ \/ Subscribers(f) = {} /\ UNCHANGED <<evq, ppc>>
            \/ /\ \E d \in Subscribers(f): evq' = Queued(evq, d)
               /\ ppc' = "bump"
         /\ UNCHANGED <<sub, fdfile, handler, ready, fresh, wait, pc, task, arming, phase, pinged>>
         /\ \A g \in Files \ {f}: data'[g] = data[g] /\ wclosed'[g] = wclosed[g]
         /\ ppc = "idle" /\ pc # "stopped"
<1>1. /\ evq' = Posted(f) /\ ppc = "idle" /\ pc # "stopped"
      /\ Subscribers(f) = {} => ppc' = "idle"
      /\ Subscribers(f) # {} => ppc' = "bump"
  BY DEF Write, CloseWriter, Stopped
<1>5. UNCHANGED <<sub, fdfile, handler, ready, fresh, wait, pc, task, arming, phase, pinged>>
  BY DEF Write, CloseWriter
<1>2. \A g \in Files \ {f}: data'[g] = data[g] /\ wclosed'[g] = wclosed[g]
  BY DEF Write, CloseWriter, TypeOK, PipeTypes
<1>3. CASE Subscribers(f) = {}
  BY <1>1, <1>2, <1>3, <1>5 DEF Posted
<1>4. CASE Subscribers(f) # {}
  <2>1. \E d \in Subscribers(f): evq' = Queued(evq, d)
    BY <1>1, <1>4, PostedIs
  <2> QED
    BY <1>1, <1>2, <1>4, <1>5, <2>1
<1> QED
  BY <1>3, <1>4

\* Who has the queue, or a file at a number, in hand.
LEMMA QueueKept ==
  ASSUME \/ Tick \/ Starts \/ Natives \/ Steps \/ Ends \/ Pumps \/ Subscribe
         \/ Asks \/ Drops \/ (\E t \in Timers, n \in {1, Long}: Calls(SetTimeout(t, n)))
         \/ (\E d \in Fds: Calls(Resume(d))) \/ Returns \/ UNCHANGED vars
         \/ WakeBump \/ WakeNotify
  PROVE  UNCHANGED <<evq, fdfile>>
BY DEF WakeBump, WakeNotify, Tick, Starts, TaskPing, TaskTimer, TaskWake, Natives, FetchSettles,
   Microtask, Steps, StepTimer, EndTimers, StepKernel, EndKernel, StepImmediate,
   Ends, EndTurn, LoadWord, WaitAsync, Check, Drained, Pumps, PumpAll, PumpFull, Subscribe,
   Calls, Asks, SetImmediate, Fetch, QueueMicrotask, Drops, ClearTimeout, Unref,
   DropTimer, SetTimeout, Resume, Returns, Return, Yield, vars

LEMMA OwnedInit == Init => Once(evq) /\ QueuedForOwner
BY DEF Init, Once, QueuedForOwner

LEMMA OwnedStep ==
  ASSUME TypeOK, FilesKnown, Once(evq), QueuedForOwner, [Next]_vars
  PROVE  Once(evq)' /\ QueuedForOwner'
<1>0. Owned(evq) /\ evq \in Seq(Events) /\ fdfile \in [Fds -> Files \cup {None}]
  BY DEF QueuedForOwner, Owned, TypeOK, QueueTypes
<1>1. ASSUME NEW f \in Files, Write(f) \/ CloseWriter(f) PROVE Once(evq)' /\ QueuedForOwner'
  <2>1. ASSUME NEW d \in Subscribers(f), evq' = Queued(evq, d) PROVE Once(evq') /\ Owned(evq')
    BY <1>0, <2>1, QueuedIs DEF Subscribers
  <2>2. Once(evq') /\ Owned(evq') /\ UNCHANGED fdfile
    BY <1>0, <1>1, <2>1, Writing
  <2> QED
    BY <2>2 DEF Once, Owned, QueuedForOwner
<1>2. CASE Takes
  <2>1. evq' = <<>>
    BY <1>2 DEF Takes, Take, TakeRest
  <2> QED
    BY <2>1 DEF Once, QueuedForOwner
<1>3. CASE Level
  <2>1. UNCHANGED fdfile /\ evq' \in {evq, Queued(evq, arming)} /\ arming \in Fds
        /\ fdfile[arming] \in Files
    BY <1>0, <1>3 DEF Level, FilesKnown, TypeOK, LoopTypes, QueueTypes
  <2>2. Once(evq') /\ Owned(evq')
    BY <1>0, <2>1, QueuedIs
  <2> QED
    BY <2>1, <2>2 DEF Once, Owned, QueuedForOwner
<1>4. ASSUME NEW f \in Files, Calls(Open(f)) PROVE Once(evq)' /\ QueuedForOwner'
  <2>1. PICK d \in Fds: fdfile[d] = None /\ fdfile' = [fdfile EXCEPT ![d] = f] /\ UNCHANGED evq
    BY <1>4 DEF Calls, Open
  <2>2. \A i \in DOMAIN evq: evq[i].fd # d
    <3>1. \A i \in DOMAIN evq: evq[i] \in Events
      BY <1>0
    <3>2. \A i \in DOMAIN evq: evq[i].of \in Files
      BY <3>1 DEF Events
    <3> QED
      BY <1>0, <2>1, <3>2, Sizes DEF Owned
  <2> QED
    BY <1>0, <2>1, <2>2 DEF Once, Owned, QueuedForOwner
<1>5. ASSUME NEW d \in Fds, CloseFile(d) PROVE Once(evq)' /\ QueuedForOwner'
  <2>1. fdfile' = [fdfile EXCEPT ![d] = None] /\ evq' = Purged(evq, d)
    BY <1>5 DEF CloseFile
  <2>2. Once(evq') /\ ~Has(evq', d) /\ \A i \in DOMAIN evq': \E j \in DOMAIN evq: evq'[i] = evq[j]
    BY <1>0, <2>1, PurgedIs
  <2> QED
    BY <1>0, <2>1, <2>2 DEF Once, Owned, Has, QueuedForOwner
<1>6. CASE UNCHANGED <<evq, fdfile>>
  BY <1>0, <1>6 DEF Once, QueuedForOwner
<1> QED
  BY <1>1, <1>2, <1>3, <1>4, <1>5, <1>6, QueueKept, NextCases DEF Writes, Arms, Reads

\* A step that only moves the thread, and not away from a file.
LEMMA HeardQuiet ==
  ASSUME Heard, UNCHANGED <<handler, data, wclosed, fdfile, evq, ready>>,
         pc \notin At \/ UNCHANGED <<pc, arming>>
  PROVE  Heard'
BY DEF Heard, Told, Has, Readable, At

LEMMA HeardInit == Init => Heard
<1> SUFFICES ASSUME Init PROVE Heard
  OBVIOUS
<1>1. PICK f \in Files, d \in Fds:
        /\ sub = {f} /\ handler = {d} /\ arming = d
        /\ status = [g \in Files |-> IF g = f THEN "open" ELSE "new"]
        /\ fdfile = [e \in Fds |-> IF e = d THEN f ELSE None]
  BY Opened
<1>2. data = [g \in Files |-> 0] /\ wclosed = [g \in Files |-> FALSE]
  BY DEF Init
<1> QED
  BY <1>1, <1>2 DEF Heard, Readable

LEMMA HeardStep ==
  ASSUME TypeOK, FilesKnown, Heard, [Next]_vars
  PROVE  Heard'
<1> USE DEF Returned
<1>0. /\ evq \in Seq(Events) /\ ready \in Seq(Events) /\ arming \in Fds /\ handler \subseteq Fds
      /\ fdfile \in [Fds -> Files \cup {None}]
  BY DEF TypeOK, QueueTypes, LoopTypes
<1>1. ASSUME NEW f \in Files, Write(f) \/ CloseWriter(f) PROVE Heard'
  <2>1. UNCHANGED <<sub, fdfile, handler, ready, pc, arming>>
    BY <1>1, Writing
  <2>2. \A e: Has(evq, e) => Has(evq', e)
    <3>1. ASSUME NEW d \in Subscribers(f), evq' = Queued(evq, d)
          PROVE  \A e: Has(evq, e) => Has(evq', e)
      BY <1>0, <3>1, QueuedIs DEF Subscribers
    <3> QED
      BY <1>1, <3>1, Writing
  <2>3. ASSUME NEW d \in handler, fdfile[d] = f, f \in sub PROVE Has(evq', d)
    <3>1. d \in Subscribers(f) /\ Subscribers(f) \subseteq {d}
      BY <1>0, <2>3, Sizes DEF Subscribers, FilesKnown
    <3>2. evq' = Queued(evq, d)
      BY <1>1, <3>1, Writing
    <3> QED
      BY <1>0, <2>3, <3>2, QueuedIs
  <2>4. ASSUME NEW d \in handler, Readable(fdfile[d])'
        PROVE  Told(d)' \/ (pc' \in {"pump", "subscribe", "level"} /\ arming' = d)
    <3>1. CASE fdfile[d] = f
      BY <2>1, <2>3, <3>1 DEF FilesKnown, Told, Has
    <3>2. CASE fdfile[d] # f
      <4>1. fdfile[d] \in Files \ {f}
        BY <1>0, <3>2 DEF FilesKnown
      <4>2. Readable(fdfile[d])
        BY <1>1, <2>1, <2>4, <4>1, Writing DEF Readable
      <4> QED
        BY <2>1, <2>2, <4>2 DEF Heard, Told, Has
    <3> QED
      BY <3>1, <3>2
  <2> QED
    BY <2>1, <2>4 DEF Heard
<1>2. CASE StepKernel
  <2>1. /\ pc = "turn" /\ ready # <<>> /\ ready' = Tail(ready) /\ arming' = Head(ready).fd
        /\ UNCHANGED <<handler, data, wclosed, fdfile, evq>>
        /\ arming' \in handler => pc' = "pump"
    BY <1>2 DEF StepKernel
  <2>2. ASSUME NEW e, Has(ready, e) PROVE Has(ready', e) \/ e = arming'
    <3> HIDE DEF Events
    <3>1. PICK i \in 1..Len(ready): ready[i].fd = e
      BY <1>0, <2>2 DEF Has
    <3>2. ready' \in Seq(Events) /\ Len(ready') = Len(ready) - 1
          /\ \A j \in 1..Len(ready) - 1: ready'[j] = ready[j + 1]
      BY <1>0, <2>1
    <3>3. CASE i = 1
      BY <1>0, <2>1, <3>1, <3>3
    <3>4. CASE i > 1
      <4>1. i - 1 \in 1..Len(ready') /\ ready'[i - 1] = ready[i]
        BY <1>0, <3>1, <3>2, <3>4
      <4> QED
        BY <3>1, <3>2, <4>1 DEF Has
    <3> QED
      BY <3>1, <3>3, <3>4
  <2> QED
    BY <2>1, <2>2 DEF Heard, Told, Has, Readable
<1>3. CASE Takes
  <2>1. /\ pc \notin At /\ ready' = ready \o evq
        /\ UNCHANGED <<handler, data, wclosed, fdfile>>
    BY <1>3 DEF Takes, Take, TakeRest, At
  <2>2. ASSUME NEW e, Has(ready, e) \/ Has(evq, e) PROVE Has(ready', e)
    <3> HIDE DEF Events
    <3>1. /\ ready' \in Seq(Events) /\ Len(ready') = Len(ready) + Len(evq)
          /\ \A j \in 1..Len(ready): ready'[j] = ready[j]
          /\ \A j \in 1..Len(evq): ready'[Len(ready) + j] = evq[j]
      BY <1>0, <2>1
    <3>2. CASE Has(ready, e)
      <4>1. PICK i \in 1..Len(ready): ready[i].fd = e
        BY <1>0, <3>2 DEF Has
      <4>2. i \in 1..Len(ready') /\ ready'[i] = ready[i]
        BY <1>0, <3>1
      <4> QED
        BY <3>1, <4>1, <4>2 DEF Has
    <3>3. CASE Has(evq, e)
      <4>1. PICK i \in 1..Len(evq): evq[i].fd = e
        BY <1>0, <3>3 DEF Has
      <4>2. Len(ready) + i \in 1..Len(ready') /\ ready'[Len(ready) + i] = evq[i]
        BY <1>0, <3>1
      <4> QED
        BY <3>1, <4>1, <4>2 DEF Has
    <3> QED
      BY <2>2, <3>2, <3>3
  <2> QED
    BY <2>1, <2>2 DEF Heard, Told, Has, Readable, At
<1>4. CASE Pumps
  <2>1. /\ pc = "pump" /\ fdfile[arming] \in Files /\ UNCHANGED <<fdfile, wclosed, evq, ready>>
        /\ \/ ~wclosed[fdfile[arming]] /\ data'[fdfile[arming]] = 0 /\ handler' = handler
           \/ handler' = handler \ {arming}
        /\ \A g \in Files \ {fdfile[arming]}: data'[g] = data[g]
    BY <1>0, <1>4 DEF Pumps, PumpAll, PumpFull, StopReading, TypeOK, PipeTypes
  <2>2. ASSUME NEW d \in handler', Readable(fdfile[d])' PROVE Told(d)
    <3>1. d # arming /\ d \in handler
      BY <2>1, <2>2 DEF Readable
    <3>2. fdfile[d] \in Files \ {fdfile[arming]}
      BY <1>0, <2>1, <3>1, Sizes DEF FilesKnown
    <3>3. Readable(fdfile[d])
      BY <2>1, <2>2, <3>2 DEF Readable
    <3> QED
      BY <2>1, <3>1, <3>3 DEF Heard
  <2> QED
    BY <2>1, <2>2 DEF Heard, Told, Has
<1>5. CASE Subscribe
  BY <1>5 DEF Subscribe, Heard, Told, Has, Readable
<1>6. CASE Level
  <2>1. /\ pc = "level" /\ UNCHANGED <<handler, data, wclosed, fdfile, ready>>
        /\ evq' = IF Readable(fdfile[arming]) THEN Queued(evq, arming) ELSE evq
        /\ fdfile[arming] \in Files
    BY <1>0, <1>6 DEF Level, FilesKnown
  <2>2. \A e: Has(evq, e) => Has(evq', e)
    BY <1>0, <2>1, QueuedIs
  <2>3. Readable(fdfile[arming]) => Has(evq', arming)
    BY <1>0, <2>1, QueuedIs
  <2> QED
    BY <2>1, <2>2, <2>3 DEF Heard, Told, Has, Readable
<1>7. CASE Reads
  <2>1. \/ \E d \in Fds: Calls(Resume(d))
        \/ \E f \in Files: Calls(Open(f))
    BY <1>7 DEF Reads
  <2>2. PICK d \in Fds:
          /\ pc = "guest" /\ pc' = "subscribe" /\ arming' = d /\ handler' = handler \cup {d}
          /\ UNCHANGED <<data, wclosed, evq, ready>>
          /\ \A e \in Fds \ {d}: fdfile'[e] = fdfile[e]
    BY <1>0, <2>1 DEF Calls, Resume, Open, StartReading
  <2> QED
    BY <1>0, <2>2 DEF Heard, Told, Has, Readable
<1>8. ASSUME NEW d \in Fds, CloseFile(d) PROVE Heard'
  <2>1. /\ pc = "guest" /\ handler' = handler \ {d} /\ evq' = Purged(evq, d)
        /\ UNCHANGED <<data, wclosed, ready>>
        /\ \A e \in Fds \ {d}: fdfile'[e] = fdfile[e]
    BY <1>0, <1>8 DEF CloseFile, StopReading
  <2>2. \A e: e # d /\ Has(evq, e) => Has(evq', e)
    BY <1>0, <2>1, PurgedIs
  <2> QED
    BY <1>0, <2>1, <2>2 DEF Heard, Told, Has, Readable
<1>9. CASE \/ Tick \/ Starts \/ Natives \/ StepTimer \/ EndTimers \/ EndKernel \/ StepImmediate
           \/ WakeBump \/ WakeNotify \/ UNCHANGED vars
  <2>1. /\ UNCHANGED <<handler, data, wclosed, fdfile, evq, ready>>
        /\ pc \notin At \/ UNCHANGED <<pc, arming>>
    BY <1>9 DEF Tick, Starts, TaskPing, TaskTimer, TaskWake, Idle, Natives, FetchSettles, Microtask,
       StepTimer, EndTimers, EndKernel, StepImmediate, WakeBump, WakeNotify, vars, At
  <2> QED
    BY <2>1, HeardQuiet
<1>10. CASE Ends \/ Asks \/ Drops \/ Returns
            \/ \E t \in Timers, n \in {1, Long}: Calls(SetTimeout(t, n))
  <2>1. UNCHANGED <<handler, data, wclosed, fdfile, evq, ready>> /\ pc \notin At
    BY <1>10 DEF Ends, EndTurn, LoadWord, WaitAsync, Check, Drained, Calls, Asks, SetImmediate,
       Fetch, QueueMicrotask, Drops, ClearTimeout, Unref, DropTimer, SetTimeout,
       Returns, Return, Yield, At
  <2> QED
    BY <2>1, HeardQuiet
<1> QED
  BY <1>1, <1>2, <1>3, <1>4, <1>5, <1>6, <1>7, <1>8, <1>9, <1>10, NextCases DEF Steps, Writes, Arms

-----------------------------------------------------------------------------
\* The event word, and where in a turn the thread is.

\* A task that was asked for stays asked for, until it runs.
LEMMA PingsKept ==
  ASSUME \/ Natives \/ LoadWord \/ WaitAsync \/ Check \/ Pumps \/ Arms \/ Asks \/ Drops
         \/ (\E t \in Timers, n \in {1, Long}: Calls(SetTimeout(t, n)))
         \/ Reads \/ (\E d \in Fds: CloseFile(d)) \/ Returns
  PROVE  pinged => pinged'
<1>1. CASE Natives \/ LoadWord \/ WaitAsync \/ Check
  BY <1>1 DEF Natives, FetchSettles, Microtask, LoadWord, WaitAsync, Check
<1>2. CASE Pumps \/ Arms \/ Reads \/ (\E d \in Fds: CloseFile(d)) \/ Returns
  BY <1>2 DEF Pumps, PumpAll, PumpFull, Arms, Subscribe, Level, Reads, Calls, Resume, Open,
     CloseFile, StopReading, Returns, Return, Yield
<1>3. CASE Asks
  BY <1>3 DEF Asks, Calls, SetImmediate, Fetch, QueueMicrotask
<1>4. CASE Drops \/ \E t \in Timers, n \in {1, Long}: Calls(SetTimeout(t, n))
  BY <1>4 DEF Calls, Drops, ClearTimeout, Unref, DropTimer, SetTimeout
<1> QED
  BY <1>1, <1>2, <1>3, <1>4

\* What the guest asks for, and that it returns.
LEMMA GuestSteps ==
  ASSUME \/ Asks \/ Drops \/ (\E t \in Timers, n \in {1, Long}: Calls(SetTimeout(t, n)))
         \/ Reads \/ (\E d \in Fds: CloseFile(d)) \/ Return
  PROVE  /\ pc = "guest" /\ pc' \in {"idle", "back", "turn", "subscribe"}
         /\ pc' = "idle" <=> task # "turn" /\ pc' # "subscribe"
         /\ UNCHANGED <<task, phase, ran, exitCheck, ready, batch, fresh, wait, ppc>>
         /\ evq' = evq \/ \E d \in Fds: evq' = Purged(evq, d)
         /\ imm' = imm \/ pinged'
<1>1. CASE Asks \/ Drops \/ \E t \in Timers, n \in {1, Long}: Calls(SetTimeout(t, n))
  <2>1. /\ pc = "guest" /\ pc' = Returned
        /\ UNCHANGED <<task, phase, ran, exitCheck, ready, batch, fresh, wait, ppc, evq>>
    BY <1>1 DEF Asks, Calls, SetImmediate, Fetch, QueueMicrotask, Drops, ClearTimeout, Unref,
       DropTimer, SetTimeout
  <2>2. imm' = imm \/ pinged'
    BY <1>1 DEF Asks, Calls, SetImmediate, Fetch, QueueMicrotask, Drops, ClearTimeout, Unref,
       DropTimer, SetTimeout
  <2> QED
    BY <2>1, <2>2 DEF Returned
<1>2. CASE Reads \/ (\E d \in Fds: CloseFile(d)) \/ Return
  <2>1. /\ pc = "guest" /\ pc' \in {Returned, "subscribe"}
        /\ UNCHANGED <<task, phase, ran, exitCheck, ready, batch, fresh, wait, ppc>>
    BY <1>2 DEF Reads, Calls, Resume, Open, StartReading, CloseFile, Return
  <2>2. /\ evq' = evq \/ \E d \in Fds: evq' = Purged(evq, d)
        /\ UNCHANGED imm
    BY <1>2 DEF Reads, Calls, Resume, Open, CloseFile, Return
  <2> QED
    BY <2>1, <2>2 DEF Returned
<1> QED
  BY <1>1, <1>2

LEMMA PhasesInit == Init => Phases /\ Leftovers /\ Microtasks /\ WordSeen
BY DEF Init, Phases, Leftovers, Microtasks, WordSeen

LEMMA PhasesStep ==
  ASSUME TypeOK, Phases, [Next]_vars
  PROVE  Phases'
<1> USE DEF Phases
<1>1. CASE Writes \/ Tick \/ UNCHANGED vars
  <2>1. UNCHANGED <<pc, task, phase, pinged>>
    BY <1>1 DEF Writes, Write, CloseWriter, WakeBump, WakeNotify, Tick, vars
  <2> QED
    BY <2>1
<1>2. CASE Starts
  <2>1. pc' = "turn" /\ task' = "turn" /\ phase' = IF phase = 0 THEN 1 ELSE phase
    BY <1>2 DEF Starts, TaskPing, TaskTimer, TaskWake, BeginTurn
  <2> QED
    BY <2>1
<1>3. CASE Natives
  <2>1. pc = "idle" /\ pc' = "guest" /\ task' = "native" /\ UNCHANGED phase
    BY <1>3 DEF Natives, FetchSettles, Microtask, Idle
  <2> QED
    BY <1>3, <2>1, PingsKept
<1>4. CASE Steps
  <2>1. /\ pc = "turn" /\ UNCHANGED <<task, pinged>>
        /\ phase' = phase \/ phase' \in {2, 3}
        /\ pc' = "take" => phase' = 2
        /\ pc' \in {"guest", "take", "pump", "turn", Returned}
    BY <1>4 DEF Steps, StepTimer, EndTimers, StepKernel, EndKernel, StepImmediate
  <2> QED
    BY <2>1 DEF Returned
<1>5. CASE Takes
  <2>1. \/ pc = "take" /\ pc' \in {"take", "turn"}
        \/ pc = "rest" /\ pc' \in {"rest", "await"}
    BY <1>5 DEF Takes, Take, TakeRest
  <2>2. UNCHANGED <<task, phase, pinged>>
    BY <1>5 DEF Takes, Take, TakeRest
  <2> QED
    BY <2>1, <2>2
<1>6. CASE EndTurn
  <2>1. pc' \in {"check", "load"} /\ task' = "end" /\ phase' = 0
    BY <1>6 DEF EndTurn
  <2> QED
    BY <2>1
<1>7. CASE LoadWord \/ WaitAsync \/ Check \/ Drained
  <2>1. /\ pc \in {"load", "await", "check"} /\ UNCHANGED <<task, phase>>
        /\ pc' \in {"rest", "check", "guest", "idle", "stopped"}
    BY <1>7 DEF LoadWord, WaitAsync, Check, Drained
  <2> QED
    BY <2>1
<1>8. CASE Pumps \/ Subscribe
  <2>1. /\ \/ pc = "pump" /\ pc' = "guest"
           \/ pc = "subscribe" /\ pc' = "level"
        /\ UNCHANGED <<task, phase>>
    BY <1>8 DEF Pumps, PumpAll, PumpFull, Subscribe
  <2> QED
    BY <1>8, <2>1, PingsKept DEF Arms
<1>9. CASE Level
  BY <1>9 DEF Level, Returned
<1>10. CASE \/ Asks \/ Drops \/ (\E t \in Timers, n \in {1, Long}: Calls(SetTimeout(t, n)))
            \/ Reads \/ (\E d \in Fds: CloseFile(d)) \/ Return
  BY <1>10, GuestSteps, PingsKept DEF Returns, TypeOK, LoopTypes
<1>11. CASE Yield
  BY <1>11 DEF Yield
<1> QED
  BY <1>1, <1>2, <1>3, <1>4, <1>5, <1>6, <1>7, <1>8, <1>9, <1>10, <1>11, NextCases
     DEF Ends, Arms, Returns

LEMMA LeftoversStep ==
  ASSUME TypeOK, RefsCounted, Phases, Leftovers, [Next]_vars
  PROVE  Leftovers'
<1> USE DEF Leftovers
<1>0. phase \in 0..3 /\ batch \in Nat /\ imm \in Nat
  BY DEF TypeOK, LoopTypes
<1>1. CASE Writes \/ Tick \/ UNCHANGED vars
  <2>1. UNCHANGED <<pc, phase, pinged, batch, imm, ready, refs>>
    BY <1>1 DEF Writes, Write, CloseWriter, WakeBump, WakeNotify, Tick, vars
  <2> QED
    BY <2>1
<1>2. CASE Starts
  <2>1. /\ pc' = "turn" /\ phase' = (IF phase = 0 THEN 1 ELSE phase)
        /\ UNCHANGED <<batch, imm, ready>>
    BY <1>2 DEF Starts, TaskPing, TaskTimer, TaskWake, BeginTurn
  <2> QED
    BY <1>0, <2>1
<1>3. CASE Natives
  <2>1. pc = "idle" /\ pc' = "guest" /\ UNCHANGED <<phase, batch, imm, ready>>
    BY <1>3 DEF Natives, FetchSettles, Microtask, Idle
  <2> QED
    BY <1>3, <2>1, PingsKept
<1>4. CASE StepTimer \/ StepImmediate
  <2>1. /\ pc = "turn" /\ pc' = "guest" /\ UNCHANGED <<phase, imm, ready, pinged>>
        /\ batch' = batch \/ phase = 3
    BY <1>4 DEF StepTimer, StepImmediate
  <2> QED
    BY <2>1
<1>5. CASE EndTimers \/ EndKernel
  <2>1. /\ pc = "turn" /\ pc' \in {"take", "turn"} /\ UNCHANGED <<ready, pinged>>
        /\ \/ phase = 1 /\ phase' = 2 /\ UNCHANGED <<batch, imm>>
           \/ phase = 2 /\ phase' = 3 /\ ready = <<>>
    BY <1>5 DEF EndTimers, EndKernel
  <2> QED
    BY <2>1
<1>6. CASE StepKernel
  <2>1. /\ pc = "turn" /\ phase = 2 /\ UNCHANGED <<phase, batch, imm, pinged>>
        /\ pc' # "stopped"
    BY <1>6 DEF StepKernel, Returned
  <2> QED
    BY <2>1
<1>7. CASE Takes
  <2>1. /\ \/ pc = "take" /\ pc' \in {"take", "turn"}
           \/ pc = "rest" /\ pc' \in {"rest", "await"}
        /\ UNCHANGED <<phase, batch, imm, pinged>>
    BY <1>7 DEF Takes, Take, TakeRest
  <2> QED
    BY <2>1 DEF Phases
<1>8. CASE EndTurn
  <2>1. /\ phase = 3 /\ phase' = 0 /\ batch = 0 /\ UNCHANGED <<batch, imm, ready>>
        /\ imm > 0 => pinged'
        /\ pc' \in {"check", "load"}
    BY <1>8 DEF EndTurn
  <2> QED
    BY <1>0, <2>1
<1>9. CASE LoadWord \/ WaitAsync \/ Check
  <2>1. /\ UNCHANGED <<phase, batch, imm, ready>>
        /\ pc = "load" => pc' = "rest"
        /\ pc \in {"load", "await", "check"} /\ pc' # "stopped"
    BY <1>9 DEF LoadWord, WaitAsync, Check
  <2>2. pc = "await" /\ ready # <<>> => pinged'
    BY <1>9 DEF LoadWord, WaitAsync, Check
  <2> QED
    BY <1>9, <2>1, <2>2, PingsKept
<1>10. CASE Drained
  BY <1>10 DEF Drained, Done
<1>11. CASE Pumps \/ Arms
  <2>1. /\ pc \in At /\ pc' \notin {"rest", "await", "stopped"}
        /\ UNCHANGED <<phase, batch, imm, ready>>
    BY <1>11 DEF Pumps, PumpAll, PumpFull, Arms, Subscribe, Level, Returned, At
  <2> QED
    BY <1>11, <2>1, PingsKept DEF At
<1>12. CASE \/ Asks \/ Drops \/ (\E t \in Timers, n \in {1, Long}: Calls(SetTimeout(t, n)))
            \/ Reads \/ (\E d \in Fds: CloseFile(d)) \/ Return
  BY <1>12, GuestSteps, PingsKept DEF Returns
<1>13. CASE Yield
  BY <1>13 DEF Yield
<1> QED
  BY <1>1, <1>2, <1>3, <1>4, <1>5, <1>6, <1>7, <1>8, <1>9, <1>10, <1>11, <1>12, <1>13, NextCases
     DEF Steps, Ends, Returns

LEMMA MicrotasksStep ==
  ASSUME TypeOK, Phases, Microtasks, [Next]_vars
  PROVE  Microtasks'
<1> USE DEF Microtasks
<1>1. CASE Writes \/ Tick \/ UNCHANGED vars
  <2>1. UNCHANGED <<pc, task, ran, micro>>
    BY <1>1 DEF Writes, Write, CloseWriter, WakeBump, WakeNotify, Tick, vars
  <2> QED
    BY <2>1
<1>2. CASE Starts
  <2>1. pc' = "turn" /\ task' = "turn" /\ ~micro /\ micro' = micro
    BY <1>2 DEF Starts, TaskPing, TaskTimer, TaskWake, BeginTurn, Idle
  <2> QED
    BY <2>1
<1>3. CASE Natives
  <2>1. pc' = "guest" /\ task' = "native"
    BY <1>3 DEF Natives, FetchSettles, Microtask
  <2> QED
    BY <2>1
<1>4. CASE StepTimer \/ StepKernel \/ StepImmediate
  <2>1. ran' /\ pc' # "stopped"
    BY <1>4 DEF StepTimer, StepKernel, StepImmediate, Returned
  <2> QED
    BY <2>1
<1>5. CASE EndTimers \/ EndKernel \/ Takes \/ LoadWord \/ WaitAsync
  <2>1. /\ pc \in {"turn", "take", "load", "rest", "await"} /\ UNCHANGED <<task, ran, micro>>
        /\ pc' \in {"turn", "take", "rest", "await", "check"}
    BY <1>5 DEF EndTimers, EndKernel, Takes, Take, TakeRest, LoadWord, WaitAsync
  <2> QED
    BY <2>1 DEF Phases
<1>6. CASE EndTurn
  <2>1. pc = "turn" /\ UNCHANGED <<ran, micro>> /\ pc' \in {"check", "load"}
    BY <1>6 DEF EndTurn
  <2> QED
    BY <2>1 DEF Phases
<1>7. CASE Check
  <2>1. pc = "check" /\ UNCHANGED <<task, ran, micro>> /\ pc' \in {"guest", "idle"}
    BY <1>7 DEF Check
  <2> QED
    BY <2>1 DEF Phases
<1>8. CASE Drained
  <2>1. pc = "check" /\ UNCHANGED <<task, ran, micro>> /\ pc' = "stopped" /\ ~ran
    BY <1>8 DEF Drained, Countdown
  <2> QED
    BY <2>1 DEF Phases
<1>9. CASE Pumps \/ Subscribe
  <2>1. /\ \/ pc = "pump" /\ pc' = "guest"
           \/ pc = "subscribe" /\ pc' = "level"
        /\ UNCHANGED <<task, ran, micro>>
    BY <1>9 DEF Pumps, PumpAll, PumpFull, Subscribe
  <2> QED
    BY <2>1 DEF Phases
<1>10. CASE Level \/ Return \/ Yield
  <2>1. /\ pc \in {"level", "guest", "back"} /\ UNCHANGED <<task, ran, micro>>
        /\ pc' \in {Returned, "idle"}
    BY <1>10 DEF Level, Return, Yield
  <2> QED
    BY <2>1 DEF Returned, Phases, TypeOK, LoopTypes
<1>11. CASE \/ Asks \/ Drops \/ (\E t \in Timers, n \in {1, Long}: Calls(SetTimeout(t, n)))
            \/ Reads \/ (\E d \in Fds: CloseFile(d))
  <2>1. /\ pc = "guest" /\ pc' \in {"idle", "back", "turn", "subscribe"}
        /\ pc' = "idle" <=> task # "turn" /\ pc' # "subscribe"
        /\ UNCHANGED <<task, ran>>
    BY <1>11, GuestSteps
  <2> QED
    BY <2>1 DEF TypeOK, LoopTypes
<1> QED
  BY <1>1, <1>2, <1>3, <1>4, <1>5, <1>6, <1>7, <1>8, <1>9, <1>10, <1>11, NextCases
     DEF Steps, Ends, Arms, Returns

LEMMA WordStep ==
  ASSUME TypeOK, Phases, WordSeen, [Next]_vars
  PROVE  WordSeen'
<1> USE DEF WordSeen
<1>1. CASE Writes
  <2>1. ASSUME NEW f \in Files, Write(f) \/ CloseWriter(f) PROVE WordSeen'
    <3>1. /\ UNCHANGED <<fresh, wait, pc, task, pinged>>
          /\ UNCHANGED <<evq, ppc>> \/ ppc' = "bump"
      BY <2>1, Writing
    <3> QED
      BY <3>1
  <2>2. CASE WakeBump
    BY <2>2 DEF WakeBump
  <2>3. CASE WakeNotify
    BY <2>3 DEF WakeNotify
  <2> QED
    BY <1>1, <2>1, <2>2, <2>3 DEF Writes
<1>2. CASE Tick \/ UNCHANGED vars
  <2>1. UNCHANGED <<evq, ppc, fresh, wait, pc, task, pinged>>
    BY <1>2 DEF Tick, vars
  <2> QED
    BY <2>1
<1>3. CASE Starts
  <2>1. /\ pc' = "turn" /\ task' = "turn" /\ UNCHANGED <<evq, ppc>>
        /\ wait' = wait \/ wait' = "none"
    BY <1>3 DEF Starts, TaskPing, TaskTimer, TaskWake, BeginTurn
  <2> QED
    BY <2>1
<1>4. CASE Natives
  <2>1. pc = "idle" /\ pc' = "guest" /\ UNCHANGED <<evq, ppc, wait>>
    BY <1>4 DEF Natives, FetchSettles, Microtask, Idle
  <2> QED
    BY <1>4, <2>1, PingsKept
<1>5. CASE Steps
  <2>1. /\ pc = "turn" /\ pc' \in {"guest", "take", "pump", "turn", Returned}
        /\ UNCHANGED <<evq, ppc, wait, task>>
    BY <1>5 DEF Steps, StepTimer, EndTimers, StepKernel, EndKernel, StepImmediate
  <2> QED
    BY <2>1 DEF Phases, Returned
<1>6. CASE Takes
  <2>1. /\ \/ pc = "take" /\ pc' \in {"take", "turn"}
           \/ pc = "rest" /\ pc' \in {"rest", "await"}
        /\ evq' = <<>> /\ UNCHANGED <<ppc, wait, task>>
    BY <1>6 DEF Takes, Take, TakeRest
  <2> QED
    BY <2>1 DEF Phases
<1>7. CASE Ends
  <2>1. CASE EndTurn
    BY <2>1 DEF EndTurn
  <2>2. CASE LoadWord \/ WaitAsync
    BY <2>2 DEF LoadWord, WaitAsync
  <2>3. CASE Check \/ Drained
    <3>1. /\ pc = "check" /\ pc' \in {"guest", "idle", "stopped"} /\ UNCHANGED <<evq, ppc, wait>>
          /\ pinged => pinged'
      BY <2>3 DEF Check, Drained
    <3> QED
      BY <3>1 DEF Phases
  <2> QED
    BY <1>7, <2>1, <2>2, <2>3 DEF Ends
<1>8. CASE Pumps \/ Subscribe
  <2>1. /\ pc \in At /\ pc' \in {"guest", "level"} /\ UNCHANGED <<evq, ppc, wait, task>>
    BY <1>8 DEF Pumps, PumpAll, PumpFull, Subscribe, At
  <2> QED
    BY <1>8, <2>1, PingsKept DEF At, Arms
<1>9. CASE Level
  <2>1. /\ pinged' /\ pc' \notin {"load", "rest", "await"} /\ UNCHANGED ppc
        /\ \/ UNCHANGED <<evq, wait>>
           \/ wait' # "pending"
    BY <1>9 DEF Level, Bumped, Returned
  <2> QED
    BY <2>1
<1>10. CASE \/ Asks \/ Drops \/ (\E t \in Timers, n \in {1, Long}: Calls(SetTimeout(t, n)))
            \/ Reads \/ (\E d \in Fds: CloseFile(d)) \/ Return
  <2>1. evq = <<>> => evq' = <<>>
    BY <1>10, GuestSteps, PurgedIs DEF TypeOK, QueueTypes
  <2>2. /\ pc = "guest" /\ pc' \in {"idle", "back", "turn", "subscribe"}
        /\ pc' = "idle" <=> task # "turn" /\ pc' # "subscribe"
        /\ UNCHANGED <<task, wait, ppc>>
    BY <1>10, GuestSteps
  <2> QED
    BY <1>10, <2>1, <2>2, PingsKept DEF Returns
<1>11. CASE Yield
  BY <1>11 DEF Yield
<1> QED
  BY <1>1, <1>2, <1>3, <1>4, <1>5, <1>6, <1>7, <1>8, <1>9, <1>10, <1>11, NextCases DEF Arms, Returns

-----------------------------------------------------------------------------
\* The heap.

\* A new timer goes behind those that are due by then.
LEMMA Placed ==
  ASSUME TypeOK, Sorted, NEW n \in Nat
  PROVE  /\ Before(n) \in 0..Len(heap)
         /\ \A i \in 1..Len(heap): i <= Before(n) <=> left[heap[i]] <= n
<1> DEFINE l == Len(heap)
           S == {i \in 1..l: left[heap[i]] <= n}
           T == {j \in 1..l + 1: j \notin S}
<1>1. l \in Nat /\ heap \in Seq(Timers) /\ DOMAIN heap = 1..l /\ left \in [Timers -> 0..Long]
  BY DEF TypeOK, TimerTypes
<1>2. T \in SUBSET Nat /\ l + 1 \in T
  BY <1>1
<1>3. PICK b \in T: \A d \in T: b <= d
  <2> HIDE DEF T
  <2> QED
    BY <1>2, Lowest
<1>4. b \in 1..l + 1 /\ b \notin S
  BY <1>3
<1>5. \A i \in 1..b - 1: i \in S
  BY <1>1, <1>3
<1>6. \A i \in S: i < b
  <2> SUFFICES ASSUME NEW i \in S, i >= b PROVE FALSE
    BY <1>1, <1>4
  <2>1. i # b /\ b \in 1..l /\ i \in 1..l
    BY <1>1, <1>4
  <2>2. left[heap[b]] <= left[heap[i]]
    BY <1>1, <2>1 DEF Sorted
  <2>3. left[heap[b]] \in Nat /\ left[heap[i]] \in Nat /\ left[heap[i]] <= n
    BY <1>1, <2>1, Sizes
  <2>4. left[heap[b]] <= n
    BY <2>2, <2>3
  <2> QED
    BY <1>4, <2>1, <2>4
<1>7. S = 1..b - 1
  BY <1>1, <1>4, <1>5, <1>6
<1>8. Cardinality(1..b - 1) = b - 1
  <2>1. b \in Nat /\ b > 0
    BY <1>1, <1>4
  <2> QED
    BY <2>1, FS_Interval
<1>9. Before(n) = Cardinality(S)
  BY <1>1 DEF Before
<1>10. Before(n) = b - 1
  BY <1>7, <1>8, <1>9
<1>11. \A i \in 1..l: i \in S <=> left[heap[i]] <= n
  OBVIOUS
<1> HIDE DEF S, T
<1>12. \A i \in 1..l: i \in S <=> i <= b - 1
  BY <1>1, <1>4, <1>7
<1> QED
  BY <1>1, <1>4, <1>10, <1>11, <1>12

\* Where an element of the heap was before one went.
LEMMA Shifted ==
  ASSUME TypeOK, NEW k, Gone(k), NEW j \in 1..Len(heap')
  PROVE  \E i \in 1..Len(heap):
           /\ heap'[j] = heap[i] /\ i # k
           /\ i = IF j < k THEN j ELSE j + 1
<1>1. Len(heap) \in Nat /\ Len(heap') = Len(heap) - 1
  BY DEF TypeOK, TimerTypes, Gone
<1> QED
  BY <1>1 DEF Gone

LEMMA GoneLive ==
  ASSUME TypeOK, Sorted, NEW k, Gone(k)
  PROVE  Live' = Live \ {heap[k]}
<1>1. DOMAIN heap = 1..Len(heap) /\ DOMAIN heap' = 1..Len(heap') /\ Len(heap) \in Nat
      /\ Len(heap') = Len(heap) - 1 /\ k \in 1..Len(heap)
  BY DEF TypeOK, TimerTypes, Gone
<1>2. ASSUME NEW j \in 1..Len(heap') PROVE heap'[j] \in Live \ {heap[k]}
  BY <1>1, Shifted DEF Live, Sorted
<1>3. ASSUME NEW i \in 1..Len(heap), i # k PROVE \E j \in 1..Len(heap'): heap'[j] = heap[i]
  <2>1. CASE i < k
    <3>1. i \in 1..Len(heap') /\ heap'[i] = heap[i]
      BY <1>1, <2>1 DEF Gone
    <3> QED
      BY <3>1
  <2>2. CASE i > k
    <3>1. i - 1 \in 1..Len(heap') /\ heap'[i - 1] = heap[i]
      BY <1>1, <2>2 DEF Gone
    <3> QED
      BY <3>1
  <2> QED
    BY <1>1, <1>3, <2>1, <2>2
<1>4. Live' \subseteq Live \ {heap[k]}
  <2>1. Live' = {heap'[j]: j \in 1..Len(heap')}
    BY <1>1 DEF Live
  <2> QED
    BY <1>2, <2>1
<1>5. ASSUME NEW u \in Live, u # heap[k] PROVE u \in Live'
  <2>1. PICK i \in 1..Len(heap): u = heap[i]
    BY <1>1 DEF Live
  <2>2. PICK j \in 1..Len(heap'): heap'[j] = heap[i]
    BY <1>3, <1>5, <2>1
  <2> QED
    BY <1>1, <2>1, <2>2 DEF Live
<1> QED
  BY <1>4, <1>5

LEMMA GoneSorted ==
  ASSUME TypeOK, Sorted, NEW k, Gone(k),
         \A u \in Timers: u # heap[k] => left'[u] = left[u]
  PROVE  Sorted'
<1>1. DOMAIN heap = 1..Len(heap) /\ DOMAIN heap' = 1..Len(heap') /\ Len(heap) \in Nat
      /\ Len(heap') = Len(heap) - 1 /\ k \in 1..Len(heap)
  BY DEF TypeOK, TimerTypes, Gone
<1>2. \A i \in 1..Len(heap): i # k => heap[i] # heap[k] /\ heap[i] \in Timers
  BY <1>1 DEF Sorted, TypeOK, TimerTypes
<1>3. ASSUME NEW i \in 1..Len(heap'), NEW j \in 1..Len(heap')
      PROVE  /\ i < j => left'[heap'[i]] <= left'[heap'[j]]
             /\ heap'[i] = heap'[j] => i = j
  <2>1. PICK a \in 1..Len(heap): heap'[i] = heap[a] /\ a # k /\ a = IF i < k THEN i ELSE i + 1
    BY Shifted
  <2>2. PICK b \in 1..Len(heap): heap'[j] = heap[b] /\ b # k /\ b = IF j < k THEN j ELSE j + 1
    BY Shifted
  <2>3. left'[heap[a]] = left[heap[a]] /\ left'[heap[b]] = left[heap[b]]
    BY <1>2, <2>1, <2>2
  <2>4. /\ i < j => a < b
        /\ a = b => i = j
    BY <1>1, <2>1, <2>2
  <2> QED
    BY <1>1, <2>1, <2>2, <2>3, <2>4 DEF Sorted
<1> QED
  BY <1>1, <1>3 DEF Sorted

LEMMA HeapInit == Init => Heap
BY DEF Init, Heap, Sorted, HostTimer, OwedFirst, Live

LEMMA SortedStep ==
  ASSUME TypeOK, Sorted, [Next]_vars
  PROVE  Sorted'
<1>0. /\ heap \in Seq(Timers) /\ DOMAIN heap = 1..Len(heap) /\ Len(heap) \in Nat
      /\ left \in [Timers -> 0..Long]
  BY DEF TypeOK, TimerTypes
<1>1. CASE Tick
  <2>1. ASSUME NEW t \in Timers, NEW u \in Timers, left[t] <= left[u] PROVE left'[t] <= left'[u]
    BY <1>0, <1>1, <2>1, Ticking, Sizes
  <2>2. UNCHANGED heap
    BY <1>1, Ticking
  <2> QED
    BY <1>0, <2>1, <2>2 DEF Sorted
<1>2. CASE StepTimer
  BY <1>2, Firing, GoneSorted
<1>3. ASSUME NEW t \in Timers, Calls(ClearTimeout(t)) PROVE Sorted'
  <2>1. PICK k \in 1..Len(heap): heap[k] = t /\ Gone(k)
    BY <1>3, Clearing
  <2>2. \A u \in Timers: u # t => left'[u] = left[u]
    BY <1>0, <1>3, Clearing
  <2> QED
    BY <2>1, <2>2, GoneSorted
<1>4. ASSUME NEW t \in Timers, NEW n \in {1, Long}, Calls(SetTimeout(t, n)) PROVE Sorted'
  <2> DEFINE b == Before(n)
  <2>1. n \in Nat
    BY Sizes
  <2>2. b \in 0..Len(heap) /\ \A i \in 1..Len(heap): i <= b <=> left[heap[i]] <= n
    BY <2>1, Placed
  <2>3. /\ t \notin Live /\ heap' \in Seq(Timers) /\ Len(heap') = Len(heap) + 1
        /\ \A j \in 1..Len(heap) + 1:
             heap'[j] = IF j < b + 1 THEN heap[j] ELSE IF j = b + 1 THEN t ELSE heap[j - 1]
        /\ left' = [left EXCEPT ![t] = n]
    BY <1>4, Arming
  <2> HIDE DEF b
  <2>4. ASSUME NEW i \in 1..Len(heap)
        PROVE  heap[i] \in Timers /\ heap[i] # t /\ left'[heap[i]] = left[heap[i]]
    <3>1. heap[i] \in Live
      BY <1>0 DEF Live
    <3>2. heap[i] # t
      BY <2>3, <3>1
    <3>3. heap[i] \in Timers
      BY <1>0
    <3> QED
      BY <1>0, <2>3, <3>2, <3>3
  <2>5. left'[t] = n
    BY <1>0, <2>3
  <2>6. ASSUME NEW i \in 1..Len(heap) + 1, NEW j \in 1..Len(heap) + 1, i < j
        PROVE  left'[heap'[i]] <= left'[heap'[j]] /\ heap'[i] # heap'[j]
    <3>1. CASE j < b + 1
      <4>1. i \in 1..Len(heap) /\ j \in 1..Len(heap) /\ heap'[i] = heap[i] /\ heap'[j] = heap[j]
        BY <1>0, <2>2, <2>3, <2>6, <3>1
      <4>2. left[heap[i]] <= left[heap[j]] /\ heap[i] # heap[j]
        BY <1>0, <2>6, <4>1 DEF Sorted
      <4> QED
        BY <2>4, <4>1, <4>2
    <3>2. CASE j = b + 1
      <4>1. i \in 1..Len(heap) /\ i <= b /\ heap'[i] = heap[i] /\ heap'[j] = t
        BY <1>0, <2>2, <2>3, <2>6, <3>2
      <4> QED
        BY <2>2, <2>4, <2>5, <4>1
    <3>3. CASE j > b + 1
      <4>1. j - 1 \in 1..Len(heap) /\ heap'[j] = heap[j - 1]
        BY <1>0, <2>2, <2>3, <3>3
      <4>2. CASE i < b + 1
        <5>1. i \in 1..Len(heap) /\ i < j - 1 /\ heap'[i] = heap[i]
          BY <1>0, <2>2, <2>3, <3>3, <4>2
        <5>2. left[heap[i]] <= left[heap[j - 1]] /\ heap[i] # heap[j - 1]
          BY <1>0, <4>1, <5>1 DEF Sorted
        <5> QED
          BY <2>4, <4>1, <5>1, <5>2
      <4>3. CASE i = b + 1
        <5>1. heap'[i] = t /\ ~(j - 1 <= b)
          BY <1>0, <2>2, <2>3, <3>3, <4>3
        <5>2. ~(left[heap[j - 1]] <= n) /\ left[heap[j - 1]] \in Nat
          BY <1>0, <2>2, <2>4, <4>1, <5>1, Sizes
        <5> QED
          BY <2>1, <2>4, <2>5, <4>1, <5>1, <5>2
      <4>4. CASE i > b + 1
        <5>1. i - 1 \in 1..Len(heap) /\ i - 1 < j - 1
          BY <1>0, <2>2, <2>6, <4>4
        <5>2. heap'[i] = heap[i - 1]
          <6>1. ~(i < b + 1) /\ i # b + 1
            BY <1>0, <2>2, <4>4
          <6> QED
            BY <2>3, <6>1
        <5>3. left[heap[i - 1]] <= left[heap[j - 1]] /\ heap[i - 1] # heap[j - 1]
          <6>1. ASSUME NEW k \in 1..Len(heap), NEW m \in 1..Len(heap), k < m
                PROVE  left[heap[k]] <= left[heap[m]] /\ heap[k] # heap[m]
            <7>1. k \in DOMAIN heap /\ m \in DOMAIN heap /\ k # m
              BY <1>0, <6>1
            <7> QED
              BY <6>1, <7>1, Zenon DEF Sorted
          <6> QED
            BY <4>1, <5>1, <6>1
        <5> QED
          BY <2>4, <4>1, <5>1, <5>2, <5>3
      <4> QED
        BY <1>0, <2>2, <4>2, <4>3, <4>4
    <3> QED
      BY <1>0, <2>2, <3>1, <3>2, <3>3
  <2>7. DOMAIN heap' = 1..Len(heap) + 1
    BY <2>3
  <2>8. ASSUME NEW i \in 1..Len(heap) + 1, NEW j \in 1..Len(heap) + 1, heap'[i] = heap'[j]
        PROVE  i = j
    BY <1>0, <2>6, <2>8
  <2> QED
    BY <2>6, <2>7, <2>8 DEF Sorted
<1>5. CASE UNCHANGED <<heap, left>>
  BY <1>5 DEF Sorted
<1>6. ASSUME NEW t \in Timers, Calls(Unref(t)) PROVE Sorted'
  BY <1>5, <1>6, Unreffing
<1> QED
  BY <1>1, <1>2, <1>3, <1>4, <1>5, <1>6, HeapKept, NextCases DEF Steps, Drops

LEMMA OwedQuiet ==
  ASSUME OwedFirst, UNCHANGED <<heap, left, late, owed>>,
         phase' = phase \/ (phase = 2 /\ phase' = 3)
  PROVE  OwedFirst'
<1>1. Live' = Live
  BY DEF Live
<1>2. (phase' = 0 => phase = 0) /\ (phase' \in {2, 3} => phase \in {2, 3})
  OBVIOUS
<1> QED
  BY <1>1, <1>2 DEF OwedFirst

LEMMA OwedStep ==
  ASSUME TypeOK, Sorted, OwedFirst, [Next]_vars
  PROVE  OwedFirst'
<1>0. /\ heap \in Seq(Timers) /\ DOMAIN heap = 1..Len(heap) /\ Len(heap) \in Nat
      /\ left \in [Timers -> 0..Long]
      /\ \A i \in 1..Len(heap): heap[i] \in Timers /\ left[heap[i]] \in Nat
  BY Sizes DEF TypeOK, TimerTypes
<1>1. CASE Tick
  <2>1. \A t \in Timers: left[t] = 0 => left'[t] = 0
    BY <1>0, <1>1, Ticking
  <2>2. UNCHANGED <<heap, late, owed, phase>>
    BY <1>1 DEF Tick
  <2>3. Live' = Live
    BY <2>2 DEF Live
  <2> QED
    BY <1>0, <2>1, <2>2, <2>3 DEF OwedFirst
<1>2. CASE Starts
  <2>1. /\ phase' = (IF phase = 0 THEN 1 ELSE phase)
        /\ owed' = (IF phase = 0 THEN {t \in Live: left[t] = 0} ELSE owed)
        /\ UNCHANGED <<heap, left, late>>
    BY <1>2 DEF Starts, TaskPing, TaskTimer, TaskWake, BeginTurn
  <2>2. CASE phase = 0
    <3>1. phase' = 1 /\ late' = {} /\ owed' = {t \in Live: left[t] = 0}
      BY <2>1, <2>2 DEF OwedFirst
    <3>2. ASSUME NEW i \in 1..Len(heap), NEW j \in 1..Len(heap), i < j, heap[j] \in owed'
          PROVE  heap[i] \in owed'
      <4>1. left[heap[j]] = 0
        BY <3>1, <3>2
      <4>2. left[heap[i]] <= left[heap[j]]
        BY <1>0, <3>2 DEF Sorted
      <4>3. left[heap[i]] = 0 /\ heap[i] \in Live
        BY <1>0, <4>1, <4>2 DEF Live
      <4> QED
        BY <3>1, <4>3
    <3>3. \A i \in 1..Len(heap): heap[i] \in owed' => left[heap[i]] = 0
      BY <3>1
    <3> QED
      BY <1>0, <2>1, <3>1, <3>2, <3>3 DEF OwedFirst
  <2>3. CASE phase # 0
    BY <2>1, <2>3, OwedQuiet
  <2> QED
    BY <2>2, <2>3
<1>3. ASSUME NEW k \in 1..Len(heap), Gone(k), UNCHANGED <<late, owed, phase>>,
             \A u \in Timers: u # heap[k] => left'[u] = left[u]
      PROVE  OwedFirst'
  <2>1. DOMAIN heap' = 1..Len(heap')
    BY <1>3 DEF Gone
  <2>2. ASSUME NEW i \in 1..Len(heap'), heap'[i] \in owed PROVE left'[heap'[i]] = 0
    <3>1. PICK a \in 1..Len(heap): heap'[i] = heap[a] /\ a # k
      BY <1>3, Shifted
    <3>2. heap[a] # heap[k]
      BY <1>0, <3>1 DEF Sorted
    <3> QED
      BY <1>0, <1>3, <2>2, <3>1, <3>2 DEF OwedFirst
  <2>3. ASSUME NEW i \in 1..Len(heap'), NEW j \in 1..Len(heap'), i < j, heap'[j] \in owed
        PROVE  heap'[i] \in owed
    <3>1. PICK a \in 1..Len(heap): heap'[i] = heap[a] /\ a = IF i < k THEN i ELSE i + 1
      BY <1>3, Shifted
    <3>2. PICK b \in 1..Len(heap): heap'[j] = heap[b] /\ b = IF j < k THEN j ELSE j + 1
      BY <1>3, Shifted
    <3>3. Len(heap') = Len(heap) - 1
      BY <1>3 DEF Gone
    <3>4. a < b
      BY <1>0, <2>3, <3>1, <3>2, <3>3
    <3> QED
      BY <1>0, <2>3, <3>1, <3>2, <3>4 DEF OwedFirst
  <2>4. Live' \subseteq Live
    BY <1>3, GoneLive
  <2> QED
    BY <1>3, <2>1, <2>2, <2>3, <2>4 DEF OwedFirst
<1>4. CASE StepTimer
  <2>1. UNCHANGED phase /\ 1 \in 1..Len(heap)
    BY <1>4, Firing DEF StepTimer, Gone
  <2> QED
    BY <1>3, <1>4, <2>1, Firing
<1>5. ASSUME NEW t \in Timers, Calls(ClearTimeout(t)) PROVE OwedFirst'
  <2>1. PICK k \in 1..Len(heap): heap[k] = t /\ Gone(k)
    BY <1>5, Clearing
  <2>2. UNCHANGED phase
    BY <1>5, GuestSteps DEF Drops
  <2>3. \A u \in Timers: u # t => left'[u] = left[u]
    BY <1>0, <1>5, Clearing
  <2> QED
    BY <1>3, <1>5, <2>1, <2>2, <2>3, Clearing
<1>6. ASSUME NEW t \in Timers, NEW n \in {1, Long}, Calls(SetTimeout(t, n)) PROVE OwedFirst'
  <2> DEFINE b == Before(n)
  <2>1. n \in Nat
    BY Sizes
  <2>2. b \in 0..Len(heap) /\ \A i \in 1..Len(heap): i <= b <=> left[heap[i]] <= n
    BY <2>1, Placed
  <2>3. /\ t \notin Live /\ heap' \in Seq(Timers) /\ Len(heap') = Len(heap) + 1
        /\ \A j \in 1..Len(heap) + 1:
             heap'[j] = IF j < b + 1 THEN heap[j] ELSE IF j = b + 1 THEN t ELSE heap[j - 1]
        /\ left' = [left EXCEPT ![t] = n]
        /\ late' = (IF phase # 0 THEN late \cup {t} ELSE late) /\ owed' = owed \ {t}
    BY <1>6, Arming
  <2>4. UNCHANGED phase
    BY <1>6, GuestSteps
  <2> HIDE DEF b
  <2>5. ASSUME NEW i \in 1..Len(heap) PROVE heap[i] # t /\ left'[heap[i]] = left[heap[i]]
    <3>1. heap[i] \in Live
      BY <1>0 DEF Live
    <3>2. heap[i] # t
      BY <2>3, <3>1
    <3> QED
      BY <1>0, <2>3, <3>2
  \* What was owed stays where it is.
  <2>6. ASSUME NEW j \in 1..Len(heap) + 1, heap'[j] \in owed'
        PROVE  j \in 1..Len(heap) /\ j <= b /\ heap'[j] = heap[j] /\ heap[j] \in owed
    <3>1. heap'[j] # t /\ heap'[j] \in owed
      BY <2>3, <2>6
    <3>2. CASE j < b + 1
      BY <1>0, <2>2, <2>3, <3>1, <3>2
    <3>3. CASE j > b + 1
      <4>1. j - 1 \in 1..Len(heap) /\ ~(j - 1 <= b)
        BY <1>0, <2>2, <3>3
      <4>2. heap'[j] = heap[j - 1]
        <5>1. ~(j < b + 1) /\ j # b + 1
          BY <1>0, <2>2, <3>3
        <5> QED
          BY <2>3, <5>1
      <4>3. left[heap[j - 1]] = 0
        BY <1>0, <3>1, <4>1, <4>2 DEF OwedFirst
      <4> QED
        BY <2>1, <2>2, <4>1, <4>3
    <3>4. CASE j = b + 1
      BY <2>2, <2>3, <3>1, <3>4
    <3> QED
      BY <1>0, <2>2, <3>2, <3>3, <3>4
  <2>7. ASSUME NEW i \in 1..Len(heap) + 1, NEW j \in 1..Len(heap) + 1, i < j, heap'[j] \in owed'
        PROVE  heap'[i] \in owed'
    <3>1. j \in 1..Len(heap) /\ j <= b /\ heap[j] \in owed
      BY <2>6, <2>7
    <3>2. i \in 1..Len(heap) /\ i < b + 1
      BY <1>0, <2>2, <2>7, <3>1
    <3>3. heap'[i] = heap[i]
      BY <2>3, <3>2
    <3>4. heap[i] \in owed
      BY <1>0, <2>7, <3>1, <3>2 DEF OwedFirst
    <3> QED
      BY <2>3, <2>5, <3>2, <3>3, <3>4
  <2>8. ASSUME NEW j \in 1..Len(heap) + 1, heap'[j] \in owed' PROVE left'[heap'[j]] = 0
    BY <1>0, <2>5, <2>6, <2>8 DEF OwedFirst
  <2>9. DOMAIN heap' = 1..Len(heap) + 1
    BY <2>3
  <2>10. owed' \cap late' = {} /\ (phase' = 0 => late' = {})
    BY <2>3, <2>4 DEF OwedFirst
  <2>11. ASSUME phase' \in {2, 3}, NEW u \in owed' \cap Live' PROVE FALSE
    <3>1. PICK j \in 1..Len(heap) + 1: u = heap'[j]
      BY <2>9, <2>11 DEF Live
    <3>2. u \in owed \cap Live
      BY <1>0, <2>6, <2>11, <3>1 DEF Live
    <3> QED
      BY <2>4, <2>11, <3>2 DEF OwedFirst
  <2> QED
    BY <2>7, <2>8, <2>9, <2>10, <2>11 DEF OwedFirst
<1>7. CASE EndTimers
  <2>1. UNCHANGED <<heap, left, late, owed>> /\ phase = 1 /\ phase' = 2 /\ ~TimerDue
    BY <1>7 DEF EndTimers, TimersDone
  <2>2. ASSUME NEW i \in 1..Len(heap), heap[i] \in owed PROVE FALSE
    <3>1. 1 \in 1..Len(heap) /\ heap # <<>>
      BY <1>0, <2>2
    <3>2. heap[1] \in owed
      <4>1. CASE i = 1
        BY <2>2, <4>1
      <4>2. CASE i # 1
        BY <1>0, <2>2, <3>1, <4>2 DEF OwedFirst
      <4> QED
        BY <4>1, <4>2
    <3>3. left[heap[1]] = 0 /\ heap[1] \notin late
      BY <1>0, <3>1, <3>2 DEF OwedFirst
    <3> QED
      BY <2>1, <3>1, <3>3 DEF TimerDue
  <2>3. owed \cap Live = {}
    BY <1>0, <2>2 DEF Live
  <2>4. Live' = Live
    BY <2>1 DEF Live
  <2> QED
    BY <2>1, <2>3, <2>4 DEF OwedFirst
<1>8. CASE EndTurn
  <2>1. UNCHANGED <<heap, left, owed>> /\ phase' = 0 /\ late' = {}
    BY <1>8 DEF EndTurn
  <2> QED
    BY <2>1 DEF OwedFirst
<1>9. CASE EndKernel
  <2>1. UNCHANGED <<heap, left, late, owed>> /\ phase = 2 /\ phase' = 3
    BY <1>9 DEF EndKernel
  <2> QED
    BY <2>1, OwedQuiet
<1>10. CASE \/ Writes \/ Natives \/ StepKernel \/ StepImmediate \/ Takes \/ LoadWord \/ WaitAsync
            \/ Check \/ Drained \/ Pumps \/ Arms \/ Returns \/ UNCHANGED vars
  <2>1. UNCHANGED <<heap, left, late, owed, phase>>
    <3>1. CASE Writes \/ Natives \/ StepKernel \/ StepImmediate \/ UNCHANGED vars
      BY <3>1 DEF Writes, Write, CloseWriter, WakeBump, WakeNotify,
         Natives, FetchSettles, Microtask, StepKernel, StepImmediate, vars
    <3>2. CASE \/ Takes \/ LoadWord \/ WaitAsync \/ Check \/ Drained \/ Pumps \/ Arms \/ Returns
      BY <3>2 DEF Takes, Take, TakeRest, LoadWord, WaitAsync, Check, Drained,
         Pumps, PumpAll, PumpFull, Arms, Subscribe, Level, Returns, Return, Yield
    <3> QED
      BY <1>10, <3>1, <3>2
  <2> QED
    BY <2>1, OwedQuiet
<1>11. CASE \/ Asks \/ Reads \/ (\E d \in Fds: CloseFile(d)) \/ \E t \in Timers: Calls(Unref(t))
  <2>1. UNCHANGED phase
    BY <1>11, GuestSteps DEF Drops
  <2>2. UNCHANGED <<heap, left, late, owed>>
    <3>1. CASE Asks \/ Reads \/ \E d \in Fds: CloseFile(d)
      BY <3>1 DEF Calls, Asks, SetImmediate, Fetch, QueueMicrotask, Reads, Resume, Open, CloseFile
    <3> QED
      BY <1>11, <3>1, Unreffing
  <2> QED
    BY <2>1, <2>2, OwedQuiet
<1> QED
  BY <1>1, <1>2, <1>4, <1>5, <1>6, <1>7, <1>8, <1>9, <1>10, <1>11, NextCases DEF Steps, Ends, Drops

\* What a look at the heap does to the host's timer.
LEMMA HostAim ==
  ASSUME TypeOK, NEW h \in Seq(Timers), NEW l \in [Timers -> 0..Long], h # <<>>
  PROVE  \/ WantsPing(h, l) \/ HostLeft(h, l) = 0
         \/ HostLeft(h, l) > 0 /\ HostLeft(h, l) <= l[h[1]]
<1>1. h[1] \in Timers
  OBVIOUS
<1>2. l[h[1]] \in Nat /\ hostLeft \in Int
  BY <1>1, Sizes DEF TypeOK, TimerTypes
<1>3. CASE WantsPing(h, l)
  BY <1>3
<1>4. CASE ~WantsPing(h, l)
  BY <1>2, <1>4 DEF HostLeft, Head1
<1> QED
  BY <1>3, <1>4

LEMMA HostStep ==
  ASSUME TypeOK, Sorted, Phases, HostTimer, [Next]_vars
  PROVE  HostTimer'
<1>0. /\ heap \in Seq(Timers) /\ DOMAIN heap = 1..Len(heap) /\ Len(heap) \in Nat
      /\ left \in [Timers -> 0..Long] /\ hostLeft \in Int /\ phase \in 0..3
      /\ heap # <<>> => heap[1] \in Timers
  BY DEF TypeOK, TimerTypes, LoopTypes
<1>1. CASE Starts \/ Steps \/ Yield
  <2>1. pinged' \/ phase' # 0
    BY <1>0, <1>1 DEF Starts, TaskPing, TaskTimer, TaskWake, BeginTurn, Steps, StepTimer, EndTimers,
       StepKernel, EndKernel, StepImmediate, Yield
  <2> QED
    BY <2>1 DEF HostTimer
<1>2. CASE Tick
  <2>1. UNCHANGED <<heap, pinged, phase>>
    BY <1>2 DEF Tick
  <2>2. heap # <<>> => left[heap[1]] \in Nat
        /\ left'[heap[1]] = (IF left[heap[1]] > 0 THEN left[heap[1]] - 1 ELSE 0)
    BY <1>0, <1>2, Ticking, Sizes
  <2>3. hostLeft' = IF hostLeft > 0 THEN hostLeft - 1 ELSE hostLeft
    BY <1>2, Ticking
  <2> QED
    BY <1>0, <2>1, <2>2, <2>3 DEF HostTimer
<1>3. CASE EndTurn
  <2>1. /\ UNCHANGED <<heap, left>> /\ hostLeft' = HostLeft(heap, left)
        /\ WantsPing(heap, left) => pinged'
    BY <1>3 DEF EndTurn
  <2> QED
    BY <1>0, <2>1, HostAim DEF HostTimer
<1>4. ASSUME NEW t \in Timers, NEW n \in {1, Long}, Calls(SetTimeout(t, n)) PROVE HostTimer'
  <2> DEFINE h == heap'  l == left'
  <2>1. /\ h \in Seq(Timers) /\ l \in [Timers -> 0..Long]
        /\ hostLeft' = HostLeft(h, l) /\ (WantsPing(h, l) => pinged')
    BY <1>4, Arming
  <2>2. h # <<>> => \/ WantsPing(h, l) \/ HostLeft(h, l) = 0
                    \/ HostLeft(h, l) > 0 /\ HostLeft(h, l) <= l[h[1]]
    <3> HIDE DEF h, l
    <3> QED
      BY <2>1, HostAim
  <2> QED
    BY <2>1, <2>2 DEF HostTimer
<1>5. ASSUME NEW t \in Timers, Calls(ClearTimeout(t)) PROVE HostTimer'
  <2>1. PICK k \in 1..Len(heap): heap[k] = t /\ Gone(k)
    BY <1>5, Clearing
  <2>2. UNCHANGED <<phase, hostLeft>> /\ (pinged => pinged')
    BY <1>5, Clearing, GuestSteps, PingsKept DEF Drops
  <2>3. \A u \in Timers: u # t => left'[u] = left[u]
    BY <1>0, <1>5, Clearing
  <2>4. ASSUME heap' # <<>> PROVE heap # <<>> /\ left[heap[1]] <= left'[heap'[1]]
                                  /\ left[heap[1]] \in Nat /\ left'[heap'[1]] \in Nat
    <3>1. 1 \in 1..Len(heap') /\ Len(heap') = Len(heap) - 1
      BY <1>0, <2>1, <2>4 DEF Gone
    <3>2. PICK a \in 1..Len(heap): heap'[1] = heap[a] /\ a # k
      BY <2>1, <3>1, Shifted
    <3>3. heap[a] # heap[k] /\ heap[a] \in Timers /\ heap[1] \in Timers /\ 1 \in 1..Len(heap)
      BY <1>0, <2>1, <3>2 DEF Sorted
    <3>4. left'[heap'[1]] = left[heap[a]]
      BY <2>1, <2>3, <3>2, <3>3
    <3>5. left[heap[1]] \in Nat /\ left[heap[a]] \in Nat
      BY <1>0, <3>3, Sizes
    <3>6. left[heap[1]] <= left[heap[a]]
      <4>1. CASE a = 1
        BY <3>5, <4>1
      <4>2. CASE a # 1
        <5>1. 1 \in DOMAIN heap /\ a \in DOMAIN heap /\ 1 < a
          BY <1>0, <3>3, <4>2
        <5> QED
          BY <5>1 DEF Sorted
      <4> QED
        BY <4>1, <4>2
    <3> QED
      BY <1>0, <3>3, <3>4, <3>5, <3>6
  <2> QED
    BY <1>0, <2>2, <2>4 DEF HostTimer
<1>6. CASE \/ Writes \/ Natives \/ Takes \/ LoadWord \/ WaitAsync \/ Check \/ Drained
           \/ Pumps \/ Arms \/ Asks \/ Reads \/ (\E d \in Fds: CloseFile(d)) \/ Return
           \/ (\E t \in Timers: Calls(Unref(t))) \/ UNCHANGED vars
  <2>1. pinged => pinged'
    <3>1. CASE Writes \/ Takes \/ Drained \/ UNCHANGED vars
      BY <3>1 DEF Writes, Write, CloseWriter, WakeBump, WakeNotify, Takes, Take, TakeRest,
         Drained, vars
    <3> QED
      BY <1>6, <3>1, PingsKept DEF Drops, Returns
  <2>2. UNCHANGED <<heap, left, hostLeft, phase>>
    <3>1. CASE Writes \/ Natives \/ UNCHANGED vars
      BY <3>1 DEF Writes, Write, CloseWriter, WakeBump, WakeNotify,
         Natives, FetchSettles, Microtask, vars
    <3>2. CASE \/ Takes \/ LoadWord \/ WaitAsync \/ Check \/ Drained \/ Pumps \/ Arms \/ Return
      BY <3>2 DEF Takes, Take, TakeRest, LoadWord, WaitAsync, Check, Drained,
         Pumps, PumpAll, PumpFull, Arms, Subscribe, Level, Return
    <3>3. CASE Asks \/ Reads \/ \E d \in Fds: CloseFile(d)
      BY <3>3 DEF Calls, Asks, SetImmediate, Fetch, QueueMicrotask, Reads, Resume, Open, CloseFile
    <3>4. CASE \E t \in Timers: Calls(Unref(t))
      BY <3>4, Unreffing, GuestSteps DEF Drops
    <3> QED
      BY <1>6, <3>1, <3>2, <3>3, <3>4
  <2> QED
    BY <2>1, <2>2 DEF HostTimer
<1> QED
  BY <1>1, <1>2, <1>3, <1>4, <1>5, <1>6, NextCases DEF Ends, Drops, Returns

-----------------------------------------------------------------------------
\* The references.

LEMMA RefsInit == Init => RefsCounted
<1> SUFFICES ASSUME Init PROVE RefsCounted
  OBVIOUS
<1>1. PICK d \in Fds: handler = {d}
  BY Opened
<1>2. timerRef = {} /\ refs = 1 /\ imm = 0 /\ batch = 0 /\ fetching = FALSE
  BY DEF Init
<1>3. Cardinality(handler) = 1 /\ Cardinality(timerRef) = 0
  BY <1>1, <1>2, FS_Singleton, FS_EmptySet
<1> QED
  BY <1>2, <1>3 DEF RefsCounted

\* A reference more, or less, to a set of things that hold one.
LEMMA OneMore ==
  ASSUME NEW S, NEW x, IsFiniteSet(S), x \notin S
  PROVE  Cardinality(S) \in Nat /\ Cardinality(S \cup {x}) = Cardinality(S) + 1
BY FS_AddElement, FS_CardinalityType

LEMMA OneLess ==
  ASSUME NEW S, NEW x, IsFiniteSet(S)
  PROVE  /\ Cardinality(S) \in Nat
         /\ Cardinality(S \ {x}) = Cardinality(S) - (IF x \in S THEN 1 ELSE 0)
BY FS_RemoveElement, FS_CardinalityType

\* The things that hold a reference, counted by their kind.
Timings == Cardinality(timerRef)
Readings == Cardinality(handler)
Fetched == IF fetching THEN 1 ELSE 0

LEMMA RefsAre ==
  ASSUME TypeOK, RefsCounted
  PROVE  /\ Timings \in Nat /\ imm \in Nat /\ batch \in Nat /\ Readings \in Nat
         /\ Fetched \in 0..1 /\ refs \in Int
         /\ refs = Timings + imm + batch + Readings + Fetched
BY FS_CardinalityType DEF RefsCounted, Timings, Readings, Fetched, TypeOK, TimerTypes, QueueTypes,
   LoopTypes

LEMMA RefsNext ==
  ASSUME timerRef' \subseteq Live', refs' = Timings' + imm' + batch' + Readings' + Fetched'
  PROVE  RefsCounted'
BY DEF RefsCounted, Timings, Readings, Fetched

LEMMA RefsQuiet ==
  ASSUME RefsCounted, UNCHANGED <<heap, timerRef, imm, batch, handler, fetching, refs>>
  PROVE  RefsCounted'
BY DEF RefsCounted, Live

LEMMA RefsStep ==
  ASSUME TypeOK, FilesKnown, Phases, Leftovers, Sorted, RefsCounted, [Next]_vars
  PROVE  RefsCounted'
<1>0. /\ IsFiniteSet(timerRef) /\ IsFiniteSet(handler) /\ heap \in Seq(Timers)
      /\ timerRef \subseteq Live
  BY DEF TypeOK, TimerTypes, QueueTypes, RefsCounted
<1>1. CASE \/ Writes \/ Tick \/ Starts \/ Microtask \/ EndTimers \/ StepKernel \/ Takes \/ Ends
           \/ Arms \/ Returns \/ Calls(QueueMicrotask) \/ UNCHANGED vars
  <2>1. UNCHANGED <<heap, timerRef, imm, batch, handler, fetching, refs>>
    <3>1. CASE Writes \/ Tick \/ Starts \/ Microtask \/ EndTimers \/ StepKernel
      BY <3>1 DEF Writes, Write, CloseWriter, WakeBump, WakeNotify, Tick, Starts, TaskPing,
         TaskTimer, TaskWake, Microtask, EndTimers, StepKernel
    <3>2. CASE Takes \/ Ends \/ Arms \/ Returns \/ Calls(QueueMicrotask) \/ UNCHANGED vars
      BY <3>2 DEF Takes, Take, TakeRest, Ends, EndTurn, LoadWord, WaitAsync, Check, Drained,
         Arms, Subscribe, Level, Returns, Return, Yield, Calls, QueueMicrotask, vars
    <3> QED
      BY <1>1, <3>1, <3>2
  <2> QED
    BY <2>1, RefsQuiet
<1>2. CASE FetchSettles
  <2>1. /\ fetching /\ ~fetching' /\ refs' = refs - 1
        /\ UNCHANGED <<heap, timerRef, imm, batch, handler>>
    BY <1>2 DEF FetchSettles
  <2>2. timerRef' \subseteq Live'
    BY <1>0, <2>1 DEF Live
  <2>3. /\ UNCHANGED <<Timings, imm, batch, Readings>>
        /\ refs' = refs - 1 /\ Fetched = 1 /\ Fetched' = 0
    BY <2>1 DEF Timings, Readings, Fetched
  <2>4. refs' = Timings' + imm' + batch' + Readings' + Fetched'
    BY <2>3, RefsAre
  <2> QED
    BY <2>2, <2>4, RefsNext
<1>3. ASSUME NEW k, Gone(k), UNCHANGED <<imm, batch, handler, fetching>> PROVE RefsCounted'
  <2>1. Live' = Live \ {heap[k]}
    BY <1>3, GoneLive
  <2>2. timerRef' = timerRef \ {heap[k]} /\ refs' = refs - (IF heap[k] \in timerRef THEN 1 ELSE 0)
    BY <1>3 DEF Gone
  <2>3. Timings' = Timings - (IF heap[k] \in timerRef THEN 1 ELSE 0)
    BY <1>0, <2>2, OneLess DEF Timings
  <2>4. timerRef' \subseteq Live'
    BY <1>0, <2>1, <2>2
  <2>5. UNCHANGED <<imm, batch, Readings, Fetched>>
    BY <1>3 DEF Readings, Fetched
  <2>6. refs' = Timings' + imm' + batch' + Readings' + Fetched'
    BY <2>2, <2>3, <2>5, RefsAre
  <2> QED
    BY <2>4, <2>6, RefsNext
<1>4. CASE StepTimer
  <2>1. UNCHANGED <<imm, batch, handler, fetching>>
    BY <1>4 DEF StepTimer
  <2> QED
    BY <1>3, <1>4, <2>1, Firing
<1>5. ASSUME NEW t \in Timers, Calls(ClearTimeout(t)) PROVE RefsCounted'
  <2>1. UNCHANGED <<imm, batch, handler, fetching>>
    BY <1>5 DEF Calls, ClearTimeout, DropTimer
  <2> QED
    BY <1>3, <1>5, <2>1, Clearing
<1>6. ASSUME NEW t \in Timers, Calls(Unref(t)) PROVE RefsCounted'
  <2>1. UNCHANGED <<imm, batch, handler, fetching>>
    BY <1>6 DEF Calls, Unref, DropTimer
  <2>2. t \in timerRef /\ timerRef' = timerRef \ {t} /\ refs' = refs - 1 /\ UNCHANGED heap
    BY <1>6, Unreffing
  <2>3. Timings' = Timings - 1
    BY <1>0, <2>2, OneLess DEF Timings
  <2>4. timerRef' \subseteq Live'
    BY <1>0, <2>2 DEF Live
  <2>5. UNCHANGED <<imm, batch, Readings, Fetched>>
    BY <2>1 DEF Readings, Fetched
  <2>6. refs' = Timings' + imm' + batch' + Readings' + Fetched'
    BY <2>2, <2>3, <2>5, RefsAre
  <2> QED
    BY <2>4, <2>6, RefsNext
<1>7. ASSUME NEW t \in Timers, NEW n \in {1, Long}, Calls(SetTimeout(t, n)) PROVE RefsCounted'
  <2>1. UNCHANGED <<imm, batch, handler, fetching>>
    BY <1>7 DEF Calls, SetTimeout
  <2> DEFINE b == Before(n)
  <2>2. /\ t \notin Live /\ timerRef' = timerRef \cup {t} /\ refs' = refs + 1
        /\ b \in 0..Len(heap)
        /\ heap' \in Seq(Timers) /\ Len(heap') = Len(heap) + 1
        /\ \A j \in 1..Len(heap) + 1:
             heap'[j] = IF j < b + 1 THEN heap[j] ELSE IF j = b + 1 THEN t ELSE heap[j - 1]
    BY <1>7, Arming
  <2> HIDE DEF b
  <2>3. Len(heap) \in Nat /\ DOMAIN heap = 1..Len(heap) /\ DOMAIN heap' = 1..Len(heap) + 1
    BY <1>0, <2>2
  <2>4. t \in Live'
    <3>1. b + 1 \in 1..Len(heap) + 1 /\ heap'[b + 1] = t
      BY <2>2, <2>3
    <3> QED
      BY <2>3, <3>1 DEF Live
  <2>5. ASSUME NEW u \in Live PROVE u \in Live'
    <3>1. PICK i \in 1..Len(heap): u = heap[i]
      BY <2>3 DEF Live
    <3>2. CASE i < b + 1
      <4>1. i \in 1..Len(heap) + 1 /\ heap'[i] = heap[i]
        BY <2>2, <2>3, <3>2
      <4> QED
        BY <2>3, <3>1, <4>1 DEF Live
    <3>3. CASE ~(i < b + 1)
      <4>1. i + 1 \in 1..Len(heap) + 1 /\ ~(i + 1 < b + 1) /\ i + 1 # b + 1 /\ (i + 1) - 1 = i
        BY <2>2, <2>3, <3>3
      <4>2. heap'[i + 1] = heap[(i + 1) - 1]
        BY <2>2, <4>1
      <4> QED
        BY <2>3, <3>1, <4>1, <4>2 DEF Live
    <3> QED
      BY <3>2, <3>3
  <2>6. timerRef' \subseteq Live'
    BY <1>0, <2>2, <2>4, <2>5
  <2>7. refs' = refs + 1 /\ Timings' = Timings + 1
    <3>1. t \notin timerRef
      BY <1>0, <2>2
    <3> QED
      BY <1>0, <2>2, <3>1, OneMore DEF Timings
  <2>8. UNCHANGED <<imm, batch, Readings, Fetched>>
    BY <2>1 DEF Readings, Fetched
  <2>9. refs' = Timings' + imm' + batch' + Readings' + Fetched'
    BY <2>7, <2>8, RefsAre
  <2> QED
    BY <2>6, <2>9, RefsNext
<1>8. CASE Calls(SetImmediate) \/ Calls(Fetch)
  <2>1. /\ UNCHANGED <<heap, timerRef, batch, handler>> /\ refs' = refs + 1
        /\ \/ imm' = imm + 1 /\ Fetched' = Fetched
           \/ imm' = imm /\ Fetched = 0 /\ Fetched' = 1
    <3>1. CASE Calls(SetImmediate)
      BY <3>1 DEF Calls, SetImmediate, Fetched
    <3>2. CASE Calls(Fetch)
      BY <3>2 DEF Calls, Fetch, Fetched
    <3> QED
      BY <1>8, <3>1, <3>2
  <2>2. timerRef' \subseteq Live'
    BY <1>0, <2>1 DEF Live
  <2>3. UNCHANGED <<Timings, batch, Readings>>
    BY <2>1 DEF Timings, Readings
  <2>4. refs' = Timings' + imm' + batch' + Readings' + Fetched'
    BY <2>1, <2>3, RefsAre
  <2> QED
    BY <2>2, <2>4, RefsNext
<1>9. CASE EndKernel
  <2>1. /\ UNCHANGED <<heap, timerRef, fetching, handler, refs>> /\ phase = 2
        /\ batch' = imm /\ imm' = 0
    BY <1>9 DEF EndKernel
  <2>2. batch = 0
    BY <2>1, RefsAre DEF Leftovers
  <2>3. timerRef' \subseteq Live'
    BY <1>0, <2>1 DEF Live
  <2>4. UNCHANGED <<Timings, Readings, Fetched>>
    BY <2>1 DEF Timings, Readings, Fetched
  <2>5. refs' = Timings' + imm' + batch' + Readings' + Fetched'
    BY <2>1, <2>2, <2>4, RefsAre
  <2> QED
    BY <2>3, <2>5, RefsNext
<1>10. CASE StepImmediate
  <2>1. /\ UNCHANGED <<heap, timerRef, fetching, handler, imm>>
        /\ batch' = batch - 1 /\ refs' = refs - 1
    BY <1>10 DEF StepImmediate
  <2>2. timerRef' \subseteq Live'
    BY <1>0, <2>1 DEF Live
  <2>3. UNCHANGED <<Timings, imm, Readings, Fetched>>
    BY <2>1 DEF Timings, Readings, Fetched
  <2>4. refs' = Timings' + imm' + batch' + Readings' + Fetched'
    BY <2>1, <2>3, RefsAre
  <2> QED
    BY <2>2, <2>4, RefsNext
<1>11. ASSUME NEW d \in handler, StopReading(d), UNCHANGED <<heap, timerRef, imm, batch, fetching>>
       PROVE  RefsCounted'
  <2>1. handler' = handler \ {d} /\ refs' = refs - 1
    BY <1>11 DEF StopReading
  <2>2. Readings' = Readings - 1
    BY <1>0, <1>11, <2>1, OneLess DEF Readings
  <2>3. timerRef' \subseteq Live'
    BY <1>0, <1>11 DEF Live
  <2>4. UNCHANGED <<Timings, imm, batch, Fetched>>
    BY <1>11 DEF Timings, Fetched
  <2>5. refs' = Timings' + imm' + batch' + Readings' + Fetched'
    BY <2>1, <2>2, <2>4, RefsAre
  <2> QED
    BY <2>3, <2>5, RefsNext
<1>12. CASE Pumps
  <2>1. /\ arming \in handler /\ UNCHANGED <<heap, timerRef, imm, batch, fetching>>
        /\ StopReading(arming) \/ UNCHANGED <<handler, refs>>
    BY <1>12 DEF Pumps, PumpAll, PumpFull, FilesKnown
  <2> QED
    BY <1>11, <2>1, RefsQuiet
<1>13. ASSUME NEW d \in Fds, CloseFile(d) PROVE RefsCounted'
  <2>1. /\ UNCHANGED <<heap, timerRef, imm, batch, fetching>>
        /\ (d \in handler /\ StopReading(d)) \/ UNCHANGED <<handler, refs>>
    BY <1>13 DEF CloseFile
  <2> QED
    BY <1>11, <2>1, RefsQuiet
<1>14. CASE Reads
  <2>1. PICK d \in Fds: d \notin handler /\ StartReading(d)
                        /\ UNCHANGED <<heap, timerRef, imm, batch, fetching>>
    BY <1>14 DEF Reads, Calls, Resume, Open, FilesKnown
  <2>2. handler' = handler \cup {d} /\ refs' = refs + 1
    BY <2>1 DEF StartReading
  <2>3. Readings' = Readings + 1
    BY <1>0, <2>1, <2>2, OneMore DEF Readings
  <2>4. timerRef' \subseteq Live'
    BY <1>0, <2>1 DEF Live
  <2>5. UNCHANGED <<Timings, imm, batch, Fetched>>
    BY <2>1 DEF Timings, Fetched
  <2>6. refs' = Timings' + imm' + batch' + Readings' + Fetched'
    BY <2>2, <2>3, <2>5, RefsAre
  <2> QED
    BY <2>4, <2>6, RefsNext
<1> QED
  BY <1>1, <1>2, <1>4, <1>5, <1>6, <1>7, <1>8, <1>9, <1>10, <1>12, <1>13, <1>14, NextCases
     DEF Steps, Natives, Asks, Drops

-----------------------------------------------------------------------------
\* The inductive invariant, and what it implies.

LEMMA InvInit == Init => IInv
BY RefsInit, FilesInit, OwnedInit, HeardInit, PhasesInit, HeapInit DEF IInv, Queues, TurnInv

LEMMA InvStep ==
  ASSUME TypeOK, IInv, [Next]_vars
  PROVE  IInv'
<1> USE DEF IInv, Queues, TurnInv, Heap
<1>1. RefsCounted' /\ FilesKnown'
  BY RefsStep, FilesStep
<1>2. Queues'
  BY OwnedStep, HeardStep, WordStep
<1>3. TurnInv'
  BY PhasesStep, LeftoversStep, MicrotasksStep
<1>4. Heap'
  BY SortedStep, HostStep, OwedStep
<1> QED
  BY <1>1, <1>2, <1>3, <1>4

\* What the loop relies on, in every state that is reached.
THEOREM InvCorrect == Spec => [](TypeOK /\ IInv)
<1>1. Init => TypeOK /\ IInv
  BY TypeInit, InvInit
<1>2. TypeOK /\ IInv /\ [Next]_vars => TypeOK' /\ IInv'
  BY TypeStep, InvStep DEF IInv
<1> QED
  BY <1>1, <1>2, PTL DEF Spec

\* When the thread sleeps and nothing is under way that wakes it, no event is
\* queued or taken, no reader has something to read, no immediate waits, and the
\* host's timer comes before the first of the loop's (armKernelWait,
\* scheduleWake, ping).
THEOREM NoLostWakeupCorrect == Spec => []NoLostWakeup
<1>1. ASSUME TypeOK, IInv PROVE NoLostWakeup
  <2> SUFFICES ASSUME Asleep
               PROVE  /\ evq = <<>> /\ ready = <<>> /\ imm = 0
                      /\ \A d \in handler: ~Readable(fdfile[d])
                      /\ \A t \in Live: hostLeft > 0 /\ hostLeft <= left[t]
    BY DEF NoLostWakeup
  <2>0. pc = "idle" /\ ~pinged /\ wait # "resolved" /\ hostLeft # 0 /\ ppc = "idle"
    BY DEF Asleep, Idle
  <2>1. phase = 0
    BY <1>1, <2>0 DEF IInv, TurnInv, Phases
  <2>2. imm = 0 /\ ready = <<>>
    BY <1>1, <2>0, <2>1 DEF IInv, TurnInv, Leftovers, TypeOK, LoopTypes
  <2>3. evq = <<>>
    <3>1. wait = "pending"
      BY <1>1, <2>0 DEF IInv, Queues, WordSeen, TypeOK, QueueTypes
    <3> QED
      BY <1>1, <2>0, <3>1 DEF IInv, Queues, WordSeen
  <2>4. \A d \in handler: ~Readable(fdfile[d])
    <3>1. \A d: ~Told(d)
      BY <2>2, <2>3 DEF Told, Has
    <3> QED
      BY <1>1, <2>0, <3>1 DEF IInv, Queues, Heard
  <2>5. ASSUME NEW t \in Live PROVE hostLeft > 0 /\ hostLeft <= left[t]
    <3>0. /\ heap \in Seq(Timers) /\ DOMAIN heap = 1..Len(heap) /\ Len(heap) \in Nat
          /\ left \in [Timers -> 0..Long] /\ hostLeft \in Int
      BY <1>1 DEF TypeOK, TimerTypes
    <3>1. PICK i \in 1..Len(heap): t = heap[i]
      BY <3>0 DEF Live
    <3>2. heap # <<>> /\ 1 \in 1..Len(heap) /\ heap[1] \in Timers /\ t \in Timers
      BY <3>0, <3>1
    <3>3. hostLeft > 0 /\ hostLeft <= left[heap[1]]
      BY <1>1, <2>0, <2>1, <3>2 DEF IInv, Heap, HostTimer
    <3>4. left[heap[1]] \in Nat /\ left[t] \in Nat
      BY <3>0, <3>2, Sizes
    <3>5. left[heap[1]] <= left[t]
      <4>1. CASE i = 1
        BY <3>1, <3>4, <4>1
      <4>2. CASE i # 1
        BY <1>1, <3>0, <3>1, <3>2, <4>2 DEF IInv, Heap, Sorted
      <4> QED
        BY <4>1, <4>2
    <3> QED
      BY <3>0, <3>3, <3>4, <3>5
  <2> QED
    BY <2>2, <2>3, <2>4, <2>5
<1> QED
  BY <1>1, InvCorrect, PTL

\* The kernel's queue holds events only of the file that is open at the number
\* (Process::close).
THEOREM QueuedCorrect == Spec => []QueuedForOwner
<1>1. IInv => QueuedForOwner
  BY DEF IInv, Queues
<1> QED
  BY <1>1, InvCorrect, PTL

\* The process ends only when nothing is left that could run (drained).
THEOREM EndsIdleCorrect == Spec => []EndsIdle
<1>1. ASSUME TypeOK, IInv PROVE EndsIdle
  <2> SUFFICES ASSUME pc = "stopped" PROVE refs = 0 /\ ~micro /\ imm = 0 /\ ready = <<>>
    BY DEF EndsIdle, Stopped
  <2>1. ~micro /\ ready = <<>> /\ refs <= 0
    BY <1>1 DEF IInv, TurnInv, Leftovers, Microtasks
  <2>2. /\ Cardinality(timerRef) \in Nat /\ Cardinality(handler) \in Nat
        /\ imm \in Nat /\ batch \in Nat /\ refs \in Int
    BY <1>1, FS_CardinalityType DEF TypeOK, TimerTypes, QueueTypes, LoopTypes
  <2>3. refs = Cardinality(timerRef) + imm + batch + Cardinality(handler)
               + (IF fetching THEN 1 ELSE 0)
    BY <1>1 DEF IInv, RefsCounted
  <2> QED
    BY <2>1, <2>2, <2>3
<1> QED
  BY <1>1, InvCorrect, PTL

\* No event is delivered while a timer waits that was due when the turn began
\* (runTimers before runKernel).
THEOREM TimersFirstCorrect == Spec => TimersFirst
<1>1. ASSUME TypeOK, IInv, [Next]_vars, Len(ready') < Len(ready) PROVE owed \cap Live = {}
  <2>0. ready \in Seq(Events) /\ evq \in Seq(Events) /\ Len(ready) \in Nat
    BY <1>1 DEF TypeOK, QueueTypes
  <2>1. CASE StepKernel
    BY <1>1, <2>1 DEF StepKernel, IInv, Heap, OwedFirst
  <2>2. CASE Takes
    <3>1. ready' = ready \o evq
      BY <2>2 DEF Takes, Take, TakeRest
    <3>2. Len(ready') >= Len(ready)
      BY <2>0, <3>1
    <3> QED
      BY <1>1, <2>0, <3>1, <3>2
  <2>3. CASE \/ Writes \/ Tick \/ Starts \/ Natives \/ StepTimer \/ EndTimers \/ EndKernel
             \/ StepImmediate \/ Ends \/ Pumps \/ Arms \/ Yield \/ UNCHANGED vars
    <3>1. UNCHANGED ready
      <4>1. CASE \/ Writes \/ Tick \/ Starts \/ Natives \/ StepTimer \/ EndTimers \/ EndKernel
                 \/ StepImmediate
        BY <4>1 DEF Writes, Write, CloseWriter, WakeBump, WakeNotify, Tick, Starts, TaskPing,
           TaskTimer, TaskWake, Natives, FetchSettles, Microtask, StepTimer, EndTimers, EndKernel,
           StepImmediate
      <4>2. CASE Ends \/ Pumps \/ Arms \/ Yield \/ UNCHANGED vars
        BY <4>2 DEF Ends, EndTurn, LoadWord, WaitAsync, Check, Drained, Pumps, PumpAll, PumpFull,
           Arms, Subscribe, Level, Yield, vars
      <4> QED
        BY <2>3, <4>1, <4>2
    <3> QED
      BY <1>1, <2>0, <3>1
  <2>4. CASE \/ Asks \/ Drops \/ (\E t \in Timers, n \in {1, Long}: Calls(SetTimeout(t, n)))
             \/ Reads \/ (\E d \in Fds: CloseFile(d)) \/ Return
    <3>1. UNCHANGED ready
      BY <2>4, GuestSteps
    <3> QED
      BY <1>1, <2>0, <3>1
  <2> QED
    BY <1>1, <2>1, <2>2, <2>3, <2>4, NextCases DEF Steps, Returns
<1>2. TypeOK /\ IInv /\ [Next]_vars => [Len(ready') < Len(ready) => owed \cap Live = {}]_vars
  BY <1>1
<1> QED
  BY <1>2, InvCorrect, PTL DEF TimersFirst, Spec
==============================================================================
