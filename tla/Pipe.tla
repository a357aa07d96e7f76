-------------------------------- MODULE Pipe --------------------------------
(***************************************************************************)
(* A pipe of the kernel (Pipe in crates/bat-kernel/src/fd.rs): a byte ring *)
(* under a lock, with a wait queue for each direction, and the open file   *)
(* of each end, which closes the end when the last reference to it goes.   *)
(* A reference is an entry in a descriptor table or a call in progress:    *)
(* bat_read and bat_write keep the open file while they block, bat_close   *)
(* from taking it out of the table until it drops it.                      *)
(*                                                                         *)
(* A step is a critical section of the pipe's lock, or one access to the   *)
(* word of a wait queue.  Each thread is the worker of a process of its    *)
(* own, with one descriptor of its end.  The supervisor terminates a       *)
(* killed worker between any two of its steps, for none of them ends with  *)
(* a lock held (KernelLock), and then closes the descriptors its process   *)
(* has left.  What the worker's stack refers to stays, and what it had     *)
(* still to do, such as the wake-up it owes, is never done.                *)
(***************************************************************************)
EXTENDS Integers, Sequences, FiniteSets

CONSTANTS
  Readers, Writers,
  CanBlock,     \* the threads that may sleep (not the page)
  Victims,      \* the threads that SIGKILL may hit
  Byte,         \* the values of a byte
  Cap,          \* PIPE_CAP
  Messages,     \* what the writers write
  Sizes         \* the sizes of the readers' buffers

Threads == Readers \cup Writers

ASSUME PipeAssumption ==
  /\ Readers \cap Writers = {} /\ Readers # {} /\ Writers # {}
  /\ CanBlock \subseteq Threads
  /\ Victims \subseteq Threads
  /\ Cap \in Nat \ {0} /\ Byte # {}
  /\ Messages \subseteq Seq(Byte) \ {<<>>}
  /\ Sizes \subseteq Nat \ {0}

VARIABLES
  buf, head, len,   \* the ring
  readers, writers, \* whether each end is open (one open file per end: 0 or 1)
  pc,               \* where each thread is
  src, done,        \* a writer's bytes, and how many of them are in the ring
  dst, got,         \* a reader's buffer size, and what its last call returned
  nonblock,         \* the call must not sleep
  fresh,            \* the wait queue's word is still what the thread read
  fd,               \* the process has its descriptor
  lost              \* what went with the thread's worker when it was killed

ring == <<buf, head, len>>
call == <<src, done, dst, got, nonblock>>
vars == <<buf, head, len, readers, writers, pc, call, fresh, fd, lost>>

Calling == {"rtry", "rbump", "rnotify", "rsleep", "rasleep",
            "wtry", "wbump", "wnotify", "wsleep", "wasleep", "drop"}
PC == Calling \cup {"idle", "killed", "closing", "cbump", "cnotify", "gone"}

\* Where a thread holds a reference of its own to the open file.
Referring == Calling \cup {"closing"}

\* Where it has changed the pipe and has yet to wake the other side.
Owing == {"rbump", "rnotify", "wbump", "wnotify", "cbump", "cnotify"}

Goto(t, at) == pc' = [pc EXCEPT ![t] = at]

Least(a, b) == IF a < b THEN a ELSE b

\* The bytes in the ring, oldest first.
Contents == [i \in 1..len |-> buf[(head + i - 1) % Cap]]

End(t) == IF t \in Readers THEN Readers ELSE Writers

Init ==
  /\ buf = [i \in 0..Cap - 1 |-> CHOOSE z \in Byte : TRUE]
  /\ head = 0 /\ len = 0
  /\ readers = 1 /\ writers = 1
  /\ pc = [t \in Threads |-> "idle"]
  /\ src = [t \in Writers |-> <<>>] /\ done = [t \in Writers |-> 0]
  /\ dst = [t \in Readers |-> 1] /\ got = [t \in Readers |-> <<>>]
  /\ nonblock = [t \in Threads |-> FALSE]
  /\ fresh = [t \in Threads |-> FALSE]
  /\ fd = [t \in Threads |-> TRUE]
  /\ lost = [t \in Threads |-> {}]

-----------------------------------------------------------------------------
\* WaitQ: a sleeper reads the word under the object's lock and waits for it to
\* change; a waker changes it and notifies.  The word counts up, so a thread
\* finds it unchanged exactly when nobody woke that queue since it read it.

Bump(queue) == fresh' = [t \in Threads |-> t \notin queue /\ fresh[t]]

\* Everybody asleep on the queue tries again.
WakeAll(t, queue, asleep, try, next) ==
  pc' = [u \in Threads |-> IF u = t THEN next
                           ELSE IF u \in queue /\ pc[u] = asleep THEN try
                           ELSE pc[u]]

-----------------------------------------------------------------------------
\* Pipe::read

Read(t, n, nb) ==
  /\ pc[t] = "idle" /\ fd[t]
  /\ dst' = [dst EXCEPT ![t] = n]
  /\ nonblock' = [nonblock EXCEPT ![t] = nb \/ t \notin CanBlock]
  /\ Goto(t, "rtry")
  /\ UNCHANGED <<ring, readers, writers, src, done, got, fresh, fd, lost>>

ReadSome(t) ==
  LET n == Least(dst[t], len) IN
  /\ pc[t] = "rtry" /\ len > 0
  /\ got' = [got EXCEPT ![t] = [i \in 1..n |-> buf[(head + i - 1) % Cap]]]
  /\ head' = (head + n) % Cap
  /\ len' = len - n
  /\ Goto(t, "rbump")
  /\ UNCHANGED <<buf, readers, writers, src, done, dst, nonblock, fresh, fd, lost>>

\* End of file, or EAGAIN.
ReadNothing(t) ==
  /\ pc[t] = "rtry" /\ len = 0
  /\ writers = 0 \/ nonblock[t]
  /\ Goto(t, "drop")
  /\ UNCHANGED <<ring, readers, writers, call, fresh, fd, lost>>

ReadWaits(t) ==
  /\ pc[t] = "rtry" /\ len = 0 /\ writers # 0 /\ ~nonblock[t]
  /\ fresh' = [fresh EXCEPT ![t] = TRUE]
  /\ Goto(t, "rsleep")
  /\ UNCHANGED <<ring, readers, writers, call, fd, lost>>

\* A wait that does not compare the word.
ReadSleepsAlways(t) ==
  /\ pc[t] = "rsleep"
  /\ Goto(t, "rasleep")
  /\ UNCHANGED <<ring, readers, writers, call, fresh, fd, lost>>

ReadSleeps(t) ==
  /\ pc[t] = "rsleep"
  /\ Goto(t, IF fresh[t] THEN "rasleep" ELSE "rtry")
  /\ UNCHANGED <<ring, readers, writers, call, fresh, fd, lost>>

ReadBumps(t) ==
  /\ pc[t] = "rbump"
  /\ Bump(Writers)
  /\ Goto(t, "rnotify")
  /\ UNCHANGED <<ring, readers, writers, call, fd, lost>>

ReadNotifies(t) ==
  /\ pc[t] = "rnotify"
  /\ WakeAll(t, Writers, "wasleep", "wtry", "drop")
  /\ UNCHANGED <<ring, readers, writers, call, fresh, fd, lost>>

-----------------------------------------------------------------------------
\* Pipe::write

Write(t, s, nb) ==
  /\ pc[t] = "idle" /\ fd[t]
  /\ src' = [src EXCEPT ![t] = s]
  /\ done' = [done EXCEPT ![t] = 0]
  /\ nonblock' = [nonblock EXCEPT ![t] = nb \/ t \notin CanBlock]
  /\ Goto(t, "wtry")
  /\ UNCHANGED <<ring, readers, writers, dst, got, fresh, fd, lost>>

\* The reader is gone: EPIPE, or the count so far.
WriteBroken(t) ==
  /\ pc[t] = "wtry" /\ readers = 0
  /\ src' = [src EXCEPT ![t] = <<>>] /\ done' = [done EXCEPT ![t] = 0]
  /\ Goto(t, "drop")
  /\ UNCHANGED <<ring, readers, writers, dst, got, nonblock, fresh, fd, lost>>

\* What a call of write does when it can do no more now.
WriteReturns(t, d) == d = Len(src[t]) \/ nonblock[t]

\* A write that does not look at the space left.
WriteOverruns(t) ==
  LET n == Least(Len(src[t]) - done[t], Cap)
      tail == (head + len) % Cap
      d == done[t] + n
  IN
  /\ pc[t] = "wtry" /\ readers # 0
  /\ buf' = [i \in 0..Cap - 1 |->
               LET k == (i - tail) % Cap IN
               IF k < n THEN src[t][done[t] + k + 1] ELSE buf[i]]
  /\ len' = len + n
  /\ done' = [done EXCEPT ![t] = d]
  /\ fresh' = [fresh EXCEPT ![t] = TRUE]
  /\ Goto(t, "wbump")
  /\ UNCHANGED <<head, readers, writers, src, dst, got, nonblock, fd, lost>>

\* As much as fits goes to the ring; the queue's word is read under the lock.
WriteSome(t) ==
  LET n == Least(Len(src[t]) - done[t], Cap - len)
      tail == (head + len) % Cap
      d == done[t] + n
  IN
  /\ pc[t] = "wtry" /\ readers # 0
  /\ buf' = [i \in 0..Cap - 1 |->
               LET k == (i - tail) % Cap IN
               IF k < n THEN src[t][done[t] + k + 1] ELSE buf[i]]
  /\ len' = len + n
  /\ done' = [done EXCEPT ![t] = d]
  /\ fresh' = [fresh EXCEPT ![t] = TRUE]
  /\ Goto(t, IF d > 0 THEN "wbump" ELSE IF nonblock[t] THEN "drop" ELSE "wsleep")
  /\ UNCHANGED <<head, readers, writers, src, dst, got, nonblock, fd, lost>>

WriteBumps(t) ==
  /\ pc[t] = "wbump"
  /\ Bump(Readers)
  /\ Goto(t, "wnotify")
  /\ UNCHANGED <<ring, readers, writers, call, fd, lost>>

WriteNotifies(t) ==
  /\ pc[t] = "wnotify"
  /\ WakeAll(t, Readers, "rasleep", "rtry",
             IF WriteReturns(t, done[t]) THEN "drop" ELSE "wsleep")
  /\ UNCHANGED <<ring, readers, writers, call, fresh, fd, lost>>

WriteSleeps(t) ==
  /\ pc[t] = "wsleep"
  /\ Goto(t, IF fresh[t] THEN "wasleep" ELSE "wtry")
  /\ UNCHANGED <<ring, readers, writers, call, fresh, fd, lost>>

-----------------------------------------------------------------------------
\* The open files of the two ends

\* Who refers to an end: a descriptor, a call in progress, a dead worker's stack.
Leaked(t) == "reference" \in lost[t]

Holders(end) == {u \in end : fd[u] \/ pc[u] \in Referring \/ Leaked(u)}

\* A close that does not count the references.
DropUncounted(t, refs) ==
  /\ Goto(t, "cbump")
  /\ IF t \in Readers
     THEN readers' = 0 /\ UNCHANGED writers
     ELSE writers' = 0 /\ UNCHANGED readers

\* Drop for OpenFile, if this was the last reference: close_reader, close_writer.
DropLast(t, refs) ==
  IF refs # {}
  THEN Goto(t, "gone") /\ UNCHANGED <<readers, writers>>
  ELSE /\ Goto(t, "cbump")
       /\ IF t \in Readers
          THEN readers' = 0 /\ UNCHANGED writers
          ELSE writers' = 0 /\ UNCHANGED readers

\* A call is over, a writer's with what it had still to write.
CallOver(t) ==
  /\ src' = IF t \in Writers THEN [src EXCEPT ![t] = <<>>] ELSE src
  /\ done' = IF t \in Writers THEN [done EXCEPT ![t] = 0] ELSE done
  /\ nonblock' = [nonblock EXCEPT ![t] = FALSE]

\* The call returns and its reference goes, never the last: the program has one
\* thread, which is here and not in bat_close.
Return(t) ==
  /\ pc[t] = "drop"
  /\ Goto(t, "idle")
  /\ CallOver(t)
  /\ UNCHANGED <<ring, readers, writers, dst, got, fresh, fd, lost>>

\* bat_close, between calls: the descriptor leaves the table.
CloseFd(t) ==
  /\ pc[t] = "idle" /\ fd[t]
  /\ fd' = [fd EXCEPT ![t] = FALSE]
  /\ Goto(t, "closing")
  /\ UNCHANGED <<ring, readers, writers, call, fresh, lost>>

\* ... and what was taken out of it is dropped.
Drop(t) ==
  /\ pc[t] = "closing"
  /\ DropLast(t, {u \in Holders(End(t)) : u # t \/ Leaked(u)})
  /\ UNCHANGED <<ring, call, fresh, fd, lost>>

\* kerneld terminates the worker, whatever it is doing: what it holds stays and
\* what it owes is not done ...
Loss(at) ==
  {"worker"} \cup {x \in {"reference"} : at \in Referring} \cup {x \in {"wake-up"} : at \in Owing}

Kill(t) ==
  /\ lost[t] = {} /\ pc[t] # "gone"
  /\ lost' = [lost EXCEPT ![t] = Loss(pc[t])]
  /\ Goto(t, "killed")
  /\ CallOver(t)
  /\ UNCHANGED <<ring, readers, writers, dst, got, fresh, fd>>

\* ... and proc::finish, in kerneld, takes what its process has left in its table
\* and drops it.
Finish(t) ==
  /\ pc[t] = "killed"
  /\ fd' = [fd EXCEPT ![t] = FALSE]
  /\ Goto(t, IF fd[t] THEN "closing" ELSE "gone")
  /\ UNCHANGED <<ring, readers, writers, call, fresh, lost>>

CloseUnannounced(t) ==
  /\ pc[t] = "cbump"
  /\ Goto(t, "gone")
  /\ UNCHANGED <<ring, readers, writers, call, fresh, fd, lost>>

CloseBumps(t) ==
  /\ pc[t] = "cbump"
  /\ Bump(Threads \ End(t))
  /\ Goto(t, "cnotify")
  /\ UNCHANGED <<ring, readers, writers, call, fd, lost>>

CloseNotifies(t) ==
  /\ pc[t] = "cnotify"
  /\ IF t \in Readers
     THEN WakeAll(t, Writers, "wasleep", "wtry", "gone")
     ELSE WakeAll(t, Readers, "rasleep", "rtry", "gone")
  /\ UNCHANGED <<ring, readers, writers, call, fresh, fd, lost>>

-----------------------------------------------------------------------------
\* The steps a call takes once it is made, and those of closing an end.
Reading(t) ==
  \/ ReadSome(t) \/ ReadNothing(t) \/ ReadWaits(t) \/ ReadSleeps(t)
  \/ ReadBumps(t) \/ ReadNotifies(t)

Writing(t) ==
  \/ WriteBroken(t) \/ WriteSome(t) \/ WriteBumps(t) \/ WriteNotifies(t)
  \/ WriteSleeps(t)

Closing(t) ==
  Return(t) \/ Finish(t) \/ Drop(t) \/ CloseBumps(t) \/ CloseNotifies(t)

Next ==
  \/ \E t \in Readers : Reading(t) \/ \E n \in Sizes, nb \in BOOLEAN : Read(t, n, nb)
  \/ \E t \in Writers : Writing(t) \/ \E s \in Messages, nb \in BOOLEAN : Write(t, s, nb)
  \/ \E t \in Threads : Closing(t) \/ CloseFd(t)
  \/ \E t \in Victims : Kill(t)

Spec == Init /\ [][Next]_vars

\* Workers run in parallel and the kernel's calls do not stop half-way.
Fairness ==
  /\ \A t \in Readers : WF_vars(Reading(t))
  /\ \A t \in Writers : WF_vars(Writing(t))
  /\ \A t \in Threads : WF_vars(Closing(t))

FairSpec == Spec /\ Fairness

-----------------------------------------------------------------------------
RingTypes ==
  /\ buf \in [0..Cap - 1 -> Byte]
  /\ head \in 0..Cap - 1 /\ len \in 0..Cap

CallTypes ==
  /\ src \in [Writers -> Messages \cup {<<>>}]
  /\ done \in [Writers -> Nat] /\ \A t \in Writers: done[t] <= Len(src[t])
  /\ dst \in [Readers -> Nat \ {0}]
  /\ got \in [Readers -> Seq(Byte)]
  /\ nonblock \in [Threads -> BOOLEAN]

FileTypes ==
  /\ readers \in 0..1 /\ writers \in 0..1
  /\ pc \in [Threads -> PC]
  /\ fresh \in [Threads -> BOOLEAN]
  /\ fd \in [Threads -> BOOLEAN]
  /\ lost \in [Threads -> SUBSET {"worker", "reference", "wake-up"}]

TypeOK == RingTypes /\ CallTypes /\ FileTypes

\* An end is closed exactly when nothing refers to it any more: no write can
\* reach a pipe whose reader was told there would be none, and no descriptor is
\* left on an end that was closed.
EndOpen(end) == Holders(end) # {}

OpenWhileReferred ==
  /\ readers = 1 <=> EndOpen(Readers)
  /\ writers = 1 <=> EndOpen(Writers)

\* fd.rs, the wait queues: the word is read under the lock and changed after
\* the state is, so nobody sleeps through the event it waits for.  While a
\* reader sleeps although there is data or an end of file, some thread is about
\* to wake the readers, or was killed exactly between what it did to the pipe and
\* the wake-up it owed for it; likewise for a writer.  A kill at any other point
\* loses no wake-up.
Wakes(end) == \E u \in end : pc[u] \in Owing \/ "wake-up" \in lost[u]

NoLostWakeup ==
  /\ \A t \in Readers :
       pc[t] = "rasleep" /\ (len > 0 \/ writers = 0) => Wakes(Writers)
  /\ \A t \in Writers :
       pc[t] = "wasleep" /\ (len < Cap \/ readers = 0) => Wakes(Readers)

\* kernel-abi.md: the last close of an end gives the other side EOF or EPIPE.
\* A call asleep when the last descriptor of the other end goes does return.  The
\* code does not keep this when a worker is killed inside a call: its reference to
\* the open file stays, or the end is closed and nobody is told.
AsleepAlone(t, at, end) == pc[t] = at /\ \A u \in end : ~fd[u]

LastCloseWakes ==
  /\ \A t \in Readers : AsleepAlone(t, "rasleep", Writers) ~> pc[t] # "rasleep"
  /\ \A t \in Writers : AsleepAlone(t, "wasleep", Readers) ~> pc[t] # "wasleep"

\* The same, unless a thread of the other end was killed inside a call of read,
\* write or close.  One that was killed between its calls does not count: what
\* kerneld closes for it wakes the other side.
Interrupted(t) == lost[t] \cap {"reference", "wake-up"} # {}

LastCloseWakesUnlessKilled ==
  /\ \A t \in Readers : AsleepAlone(t, "rasleep", Writers) ~>
       pc[t] # "rasleep" \/ \E u \in Writers : Interrupted(u)
  /\ \A t \in Writers : AsleepAlone(t, "wasleep", Readers) ~>
       pc[t] # "wasleep" \/ \E u \in Readers : Interrupted(u)

\* The pipe is a bounded FIFO: no byte is lost, doubled or reordered by the
\* wrap of the ring, by partial reads and writes or by a worker killed between.
Todo == [t \in Writers |-> SubSeq(src[t], done[t] + 1, Len(src[t]))]
Opened == {e \in {"r", "w"} : IF e = "r" THEN readers = 1 ELSE writers = 1}

Abstract == INSTANCE AbstractPipe WITH chan <- Contents, todo <- Todo, open <- Opened

ImplementsAbstractPipe == Abstract!Spec
=============================================================================
