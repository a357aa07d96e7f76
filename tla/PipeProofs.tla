------------------------------ MODULE PipeProofs ------------------------------
(***************************************************************************)
(* Proofs about the pipe for every number of threads, size of the ring and *)
(* set of messages: types, that an end is open exactly while something     *)
(* refers to it, that no wake-up is lost, and that the ring is the bounded *)
(* FIFO of AbstractPipe.                                                   *)
(***************************************************************************)
EXTENDS Pipe, SequenceTheorems, TLAPS

\* A call of read or write keeps its descriptor; one that is being closed has left
\* the table.
CallsRefer ==
  \A t \in Threads:
    /\ pc[t] \in Calling => fd[t]
    /\ pc[t] = "closing" => ~fd[t]

\* Threads keep to the calls of their end.
Reads == {"rtry", "rbump", "rnotify", "rsleep", "rasleep"}
Writes == {"wtry", "wbump", "wnotify", "wsleep", "wasleep"}

KeepToEnd ==
  /\ \A t \in Readers: pc[t] \notin Writes
  /\ \A t \in Writers: pc[t] \notin Reads

\* A writer outside a call has nothing to write, one that will try has something.
Pending ==
  \A t \in Writers:
    /\ pc[t] = "idle" => src[t] = <<>>
    /\ pc[t] \in {"wtry", "wsleep", "wasleep"} => done[t] < Len(src[t])

\* Who has yet to change the word of the other queue, and who has yet to notify
\* or was killed before that.
Bumps(end) ==
  \E u \in end: pc[u] \in {"rbump", "wbump", "cbump"} \/ "wake-up" \in lost[u]
Notifies(end) == Wakes(end)

\* A reader that found nothing and a word that is unchanged since: whoever put
\* something there has the word still to change.
ReaderCovered ==
  \A t \in Readers: len > 0 \/ writers = 0 =>
    /\ pc[t] = "rsleep" /\ fresh[t] => Bumps(Writers)
    /\ pc[t] = "rasleep" => Notifies(Writers)

\* The same of a writer, which notifies the readers before it sleeps.
WillSleep(t) ==
  \/ pc[t] = "wsleep"
  \/ pc[t] \in {"wbump", "wnotify"} /\ ~WriteReturns(t, done[t])

WriterCovered ==
  \A t \in Writers: len < Cap \/ readers = 0 =>
    /\ WillSleep(t) /\ fresh[t] => Bumps(Readers)
    /\ pc[t] = "wasleep" => Notifies(Readers)

IInv ==
  /\ CallsRefer /\ OpenWhileReferred
  /\ KeepToEnd /\ Pending
  /\ ReaderCovered /\ WriterCovered

-----------------------------------------------------------------------------

USE DEF ring, call, Threads

\* The constants are what they should be.
LEMMA Constants ==
  /\ Cap \in Nat /\ Cap > 0
  /\ Messages \subseteq Seq(Byte) /\ <<>> \notin Messages
  /\ Sizes \subseteq Nat \ {0}
  /\ Readers \cap Writers = {} /\ Readers # {} /\ Writers # {}
  BY PipeAssumption

\* An index that runs over the end of the ring once comes back at its start.
LEMMA ModOnce ==
  ASSUME NEW x \in Int, x >= 0 - Cap, x < Cap + Cap
  PROVE  x % Cap = IF x < 0 THEN x + Cap ELSE IF x < Cap THEN x ELSE x - Cap
  BY Constants

LEMMA ModRange ==
  ASSUME NEW x \in Int
  PROVE  x % Cap \in 0..Cap - 1
  BY Constants

LEMMA LeastOf ==
  ASSUME NEW x \in Nat, NEW y \in Nat
  PROVE  /\ Least(x, y) \in Nat /\ Least(x, y) <= x /\ Least(x, y) <= y
         /\ Least(x, y) = x \/ Least(x, y) = y
  BY DEF Least

-----------------------------------------------------------------------------
\* Types.

LEMMA TypeInit == Init => TypeOK
<1> SUFFICES ASSUME Init PROVE TypeOK
  OBVIOUS
<1>1. (CHOOSE z \in Byte : TRUE) \in Byte
  BY PipeAssumption
<1>2. RingTypes
  BY <1>1, Constants DEF Init, RingTypes
<1>3. CallTypes
  BY DEF Init, CallTypes
<1>4. FileTypes
  BY DEF Init, FileTypes, PC
<1> QED
  BY <1>2, <1>3, <1>4 DEF TypeOK

\* What a writer writes, and how much of it it has written.
LEMMA SrcSeq ==
  ASSUME TypeOK, NEW t \in Writers
  PROVE  /\ src[t] \in Seq(Byte) /\ Len(src[t]) \in Nat
         /\ done[t] \in Nat /\ done[t] <= Len(src[t])
<1>1. src[t] \in Messages \cup {<<>>} /\ done[t] \in Nat /\ done[t] <= Len(src[t])
  BY DEF TypeOK, CallTypes
<1>2. <<>> \in Seq(Byte)
  BY EmptySeq
<1>3. src[t] \in Seq(Byte)
  BY <1>1, <1>2, Constants
<1>4. Len(src[t]) \in Nat
  BY <1>3, LenProperties
<1> QED
  BY <1>1, <1>3, <1>4

\* The ring after a write: what fits of the message stands behind what was there.
LEMMA RingWritten ==
  ASSUME TypeOK, NEW t \in Writers, WriteSome(t)
  PROVE  \E n \in Nat:
           /\ n = Least(Len(src[t]) - done[t], Cap - len)
           /\ n <= Len(src[t]) - done[t] /\ n <= Cap - len
           /\ n = Len(src[t]) - done[t] \/ n = Cap - len
           /\ len' = len + n /\ done' = [done EXCEPT ![t] = @ + n]
           /\ buf' = [i \in 0..Cap - 1 |->
                       LET k == (i - ((head + len) % Cap)) % Cap
                       IN  IF k < n THEN src[t][done[t] + k + 1] ELSE buf[i]]
<1> DEFINE n == Least(Len(src[t]) - done[t], Cap - len)
<1>1. len \in 0..Cap
  BY DEF TypeOK, RingTypes
<1>2. Len(src[t]) - done[t] \in Nat /\ Cap - len \in Nat
  BY <1>1, SrcSeq, Constants
<1>3. /\ n \in Nat /\ n <= Len(src[t]) - done[t] /\ n <= Cap - len
      /\ n = Len(src[t]) - done[t] \/ n = Cap - len
  BY <1>2, LeastOf
<1>4. /\ len' = len + n /\ done' = [done EXCEPT ![t] = @ + n]
      /\ buf' = [i \in 0..Cap - 1 |->
                  LET k == (i - ((head + len) % Cap)) % Cap
                  IN  IF k < n THEN src[t][done[t] + k + 1] ELSE buf[i]]
  BY DEF WriteSome
<1> HIDE DEF n
<1>5. n = Least(Len(src[t]) - done[t], Cap - len)
  BY DEF n
<1> QED
  BY <1>3, <1>4, <1>5

\* The ring after a read.
LEMMA RingRead ==
  ASSUME TypeOK, NEW t \in Readers, ReadSome(t)
  PROVE  \E n \in Nat:
           /\ n > 0 /\ n <= len
           /\ got' = [got EXCEPT ![t] = [i \in 1..n |-> buf[(head + i - 1) % Cap]]]
           /\ head' = (head + n) % Cap /\ len' = len - n
<1> DEFINE n == Least(dst[t], len)
<1>1. dst[t] \in Nat /\ dst[t] > 0 /\ len \in Nat /\ len > 0
  BY Constants DEF TypeOK, CallTypes, RingTypes, ReadSome
<1>2. n \in Nat /\ n > 0 /\ n <= len
  BY <1>1, LeastOf
<1>3. /\ got' = [got EXCEPT ![t] = [i \in 1..n |-> buf[(head + i - 1) % Cap]]]
      /\ head' = (head + n) % Cap /\ len' = len - n
  BY DEF ReadSome
<1> HIDE DEF n
<1> QED
  BY <1>2, <1>3

LEMMA RingTyped ==
  ASSUME TypeOK, [Next]_vars
  PROVE  RingTypes'
<1>1. ASSUME NEW t \in Readers, ReadSome(t) PROVE RingTypes'
  <2>1. PICK n \in Nat: n > 0 /\ n <= len /\ head' = (head + n) % Cap /\ len' = len - n
    BY <1>1, RingRead
  <2>2. head' \in 0..Cap - 1
    BY <2>1, ModRange DEF TypeOK, RingTypes
  <2> QED
    BY <1>1, <2>1, <2>2, Constants DEF TypeOK, RingTypes, ReadSome
<1>2. ASSUME NEW t \in Writers, WriteSome(t) PROVE RingTypes'
  <2>1. PICK n \in Nat:
          /\ n <= Len(src[t]) - done[t] /\ n <= Cap - len
          /\ len' = len + n
          /\ buf' = [i \in 0..Cap - 1 |->
                      LET k == (i - ((head + len) % Cap)) % Cap
                      IN  IF k < n THEN src[t][done[t] + k + 1] ELSE buf[i]]
    BY <1>2, RingWritten
  <2>2. src[t] \in Seq(Byte) /\ Len(src[t]) \in Nat /\ done[t] \in Nat
    BY SrcSeq
  <2>3. ASSUME NEW i \in 0..Cap - 1 PROVE buf'[i] \in Byte
    <3> DEFINE k == (i - ((head + len) % Cap)) % Cap
    <3>1. (head + len) % Cap \in Int
      BY ModRange DEF TypeOK, RingTypes
    <3>2. k \in 0..Cap - 1
      BY <3>1, ModRange
    <3>3. buf'[i] = IF k < n THEN src[t][done[t] + k + 1] ELSE buf[i]
      BY <2>1
    <3> HIDE DEF k
    <3>4. CASE k < n
      <4>1. done[t] + k + 1 \in 1..Len(src[t])
        BY <2>1, <2>2, <3>2, <3>4, Constants, SMTT(30)
      <4> QED
        BY <2>2, <3>3, <3>4, <4>1
    <3>5. CASE ~(k < n)
      BY <3>3, <3>5 DEF TypeOK, RingTypes
    <3> QED
      BY <3>4, <3>5
  <2>4. buf' \in [0..Cap - 1 -> Byte]
    BY <2>1, <2>3
  <2> QED
    BY <1>2, <2>1, <2>4, Constants DEF TypeOK, RingTypes, WriteSome
<1>3. CASE UNCHANGED ring
  BY <1>3 DEF TypeOK, RingTypes
<1>4. \/ \E t \in Readers: ReadSome(t)
      \/ \E t \in Writers: WriteSome(t)
      \/ UNCHANGED ring
  BY DEF Next, Reading, ReadNothing, ReadWaits, ReadSleeps, ReadBumps, ReadNotifies, Read,
     Writing, WriteBroken, WriteBumps, WriteNotifies, WriteSleeps, Write,
     Closing, Return, Finish, Drop, CloseBumps, CloseNotifies, CloseFd, Kill, vars
<1> QED
  BY <1>1, <1>2, <1>3, <1>4

LEMMA CallTyped ==
  ASSUME TypeOK, [Next]_vars
  PROVE  CallTypes'
<1> USE DEF TypeOK, CallTypes
<1>1. ASSUME NEW t \in Readers, ReadSome(t) PROVE CallTypes'
  <2>1. PICK n \in Nat:
          n <= len /\ got' = [got EXCEPT ![t] = [i \in 1..n |-> buf[(head + i - 1) % Cap]]]
    BY <1>1, RingRead
  <2>2. ASSUME NEW i \in 1..n PROVE buf[(head + i - 1) % Cap] \in Byte
    <3>1. head \in Int /\ buf \in [0..Cap - 1 -> Byte]
      BY Constants DEF RingTypes
    <3> HIDE DEF TypeOK, CallTypes
    <3>2. head + i - 1 \in Int
      BY <3>1
    <3>3. (head + i - 1) % Cap \in 0..Cap - 1
      BY <3>2, ModRange
    <3> QED
      BY <3>1, <3>3
  <2>3. [i \in 1..n |-> buf[(head + i - 1) % Cap]] \in Seq(Byte)
    BY <2>2, IsASeq
  <2> QED
    BY <1>1, <2>1, <2>3 DEF ReadSome
<1>2. ASSUME NEW t \in Writers, WriteSome(t) PROVE CallTypes'
  <2>1. PICK n \in Nat: n <= Len(src[t]) - done[t] /\ done' = [done EXCEPT ![t] = @ + n]
    BY <1>2, RingWritten
  <2>2. Len(src[t]) \in Nat
    BY Constants
  <2> QED
    BY <1>2, <2>1, <2>2 DEF WriteSome
<1>3. ASSUME NEW t \in Readers, NEW n \in Sizes, NEW nb \in BOOLEAN, Read(t, n, nb)
      PROVE  CallTypes'
  BY <1>3, Constants DEF Read
<1>4. ASSUME NEW t \in Writers, NEW s \in Messages, NEW nb \in BOOLEAN, Write(t, s, nb)
      PROVE  CallTypes'
  <2>1. Len(s) \in Nat
    BY Constants
  <2> QED
    BY <1>4, <2>1 DEF Write
<1>5. ASSUME NEW t \in Writers, WriteBroken(t) PROVE CallTypes'
  BY <1>5 DEF WriteBroken
<1>6. ASSUME NEW t \in Threads, Return(t) \/ Kill(t) PROVE CallTypes'
  <2>1. CallOver(t) /\ UNCHANGED <<dst, got>>
    BY <1>6 DEF Return, Kill
  <2> QED
    BY <2>1 DEF CallOver
<1>7. CASE UNCHANGED call
  BY <1>7
<1>8. \/ \E t \in Readers: ReadSome(t) \/ \E n \in Sizes, nb \in BOOLEAN: Read(t, n, nb)
      \/ \E t \in Writers: \/ WriteSome(t) \/ WriteBroken(t)
                           \/ \E s \in Messages, nb \in BOOLEAN: Write(t, s, nb)
      \/ \E t \in Threads: Return(t) \/ Kill(t)
      \/ UNCHANGED call
  BY PipeAssumption DEF Next, Reading, ReadNothing, ReadWaits, ReadSleeps, ReadBumps, ReadNotifies,
     Writing, WriteBumps, WriteNotifies, WriteSleeps,
     Closing, Finish, Drop, CloseBumps, CloseNotifies, CloseFd, vars
<1> QED
  BY <1>1, <1>2, <1>3, <1>4, <1>5, <1>6, <1>7, <1>8

LEMMA FileTyped ==
  ASSUME TypeOK, [Next]_vars
  PROVE  FileTypes'
<1> USE DEF TypeOK, FileTypes, PC, Calling, Goto
<1>1. ASSUME NEW t \in Readers, Reading(t) PROVE FileTypes'
  BY <1>1 DEF Reading, ReadSome, ReadNothing, ReadWaits, ReadSleeps, ReadBumps, ReadNotifies,
     Bump, WakeAll
<1>2. ASSUME NEW t \in Readers, NEW n \in Sizes, NEW nb \in BOOLEAN, Read(t, n, nb)
      PROVE  FileTypes'
  BY <1>2 DEF Read
<1>3. ASSUME NEW t \in Writers, Writing(t) PROVE FileTypes'
  BY <1>3 DEF Writing, WriteSome, WriteBroken, WriteBumps, WriteNotifies, WriteSleeps,
     Bump, WakeAll
<1>4. ASSUME NEW t \in Writers, NEW s \in Messages, NEW nb \in BOOLEAN, Write(t, s, nb)
      PROVE  FileTypes'
  BY <1>4 DEF Write
<1>5. ASSUME NEW t \in Threads, Closing(t) \/ CloseFd(t) PROVE FileTypes'
  <2>1. CASE Return(t)
    BY <2>1 DEF Return
  <2>2. CASE Drop(t)
    BY <2>2 DEF Drop, DropLast
  <2>3. CASE Finish(t)
    BY <2>3 DEF Finish
  <2>4. CASE CloseFd(t)
    BY <2>4 DEF CloseFd
  <2>5. CASE CloseBumps(t)
    BY <2>5 DEF CloseBumps, Bump
  <2>6. CASE CloseNotifies(t)
    BY <2>6 DEF CloseNotifies, WakeAll
  <2> QED
    BY <1>5, <2>1, <2>2, <2>3, <2>4, <2>5, <2>6 DEF Closing
<1>6. ASSUME NEW t \in Victims, Kill(t) PROVE FileTypes'
  <2>1. Loss(pc[t]) \in SUBSET {"worker", "reference", "wake-up"}
    BY DEF Loss
  <2> QED
    BY <1>6, <2>1, PipeAssumption DEF Kill
<1>7. CASE UNCHANGED vars
  BY <1>7 DEF vars
<1> QED
  BY <1>1, <1>2, <1>3, <1>4, <1>5, <1>6, <1>7 DEF Next

LEMMA TypeStep == TypeOK /\ [Next]_vars => TypeOK'
BY RingTyped, CallTyped, FileTyped DEF TypeOK

\* The pipe keeps its types: the ring never holds more than fits.
THEOREM TypeCorrect == Spec => []TypeOK
BY TypeInit, TypeStep, PTL DEF Spec


-----------------------------------------------------------------------------
\* The inductive invariant.

LEMMA InvInit == Init => IInv
<1> SUFFICES ASSUME Init PROVE IInv
  OBVIOUS
<1>1. CallsRefer /\ KeepToEnd /\ Pending /\ ReaderCovered /\ WriterCovered
  BY Constants DEF Init, CallsRefer, KeepToEnd, Pending, ReaderCovered, WriterCovered, Calling,
     Reads, Writes, WillSleep
<1>2. Holders(Readers) = Readers /\ Holders(Writers) = Writers
  BY DEF Init, Holders
<1>3. OpenWhileReferred
  BY <1>2, Constants DEF Init, OpenWhileReferred, EndOpen
<1> QED
  BY <1>1, <1>3 DEF IInv

LEMMA CallsReferStep ==
  ASSUME TypeOK, CallsRefer, [Next]_vars
  PROVE  CallsRefer'
<1> USE DEF TypeOK, FileTypes, CallsRefer, Calling, Goto
<1>1. ASSUME NEW t \in Readers, Reading(t) PROVE CallsRefer'
  BY <1>1 DEF Reading, ReadSome, ReadNothing, ReadWaits, ReadSleeps, ReadBumps, ReadNotifies,
     WakeAll
<1>2. ASSUME NEW t \in Readers, NEW n \in Sizes, NEW nb \in BOOLEAN, Read(t, n, nb)
      PROVE  CallsRefer'
  BY <1>2 DEF Read
<1>3. ASSUME NEW t \in Writers, Writing(t) PROVE CallsRefer'
  BY <1>3 DEF Writing, WriteSome, WriteBroken, WriteBumps, WriteNotifies, WriteSleeps, WakeAll
<1>4. ASSUME NEW t \in Writers, NEW s \in Messages, NEW nb \in BOOLEAN, Write(t, s, nb)
      PROVE  CallsRefer'
  BY <1>4 DEF Write
<1>5. ASSUME NEW t \in Threads, Closing(t) \/ CloseFd(t) PROVE CallsRefer'
  <2>1. CASE Return(t)
    BY <2>1 DEF Return
  <2>2. CASE Finish(t)
    BY <2>2 DEF Finish
  <2>3. CASE CloseFd(t)
    BY <2>3 DEF CloseFd
  <2>4. CASE CloseBumps(t)
    BY <2>4 DEF CloseBumps
  <2>5. CASE CloseNotifies(t)
    BY <2>5 DEF CloseNotifies, WakeAll
  <2>6. CASE Drop(t)
    BY <2>6 DEF Drop, DropLast
  <2> QED
    BY <1>5, <2>1, <2>2, <2>3, <2>4, <2>5, <2>6 DEF Closing
<1>6. ASSUME NEW t \in Victims, Kill(t) PROVE CallsRefer'
  BY <1>6, PipeAssumption DEF Kill
<1>7. CASE UNCHANGED vars
  BY <1>7 DEF vars
<1> QED
  BY <1>1, <1>2, <1>3, <1>4, <1>5, <1>6, <1>7 DEF Next

LEMMA KeepToEndStep ==
  ASSUME TypeOK, KeepToEnd, [Next]_vars
  PROVE  KeepToEnd'
<1> USE Constants DEF TypeOK, FileTypes, KeepToEnd, Reads, Writes, Goto
<1>1. ASSUME NEW t \in Readers, Reading(t) PROVE KeepToEnd'
  BY <1>1 DEF Reading, ReadSome, ReadNothing, ReadWaits, ReadSleeps, ReadBumps, ReadNotifies,
     WakeAll
<1>2. ASSUME NEW t \in Readers, NEW n \in Sizes, NEW nb \in BOOLEAN, Read(t, n, nb)
      PROVE  KeepToEnd'
  BY <1>2 DEF Read
<1>3. ASSUME NEW t \in Writers, Writing(t) PROVE KeepToEnd'
  BY <1>3 DEF Writing, WriteSome, WriteBroken, WriteBumps, WriteNotifies, WriteSleeps, WakeAll
<1>4. ASSUME NEW t \in Writers, NEW s \in Messages, NEW nb \in BOOLEAN, Write(t, s, nb)
      PROVE  KeepToEnd'
  BY <1>4 DEF Write
<1>5. ASSUME NEW t \in Threads, Closing(t) \/ CloseFd(t) PROVE KeepToEnd'
  <2>1. CASE Return(t)
    BY <2>1 DEF Return
  <2>2. CASE Finish(t)
    BY <2>2 DEF Finish
  <2>3. CASE CloseFd(t)
    BY <2>3 DEF CloseFd
  <2>4. CASE CloseBumps(t)
    BY <2>4 DEF CloseBumps
  <2>5. CASE CloseNotifies(t)
    BY <2>5 DEF CloseNotifies, WakeAll
  <2>6. CASE Drop(t)
    BY <2>6 DEF Drop, DropLast
  <2> QED
    BY <1>5, <2>1, <2>2, <2>3, <2>4, <2>5, <2>6 DEF Closing
<1>6. ASSUME NEW t \in Victims, Kill(t) PROVE KeepToEnd'
  BY <1>6, PipeAssumption DEF Kill
<1>7. CASE UNCHANGED vars
  BY <1>7 DEF vars
<1> QED
  BY <1>1, <1>2, <1>3, <1>4, <1>5, <1>6, <1>7 DEF Next

LEMMA PendingStep ==
  ASSUME TypeOK, KeepToEnd, Pending, [Next]_vars
  PROVE  Pending'
<1> USE DEF Pending, Goto
<1>0. /\ pc \in [Threads -> PC] /\ src \in [Writers -> Messages \cup {<<>>}]
      /\ done \in [Writers -> Nat]
      /\ \A u \in Writers: Len(src[u]) \in Nat /\ done[u] <= Len(src[u])
  BY SrcSeq DEF TypeOK, FileTypes, CallTypes
<1>1. ASSUME NEW t \in Readers, Reading(t) PROVE Pending'
  BY <1>0, <1>1, Constants DEF Reading, ReadSome, ReadNothing, ReadWaits, ReadSleeps, ReadBumps,
     ReadNotifies, WakeAll
<1>2. ASSUME NEW t \in Readers, NEW n \in Sizes, NEW nb \in BOOLEAN, Read(t, n, nb)
      PROVE  Pending'
  BY <1>0, <1>2, Constants DEF Read
<1>3. ASSUME NEW t \in Writers, Writing(t) PROVE Pending'
  <2>1. CASE WriteSome(t)
    <3>1. PICK n \in Nat: /\ n = Least(Len(src[t]) - done[t], Cap - len)
                          /\ done' = [done EXCEPT ![t] = @ + n]
      BY <2>1, RingWritten
    <3>2. pc[t] = "wtry" /\ src' = src /\
          pc' = [pc EXCEPT ![t] = IF done[t] + n > 0 THEN "wbump"
                                  ELSE IF nonblock[t] THEN "drop" ELSE "wsleep"]
      BY <2>1, <3>1 DEF WriteSome
    <3> QED
      BY <1>0, <3>1, <3>2
  <2>2. CASE WriteBroken(t)
    BY <1>0, <2>2 DEF WriteBroken
  <2>3. CASE WriteBumps(t)
    BY <1>0, <2>3 DEF WriteBumps
  <2>4. CASE WriteNotifies(t)
    BY <1>0, <2>4, Constants DEF WriteNotifies, WakeAll, WriteReturns
  <2>5. CASE WriteSleeps(t)
    BY <1>0, <2>5 DEF WriteSleeps
  <2> QED
    BY <1>3, <2>1, <2>2, <2>3, <2>4, <2>5 DEF Writing
<1>4. ASSUME NEW t \in Writers, NEW s \in Messages, NEW nb \in BOOLEAN, Write(t, s, nb)
      PROVE  Pending'
  <2>1. s \in Seq(Byte) /\ s # <<>>
    BY Constants
  <2>2. Len(s) \in Nat /\ Len(s) > 0
    BY <2>1, EmptySeq, LenProperties
  <2> QED
    BY <1>0, <1>4, <2>2 DEF Write
<1>5. ASSUME NEW t \in Threads, Closing(t) \/ CloseFd(t) PROVE Pending'
  <2>1. CASE Return(t)
    BY <1>0, <2>1 DEF Return, CallOver
  <2>2. CASE Finish(t)
    BY <1>0, <2>2 DEF Finish
  <2>3. CASE CloseFd(t)
    BY <1>0, <2>3 DEF CloseFd
  <2>4. CASE CloseBumps(t)
    BY <1>0, <2>4 DEF CloseBumps
  <2>5. CASE CloseNotifies(t)
    BY <1>0, <2>5, Constants DEF CloseNotifies, WakeAll
  <2>6. CASE Drop(t)
    BY <1>0, <2>6 DEF Drop, DropLast
  <2> QED
    BY <1>5, <2>1, <2>2, <2>3, <2>4, <2>5, <2>6 DEF Closing
<1>6. ASSUME NEW t \in Victims, Kill(t) PROVE Pending'
  BY <1>0, <1>6, PipeAssumption DEF Kill, CallOver
<1>7. CASE UNCHANGED vars
  BY <1>0, <1>7 DEF vars
<1> QED
  BY <1>1, <1>2, <1>3, <1>4, <1>5, <1>6, <1>7 DEF Next

\* Only dropping a descriptor changes who refers to an end.
LEMMA HoldersKept ==
  ASSUME TypeOK, CallsRefer, CallsRefer', [Next]_vars, NEW end \in {Readers, Writers}
  PROVE  \/ Holders(end)' = Holders(end)
         \/ \E t \in Threads: Drop(t)
<1> USE DEF TypeOK, FileTypes, CallsRefer, Calling, Referring, Goto, Holders, Leaked
<1>1. ASSUME NEW t \in Readers, Reading(t) PROVE Holders(end)' = Holders(end)
  BY <1>1 DEF Reading, ReadSome, ReadNothing, ReadWaits, ReadSleeps, ReadBumps, ReadNotifies,
     WakeAll
<1>2. ASSUME NEW t \in Readers, NEW n \in Sizes, NEW nb \in BOOLEAN, Read(t, n, nb)
      PROVE  Holders(end)' = Holders(end)
  BY <1>2 DEF Read
<1>3. ASSUME NEW t \in Writers, Writing(t) PROVE Holders(end)' = Holders(end)
  BY <1>3 DEF Writing, WriteSome, WriteBroken, WriteBumps, WriteNotifies, WriteSleeps, WakeAll
<1>4. ASSUME NEW t \in Writers, NEW s \in Messages, NEW nb \in BOOLEAN, Write(t, s, nb)
      PROVE  Holders(end)' = Holders(end)
  BY <1>4 DEF Write
<1>5. ASSUME NEW t \in Threads,
             Return(t) \/ CloseBumps(t) \/ CloseNotifies(t) \/ CloseFd(t) \/ Finish(t)
      PROVE  Holders(end)' = Holders(end)
  <2>1. CASE Return(t) \/ CloseBumps(t) \/ CloseNotifies(t)
    BY <2>1 DEF Return, CloseBumps, CloseNotifies, WakeAll
  <2>2. CASE CloseFd(t)
    BY <2>2 DEF CloseFd
  <2>3. CASE Finish(t)
    BY <2>3 DEF Finish
  <2> QED
    BY <1>5, <2>1, <2>2, <2>3
<1>6. ASSUME NEW t \in Victims, Kill(t) PROVE Holders(end)' = Holders(end)
  <2>1. "reference" \in Loss(pc[t]) <=> pc[t] \in Referring
    BY DEF Loss
  <2> QED
    BY <1>6, <2>1, PipeAssumption DEF Kill
<1>7. CASE UNCHANGED vars
  BY <1>7 DEF vars
<1> QED
  BY <1>1, <1>2, <1>3, <1>4, <1>5, <1>6, <1>7 DEF Next, Closing

\* Who refers to the ends when a descriptor was dropped.
LEMMA HoldersDropped ==
  ASSUME TypeOK, CallsRefer, NEW t \in Threads, Drop(t)
  PROVE  \E refs:
           /\ DropLast(t, refs)
           /\ Holders(End(t))' = refs /\ t \in Holders(End(t))
           /\ \A end \in {Readers, Writers} \ {End(t)}: Holders(end)' = Holders(end)
<1> USE DEF TypeOK, FileTypes, CallsRefer, Calling, Referring, Goto, Leaked
<1> DEFINE refs == {u \in Holders(End(t)) : u # t \/ Leaked(u)}
<1>1. DropLast(t, refs) /\ pc[t] = "closing" /\ pc'[t] \in {"cbump", "gone"} /\ ~fd[t]
  BY DEF Drop, DropLast
<1>2. UNCHANGED <<fd, lost>> /\ \A u \in Threads \ {t}: pc'[u] = pc[u]
  BY DEF Drop, DropLast
<1>3. Holders(End(t))' = refs /\ t \in Holders(End(t))
  BY <1>1, <1>2, Constants DEF Holders, End
<1>4. \A end \in {Readers, Writers} \ {End(t)}: Holders(end)' = Holders(end)
  BY <1>1, <1>2, Constants DEF Holders, End
<1> QED
  BY <1>1, <1>3, <1>4

LEMMA OpenWhileReferredStep ==
  ASSUME TypeOK, CallsRefer, CallsRefer', OpenWhileReferred, [Next]_vars
  PROVE  OpenWhileReferred'
<1>1. ASSUME NEW t \in Threads, Drop(t) PROVE OpenWhileReferred'
  <2>1. PICK refs:
          /\ DropLast(t, refs)
          /\ Holders(End(t))' = refs /\ t \in Holders(End(t))
          /\ \A end \in {Readers, Writers} \ {End(t)}: Holders(end)' = Holders(end)
    BY <1>1, HoldersDropped
  <2>2. CASE t \in Readers
    <3>1. End(t) = Readers /\ Writers # Readers
      BY <2>2, Constants DEF End
    <3> QED
      BY <2>1, <2>2, <3>1 DEF OpenWhileReferred, EndOpen, DropLast
  <2>3. CASE t \notin Readers
    <3>1. End(t) = Writers /\ Writers # Readers
      BY <2>3, Constants DEF End
    <3> QED
      BY <2>1, <2>3, <3>1 DEF OpenWhileReferred, EndOpen, DropLast
  <2> QED
    BY <2>2, <2>3
<1>2. CASE ~ \E t \in Threads: Drop(t)
  <2>1. Holders(Readers)' = Holders(Readers) /\ Holders(Writers)' = Holders(Writers)
    BY <1>2, HoldersKept
  <2>2. UNCHANGED <<readers, writers>>
    BY <1>2 DEF Next, Reading, ReadSome, ReadNothing, ReadWaits, ReadSleeps, ReadBumps,
       ReadNotifies, Read, Writing, WriteSome, WriteBroken, WriteBumps, WriteNotifies,
       WriteSleeps, Write, Closing, Return, CloseFd, Finish, CloseBumps, CloseNotifies, Kill, vars
  <2> QED
    BY <2>1, <2>2 DEF OpenWhileReferred, EndOpen
<1> QED
  BY <1>1, <1>2

-----------------------------------------------------------------------------
\* No wake-up is lost.

LEMMA ReaderCoveredStep ==
  ASSUME TypeOK, CallsRefer, KeepToEnd, ReaderCovered, [Next]_vars
  PROVE  ReaderCovered'
<1> USE Constants DEF FileTypes, KeepToEnd, Reads, Writes, ReaderCovered, Bumps, Notifies, Wakes,
        Owing, Goto
<1>0. FileTypes /\ len \in Nat
  BY DEF TypeOK, RingTypes
<1>1. ASSUME NEW t \in Readers, Reading(t) PROVE ReaderCovered'
  <2>1. CASE ReadSome(t)
    <3>1. len > 0 /\ UNCHANGED <<writers, fresh, lost>> /\ pc' = [pc EXCEPT ![t] = "rbump"]
      BY <2>1 DEF ReadSome
    <3> QED
      BY <1>0, <3>1
  <2>2. CASE ReadNothing(t)
    BY <1>0, <2>2 DEF ReadNothing
  <2>3. CASE ReadWaits(t)
    BY <1>0, <2>3 DEF ReadWaits
  <2>4. CASE ReadSleeps(t)
    BY <1>0, <2>4 DEF ReadSleeps
  <2>5. CASE ReadBumps(t)
    BY <1>0, <2>5 DEF ReadBumps, Bump
  <2>6. CASE ReadNotifies(t)
    BY <1>0, <2>6 DEF ReadNotifies, WakeAll
  <2> QED
    BY <1>1, <2>1, <2>2, <2>3, <2>4, <2>5, <2>6 DEF Reading
<1>2. ASSUME NEW t \in Readers, NEW n \in Sizes, NEW nb \in BOOLEAN, Read(t, n, nb)
      PROVE  ReaderCovered'
  BY <1>0, <1>2 DEF Read
<1>3. ASSUME NEW t \in Writers, Writing(t) PROVE ReaderCovered'
  <2>1. CASE WriteSome(t)
    <3>1. PICK n \in Nat: len' = len + n /\ done' = [done EXCEPT ![t] = @ + n]
                          /\ n = Least(Len(src[t]) - done[t], Cap - len)
      BY <2>1, RingWritten
    <3>2. /\ pc[t] = "wtry" /\ UNCHANGED <<writers, lost>>
          /\ fresh' = [fresh EXCEPT ![t] = TRUE]
          /\ pc' = [pc EXCEPT ![t] = IF done[t] + n > 0 THEN "wbump"
                                     ELSE IF nonblock[t] THEN "drop" ELSE "wsleep"]
      BY <2>1, <3>1 DEF WriteSome
    <3>3. done[t] \in Nat
      BY SrcSeq
    <3>4. CASE n = 0
      <4>0. len' = len
        BY <1>0, <3>1, <3>4
      <4>1. \A u \in Readers: pc'[u] = pc[u] /\ fresh'[u] = fresh[u]
        BY <1>0, <3>2
      <4>2. Bumps(Writers) => Bumps(Writers)'
        BY <1>0, <3>2
      <4>3. Notifies(Writers) => Notifies(Writers)'
        BY <1>0, <3>2
      <4> QED
        BY <3>2, <4>0, <4>1, <4>2, <4>3
    <3>5. CASE n > 0
      <4>1. pc'[t] = "wbump"
        BY <1>0, <3>2, <3>3, <3>5
      <4> QED
        BY <4>1
    <3> QED
      BY <3>4, <3>5
  <2>2. CASE WriteBroken(t)
    BY <1>0, <2>2 DEF WriteBroken
  <2>3. CASE WriteBumps(t)
    BY <1>0, <2>3 DEF WriteBumps, Bump
  <2>4. CASE WriteNotifies(t)
    BY <1>0, <2>4 DEF WriteNotifies, WakeAll
  <2>5. CASE WriteSleeps(t)
    BY <1>0, <2>5 DEF WriteSleeps
  <2> QED
    BY <1>3, <2>1, <2>2, <2>3, <2>4, <2>5 DEF Writing
<1>4. ASSUME NEW t \in Writers, NEW s \in Messages, NEW nb \in BOOLEAN, Write(t, s, nb)
      PROVE  ReaderCovered'
  BY <1>0, <1>4 DEF Write
<1>5. ASSUME NEW t \in Threads, Closing(t) \/ CloseFd(t) PROVE ReaderCovered'
  <2>1. CASE Return(t)
    BY <1>0, <2>1 DEF Return, CallOver
  <2>2. CASE Finish(t)
    BY <1>0, <2>2 DEF Finish
  <2>3. CASE CloseFd(t)
    BY <1>0, <2>3 DEF CloseFd
  <2>4. CASE CloseBumps(t)
    BY <1>0, <2>4 DEF CloseBumps, Bump, End
  <2>5. CASE CloseNotifies(t)
    BY <1>0, <2>5 DEF CloseNotifies, WakeAll
  <2>6. CASE Drop(t)
    BY <1>0, <2>6 DEF Drop, DropLast
  <2> QED
    BY <1>5, <2>1, <2>2, <2>3, <2>4, <2>5, <2>6 DEF Closing
<1>6. ASSUME NEW t \in Victims, Kill(t) PROVE ReaderCovered'
  <2>1. pc[t] \in Owing => "wake-up" \in Loss(pc[t])
    BY DEF Loss
  <2>2. (Bumps(Writers) => Bumps(Writers)') /\ (Notifies(Writers) => Notifies(Writers)')
    BY <1>0, <1>6, <2>1, PipeAssumption DEF Kill
  <2>3. /\ UNCHANGED <<len, writers, fresh>>
        /\ \A u \in Readers: pc'[u] \in {"rsleep", "rasleep"} => pc'[u] = pc[u]
    BY <1>0, <1>6 DEF Kill
  <2> HIDE DEF Bumps, Notifies
  <2> QED
    BY <2>2, <2>3
<1>7. CASE UNCHANGED vars
  BY <1>7 DEF vars
<1> QED
  BY <1>1, <1>2, <1>3, <1>4, <1>5, <1>6, <1>7 DEF Next

LEMMA WriterCoveredStep ==
  ASSUME TypeOK, CallsRefer, KeepToEnd, Pending, WriterCovered, [Next]_vars
  PROVE  WriterCovered'
<1> USE Constants DEF FileTypes, KeepToEnd, Reads, Writes, WriterCovered, WillSleep, Bumps, Notifies,
        Wakes, Owing, Goto
<1>0. /\ FileTypes /\ len \in Nat
      /\ \A u \in Writers: Len(src[u]) \in Nat /\ done[u] \in Nat /\ done[u] <= Len(src[u])
      /\ done \in [Writers -> Nat]
  BY SrcSeq DEF TypeOK, RingTypes, CallTypes
<1>1. ASSUME NEW t \in Readers, Reading(t) PROVE WriterCovered'
  <2>1. CASE ReadSome(t)
    <3>1. pc'[t] = "rbump"
      BY <1>0, <2>1 DEF ReadSome
    <3> QED
      BY <3>1
  <2>2. CASE ReadNothing(t)
    BY <1>0, <2>2 DEF ReadNothing, WriteReturns
  <2>3. CASE ReadWaits(t)
    BY <1>0, <2>3 DEF ReadWaits, WriteReturns
  <2>4. CASE ReadSleeps(t)
    BY <1>0, <2>4 DEF ReadSleeps, WriteReturns
  <2>5. CASE ReadBumps(t)
    BY <1>0, <2>5 DEF ReadBumps, Bump
  <2>6. CASE ReadNotifies(t)
    BY <1>0, <2>6 DEF ReadNotifies, WakeAll, WriteReturns
  <2> QED
    BY <1>1, <2>1, <2>2, <2>3, <2>4, <2>5, <2>6 DEF Reading
<1>2. ASSUME NEW t \in Readers, NEW n \in Sizes, NEW nb \in BOOLEAN, Read(t, n, nb)
      PROVE  WriterCovered'
  <2>1. \A u \in Writers: WriteReturns(u, done[u])' = WriteReturns(u, done[u])
    BY <1>0, <1>2 DEF Read, WriteReturns, TypeOK, CallTypes
  <2> QED
    BY <1>0, <1>2, <2>1 DEF Read
<1>3. ASSUME NEW t \in Writers, Writing(t) PROVE WriterCovered'
  <2>1. CASE WriteSome(t)
    <3>1. PICK n \in Nat: /\ len' = len + n /\ done' = [done EXCEPT ![t] = @ + n]
                          /\ n = Least(Len(src[t]) - done[t], Cap - len)
                          /\ n <= Cap - len
                          /\ n = Len(src[t]) - done[t] \/ n = Cap - len
      BY <2>1, RingWritten
    <3>2. /\ pc[t] = "wtry" /\ UNCHANGED <<src, nonblock, readers, lost>> /\ readers # 0
          /\ fresh' = [fresh EXCEPT ![t] = TRUE]
          /\ pc' = [pc EXCEPT ![t] = IF done[t] + n > 0 THEN "wbump"
                                     ELSE IF nonblock[t] THEN "drop" ELSE "wsleep"]
      BY <2>1, <3>1 DEF WriteSome
    <3>3. WillSleep(t)' => len' = Cap
      <4>1. done'[t] = done[t] + n /\ Len(src'[t]) = Len(src[t]) /\ done[t] < Len(src[t])
        BY <1>0, <3>1, <3>2 DEF Pending
      <4>2. CASE done[t] + n = 0
        BY <1>0, <3>1, <4>1, <4>2
      <4>3. CASE done[t] + n > 0
        <5>1. pc'[t] = "wbump"
          BY <1>0, <3>2, <4>3
        <5>2. WillSleep(t)' => done[t] + n # Len(src[t])
          BY <4>1, <5>1 DEF WriteReturns
        <5> QED
          BY <1>0, <3>1, <5>2
      <4> QED
        BY <1>0, <4>2, <4>3
    <3>4. pc'[t] # "wasleep"
      BY <1>0, <3>2
    <3>5. ASSUME NEW u \in Writers \ {t}
          PROVE  /\ pc'[u] = pc[u] /\ fresh'[u] = fresh[u] /\ done'[u] = done[u]
                 /\ WillSleep(u)' = WillSleep(u)
      BY <1>0, <3>1, <3>2 DEF WriteReturns
    <3>6. Bumps(Readers)' = Bumps(Readers) /\ Notifies(Readers)' = Notifies(Readers)
      BY <1>0, <3>2
    <3>7. len' < Cap => len < Cap
      BY <1>0, <3>1
    <3> HIDE DEF WillSleep, Bumps, Notifies
    <3> QED
      BY <3>2, <3>3, <3>4, <3>5, <3>6, <3>7, SMTT(30)
  <2>2. CASE WriteBroken(t)
    <3>1. /\ pc' = [pc EXCEPT ![t] = "drop"] /\ UNCHANGED <<len, readers, nonblock, fresh, lost>>
          /\ \A u \in Writers \ {t}: src'[u] = src[u] /\ done'[u] = done[u]
      BY <1>0, <2>2 DEF WriteBroken, TypeOK, CallTypes
    <3>2. \A u \in Writers \ {t}: WillSleep(u)' = WillSleep(u)
      BY <1>0, <3>1 DEF WriteReturns
    <3>3. ~WillSleep(t)' /\ pc'[t] # "wasleep"
      BY <1>0, <3>1
    <3>4. Bumps(Readers)' = Bumps(Readers) /\ Notifies(Readers)' = Notifies(Readers)
      BY <1>0, <3>1
    <3> HIDE DEF WillSleep, Bumps, Notifies
    <3> QED
      BY <1>0, <3>1, <3>2, <3>3, <3>4
  <2>3. CASE WriteBumps(t)
    BY <1>0, <2>3 DEF WriteBumps, Bump, WriteReturns
  <2>4. CASE WriteNotifies(t)
    BY <1>0, <2>4 DEF WriteNotifies, WakeAll, WriteReturns
  <2>5. CASE WriteSleeps(t)
    BY <1>0, <2>5 DEF WriteSleeps, WriteReturns
  <2> QED
    BY <1>3, <2>1, <2>2, <2>3, <2>4, <2>5 DEF Writing
<1>4. ASSUME NEW t \in Writers, NEW s \in Messages, NEW nb \in BOOLEAN, Write(t, s, nb)
      PROVE  WriterCovered'
  <2>1. \A u \in Writers \ {t}: WriteReturns(u, done[u])' = WriteReturns(u, done[u])
    BY <1>0, <1>4 DEF Write, WriteReturns, TypeOK, CallTypes
  <2> QED
    BY <1>0, <1>4, <2>1 DEF Write
<1>5. ASSUME NEW t \in Threads, Closing(t) \/ CloseFd(t) PROVE WriterCovered'
  <2>1. CASE Return(t)
    <3>1. \A u \in Writers \ {t}: WriteReturns(u, done[u])' = WriteReturns(u, done[u])
      BY <1>0, <2>1 DEF Return, CallOver, WriteReturns, TypeOK, CallTypes
    <3> QED
      BY <1>0, <2>1, <3>1 DEF Return
  <2>2. CASE Finish(t)
    BY <1>0, <2>2 DEF Finish, WriteReturns
  <2>3. CASE CloseFd(t)
    BY <1>0, <2>3 DEF CloseFd, WriteReturns
  <2>4. CASE CloseBumps(t)
    BY <1>0, <2>4 DEF CloseBumps, Bump, End, WriteReturns
  <2>5. CASE CloseNotifies(t)
    BY <1>0, <2>5 DEF CloseNotifies, WakeAll, WriteReturns
  <2>6. CASE Drop(t)
    BY <1>0, <2>6 DEF Drop, DropLast, WriteReturns
  <2> QED
    BY <1>5, <2>1, <2>2, <2>3, <2>4, <2>5, <2>6 DEF Closing
<1>6. ASSUME NEW t \in Victims, Kill(t) PROVE WriterCovered'
  <2>1. t \in Threads /\ (pc[t] \in Owing => "wake-up" \in Loss(pc[t]))
    BY PipeAssumption DEF Loss
  <2>2. \A u \in Writers: WillSleep(u)' => WillSleep(u)
    <3>1. \A u \in Writers \ {t}: WriteReturns(u, done[u])' = WriteReturns(u, done[u])
      BY <1>0, <1>6 DEF Kill, CallOver, WriteReturns, TypeOK, CallTypes
    <3> QED
      BY <1>0, <1>6, <2>1, <3>1 DEF Kill
  <2>3. \A u \in Writers: pc'[u] = "wasleep" => pc[u] = "wasleep"
    BY <1>0, <1>6 DEF Kill
  <2>4. (Bumps(Readers) => Bumps(Readers)') /\ (Notifies(Readers) => Notifies(Readers)')
    BY <1>0, <1>6, <2>1 DEF Kill
  <2>5. UNCHANGED <<len, readers, fresh>>
    BY <1>6 DEF Kill
  <2> HIDE DEF WillSleep, Bumps, Notifies
  <2> QED
    BY <2>2, <2>3, <2>4, <2>5
<1>7. CASE UNCHANGED vars
  BY <1>7 DEF vars, WriteReturns
<1> QED
  BY <1>1, <1>2, <1>3, <1>4, <1>5, <1>6, <1>7 DEF Next

\* The invariant is inductive.
THEOREM InvCorrect == Spec => [](TypeOK /\ IInv)
<1>1. TypeOK /\ IInv /\ [Next]_vars => TypeOK' /\ IInv'
  <2> SUFFICES ASSUME TypeOK, IInv, [Next]_vars PROVE TypeOK' /\ IInv'
    OBVIOUS
  <2>1. TypeOK' /\ CallsRefer' /\ KeepToEnd'
    BY TypeStep, CallsReferStep, KeepToEndStep DEF IInv
  <2>2. OpenWhileReferred' /\ Pending'
    BY <2>1, OpenWhileReferredStep, PendingStep DEF IInv
  <2>3. ReaderCovered' /\ WriterCovered'
    BY ReaderCoveredStep, WriterCoveredStep DEF IInv
  <2> QED
    BY <2>1, <2>2, <2>3 DEF IInv
<1> QED
  BY TypeInit, InvInit, <1>1, PTL DEF Spec

\* An end is open exactly while a descriptor, a call or a dead worker's stack
\* refers to it: the closing of one end is neither early nor missed.
THEOREM OpenCorrect == Spec => []OpenWhileReferred
<1>1. IInv => OpenWhileReferred
  BY DEF IInv
<1> QED
  BY InvCorrect, <1>1, PTL

\* Nobody sleeps through the event it waits for, unless whoever should have woken
\* it was killed between the event and the wake-up.
THEOREM NoLostWakeupCorrect == Spec => []NoLostWakeup
<1>1. IInv => NoLostWakeup
  BY DEF IInv, ReaderCovered, WriterCovered, Notifies, NoLostWakeup
<1> QED
  BY InvCorrect, <1>1, PTL

-----------------------------------------------------------------------------
\* The ring is a FIFO.

LEMMA ContentsSeq ==
  ASSUME TypeOK
  PROVE  /\ Contents \in Seq(Byte) /\ Len(Contents) = len
         /\ \A i \in 1..len: Contents[i] = buf[(head + i - 1) % Cap]
<1>1. /\ len \in Nat /\ head \in Int /\ buf \in [0..Cap - 1 -> Byte]
  BY Constants DEF TypeOK, RingTypes
<1>2. ASSUME NEW i \in 1..len PROVE buf[(head + i - 1) % Cap] \in Byte
  <2>1. head + i - 1 \in Int
    BY <1>1
  <2>2. (head + i - 1) % Cap \in 0..Cap - 1
    BY <2>1, ModRange
  <2> QED
    BY <1>1, <2>2
<1>3. Contents \in Seq(Byte)
  BY <1>1, <1>2, IsASeq DEF Contents
<1>4. DOMAIN Contents = 1..len /\ \A i \in 1..len: Contents[i] = buf[(head + i - 1) % Cap]
  BY DEF Contents
<1>5. Len(Contents) = len
  BY <1>1, <1>3, <1>4
<1> QED
  BY <1>3, <1>4, <1>5

\* What a suffix of a sequence is.
LEMMA Suffix ==
  ASSUME NEW s, NEW l \in Nat, NEW m \in 0..l, \A i \in m + 1..l: s[i] \in Byte
  PROVE  /\ SubSeq(s, m + 1, l) \in Seq(Byte) /\ Len(SubSeq(s, m + 1, l)) = l - m
         /\ \A i \in 1..l - m: SubSeq(s, m + 1, l)[i] = s[m + i]
<1> DEFINE r == SubSeq(s, m + 1, l)
<1>1. /\ r \in Seq(Byte)
      /\ Len(r) = IF m + 1 <= l THEN l - (m + 1) + 1 ELSE 0
      /\ \A i \in 1..l - (m + 1) + 1: r[i] = s[(m + 1) + i - 1]
  BY SubSeqProperties
<1> HIDE DEF r
<1>2. Len(r) = l - m
  BY <1>1
<1>3. ASSUME NEW i \in 1..l - m PROVE r[i] = s[m + i]
  <2>1. i \in 1..l - (m + 1) + 1 /\ (m + 1) + i - 1 = m + i
    OBVIOUS
  <2> QED
    BY <1>1, <2>1
<1> QED
  BY <1>1, <1>2, <1>3 DEF r

Listed ==
  /\ Contents \in Seq(Byte) /\ Len(Contents) = len
  /\ \A i \in 1..len: Contents[i] = buf[(head + i - 1) % Cap]

LEMMA ListedNow == TypeOK => Listed
BY ContentsSeq DEF Listed

LEMMA ListedNext == TypeOK' => Listed'
BY ListedNow, PTL

LEMMA TodoSeq ==
  ASSUME TypeOK, NEW t \in Writers
  PROVE  /\ Todo[t] = SubSeq(src[t], done[t] + 1, Len(src[t]))
         /\ Todo[t] \in Seq(Byte) /\ Len(Todo[t]) = Len(src[t]) - done[t]
         /\ \A i \in 1..Len(src[t]) - done[t]: Todo[t][i] = src[t][done[t] + i]
<1>1. Todo[t] = SubSeq(src[t], done[t] + 1, Len(src[t]))
  BY DEF Todo
<1>2. /\ src[t] \in Seq(Byte) /\ Len(src[t]) \in Nat /\ done[t] \in 0..Len(src[t])
  BY SrcSeq
<1>3. \A i \in done[t] + 1..Len(src[t]): src[t][i] \in Byte
  BY <1>2
<1> DEFINE r == SubSeq(src[t], done[t] + 1, Len(src[t]))
<1>4. /\ r \in Seq(Byte) /\ Len(r) = Len(src[t]) - done[t]
      /\ \A i \in 1..Len(src[t]) - done[t]: r[i] = src[t][done[t] + i]
  BY <1>2, <1>3, Suffix
<1>5. Todo[t] = r
  BY <1>1
<1> HIDE DEF r
<1> QED
  BY <1>1, <1>4, <1>5

\* What is left of a sequence after two prefixes of it.
LEMMA LeftOver ==
  ASSUME NEW s \in Seq(Byte), NEW m \in Nat, NEW n \in Nat, m + n <= Len(s)
  PROVE  SubSeq(SubSeq(s, m + 1, Len(s)), n + 1, Len(s) - m) = SubSeq(s, m + n + 1, Len(s))
<1> DEFINE l == Len(s)
           r == SubSeq(s, m + 1, l)
           a == SubSeq(r, n + 1, l - m)
           b == SubSeq(s, m + n + 1, l)
<1>1. l \in Nat /\ \A i \in 1..l: s[i] \in Byte
  BY LenProperties
<1> HIDE DEF l
<1>2. m + n <= l
  BY DEF l
<1>3. Len(r) = l - m /\ \A i \in 1..l - m: r[i] = s[m + i]
  BY <1>1, <1>2, Suffix
<1> HIDE DEF r
<1>4. \A i \in 1..l - m: r[i] \in Byte
  <2> TAKE i \in 1..l - m
  <2>1. m + i \in 1..l
    BY <1>1, <1>2
  <2> QED
    BY <1>1, <1>3, <2>1
<1>5. a \in Seq(Byte) /\ Len(a) = (l - m) - n /\ \A i \in 1..(l - m) - n: a[i] = r[n + i]
  BY <1>1, <1>2, <1>4, Suffix
<1>6. b \in Seq(Byte) /\ Len(b) = l - (m + n) /\ \A i \in 1..l - (m + n): b[i] = s[(m + n) + i]
  BY <1>1, <1>2, Suffix
<1> HIDE DEF a, b
<1>7. ASSUME NEW i \in 1..Len(a) PROVE a[i] = b[i]
  <2>1. /\ i \in 1..(l - m) - n /\ i \in 1..l - (m + n)
        /\ n + i \in 1..l - m /\ m + (n + i) = (m + n) + i
    BY <1>1, <1>2, <1>5
  <2> QED
    BY <1>3, <1>5, <1>6, <2>1
<1>8. Len(a) = Len(b)
  BY <1>1, <1>5, <1>6
<1>9. a = b
  BY <1>5, <1>6, <1>7, <1>8, SeqEqual
<1> QED
  BY <1>9 DEF a, b, r, l

\* Where a slot of the ring lies behind its tail.
LEMMA Offset ==
  ASSUME NEW h \in 0..Cap - 1, NEW l \in 0..Cap, NEW i \in 1..Cap
  PROVE  (((h + i - 1) % Cap) - ((h + l) % Cap)) % Cap
           = IF i > l THEN i - 1 - l ELSE i - 1 - l + Cap
<1> DEFINE x == (h + i - 1) % Cap
           y == (h + l) % Cap
<1>1. x = IF h + i - 1 < Cap THEN h + i - 1 ELSE h + i - 1 - Cap
  <2> DEFINE z == h + i - 1
  <2>1. z \in Int /\ z >= 0 /\ z >= 0 - Cap /\ z < Cap + Cap
    BY Constants
  <2> HIDE DEF z
  <2>2. z % Cap = IF z < Cap THEN z ELSE z - Cap
    BY <2>1, ModOnce
  <2> QED
    BY <2>2, Constants DEF z
<1>2. y = IF h + l < Cap THEN h + l ELSE h + l - Cap
  <2> DEFINE z == h + l
  <2>1. z \in Int /\ z >= 0 /\ z >= 0 - Cap /\ z < Cap + Cap
    BY Constants
  <2> HIDE DEF z
  <2>2. z % Cap = IF z < Cap THEN z ELSE z - Cap
    BY <2>1, ModOnce
  <2> QED
    BY <2>2, Constants DEF z
<1> HIDE DEF x, y
<1>3. x - y \in Int /\ x - y >= 0 - Cap /\ x - y < Cap + Cap
  BY <1>1, <1>2, Constants
<1>4. (x - y) % Cap = IF x - y < 0 THEN x - y + Cap ELSE IF x - y < Cap THEN x - y ELSE x - y - Cap
  BY <1>3, ModOnce
<1>5. (x - y) % Cap = IF i > l THEN i - 1 - l ELSE i - 1 - l + Cap
  BY <1>1, <1>2, <1>4, Constants
<1>6. (((h + i - 1) % Cap) - ((h + l) % Cap)) % Cap = (x - y) % Cap
  BY DEF x, y
<1> QED
  BY <1>5, <1>6

\* Where a slot lies after the head has moved.
LEMMA Moved ==
  ASSUME NEW h \in 0..Cap - 1, NEW n \in 0..Cap, NEW i \in 1..Cap, n + i <= Cap
  PROVE  (((h + n) % Cap) + i - 1) % Cap = (h + (n + i) - 1) % Cap
<1> DEFINE x == (h + n) % Cap
<1>1. x = IF h + n < Cap THEN h + n ELSE h + n - Cap
  <2> DEFINE z == h + n
  <2>1. z \in Int /\ z >= 0 /\ z >= 0 - Cap /\ z < Cap + Cap
    BY Constants
  <2> HIDE DEF z
  <2>2. z % Cap = IF z < Cap THEN z ELSE z - Cap
    BY <2>1, ModOnce
  <2> QED
    BY <2>2, Constants DEF z
<1> HIDE DEF x
<1>2. (x + i - 1) % Cap = IF x + i - 1 < Cap THEN x + i - 1 ELSE x + i - 1 - Cap
  <2> DEFINE z == x + i - 1
  <2>1. z \in Int /\ z >= 0 /\ z >= 0 - Cap /\ z < Cap + Cap
    BY <1>1, Constants
  <2> HIDE DEF z
  <2>2. z % Cap = IF z < Cap THEN z ELSE z - Cap
    BY <2>1, ModOnce
  <2> QED
    BY <1>1, <2>2, Constants DEF z
<1>3. (h + (n + i) - 1) % Cap = IF h + (n + i) - 1 < Cap THEN h + (n + i) - 1
                                ELSE h + (n + i) - 1 - Cap
  <2> DEFINE z == h + (n + i) - 1
  <2>1. z \in Int /\ z >= 0 /\ z >= 0 - Cap /\ z < Cap + Cap
    BY Constants
  <2> HIDE DEF z
  <2>2. z % Cap = IF z < Cap THEN z ELSE z - Cap
    BY <2>1, ModOnce
  <2> QED
    BY <2>2, Constants DEF z
<1>4. (x + i - 1) % Cap = (h + (n + i) - 1) % Cap
  BY <1>1, <1>2, <1>3, Constants
<1> QED
  BY <1>4 DEF x

\* A write appends what it takes of the message, a read takes a prefix.
LEMMA Enqueued ==
  ASSUME TypeOK, TypeOK', NEW t \in Writers, NEW n \in 0..Len(src[t]) - done[t],
         n <= Cap - len, len' = len + n, head' = head,
         buf' = [i \in 0..Cap - 1 |->
                  LET k == (i - ((head + len) % Cap)) % Cap
                  IN  IF k < n THEN src[t][done[t] + k + 1] ELSE buf[i]]
  PROVE  Contents' = Contents \o SubSeq(Todo[t], 1, n)
<1>0. /\ head \in 0..Cap - 1 /\ len \in 0..Cap /\ n \in Nat
      /\ Len(src[t]) \in Nat /\ done[t] \in Nat
  BY SrcSeq DEF TypeOK, RingTypes
<1>1. /\ Contents \in Seq(Byte) /\ Len(Contents) = len
      /\ \A i \in 1..len: Contents[i] = buf[(head + i - 1) % Cap]
  BY ContentsSeq
<1>2. /\ Contents' \in Seq(Byte) /\ Len(Contents') = len + n
      /\ \A i \in 1..len + n: Contents'[i] = buf'[(head + i - 1) % Cap]
  BY ListedNext DEF Listed
<1> DEFINE part == SubSeq(Todo[t], 1, n)
<1>3. /\ part \in Seq(Byte) /\ Len(part) = n
      /\ \A i \in 1..n: part[i] = src[t][done[t] + i]
  <2>1. /\ Todo[t] \in Seq(Byte) /\ Len(Todo[t]) = Len(src[t]) - done[t]
        /\ \A i \in 1..Len(src[t]) - done[t]: Todo[t][i] = src[t][done[t] + i]
    BY TodoSeq
  <2>2. \A i \in 1..n: Todo[t][i] \in Byte
    BY <1>0, <2>1
  <2>3. /\ part \in Seq(Byte) /\ Len(part) = IF 1 <= n THEN n - 1 + 1 ELSE 0
        /\ \A i \in 1..n - 1 + 1: part[i] = Todo[t][1 + i - 1]
    BY <1>0, <2>2, SubSeqProperties
  <2> HIDE DEF part
  <2>4. Len(part) = n
    BY <1>0, <2>3
  <2>5. ASSUME NEW i \in 1..n PROVE part[i] = src[t][done[t] + i]
    <3>1. i \in 1..n - 1 + 1 /\ 1 + i - 1 = i /\ i \in 1..Len(src[t]) - done[t]
      BY <1>0
    <3> QED
      BY <2>1, <2>3, <3>1
  <2> QED
    BY <2>3, <2>4, <2>5
<1> HIDE DEF part
<1>4. /\ Contents \o part \in Seq(Byte) /\ Len(Contents \o part) = len + n
      /\ \A i \in 1..len + n: (Contents \o part)[i] =
           IF i <= len THEN Contents[i] ELSE part[i - len]
  <2>1. Contents \in Seq(Byte) /\ part \in Seq(Byte)
    BY <1>1, <1>3
  <2>2. /\ Contents \o part \in Seq(Byte) /\ Len(Contents \o part) = Len(Contents) + Len(part)
        /\ \A i \in 1..Len(Contents) + Len(part): (Contents \o part)[i] =
             IF i <= Len(Contents) THEN Contents[i] ELSE part[i - Len(Contents)]
    BY ONLY <2>1, ConcatProperties, ZenonT(40)
  <2>3. Len(Contents) = len /\ Len(part) = n
    BY <1>1, <1>3
  <2> QED
    BY ONLY <2>2, <2>3, ZenonT(40)
<1>5. ASSUME NEW i \in 1..len + n PROVE Contents'[i] = (Contents \o part)[i]
  <2> DEFINE j == (head + i - 1) % Cap
             y == (head + len) % Cap
             k == (j - y) % Cap
  <2>1. i \in 1..Cap
    BY <1>0, Constants
  <2>2. k = IF i > len THEN i - 1 - len ELSE i - 1 - len + Cap
    BY <1>0, <2>1, Offset
  <2>3. j \in 0..Cap - 1
    <3>1. head + i - 1 \in Int
      BY <1>0
    <3> QED
      BY <3>1, ModRange
  <2>4. buf'[j] = IF k < n THEN src[t][done[t] + k + 1] ELSE buf[j]
    BY <2>3
  <2>5. Contents'[i] = buf'[j]
    BY <1>2
  <2>6. i <= len => Contents[i] = buf[j]
    BY <1>0, <1>1
  <2> HIDE DEF j, k, y
  <2>7. CASE i <= len
    <3>1. ~(k < n)
      BY <1>0, <2>2, <2>7, Constants
    <3> QED
      BY <1>4, <2>4, <2>5, <2>6, <2>7, <3>1
  <2>8. CASE i > len
    <3>1. k = i - 1 - len /\ k < n /\ done[t] + k + 1 = done[t] + (i - len) /\ i - len \in 1..n
      BY <1>0, <2>2, <2>8, Constants, SMTT(30)
    <3>2. Contents'[i] = src[t][done[t] + (i - len)]
      BY <2>4, <2>5, <3>1
    <3>3. part[i - len] = src[t][done[t] + (i - len)]
      BY <1>3, <3>1
    <3>4. ~(i <= len)
      BY <1>0, <2>8
    <3> QED
      BY <1>4, <3>2, <3>3, <3>4
  <2>9. i <= len \/ i > len
    BY <1>0
  <2> QED
    BY <2>7, <2>8, <2>9
<1>6. Contents' = Contents \o part
  BY <1>2, <1>4, <1>5, SeqEqual
<1> QED
  BY <1>6 DEF part

LEMMA Dequeued ==
  ASSUME TypeOK, TypeOK', NEW n \in 1..len,
         head' = (head + n) % Cap, len' = len - n, buf' = buf
  PROVE  /\ [i \in 1..n |-> buf[(head + i - 1) % Cap]] = SubSeq(Contents, 1, n)
         /\ Contents' = SubSeq(Contents, n + 1, Len(Contents))
<1>0. head \in 0..Cap - 1 /\ len \in 0..Cap /\ n \in Nat
  BY DEF TypeOK, RingTypes
<1>1. /\ Contents \in Seq(Byte) /\ Len(Contents) = len
      /\ \A i \in 1..len: Contents[i] = buf[(head + i - 1) % Cap]
  BY ContentsSeq
<1>2. \A i \in 1..len: Contents[i] \in Byte
  BY <1>1
<1>3. [i \in 1..n |-> buf[(head + i - 1) % Cap]] = SubSeq(Contents, 1, n)
  <2> DEFINE a == [i \in 1..n |-> buf[(head + i - 1) % Cap]]
             b == SubSeq(Contents, 1, n)
  <2>1. /\ b \in Seq(Byte) /\ Len(b) = IF 1 <= n THEN n - 1 + 1 ELSE 0
        /\ \A i \in 1..n - 1 + 1: b[i] = Contents[1 + i - 1]
    <3>1. \A i \in 1..n: Contents[i] \in Byte
      BY <1>0, <1>2
    <3> QED
      BY <1>0, <3>1, SubSeqProperties
  <2>2. \A i \in 1..n: buf[(head + i - 1) % Cap] \in Byte
    BY <1>0, <1>1, <1>2
  <2>3. a \in Seq(Byte) /\ DOMAIN a = 1..n /\ \A i \in 1..n: a[i] = buf[(head + i - 1) % Cap]
    BY <1>0, <2>2, IsASeq
  <2> HIDE DEF a, b
  <2>4. Len(a) = n /\ Len(b) = n
    BY <1>0, <2>1, <2>3
  <2>5. ASSUME NEW i \in 1..Len(a) PROVE a[i] = b[i]
    <3>1. i \in 1..n /\ i \in 1..len /\ i \in 1..n - 1 + 1 /\ 1 + i - 1 = i
      BY <1>0, <2>4
    <3> QED
      BY <1>1, <2>1, <2>3, <3>1
  <2>6. a = b
    BY <2>1, <2>3, <2>4, <2>5, SeqEqual
  <2> QED
    BY <2>6 DEF a, b
<1>4. Contents' = SubSeq(Contents, n + 1, Len(Contents))
  <2> DEFINE b == SubSeq(Contents, n + 1, len)
  <2>1. /\ Contents' \in Seq(Byte) /\ Len(Contents') = len - n
        /\ \A i \in 1..len - n: Contents'[i] = buf[(((head + n) % Cap) + i - 1) % Cap]
    BY ListedNext DEF Listed
  <2>2. b \in Seq(Byte) /\ Len(b) = len - n /\ \A i \in 1..len - n: b[i] = Contents[n + i]
    <3>1. len \in Nat /\ n \in 0..len /\ \A i \in n + 1..len: Contents[i] \in Byte
      BY <1>0, <1>2
    <3> QED
      BY <3>1, Suffix
  <2> HIDE DEF b
  <2>3. ASSUME NEW i \in 1..Len(b) PROVE Contents'[i] = b[i]
    <3>1. i \in 1..len - n /\ n + i \in 1..len /\ i \in 1..Cap /\ n + i <= Cap /\ n \in 0..Cap
      BY <1>0, <2>2, Constants
    <3>2. (((head + n) % Cap) + i - 1) % Cap = (head + (n + i) - 1) % Cap
      BY <1>0, <3>1, Moved
    <3>3. Contents[n + i] = buf[(head + (n + i) - 1) % Cap]
      BY <1>1, <3>1
    <3> QED
      BY <2>1, <2>2, <3>1, <3>2, <3>3
  <2>4. Contents' = b
    BY <2>1, <2>2, <2>3, SeqEqual
  <2> QED
    BY <1>1, <2>4 DEF b
<1> QED
  BY <1>3, <1>4

-----------------------------------------------------------------------------
\* The pipe implements the bounded FIFO.

LEMMA AbstractInit == Init => Abstract!Init
<1> SUFFICES ASSUME Init PROVE Abstract!Init
  OBVIOUS
<1>1. Contents = <<>>
  <2>1. Contents \in Seq(Byte) /\ Len(Contents) = 0
    BY TypeInit, ContentsSeq DEF Init
  <2> QED
    BY <2>1, EmptySeq
<1>2. Todo = [t \in Writers |-> <<>>]
  <2>1. ASSUME NEW t \in Writers PROVE SubSeq(src[t], done[t] + 1, Len(src[t])) = <<>>
    <3>1. src[t] = <<>> /\ done[t] = 0 /\ Len(src[t]) = 0
      BY EmptySeq DEF Init
    <3> QED
      BY <3>1, SubSeqEmpty
  <2> QED
    BY <2>1 DEF Todo
<1>3. Opened = {"r", "w"}
  BY DEF Init, Opened
<1> QED
  BY <1>1, <1>2, <1>3 DEF Init, Abstract!Init

\* A call changes what its own thread has still to write.
LEMMA TodoOfOne ==
  ASSUME TypeOK, NEW t \in Writers, NEW s, NEW d,
         src' = [src EXCEPT ![t] = s], done' = [done EXCEPT ![t] = d]
  PROVE  Todo' = [Todo EXCEPT ![t] = SubSeq(s, d + 1, Len(s))]
<1>1. src \in [Writers -> Messages \cup {<<>>}] /\ done \in [Writers -> Nat]
  BY DEF TypeOK, CallTypes
<1>2. ASSUME NEW u \in Writers
      PROVE  SubSeq(src'[u], done'[u] + 1, Len(src'[u])) =
               IF u = t THEN SubSeq(s, d + 1, Len(s))
               ELSE SubSeq(src[u], done[u] + 1, Len(src[u]))
  <2>1. CASE u = t
    BY <1>1, <2>1
  <2>2. CASE u # t
    <3>1. src'[u] = src[u] /\ done'[u] = done[u]
      BY <1>1, <2>2
    <3>2. SubSeq(src'[u], done'[u] + 1, Len(src'[u])) = SubSeq(src[u], done[u] + 1, Len(src[u]))
      BY ONLY <3>1
    <3> QED
      BY ONLY <2>2, <3>2
  <2> QED
    BY <2>1, <2>2
<1>3. Todo' = [u \in Writers |-> SubSeq(src'[u], done'[u] + 1, Len(src'[u]))]
  BY DEF Todo
<1>4. Todo' = [u \in Writers |-> IF u = t THEN SubSeq(s, d + 1, Len(s))
                                 ELSE SubSeq(src[u], done[u] + 1, Len(src[u]))]
  BY <1>2, <1>3
<1> QED
  BY <1>4 DEF Todo

LEMMA Stutter ==
  ASSUME UNCHANGED <<buf, head, len, readers, writers, src, done, got>>
  PROVE  UNCHANGED Abstract!vars
<1>1. Contents' = Contents
  BY DEF Contents
<1>2. Todo' = Todo
  BY DEF Todo
<1>3. Opened' = Opened
  BY DEF Opened
<1> QED
  BY <1>1, <1>2, <1>3 DEF Abstract!vars

\* Nobody calls on an end that is closed.
LEMMA CallerHasEnd ==
  ASSUME OpenWhileReferred, NEW t \in Threads, pc[t] \in Calling
  PROVE  /\ t \in Readers => "r" \in Opened
         /\ t \in Writers => "w" \in Opened
BY DEF OpenWhileReferred, EndOpen, Holders, Referring, Opened

LEMMA ReadImplements ==
  ASSUME TypeOK, TypeOK', IInv, NEW t \in Readers, ReadSome(t)
  PROVE  Abstract!Next
<1>1. PICK n \in Nat:
        /\ n > 0 /\ n <= len
        /\ got' = [got EXCEPT ![t] = [i \in 1..n |-> buf[(head + i - 1) % Cap]]]
        /\ head' = (head + n) % Cap /\ len' = len - n
  BY RingRead
<1>2. len \in Nat /\ Len(Contents) = len /\ n \in 1..len
  BY <1>1, ContentsSeq, Constants DEF TypeOK, RingTypes
<1>3. buf' = buf /\ UNCHANGED <<readers, writers, src, done>> /\ pc[t] = "rtry"
  BY DEF ReadSome
<1>4. /\ [i \in 1..n |-> buf[(head + i - 1) % Cap]] = SubSeq(Contents, 1, n)
      /\ Contents' = SubSeq(Contents, n + 1, Len(Contents))
  BY <1>1, <1>2, <1>3, Dequeued
<1>5. got' = [got EXCEPT ![t] = SubSeq(Contents, 1, n)]
  BY <1>1, <1>4
<1>6. Todo' = Todo /\ Opened' = Opened
  BY <1>3 DEF Todo, Opened
<1>7. "r" \in Opened
  BY <1>3, CallerHasEnd DEF IInv, Calling
<1>8. Abstract!Receive(t, n)
  BY <1>4, <1>5, <1>6, <1>7 DEF Abstract!Receive
<1> QED
  BY <1>2, <1>8 DEF Abstract!Next

LEMMA WriteImplements ==
  ASSUME TypeOK, TypeOK', IInv, NEW t \in Writers, WriteSome(t)
  PROVE  Abstract!Next \/ UNCHANGED Abstract!vars
<1>1. PICK n \in Nat:
        /\ n <= Len(src[t]) - done[t] /\ n <= Cap - len
        /\ len' = len + n /\ done' = [done EXCEPT ![t] = @ + n]
        /\ buf' = [i \in 0..Cap - 1 |->
                    LET k == (i - ((head + len) % Cap)) % Cap
                    IN  IF k < n THEN src[t][done[t] + k + 1] ELSE buf[i]]
  BY RingWritten
<1>2. /\ UNCHANGED <<head, readers, writers, src, got>> /\ pc[t] = "wtry" /\ readers # 0
  BY DEF WriteSome
<1>3. /\ src[t] \in Seq(Byte) /\ Len(src[t]) \in Nat /\ done[t] \in Nat /\ done[t] <= Len(src[t])
      /\ len \in 0..Cap /\ readers \in 0..1
      /\ src \in [Writers -> Messages \cup {<<>>}] /\ done \in [Writers -> Nat]
  BY SrcSeq DEF TypeOK, RingTypes, CallTypes, FileTypes
<1>4. /\ Todo[t] = SubSeq(src[t], done[t] + 1, Len(src[t]))
      /\ Len(Todo[t]) = Len(src[t]) - done[t]
  BY TodoSeq
<1>5. Contents' = Contents \o SubSeq(Todo[t], 1, n)
  <2>1. n \in 0..Len(src[t]) - done[t]
    BY <1>1, <1>3
  <2> QED
    BY <1>1, <1>2, <2>1, Enqueued
<1>6. Todo' = [Todo EXCEPT ![t] = SubSeq(@, n + 1, Len(@))]
  <2>1. src' = [src EXCEPT ![t] = src[t]] /\ done' = [done EXCEPT ![t] = done[t] + n]
    BY <1>1, <1>2, <1>3
  <2>2. Todo' = [Todo EXCEPT ![t] = SubSeq(src[t], (done[t] + n) + 1, Len(src[t]))]
    BY <2>1, TodoOfOne
  <2>3. SubSeq(Todo[t], n + 1, Len(Todo[t])) = SubSeq(src[t], (done[t] + n) + 1, Len(src[t]))
    <3>1. done[t] + n <= Len(src[t])
      BY <1>1, <1>3
    <3>2. SubSeq(SubSeq(src[t], done[t] + 1, Len(src[t])), n + 1, Len(src[t]) - done[t])
            = SubSeq(src[t], done[t] + n + 1, Len(src[t]))
      BY <1>3, <3>1, LeftOver
    <3> QED
      BY <1>4, <3>2
  <2> QED
    BY <2>2, <2>3
<1>7. Opened' = Opened /\ "r" \in Opened /\ "w" \in Opened
  <2>1. "w" \in Opened
    BY <1>2, CallerHasEnd DEF IInv, Calling
  <2> QED
    BY <1>2, <1>3, <2>1 DEF Opened
<1>8. CASE n > 0
  <2>1. n \in 1..Len(Todo[t]) /\ Len(Contents) + n <= Cap
    BY <1>1, <1>3, <1>4, <1>8, ContentsSeq, Constants
  <2>2. Abstract!Send(t, n)
    BY <1>2, <1>5, <1>6, <1>7, <2>1 DEF Abstract!Send
  <2> QED
    BY <2>1, <2>2 DEF Abstract!Next
<1>9. CASE n = 0
  <2>1. Todo' = Todo
    <3>1. done' = done
      BY <1>1, <1>3, <1>9
    <3> QED
      BY <1>2, <3>1 DEF Todo
  <2>2. Contents' = Contents
    <3>1. SubSeq(Todo[t], 1, n) = <<>>
      BY <1>9, SubSeqEmpty
    <3>2. Contents \in Seq(Byte)
      BY ContentsSeq
    <3> QED
      BY <1>5, <3>1, <3>2, ConcatEmptySeq
  <2> QED
    BY <1>2, <1>7, <2>1, <2>2 DEF Abstract!vars
<1> QED
  BY <1>1, <1>8, <1>9

\* A call begins, or ends with what it had still to write.
LEMMA CallImplements ==
  ASSUME TypeOK, IInv, NEW t \in Writers, UNCHANGED <<ring, readers, writers, got>>
  PROVE  /\ \A s \in Messages, nb \in BOOLEAN: Write(t, s, nb) => Abstract!Next
         /\ src' = [src EXCEPT ![t] = <<>>] /\ done' = [done EXCEPT ![t] = 0] => Abstract!Next
<1>0. Contents' = Contents /\ Opened' = Opened
  BY DEF Contents, Opened
<1>1. ASSUME NEW s \in Messages, NEW nb \in BOOLEAN, Write(t, s, nb) PROVE Abstract!Next
  <2>1. Todo[t] = <<>>
    <3>1. src[t] = <<>>
      BY <1>1 DEF Write, IInv, Pending
    <3>2. Len(src[t]) - done[t] = 0
      BY <3>1, SrcSeq, EmptySeq
    <3>3. Len(Todo[t]) = 0 /\ Todo[t] \in Seq(Byte)
      BY <3>2, TodoSeq
    <3> QED
      BY <3>3, EmptySeq
  <2>2. Todo' = [Todo EXCEPT ![t] = SubSeq(s, 0 + 1, Len(s))]
    BY <1>1, TodoOfOne DEF Write
  <2>3. SubSeq(s, 0 + 1, Len(s)) = s
    <3>1. s \in Seq(Byte)
      BY Constants
    <3> QED
      BY <3>1, SubSeqFull
  <2>4. Abstract!Begin(t, s)
    BY <1>0, <2>1, <2>2, <2>3 DEF Abstract!Begin
  <2> QED
    BY <2>4 DEF Abstract!Next
<1>2. ASSUME src' = [src EXCEPT ![t] = <<>>], done' = [done EXCEPT ![t] = 0]
      PROVE  Abstract!Next
  <2>1. Todo' = [Todo EXCEPT ![t] = SubSeq(<<>>, 0 + 1, Len(<<>>))]
    BY <1>2, TodoOfOne
  <2>2. SubSeq(<<>>, 0 + 1, Len(<<>>)) = <<>>
    BY EmptySeq, SubSeqEmpty
  <2>3. Abstract!Quit(t)
    BY <1>0, <2>1, <2>2 DEF Abstract!Quit
  <2> QED
    BY <2>3 DEF Abstract!Next
<1> QED
  BY <1>1, <1>2

\* A call that returns, or whose worker is killed, has nothing left to write.
LEMMA OverImplements ==
  ASSUME TypeOK, IInv, NEW t \in Threads, CallOver(t), UNCHANGED <<ring, readers, writers, got>>
  PROVE  Abstract!Next \/ UNCHANGED Abstract!vars
<1>1. CASE t \in Writers
  BY <1>1, CallImplements DEF CallOver
<1>2. CASE t \notin Writers
  BY <1>2, Stutter DEF CallOver
<1> QED
  BY <1>1, <1>2

LEMMA DropImplements ==
  ASSUME TypeOK, NEW t \in Threads, Drop(t)
  PROVE  Abstract!Next \/ UNCHANGED Abstract!vars
<1>0. readers \in 0..1 /\ writers \in 0..1
  BY DEF TypeOK, FileTypes
<1>1. /\ UNCHANGED <<ring, src, done, got>>
      /\ \/ UNCHANGED <<readers, writers>>
         \/ readers' = 0 /\ writers' = writers
         \/ writers' = 0 /\ readers' = readers
  BY DEF Drop, DropLast
<1>2. Contents' = Contents /\ Todo' = Todo
  BY <1>1 DEF Contents, Todo
<1>3. CASE UNCHANGED <<readers, writers>>
  BY <1>1, <1>3, Stutter
<1>4. CASE readers' = 0 /\ readers # 0 /\ writers' = writers
  <2>1. Opened' = Opened \ {"r"} /\ "r" \in Opened
    BY <1>0, <1>4 DEF Opened
  <2>2. Abstract!Close("r")
    BY <1>1, <1>2, <2>1 DEF Abstract!Close
  <2> QED
    BY <2>1, <2>2 DEF Abstract!Next
<1>5. CASE writers' = 0 /\ writers # 0 /\ readers' = readers
  <2>1. Opened' = Opened \ {"w"} /\ "w" \in Opened
    BY <1>0, <1>5 DEF Opened
  <2>2. Abstract!Close("w")
    BY <1>1, <1>2, <2>1 DEF Abstract!Close
  <2> QED
    BY <2>1, <2>2 DEF Abstract!Next
<1> QED
  BY <1>1, <1>3, <1>4, <1>5

LEMMA StepImplements ==
  ASSUME TypeOK, TypeOK', IInv, [Next]_vars
  PROVE  Abstract!Next \/ UNCHANGED Abstract!vars
<1>1. ASSUME NEW t \in Readers, Reading(t) \/ \E n \in Sizes, nb \in BOOLEAN: Read(t, n, nb)
      PROVE  Abstract!Next \/ UNCHANGED Abstract!vars
  <2>1. CASE ReadSome(t)
    BY <2>1, ReadImplements
  <2>2. CASE ~ReadSome(t)
    BY <1>1, <2>2, Stutter DEF Reading, ReadNothing, ReadWaits, ReadSleeps, ReadBumps,
       ReadNotifies, Read
  <2> QED
    BY <2>1, <2>2
<1>2. ASSUME NEW t \in Writers,
             Writing(t) \/ \E s \in Messages, nb \in BOOLEAN: Write(t, s, nb)
      PROVE  Abstract!Next \/ UNCHANGED Abstract!vars
  <2>1. CASE WriteSome(t)
    BY <2>1, WriteImplements
  <2>2. CASE WriteBroken(t)
    BY <2>2, CallImplements DEF WriteBroken
  <2>3. CASE \E s \in Messages, nb \in BOOLEAN: Write(t, s, nb)
    <3>1. PICK s \in Messages, nb \in BOOLEAN: Write(t, s, nb)
      BY <2>3
    <3>2. UNCHANGED <<ring, readers, writers, got>>
      BY <3>1 DEF Write
    <3> QED
      BY <3>1, <3>2, CallImplements
  <2>4. CASE WriteBumps(t) \/ WriteNotifies(t) \/ WriteSleeps(t)
    BY <2>4, Stutter DEF WriteBumps, WriteNotifies, WriteSleeps
  <2> QED
    BY <1>2, <2>1, <2>2, <2>3, <2>4 DEF Writing
<1>3. ASSUME NEW t \in Threads, Closing(t) \/ CloseFd(t)
      PROVE  Abstract!Next \/ UNCHANGED Abstract!vars
  <2>1. CASE Drop(t)
    BY <2>1, DropImplements
  <2>2. CASE Return(t)
    BY <2>2, OverImplements DEF Return
  <2>3. CASE Finish(t) \/ CloseFd(t) \/ CloseBumps(t) \/ CloseNotifies(t)
    BY <2>3, Stutter DEF Finish, CloseFd, CloseBumps, CloseNotifies
  <2> QED
    BY <1>3, <2>1, <2>2, <2>3 DEF Closing
<1>4. ASSUME NEW t \in Victims, Kill(t) PROVE Abstract!Next \/ UNCHANGED Abstract!vars
  BY <1>4, OverImplements, PipeAssumption DEF Kill
<1>5. CASE UNCHANGED vars
  BY <1>5, Stutter DEF vars
<1> QED
  BY <1>1, <1>2, <1>3, <1>4, <1>5 DEF Next

\* The ring, with its wake-ups and closes, is the bounded FIFO of AbstractPipe:
\* no byte is lost, doubled or reordered, whatever its size and who dies when.
THEOREM Refinement == Spec => ImplementsAbstractPipe
<1>1. TypeOK /\ TypeOK' /\ IInv /\ [Next]_vars => [Abstract!Next]_(Abstract!vars)
  BY StepImplements
<1> QED
  BY AbstractInit, InvCorrect, <1>1, PTL DEF Spec, ImplementsAbstractPipe, Abstract!Spec
=============================================================================
