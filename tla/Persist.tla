------------------------------ MODULE Persist ------------------------------
(***************************************************************************)
(* Persistence of the overlay: the journal of the kernel                   *)
(* (crates/bat-kernel/src/persist.rs), which kerneld drains into OPFS and  *)
(* folds into snapshots (drainJournal and snapshot in                      *)
(* runtime/src/kernel/kerneld.ts), and from which it restores the overlay  *)
(* after a crash (restore).                                                *)
(*                                                                         *)
(* A record stands for one operation on the overlay, and the overlay for   *)
(* the sequence of the records applied to it.  A record has length one, so *)
(* a sequence number is a number of records.  kerneld is one JavaScript    *)
(* thread; the other threads write, and wait for durability, between its   *)
(* steps.  A file has what is certainly stored (`disk') and what was       *)
(* written to it (`cache'); flush makes the first equal to the second, and *)
(* a crash leaves either, part by part, except that the truncation that    *)
(* opens a snapshot is not reordered with the writes that follow it.  A    *)
(* frame of the journal that is not stored whole fails its checksum and    *)
(* counts as absent; the body of a snapshot has no checksum and is then    *)
(* Torn.                                                                   *)
(***************************************************************************)
EXTENDS Integers, Sequences, FiniteSets

CONSTANTS
  Threads,      \* the threads that flush
  MaxRecords,   \* bound: how many operations there are
  MaxFaults     \* bound: crashes, and writes to OPFS that fail (quota, I/O error)

Slots == {"snap-a", "snap-b"}
Records == 1..MaxRecords
None == -1
Torn == 0       \* what is read where something else was meant to be

ASSUME PersistAssumption ==
  {MaxRecords, MaxFaults} \subseteq Nat

VARIABLES
  overlay,            \* the operations applied, in order (Vfs)
  pending, seq,       \* Journal.buf and Journal.seq
  durable,            \* DURABLE
  jdisk, jcache,      \* the journal file: its frames
  jsize,              \* journalSize
  sdisk, scache,      \* the snapshot files
  nextSlot,
  pc,                 \* where kerneld is
  taken,              \* what it took from the kernel: records, end sequence
  snapshotting,       \* a snapshot is waiting for its file handle
  flushAsked,         \* Work::Flush is queued
  fpc, target, fresh, \* the threads: where in flush, the sequence number waited
                      \* for, and that DURABLE_WQ is still as it was read
  written, crashes, fails

kernel == <<overlay, pending, seq>>
journal == <<jdisk, jcache, jsize>>
snaps == <<sdisk, scache, nextSlot>>
flushers == <<flushAsked, fpc, target, fresh>>
counts == <<written, crashes, fails>>
vars == <<kernel, durable, journal, snaps, pc, taken, snapshotting, flushers, counts>>

Empty == [seq |-> None, body |-> <<>>]
Nothing == [recs |-> <<>>, end |-> 0]
Hole == [recs |-> <<Torn>>, end |-> None]

Init ==
  /\ overlay = <<>> /\ pending = <<>> /\ seq = 0
  /\ durable = 0
  /\ jdisk = <<>> /\ jcache = <<>> /\ jsize = 0
  /\ sdisk = [s \in Slots |-> Empty] /\ scache = sdisk
  /\ nextSlot = "snap-a"
  /\ pc = "idle" /\ taken = Nothing /\ snapshotting = FALSE
  /\ flushAsked = FALSE
  /\ fpc = [t \in Threads |-> "idle"]
  /\ target = [t \in Threads |-> 0]
  /\ fresh = [t \in Threads |-> FALSE]
  /\ written = 0 /\ crashes = 0 /\ fails = 0

Up == pc # "down"

-----------------------------------------------------------------------------
\* An operation on the overlay: applied and recorded under the one lock.

Write ==
  /\ Up /\ written < MaxRecords
  /\ written' = written + 1
  /\ overlay' = Append(overlay, written')
  /\ pending' = Append(pending, written')
  /\ seq' = seq + 1
  /\ UNCHANGED <<durable, journal, snaps, pc, taken, snapshotting, flushers, crashes, fails>>

-----------------------------------------------------------------------------
\* bat_flush_begin, and wait_durable

FlushBegin(t) ==
  /\ Up /\ fpc[t] = "idle"
  /\ target' = [target EXCEPT ![t] = seq]
  /\ fpc' = [fpc EXCEPT ![t] = "ask"]
  /\ UNCHANGED <<kernel, durable, journal, snaps, pc, taken, snapshotting, flushAsked, fresh, counts>>

FlushAsk(t) ==
  /\ fpc[t] = "ask"
  /\ flushAsked' = (flushAsked \/ durable < target[t])
  /\ fpc' = [fpc EXCEPT ![t] = "seq"]
  /\ UNCHANGED <<kernel, durable, journal, snaps, pc, taken, snapshotting, target, fresh, counts>>

WaitSeq(t) ==
  /\ fpc[t] = "seq"
  /\ fresh' = [fresh EXCEPT ![t] = TRUE]
  /\ fpc' = [fpc EXCEPT ![t] = "check"]
  /\ UNCHANGED <<kernel, durable, journal, snaps, pc, taken, snapshotting, flushAsked, target, counts>>

WaitCheck(t) ==
  /\ fpc[t] = "check"
  /\ fpc' = [fpc EXCEPT ![t] = IF durable >= target[t] THEN "idle" ELSE "sleep"]
  /\ UNCHANGED <<kernel, durable, journal, snaps, pc, taken, snapshotting, flushAsked, target, fresh, counts>>

\* Mutant: the wait does not compare the word.
SleepAlways(t) ==
  /\ fpc[t] = "sleep"
  /\ fpc' = [fpc EXCEPT ![t] = "asleep"]
  /\ UNCHANGED <<kernel, durable, journal, snaps, pc, taken, snapshotting, flushAsked, target, fresh, counts>>

WaitSleep(t) ==
  /\ fpc[t] = "sleep"
  /\ fpc' = [fpc EXCEPT ![t] = IF fresh[t] THEN "asleep" ELSE "seq"]
  /\ UNCHANGED <<kernel, durable, journal, snaps, pc, taken, snapshotting, flushAsked, target, fresh, counts>>

Flushing(t) == FlushAsk(t) \/ WaitSeq(t) \/ WaitCheck(t) \/ WaitSleep(t)

-----------------------------------------------------------------------------
\* drainJournal: take what is pending, write it as a frame at journalSize,
\* flush, publish.

DrainTake ==
  /\ pc = "idle"
  /\ flushAsked \/ pending # <<>>
  /\ flushAsked' = FALSE
  /\ taken' = [recs |-> pending, end |-> seq]
  /\ pending' = <<>>
  /\ pc' = IF pending = <<>> THEN "publish" ELSE "write"
  /\ UNCHANGED <<overlay, seq, durable, journal, snaps, snapshotting, fpc, target, fresh, counts>>

\* The file with a frame written behind the first n; what lies between the end
\* of the file and the write reads as zeros.
Written(file, n, frame) ==
  [i \in 1..n + 1 |-> IF i = n + 1 THEN frame
                      ELSE IF i <= Len(file) THEN file[i] ELSE Hole]

DrainWrite ==
  /\ pc = "write"
  /\ jcache' = Written(jcache, jsize, taken)
  /\ pc' = "flush"
  /\ UNCHANGED <<kernel, durable, jdisk, jsize, snaps, taken, snapshotting, flushers, counts>>

\* Mutant: the file is not flushed.
DrainUnflushed ==
  /\ pc = "flush"
  /\ jsize' = jsize + 1
  /\ pc' = "publish"
  /\ UNCHANGED <<kernel, durable, jdisk, jcache, snaps, taken, snapshotting, flushers, counts>>

DrainFlush ==
  /\ pc = "flush"
  /\ jdisk' = jcache
  /\ jsize' = jsize + 1
  /\ pc' = "publish"
  /\ UNCHANGED <<kernel, durable, jcache, snaps, taken, snapshotting, flushers, counts>>

\* set_durable, by the drain and by the snapshot: the number, then the word and
\* the wake-up.
Publish ==
  /\ pc = "publish"
  /\ durable' = IF taken.end > durable THEN taken.end ELSE durable
  /\ pc' = "wake"
  /\ UNCHANGED <<kernel, journal, snaps, taken, snapshotting, flushers, counts>>

Wake ==
  /\ pc = "wake"
  /\ fresh' = [t \in Threads |-> FALSE]
  /\ fpc' = [t \in Threads |-> IF fpc[t] = "asleep" THEN "seq" ELSE fpc[t]]
  /\ taken' = Nothing
  /\ pc' = "idle"
  /\ UNCHANGED <<kernel, durable, journal, snaps, snapshotting, flushAsked, target, counts>>

-----------------------------------------------------------------------------
\* snapshot: one at a time.  Until its file handle is there, the journal may be
\* drained; from then on there is no await.

SnapshotStart ==
  /\ pc = "idle" /\ ~snapshotting
  /\ snapshotting' = TRUE
  /\ UNCHANGED <<kernel, durable, journal, snaps, pc, taken, flushers, counts>>

\* persist::snapshot: all of the overlay; the pending records are discarded.
SnapshotTake ==
  /\ pc = "idle" /\ snapshotting
  /\ taken' = [recs |-> overlay, end |-> seq]
  /\ pending' = <<>>
  /\ pc' = "sbody"
  /\ UNCHANGED <<overlay, seq, durable, journal, snaps, snapshotting, flushers, counts>>

\* truncate(0), then the body behind the header's place.
SnapshotBody ==
  /\ pc = "sbody"
  /\ scache' = [scache EXCEPT ![nextSlot] = [seq |-> None, body |-> taken.recs]]
  /\ pc' = "sflush"
  /\ UNCHANGED <<kernel, durable, journal, sdisk, nextSlot, taken, snapshotting, flushers, counts>>

\* Mutant: header and body are flushed together.
SnapshotBodyUnflushed ==
  /\ pc = "sflush"
  /\ pc' = "sheader"
  /\ UNCHANGED <<kernel, durable, journal, snaps, taken, snapshotting, flushers, counts>>

SnapshotFlushBody ==
  /\ pc = "sflush"
  /\ sdisk' = scache
  /\ pc' = "sheader"
  /\ UNCHANGED <<kernel, durable, journal, scache, nextSlot, taken, snapshotting, flushers, counts>>

SnapshotHeader ==
  /\ pc = "sheader"
  /\ scache' = [scache EXCEPT ![nextSlot].seq = taken.end]
  /\ pc' = "sflushh"
  /\ UNCHANGED <<kernel, durable, journal, sdisk, nextSlot, taken, snapshotting, flushers, counts>>

SnapshotFlushHeader ==
  /\ pc = "sflushh"
  /\ sdisk' = scache
  /\ pc' = "jtruncate"
  /\ UNCHANGED <<kernel, durable, journal, scache, nextSlot, taken, snapshotting, flushers, counts>>

\* Every frame is covered by the snapshot.
JournalTruncate ==
  /\ pc = "jtruncate"
  /\ jcache' = <<>>
  /\ pc' = "jflush"
  /\ UNCHANGED <<kernel, durable, jdisk, jsize, snaps, taken, snapshotting, flushers, counts>>

JournalFlush ==
  /\ pc = "jflush"
  /\ jdisk' = jcache /\ jsize' = 0
  /\ nextSlot' = CHOOSE s \in Slots: s # nextSlot
  /\ snapshotting' = FALSE
  /\ pc' = "publish"
  /\ UNCHANGED <<kernel, durable, jcache, sdisk, scache, taken, flushers, counts>>

\* A write or a flush throws: the rest of the drain, or of the snapshot, is
\* given up, and what had been taken from the kernel is gone.
InFile == {"write", "flush", "sbody", "sflush", "sheader", "sflushh", "jtruncate", "jflush"}

Fail ==
  /\ crashes + fails < MaxFaults /\ pc \in InFile
  /\ fails' = fails + 1
  /\ snapshotting' = (snapshotting /\ pc \in {"write", "flush"})
  /\ taken' = Nothing
  /\ pc' = "idle"
  /\ UNCHANGED <<kernel, durable, journal, snaps, flushers, written, crashes>>

-----------------------------------------------------------------------------
\* The tab, the browser or the machine goes away.

\* What may be left of a snapshot file: what it was, or, once it was truncated,
\* the header and the body written since, each stored or not.
Remains(s) ==
  IF scache[s] = sdisk[s] THEN {sdisk[s]}
  ELSE {sdisk[s]} \cup
       {[seq |-> h, body |-> b] :
          h \in {None, scache[s].seq},
          b \in {scache[s].body}
                \cup (IF sdisk[s].body = scache[s].body THEN {} ELSE {<<Torn>>})}

Crash ==
  /\ Up /\ crashes + fails < MaxFaults
  /\ crashes' = crashes + 1
  /\ jdisk' \in {jdisk, jcache}
  /\ \E a \in Remains("snap-a"), b \in Remains("snap-b"):
       sdisk' = [s \in Slots |-> IF s = "snap-a" THEN a ELSE b]
  /\ jcache' = jdisk' /\ scache' = sdisk'
  /\ pc' = "down"
  /\ overlay' = <<>> /\ pending' = <<>> /\ seq' = 0 /\ jsize' = 0
  /\ taken' = Nothing /\ snapshotting' = FALSE /\ flushAsked' = FALSE
  /\ nextSlot' = "snap-a"
  /\ fpc' = [t \in Threads |-> "idle"]
  /\ target' = [t \in Threads |-> 0]
  /\ fresh' = [t \in Threads |-> FALSE]
  /\ UNCHANGED <<durable, written, fails>>

\* restore: the newest complete snapshot, then the frames that are newer, up to
\* the first that is not whole.

Best(files) ==
  LET complete == {s \in Slots: files[s].seq # None}
  IN  IF complete = {} THEN None
      ELSE CHOOSE n \in {files[s].seq : s \in complete}: \A s \in complete: files[s].seq <= n

BestSlot(files) ==
  CHOOSE s \in Slots: files[s].seq = Best(files)
                      /\ (files["snap-a"].seq = Best(files) => s = "snap-a")

SnapSeq(files) == IF Best(files) = None THEN 0 ELSE Best(files)

\* How many frames can be read.
Whole(file) ==
  CHOOSE n \in 0..Len(file):
    /\ \A i \in 1..n: file[i] # Hole
    /\ n < Len(file) => file[n + 1] = Hole

\* Mutant: the frames that the snapshot covers are replayed too.
All(file, snap) ==
  LET join[i \in 0..Whole(file)] ==
        IF i = 0 THEN <<>> ELSE join[i - 1] \o file[i].recs
  IN  join[Whole(file)]

\* The frames that are newer than the snapshot, joined.
Newer(file, snap) ==
  LET join[i \in 0..Whole(file)] ==
        IF i = 0 THEN <<>>
        ELSE IF file[i].end > snap THEN join[i - 1] \o file[i].recs
        ELSE join[i - 1]
  IN  join[Whole(file)]

Restored(file, files) ==
  (IF Best(files) = None THEN <<>> ELSE files[BestSlot(files)].body)
    \o Newer(file, SnapSeq(files))

RestoredSeq(file, files) ==
  LET ends == {file[i].end : i \in 1..Whole(file)} \cup {SnapSeq(files)}
  IN  CHOOSE n \in ends: \A m \in ends: m <= n

Restore ==
  /\ pc = "down"
  /\ overlay' = Restored(jdisk, sdisk)
  /\ seq' = RestoredSeq(jdisk, sdisk)
  /\ durable' = seq'
  /\ jsize' = Whole(jdisk)
  /\ jdisk' = SubSeq(jdisk, 1, jsize') /\ jcache' = jdisk'
  /\ nextSlot' = IF Best(sdisk) # None /\ BestSlot(sdisk) = "snap-a" THEN "snap-b" ELSE "snap-a"
  /\ pc' = "idle"
  /\ UNCHANGED <<pending, sdisk, scache, taken, snapshotting, flushers, counts>>

-----------------------------------------------------------------------------

Kerneld ==
  \/ DrainTake \/ DrainWrite \/ DrainFlush \/ Publish \/ Wake
  \/ SnapshotTake \/ SnapshotBody \/ SnapshotFlushBody \/ SnapshotHeader
  \/ SnapshotFlushHeader \/ JournalTruncate \/ JournalFlush

Next ==
  \/ Write
  \/ \E t \in Threads: FlushBegin(t) \/ Flushing(t)
  \/ Kerneld \/ SnapshotStart \/ Fail
  \/ Crash \/ Restore

Spec == Init /\ [][Next]_vars

\* kerneld's loop goes on, and the threads in a flush do.
FairSpec ==
  /\ Spec
  /\ WF_vars(Kerneld) /\ WF_vars(Restore)
  /\ \A t \in Threads: WF_vars(Flushing(t))

-----------------------------------------------------------------------------

File == [seq: Nat \cup {None}, body: Seq(Records \cup {Torn})]
Frames == Seq([recs: Seq(Records \cup {Torn}), end: Nat \cup {None}])

\* Types, and that between snapshots, if no write failed, the slot to be
\* overwritten next is not the only one with the newest snapshot.
TypeOK ==
  /\ overlay \in Seq(Records \cup {Torn}) /\ pending \in Seq(Records)
  /\ seq \in Nat /\ durable \in Nat
  /\ jdisk \in Frames /\ jcache \in Frames /\ jsize \in Nat
  /\ sdisk \in [Slots -> File] /\ scache \in [Slots -> File]
  /\ nextSlot \in Slots
  /\ pc = "idle" /\ fails = 0 => \E s \in Slots \ {nextSlot}: sdisk[s].seq = Best(sdisk)
  /\ pc \in {"idle", "publish", "wake", "down"} \cup InFile
  /\ taken \in [recs: Seq(Records \cup {Torn}), end: Nat]
  /\ snapshotting \in BOOLEAN /\ flushAsked \in BOOLEAN
  /\ fpc \in [Threads -> {"idle", "ask", "seq", "check", "sleep", "asleep"}]
  /\ target \in [Threads -> Nat] /\ fresh \in [Threads -> BOOLEAN]
  /\ written \in 0..MaxRecords /\ crashes \in 0..MaxFaults /\ fails \in 0..MaxFaults

IsPrefixOf(s, t) == Len(s) <= Len(t) /\ \A i \in 1..Len(s): s[i] = t[i]

\* What a crash at this moment may lead to.
Futures ==
  {Restored(j, [s \in Slots |-> IF s = "snap-a" THEN a ELSE b]) :
     j \in {jdisk, jcache}, a \in Remains("snap-a"), b \in Remains("snap-b")}

\* "A crash leaves all files as of one instant between two operations"
\* (decisions.md, the SQLite section): whenever it comes, unless a write to OPFS
\* has failed, the operations found again are the first ones that were made, in
\* their order, none missing and none applied twice.
CrashConsistent == Up /\ fails = 0 => \A f \in Futures: IsPrefixOf(f, overlay)

\* An operation whose sequence number was published as durable is found again
\* after any crash, unless a write has failed.  After one this is false of the
\* code: the drain took the records, and what is published next is the sequence
\* number of later ones.
DurableSurvives == Up /\ fails = 0 => \A f \in Futures: IsPrefixOf(SubSeq(overlay, 1, durable), f)

Store ==
  INSTANCE AbstractStore
    WITH history <- IF Up THEN overlay ELSE Restored(jdisk, sdisk), damaged <- fails > 0

\* The journal and its snapshots implement the store: no write, drain, snapshot,
\* crash or restore does anything else to the files than a store may.  After a
\* write that failed operations may be lost from the middle; what is found again
\* is still made of whole operations, in their order, none applied twice.
ImplementsAbstractStore == Store!Spec

\* flush returns, unless a write failed: what it waits for may then be lost.
FlushEnds == \A t \in Threads: fpc[t] # "idle" ~> fpc[t] = "idle" \/ fails > 0

=============================================================================
