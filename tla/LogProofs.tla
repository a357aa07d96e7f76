------------------------------ MODULE LogProofs ------------------------------
(***************************************************************************)
(* Proofs about the two logs of the system and what is made of them again. *)
(*                                                                         *)
(* The journal of the overlay (Persist), for any number of operations,     *)
(* flushing threads and crashes at any moment: as long as no write to OPFS *)
(* has failed, what a crash leaves is a prefix of the operations, and      *)
(* everything reported durable is in it.                                   *)
(*                                                                         *)
(* The invariant relates the files to the history of operations: frames of *)
(* the journal are pieces of it that follow each other, snapshots are      *)
(* beginnings of it, and what kerneld holds in its hands starts where the  *)
(* files end.                                                              *)
(*                                                                         *)
(* The event stream of a conversation and its transcript (ChatSync), for   *)
(* any number of prompts, runs and upsets: types, that what is watched is  *)
(* read or being read, and that a prompt stays on the screen until the     *)
(* server has answered.                                                    *)
(***************************************************************************)
EXTENDS Persist, ChatSync, SequenceTheorems, NaturalsInduction, WellFoundedInduction, TLAPS

Frame == [recs: Seq(Int), end: Nat]

\* Where the records of a frame begin in the history, and where those of the
\* first i frames end.
Start(frame) == frame.end - Len(frame.recs)
EndAt(file, i) == IF i = 0 THEN 0 ELSE file[i].end

\* How far the history is kept by a journal on top of a snapshot.
Over(m, n) == IF m > n THEN m ELSE n
Reach(file, snap) == Over(EndAt(file, Len(file)), snap)

\* A journal of O: pieces of it, in order.
JournalOf(file, O) ==
  /\ file \in Seq(Frame)
  /\ \A i \in 1..Len(file):
       /\ file[i].end <= Len(O) /\ Len(file[i].recs) <= file[i].end
       /\ file[i].recs = SubSeq(O, Start(file[i]) + 1, file[i].end)
  /\ \A i, k \in 1..Len(file): i <= k => file[i].end <= file[k].end

\* What follows the snapshot, up to the end of the journal, is there without a gap.
Continues(file, snap) ==
  \A i \in 1..Len(file):
    file[i].end > snap => Start(file[i]) = Over(EndAt(file, i - 1), snap)

\* A snapshot of O, or none.
SnapshotOf(f, O) ==
  f.seq # None => f.seq \in 0..Len(O) /\ f.body = SubSeq(O, 1, f.seq)

-----------------------------------------------------------------------------

\* The lowest of a set of numbers: induction, in what follows, is to consider the
\* first place where something is otherwise.
LEMMA Lowest ==
  ASSUME NEW S \in SUBSET Nat, S # {}
  PROVE  \E m \in S: \A q \in S: m <= q
<1>1. PICK m \in S: \A q \in S: <<q, m>> \notin OpToRel(<, Nat)
  BY NatLessThanWellFounded, WFMin, Zenon
<1>2. \A q \in S: ~(q < m)
  BY <1>1, Zenon DEF OpToRel
<1> QED
  BY <1>2

\* The recursion in Newer has a solution.
Step(file, snap, s, i) == IF file[i].end > snap THEN s \o file[i].recs ELSE s

Joins(f, file, snap, n) ==
  f = [i \in 0..n |-> IF i = 0 THEN <<>> ELSE Step(file, snap, f[i - 1], i)]

LEMMA JoinExists ==
  ASSUME NEW file, NEW snap, NEW n \in Nat
  PROVE  \E f: Joins(f, file, snap, n)
<1> DEFINE Bad == {k \in Nat: ~\E f: Joins(f, file, snap, k)}
<1>1. SUFFICES ASSUME Bad # {}
               PROVE  FALSE
  BY Zenon
<1>2. PICK m \in Bad: \A q \in Bad: m <= q
  <2>1. Bad \in SUBSET Nat
    OBVIOUS
  <2> HIDE DEF Bad
  <2> QED
    BY <1>1, <2>1, Lowest
<1>3. m \in Nat /\ ~\E f: Joins(f, file, snap, m)
  OBVIOUS
<1>4. CASE m = 0
  <2>1. Joins([i \in 0..0 |-> <<>>], file, snap, 0)
    BY DEF Joins
  <2> QED
    BY <1>3, <1>4, <2>1
<1>5. CASE m # 0
  <2>1. m - 1 \in Nat /\ m - 1 \notin Bad
    BY <1>2, <1>3, <1>5
  <2>2. PICK f: Joins(f, file, snap, m - 1)
    BY <2>1
  <2> DEFINE g == [i \in 0..m |-> IF i = m THEN Step(file, snap, f[m - 1], m) ELSE f[i]]
  <2>3. \A i \in 0..m - 1: f[i] = IF i = 0 THEN <<>> ELSE Step(file, snap, f[i - 1], i)
    BY <2>2 DEF Joins
  <2>4. \A i \in 0..m: g[i] = IF i = 0 THEN <<>> ELSE Step(file, snap, g[i - 1], i)
    <3>1. \A i \in 0..m - 1: g[i] = f[i]
      BY <1>3
    <3>2. g[m] = Step(file, snap, g[m - 1], m)
      BY <1>3, <1>5, <3>1
    <3>3. \A i \in 0..m - 1: i # 0 => i - 1 \in 0..m - 1
      BY <1>3
    <3> HIDE DEF g
    <3> QED
      BY <1>3, <1>5, <2>3, <3>1, <3>2, <3>3
  <2>5. g = [i \in 0..m |-> g[i]]
    OBVIOUS
  <2> HIDE DEF g
  <2>6. Joins(g, file, snap, m)
    BY <2>4, <2>5 DEF Joins
  <2> QED
    BY <1>3, <2>6
<1> QED
  BY <1>4, <1>5

\* What Newer joins, step by step.
LEMMA NewerJoins ==
  ASSUME NEW file, NEW snap, Whole(file) \in Nat
  PROVE  \E f: Joins(f, file, snap, Whole(file)) /\ Newer(file, snap) = f[Whole(file)]
<1> DEFINE join == CHOOSE f: Joins(f, file, snap, Whole(file))
<1>1. Joins(join, file, snap, Whole(file))
  BY JoinExists
<1>2. Newer(file, snap) = join[Whole(file)]
  BY DEF Newer, Joins, Step
<1> QED
  BY <1>1, <1>2

-----------------------------------------------------------------------------
\* What is restored from a journal and snapshots of a history

LEMMA EndsAre ==
  ASSUME NEW O \in Seq(Int), NEW file, JournalOf(file, O)
  PROVE  /\ file \in Seq(Frame) /\ Len(file) \in Nat /\ Len(O) \in Nat
         /\ \A i \in 1..Len(file):
              /\ file[i].recs \in Seq(Int) /\ Len(file[i].recs) \in Nat
              /\ file[i].end \in Nat /\ file[i].end <= Len(O) /\ file[i].end <= EndAt(file, Len(file))
              /\ Start(file[i]) \in Nat /\ Start(file[i]) <= file[i].end
              /\ EndAt(file, i) = file[i].end /\ EndAt(file, i - 1) <= file[i].end
         /\ \A i \in 0..Len(file): EndAt(file, i) \in Nat /\ EndAt(file, i) <= Len(O)
<1>1. file \in Seq(Frame) /\ Len(file) \in Nat /\ Len(O) \in Nat
  BY DEF JournalOf
<1>2. \A i \in 1..Len(file): file[i] \in Frame
  BY <1>1
<1>3. \A i \in 1..Len(file): /\ file[i].recs \in Seq(Int) /\ Len(file[i].recs) \in Nat
                            /\ file[i].end \in Nat /\ file[i].end <= Len(O)
                            /\ Len(file[i].recs) <= file[i].end
  <2>1. \A i \in 1..Len(file): file[i].end <= Len(O) /\ Len(file[i].recs) <= file[i].end
    BY Zenon DEF JournalOf
  <2>2. \A i \in 1..Len(file): file[i].recs \in Seq(Int) /\ file[i].end \in Nat
    BY <1>2 DEF Frame
  <2> QED
    BY <2>1, <2>2
<1>4. \A i \in 1..Len(file): EndAt(file, i) = file[i].end
  BY <1>1 DEF EndAt
<1>5. \A i \in 0..Len(file): EndAt(file, i) \in Nat /\ EndAt(file, i) <= Len(O)
  BY <1>1, <1>3 DEF EndAt
<1>6. \A i \in 1..Len(file): Start(file[i]) \in Nat /\ Start(file[i]) <= file[i].end
  BY <1>3 DEF Start
<1>7. \A i \in 1..Len(file): EndAt(file, i - 1) <= file[i].end
  <2> SUFFICES ASSUME NEW i \in 1..Len(file)
               PROVE  EndAt(file, i - 1) <= file[i].end
    OBVIOUS
  <2>1. CASE i = 1
    BY <1>3, <2>1 DEF EndAt
  <2>2. CASE i # 1
    <3>1. i - 1 \in 1..Len(file) /\ i - 1 <= i
      BY <1>1, <2>2
    <3> QED
      BY <1>4, <3>1 DEF JournalOf
  <2> QED
    BY <2>1, <2>2
<1>8. \A i \in 1..Len(file): file[i].end <= EndAt(file, Len(file))
  <2> SUFFICES ASSUME NEW i \in 1..Len(file)
               PROVE  file[i].end <= EndAt(file, Len(file))
    OBVIOUS
  <2>1. Len(file) \in 1..Len(file) /\ i <= Len(file)
    BY <1>1
  <2> QED
    BY <1>4, <2>1 DEF JournalOf
<1> QED
  BY <1>1, <1>3, <1>4, <1>5, <1>6, <1>7, <1>8

LEMMA OverIs ==
  ASSUME NEW m \in Nat, NEW n \in Nat
  PROVE  /\ Over(m, n) \in Nat /\ m <= Over(m, n) /\ n <= Over(m, n)
         /\ Over(m, n) = m \/ Over(m, n) = n
         /\ m <= n => Over(m, n) = n
         /\ n <= m => Over(m, n) = m
BY DEF Over

LEMMA WholeIsAll ==
  ASSUME NEW O, NEW file, JournalOf(file, O)
  PROVE  Whole(file) = Len(file)
<1>1. file \in Seq(Frame) /\ Len(file) \in Nat
  BY DEF JournalOf
<1>2. \A i \in 1..Len(file): file[i] # Hole
  BY <1>1 DEF Frame, Hole, None
<1>3. \A n \in 0..Len(file):
        (n < Len(file) => file[n + 1] = Hole) => n = Len(file)
  BY <1>1, <1>2
<1>4. Whole(file) = CHOOSE n \in 0..Len(file):
        /\ \A i \in 1..n: file[i] # Hole
        /\ n < Len(file) => file[n + 1] = Hole
  BY DEF Whole
<1> QED
  BY <1>1, <1>2, <1>3, <1>4

\* The frames behind a snapshot, joined, are the operations behind it.
LEMMA NewerIs ==
  ASSUME NEW O \in Seq(Int), NEW file, JournalOf(file, O), NEW snap \in 0..Len(O), Continues(file, snap)
  PROVE  Newer(file, snap) = SubSeq(O, snap + 1, Reach(file, snap))
<1>1. file \in Seq(Frame) /\ Len(file) \in Nat /\ Whole(file) = Len(file)
  BY WholeIsAll DEF JournalOf
<1>2. PICK f: Joins(f, file, snap, Len(file)) /\ Newer(file, snap) = f[Len(file)]
  BY <1>1, NewerJoins
<1> DEFINE Upto(i) == Over(EndAt(file, i), snap)
           Bad == {i \in 0..Len(file): f[i] # SubSeq(O, snap + 1, Upto(i))}
<1>3. SUFFICES ASSUME Bad # {}
               PROVE  FALSE
  <2>1. Len(file) \in 0..Len(file)
    BY <1>1
  <2> QED
    BY <1>2, <2>1 DEF Reach
<1>4. PICK m \in Bad: \A q \in Bad: m <= q
  <2>1. Bad \in SUBSET Nat
    OBVIOUS
  <2> HIDE DEF Bad
  <2> QED
    BY <1>3, <2>1, Lowest
<1>5. m \in 0..Len(file) /\ f[m] # SubSeq(O, snap + 1, Upto(m))
  OBVIOUS
<1>6. \A i \in 0..Len(file): EndAt(file, i) \in Nat /\ EndAt(file, i) <= Len(O) /\ Upto(i) \in snap..Len(O)
  BY EndsAre DEF Over
<1>7. CASE m = 0
  <2>1. f[m] = <<>>
    BY <1>2, <1>5, <1>7 DEF Joins
  <2>2. Upto(m) = snap
    BY <1>7 DEF EndAt, Over
  <2>3. SubSeq(O, snap + 1, snap) = <<>>
    BY SubSeqEmpty
  <2> QED
    BY <1>5, <2>1, <2>2, <2>3
<1>8. CASE m # 0
  <2>1. m \in 1..Len(file) /\ m - 1 \in 0..Len(file) /\ m - 1 \notin Bad
    <3>1. m \in 1..Len(file) /\ m - 1 \in 0..Len(file) /\ ~(m <= m - 1)
      BY <1>1, <1>5, <1>8
    <3> HIDE DEF Bad
    <3> QED
      BY <1>4, <3>1
  <2>2. f[m - 1] = SubSeq(O, snap + 1, Upto(m - 1))
    BY <2>1
  <2>3. f[m] = Step(file, snap, f[m - 1], m)
    <3>1. \A i \in 0..Len(file): f[i] = IF i = 0 THEN <<>> ELSE Step(file, snap, f[i - 1], i)
      BY <1>2 DEF Joins
    <3> QED
      BY <1>5, <1>8, <3>1, Zenon
  <2>4. EndAt(file, m) = file[m].end
    BY <2>1 DEF EndAt
  <2>5. CASE file[m].end > snap
    <3>1. Start(file[m]) = Upto(m - 1) /\ file[m].recs = SubSeq(O, Start(file[m]) + 1, file[m].end)
      BY <2>1, <2>5 DEF Continues, JournalOf
    <3>2. Upto(m) = file[m].end /\ Upto(m - 1) <= file[m].end
      BY <2>1, <2>4, <2>5, <3>1, EndsAre DEF Over
    <3>3. f[m] = SubSeq(O, snap + 1, Upto(m - 1)) \o SubSeq(O, Upto(m - 1) + 1, Upto(m))
      BY <2>2, <2>3, <2>5, <3>1, <3>2 DEF Step
    <3> HIDE DEF Upto
    <3>4. Upto(m - 1) \in snap..Len(O) /\ Upto(m) \in Upto(m - 1)..Len(O)
      <4>1. m \in 0..Len(file) /\ m - 1 \in 0..Len(file)
        BY <1>5, <2>1
      <4>2. Upto(m) \in snap..Len(O) /\ Upto(m - 1) \in snap..Len(O)
        BY <1>6, <4>1
      <4>3. Upto(m - 1) <= Upto(m)
        BY <3>2
      <4> QED
        BY <4>2, <4>3
    <3>5. snap + 1 \in 1..Len(O) + 1 /\ Upto(m - 1) \in (snap + 1) - 1..Len(O) /\ Upto(m) \in Upto(m - 1)..Len(O)
      BY <3>4
    <3>6. SubSeq(O, snap + 1, Upto(m - 1)) \o SubSeq(O, Upto(m - 1) + 1, Upto(m)) = SubSeq(O, snap + 1, Upto(m))
      BY <3>5, ConcatAdjacentSubSeq
    <3> QED
      BY <1>5, <3>3, <3>6
  <2>6. CASE ~(file[m].end > snap)
    <3>1. file[m].end \in Nat /\ EndAt(file, m - 1) \in Nat /\ EndAt(file, m - 1) <= file[m].end
      BY <2>1, EndsAre
    <3>2. Upto(m) = snap /\ Upto(m - 1) = snap
      BY <2>4, <2>6, <3>1 DEF Over
    <3> QED
      BY <1>5, <2>2, <2>3, <2>6, <3>2 DEF Step
  <2> QED
    BY <2>5, <2>6
<1> QED
  BY <1>7, <1>8

-----------------------------------------------------------------------------

LEMMA SlotsAre == "snap-a" \in Slots /\ "snap-b" \in Slots /\ \A s \in Slots: s = "snap-a" \/ s = "snap-b"
BY DEF Slots

\* The newest of two snapshots.
LEMMA BestIs ==
  ASSUME NEW files, \A s \in Slots: files[s].seq \in Nat \cup {None}
  PROVE  /\ Best(files) \in Nat \cup {None}
         /\ \A s \in Slots: files[s].seq <= Best(files)
         /\ \E s \in Slots: files[s].seq = Best(files)
         /\ BestSlot(files) \in Slots /\ files[BestSlot(files)].seq = Best(files)
<1> DEFINE complete == {s \in Slots: files[s].seq # None}
           seqs == {files[s].seq : s \in complete}
<1>1. /\ Best(files) \in Nat \cup {None}
      /\ \A s \in Slots: files[s].seq <= Best(files)
      /\ \E s \in Slots: files[s].seq = Best(files)
  <2>1. CASE complete = {}
    <3>1. Best(files) = None
      BY <2>1 DEF Best
    <3> QED
      BY <2>1, <3>1, SlotsAre DEF None
  <2>2. CASE complete # {}
    <3>1. Best(files) = CHOOSE n \in seqs: \A s \in complete: files[s].seq <= n
      BY <2>2 DEF Best
    <3>2. \E n \in seqs: \A s \in complete: files[s].seq <= n
      <4>1. PICK s \in complete: TRUE
        BY <2>2
      <4>2. CASE \E r \in complete: files[r].seq > files[s].seq
        <5> PICK r \in complete: files[r].seq > files[s].seq
          BY <4>2
        <5>1. \A q \in complete: files[q].seq <= files[r].seq
          BY SlotsAre DEF None
        <5> QED
          BY <5>1
      <4>3. CASE ~\E r \in complete: files[r].seq > files[s].seq
        BY <4>3 DEF None
      <4> QED
        BY <4>2, <4>3
    <3>3. Best(files) \in seqs /\ \A s \in complete: files[s].seq <= Best(files)
      <4> HIDE DEF seqs, complete
      <4> QED
        BY <3>1, <3>2
    <3> QED
      BY <3>3 DEF None
  <2> QED
    BY <2>1, <2>2
<1>2. \E s \in Slots: files[s].seq = Best(files)
                      /\ (files["snap-a"].seq = Best(files) => s = "snap-a")
  BY <1>1, SlotsAre
<1>3. BestSlot(files) \in Slots /\ files[BestSlot(files)].seq = Best(files)
  BY <1>2 DEF BestSlot
<1> QED
  BY <1>1, <1>3

\* Which is the newest.
LEMMA BestSlotIs ==
  ASSUME NEW files, NEW best \in Nat \cup {None}, NEW o \in Slots,
         \A s \in Slots: files[s].seq \in Nat \cup {None} /\ files[s].seq <= best,
         files[o].seq = best
  PROVE  Best(files) = best
<1>1. PICK s \in Slots: files[s].seq = Best(files)
  BY BestIs
<1>2. best <= Best(files) /\ Best(files) <= best
  BY <1>1, BestIs
<1> QED
  BY <1>2, BestIs DEF None

\* What is restored is as much of the history as the files reach.
LEMMA RestoredIs ==
  ASSUME NEW O \in Seq(Int), NEW file, JournalOf(file, O),
         NEW files, \A s \in Slots: files[s].seq \in Nat \cup {None} /\ SnapshotOf(files[s], O),
         Continues(file, SnapSeq(files))
  PROVE  /\ SnapSeq(files) \in 0..Len(O)
         /\ Reach(file, SnapSeq(files)) \in SnapSeq(files)..Len(O)
         /\ Restored(file, files) = SubSeq(O, 1, Reach(file, SnapSeq(files)))
         /\ RestoredSeq(file, files) = Reach(file, SnapSeq(files))
<1> DEFINE snap == SnapSeq(files)
           base == IF Best(files) = None THEN <<>> ELSE files[BestSlot(files)].body
<1>1. snap \in 0..Len(O) /\ base = SubSeq(O, 1, snap)
  <2>1. CASE Best(files) = None
    <3>1. SubSeq(O, 1, 0) = <<>>
      BY SubSeqEmpty
    <3> QED
      BY <2>1, <3>1 DEF SnapSeq
  <2>2. CASE Best(files) # None
    BY <2>2, BestIs DEF SnapSeq, SnapshotOf
  <2> QED
    BY <2>1, <2>2
<1> HIDE DEF base, snap
<1>2. /\ Len(file) \in Nat
      /\ \A i \in 1..Len(file): file[i].end \in Nat /\ file[i].end <= EndAt(file, Len(file))
      /\ EndAt(file, Len(file)) \in Nat /\ EndAt(file, Len(file)) <= Len(O)
      /\ Whole(file) = Len(file)
  BY EndsAre, WholeIsAll
<1>3. Reach(file, snap) \in snap..Len(O)
  BY <1>1, <1>2 DEF Reach, Over
<1>4. Restored(file, files) = SubSeq(O, 1, Reach(file, snap))
  <2>1. Newer(file, snap) = SubSeq(O, snap + 1, Reach(file, snap))
    BY <1>1, NewerIs DEF snap
  <2>2. Restored(file, files) = base \o Newer(file, snap)
    BY DEF Restored, base, snap
  <2>3. 1 \in 1..Len(O) + 1 /\ snap \in 1 - 1..Len(O) /\ Reach(file, snap) \in snap..Len(O)
    BY <1>1, <1>3
  <2>4. SubSeq(O, 1, snap) \o SubSeq(O, snap + 1, Reach(file, snap)) = SubSeq(O, 1, Reach(file, snap))
    BY <2>3, ConcatAdjacentSubSeq
  <2> QED
    BY <1>1, <2>1, <2>2, <2>4
<1>5. RestoredSeq(file, files) = Reach(file, snap)
  <2> DEFINE ends == {file[i].end : i \in 1..Len(file)} \cup {snap}
  <2>1. RestoredSeq(file, files) = CHOOSE n \in ends: \A m \in ends: m <= n
    <3>1. ends = {file[i].end : i \in 1..Whole(file)} \cup {SnapSeq(files)}
      BY <1>2 DEF snap
    <3> HIDE DEF ends
    <3> QED
      BY <3>1, Zenon DEF RestoredSeq
  <2>2. Reach(file, snap) \in ends
    BY <1>1, <1>2 DEF Reach, Over, EndAt
  <2>3. \A m \in ends: m \in Nat /\ m <= Reach(file, snap)
    BY <1>1, <1>2 DEF Reach, Over
  <2> HIDE DEF ends
  <2>4. \A n \in ends: (\A m \in ends: m <= n) => n = Reach(file, snap)
    BY <2>2, <2>3
  <2> QED
    BY <2>1, <2>2, <2>3, <2>4
<1> QED
  BY <1>1, <1>3, <1>4, <1>5 DEF snap


-----------------------------------------------------------------------------
\* Files under a history that grows or is cut behind them.

Agree(O, P, n) == n <= Len(O) /\ n <= Len(P) /\ \A i \in 1..n: O[i] = P[i]

\* OnDisk folded where it is matched: the provers expand SubSeq on sight.
Slice(O, m, n) == SubSeq(O, m, n)

LEMMA SliceSame ==
  ASSUME NEW O \in Seq(Int), NEW P \in Seq(Int), NEW n \in Nat, Agree(O, P, n),
         NEW c \in Nat, 1 <= c, NEW b \in Nat, b <= n
  PROVE  Slice(O, c, b) = Slice(P, c, b)
<1>0. SUFFICES SubSeq(O, c, b) = SubSeq(P, c, b)
  BY Zenon DEF Slice
<1>1. CASE b < c
  BY <1>1, SubSeqEmpty
<1>2. CASE c <= b
  <2>1. /\ SubSeq(O, c, b) = [i \in 1..(b - c + 1) |-> O[c + i - 1]]
        /\ SubSeq(P, c, b) = [i \in 1..(b - c + 1) |-> P[c + i - 1]]
    BY <1>2, SubSeqProperties
  <2>2. \A i \in 1..(b - c + 1): O[c + i - 1] = P[c + i - 1]
    <3>1. \A i \in 1..(b - c + 1): c + i - 1 \in 1..n
      BY <1>2
    <3> QED
      BY <3>1, Zenon DEF Agree
  <2> QED
    BY <2>1, <2>2, Zenon
<1>3. b < c \/ c <= b
  OBVIOUS
<1> QED
  BY <1>1, <1>2, <1>3, Zenon

LEMMA JournalSame ==
  ASSUME NEW O \in Seq(Int), NEW P \in Seq(Int), NEW n \in Nat, Agree(O, P, n),
         NEW file, JournalOf(file, O), EndAt(file, Len(file)) <= n
  PROVE  JournalOf(file, P)
<1>1. \A i \in 1..Len(file):
        /\ Start(file[i]) \in Nat /\ file[i].end \in Nat /\ file[i].end <= n
  <2>1. /\ Len(file) \in Nat /\ EndAt(file, Len(file)) \in Nat
        /\ \A i \in 1..Len(file): /\ Start(file[i]) \in Nat /\ file[i].end \in Nat
                                  /\ file[i].end <= EndAt(file, Len(file))
    <3>1. Len(file) \in 0..Len(file)
      BY EndsAre
    <3> QED
      BY <3>1, EndsAre
  <2> QED
    BY <2>1
<1>2. ASSUME NEW i \in 1..Len(file)
      PROVE  SubSeq(O, Start(file[i]) + 1, file[i].end) = SubSeq(P, Start(file[i]) + 1, file[i].end)
  <2>1. /\ Start(file[i]) + 1 \in Nat /\ 1 <= Start(file[i]) + 1
        /\ file[i].end \in Nat /\ file[i].end <= n
    BY <1>1
  <2>2. Slice(O, Start(file[i]) + 1, file[i].end) = Slice(P, Start(file[i]) + 1, file[i].end)
    BY <2>1, SliceSame
  <2> QED
    BY <2>2, Zenon DEF Slice
<1>3. \A i \in 1..Len(file): file[i].end <= Len(P)
  BY <1>1 DEF Agree
<1> QED
  BY <1>2, <1>3, Zenon DEF JournalOf

LEMMA SnapshotSame ==
  ASSUME NEW O \in Seq(Int), NEW P \in Seq(Int), NEW n \in Nat, Agree(O, P, n),
         NEW f, f.seq \in Nat \cup {None}, SnapshotOf(f, O), f.seq <= n
  PROVE  SnapshotOf(f, P)
<1>1. SUFFICES ASSUME f.seq # None
               PROVE  f.seq \in 0..Len(P) /\ f.body = SubSeq(P, 1, f.seq)
  BY DEF SnapshotOf
<1>2. f.seq \in Nat /\ f.seq <= n /\ f.body = SubSeq(O, 1, f.seq)
  BY <1>1 DEF SnapshotOf
<1>3. SubSeq(O, 1, f.seq) = SubSeq(P, 1, f.seq)
  <2>1. Slice(O, 1, f.seq) = Slice(P, 1, f.seq)
    BY <1>2, SliceSame
  <2> QED
    BY <2>1, Zenon DEF Slice
<1>4. f.seq <= Len(P)
  BY <1>2 DEF Agree
<1> QED
  BY <1>2, <1>3, <1>4

\* The frame that is written next to a journal.
LEMMA JournalExtends ==
  ASSUME NEW O \in Seq(Int), NEW file, JournalOf(file, O),
         NEW snap \in 0..Len(O), Continues(file, snap),
         NEW frame \in Frame, frame.end <= Len(O), Reach(file, snap) < frame.end,
         frame.recs = SubSeq(O, Reach(file, snap) + 1, frame.end)
  PROVE  /\ JournalOf(Append(file, frame), O) /\ Continues(Append(file, frame), snap)
         /\ Reach(Append(file, frame), snap) = frame.end
         /\ Len(Append(file, frame)) = Len(file) + 1
<1> DEFINE n == Len(file)
           longer == Append(file, frame)
           reach == Reach(file, snap)
<1>1. /\ file \in Seq(Frame) /\ n \in Nat /\ Len(O) \in Nat
      /\ \A i \in 1..n: file[i].end \in Nat /\ file[i].end <= EndAt(file, n) /\ file[i].end <= Len(O)
      /\ \A i \in 0..n: EndAt(file, i) \in Nat /\ EndAt(file, i) <= Len(O)
  BY EndsAre
<1>2. reach \in Nat /\ EndAt(file, n) <= reach /\ snap <= reach
  <2>1. EndAt(file, n) \in Nat /\ snap \in Nat
    BY <1>1
  <2> QED
    BY <2>1, OverIs DEF Reach
<1>3. /\ longer \in Seq(Frame) /\ Len(longer) = n + 1
      /\ \A i \in 1..n: longer[i] = file[i]
      /\ longer[n + 1] = frame
  BY <1>1, AppendProperties
<1>a. reach < frame.end /\ frame.recs = SubSeq(O, reach + 1, frame.end)
  OBVIOUS
<1> HIDE DEF reach
<1>4. frame.end \in Nat /\ Len(frame.recs) = frame.end - reach /\ Start(frame) = reach
  <2>1. frame.end \in Nat
    BY DEF Frame
  <2>2. Len(SubSeq(O, reach + 1, frame.end)) = frame.end - (reach + 1) + 1
    <3>1. reach + 1 \in 1..Len(O) + 1 /\ frame.end \in reach..Len(O)
      BY <1>a, <1>1, <1>2, <2>1
    <3> QED
      BY <1>2, <2>1, <3>1, SubSeqProperties
  <2>3. Len(frame.recs) = frame.end - reach
    <3>1. reach \in Nat
      BY <1>2
    <3>2. frame.end - (reach + 1) + 1 = frame.end - reach
      BY <2>1, <3>1
    <3> QED
      BY <1>a, <2>2, <3>2
  <2>4. Start(frame) = frame.end - Len(frame.recs)
    BY DEF Start
  <2>5. reach \in Nat
    BY <1>2
  <2>6. frame.end - (frame.end - reach) = reach
    BY <2>1, <2>5
  <2> QED
    BY <2>1, <2>3, <2>4, <2>6
<1>5. \A i \in 0..n: EndAt(longer, i) = EndAt(file, i)
  BY <1>1, <1>3 DEF EndAt
<1> HIDE DEF n, longer
<1>6. JournalOf(longer, O)
  <2>1. ASSUME NEW i \in 1..Len(longer)
        PROVE  /\ longer[i].end <= Len(O) /\ Len(longer[i].recs) <= longer[i].end
               /\ longer[i].recs = SubSeq(O, Start(longer[i]) + 1, longer[i].end)
    <3>1. CASE i = n + 1
      <4>1. longer[i] = frame
        BY <1>3, <3>1
      <4>2. Len(frame.recs) <= frame.end
        <5>1. reach \in Nat
          BY <1>2
        <5>2. frame.end - reach <= frame.end
          BY <1>4, <5>1
        <5> QED
          BY <1>4, <5>2
      <4>3. frame.recs = SubSeq(O, Start(frame) + 1, frame.end)
        BY <1>a, <1>4
      <4> QED
        BY <4>1, <4>2, <4>3
    <3>2. CASE i \in 1..n
      BY <1>3, <3>2 DEF JournalOf, n
    <3> QED
      BY <1>1, <1>3, <3>1, <3>2
  <2>2. ASSUME NEW i \in 1..Len(longer), NEW k \in 1..Len(longer), i <= k
        PROVE  longer[i].end <= longer[k].end
    <3>1. CASE k \in 1..n
      <4>1. i \in 1..n
        BY <1>1, <2>2, <3>1
      <4> QED
        BY <1>3, <2>2, <3>1, <4>1 DEF JournalOf, n
    <3>2. CASE k = n + 1 /\ i \in 1..n
      <4>1. longer[k] = frame /\ longer[i] = file[i]
        BY <1>3, <3>2
      <4>2. file[i].end \in Nat /\ file[i].end <= EndAt(file, n)
        BY <1>1, <3>2
      <4>3. EndAt(file, n) \in Nat
        BY <1>1
      <4>4. file[i].end <= reach
        BY <1>2, <4>2, <4>3
      <4>5. file[i].end <= frame.end
        BY <1>a, <1>2, <1>4, <4>2, <4>4
      <4> QED
        BY <4>1, <4>5
    <3>3. CASE k = n + 1 /\ i = n + 1
      BY <1>3, <1>4, <3>3
    <3> QED
      BY <1>1, <1>3, <3>1, <3>2, <3>3
  <2> QED
    BY <1>3, <2>1, <2>2 DEF JournalOf
<1>7. Continues(longer, snap)
  <2>1. ASSUME NEW i \in 1..Len(longer), longer[i].end > snap
        PROVE  Start(longer[i]) = Over(EndAt(longer, i - 1), snap)
    <3>1. CASE i = n + 1
      <4>1. EndAt(longer, i - 1) = EndAt(file, n)
        BY <1>1, <1>5, <3>1
      <4>2. Start(longer[i]) = reach
        BY <1>3, <1>4, <3>1
      <4> QED
        BY <4>1, <4>2 DEF reach, Reach, n
    <3>2. CASE i \in 1..n
      <4>1. EndAt(longer, i - 1) = EndAt(file, i - 1) /\ longer[i] = file[i]
        BY <1>1, <1>3, <1>5, <3>2
      <4> QED
        BY <2>1, <3>2, <4>1 DEF Continues, n
    <3> QED
      BY <1>1, <1>3, <3>1, <3>2
  <2> QED
    BY <2>1 DEF Continues
<1>8. Reach(longer, snap) = frame.end
  <2>1. EndAt(longer, Len(longer)) = frame.end
    BY <1>1, <1>3 DEF EndAt
  <2> QED
    BY <1>2, <1>4, <2>1 DEF Reach, Over, reach
<1> QED
  BY <1>3, <1>6, <1>7, <1>8 DEF longer, n

\* An empty journal, and one that a snapshot covers.
LEMMA JournalEmpty ==
  ASSUME NEW O \in Seq(Int), NEW snap \in Nat
  PROVE  JournalOf(<<>>, O) /\ Continues(<<>>, snap) /\ Reach(<<>>, snap) = snap
<1>1. <<>> \in Seq(Frame) /\ Len(<<>>) = 0
  OBVIOUS
<1>2. EndAt(<<>>, 0) = 0
  BY DEF EndAt
<1> QED
  BY <1>1, <1>2 DEF JournalOf, Continues, Reach, Over

LEMMA JournalCovered ==
  ASSUME NEW O \in Seq(Int), NEW file, JournalOf(file, O),
         NEW snap \in Nat, EndAt(file, Len(file)) <= snap
  PROVE  Continues(file, snap) /\ Reach(file, snap) = snap
<1>1. /\ \A i \in 1..Len(file): file[i].end \in Nat /\ file[i].end <= EndAt(file, Len(file))
      /\ EndAt(file, Len(file)) \in Nat
  BY EndsAre
<1>2. \A i \in 1..Len(file): ~(file[i].end > snap)
  BY <1>1
<1> QED
  BY <1>1, <1>2 DEF Continues, Reach, Over

-----------------------------------------------------------------------------
\* The inductive invariant.

\* The operations there are: in the kernel, or, after a crash, in the files.
History == IF Up THEN overlay ELSE Restored(jdisk, sdisk)

\* How far the files certainly keep them.
OnDisk == Reach(jdisk, SnapSeq(sdisk))

Draining == {"write", "flush"}
Snapping == {"sbody", "sflush", "sheader", "sflushh", "jtruncate", "jflush"}
Phases == {"idle", "publish", "wake", "down"} \cup Draining \cup Snapping

\* Where what is pending begins: behind what was taken, or behind what is stored.
Base == IF pc \in Draining \cup Snapping THEN taken.end ELSE OnDisk

SnapFile == [seq: Nat \cup {None}, body: Seq(Int)]

HistoryOK ==
  /\ overlay \in Seq(Int) /\ History \in Seq(Int) /\ written \in Nat
  /\ Up => seq = Len(overlay)
  /\ pc \in Phases /\ nextSlot \in Slots /\ taken \in Frame

\* What is stored are pieces of the history, and what is durable is among them.
StoredOK ==
  /\ JournalOf(jdisk, History) /\ Continues(jdisk, SnapSeq(sdisk))
  /\ sdisk \in [Slots -> SnapFile]
  /\ \A s \in Slots: SnapshotOf(sdisk[s], History)
  /\ durable \in Nat /\ durable <= OnDisk

\* The journal as written differs from the one stored by the frame, or the
\* truncation, that is to be flushed.
JournalOK ==
  /\ jcache = (IF pc = "flush" THEN Append(jdisk, taken)
               ELSE IF pc = "jflush" THEN <<>> ELSE jdisk)
  /\ Up => jsize = Len(jdisk)

\* The snapshots as written differ from those stored in the slot to be
\* overwritten, by the body and then by the header; the other slot has the
\* newest snapshot until the header is stored.
SlotsOK ==
  /\ scache = (IF pc = "sflush" THEN [sdisk EXCEPT ![nextSlot] = [seq |-> None, body |-> taken.recs]]
               ELSE IF pc = "sflushh" THEN [sdisk EXCEPT ![nextSlot] = [seq |-> taken.end, body |-> taken.recs]]
               ELSE sdisk)
  /\ pc \in {"sheader", "sflushh"} => sdisk[nextSlot] = [seq |-> None, body |-> taken.recs]
  /\ pc \in {"jtruncate", "jflush"} => sdisk[nextSlot].seq = taken.end /\ Best(sdisk) = taken.end
  /\ Up /\ pc \notin {"jtruncate", "jflush"} =>
       \A s \in Slots: s # nextSlot => sdisk[s].seq = Best(sdisk)

\* What was taken continues what is stored, or is all of the history; what is
\* pending continues what was taken.
TakenOK ==
  /\ OnDisk <= Base /\ Base <= Len(History)
  /\ pending = SubSeq(History, Base + 1, Len(History))
  /\ pc \in Draining => taken.recs = SubSeq(History, OnDisk + 1, taken.end) /\ OnDisk < taken.end
  /\ pc \in Snapping => taken.recs = SubSeq(History, 1, taken.end)
  /\ pc = "publish" => taken.end <= OnDisk

Sound == HistoryOK /\ StoredOK /\ JournalOK /\ SlotsOK /\ TakenOK

\* Nothing is claimed once a write to OPFS has failed.
IInv == fails \in Nat /\ (fails = 0 => Sound)

-----------------------------------------------------------------------------
\* What the invariant says of the numbers.

LEMMA Numbers ==
  ASSUME HistoryOK, StoredOK
  PROVE  /\ History \in Seq(Int) /\ Len(History) \in Nat
         /\ Len(jdisk) \in Nat /\ jdisk \in Seq(Frame)
         /\ EndAt(jdisk, Len(jdisk)) \in Nat /\ EndAt(jdisk, Len(jdisk)) <= OnDisk
         /\ SnapSeq(sdisk) \in 0..Len(History) /\ SnapSeq(sdisk) <= OnDisk
         /\ OnDisk \in Nat /\ OnDisk <= Len(History)
         /\ Restored(jdisk, sdisk) = SubSeq(History, 1, OnDisk)
         /\ RestoredSeq(jdisk, sdisk) = OnDisk
         /\ Best(sdisk) \in Nat \cup {None} /\ Best(sdisk) <= SnapSeq(sdisk)
         /\ \A s \in Slots: sdisk[s].seq \in Nat \cup {None} /\ sdisk[s].seq <= Best(sdisk)
<1>1. History \in Seq(Int) /\ JournalOf(jdisk, History) /\ Continues(jdisk, SnapSeq(sdisk))
  BY DEF HistoryOK, StoredOK
<1>2. \A s \in Slots: sdisk[s].seq \in Nat \cup {None} /\ SnapshotOf(sdisk[s], History)
  BY DEF StoredOK, SnapFile
<1>3. /\ SnapSeq(sdisk) \in 0..Len(History)
      /\ OnDisk \in SnapSeq(sdisk)..Len(History)
      /\ Restored(jdisk, sdisk) = SubSeq(History, 1, OnDisk)
      /\ RestoredSeq(jdisk, sdisk) = OnDisk
  BY <1>1, <1>2, RestoredIs DEF OnDisk
<1>4. Len(jdisk) \in Nat /\ jdisk \in Seq(Frame) /\ Len(History) \in Nat /\ EndAt(jdisk, Len(jdisk)) \in Nat
  <2>1. /\ jdisk \in Seq(Frame) /\ Len(jdisk) \in Nat /\ Len(History) \in Nat
        /\ \A i \in 0..Len(jdisk): EndAt(jdisk, i) \in Nat
    BY <1>1, EndsAre
  <2> QED
    BY <2>1
<1>5. EndAt(jdisk, Len(jdisk)) <= OnDisk
  <2>1. SnapSeq(sdisk) \in Nat
    BY <1>3, <1>4
  <2> QED
    BY <1>4, <2>1, OverIs DEF OnDisk, Reach
<1>6. /\ Best(sdisk) \in Nat \cup {None}
      /\ \A s \in Slots: sdisk[s].seq <= Best(sdisk)
  BY <1>2, BestIs
<1>7. Best(sdisk) <= SnapSeq(sdisk)
  BY <1>6 DEF SnapSeq, None
<1>8. OnDisk \in Nat /\ SnapSeq(sdisk) <= OnDisk /\ OnDisk <= Len(History)
  BY <1>3, <1>4
<1> QED
  BY <1>1, <1>2, <1>3, <1>4, <1>5, <1>6, <1>7, <1>8

LEMMA PhasesAre ==
  /\ "down" \notin Draining \cup Snapping
  /\ \A p \in {"idle", "publish", "wake"}: p \in Phases /\ p \notin Draining \cup Snapping /\ p # "down"
  /\ \A p \in Draining: p \in Phases /\ p \notin Snapping /\ p # "down"
  /\ \A p \in Snapping: p \in Phases /\ p \notin Draining /\ p # "down"
  /\ "write" \in Draining /\ "flush" \in Draining
  /\ \A p \in {"sbody", "sflush", "sheader", "sflushh", "jtruncate", "jflush"}: p \in Snapping
  /\ "down" \in Phases
BY DEF Draining, Snapping, Phases

-----------------------------------------------------------------------------
\* What a crash at any moment leaves.

\* Only the slot to be overwritten may differ from what is stored.
LEMMA RemainsAre ==
  ASSUME HistoryOK, StoredOK, SlotsOK, NEW s \in Slots, NEW r \in Remains(s)
  PROVE  \/ r = sdisk[s]
         \/ /\ s = nextSlot /\ pc = "sflush"
            /\ r \in SnapFile /\ r.seq = None
         \/ /\ s = nextSlot /\ pc = "sflushh"
            /\ r \in SnapFile /\ r.seq \in {None, taken.end} /\ r.body = taken.recs
<1>1. SUFFICES ASSUME r # sdisk[s]
               PROVE  \/ s = nextSlot /\ pc = "sflush" /\ r.seq = None /\ r \in SnapFile
                      \/ /\ s = nextSlot /\ pc = "sflushh"
                         /\ r \in SnapFile /\ r.seq \in {None, taken.end} /\ r.body = taken.recs
  OBVIOUS
<1>2. scache[s] # sdisk[s]
  BY <1>1 DEF Remains
<1>3. PICK h \in {None, scache[s].seq},
           b \in {scache[s].body} \cup (IF sdisk[s].body = scache[s].body THEN {} ELSE {<<Torn>>}):
             r = [seq |-> h, body |-> b]
  <2> DEFINE heads == {None, scache[s].seq}
             bodies == {scache[s].body} \cup (IF sdisk[s].body = scache[s].body THEN {} ELSE {<<Torn>>})
             mixed == {[seq |-> h, body |-> b] : h \in heads, b \in bodies}
  <2>1. Remains(s) = {sdisk[s]} \cup mixed
    BY <1>2 DEF Remains
  <2>2. r \in mixed
    <3> HIDE DEF mixed
    <3> QED
      BY <1>1, <2>1
  <2>3. \E h \in heads, b \in bodies: r = [seq |-> h, body |-> b]
    <3> HIDE DEF heads, bodies
    <3> QED
      BY <2>2
  <2> QED
    BY <2>3
<1>4. taken.recs \in Seq(Int) /\ taken.end \in Nat /\ <<Torn>> \in Seq(Int)
  BY DEF HistoryOK, Frame, Torn
<1>5. sdisk \in [Slots -> SnapFile]
  BY DEF StoredOK
<1>6. s = nextSlot /\ (pc = "sflush" \/ pc = "sflushh")
  <2>1. pc = "sflush" \/ pc = "sflushh"
    BY <1>2, Zenon DEF SlotsOK
  <2>2. scache = [sdisk EXCEPT ![nextSlot] = scache[nextSlot]]
    BY <1>5, <2>1 DEF SlotsOK
  <2> QED
    BY <1>2, <1>5, <2>1, <2>2
<1>7. CASE pc = "sflush"
  <2>1. scache[s] = [seq |-> None, body |-> taken.recs]
    BY <1>5, <1>6, <1>7 DEF SlotsOK
  <2>2. h = None /\ b \in Seq(Int)
    <3>1. scache[s].seq = None /\ scache[s].body = taken.recs
      BY <2>1
    <3>2. h = None
      BY <1>3, <3>1
    <3>3. b = taken.recs \/ b = <<Torn>>
      <4>1. b = scache[s].body \/ b \in (IF sdisk[s].body = scache[s].body THEN {} ELSE {<<Torn>>})
        BY <1>3
      <4>2. (IF sdisk[s].body = scache[s].body THEN {} ELSE {<<Torn>>}) \subseteq {<<Torn>>}
        BY Zenon
      <4> QED
        BY <3>1, <4>1, <4>2
    <3> QED
      BY <1>4, <3>2, <3>3
  <2> QED
    BY <1>3, <1>6, <1>7, <2>2 DEF SnapFile
<1>8. CASE pc = "sflushh"
  <2>1. /\ scache[s] = [seq |-> taken.end, body |-> taken.recs]
        /\ sdisk[s] = [seq |-> None, body |-> taken.recs]
    BY <1>5, <1>6, <1>8 DEF SlotsOK
  <2>2. h \in {None, taken.end} /\ b = taken.recs
    BY <1>3, <2>1
  <2> QED
    BY <1>3, <1>4, <1>6, <1>8, <2>2 DEF SnapFile
<1> QED
  BY <1>6, <1>7, <1>8

LEMMA BaseIs ==
  ASSUME HistoryOK, StoredOK, TakenOK
  PROVE  /\ taken.end \in Nat
         /\ pc \in Draining \cup Snapping =>
              Base = taken.end /\ OnDisk <= taken.end /\ taken.end <= Len(History)
         /\ pc \notin Draining \cup Snapping => Base = OnDisk
BY DEF HistoryOK, Frame, Base, TakenOK

LEMMA FilesAre ==
  ASSUME HistoryOK, StoredOK, SlotsOK, TakenOK, Up,
         NEW a \in Remains("snap-a"), NEW b \in Remains("snap-b"),
         NEW files, files = [s \in Slots |-> IF s = "snap-a" THEN a ELSE b]
  PROVE  /\ files \in [Slots -> SnapFile]
         /\ \A s \in Slots: files[s].seq \in Nat \cup {None} /\ SnapshotOf(files[s], History)
         /\ \/ SnapSeq(files) = SnapSeq(sdisk)
            \/ pc = "sflushh" /\ SnapSeq(files) = taken.end
<1>1. \A s \in Slots:
        \/ files[s] = sdisk[s]
        \/ s = nextSlot /\ pc = "sflush" /\ files[s] \in SnapFile /\ files[s].seq = None
        \/ /\ s = nextSlot /\ pc = "sflushh"
           /\ files[s] \in SnapFile /\ files[s].seq \in {None, taken.end} /\ files[s].body = taken.recs
  <2>1. ASSUME NEW s \in Slots
        PROVE  files[s] \in Remains(s)
    <3>1. s = "snap-a" \/ s = "snap-b"
      BY SlotsAre
    <3>2. files[s] = IF s = "snap-a" THEN a ELSE b
      OBVIOUS
    <3> QED
      BY <3>1, <3>2
  <2> QED
    BY <2>1, RemainsAre
<1>2. sdisk \in [Slots -> SnapFile] /\ \A s \in Slots: SnapshotOf(sdisk[s], History)
  BY DEF StoredOK
<1>3. \A s \in Slots: files[s] \in SnapFile
  BY <1>1, <1>2
<1>4. \A s \in Slots: files[s].seq \in Nat \cup {None}
  BY <1>3 DEF SnapFile
<1>5. ASSUME NEW s \in Slots
      PROVE  SnapshotOf(files[s], History)
  <2>1. CASE files[s] = sdisk[s]
    BY <1>2, <2>1
  <2>2. CASE files[s].seq = None
    BY <2>2 DEF SnapshotOf
  <2>3. CASE pc = "sflushh" /\ files[s].seq = taken.end /\ files[s].body = taken.recs
    <3>1. taken.end \in 0..Len(History) /\ taken.recs = SubSeq(History, 1, taken.end)
      <4>1. pc \in Snapping
        BY <2>3, PhasesAre
      <4>2. taken.end \in Nat /\ taken.end <= Len(History) /\ Len(History) \in Nat
        BY <4>1, BaseIs, Numbers
      <4> QED
        BY <4>1, <4>2 DEF TakenOK
    <3> QED
      BY <2>3, <3>1 DEF SnapshotOf
  <2> QED
    BY <1>1, <2>1, <2>2, <2>3
<1>6. /\ Best(sdisk) \in Nat \cup {None}
      /\ \A s \in Slots: sdisk[s].seq \in Nat \cup {None} /\ sdisk[s].seq <= Best(sdisk)
  BY Numbers
<1>7. taken.end \in Nat
  BY BaseIs
<1>8. PICK o \in Slots: files[o].seq = Best(sdisk)
  <2>1. CASE pc \in {"jtruncate", "jflush"}
    <3>1. \A s \in Slots: files[s] = sdisk[s]
      BY <1>1, <2>1
    <3> QED
      BY <1>6, <3>1, BestIs
  <2>2. CASE pc \notin {"jtruncate", "jflush"}
    <3>1. PICK o \in Slots: o # nextSlot
      BY SlotsAre
    <3>2. files[o] = sdisk[o]
      BY <1>1, <3>1
    <3> QED
      BY <2>2, <3>1, <3>2 DEF SlotsOK
  <2> QED
    BY <2>1, <2>2
<1>9. CASE \A s \in Slots: files[s].seq <= Best(sdisk)
  <2>1. Best(files) = Best(sdisk)
    BY <1>4, <1>6, <1>8, <1>9, BestSlotIs
  <2> QED
    BY <1>3, <1>4, <1>5, <2>1, Zenon DEF SnapSeq
<1>10. ASSUME NEW n \in Slots, ~(files[n].seq <= Best(sdisk))
       PROVE  pc = "sflushh" /\ SnapSeq(files) = taken.end
  <2>1. files[n] # sdisk[n] /\ files[n].seq # None
    BY <1>4, <1>6, <1>10 DEF None
  <2>2. pc = "sflushh" /\ files[n].seq = taken.end /\ n = nextSlot
    BY <1>1, <2>1
  <2>3. \A s \in Slots: files[s].seq <= taken.end
    <3>1. ASSUME NEW s \in Slots
          PROVE  files[s].seq <= taken.end
      <4>1. CASE files[s] = sdisk[s]
        BY <1>6, <1>7, <1>10, <2>2, <4>1 DEF None
      <4>2. CASE files[s].seq = None \/ files[s].seq = taken.end
        BY <1>7, <4>2 DEF None
      <4> QED
        BY <1>1, <2>2, <4>1, <4>2
    <3> QED
      BY <3>1
  <2>4. Best(files) = taken.end
    BY <1>4, <1>7, <2>2, <2>3, BestSlotIs
  <2> QED
    BY <1>7, <2>2, <2>4 DEF SnapSeq, None
<1>11. files \in [Slots -> SnapFile]
  BY <1>3
<1> QED
  BY <1>4, <1>5, <1>9, <1>10, <1>11

\* What the journal keeps, on top of what a crash leaves of the snapshots: no
\* less than is certainly stored.
LEMMA FutureIs ==
  ASSUME HistoryOK, StoredOK, JournalOK, SlotsOK, TakenOK, Up,
         NEW j \in {jdisk, jcache},
         NEW a \in Remains("snap-a"), NEW b \in Remains("snap-b"),
         NEW files, files = [s \in Slots |-> IF s = "snap-a" THEN a ELSE b]
  PROVE  /\ JournalOf(j, History) /\ Continues(j, SnapSeq(files))
         /\ OnDisk <= Reach(j, SnapSeq(files))
         /\ Reach(j, SnapSeq(files)) \in SnapSeq(files)..Len(History)
         /\ SnapSeq(files) \in 0..Len(History)
         /\ Restored(j, files) = SubSeq(History, 1, Reach(j, SnapSeq(files)))
<1> DEFINE snap == SnapSeq(files)
<1>1. /\ \A s \in Slots: files[s].seq \in Nat \cup {None} /\ SnapshotOf(files[s], History)
      /\ snap = SnapSeq(sdisk) \/ (pc = "sflushh" /\ snap = taken.end)
  BY FilesAre
<1>2. /\ History \in Seq(Int) /\ Len(History) \in Nat
      /\ EndAt(jdisk, Len(jdisk)) \in Nat /\ EndAt(jdisk, Len(jdisk)) <= OnDisk
      /\ SnapSeq(sdisk) \in 0..Len(History) /\ SnapSeq(sdisk) \in Nat
      /\ OnDisk \in Nat
  BY Numbers
<1>3. JournalOf(jdisk, History) /\ Continues(jdisk, SnapSeq(sdisk))
  BY DEF StoredOK
<1>4. taken \in Frame /\ taken.end \in Nat
  BY BaseIs DEF HistoryOK
<1>5. JournalOf(j, History) /\ Continues(j, snap) /\ OnDisk <= Reach(j, snap)
  <2>1. CASE snap = SnapSeq(sdisk) /\ j = jdisk
    BY <1>2, <1>3, <2>1 DEF OnDisk
  <2>2. CASE snap = SnapSeq(sdisk) /\ j = jcache /\ pc = "flush"
    <3>1. j = Append(jdisk, taken) /\ pc \in Draining
      BY <2>2, PhasesAre DEF JournalOK
    <3>2. /\ taken.end <= Len(History) /\ Reach(jdisk, snap) < taken.end
          /\ taken.recs = SubSeq(History, Reach(jdisk, snap) + 1, taken.end)
      BY <2>2, <3>1, BaseIs DEF TakenOK, OnDisk
    <3>3. /\ JournalOf(Append(jdisk, taken), History) /\ Continues(Append(jdisk, taken), snap)
          /\ Reach(Append(jdisk, taken), snap) = taken.end
      BY <1>2, <1>3, <1>4, <2>2, <3>2, JournalExtends
    <3>4. OnDisk < taken.end
      BY <2>2, <3>2 DEF OnDisk
    <3> QED
      BY <1>2, <1>4, <3>1, <3>3, <3>4
  <2>3. CASE snap = SnapSeq(sdisk) /\ j = jcache /\ pc = "jflush"
    <3>1. j = <<>> /\ pc \in Snapping
      BY <2>3, PhasesAre DEF JournalOK
    <3>2. SnapSeq(sdisk) = taken.end
      BY <1>4, <2>3 DEF SlotsOK, SnapSeq, None
    <3>3. OnDisk <= taken.end
      BY <3>1, BaseIs
    <3>4. JournalOf(<<>>, History) /\ Continues(<<>>, snap) /\ Reach(<<>>, snap) = snap
      BY <1>2, <2>3, JournalEmpty
    <3> QED
      BY <2>3, <3>1, <3>2, <3>3, <3>4
  <2>4. CASE pc = "sflushh" /\ snap = taken.end /\ j = jdisk
    <3>1. OnDisk <= taken.end
      BY <2>4, BaseIs, PhasesAre
    <3>2. EndAt(jdisk, Len(jdisk)) <= taken.end
      BY <1>2, <1>4, <3>1
    <3>3. Continues(jdisk, snap) /\ Reach(jdisk, snap) = snap
      BY <1>2, <1>3, <1>4, <2>4, <3>2, JournalCovered
    <3> QED
      BY <1>3, <2>4, <3>1, <3>3
  <2>5. pc # "flush" /\ pc # "jflush" => jcache = jdisk
    BY DEF JournalOK
  <2> QED
    BY <1>1, <2>1, <2>2, <2>3, <2>4, <2>5
<1>6. /\ snap \in 0..Len(History)
      /\ Reach(j, snap) \in snap..Len(History)
      /\ Restored(j, files) = SubSeq(History, 1, Reach(j, snap))
  BY <1>1, <1>2, <1>5, RestoredIs
<1> QED
  BY <1>5, <1>6

-----------------------------------------------------------------------------
\* Steps that leave parts of the invariant as they are.

LEMMA StaysUp ==
  ASSUME HistoryOK, Up, UNCHANGED <<overlay, seq, written>>,
         pc' \in Phases, pc' # "down", nextSlot' \in Slots, taken' \in Frame
  PROVE  HistoryOK' /\ History' = History /\ Up'
BY DEF HistoryOK, History, Up

LEMMA FilesStay ==
  ASSUME StoredOK, UNCHANGED <<jdisk, sdisk>>, durable' \in Nat, durable' <= OnDisk, History' = History
  PROVE  StoredOK' /\ OnDisk' = OnDisk
<1>1. OnDisk' = OnDisk
  BY DEF OnDisk
<1> QED
  BY <1>1, Zenon DEF StoredOK

LEMMA JournalStays ==
  ASSUME JournalOK, UNCHANGED journal, Up,
         pc \notin {"flush", "jflush"}, pc' \notin {"flush", "jflush"}
  PROVE  JournalOK'
BY DEF JournalOK, journal

LEMMA SlotsStay ==
  ASSUME SlotsOK, UNCHANGED <<sdisk, scache, nextSlot>>, Up,
         pc \notin {"sflush", "sheader", "sflushh", "jtruncate", "jflush"},
         pc' \notin {"sflush", "sheader", "sflushh", "jtruncate", "jflush"}
  PROVE  SlotsOK'
<1>1. scache' = sdisk'
  BY DEF SlotsOK
<1>2. \A s \in Slots: s # nextSlot' => sdisk'[s].seq = Best(sdisk')
  BY DEF SlotsOK
<1> QED
  BY <1>1, <1>2, Zenon DEF SlotsOK

LEMMA Bystands ==
  ASSUME Sound,
         UNCHANGED <<overlay, pending, seq, durable, jdisk, jcache, jsize, sdisk, scache, nextSlot,
                     pc, taken, written>>
  PROVE  Sound'
<1>1. HistoryOK'
  BY DEF Sound, HistoryOK, History, Up
<1>2. StoredOK'
  BY DEF Sound, StoredOK, History, Up, OnDisk
<1>3. JournalOK'
  BY DEF Sound, JournalOK, Up
<1>4. SlotsOK'
  BY DEF Sound, SlotsOK, Up
<1>5. TakenOK'
  BY DEF Sound, TakenOK, Base, History, Up, OnDisk
<1> QED
  BY <1>1, <1>2, <1>3, <1>4, <1>5 DEF Sound

-----------------------------------------------------------------------------
\* An operation.

LEMMA SubSeqAppend ==
  ASSUME NEW O \in Seq(Int), NEW w \in Int, NEW a \in Nat, a <= Len(O)
  PROVE  SubSeq(Append(O, w), a + 1, Len(O) + 1) = Append(SubSeq(O, a + 1, Len(O)), w)
<1> DEFINE n == Len(O)
           P == Append(O, w)
<1>1. n \in Nat /\ P \in Seq(Int) /\ Len(P) = n + 1 /\ P[n + 1] = w /\ \A i \in 1..n: P[i] = O[i]
  BY AppendProperties
<1> HIDE DEF n, P
<1>2. a + 1 \in 1..Len(P) + 1 /\ n + 1 \in a..Len(P) /\ a + 1 \in 1..n + 1 /\ n \in a..n
  BY <1>1 DEF n
<1>3. /\ SubSeq(P, a + 1, n + 1) \in Seq(Int)
      /\ Len(SubSeq(P, a + 1, n + 1)) = n - a + 1
      /\ \A i \in 1..n - a + 1: SubSeq(P, a + 1, n + 1)[i] = P[a + i]
  <2> DEFINE lo == a + 1
             hi == n + 1
             cut == SubSeq(P, lo, hi)
  <2>1. lo \in 1..Len(P) + 1 /\ hi \in lo - 1..Len(P)
    BY <1>1, <1>2
  <2>2. lo = a + 1 /\ hi = n + 1
    OBVIOUS
  <2> HIDE DEF lo, hi
  <2>3. cut \in Seq(Int) /\ Len(cut) = hi - lo + 1 /\ \A i \in 1..hi - lo + 1: cut[i] = P[lo + i - 1]
    BY <1>1, <2>1, SubSeqProperties
  <2>4. cut = SubSeq(P, a + 1, n + 1)
    BY <2>2, Zenon
  <2> HIDE DEF cut
  <2>5. hi - lo + 1 = n - a + 1 /\ \A i \in 1..n - a + 1: lo + i - 1 = a + i
    BY <1>1, <2>2
  <2>6. Len(cut) = n - a + 1 /\ \A i \in 1..n - a + 1: cut[i] = P[lo + i - 1]
    BY <2>3, <2>5, Zenon
  <2>7. \A i \in 1..n - a + 1: cut[i] = P[a + i]
    BY <2>5, <2>6, Zenon
  <2> QED
    BY <2>3, <2>4, <2>6, <2>7, Zenon
<1>4. /\ SubSeq(O, a + 1, n) \in Seq(Int)
      /\ Len(SubSeq(O, a + 1, n)) = n - a
      /\ \A i \in 1..n - a: SubSeq(O, a + 1, n)[i] = O[a + i]
  <2>1. n = Len(O)
    BY DEF n
  <2>2. /\ SubSeq(O, a + 1, n) = [i \in 1..(n - (a + 1) + 1) |-> O[a + 1 + i - 1]]
        /\ SubSeq(O, a + 1, n) \in Seq(Int)
        /\ Len(SubSeq(O, a + 1, n)) = n - (a + 1) + 1
    BY <1>1, <1>2, <2>1, SubSeqProperties
  <2>3. n - (a + 1) + 1 = n - a /\ \A i \in 1..n - a: a + 1 + i - 1 = a + i
    BY <1>1
  <2>4. \A i \in 1..n - a: SubSeq(O, a + 1, n)[i] = O[a + 1 + i - 1]
    BY <2>2, <2>3
  <2> QED
    BY <2>2, <2>3, <2>4
<1> DEFINE left == SubSeq(P, a + 1, n + 1)
           piece == SubSeq(O, a + 1, n)
           right == Append(piece, w)
<1>5. /\ right \in Seq(Int) /\ Len(right) = n - a + 1
      /\ \A i \in 1..n - a: right[i] = piece[i]
      /\ right[n - a + 1] = w
  <2> HIDE DEF piece
  <2>1. piece \in Seq(Int) /\ Len(piece) = n - a
    BY <1>4 DEF piece
  <2> QED
    BY <2>1, AppendProperties
<1>6. \A i \in 1..n - a + 1: left[i] = right[i]
  <2>1. ASSUME NEW i \in 1..n - a
        PROVE  left[i] = right[i]
    <3>1. left[i] = P[a + i]
      BY <1>1, <1>2, <1>3
    <3>2. right[i] = O[a + i]
      BY <1>4, <1>5
    <3>3. a + i \in 1..n
      BY <1>1, <1>2
    <3> QED
      BY <1>1, <3>1, <3>2, <3>3
  <2>2. left[n - a + 1] = right[n - a + 1]
    <3>1. left[n - a + 1] = P[a + (n - a + 1)] /\ a + (n - a + 1) = n + 1
      BY <1>1, <1>2, <1>3
    <3> QED
      BY <1>1, <1>5, <3>1
  <2> HIDE DEF left, right
  <2> QED
    BY <1>1, <1>2, <2>1, <2>2
<1>7. left = right
  <2>1. left \in Seq(Int) /\ Len(left) = n - a + 1 /\ right \in Seq(Int) /\ Len(right) = n - a + 1
    BY <1>3, <1>5
  <2> HIDE DEF left, right
  <2> QED
    BY <1>6, <2>1, SeqEqual
<1> QED
  BY <1>7 DEF n, P

LEMMA WriteKeeps ==
  ASSUME Sound, Write
  PROVE  Sound'
<1> DEFINE n == Len(History)
<1> USE DEF Sound
<1>1. /\ Up /\ Up' /\ pc' = pc
      /\ UNCHANGED <<durable, jdisk, jcache, jsize, sdisk, scache, nextSlot, taken>>
      /\ overlay \in Seq(Int) /\ written' \in Int /\ written' \in Nat
  BY DEF Write, HistoryOK, Up, journal, snaps
<1>2. History = overlay /\ History' = Append(History, written')
  BY <1>1 DEF Write, History
<1>3. /\ n \in Nat /\ History \in Seq(Int) /\ History' \in Seq(Int) /\ Len(History') = n + 1
      /\ \A i \in 1..n: History[i] = History'[i]
  BY <1>1, <1>2, AppendProperties
<1>4. Agree(History, History', n)
  BY <1>3 DEF Agree
<1>5. OnDisk' = OnDisk
  BY <1>1 DEF OnDisk
<1>6. HistoryOK'
  BY <1>1, <1>2, <1>3 DEF HistoryOK, Write, Up
<1>7. StoredOK'
  <2>1. JournalOf(jdisk, History')
    <3>1. JournalOf(jdisk, History) /\ EndAt(jdisk, Len(jdisk)) <= n
      <4>1. EndAt(jdisk, Len(jdisk)) \in Nat /\ EndAt(jdisk, Len(jdisk)) <= OnDisk /\ OnDisk \in Nat /\ OnDisk <= n
        BY Numbers
      <4> QED
        BY <1>3, <4>1 DEF StoredOK
    <3> HIDE DEF n
    <3> QED
      BY <1>3, <1>4, <3>1, JournalSame
  <2>2. ASSUME NEW s \in Slots
        PROVE  SnapshotOf(sdisk[s], History')
    <3>1. /\ SnapshotOf(sdisk[s], History) /\ sdisk[s].seq \in Nat \cup {None}
          /\ sdisk[s].seq <= n
      <4>1. /\ sdisk[s].seq \in Nat \cup {None} /\ sdisk[s].seq <= Best(sdisk)
            /\ Best(sdisk) \in Nat \cup {None} /\ Best(sdisk) <= SnapSeq(sdisk) /\ SnapSeq(sdisk) \in 0..n
        BY Numbers
      <4> QED
        BY <1>3, <4>1 DEF StoredOK, None
    <3> HIDE DEF n
    <3> QED
      BY <1>3, <1>4, <3>1, SnapshotSame
  <2> QED
    BY <1>1, <1>5, <2>1, <2>2 DEF StoredOK
<1>8. JournalOK'
  BY <1>1 DEF JournalOK
<1>9. SlotsOK'
  BY <1>1 DEF SlotsOK
<1>10. TakenOK'
  <2>1. Base' = Base
    BY <1>1, <1>5 DEF Base
  <2>2. /\ Base \in Nat /\ OnDisk \in Nat /\ OnDisk <= Base /\ Base <= n /\ taken.end \in Nat
        /\ pc \in Draining \cup Snapping => taken.end <= n
    BY Numbers, BaseIs DEF TakenOK, Base
  <2>3. pending' = SubSeq(History', Base + 1, Len(History'))
    <3>1. pending' = Append(SubSeq(History, Base + 1, n), written')
      BY DEF Write, TakenOK
    <3>2. SubSeq(Append(History, written'), Base + 1, n + 1) = Append(SubSeq(History, Base + 1, n), written')
      BY <1>1, <1>3, <2>2, SubSeqAppend
    <3> QED
      BY <1>2, <1>3, <3>1, <3>2
  <2>4. ASSUME NEW c \in Nat, 1 <= c, pc \in Draining \cup Snapping
        PROVE  Slice(History, c, taken.end) = Slice(History', c, taken.end)
    <3>1. taken.end \in Nat /\ taken.end <= n
      BY <2>2, <2>4
    <3> HIDE DEF n
    <3> QED
      BY <1>3, <1>4, <2>4, <3>1, SliceSame
  <2>5. pc \in Draining => SubSeq(History, OnDisk + 1, taken.end) = SubSeq(History', OnDisk + 1, taken.end)
    <3>1. OnDisk + 1 \in Nat /\ 1 <= OnDisk + 1
      BY <2>2
    <3>2. pc \in Draining => Slice(History, OnDisk + 1, taken.end) = Slice(History', OnDisk + 1, taken.end)
      BY <2>4, <3>1
    <3> QED
      BY <3>2, Zenon DEF Slice
  <2>6. pc \in Snapping => SubSeq(History, 1, taken.end) = SubSeq(History', 1, taken.end)
    <3>1. pc \in Snapping => Slice(History, 1, taken.end) = Slice(History', 1, taken.end)
      BY <2>4
    <3> QED
      BY <3>1, Zenon DEF Slice
  <2>7. OnDisk' <= Base' /\ Base' <= Len(History')
    BY <1>3, <1>5, <2>1, <2>2
  <2> QED
    BY <1>1, <1>5, <2>1, <2>3, <2>5, <2>6, <2>7 DEF TakenOK
<1> QED
  BY <1>6, <1>7, <1>8, <1>9, <1>10

-----------------------------------------------------------------------------
\* The drain.

LEMMA DrainTakeKeeps ==
  ASSUME Sound, DrainTake
  PROVE  Sound'
<1> USE DEF Sound
<1>1. /\ Up /\ pc = "idle" /\ pc' \in {"publish", "write"}
      /\ UNCHANGED <<overlay, seq, durable, jdisk, jcache, jsize, sdisk, scache, nextSlot, written>>
      /\ taken'.recs = pending /\ taken'.end = seq /\ taken' = [recs |-> pending, end |-> seq]
      /\ pending' = <<>>
      /\ pc' = IF pending = <<>> THEN "publish" ELSE "write"
  BY DEF DrainTake, Up, journal, snaps, counts
<1>2. /\ History = overlay /\ seq = Len(History) /\ History \in Seq(Int) /\ Len(History) \in Nat
      /\ OnDisk \in Nat /\ OnDisk <= Len(History) /\ Base = OnDisk
      /\ pending = SubSeq(History, OnDisk + 1, Len(History))
  BY <1>1, Numbers, BaseIs, PhasesAre DEF History, HistoryOK, TakenOK
<1>3. pending \in Seq(Int) /\ Len(pending) = Len(History) - OnDisk
  <2>1. OnDisk + 1 \in 1..Len(History) + 1 /\ Len(History) \in OnDisk..Len(History)
    BY <1>2
  <2>2. \A i \in OnDisk + 1..Len(History): History[i] \in Int
    BY <1>2
  <2>3. /\ SubSeq(History, OnDisk + 1, Len(History)) \in Seq(Int)
        /\ Len(SubSeq(History, OnDisk + 1, Len(History))) = IF OnDisk + 1 <= Len(History) THEN Len(History) - (OnDisk + 1) + 1 ELSE 0
    BY <1>2, <2>2, SubSeqProperties
  <2>4. (IF OnDisk + 1 <= Len(History) THEN Len(History) - (OnDisk + 1) + 1 ELSE 0) = Len(History) - OnDisk
    BY <1>2
  <2> QED
    BY <1>2, <2>3, <2>4
<1>4. taken' \in Frame
  BY <1>1, <1>2, <1>3 DEF Frame
<1>5. HistoryOK' /\ History' = History /\ Up'
  <2>1. pc' \in Phases /\ pc' # "down" /\ nextSlot' \in Slots
    BY <1>1, PhasesAre DEF HistoryOK
  <2> QED
    BY <1>1, <1>4, <2>1, StaysUp
<1>6. StoredOK' /\ OnDisk' = OnDisk
  BY <1>1, <1>5, FilesStay DEF StoredOK
<1>7. JournalOK'
  BY <1>1, JournalStays DEF journal
<1>8. SlotsOK'
  BY <1>1, SlotsStay
<1>9. TakenOK'
  <2>1. CASE pending = <<>>
    <3>1. pc' = "publish" /\ Base' = OnDisk /\ OnDisk = Len(History)
      <4>1. pc' = "publish" /\ Base' = OnDisk
        BY <1>1, <1>6, <2>1, PhasesAre DEF Base
      <4>2. Len(pending) = 0
        BY <2>1
      <4> QED
        BY <1>2, <1>3, <4>1, <4>2
    <3>2. SubSeq(History, OnDisk + 1, Len(History)) = <<>>
      BY <1>2, <2>1
    <3> QED
      BY <1>1, <1>2, <1>5, <1>6, <3>1, <3>2, PhasesAre DEF TakenOK
  <2>2. CASE pending # <<>>
    <3>1. pc' = "write" /\ Base' = Len(History)
      BY <1>1, <1>2, <2>2, PhasesAre DEF Base
    <3>2. Len(pending) # 0
      BY <1>3, <2>2
    <3>3. OnDisk < Len(History)
      BY <1>2, <1>3, <3>2
    <3>4. SubSeq(History, Len(History) + 1, Len(History)) = <<>>
      BY <1>2, SubSeqEmpty
    <3> QED
      BY <1>1, <1>2, <1>5, <1>6, <3>1, <3>3, <3>4, PhasesAre DEF TakenOK
  <2> QED
    BY <2>1, <2>2
<1> QED
  BY <1>5, <1>6, <1>7, <1>8, <1>9

LEMMA DrainWriteKeeps ==
  ASSUME Sound, DrainWrite
  PROVE  Sound'
<1> USE DEF Sound
<1>1. /\ Up /\ pc = "write" /\ pc' = "flush"
      /\ UNCHANGED <<overlay, pending, seq, durable, jdisk, jsize, sdisk, scache, nextSlot, taken, written>>
      /\ jcache' = Written(jcache, jsize, taken)
  BY DEF DrainWrite, Up, kernel, snaps, counts
<1>2. HistoryOK' /\ History' = History /\ Up'
  <2>1. pc' \in Phases /\ pc' # "down" /\ nextSlot' \in Slots /\ taken' \in Frame
    BY <1>1, PhasesAre DEF HistoryOK
  <2> QED
    BY <1>1, <2>1, StaysUp
<1>3. StoredOK' /\ OnDisk' = OnDisk
  BY <1>1, <1>2, FilesStay DEF StoredOK
<1>4. JournalOK'
  <2>1. jcache = jdisk /\ jsize = Len(jdisk) /\ jdisk \in Seq(Frame) /\ Len(jdisk) \in Nat
    BY <1>1, Numbers DEF JournalOK
  <2>2. Written(jdisk, Len(jdisk), taken) = Append(jdisk, taken)
    <3>1. /\ Append(jdisk, taken) \in Seq(Frame) /\ Len(Append(jdisk, taken)) = Len(jdisk) + 1
          /\ \A i \in 1..Len(jdisk): Append(jdisk, taken)[i] = jdisk[i]
          /\ Append(jdisk, taken)[Len(jdisk) + 1] = taken
      BY <2>1, AppendProperties DEF HistoryOK
    <3>2. /\ Written(jdisk, Len(jdisk), taken) \in Seq(Frame)
          /\ Len(Written(jdisk, Len(jdisk), taken)) = Len(jdisk) + 1
          /\ \A i \in 1..Len(jdisk) + 1:
               Written(jdisk, Len(jdisk), taken)[i] = IF i = Len(jdisk) + 1 THEN taken ELSE jdisk[i]
      <4> DEFINE n == Len(jdisk) + 1
                 w == Written(jdisk, Len(jdisk), taken)
      <4>1. w = [i \in 1..n |-> IF i = n THEN taken ELSE IF i <= Len(jdisk) THEN jdisk[i] ELSE Hole]
        BY DEF Written
      <4>2. \A i \in 1..n: i = n \/ i \in 1..Len(jdisk)
        BY <2>1
      <4>3. \A i \in 1..n: w[i] = IF i = n THEN taken ELSE jdisk[i]
        BY <2>1, <4>1, <4>2
      <4>4. \A i \in 1..n: w[i] \in Frame
        BY <2>1, <4>2, <4>3, SMTT(30) DEF HistoryOK
      <4>5. n \in Nat /\ DOMAIN w = 1..n /\ w \in [1..n -> Frame]
        BY <2>1, <4>1, <4>4
      <4> HIDE DEF n, w
      <4>6. w \in Seq(Frame) /\ Len(w) = n
        BY <4>5
      <4> QED
        BY <4>3, <4>6 DEF n, w
    <3>3. \A i \in 1..Len(jdisk) + 1: i = Len(jdisk) + 1 \/ i \in 1..Len(jdisk)
      BY <2>1
    <3> DEFINE left == Written(jdisk, Len(jdisk), taken)
               right == Append(jdisk, taken)
    <3>4. /\ left \in Seq(Frame) /\ right \in Seq(Frame) /\ Len(left) = Len(right)
          /\ \A i \in 1..Len(left): left[i] = right[i]
      BY <3>1, <3>2, <3>3
    <3> HIDE DEF left, right
    <3>5. left = right
      BY <3>4, SeqEqual
    <3> QED
      BY <3>5 DEF left, right
  <2> QED
    BY <1>1, <1>2, <2>1, <2>2 DEF JournalOK
<1>5. SlotsOK'
  BY <1>1, SlotsStay
<1>6. TakenOK'
  <2>1. Base' = Base /\ pc \in Draining /\ pc' \in Draining /\ pc' \notin Snapping
    BY <1>1, PhasesAre DEF Base
  <2> QED
    BY <1>1, <1>2, <1>3, <2>1 DEF TakenOK
<1> QED
  BY <1>2, <1>3, <1>4, <1>5, <1>6

LEMMA DrainFlushKeeps ==
  ASSUME Sound, DrainFlush
  PROVE  Sound'
<1> USE DEF Sound
<1>1. /\ Up /\ pc = "flush" /\ pc' = "publish"
      /\ UNCHANGED <<overlay, pending, seq, durable, jcache, sdisk, scache, nextSlot, taken, written>>
      /\ jdisk' = jcache /\ jsize' = jsize + 1
  BY DEF DrainFlush, Up, kernel, snaps, counts
<1>2. HistoryOK' /\ History' = History /\ Up'
  <2>1. pc' \in Phases /\ pc' # "down" /\ nextSlot' \in Slots /\ taken' \in Frame
    BY <1>1, PhasesAre DEF HistoryOK
  <2> QED
    BY <1>1, <2>1, StaysUp
<1>3. jcache = Append(jdisk, taken) /\ jsize = Len(jdisk) /\ pc \in Draining
  BY <1>1, PhasesAre DEF JournalOK
<1>4. /\ History \in Seq(Int) /\ Len(History) \in Nat /\ OnDisk \in Nat
      /\ SnapSeq(sdisk) \in 0..Len(History)
      /\ JournalOf(jdisk, History) /\ Continues(jdisk, SnapSeq(sdisk))
      /\ taken \in Frame /\ taken.end \in Nat /\ taken.end <= Len(History) /\ OnDisk < taken.end
      /\ taken.recs = SubSeq(History, OnDisk + 1, taken.end) /\ Base = taken.end
  BY <1>3, Numbers, BaseIs DEF StoredOK, HistoryOK, TakenOK
<1>5. /\ JournalOf(Append(jdisk, taken), History) /\ Continues(Append(jdisk, taken), SnapSeq(sdisk))
      /\ Reach(Append(jdisk, taken), SnapSeq(sdisk)) = taken.end
      /\ Len(Append(jdisk, taken)) = Len(jdisk) + 1
  <2>1. /\ Reach(jdisk, SnapSeq(sdisk)) < taken.end
        /\ taken.recs = SubSeq(History, Reach(jdisk, SnapSeq(sdisk)) + 1, taken.end)
    BY <1>4 DEF OnDisk
  <2> QED
    BY <1>4, <2>1, JournalExtends
<1>6. OnDisk' = taken.end
  BY <1>1, <1>3, <1>5 DEF OnDisk
<1>7. StoredOK'
  <2>1. durable' \in Nat /\ durable' <= taken.end
    BY <1>1, <1>4 DEF StoredOK
  <2> QED
    BY <1>1, <1>2, <1>3, <1>5, <1>6, <2>1 DEF StoredOK
<1>8. JournalOK'
  BY <1>1, <1>3, <1>5 DEF JournalOK
<1>9. SlotsOK'
  BY <1>1, SlotsStay
<1>10. TakenOK'
  <2>1. Base' = taken.end /\ pc' \notin Draining /\ pc' \notin Snapping
    BY <1>1, <1>6, PhasesAre DEF Base
  <2> QED
    BY <1>1, <1>2, <1>4, <1>6, <2>1 DEF TakenOK
<1> QED
  BY <1>2, <1>7, <1>8, <1>9, <1>10

LEMMA PublishKeeps ==
  ASSUME Sound, Publish
  PROVE  Sound'
<1> USE DEF Sound
<1>1. /\ Up /\ pc = "publish" /\ pc' = "wake"
      /\ UNCHANGED <<overlay, pending, seq, jdisk, jcache, jsize, sdisk, scache, nextSlot, taken, written>>
      /\ durable' = IF taken.end > durable THEN taken.end ELSE durable
  BY DEF Publish, Up, kernel, journal, snaps, counts
<1>2. HistoryOK' /\ History' = History /\ Up'
  <2>1. pc' \in Phases /\ pc' # "down" /\ nextSlot' \in Slots /\ taken' \in Frame
    BY <1>1, PhasesAre DEF HistoryOK
  <2> QED
    BY <1>1, <2>1, StaysUp
<1>3. StoredOK' /\ OnDisk' = OnDisk
  <2>1. durable' \in Nat /\ durable' <= OnDisk
    BY <1>1, BaseIs DEF StoredOK, TakenOK
  <2> QED
    BY <1>1, <1>2, <2>1, FilesStay
<1>4. JournalOK'
  BY <1>1, JournalStays DEF journal
<1>5. SlotsOK'
  BY <1>1, SlotsStay
<1>6. TakenOK'
  <2>1. Base' = Base /\ pc' \notin Draining /\ pc' \notin Snapping
    BY <1>1, <1>3, PhasesAre DEF Base
  <2> QED
    BY <1>1, <1>2, <1>3, <2>1 DEF TakenOK
<1> QED
  BY <1>2, <1>3, <1>4, <1>5, <1>6

LEMMA WakeKeeps ==
  ASSUME Sound, Wake
  PROVE  Sound'
<1> USE DEF Sound
<1>1. /\ Up /\ pc = "wake" /\ pc' = "idle"
      /\ UNCHANGED <<overlay, pending, seq, durable, jdisk, jcache, jsize, sdisk, scache, nextSlot, written>>
      /\ taken' = Nothing
  BY DEF Wake, Up, kernel, journal, snaps, counts
<1>2. HistoryOK' /\ History' = History /\ Up'
  <2>1. pc' \in Phases /\ pc' # "down" /\ nextSlot' \in Slots
    BY <1>1, PhasesAre DEF HistoryOK
  <2>2. taken' \in Frame
    BY <1>1 DEF Nothing, Frame
  <2> QED
    BY <1>1, <2>1, <2>2, StaysUp
<1>3. StoredOK' /\ OnDisk' = OnDisk
  BY <1>1, <1>2, FilesStay DEF StoredOK
<1>4. JournalOK'
  BY <1>1, JournalStays DEF journal
<1>5. SlotsOK'
  BY <1>1, SlotsStay
<1>6. TakenOK'
  <2>1. Base' = Base /\ pc' \notin Draining /\ pc' \notin Snapping
    BY <1>1, <1>3, PhasesAre DEF Base
  <2> QED
    BY <1>1, <1>2, <1>3, <2>1 DEF TakenOK
<1> QED
  BY <1>2, <1>3, <1>4, <1>5, <1>6

-----------------------------------------------------------------------------
\* The snapshot.

LEMMA SnapshotTakeKeeps ==
  ASSUME Sound, SnapshotTake
  PROVE  Sound'
<1> USE DEF Sound
<1>1. /\ Up /\ pc = "idle" /\ pc' = "sbody"
      /\ UNCHANGED <<overlay, seq, durable, jdisk, jcache, jsize, sdisk, scache, nextSlot, written>>
      /\ taken' = [recs |-> overlay, end |-> seq] /\ taken'.recs = overlay /\ taken'.end = seq
      /\ pending' = <<>>
  BY DEF SnapshotTake, Up, journal, snaps, counts
<1>2. /\ History = overlay /\ seq = Len(History) /\ History \in Seq(Int) /\ Len(History) \in Nat
      /\ OnDisk \in Nat /\ OnDisk <= Len(History)
  BY <1>1, Numbers DEF History, HistoryOK
<1>3. HistoryOK' /\ History' = History /\ Up'
  <2>1. pc' \in Phases /\ pc' # "down" /\ nextSlot' \in Slots
    BY <1>1, PhasesAre DEF HistoryOK
  <2>2. taken' \in Frame
    BY <1>1, <1>2 DEF Frame
  <2> QED
    BY <1>1, <2>1, <2>2, StaysUp
<1>4. StoredOK' /\ OnDisk' = OnDisk
  BY <1>1, <1>3, FilesStay DEF StoredOK
<1>5. JournalOK'
  BY <1>1, JournalStays DEF journal
<1>6. SlotsOK'
  BY <1>1, SlotsStay
<1>7. TakenOK'
  <2>1. Base' = Len(History) /\ pc' \notin Draining /\ pc' # "publish"
    BY <1>1, <1>2, PhasesAre DEF Base
  <2>2. SubSeq(History, 1, Len(History)) = History
    BY <1>2, SubSeqFull
  <2>3. SubSeq(History, Len(History) + 1, Len(History)) = <<>>
    BY <1>2, SubSeqEmpty
  <2> QED
    BY <1>1, <1>2, <1>3, <1>4, <2>1, <2>2, <2>3 DEF TakenOK
<1> QED
  BY <1>3, <1>4, <1>5, <1>6, <1>7

\* Within a snapshot the history, what was taken and what is pending stay.
LEMMA SnapshotGoesOn ==
  ASSUME Sound, pc \in Snapping, pc' \in Snapping,
         UNCHANGED <<overlay, pending, seq, nextSlot, taken, written>>
  PROVE  /\ Up /\ HistoryOK' /\ History' = History /\ Up'
         /\ OnDisk' \in Nat /\ OnDisk' <= taken.end => TakenOK'
<1> USE DEF Sound
<1>1. Up /\ pc' \in Phases /\ pc' # "down"
  BY PhasesAre DEF Up
<1>2. HistoryOK' /\ History' = History /\ Up'
  BY <1>1, StaysUp DEF HistoryOK
<1>3. Base = taken.end /\ Base' = taken.end /\ pc' \notin Draining /\ pc' # "publish"
  BY PhasesAre DEF Base
<1>4. ASSUME OnDisk' \in Nat, OnDisk' <= taken.end
      PROVE  TakenOK'
  BY <1>2, <1>3, <1>4 DEF TakenOK
<1> QED
  BY <1>1, <1>2, <1>4

\* The header of the slot that is overwritten counts for nothing until the body
\* is stored; the newest snapshot is the other one.
LEMMA OtherIsBest ==
  ASSUME Sound, Up, pc \notin {"jtruncate", "jflush"},
         NEW files, \A s \in Slots: s # nextSlot => files[s] = sdisk[s],
         files[nextSlot].seq = None
  PROVE  Best(files) = Best(sdisk)
<1>1. /\ Best(sdisk) \in Nat \cup {None}
      /\ \A s \in Slots: sdisk[s].seq \in Nat \cup {None} /\ sdisk[s].seq <= Best(sdisk)
  BY Numbers DEF Sound
<1>2. PICK o \in Slots: o # nextSlot
  BY SlotsAre
<1>3. files[o].seq = Best(sdisk)
  BY <1>2 DEF Sound, SlotsOK
<1>4. \A s \in Slots: files[s].seq \in Nat \cup {None} /\ files[s].seq <= Best(sdisk)
  BY <1>1 DEF None
<1> QED
  BY <1>1, <1>3, <1>4, BestSlotIs

LEMMA SnapshotBodyKeeps ==
  ASSUME Sound, SnapshotBody
  PROVE  Sound'
<1> USE DEF Sound
<1>1. /\ pc = "sbody" /\ pc' = "sflush"
      /\ UNCHANGED <<overlay, pending, seq, durable, jdisk, jcache, jsize, sdisk, nextSlot, taken, written>>
      /\ scache' = [scache EXCEPT ![nextSlot] = [seq |-> None, body |-> taken.recs]]
      /\ pc \in Snapping /\ pc' \in Snapping
  BY PhasesAre DEF SnapshotBody, kernel, journal, counts
<1>2. Up /\ HistoryOK' /\ History' = History /\ Up' /\ (OnDisk' \in Nat /\ OnDisk' <= taken.end => TakenOK')
  BY <1>1, SnapshotGoesOn
<1>3. StoredOK' /\ OnDisk' = OnDisk
  BY <1>1, <1>2, FilesStay DEF StoredOK
<1>4. JournalOK'
  BY <1>1, <1>2, JournalStays DEF journal
<1>5. SlotsOK'
  BY <1>1, <1>2 DEF SlotsOK
<1>6. TakenOK'
  BY <1>1, <1>2, <1>3, Numbers, BaseIs
<1> QED
  BY <1>2, <1>3, <1>4, <1>5, <1>6

LEMMA SnapshotFlushBodyKeeps ==
  ASSUME Sound, SnapshotFlushBody
  PROVE  Sound'
<1> USE DEF Sound
<1>1. /\ pc = "sflush" /\ pc' = "sheader"
      /\ UNCHANGED <<overlay, pending, seq, durable, jdisk, jcache, jsize, scache, nextSlot, taken, written>>
      /\ sdisk' = scache
      /\ pc \in Snapping /\ pc' \in Snapping
  BY PhasesAre DEF SnapshotFlushBody, kernel, journal, counts
<1>2. Up /\ HistoryOK' /\ History' = History /\ Up' /\ (OnDisk' \in Nat /\ OnDisk' <= taken.end => TakenOK')
  BY <1>1, SnapshotGoesOn
<1>3. /\ sdisk \in [Slots -> SnapFile] /\ nextSlot \in Slots
      /\ scache = [sdisk EXCEPT ![nextSlot] = [seq |-> None, body |-> taken.recs]]
      /\ taken.recs \in Seq(Int)
  BY <1>1 DEF StoredOK, HistoryOK, SlotsOK, Frame
<1>4. /\ scache \in [Slots -> SnapFile]
      /\ \A s \in Slots: s # nextSlot => scache[s] = sdisk[s]
      /\ scache[nextSlot] = [seq |-> None, body |-> taken.recs]
  BY <1>3 DEF SnapFile
<1>5. Best(scache) = Best(sdisk)
  <2>1. scache[nextSlot].seq = None
    BY <1>4
  <2> QED
    BY <1>1, <1>2, <1>4, <2>1, OtherIsBest
<1>6. SnapSeq(scache) = SnapSeq(sdisk)
  BY <1>5, Zenon DEF SnapSeq
<1>7. OnDisk' = OnDisk
  BY <1>1, <1>6 DEF OnDisk
<1>8. StoredOK'
  <2>1. \A s \in Slots: SnapshotOf(scache[s], History)
    BY <1>4 DEF StoredOK, SnapshotOf
  <2>2. /\ JournalOf(jdisk, History) /\ Continues(jdisk, SnapSeq(scache))
        /\ durable \in Nat /\ durable <= OnDisk
    BY <1>6 DEF StoredOK
  <2> QED
    BY <1>1, <1>2, <1>4, <1>7, <2>1, <2>2 DEF StoredOK
<1>9. JournalOK'
  BY <1>1, <1>2, JournalStays DEF journal
<1>10. SlotsOK'
  <2>1. \A s \in Slots: s # nextSlot => scache[s].seq = Best(scache)
    BY <1>1, <1>2, <1>4, <1>5 DEF SlotsOK
  <2> QED
    BY <1>1, <1>2, <1>4, <2>1 DEF SlotsOK
<1>11. TakenOK'
  BY <1>1, <1>2, <1>7, Numbers, BaseIs
<1> QED
  BY <1>2, <1>8, <1>9, <1>10, <1>11

LEMMA SnapshotHeaderKeeps ==
  ASSUME Sound, SnapshotHeader
  PROVE  Sound'
<1> USE DEF Sound
<1>1. /\ pc = "sheader" /\ pc' = "sflushh"
      /\ UNCHANGED <<overlay, pending, seq, durable, jdisk, jcache, jsize, sdisk, nextSlot, taken, written>>
      /\ scache' = [scache EXCEPT ![nextSlot].seq = taken.end]
      /\ pc \in Snapping /\ pc' \in Snapping
  BY PhasesAre DEF SnapshotHeader, kernel, journal, counts
<1>2. Up /\ HistoryOK' /\ History' = History /\ Up' /\ (OnDisk' \in Nat /\ OnDisk' <= taken.end => TakenOK')
  BY <1>1, SnapshotGoesOn
<1>3. StoredOK' /\ OnDisk' = OnDisk
  BY <1>1, <1>2, FilesStay DEF StoredOK
<1>4. JournalOK'
  BY <1>1, <1>2, JournalStays DEF journal
<1>5. SlotsOK'
  <2>1. /\ sdisk \in [Slots -> SnapFile] /\ nextSlot \in Slots /\ scache = sdisk
        /\ sdisk[nextSlot] = [seq |-> None, body |-> taken.recs]
    BY <1>1 DEF StoredOK, HistoryOK, SlotsOK
  <2>2. scache' = [sdisk EXCEPT ![nextSlot] = [seq |-> taken.end, body |-> taken.recs]]
    <3>1. [sdisk[nextSlot] EXCEPT !.seq = taken.end] = [seq |-> taken.end, body |-> taken.recs]
      BY <2>1
    <3>2. scache' = [sdisk EXCEPT ![nextSlot] = [sdisk[nextSlot] EXCEPT !.seq = taken.end]]
      BY <1>1, <2>1
    <3> QED
      BY <3>1, <3>2
  <2> QED
    BY <1>1, <1>2, <2>1, <2>2 DEF SlotsOK
<1>6. TakenOK'
  BY <1>1, <1>2, <1>3, Numbers, BaseIs
<1> QED
  BY <1>2, <1>3, <1>4, <1>5, <1>6

\* With the header the snapshot is the newest one, and covers the journal.
LEMMA SnapshotFlushHeaderKeeps ==
  ASSUME Sound, SnapshotFlushHeader
  PROVE  Sound'
<1> USE DEF Sound
<1>1. /\ pc = "sflushh" /\ pc' = "jtruncate"
      /\ UNCHANGED <<overlay, pending, seq, durable, jdisk, jcache, jsize, scache, nextSlot, taken, written>>
      /\ sdisk' = scache
      /\ pc \in Snapping /\ pc' \in Snapping
  BY PhasesAre DEF SnapshotFlushHeader, kernel, journal, counts
<1>2. Up /\ HistoryOK' /\ History' = History /\ Up' /\ (OnDisk' \in Nat /\ OnDisk' <= taken.end => TakenOK')
  BY <1>1, SnapshotGoesOn
<1>3. /\ History \in Seq(Int) /\ Len(History) \in Nat
      /\ EndAt(jdisk, Len(jdisk)) \in Nat /\ EndAt(jdisk, Len(jdisk)) <= OnDisk
      /\ SnapSeq(sdisk) \in 0..Len(History) /\ SnapSeq(sdisk) <= OnDisk /\ OnDisk \in Nat
      /\ Best(sdisk) \in Nat \cup {None} /\ Best(sdisk) <= SnapSeq(sdisk)
      /\ \A s \in Slots: sdisk[s].seq \in Nat \cup {None} /\ sdisk[s].seq <= Best(sdisk)
      /\ taken.end \in Nat /\ OnDisk <= taken.end /\ taken.end <= Len(History)
  BY <1>1, Numbers, BaseIs
<1>4. /\ sdisk \in [Slots -> SnapFile] /\ nextSlot \in Slots
      /\ scache = [sdisk EXCEPT ![nextSlot] = [seq |-> taken.end, body |-> taken.recs]]
      /\ taken.recs \in Seq(Int) /\ taken.recs = SubSeq(History, 1, taken.end)
  BY <1>1 DEF StoredOK, HistoryOK, SlotsOK, TakenOK, Frame
<1>5. /\ scache \in [Slots -> SnapFile]
      /\ \A s \in Slots: s # nextSlot => scache[s] = sdisk[s]
      /\ scache[nextSlot].seq = taken.end /\ scache[nextSlot].body = taken.recs
  BY <1>3, <1>4 DEF SnapFile
<1>6. Best(scache) = taken.end /\ SnapSeq(scache) = taken.end
  <2>1. \A s \in Slots: scache[s].seq \in Nat \cup {None} /\ scache[s].seq <= taken.end
    <3>1. ASSUME NEW s \in Slots, s # nextSlot
          PROVE  scache[s].seq \in Nat \cup {None} /\ scache[s].seq <= taken.end
      <4>1. sdisk[s].seq \in Nat \cup {None} /\ sdisk[s].seq <= Best(sdisk) /\ scache[s].seq = sdisk[s].seq
        BY <1>3, <1>5, <3>1
      <4>2. Best(sdisk) <= taken.end
        BY <1>3 DEF None
      <4> QED
        BY <1>3, <4>1, <4>2 DEF None
    <3> QED
      BY <1>3, <1>5, <3>1
  <2>2. Best(scache) = taken.end
    BY <1>3, <1>4, <1>5, <2>1, BestSlotIs
  <2> QED
    BY <1>3, <2>2 DEF SnapSeq, None
<1>7. Continues(jdisk, taken.end) /\ Reach(jdisk, taken.end) = taken.end
  <2>1. EndAt(jdisk, Len(jdisk)) <= taken.end /\ JournalOf(jdisk, History)
    BY <1>3 DEF StoredOK
  <2> QED
    BY <1>3, <2>1, JournalCovered
<1>8. OnDisk' = taken.end
  BY <1>1, <1>6, <1>7 DEF OnDisk
<1>9. StoredOK'
  <2>1. \A s \in Slots: SnapshotOf(scache[s], History)
    BY <1>3, <1>4, <1>5 DEF StoredOK, SnapshotOf
  <2>2. JournalOf(jdisk, History) /\ durable \in Nat /\ durable <= taken.end
    BY <1>3 DEF StoredOK
  <2> QED
    BY <1>1, <1>2, <1>5, <1>6, <1>7, <1>8, <2>1, <2>2 DEF StoredOK
<1>10. JournalOK'
  BY <1>1, <1>2, JournalStays DEF journal
<1>11. SlotsOK'
  BY <1>1, <1>5, <1>6 DEF SlotsOK
<1>12. TakenOK'
  BY <1>2, <1>3, <1>8
<1> QED
  BY <1>2, <1>9, <1>10, <1>11, <1>12

LEMMA JournalTruncateKeeps ==
  ASSUME Sound, JournalTruncate
  PROVE  Sound'
<1> USE DEF Sound
<1>1. /\ pc = "jtruncate" /\ pc' = "jflush"
      /\ UNCHANGED <<overlay, pending, seq, durable, jdisk, jsize, sdisk, scache, nextSlot, taken, written>>
      /\ jcache' = <<>>
      /\ pc \in Snapping /\ pc' \in Snapping
  BY PhasesAre DEF JournalTruncate, kernel, snaps, counts
<1>2. Up /\ HistoryOK' /\ History' = History /\ Up' /\ (OnDisk' \in Nat /\ OnDisk' <= taken.end => TakenOK')
  BY <1>1, SnapshotGoesOn
<1>3. StoredOK' /\ OnDisk' = OnDisk
  BY <1>1, <1>2, FilesStay DEF StoredOK
<1>4. JournalOK'
  BY <1>1, <1>2 DEF JournalOK
<1>5. SlotsOK'
  BY <1>1 DEF SlotsOK
<1>6. TakenOK'
  BY <1>1, <1>2, <1>3, Numbers, BaseIs
<1> QED
  BY <1>2, <1>3, <1>4, <1>5, <1>6

LEMMA JournalFlushKeeps ==
  ASSUME Sound, JournalFlush
  PROVE  Sound'
<1> USE DEF Sound
<1>1. /\ Up /\ pc = "jflush" /\ pc' = "publish" /\ pc \in Snapping
      /\ UNCHANGED <<overlay, pending, seq, durable, jcache, sdisk, scache, taken, written>>
      /\ jdisk' = jcache /\ jsize' = 0 /\ nextSlot' = CHOOSE s \in Slots: s # nextSlot
  BY PhasesAre DEF JournalFlush, Up, kernel, snaps, counts
<1>2. nextSlot' \in Slots /\ nextSlot' # nextSlot
  <2>1. \E s \in Slots: s # nextSlot
    BY SlotsAre
  <2> QED
    BY <1>1, <2>1
<1>3. HistoryOK' /\ History' = History /\ Up'
  <2>1. pc' \in Phases /\ pc' # "down" /\ taken' \in Frame
    BY <1>1, PhasesAre DEF HistoryOK
  <2> QED
    BY <1>1, <1>2, <2>1, StaysUp
<1>4. /\ History \in Seq(Int) /\ OnDisk \in Nat /\ OnDisk <= taken.end /\ taken.end <= Len(History)
      /\ taken.end \in Nat /\ Len(History) \in Nat
  BY <1>1, Numbers, BaseIs
<1>5. jcache = <<>> /\ Best(sdisk) = taken.end /\ sdisk[nextSlot].seq = taken.end
  BY <1>1 DEF JournalOK, SlotsOK
<1>6. SnapSeq(sdisk) = taken.end
  BY <1>4, <1>5 DEF SnapSeq, None
<1>7. JournalOf(<<>>, History) /\ Continues(<<>>, taken.end) /\ Reach(<<>>, taken.end) = taken.end
  BY <1>4, JournalEmpty
<1>8. OnDisk' = taken.end
  BY <1>1, <1>5, <1>6, <1>7 DEF OnDisk
<1>9. StoredOK'
  <2>1. durable' \in Nat /\ durable' <= taken.end
    BY <1>1, <1>4 DEF StoredOK
  <2> QED
    BY <1>1, <1>3, <1>5, <1>6, <1>7, <1>8, <2>1 DEF StoredOK
<1>10. JournalOK'
  <2>1. Len(<<>>) = 0
    OBVIOUS
  <2> QED
    BY <1>1, <1>5, <2>1 DEF JournalOK
<1>11. SlotsOK'
  <2>1. \A s \in Slots: s # nextSlot' => s = nextSlot
    BY <1>2, SlotsAre DEF HistoryOK
  <2>2. scache' = sdisk'
    BY <1>1 DEF SlotsOK
  <2> QED
    BY <1>1, <1>5, <2>1, <2>2 DEF SlotsOK
<1>12. TakenOK'
  <2>1. Base' = taken.end /\ Base = taken.end /\ pc' \notin Draining /\ pc' \notin Snapping
    BY <1>1, <1>8, PhasesAre DEF Base
  <2> QED
    BY <1>1, <1>3, <1>4, <1>8, <2>1 DEF TakenOK
<1> QED
  BY <1>3, <1>9, <1>10, <1>11, <1>12

-----------------------------------------------------------------------------
\* A crash and what is found again.

\* Files of a history are files of the part of it that they reach.
LEMMA CutIs ==
  ASSUME NEW O \in Seq(Int), NEW file, JournalOf(file, O),
         NEW files, \A s \in Slots: files[s].seq \in Nat \cup {None} /\ SnapshotOf(files[s], O),
         NEW n \in Nat, n <= Len(O), n = Reach(file, SnapSeq(files)), SnapSeq(files) \in Nat
  PROVE  /\ SubSeq(O, 1, n) \in Seq(Int) /\ Len(SubSeq(O, 1, n)) = n
         /\ JournalOf(file, SubSeq(O, 1, n))
         /\ \A s \in Slots: SnapshotOf(files[s], SubSeq(O, 1, n))
<1> DEFINE P == SubSeq(O, 1, n)
<1>1. Len(O) \in Nat
  OBVIOUS
<1>2. P \in Seq(Int) /\ Len(P) = n /\ \A i \in 1..n: P[i] = O[i]
  <2>1. \A i \in 1..n: O[i] \in Int
    BY <1>1
  <2>2. /\ P \in Seq(Int) /\ Len(P) = (IF 1 <= n THEN n - 1 + 1 ELSE 0)
        /\ \A i \in 1..n - 1 + 1: P[i] = O[1 + i - 1]
    BY <2>1, SubSeqProperties
  <2>3. (IF 1 <= n THEN n - 1 + 1 ELSE 0) = n /\ n - 1 + 1 = n /\ \A i \in 1..n: 1 + i - 1 = i
    OBVIOUS
  <2> HIDE DEF P
  <2>4. \A i \in 1..n: P[i] = O[i]
    BY <2>2, <2>3, Zenon
  <2> QED
    BY <2>2, <2>3, <2>4
<1>3. EndAt(file, Len(file)) <= n /\ SnapSeq(files) <= n
  <2>1. EndAt(file, Len(file)) \in Nat
    <3>1. Len(file) \in 0..Len(file) /\ \A i \in 0..Len(file): EndAt(file, i) \in Nat
      BY EndsAre
    <3> QED
      BY <3>1
  <2> QED
    BY <2>1, OverIs DEF Reach
<1> HIDE DEF P
<1>4. JournalOf(file, P)
  <2>1. Agree(O, P, n)
    BY <1>1, <1>2 DEF Agree
  <2>2. EndAt(file, Len(file)) <= n
    BY <1>3
  <2> QED
    BY <1>2, <2>1, <2>2, JournalSame
<1>5. ASSUME NEW s \in Slots
      PROVE  SnapshotOf(files[s], P)
  <2>1. files[s].seq <= n
    <3>1. files[s].seq <= Best(files) /\ Best(files) \in Nat \cup {None}
      BY BestIs
    <3>2. Best(files) <= SnapSeq(files)
      BY <3>1 DEF SnapSeq, None
    <3> QED
      BY <1>3, <3>1, <3>2 DEF None
  <2> QED
    <3>1. files[s].seq \in Nat \cup {None} /\ SnapshotOf(files[s], O)
      OBVIOUS
    <3>2. Agree(O, P, n)
      BY <1>1, <1>2 DEF Agree
    <3> QED
      BY <1>2, <2>1, <3>1, <3>2, SnapshotSame
<1> QED
  BY <1>2, <1>4, <1>5 DEF P

LEMMA CrashKeeps ==
  ASSUME Sound, Crash
  PROVE  Sound'
<1> USE DEF Sound
<1>1. /\ Up /\ jdisk' \in {jdisk, jcache} /\ jcache' = jdisk' /\ scache' = sdisk'
      /\ pc' = "down" /\ ~Up' /\ overlay' = <<>> /\ pending' = <<>> /\ nextSlot' = "snap-a"
      /\ taken' = Nothing /\ durable' = durable /\ written' = written
  BY DEF Crash, Up
<1>2. PICK a \in Remains("snap-a"), b \in Remains("snap-b"):
        sdisk' = [s \in Slots |-> IF s = "snap-a" THEN a ELSE b]
  BY DEF Crash
<1> DEFINE snap == SnapSeq(sdisk')
           n == Reach(jdisk', snap)
<1>3. /\ sdisk' \in [Slots -> SnapFile]
      /\ \A s \in Slots: sdisk'[s].seq \in Nat \cup {None} /\ SnapshotOf(sdisk'[s], History)
  BY <1>1, <1>2, FilesAre
<1>4. /\ JournalOf(jdisk', History) /\ Continues(jdisk', snap) /\ OnDisk <= n
      /\ n \in snap..Len(History) /\ snap \in 0..Len(History)
      /\ Restored(jdisk', sdisk') = SubSeq(History, 1, n)
  BY <1>1, <1>2, FutureIs
<1>5. History \in Seq(Int) /\ Len(History) \in Nat /\ OnDisk \in Nat
  BY Numbers
<1>6. n \in Nat /\ n <= Len(History) /\ snap \in Nat
  BY <1>4, <1>5
<1>7. /\ SubSeq(History, 1, n) \in Seq(Int) /\ Len(SubSeq(History, 1, n)) = n
      /\ JournalOf(jdisk', SubSeq(History, 1, n))
      /\ \A s \in Slots: SnapshotOf(sdisk'[s], SubSeq(History, 1, n))
  <2> DEFINE m == n
  <2>1. m \in Nat /\ m <= Len(History) /\ m = Reach(jdisk', SnapSeq(sdisk')) /\ SnapSeq(sdisk') \in Nat
    BY <1>6
  <2> HIDE DEF m
  <2>2. /\ SubSeq(History, 1, m) \in Seq(Int) /\ Len(SubSeq(History, 1, m)) = m
        /\ JournalOf(jdisk', SubSeq(History, 1, m))
        /\ \A s \in Slots: SnapshotOf(sdisk'[s], SubSeq(History, 1, m))
    BY <1>3, <1>4, <1>5, <2>1, CutIs
  <2> QED
    BY <2>2 DEF m
<1>8. History' = SubSeq(History, 1, n) /\ OnDisk' = n
  BY <1>1, <1>4 DEF History, OnDisk
<1>9. Len(History') = n
  BY <1>7, <1>8
<1> HIDE DEF n, snap
<1>10. HistoryOK'
  <2>1. taken' \in Frame /\ overlay' \in Seq(Int) /\ nextSlot' \in Slots
    BY <1>1, SlotsAre DEF Nothing, Frame
  <2> QED
    BY <1>1, <1>7, <1>8, <2>1, PhasesAre DEF HistoryOK
<1>11. StoredOK'
  <2>1. durable' \in Nat /\ durable' <= n
    BY <1>1, <1>4, <1>5, <1>6 DEF StoredOK
  <2> QED
    BY <1>3, <1>4, <1>7, <1>8, <2>1 DEF StoredOK, snap
<1>12. JournalOK'
  BY <1>1 DEF JournalOK
<1>13. SlotsOK'
  BY <1>1 DEF SlotsOK
<1>14. TakenOK'
  <2>1. Base' = n /\ pc' \notin Draining /\ pc' \notin Snapping /\ pc' # "publish"
    BY <1>1, <1>8, PhasesAre DEF Base
  <2>2. SubSeq(History', n + 1, n) = <<>>
    BY <1>6, SubSeqEmpty
  <2> QED
    BY <1>1, <1>6, <1>8, <1>9, <2>1, <2>2 DEF TakenOK
<1> QED
  BY <1>10, <1>11, <1>12, <1>13, <1>14

LEMMA RestoreKeeps ==
  ASSUME Sound, Restore
  PROVE  Sound'
<1> USE DEF Sound
<1>1. /\ ~Up /\ pc = "down" /\ pc' = "idle" /\ Up'
      /\ overlay' = Restored(jdisk, sdisk) /\ seq' = RestoredSeq(jdisk, sdisk) /\ durable' = seq'
      /\ jsize' = Whole(jdisk) /\ jdisk' = SubSeq(jdisk, 1, jsize') /\ jcache' = jdisk'
      /\ nextSlot' = (IF Best(sdisk) # None /\ BestSlot(sdisk) = "snap-a" THEN "snap-b" ELSE "snap-a")
      /\ UNCHANGED <<pending, sdisk, scache, taken, written>>
  BY DEF Restore, Up, flushers, counts
<1>2. /\ History = Restored(jdisk, sdisk) /\ History' = History
  BY <1>1 DEF History
<1>3. /\ History \in Seq(Int) /\ Len(History) \in Nat
      /\ jdisk \in Seq(Frame) /\ Len(jdisk) \in Nat
      /\ OnDisk \in Nat /\ OnDisk <= Len(History)
      /\ History = SubSeq(History, 1, OnDisk) /\ seq' = OnDisk
  BY <1>1, <1>2, Numbers
<1>4. Len(History) = OnDisk
  <2>1. \A i \in 1..OnDisk: History[i] \in Int
    BY <1>3
  <2>2. Len(SubSeq(History, 1, OnDisk)) = IF 1 <= OnDisk THEN OnDisk - 1 + 1 ELSE 0
    BY <1>3, <2>1, SubSeqProperties
  <2>3. (IF 1 <= OnDisk THEN OnDisk - 1 + 1 ELSE 0) = OnDisk
    BY <1>3
  <2> QED
    BY <1>3, <2>2, <2>3
<1>5. jsize' = Len(jdisk) /\ jdisk' = jdisk
  <2>1. Whole(jdisk) = Len(jdisk)
    BY WholeIsAll DEF StoredOK
  <2>2. SubSeq(jdisk, 1, Len(jdisk)) = jdisk
    BY <1>3, SubSeqFull
  <2> QED
    BY <1>1, <2>1, <2>2
<1>6. OnDisk' = OnDisk
  BY <1>1, <1>5 DEF OnDisk
<1>7. HistoryOK'
  <2>1. nextSlot' \in Slots
    BY <1>1, SlotsAre
  <2> QED
    BY <1>1, <1>2, <1>3, <1>4, <2>1, PhasesAre DEF HistoryOK
<1>8. StoredOK'
  <2>1. durable' \in Nat /\ durable' <= OnDisk'
    BY <1>1, <1>3, <1>6
  <2>2. /\ JournalOf(jdisk, History) /\ Continues(jdisk, SnapSeq(sdisk))
        /\ sdisk \in [Slots -> SnapFile] /\ \A s \in Slots: SnapshotOf(sdisk[s], History)
    BY DEF StoredOK
  <2> QED
    BY <1>1, <1>2, <1>5, <2>1, <2>2, Zenon DEF StoredOK
<1>9. JournalOK'
  BY <1>1, <1>5 DEF JournalOK
<1>10. SlotsOK'
  <2>1. scache' = sdisk'
    BY <1>1 DEF SlotsOK
  <2>2. \A s \in Slots: s # nextSlot' => sdisk[s].seq = Best(sdisk)
    <3>1. /\ Best(sdisk) \in Nat \cup {None}
          /\ \A s \in Slots: sdisk[s].seq \in Nat \cup {None} /\ sdisk[s].seq <= Best(sdisk)
      BY Numbers
    <3>2. BestSlot(sdisk) \in Slots /\ sdisk[BestSlot(sdisk)].seq = Best(sdisk)
      BY <3>1, BestIs
    <3>3. CASE Best(sdisk) # None
      <4>1. \A s \in Slots: s # nextSlot' => s = BestSlot(sdisk)
        BY <1>1, <3>2, <3>3, SlotsAre
      <4> QED
        BY <3>2, <4>1
    <3>4. CASE Best(sdisk) = None
      <4>1. \A s \in Slots: sdisk[s].seq = None
        BY <3>1, <3>4 DEF None
      <4> QED
        BY <3>4, <4>1
    <3> QED
      BY <3>3, <3>4
  <2> QED
    BY <1>1, <2>1, <2>2 DEF SlotsOK
<1>11. TakenOK'
  <2>1. Base' = OnDisk /\ Base = OnDisk /\ pc' \notin Draining /\ pc' \notin Snapping /\ pc' # "publish"
    BY <1>1, <1>6, PhasesAre DEF Base
  <2> QED
    BY <1>1, <1>2, <1>3, <1>6, <2>1 DEF TakenOK
<1> QED
  BY <1>7, <1>8, <1>9, <1>10, <1>11

-----------------------------------------------------------------------------

LEMMA InitSound ==
  ASSUME Init
  PROVE  Sound
<1>1. /\ overlay = <<>> /\ pending = <<>> /\ seq = 0 /\ durable = 0 /\ written = 0
      /\ jdisk = <<>> /\ jcache = <<>> /\ jsize = 0
      /\ sdisk = [s \in Slots |-> Empty] /\ scache = sdisk
      /\ nextSlot = "snap-a" /\ pc = "idle" /\ taken = Nothing
  BY DEF Init
<1>2. Up /\ History = <<>> /\ History \in Seq(Int) /\ Len(History) = 0
  BY <1>1 DEF History, Up
<1>3. \A s \in Slots: sdisk[s] = Empty /\ sdisk[s].seq = None
  BY <1>1 DEF Empty
<1>4. Best(sdisk) = None /\ SnapSeq(sdisk) = 0
  <2>1. Best(sdisk) = None
    BY <1>3, BestIs DEF None
  <2> QED
    BY <2>1 DEF SnapSeq
<1>5. JournalOf(<<>>, History) /\ Continues(<<>>, 0) /\ Reach(<<>>, 0) = 0
  BY <1>2, JournalEmpty
<1>6. OnDisk = 0
  BY <1>1, <1>4, <1>5 DEF OnDisk
<1>7. HistoryOK
  BY <1>1, <1>2, PhasesAre, SlotsAre DEF HistoryOK, Nothing, Frame
<1>8. StoredOK
  <2>1. Empty \in SnapFile
    BY DEF Empty, SnapFile
  <2> QED
    BY <1>1, <1>3, <1>4, <1>5, <1>6, <2>1 DEF StoredOK, SnapshotOf
<1>9. JournalOK
  BY <1>1 DEF JournalOK
<1>10. SlotsOK
  BY <1>1, <1>3, <1>4 DEF SlotsOK
<1>11. TakenOK
  <2>1. Base = 0 /\ pc \notin Draining /\ pc \notin Snapping
    BY <1>1, <1>6, PhasesAre DEF Base
  <2>2. SubSeq(<<>>, 0 + 1, 0) = <<>>
    BY SubSeqEmpty
  <2> QED
    BY <1>1, <1>2, <1>6, <2>1, <2>2 DEF TakenOK
<1> QED
  BY <1>7, <1>8, <1>9, <1>10, <1>11 DEF Sound

LEMMA FlushersBystand ==
  ASSUME Sound,
         \/ \E t \in Threads: FlushBegin(t) \/ Flushing(t)
         \/ SnapshotStart
         \/ UNCHANGED vars
  PROVE  Sound' /\ UNCHANGED fails
<1>1. /\ UNCHANGED <<overlay, pending, seq, durable, jdisk, jcache, jsize, sdisk, scache, nextSlot,
                     pc, taken, written>>
      /\ UNCHANGED fails
  <2>1. CASE \E t \in Threads: FlushBegin(t) \/ Flushing(t)
    BY <2>1 DEF FlushBegin, Flushing, FlushAsk, WaitSeq, WaitCheck, WaitSleep, kernel, journal, snaps, counts
  <2>2. CASE SnapshotStart
    BY <2>2 DEF SnapshotStart, kernel, journal, snaps, counts
  <2>3. CASE UNCHANGED vars
    BY <2>3 DEF vars, kernel, journal, snaps, counts
  <2> QED
    BY <2>1, <2>2, <2>3
<1> QED
  BY <1>1, Bystands

LEMMA KerneldKeeps ==
  ASSUME Sound, Kerneld
  PROVE  Sound'
BY DrainTakeKeeps, DrainWriteKeeps, DrainFlushKeeps, PublishKeeps, WakeKeeps,
   SnapshotTakeKeeps, SnapshotBodyKeeps, SnapshotFlushBodyKeeps, SnapshotHeaderKeeps,
   SnapshotFlushHeaderKeeps, JournalTruncateKeeps, JournalFlushKeeps DEF Kerneld

LEMMA FailsCounted ==
  ASSUME fails \in Nat, [Next]_vars
  PROVE  fails' = fails \/ (Fail /\ fails' = fails + 1)
<1>1. CASE Write
  BY <1>1 DEF Write
<1>2. CASE \E t \in Threads: FlushBegin(t) \/ Flushing(t)
  BY <1>2 DEF FlushBegin, Flushing, FlushAsk, WaitSeq, WaitCheck, WaitSleep, counts
<1>3. CASE Kerneld
  BY <1>3 DEF Kerneld, DrainTake, DrainWrite, DrainFlush, Publish, Wake, SnapshotTake, SnapshotBody,
              SnapshotFlushBody, SnapshotHeader, SnapshotFlushHeader, JournalTruncate, JournalFlush, counts
<1>4. CASE SnapshotStart
  BY <1>4 DEF SnapshotStart, counts
<1>5. CASE Fail
  BY <1>5 DEF Fail
<1>6. CASE Crash
  BY <1>6 DEF Crash
<1>7. CASE Restore
  BY <1>7 DEF Restore, counts
<1>8. CASE UNCHANGED vars
  BY <1>8 DEF vars, counts
<1> QED
  BY <1>1, <1>2, <1>3, <1>4, <1>5, <1>6, <1>7, <1>8 DEF Next

LEMMA Inductive ==
  ASSUME IInv, [Next]_vars
  PROVE  IInv'
<1>1. fails \in Nat /\ (fails' = fails \/ (Fail /\ fails' = fails + 1))
  BY FailsCounted DEF IInv
<1>2. fails' \in Nat
  BY <1>1
<1>3. ASSUME fails' = 0
      PROVE  Sound'
  <2>1. fails = 0 /\ ~Fail
    <3>1. fails + 1 # 0
      BY <1>1
    <3>2. fails' = fails
      BY <1>1, <1>3, <3>1
    <3>3. ~Fail
      BY <1>1, <3>2 DEF Fail
    <3> QED
      BY <1>3, <3>2, <3>3
  <2>2. Sound
    BY <2>1 DEF IInv
  <2> QED
    BY <2>1, <2>2, WriteKeeps, KerneldKeeps, FlushersBystand, CrashKeeps, RestoreKeeps DEF Next
<1> QED
  BY <1>2, <1>3 DEF IInv

LEMMA Invariant == Spec => []IInv
<1>1. Init => IInv
  <2>1. Init => fails = 0
    BY DEF Init
  <2>2. fails = 0 => fails \in Nat
    OBVIOUS
  <2> QED
    BY <2>1, <2>2, InitSound DEF IInv
<1>2. IInv /\ [Next]_vars => IInv'
  BY Inductive
<1> QED
  BY <1>1, <1>2, PTL DEF Spec

-----------------------------------------------------------------------------
\* What a crash leaves in the files, however kerneld was interrupted, as the
\* beginning of the operations.

LEMMA FuturesAre ==
  ASSUME Sound, Up, NEW f \in Futures
  PROVE  \E n \in Nat: OnDisk <= n /\ n <= Len(overlay) /\ f = SubSeq(overlay, 1, n)
<1>1. PICK j \in {jdisk, jcache}, a \in Remains("snap-a"), b \in Remains("snap-b"):
        f = Restored(j, [s \in Slots |-> IF s = "snap-a" THEN a ELSE b])
  BY DEF Futures
<1> DEFINE files == [s \in Slots |-> IF s = "snap-a" THEN a ELSE b]
           n == Reach(j, SnapSeq(files))
<1>2. /\ OnDisk <= n /\ n \in SnapSeq(files)..Len(History) /\ SnapSeq(files) \in 0..Len(History)
      /\ Restored(j, files) = SubSeq(History, 1, n)
  BY FutureIs DEF Sound
<1>3. History = overlay /\ Len(History) \in Nat
  BY Numbers DEF Sound, History
<1> HIDE DEF files, n
<1>4. n \in Nat /\ n <= Len(overlay)
  BY <1>2, <1>3
<1>5. f = SubSeq(overlay, 1, n)
  BY <1>1, <1>2, <1>3 DEF files
<1> QED
  BY <1>2, <1>4, <1>5

LEMMA BeginningIs ==
  ASSUME NEW O \in Seq(Int), NEW n \in Nat, n <= Len(O)
  PROVE  Len(SubSeq(O, 1, n)) = n /\ \A i \in 1..n: SubSeq(O, 1, n)[i] = O[i]
<1>1. \A i \in 1..n: O[i] \in Int
  OBVIOUS
<1>2. /\ Len(SubSeq(O, 1, n)) = (IF 1 <= n THEN n - 1 + 1 ELSE 0)
      /\ \A i \in 1..n - 1 + 1: SubSeq(O, 1, n)[i] = O[1 + i - 1]
  BY <1>1, SubSeqProperties
<1>3. (IF 1 <= n THEN n - 1 + 1 ELSE 0) = n /\ n - 1 + 1 = n /\ \A i \in 1..n: 1 + i - 1 = i
  OBVIOUS
<1> QED
  BY <1>2, <1>3, Zenon

\* Whatever the moment of a crash, and whatever part of the writes in flight it
\* keeps, the operations found again are the first ones made: none missing, none
\* applied twice, as long as no write to OPFS failed.
THEOREM CrashCorrect == Spec => []CrashConsistent
<1>1. IInv => CrashConsistent
  <2>1. SUFFICES ASSUME Sound, Up, NEW f \in Futures
                 PROVE  IsPrefixOf(f, overlay)
    BY Zenon DEF IInv, CrashConsistent
  <2>2. PICK n \in Nat: OnDisk <= n /\ n <= Len(overlay) /\ f = SubSeq(overlay, 1, n)
    BY <2>1, FuturesAre
  <2>3. overlay \in Seq(Int)
    BY <2>1 DEF Sound, HistoryOK
  <2>4. Len(f) = n /\ \A i \in 1..n: f[i] = overlay[i]
    BY <2>2, <2>3, BeginningIs
  <2> QED
    BY <2>2, <2>4 DEF IsPrefixOf
<1> QED
  BY <1>1, Invariant, PTL

\* An operation up to the sequence number published as durable is found again
\* after any crash, as long as no write to OPFS failed.
THEOREM DurableCorrect == Spec => []DurableSurvives
<1>1. IInv => DurableSurvives
  <2>1. SUFFICES ASSUME Sound, Up, NEW f \in Futures
                 PROVE  IsPrefixOf(SubSeq(overlay, 1, durable), f)
    BY Zenon DEF IInv, DurableSurvives
  <2>2. PICK n \in Nat: OnDisk <= n /\ n <= Len(overlay) /\ f = SubSeq(overlay, 1, n)
    BY <2>1, FuturesAre
  <2>3. /\ overlay \in Seq(Int) /\ Len(overlay) \in Nat
        /\ durable \in Nat /\ durable <= OnDisk /\ OnDisk \in Nat
    BY <2>1, Numbers DEF Sound, HistoryOK, StoredOK
  <2>4. durable <= n /\ durable <= Len(overlay)
    BY <2>2, <2>3
  <2>5. Len(f) = n /\ \A i \in 1..n: f[i] = overlay[i]
    BY <2>2, <2>3, BeginningIs
  <2>6. /\ Len(SubSeq(overlay, 1, durable)) = durable
        /\ \A i \in 1..durable: SubSeq(overlay, 1, durable)[i] = overlay[i]
    BY <2>3, <2>4, BeginningIs
  <2>7. \A i \in 1..durable: i \in 1..n
    BY <2>2, <2>3, <2>4
  <2> QED
    BY <2>4, <2>5, <2>6, <2>7 DEF IsPrefixOf
<1> QED
  BY <1>1, Invariant, PTL

-----------------------------------------------------------------------------
\* The abstract store.

LEMMA CrashCuts ==
  ASSUME Sound, Crash
  PROVE  \E n \in Nat: OnDisk <= n /\ n <= Len(History) /\ History' = SubSeq(History, 1, n)
<1>1. Up /\ jdisk' \in {jdisk, jcache} /\ ~Up'
  BY DEF Crash, Up
<1>2. PICK a \in Remains("snap-a"), b \in Remains("snap-b"):
        sdisk' = [s \in Slots |-> IF s = "snap-a" THEN a ELSE b]
  BY DEF Crash
<1> DEFINE n == Reach(jdisk', SnapSeq(sdisk'))
<1>3. /\ OnDisk <= n /\ n \in SnapSeq(sdisk')..Len(History) /\ SnapSeq(sdisk') \in 0..Len(History)
      /\ Restored(jdisk', sdisk') = SubSeq(History, 1, n)
  BY <1>1, <1>2, FutureIs DEF Sound
<1>4. Len(History) \in Nat
  BY Numbers DEF Sound
<1>5. History' = SubSeq(History, 1, n)
  BY <1>1, <1>3 DEF History
<1> HIDE DEF n
<1>6. n \in Nat /\ n <= Len(History)
  BY <1>3, <1>4
<1> QED
  BY <1>3, <1>5, <1>6

\* Only an operation and a crash change the history.
LEMMA HistoryStays ==
  ASSUME \/ Kerneld \/ SnapshotStart \/ Fail \/ UNCHANGED vars
         \/ \E t \in Threads: FlushBegin(t) \/ Flushing(t)
  PROVE  History' = History /\ (durable' = durable \/ Publish)
<1>1. CASE Kerneld
  <2>1. Up /\ Up' /\ overlay' = overlay /\ (durable' = durable \/ Publish)
    BY <1>1 DEF Kerneld, DrainTake, DrainWrite, DrainFlush, Publish, Wake, SnapshotTake, SnapshotBody,
                SnapshotFlushBody, SnapshotHeader, SnapshotFlushHeader, JournalTruncate, JournalFlush,
                Up, kernel
  <2> QED
    BY <2>1 DEF History
<1>2. CASE SnapshotStart
  BY <1>2 DEF SnapshotStart, History, Up, kernel, journal, snaps
<1>3. CASE Fail
  <2>1. Up /\ Up' /\ overlay' = overlay /\ durable' = durable
    BY <1>3 DEF Fail, InFile, Up, kernel
  <2> QED
    BY <2>1 DEF History
<1>4. CASE UNCHANGED vars
  BY <1>4 DEF vars, History, Up, kernel, journal, snaps
<1>5. CASE \E t \in Threads: FlushBegin(t) \/ Flushing(t)
  BY <1>5 DEF FlushBegin, Flushing, FlushAsk, WaitSeq, WaitCheck, WaitSleep, History, Up, kernel, journal, snaps
<1> QED
  BY <1>1, <1>2, <1>3, <1>4, <1>5

LEMMA StepIsOfStore ==
  ASSUME Sound, fails = 0, [Next]_vars
  PROVE  Store!Next \/ UNCHANGED Store!vars
<1> DEFINE was == (fails > 0)
<1>1. /\ History \in Seq(Int) /\ Len(History) \in Nat /\ OnDisk \in Nat /\ OnDisk <= Len(History)
      /\ durable \in Nat /\ durable <= OnDisk
  BY Numbers DEF Sound, StoredOK
<1>2. fails' = 0 \/ (Fail /\ fails' = 1)
  BY FailsCounted
<1>3. ~(fails > 0) /\ (fails' = 0 => ~(fails' > 0)) /\ (fails' = 1 => fails' > 0)
  OBVIOUS
<1>4. CASE Fail
  <2>1. History' = History /\ durable' = durable
    <3>1. durable' = durable
      BY <1>4 DEF Fail
    <3> QED
      BY <1>4, <3>1, HistoryStays
  <2>2. fails' = 1
    BY <1>4 DEF Fail
  <2> QED
    BY <1>3, <2>1, <2>2 DEF Store!Next, Store!Fail, History
<1>5. CASE Write
  <2>1. /\ History' = Append(History, written') /\ written' \in Records /\ durable' = durable
    <3>1. written' \in Records
      BY <1>5, PersistAssumption DEF Write, Records, Sound, HistoryOK
    <3> QED
      BY <1>5, <3>1 DEF Write, History, Up
  <2>2. fails' = 0
    BY <1>5 DEF Write
  <2> QED
    BY <1>3, <2>1, <2>2 DEF Store!Next, Store!Write, History
<1>6. CASE Crash
  <2>1. PICK n \in Nat: OnDisk <= n /\ n <= Len(History) /\ History' = SubSeq(History, 1, n)
    BY <1>6, CrashCuts
  <2>2. n \in durable..Len(History) /\ Len(History') = n
    BY <1>1, <2>1, BeginningIs
  <2>3. durable' = durable /\ durable' \in durable..Len(History') /\ fails' = 0
    BY <1>1, <1>6, <2>1, <2>2 DEF Crash
  <2> QED
    BY <1>3, <2>1, <2>2, <2>3 DEF Store!Next, Store!Crash, History
<1>7. CASE Restore
  <2>1. History' = History
    BY <1>7 DEF Restore, History, Up
  <2>2. durable' = OnDisk /\ durable' \in durable..Len(History)
    BY <1>1, <1>7, Numbers DEF Restore, Sound
  <2>3. fails' = 0
    BY <1>7 DEF Restore, counts
  <2> QED
    BY <1>3, <2>1, <2>2, <2>3 DEF Store!Next, Store!Sync, History
<1>8. CASE ~Fail /\ (Kerneld \/ SnapshotStart \/ UNCHANGED vars \/ \E t \in Threads: FlushBegin(t) \/ Flushing(t))
  <2>1. History' = History /\ (durable' = durable \/ Publish) /\ fails' = 0
    BY <1>2, <1>8, HistoryStays
  <2>2. CASE durable' = durable
    BY <1>3, <2>1, <2>2 DEF Store!vars, History
  <2>3. CASE Publish
    <3>1. durable' \in durable..Len(History)
      BY <1>1, <2>3, BaseIs DEF Publish, Sound, TakenOK
    <3> QED
      BY <1>3, <2>1, <3>1 DEF Store!Next, Store!Sync, History
  <2> QED
    BY <2>1, <2>2, <2>3
<1> QED
  BY <1>4, <1>5, <1>6, <1>7, <1>8 DEF Next

\* The journal and its snapshots implement the abstract store up to, and with,
\* the first write to OPFS that fails: every step until then is one of the
\* store, or none.
THEOREM StoreUntilFailure ==
  Spec => Store!Init /\ [][fails = 0 => Store!Next \/ UNCHANGED Store!vars]_vars
<1>1. Init => Store!Init
  <2>1. Init => History = <<>> /\ durable = 0 /\ ~(fails > 0)
    BY DEF Init, History, Up
  <2> QED
    BY <2>1 DEF Store!Init, History
<1>2. IInv /\ [Next]_vars => [fails = 0 => Store!Next \/ UNCHANGED Store!vars]_vars
  BY StepIsOfStore DEF IInv
<1> QED
  BY <1>1, <1>2, Invariant, PTL DEF Spec

-----------------------------------------------------------------------------
\* Types

Message == Ids \cup Answers

Events ==
  [type: {"connected", "started", "ended", "deleted"}, id: {0}]
    \cup [type: {"enqueued", "delivered", "cancelled"}, id: Ids]
    \cup [type: {"step", "answered"}, id: Answers]

Session ==
  [order: Seq(Message), open: SUBSET Answers, pending: SUBSET Ids, outbox: SUBSET Ids,
   status: {"unknown", "running", "idle"}, loaded: BOOLEAN, loading: BOOLEAN,
   stale: BOOLEAN, info: BOOLEAN, known: BOOLEAN]

Transcripts ==      \* the read of a transcript
  [phase: {"none", "asked", "inbox", "page"}, inbox: Seq(Ids), page: Seq(Message),
   open: SUBSET Answers, buffer: Seq(Events)]

Keys ==
  [state: {"none", "pending", "done"}, invalidated: BOOLEAN, again: BOOLEAN,
   read: Transcripts]

PostStates == {"none", "chained", "sent", "taken", "accepted", "rejected", "orphan"}

ServerTypes ==
  /\ exists \in BOOLEAN /\ running \in BOOLEAN /\ open \subseteq Answers
  /\ inbox \in Seq(Ids) /\ page \in Seq(Message) /\ run \in 0..MaxRuns
  /\ running => run > 0
  /\ attached \in BOOLEAN /\ stream \in Seq(Events)

ClientTypes ==
  /\ online \in BOOLEAN /\ watched \in BOOLEAN
  /\ activeKnown \in BOOLEAN /\ settling \in BOOLEAN
  /\ active \in [phase: {"none", "asked", "read"}, running: BOOLEAN,
                 update: {"none", "running", "idle"}]
  /\ post \in [Ids -> PostStates]
  /\ cancel \in [id: Ids \cup {0}, state: {"none", "sent", "cancelled", "refused"}]
  /\ cancel.state # "none" => cancel.id \in Ids
  /\ upsets \in [{"drops", "fails", "cancels", "leaves"} -> Nat]

KeyTypes == transcript \in Keys /\ session \in Session

Types == ServerTypes /\ ClientTypes /\ KeyTypes

\* A key keeps something of a read only as long as the read is under way.
Rests(k) == k.state = "pending" \/ k.read = noRead

\* A key waits for a second read only behind the first; a connection that is known
\* is there, and events are under way only on one.
Joined ==
  /\ transcript.again => transcript.state = "pending"
  /\ Rests(transcript)
  /\ online => attached
  /\ stream # <<>> => attached

-----------------------------------------------------------------------------
\* What is watched is read

\* The deletion is announced after it, and a transcript that counts as read is here.
ReadIsHere ==
  /\ \A i \in DOMAIN stream: stream[i].type = "deleted" => ~exists
  /\ exists /\ transcript.state = "done" => session.loaded

FollowInv == ReadIsHere /\ Followed

-----------------------------------------------------------------------------
\* Prompts

\* The server has not seen the prompt.
Untaken(p) == post[p] \in {"none", "chained", "sent", "orphan"}

About(events, p) == \E i \in DOMAIN events: events[i].id = p

\* Nothing the server has said is about a prompt it has not seen.
Unseen ==
  \A p \in Ids: Untaken(p) =>
    /\ p \notin ToSet(inbox) \cup ToSet(page)
    /\ p \notin ToSet(transcript.read.inbox) \cup ToSet(transcript.read.page)
    /\ ~About(stream, p) /\ ~About(transcript.read.buffer, p)

\* No message is twice in what the server has, or in what was read of it.
Apart ==
  /\ IsInjective(inbox) /\ IsInjective(page)
  /\ ToSet(inbox) \cap ToSet(page) = {}
  /\ IsInjective(transcript.read.page)

Rows ==
  /\ IsInjective(session.order)
  /\ session.pending \subseteq ToSet(session.order)

\* A prompt that waits for its answer, or was never sent, is not taken back.
NotCancelled ==
  exists => \A p \in Ids: Untaken(p) =>
    /\ p \in session.pending => p \in session.outbox
    /\ cancel.state # "none" => cancel.id # p

\* Without a prompt that is taken back nothing is.
NoCancels ==
  upsets.cancels = 0 =>
    /\ cancel.state = "none"
    /\ \A i \in DOMAIN stream: stream[i].type # "cancelled"
    /\ \A i \in DOMAIN transcript.read.buffer: transcript.read.buffer[i].type # "cancelled"

\* A prompt on its way to the server.
Sending ==
  exists => \A p \in Ids: post[p] \in {"chained", "sent"} =>
    p \in session.pending /\ p \in session.outbox

\* The read that is under way will leave the row of p.
Held(p) ==
  \/ p \in session.pending /\ p \in session.outbox
  \/ \E i \in DOMAIN transcript.read.buffer:
       transcript.read.buffer[i] = Event("enqueued", p)

\* A prompt the server has taken, whose answer is under way.
TakenPrompt(p) ==
  /\ p \in ToSet(inbox) \cup ToSet(page)
  /\ transcript.read.phase = "inbox" =>
       p \in ToSet(transcript.read.inbox) \cup ToSet(page) \/ Held(p)
  /\ transcript.read.phase = "page" =>
       p \in ToSet(transcript.read.inbox) \cup ToSet(transcript.read.page) \/ Held(p)
  /\ session.loaded => p \in ToSet(session.order)

TakenShown ==
  exists /\ upsets.cancels = 0 => \A p \in Ids: post[p] = "taken" => TakenPrompt(p)

PromptInv ==
  Unseen /\ Apart /\ Rows /\ NotCancelled /\ NoCancels /\ Sending /\ TakenShown

-----------------------------------------------------------------------------
\* Recursion over the places of a sequence

\* Induction: a set that has 0, and each place when it has the one before, has all.
LEMMA Climb ==
  ASSUME NEW n \in Nat, NEW P, 0 \in P, \A i \in 1..n: i - 1 \in P => i \in P
  PROVE  \A i \in 0..n: i \in P
<1> DEFINE Bad == {k \in 0..n: k \notin P}
<1>1. SUFFICES ASSUME Bad # {}
               PROVE  FALSE
  OBVIOUS
<1>2. PICK m \in Bad: \A q \in Bad: m <= q
  <2>1. Bad \in SUBSET Nat
    OBVIOUS
  <2> HIDE DEF Bad
  <2> QED
    BY <1>1, <2>1, Lowest
<1>3. m \in 1..n /\ m \notin P
  OBVIOUS
<1>4. m - 1 \in 0..n /\ m - 1 \notin Bad
  BY <1>2, <1>3
<1> QED
  BY <1>3, <1>4

\* What is computed place by place is computed: F gives the next from a place and
\* what was there before it.
Advances(F, n, X) == F \in [(1..n) \X X -> X]

Computed(g, F, n, b, X) ==
  g \in [0..n -> X] /\ g[0] = b /\ \A i \in 1..n: g[i] = F[<<i, g[i - 1]>>]

LEMMA Recursion ==
  ASSUME NEW X, NEW n, NEW b, NEW F, n \in Nat, b \in X, Advances(F, n, X)
  PROVE  \E g: Computed(g, F, n, b, X)
<1> DEFINE P == {k \in 0..n: \E g: Computed(g, F, k, b, X)}
<1>1. 0 \in P
  <2>1. Computed([i \in 0..0 |-> b], F, 0, b, X)
    BY DEF Computed
  <2>2. 0 \in 0..n
    OBVIOUS
  <2> QED
    BY <2>1, <2>2
<1>2. ASSUME NEW k \in 1..n, k - 1 \in P
      PROVE  k \in P
  <2>1. PICK g: Computed(g, F, k - 1, b, X)
    BY <1>2
  <2> DEFINE h == [i \in 0..k |-> IF i = k THEN F[<<k, g[k - 1]>>] ELSE g[i]]
  <2>2. g[k - 1] \in X
    BY <2>1 DEF Computed
  <2>3. F[<<k, g[k - 1]>>] \in X
    BY <2>2 DEF Advances
  <2>4. h \in [0..k -> X]
    BY <2>1, <2>3 DEF Computed
  <2>5. h[0] = b /\ h[k] = F[<<k, g[k - 1]>>]
    BY <2>1 DEF Computed
  <2>6. \A i \in 0..k - 1: h[i] = g[i]
    OBVIOUS
  <2>7. \A i \in 1..k - 1: i - 1 \in 0..k - 1 /\ g[i] = F[<<i, g[i - 1]>>]
    BY <2>1 DEF Computed
  <2>8. k - 1 \in 0..k - 1
    OBVIOUS
  <2> HIDE DEF h
  <2>9. ASSUME NEW i \in 1..k
        PROVE  h[i] = F[<<i, h[i - 1]>>]
    <3>1. CASE i = k
      BY <2>5, <2>6, <2>8, <3>1
    <3>2. CASE i # k
      <4>1. i \in 1..k - 1
        BY <3>2
      <4> QED
        BY <2>6, <2>7, <4>1
    <3> QED
      BY <3>1, <3>2
  <2>10. Computed(h, F, k, b, X)
    BY <2>4, <2>5, <2>9 DEF Computed
  <2> QED
    BY <2>10
<1>3. n \in P
  <2> HIDE DEF P
  <2>1. \A i \in 0..n: i \in P
    BY <1>1, <1>2, Climb
  <2> QED
    BY <2>1
<1> QED
  BY <1>3

-----------------------------------------------------------------------------
\* What is left of a sequence

\* Only, place by place.
Keeps(g, s, S, T) ==
  /\ g \in [0..Len(s) -> Seq(T)] /\ g[0] = <<>> /\ g[Len(s)] = Only(s, S)
  /\ \A i \in 1..Len(s): g[i] = IF s[i] \in S THEN Append(g[i - 1], s[i]) ELSE g[i - 1]

LEMMA OnlySteps ==
  ASSUME NEW T, NEW s \in Seq(T), NEW S
  PROVE  \E g: Keeps(g, s, S, T)
<1> DEFINE n == Len(s)
           F == [e \in (1..n) \X Seq(T) |->
                   IF s[e[1]] \in S THEN Append(e[2], s[e[1]]) ELSE e[2]]
           Solves(f) ==
             f = [i \in 0..n |-> IF i = 0 THEN <<>>
                                 ELSE IF s[i] \in S THEN Append(f[i - 1], s[i]) ELSE f[i - 1]]
           kept == CHOOSE f: Solves(f)
<1>1. n \in Nat /\ <<>> \in Seq(T)
  OBVIOUS
<1>2. Advances(F, n, Seq(T))
  BY DEF Advances
<1>3. PICK g: Computed(g, F, n, <<>>, Seq(T))
  <2> HIDE DEF n, F
  <2> QED
    BY <1>1, <1>2, Recursion
<1> HIDE DEF F
<1>4. g \in [0..n -> Seq(T)] /\ g[0] = <<>> /\ \A i \in 1..n: g[i] = F[<<i, g[i - 1]>>]
  BY <1>3 DEF Computed
<1>5. \A i \in 1..n: g[i] = IF s[i] \in S THEN Append(g[i - 1], s[i]) ELSE g[i - 1]
  <2> TAKE i \in 1..n
  <2>1. g[i - 1] \in Seq(T)
    BY <1>4
  <2> QED
    BY <1>4, <2>1 DEF F
<1>6. Solves(g)
  <2>1. g = [i \in 0..n |-> g[i]]
    BY <1>4
  <2>2. \A i \in 0..n: i = 0 \/ i \in 1..n
    BY <1>1
  <2>3. \A i \in 0..n: g[i] = IF i = 0 THEN <<>>
                              ELSE IF s[i] \in S THEN Append(g[i - 1], s[i]) ELSE g[i - 1]
    <3> HIDE DEF n
    <3> QED
      BY <1>4, <1>5, <2>2, Zenon
  <2> QED
    BY <2>1, <2>3, Zenon
<1>7. Solves(kept)
  <2> HIDE DEF Solves
  <2> QED
    BY <1>6
<1>8. Only(s, S) = kept[n]
  BY DEF Only
<1>9. /\ kept[0] = <<>>
      /\ \A i \in 1..n: kept[i] = IF s[i] \in S THEN Append(kept[i - 1], s[i]) ELSE kept[i - 1]
  <2>1. \A i \in 1..n: i \in 0..n /\ i # 0
    BY <1>1
  <2>2. 0 \in 0..n
    BY <1>1
  <2> HIDE DEF kept, n
  <2>3. \A i \in 0..n: kept[i] = IF i = 0 THEN <<>>
                                 ELSE IF s[i] \in S THEN Append(kept[i - 1], s[i]) ELSE kept[i - 1]
    BY <1>7, Zenon
  <2> QED
    BY <2>1, <2>2, <2>3, Zenon
<1>10. kept = g
  <2> DEFINE P == {i \in 0..n: kept[i] = g[i]}
  <2> HIDE DEF kept
  <2>1. 0 \in P
    BY <1>4, <1>9
  <2>2. \A i \in 1..n: i - 1 \in P => i \in P
    BY <1>5, <1>9
  <2>3. \A i \in 0..n: i \in P
    <3> HIDE DEF P
    <3> QED
      BY <1>1, <2>1, <2>2, Climb
  <2>4. DOMAIN kept = 0..n /\ kept = [i \in 0..n |-> kept[i]]
    BY <1>7
  <2> QED
    BY <1>4, <2>3, <2>4
<1>11. Only(s, S) = g[n]
  BY <1>8, <1>10, Zenon
<1> HIDE DEF kept
<1> QED
  BY <1>4, <1>5, <1>11 DEF Keeps

LEMMA Widen ==
  ASSUME NEW A, NEW B, A \subseteq B, NEW s \in Seq(A)
  PROVE  s \in Seq(B)
<1>1. Len(s) \in Nat /\ DOMAIN s = 1..Len(s) /\ s = [i \in 1..Len(s) |-> s[i]]
  OBVIOUS
<1>2. \A i \in 1..Len(s): s[i] \in B
  OBVIOUS
<1> QED
  BY <1>1, <1>2

LEMMA AppendContents ==
  ASSUME NEW T, NEW s \in Seq(T), NEW e \in T
  PROVE  /\ Append(s, e) \in Seq(T)
         /\ ToSet(Append(s, e)) = ToSet(s) \cup {e}
         /\ IsInjective(s) /\ e \notin ToSet(s) => IsInjective(Append(s, e))
<1> DEFINE t == Append(s, e)
<1>1. t \in Seq(T) /\ Len(t) = Len(s) + 1 /\ t[Len(s) + 1] = e
  OBVIOUS
<1>2. \A i \in 1..Len(s): t[i] = s[i]
  OBVIOUS
<1>3. DOMAIN s = 1..Len(s) /\ DOMAIN t = 1..Len(s) + 1 /\ Len(s) \in Nat
  OBVIOUS
<1> HIDE DEF t
<1>4. \A i \in DOMAIN t: i \in DOMAIN s \/ i = Len(s) + 1
  BY <1>3
<1>5. \A i \in DOMAIN s: i \in DOMAIN t /\ i # Len(s) + 1
  BY <1>3
<1>6. ToSet(t) = ToSet(s) \cup {e}
  BY <1>1, <1>2, <1>3, <1>4, <1>5 DEF ToSet
<1>7. IsInjective(s) /\ e \notin ToSet(s) => IsInjective(t)
  BY <1>1, <1>2, <1>3, <1>4, <1>5 DEF ToSet, IsInjective
<1> QED
  BY <1>1, <1>6, <1>7 DEF t

LEMMA ConcatContents ==
  ASSUME NEW T, NEW s \in Seq(T), NEW t \in Seq(T)
  PROVE  /\ s \o t \in Seq(T)
         /\ ToSet(s \o t) = ToSet(s) \cup ToSet(t)
         /\ IsInjective(s) /\ IsInjective(t) /\ ToSet(s) \cap ToSet(t) = {}
              => IsInjective(s \o t)
<1> DEFINE u == s \o t
           m == Len(s)
<1>1. u \in Seq(T) /\ Len(u) = m + Len(t)
  OBVIOUS
<1>2. \A i \in 1..m: u[i] = s[i]
  OBVIOUS
<1>3. \A i \in 1..Len(t): u[m + i] = t[i]
  OBVIOUS
<1>4. /\ DOMAIN s = 1..m /\ DOMAIN t = 1..Len(t) /\ DOMAIN u = 1..m + Len(t)
      /\ m \in Nat /\ Len(t) \in Nat
  OBVIOUS
<1> HIDE DEF u, m
<1>5. \A i \in DOMAIN u: i \in DOMAIN s \/ (i - m \in DOMAIN t /\ i = m + (i - m))
  BY <1>4
<1>6. \A i \in DOMAIN u: i \in DOMAIN s \/ (i - m \in DOMAIN t /\ u[i] = t[i - m])
  BY <1>3, <1>4, <1>5
<1>7. \A i \in DOMAIN t: m + i \in DOMAIN u
  BY <1>4
<1>8. \A i \in DOMAIN s: i \in DOMAIN u
  BY <1>4
<1>9. ToSet(u) = ToSet(s) \cup ToSet(t)
  <2>1. ToSet(u) \subseteq ToSet(s) \cup ToSet(t)
    BY <1>2, <1>4, <1>6 DEF ToSet
  <2>2. ToSet(s) \subseteq ToSet(u)
    BY <1>2, <1>4, <1>8 DEF ToSet
  <2>3. ToSet(t) \subseteq ToSet(u)
    BY <1>3, <1>4, <1>7 DEF ToSet
  <2> QED
    BY <2>1, <2>2, <2>3
<1>10. ASSUME IsInjective(s), IsInjective(t), ToSet(s) \cap ToSet(t) = {}
       PROVE  IsInjective(u)
  <2> SUFFICES ASSUME NEW i \in DOMAIN u, NEW j \in DOMAIN u, u[i] = u[j]
               PROVE  i = j
    BY DEF IsInjective
  <2>1. CASE i \in DOMAIN s /\ j \in DOMAIN s
    BY <1>2, <1>4, <1>10, <2>1 DEF IsInjective
  <2>2. CASE i \notin DOMAIN s /\ j \notin DOMAIN s
    <3>1. i - m \in DOMAIN t /\ j - m \in DOMAIN t /\ t[i - m] = t[j - m]
      BY <1>6, <2>2
    <3>2. i - m = j - m
      BY <1>10, <3>1 DEF IsInjective
    <3> QED
      BY <1>4, <3>2
  <2>3. CASE i \in DOMAIN s /\ j \notin DOMAIN s
    <3>1. s[i] = t[j - m] /\ j - m \in DOMAIN t
      BY <1>2, <1>4, <1>6, <2>3
    <3> QED
      BY <1>10, <2>3, <3>1 DEF ToSet
  <2>4. CASE i \notin DOMAIN s /\ j \in DOMAIN s
    <3>1. s[j] = t[i - m] /\ i - m \in DOMAIN t
      BY <1>2, <1>4, <1>6, <2>4
    <3> QED
      BY <1>10, <2>4, <3>1 DEF ToSet
  <2> QED
    BY <2>1, <2>2, <2>3, <2>4
<1> QED
  BY <1>1, <1>9, <1>10 DEF u

LEMMA TailContents ==
  ASSUME NEW T, NEW s \in Seq(T), s # <<>>
  PROVE  /\ Head(s) \in T /\ Tail(s) \in Seq(T)
         /\ 1 \in DOMAIN s /\ Head(s) = s[1]
         /\ ToSet(s) = {Head(s)} \cup ToSet(Tail(s))
         /\ \A i \in DOMAIN Tail(s): i + 1 \in DOMAIN s /\ Tail(s)[i] = s[i + 1]
         /\ IsInjective(s) => IsInjective(Tail(s)) /\ Head(s) \notin ToSet(Tail(s))
<1> DEFINE t == Tail(s)
<1>1. /\ Head(s) \in T /\ t \in Seq(T) /\ Head(s) = s[1] /\ Len(s) \in Nat /\ Len(s) > 0
      /\ DOMAIN s = 1..Len(s) /\ DOMAIN t = 1..Len(s) - 1
  OBVIOUS
<1>2. \A i \in 1..Len(s) - 1: t[i] = s[i + 1]
  OBVIOUS
<1> HIDE DEF t
<1>3. \A i \in DOMAIN t: i + 1 \in DOMAIN s /\ t[i] = s[i + 1] /\ i + 1 # 1
  BY <1>1, <1>2
<1>4. \A i \in DOMAIN s: i = 1 \/ (i - 1 \in DOMAIN t /\ i = (i - 1) + 1)
  BY <1>1
<1>5. ToSet(s) = {Head(s)} \cup ToSet(t)
  <2>1. 1 \in DOMAIN s
    BY <1>1
  <2>2. \A i \in DOMAIN s: i = 1 \/ (i - 1 \in DOMAIN t /\ s[i] = t[i - 1])
    BY <1>3, <1>4
  <2>3. ToSet(s) \subseteq {Head(s)} \cup ToSet(t)
    BY <1>1, <2>2 DEF ToSet
  <2>4. ToSet(t) \subseteq ToSet(s)
    BY <1>3 DEF ToSet
  <2> QED
    BY <1>1, <2>1, <2>3, <2>4 DEF ToSet
<1>6. ASSUME IsInjective(s)
      PROVE  IsInjective(t) /\ Head(s) \notin ToSet(t)
  <2>1. \A i, j \in DOMAIN t: t[i] = t[j] => i + 1 = j + 1
    BY <1>3, <1>6 DEF IsInjective
  <2>2. \A i, j \in DOMAIN t: i + 1 = j + 1 => i = j
    BY <1>1
  <2>3. \A i \in DOMAIN t: t[i] # s[1]
    BY <1>1, <1>3, <1>6 DEF IsInjective
  <2> QED
    BY <1>1, <2>1, <2>2, <2>3 DEF IsInjective, ToSet
<1> QED
  BY <1>1, <1>3, <1>5, <1>6 DEF t

\* Only keeps the members of S, and each once if each was there once.
LEMMA OnlyContents ==
  ASSUME NEW T, NEW s \in Seq(T), NEW S
  PROVE  /\ Only(s, S) \in Seq(T)
         /\ ToSet(Only(s, S)) = ToSet(s) \cap S
         /\ IsInjective(s) => IsInjective(Only(s, S))
<1> DEFINE n == Len(s)
           Upto(i) == {s[j] : j \in 1..i} \cap S
<1>1. PICK g: Keeps(g, s, S, T)
  BY OnlySteps
<1>2. /\ g \in [0..n -> Seq(T)] /\ g[0] = <<>> /\ g[n] = Only(s, S)
      /\ \A i \in 1..n: g[i] = IF s[i] \in S THEN Append(g[i - 1], s[i]) ELSE g[i - 1]
  BY <1>1 DEF Keeps
<1> DEFINE P == {i \in 0..n: /\ ToSet(g[i]) = Upto(i)
                             /\ IsInjective(s) => IsInjective(g[i])}
<1>3. n \in Nat /\ DOMAIN s = 1..n
  OBVIOUS
<1>4. 0 \in P
  <2>1. ToSet(g[0]) = {} /\ IsInjective(g[0])
    BY <1>2 DEF ToSet, IsInjective
  <2>2. Upto(0) = {}
    OBVIOUS
  <2> QED
    BY <1>3, <2>1, <2>2
<1>5. ASSUME NEW i \in 1..n, i - 1 \in P
      PROVE  i \in P
  <2> DEFINE h == g[i - 1]
  <2>1. h \in Seq(T) /\ ToSet(h) = Upto(i - 1) /\ (IsInjective(s) => IsInjective(h))
    BY <1>2, <1>3, <1>5
  <2>2. s[i] \in T
    BY <1>3
  <2>3. Upto(i) = Upto(i - 1) \cup ({s[i]} \cap S)
    <3>1. \A j \in 1..i: j \in 1..i - 1 \/ j = i
      OBVIOUS
    <3>2. \A j \in 1..i - 1: j \in 1..i
      OBVIOUS
    <3>3. i \in 1..i
      OBVIOUS
    <3> QED
      BY <3>1, <3>2, <3>3
  <2>4. IsInjective(s) => s[i] \notin Upto(i - 1)
    <3>1. \A j \in 1..i - 1: j \in 1..n /\ j # i
      BY <1>3
    <3> QED
      BY <1>3, <3>1 DEF IsInjective
  <2> HIDE DEF h, Upto
  <2>5. CASE s[i] \in S
    <3>1. g[i] = Append(h, s[i])
      BY <1>2, <2>5 DEF h
    <3>2. /\ ToSet(Append(h, s[i])) = ToSet(h) \cup {s[i]}
          /\ IsInjective(h) /\ s[i] \notin ToSet(h) => IsInjective(Append(h, s[i]))
      BY <2>1, <2>2, AppendContents
    <3>3. ToSet(g[i]) = Upto(i) /\ (IsInjective(s) => IsInjective(g[i]))
      BY <2>1, <2>3, <2>4, <2>5, <3>1, <3>2
    <3> QED
      BY <1>3, <3>3
  <2>6. CASE s[i] \notin S
    <3>1. g[i] = h
      BY <1>2, <2>6 DEF h
    <3>2. ToSet(g[i]) = Upto(i) /\ (IsInjective(s) => IsInjective(g[i]))
      BY <2>1, <2>3, <2>6, <3>1
    <3> QED
      BY <1>3, <3>2
  <2> QED
    BY <2>5, <2>6
<1>6. n \in P
  <2> HIDE DEF P
  <2>1. \A i \in 0..n: i \in P
    BY <1>3, <1>4, <1>5, Climb
  <2> QED
    BY <1>3, <2>1
<1>7. Upto(n) = ToSet(s) \cap S
  BY <1>3 DEF ToSet
<1> QED
  BY <1>2, <1>3, <1>6, <1>7

LEMMA WithoutContents ==
  ASSUME NEW T, NEW s \in Seq(T), NEW S
  PROVE  /\ Without(s, S) \in Seq(T)
         /\ ToSet(Without(s, S)) = ToSet(s) \ S
         /\ IsInjective(s) => IsInjective(Without(s, S))
<1>1. ToSet(s) \cap (ToSet(s) \ S) = ToSet(s) \ S
  OBVIOUS
<1> QED
  BY <1>1, OnlyContents DEF Without

-----------------------------------------------------------------------------
\* The reducer, event by event

RowsOf(s) == IsInjective(s.order) /\ s.pending \subseteq ToSet(s.order)

\* To p nothing has happened.
SameFor(s, t, p) ==
  /\ p \in t.pending <=> p \in s.pending
  /\ p \in t.outbox <=> p \in s.outbox
  /\ p \in ToSet(t.order) <=> p \in ToSet(s.order)

\* What an event does to a session and to the rows of prompts in it.
Reduces(s, t, e) ==
  /\ t \in Session /\ t.loaded = s.loaded
  /\ RowsOf(s) => RowsOf(t)
  /\ \A p \in Ids:
       /\ e.id # p => SameFor(s, t, p)
       /\ e.type # "cancelled" /\ p \in ToSet(s.order) => p \in ToSet(t.order)
       /\ s.loaded /\ e.type = "enqueued" /\ e.id = p => p \in ToSet(t.order)

LEMMA Sorts == Ids \subseteq Message /\ Answers \subseteq Message /\ Ids \cap Answers = {}
               /\ Ids \subseteq Int /\ 0 \notin Ids /\ 0 \notin Answers
  BY ChatAssumption DEF Ids, Answers, Message

LEMMA AppendRow ==
  ASSUME NEW s \in Session, NEW m \in Message
  PROVE  /\ append(s, m) \in Session
         /\ append(s, m) = [s EXCEPT !.order = append(s, m).order]
         /\ ToSet(append(s, m).order) = ToSet(s.order) \cup {m}
         /\ IsInjective(s.order) => IsInjective(append(s, m).order)
<1>1. s.order \in Seq(Message)
  BY DEF Session
<1>2. CASE m \in ToSet(s.order)
  <2>1. append(s, m) = s
    BY <1>2 DEF append
  <2>2. s = [s EXCEPT !.order = s.order]
    BY DEF Session
  <2> QED
    BY <1>2, <2>1, <2>2
<1>3. CASE m \notin ToSet(s.order)
  <2>1. append(s, m) = [s EXCEPT !.order = Append(s.order, m)]
    BY <1>3 DEF append
  <2> DEFINE o == Append(s.order, m)
  <2>2. o \in Seq(Message) /\ ToSet(o) = ToSet(s.order) \cup {m}
        /\ (IsInjective(s.order) => IsInjective(o))
    BY <1>1, <1>3, AppendContents
  <2> HIDE DEF o
  <2>3. append(s, m) = [s EXCEPT !.order = o] /\ append(s, m).order = o
        /\ append(s, m) \in Session
    BY <2>1, <2>2 DEF o, Session
  <2> QED
    BY <2>2, <2>3
<1> QED
  BY <1>2, <1>3

\* One row is withdrawn.
LEMMA Withdrawn ==
  ASSUME NEW s \in Session, NEW p
  PROVE  /\ Without(s.order, {p}) \in Seq(Message)
         /\ ToSet(Without(s.order, {p})) = ToSet(s.order) \ {p}
         /\ IsInjective(s.order) => IsInjective(Without(s.order, {p}))
  BY WithoutContents DEF Session

\* What of a session only some field tells.
LEMMA SameOrder ==
  ASSUME NEW s, NEW t \in Session, t.order = s.order, t.pending = s.pending,
         t.outbox = s.outbox, t.loaded = s.loaded, NEW e, e.type # "enqueued" \/ ~s.loaded
  PROVE  Reduces(s, t, e)
  BY DEF Reduces, RowsOf, SameFor

LEMMA AdmitRow ==
  ASSUME NEW s \in Session, NEW p \in Ids
  PROVE  /\ admit(s, p) \in Session
         /\ admit(s, p) = [s EXCEPT !.pending = @ \cup {p}, !.order = admit(s, p).order]
         /\ ToSet(admit(s, p).order) = ToSet(s.order) \cup {p}
         /\ RowsOf(s) => RowsOf(admit(s, p))
<1> DEFINE t == [s EXCEPT !.pending = @ \cup {p}]
           u == append(t, p)
<1>1. t \in Session /\ t.order = s.order /\ t.pending = s.pending \cup {p}
  BY DEF Session
<1>2. p \in Message
  BY Sorts
<1> HIDE DEF t
<1>3. /\ u \in Session /\ u = [t EXCEPT !.order = u.order]
      /\ ToSet(u.order) = ToSet(t.order) \cup {p}
      /\ IsInjective(t.order) => IsInjective(u.order)
  BY <1>1, <1>2, AppendRow
<1>4. admit(s, p) = u
  BY DEF admit, t
<1> HIDE DEF u
<1>5. u.pending = t.pending
  BY <1>1, <1>3 DEF Session
<1>6. u = [s EXCEPT !.pending = @ \cup {p}, !.order = u.order]
  BY <1>3 DEF t, Session
<1>7. RowsOf(s) => RowsOf(u)
  BY <1>1, <1>3, <1>5 DEF RowsOf
<1> QED
  BY <1>1, <1>3, <1>4, <1>6, <1>7

LEMMA RetractRow ==
  ASSUME NEW s \in Session, NEW p
  PROVE  /\ retract(s, p) \in Session
         /\ retract(s, p).pending = s.pending \ {p} /\ retract(s, p).outbox = s.outbox \ {p}
         /\ ToSet(retract(s, p).order) = ToSet(s.order) \ {p}
         /\ retract(s, p).loaded = s.loaded
         /\ RowsOf(s) => RowsOf(retract(s, p))
<1> DEFINE o == Without(s.order, {p})
<1>1. o \in Seq(Message) /\ ToSet(o) = ToSet(s.order) \ {p}
      /\ (IsInjective(s.order) => IsInjective(o))
  BY Withdrawn
<1>2. retract(s, p) = [s EXCEPT !.pending = @ \ {p}, !.outbox = @ \ {p}, !.order = o,
                                !.known = TRUE]
  BY DEF retract
<1> HIDE DEF o
<1>3. s.pending \ {p} \subseteq Ids /\ s.outbox \ {p} \subseteq Ids
  BY DEF Session
<1>4. retract(s, p) \in Session
  BY <1>1, <1>2, <1>3 DEF Session
<1>5. /\ retract(s, p).pending = s.pending \ {p}
      /\ retract(s, p).outbox = s.outbox \ {p} /\ retract(s, p).order = o
      /\ retract(s, p).loaded = s.loaded
  BY <1>2 DEF Session
<1> QED
  BY <1>1, <1>4, <1>5 DEF RowsOf

\* What is kept of every session leaves its rows alone.
LEMMA AlwaysSame ==
  ASSUME NEW s \in Session, NEW e \in Events
  PROVE  /\ reduceAlways(s, e) \in Session
         /\ reduceAlways(s, e).order = s.order /\ reduceAlways(s, e).pending = s.pending
         /\ reduceAlways(s, e).outbox = s.outbox /\ reduceAlways(s, e).open = s.open
         /\ reduceAlways(s, e).loaded = s.loaded /\ reduceAlways(s, e).stale = s.stale
         /\ reduceAlways(s, e).known = s.known
  BY DEF reduceAlways, Session

LEMMA EnqueuedReduces ==
  ASSUME NEW s \in Session, NEW e \in Events, e.id \in Ids, s.loaded, e.type = "enqueued"
  PROVE  Reduces(s, enqueued(s, e.id), e)
<1> DEFINE p == e.id
           t == [s EXCEPT !.outbox = @ \ {p}]
           u == admit(t, p)
<1>1. t \in Session /\ t.order = s.order /\ t.pending = s.pending /\ t.outbox = s.outbox \ {p}
      /\ t.loaded = s.loaded
  BY DEF Session
<1> HIDE DEF t
<1>2. /\ u \in Session /\ u = [t EXCEPT !.pending = @ \cup {p}, !.order = u.order]
      /\ ToSet(u.order) = ToSet(t.order) \cup {p}
      /\ RowsOf(t) => RowsOf(u)
  BY <1>1, AdmitRow
<1>3. enqueued(s, p) = u
  BY DEF enqueued, t
<1> HIDE DEF u
<1>4. u.pending = t.pending \cup {p} /\ u.outbox = t.outbox /\ u.loaded = t.loaded
  BY <1>1, <1>2 DEF Session
<1> QED
  BY <1>1, <1>2, <1>3, <1>4 DEF Reduces, RowsOf, SameFor

LEMMA CancelledReduces ==
  ASSUME NEW s \in Session, NEW e \in Events, e.id \in Ids, e.type = "cancelled"
  PROVE  Reduces(s, retract(s, e.id), e)
<1>1. /\ retract(s, e.id) \in Session
      /\ retract(s, e.id).pending = s.pending \ {e.id}
      /\ retract(s, e.id).outbox = s.outbox \ {e.id}
      /\ ToSet(retract(s, e.id).order) = ToSet(s.order) \ {e.id}
      /\ retract(s, e.id).loaded = s.loaded
      /\ RowsOf(s) => RowsOf(retract(s, e.id))
  BY RetractRow
<1> QED
  BY <1>1 DEF Reduces, SameFor

LEMMA DeliveredReduces ==
  ASSUME NEW s \in Session, NEW e \in Events, e.id \in Ids, e.type = "delivered"
  PROVE  Reduces(s, delivered(s, e.id), e)
<1> DEFINE p == e.id
           o == Without(s.order, {p})
           m == Append(o, p)
<1>1. o \in Seq(Message) /\ ToSet(o) = ToSet(s.order) \ {p}
      /\ (IsInjective(s.order) => IsInjective(o))
  BY Withdrawn
<1>2. CASE p \in s.pending /\ p \in ToSet(s.order)
  <2>1. p \in Message
    BY Sorts
  <2> HIDE DEF o, p
  <2>2. m \in Seq(Message) /\ ToSet(m) = ToSet(o) \cup {p}
        /\ (IsInjective(o) /\ p \notin ToSet(o) => IsInjective(m))
    BY <1>1, <2>1, AppendContents
  <2>3. delivered(s, p) = [s EXCEPT !.pending = @ \ {p}, !.order = m]
    BY <1>2 DEF delivered, o
  <2> HIDE DEF m
  <2>4. s.pending \ {p} \subseteq Ids
    BY DEF Session
  <2>5. delivered(s, p) \in Session
    BY <2>2, <2>3, <2>4 DEF Session
  <2>6. /\ delivered(s, p).pending = s.pending \ {p} /\ delivered(s, p).order = m
        /\ delivered(s, p).outbox = s.outbox /\ delivered(s, p).loaded = s.loaded
    BY <2>3 DEF Session
  <2> QED
    BY <1>1, <1>2, <2>2, <2>5, <2>6 DEF Reduces, RowsOf, SameFor, p
<1>3. CASE ~(p \in s.pending /\ p \in ToSet(s.order))
  <2>1. delivered(s, p) = [s EXCEPT !.pending = @ \ {p}]
    BY <1>3 DEF delivered
  <2>2. delivered(s, p) \in Session /\ delivered(s, p).pending = s.pending \ {p}
        /\ delivered(s, p).order = s.order /\ delivered(s, p).outbox = s.outbox
        /\ delivered(s, p).loaded = s.loaded
    BY <2>1 DEF Session
  <2> QED
    BY <2>2 DEF Reduces, RowsOf, SameFor
<1> QED
  BY <1>2, <1>3

LEMMA StepReduces ==
  ASSUME NEW s \in Session, NEW e \in Events, e.id \in Answers, e.type = "step"
  PROVE  Reduces(s, stepStarted(s, e.id), e)
<1> DEFINE m == e.id
           t == append(s, m)
<1>1. CASE m \in ToSet(s.order)
  <2>1. stepStarted(s, m) = s
    BY <1>1 DEF stepStarted
  <2> QED
    BY <2>1, SameOrder
<1>2. CASE m \notin ToSet(s.order)
  <2>1. m \in Message /\ m \in Answers
    BY Sorts
  <2>2. stepStarted(s, m) = [t EXCEPT !.open = @ \cup {m}]
    BY <1>2 DEF stepStarted
  <2> HIDE DEF m
  <2>3. /\ t \in Session /\ t = [s EXCEPT !.order = t.order]
        /\ ToSet(t.order) = ToSet(s.order) \cup {m}
        /\ IsInjective(s.order) => IsInjective(t.order)
    BY <2>1, AppendRow
  <2> HIDE DEF t
  <2>4. t.pending = s.pending /\ t.outbox = s.outbox /\ t.loaded = s.loaded
    BY <2>3 DEF Session
  <2> DEFINE u == [t EXCEPT !.open = @ \cup {m}]
  <2>5. u \in Session /\ u.order = t.order /\ u.pending = t.pending /\ u.outbox = t.outbox
        /\ u.loaded = t.loaded
    BY <2>1, <2>3 DEF Session
  <2> HIDE DEF u
  <2>6. \A p \in Ids: p # m
    BY <2>1, Sorts
  <2>7. Reduces(s, u, e)
    BY <2>3, <2>4, <2>5, <2>6 DEF Reduces, RowsOf, SameFor
  <2> QED
    BY <2>2, <2>7 DEF u, m
<1> QED
  BY <1>1, <1>2

LEMMA EventReduces ==
  ASSUME NEW s \in Session, NEW e \in Events
  PROVE  Reduces(s, reduceSession(s, e), e)
<1> DEFINE a == reduceAlways(s, e)
<1>1. a \in Session /\ a.order = s.order /\ a.pending = s.pending /\ a.outbox = s.outbox
      /\ a.loaded = s.loaded
  BY AlwaysSame
<1>2. reduceSession(s, e) = IF a.loaded THEN reduceTranscript(a, e) ELSE a
  BY DEF reduceSession
<1> HIDE DEF a
<1>3. \A t: Reduces(a, t, e) => Reduces(s, t, e)
  BY <1>1 DEF Reduces, RowsOf, SameFor
<1>4. CASE ~a.loaded
  BY <1>1, <1>2, <1>4, SameOrder
<1>5. CASE a.loaded
  <2> DEFINE t == reduceTranscript(a, e)
  <2>1. CASE e.type = "enqueued"
    <3>1. e.id \in Ids /\ t = enqueued(a, e.id)
      BY <2>1 DEF Events, reduceTranscript
    <3> QED
      BY <1>1, <1>2, <1>3, <1>5, <2>1, <3>1, EnqueuedReduces
  <2>2. CASE e.type = "cancelled"
    <3>1. e.id \in Ids /\ t = retract(a, e.id)
      BY <2>2 DEF Events, reduceTranscript
    <3> QED
      BY <1>1, <1>2, <1>3, <1>5, <2>2, <3>1, CancelledReduces
  <2>3. CASE e.type = "delivered"
    <3>1. e.id \in Ids /\ t = delivered(a, e.id)
      BY <2>3 DEF Events, reduceTranscript
    <3> QED
      BY <1>1, <1>2, <1>3, <1>5, <2>3, <3>1, DeliveredReduces
  <2>4. CASE e.type = "step"
    <3>1. e.id \in Answers /\ t = stepStarted(a, e.id)
      BY <2>4 DEF Events, reduceTranscript
    <3> QED
      BY <1>1, <1>2, <1>3, <1>5, <2>4, <3>1, StepReduces
  <2>5. CASE e.type = "answered"
    <3>1. t = IF e.id \in ToSet(a.order) THEN [a EXCEPT !.open = @ \ {e.id}]
              ELSE [a EXCEPT !.stale = TRUE]
      BY <2>5 DEF reduceTranscript, toolsEnded
    <3>2. a.open \ {e.id} \subseteq Answers
      BY <1>1 DEF Session
    <3>3. t \in Session /\ t.order = a.order /\ t.pending = a.pending
          /\ t.outbox = a.outbox /\ t.loaded = a.loaded
      <4>1. [a EXCEPT !.open = @ \ {e.id}] \in Session
        BY <1>1, <3>2 DEF Session
      <4>2. [a EXCEPT !.stale = TRUE] \in Session
        BY <1>1 DEF Session
      <4> QED
        BY <1>1, <3>1, <4>1, <4>2 DEF Session
    <3> HIDE DEF t
    <3> QED
      BY <1>1, <1>2, <1>3, <1>5, <2>5, <3>3, SameOrder DEF t
  <2>6. CASE e.type = "ended"
    <3>1. t = [a EXCEPT !.stale = @ \/ a.open # {}]
      BY <2>6 DEF reduceTranscript, runEnded
    <3>2. t \in Session /\ t.order = a.order /\ t.pending = a.pending
          /\ t.outbox = a.outbox /\ t.loaded = a.loaded
      BY <1>1, <3>1 DEF Session
    <3> HIDE DEF t
    <3> QED
      BY <1>1, <1>2, <1>3, <1>5, <2>6, <3>2, SameOrder DEF t
  <2>7. CASE e.type \in {"connected", "started", "deleted"}
    <3>1. t = a
      BY <2>7 DEF reduceTranscript
    <3> QED
      BY <1>1, <1>2, <1>5, <2>7, <3>1, SameOrder
  <2> QED
    BY <2>1, <2>2, <2>3, <2>4, <2>5, <2>6, <2>7 DEF Events
<1> QED
  BY <1>4, <1>5

-----------------------------------------------------------------------------
\* Events in a row

\* Replayed, place by place.
Replays(g, s, events) ==
  /\ g \in [0..Len(events) -> Session]
  /\ g[0] = s /\ g[Len(events)] = Replayed(s, events)
  /\ \A i \in 1..Len(events): g[i] = reduceSession(g[i - 1], events[i])

LEMMA ReplaySteps ==
  ASSUME NEW s \in Session, NEW events \in Seq(Events)
  PROVE  \E g: Replays(g, s, events)
<1> DEFINE n == Len(events)
           F == [e \in (1..n) \X Session |-> reduceSession(e[2], events[e[1]])]
           Solves(f) ==
             f = [i \in 0..n |-> IF i = 0 THEN s ELSE reduceSession(f[i - 1], events[i])]
           after == CHOOSE f: Solves(f)
<1>1. n \in Nat /\ \A i \in 1..n: events[i] \in Events
  OBVIOUS
<1>2. Advances(F, n, Session)
  <2>1. ASSUME NEW e \in (1..n) \X Session
        PROVE  reduceSession(e[2], events[e[1]]) \in Session
    <3>1. e[2] \in Session /\ events[e[1]] \in Events
      BY <1>1
    <3> QED
      BY <3>1, EventReduces DEF Reduces
  <2> QED
    BY <2>1 DEF Advances
<1>3. PICK g: Computed(g, F, n, s, Session)
  <2> HIDE DEF n, F
  <2> QED
    BY <1>1, <1>2, Recursion
<1>4. g \in [0..n -> Session] /\ g[0] = s /\ \A i \in 1..n: g[i] = F[<<i, g[i - 1]>>]
  <2> HIDE DEF F
  <2> QED
    BY <1>3 DEF Computed
<1>5. \A i \in 1..n: g[i] = reduceSession(g[i - 1], events[i])
  <2> TAKE i \in 1..n
  <2>1. g[i - 1] \in Session
    BY <1>1, <1>4
  <2>2. F[<<i, g[i - 1]>>] = reduceSession(g[i - 1], events[i])
    BY <2>1
  <2> HIDE DEF F
  <2> QED
    BY <1>4, <2>2
<1>6. Solves(g)
  <2>1. g = [i \in 0..n |-> g[i]]
    BY <1>4
  <2>2. \A i \in 0..n: i = 0 \/ i \in 1..n
    BY <1>1
  <2>3. \A i \in 0..n: g[i] = IF i = 0 THEN s ELSE reduceSession(g[i - 1], events[i])
    <3> HIDE DEF n, F
    <3> QED
      BY <1>4, <1>5, <2>2, Zenon
  <2> QED
    BY <2>1, <2>3, Zenon
<1>7. Solves(after)
  <2> HIDE DEF Solves
  <2> QED
    BY <1>6
<1>8. Replayed(s, events) = after[n]
  BY DEF Replayed
<1>9. after = g
  <2> DEFINE P == {i \in 0..n: after[i] = g[i]}
  <2> HIDE DEF after, F, n
  <2>1. \A i \in 0..n: after[i] = IF i = 0 THEN s ELSE reduceSession(after[i - 1], events[i])
    BY <1>7, Zenon
  <2>2. 0 \in P
    BY <1>1, <1>4, <2>1
  <2>3. \A i \in 1..n: i - 1 \in P => i \in P
    BY <1>1, <1>5, <2>1
  <2>4. \A i \in 0..n: i \in P
    <3> HIDE DEF P
    <3> QED
      BY <1>1, <2>2, <2>3, Climb
  <2>5. after = [i \in 0..n |-> after[i]]
    BY <1>7
  <2> QED
    BY <1>4, <2>4, <2>5
<1>10. Replayed(s, events) = g[n]
  BY <1>8, <1>9, Zenon
<1> HIDE DEF after, F
<1> QED
  BY <1>4, <1>5, <1>10 DEF Replays

\* What a row of events does.
Applies(s, t, events) ==
  /\ t \in Session /\ t.loaded = s.loaded
  /\ RowsOf(s) => RowsOf(t)
  /\ \A p \in Ids:
       /\ ~About(events, p) => SameFor(s, t, p)
       /\ (\A i \in DOMAIN events: events[i].type # "cancelled") =>
            /\ p \in ToSet(s.order) => p \in ToSet(t.order)
            /\ /\ s.loaded
               /\ \E i \in DOMAIN events: events[i].type = "enqueued" /\ events[i].id = p
               => p \in ToSet(t.order)

LEMMA ReplayReduces ==
  ASSUME NEW s \in Session, NEW events \in Seq(Events)
  PROVE  Applies(s, Replayed(s, events), events)
<1> DEFINE n == Len(events)
<1>1. n \in Nat /\ DOMAIN events = 1..n /\ \A i \in 1..n: events[i] \in Events
  OBVIOUS
<1>2. PICK g: Replays(g, s, events)
  BY ReplaySteps
<1>3. /\ g \in [0..n -> Session] /\ g[0] = s /\ g[n] = Replayed(s, events)
      /\ \A i \in 1..n: g[i] = reduceSession(g[i - 1], events[i])
  BY <1>2 DEF Replays
<1> HIDE DEF n
<1>4. \A i \in 1..n: i - 1 \in 0..n /\ i \in 0..n
  BY <1>1
<1>5. \A i \in 1..n: Reduces(g[i - 1], g[i], events[i])
  BY <1>1, <1>3, <1>4, EventReduces
<1> DEFINE Quiets == \A i \in 1..n: events[i].type # "cancelled"
           P == {i \in 0..n: g[i].loaded = s.loaded /\ (RowsOf(s) => RowsOf(g[i]))}
<1>6. n \in P
  <2>1. 0 \in P
    BY <1>1, <1>3
  <2>2. \A i \in 1..n: i - 1 \in P => i \in P
    BY <1>4, <1>5 DEF Reduces
  <2> HIDE DEF P
  <2> QED
    BY <1>1, <2>1, <2>2, Climb
<1>7. ASSUME NEW p \in Ids, \A i \in 1..n: events[i].id # p
      PROVE  SameFor(s, g[n], p)
  <2> DEFINE Q == {i \in 0..n: SameFor(s, g[i], p)}
  <2>1. 0 \in Q
    BY <1>1, <1>3 DEF SameFor
  <2>2. \A i \in 1..n: i - 1 \in Q => i \in Q
    BY <1>4, <1>5, <1>7 DEF Reduces, SameFor
  <2> HIDE DEF Q
  <2>3. n \in Q
    BY <1>1, <2>1, <2>2, Climb
  <2> QED
    BY <2>3 DEF Q
<1>8. ASSUME NEW p \in Ids, Quiets, NEW k \in 0..n, p \in ToSet(g[k].order)
      PROVE  p \in ToSet(g[n].order)
  <2> DEFINE Q == {i \in 0..n: i >= k => p \in ToSet(g[i].order)}
  <2>1. 0 \in Q
    BY <1>1, <1>8
  <2>2. ASSUME NEW i \in 1..n, i - 1 \in Q
        PROVE  i \in Q
    <3>1. CASE i - 1 >= k
      BY <1>4, <1>5, <1>8, <2>2, <3>1 DEF Reduces
    <3>2. CASE i - 1 < k
      <4>1. i >= k => i = k
        BY <3>2
      <4> QED
        BY <1>4, <1>8, <4>1
    <3> QED
      BY <3>1, <3>2
  <2> HIDE DEF Q
  <2>3. n \in Q
    BY <1>1, <2>1, <2>2, Climb
  <2>4. n >= k
    OBVIOUS
  <2> QED
    BY <2>3, <2>4 DEF Q
<1>9. ASSUME NEW p \in Ids, Quiets, s.loaded, NEW i \in 1..n, events[i].type = "enqueued",
             events[i].id = p
      PROVE  p \in ToSet(g[n].order)
  <2> DEFINE L == {j \in 0..n: g[j].loaded = s.loaded}
  <2>1. 0 \in L
    BY <1>1, <1>3
  <2>2. \A j \in 1..n: j - 1 \in L => j \in L
    BY <1>4, <1>5 DEF Reduces
  <2>3. \A j \in 0..n: j \in L
    <3> HIDE DEF L
    <3> QED
      BY <1>1, <2>1, <2>2, Climb
  <2>4. g[i - 1].loaded
    BY <1>4, <1>9, <2>3
  <2>5. p \in ToSet(g[i].order)
    BY <1>5, <1>9, <2>4 DEF Reduces
  <2> QED
    BY <1>4, <1>8, <1>9, <2>5
<1>10. n \in 0..n
  BY <1>1
<1>11. g[n] \in Session
  BY <1>3, <1>10
<1>12. \A p \in Ids: ~About(events, p) => SameFor(s, g[n], p)
  BY <1>1, <1>7 DEF About
<1>13. 0 \in 0..n
  BY <1>1
<1>14. \A p \in Ids: Quiets /\ p \in ToSet(s.order) => p \in ToSet(g[n].order)
  BY <1>3, <1>8, <1>13
<1> QED
  BY <1>1, <1>3, <1>6, <1>9, <1>11, <1>12, <1>14 DEF Applies

-----------------------------------------------------------------------------
\* A snapshot

\* Rows are added at the end.
Appends(s, t, messages) ==
  /\ t \in Session /\ t = [s EXCEPT !.order = t.order]
  /\ ToSet(t.order) = ToSet(s.order) \cup ToSet(messages)
  /\ IsInjective(s.order) => IsInjective(t.order)

LEMMA AppendedRows ==
  ASSUME NEW s \in Session, NEW messages \in Seq(Message)
  PROVE  Appends(s, Appended(s, messages), messages)
<1> DEFINE n == Len(messages)
           F == [e \in (1..n) \X Session |-> append(e[2], messages[e[1]])]
           Solves(f) ==
             f = [i \in 0..n |-> IF i = 0 THEN s ELSE append(f[i - 1], messages[i])]
           after == CHOOSE f: Solves(f)
<1>1. n \in Nat /\ DOMAIN messages = 1..n /\ \A i \in 1..n: messages[i] \in Message
  OBVIOUS
<1>2. Advances(F, n, Session)
  <2>1. ASSUME NEW e \in (1..n) \X Session
        PROVE  append(e[2], messages[e[1]]) \in Session
    <3>1. e[2] \in Session /\ messages[e[1]] \in Message
      BY <1>1
    <3> QED
      BY <3>1, AppendRow
  <2> QED
    BY <2>1 DEF Advances
<1>3. PICK g: Computed(g, F, n, s, Session)
  <2> HIDE DEF n, F
  <2> QED
    BY <1>1, <1>2, Recursion
<1>4. g \in [0..n -> Session] /\ g[0] = s /\ \A i \in 1..n: g[i] = F[<<i, g[i - 1]>>]
  <2> HIDE DEF F
  <2> QED
    BY <1>3 DEF Computed
<1>5. \A i \in 1..n: g[i] = append(g[i - 1], messages[i])
  <2> TAKE i \in 1..n
  <2>1. g[i - 1] \in Session
    BY <1>1, <1>4
  <2>2. F[<<i, g[i - 1]>>] = append(g[i - 1], messages[i])
    BY <2>1
  <2> HIDE DEF F
  <2> QED
    BY <1>4, <2>2
<1>6. Solves(g)
  <2>1. g = [i \in 0..n |-> g[i]]
    BY <1>4
  <2>2. \A i \in 0..n: i = 0 \/ i \in 1..n
    BY <1>1
  <2>3. \A i \in 0..n: g[i] = IF i = 0 THEN s ELSE append(g[i - 1], messages[i])
    <3> HIDE DEF n, F
    <3> QED
      BY <1>4, <1>5, <2>2, Zenon
  <2> QED
    BY <2>1, <2>3, Zenon
<1>7. Solves(after)
  <2> HIDE DEF Solves
  <2> QED
    BY <1>6
<1>8. Appended(s, messages) = after[n]
  BY DEF Appended
<1>9. after = g
  <2> DEFINE P == {i \in 0..n: after[i] = g[i]}
  <2> HIDE DEF after, F, n
  <2>1. \A i \in 0..n: after[i] = IF i = 0 THEN s ELSE append(after[i - 1], messages[i])
    BY <1>7, Zenon
  <2>2. 0 \in P
    BY <1>1, <1>4, <2>1
  <2>3. \A i \in 1..n: i - 1 \in P => i \in P
    BY <1>1, <1>5, <2>1
  <2>4. \A i \in 0..n: i \in P
    <3> HIDE DEF P
    <3> QED
      BY <1>1, <2>2, <2>3, Climb
  <2>5. after = [i \in 0..n |-> after[i]]
    BY <1>7
  <2> QED
    BY <1>4, <2>4, <2>5
<1>10. Appended(s, messages) = g[n]
  BY <1>8, <1>9, Zenon
<1> HIDE DEF after, F, n
<1> DEFINE Upto(i) == {messages[j] : j \in 1..i}
           Good(i) ==
             /\ g[i] = [s EXCEPT !.order = g[i].order]
             /\ ToSet(g[i].order) = ToSet(s.order) \cup Upto(i)
             /\ IsInjective(s.order) => IsInjective(g[i].order)
           P == {i \in 0..n: Good(i)}
<1>11. 0 \in P
  <2>1. Upto(0) = {}
    OBVIOUS
  <2>2. s = [s EXCEPT !.order = s.order]
    BY DEF Session
  <2> QED
    BY <1>1, <1>4, <2>1, <2>2
<1>12. ASSUME NEW i \in 1..n, i - 1 \in P
       PROVE  i \in P
  <2> DEFINE h == g[i - 1]
  <2>1. h \in Session /\ Good(i - 1) /\ g[i] = append(h, messages[i]) /\ messages[i] \in Message
    BY <1>1, <1>4, <1>5, <1>12
  <2>2. Upto(i) = Upto(i - 1) \cup {messages[i]}
    <3>1. \A j \in 1..i: j \in 1..i - 1 \/ j = i
      OBVIOUS
    <3>2. \A j \in 1..i - 1: j \in 1..i
      OBVIOUS
    <3>3. i \in 1..i
      OBVIOUS
    <3> QED
      BY <3>1, <3>2, <3>3
  <2>3. /\ h = [s EXCEPT !.order = h.order]
        /\ ToSet(h.order) = ToSet(s.order) \cup Upto(i - 1)
        /\ IsInjective(s.order) => IsInjective(h.order)
    BY <2>1
  <2> HIDE DEF h, Upto
  <2>4. /\ g[i] = [h EXCEPT !.order = g[i].order]
        /\ ToSet(g[i].order) = ToSet(h.order) \cup {messages[i]}
        /\ IsInjective(h.order) => IsInjective(g[i].order)
    <3> DEFINE m == messages[i]
    <3> HIDE DEF m
    <3>1. h \in Session /\ m \in Message /\ g[i] = append(h, m)
      BY <2>1 DEF m
    <3>2. /\ append(h, m) = [h EXCEPT !.order = append(h, m).order]
          /\ ToSet(append(h, m).order) = ToSet(h.order) \cup {m}
          /\ IsInjective(h.order) => IsInjective(append(h, m).order)
      BY <3>1, AppendRow
    <3> QED
      BY <3>1, <3>2 DEF m
  <2>5. g[i] = [s EXCEPT !.order = g[i].order]
    BY <2>3, <2>4 DEF Session
  <2>6. ToSet(g[i].order) = ToSet(s.order) \cup Upto(i)
    BY <2>2, <2>3, <2>4
  <2>7. Good(i)
    BY <2>3, <2>4, <2>5, <2>6
  <2>8. i \in 0..n
    BY <1>1
  <2> HIDE DEF Good
  <2> QED
    BY <2>7, <2>8
<1>13. Good(n) /\ g[n] \in Session
  <2>1. n \in 0..n
    BY <1>1
  <2> HIDE DEF P
  <2>2. n \in P
    BY <1>1, <1>11, <1>12, Climb
  <2> QED
    BY <1>4, <2>1, <2>2 DEF P
<1>14. Upto(n) = ToSet(messages)
  BY <1>1 DEF ToSet
<1> HIDE DEF Upto
<1> QED
  BY <1>10, <1>13, <1>14 DEF Appends

\* What stays of a sequence before some place.
LEMMA Before ==
  ASSUME NEW T, NEW s \in Seq(T), NEW k \in 0..Len(s)
  PROVE  LET t == SubSeq(s, 1, k - 1) IN
         t \in Seq(T) /\ ToSet(t) \subseteq ToSet(s) /\ (IsInjective(s) => IsInjective(t))
<1> DEFINE t == SubSeq(s, 1, k - 1)
<1>1. t \in Seq(T)
  OBVIOUS
<1>2. \A i \in DOMAIN t: i \in DOMAIN s /\ t[i] = s[i]
  OBVIOUS
<1> HIDE DEF t
<1>3. ToSet(t) \subseteq ToSet(s) /\ (IsInjective(s) => IsInjective(t))
  BY <1>2 DEF ToSet, IsInjective
<1> QED
  BY <1>1, <1>3 DEF t

\* The lowest of some places.
LEMMA LowestPlace ==
  ASSUME NEW n \in Nat, NEW I \in SUBSET (1..n), I # {}
  PROVE  Min(I) \in 1..n
<1>1. I \in SUBSET Nat
  OBVIOUS
<1>2. \E i \in I: \A j \in I: i =< j
  BY <1>1, Lowest
<1>3. Min(I) \in I
  BY <1>2 DEF Min
<1> QED
  BY <1>3

\* What a snapshot makes of a session, with the events that came during the read.
Snapshots(s, t, read, during) ==
  /\ t \in Session /\ t.loaded
  /\ RowsOf(s) /\ IsInjective(read.page) => RowsOf(t)
  /\ \A p \in Ids:
       /\ /\ p \in s.pending /\ p \in s.outbox /\ p \in ToSet(s.order)
          /\ p \notin ToSet(read.page) /\ p \notin ToSet(read.inbox) /\ ~About(during, p)
          => p \in t.pending /\ p \in t.outbox
       /\ p \notin ToSet(read.inbox) /\ ~About(during, p) /\ p \in t.pending => p \in t.outbox
       /\ /\ \A i \in DOMAIN during: during[i].type # "cancelled"
          /\ \/ p \in ToSet(read.page) \/ p \in ToSet(read.inbox)
             \/ p \in s.pending /\ p \in s.outbox /\ p \in ToSet(s.order)
             \/ \E i \in DOMAIN during: during[i].type = "enqueued" /\ during[i].id = p
          => p \in ToSet(t.order)

LEMMA SnapshotApplied ==
  ASSUME NEW s \in Session, NEW read \in Transcripts, NEW during \in Seq(Events)
  PROVE  Snapshots(s, applySnapshot(s, read, during), read, during)
<1> DEFINE fetched == ToSet(read.page)
           joins == s.loaded /\ ToSet(s.order) \cap fetched # {}
           firstAt == SelectInSeq(s.order, LAMBDA m: m = Head(read.page))
           start == SubSeq(s.order, 1, firstAt - 1)
           prefix == IF joins THEN Without(start, fetched) ELSE <<>>
           unacknowledged == (s.pending \cap s.outbox) \ (fetched \cup ToSet(read.inbox))
           waiting == Without(read.inbox, fetched)
           kept == Only(s.order, unacknowledged)
           unsettled == waiting \o kept
           committed ==
             [s EXCEPT !.order = prefix \o read.page, !.pending = ToSet(unsettled),
                       !.outbox = @ \cap unacknowledged,
                       !.open = read.open \cup (@ \cap ToSet(prefix)),
                       !.loaded = TRUE, !.loading = FALSE, !.stale = FALSE, !.info = TRUE]
           appended == Appended(committed, unsettled)
           t == Replayed(appended, during)
<1>1. applySnapshot(s, read, during) = t
  BY DEF applySnapshot
<1>2. /\ s.order \in Seq(Message) /\ s.pending \subseteq Ids /\ s.outbox \subseteq Ids
      /\ s.open \subseteq Answers
  BY DEF Session
<1>3. read.inbox \in Seq(Ids) /\ read.page \in Seq(Message) /\ read.open \subseteq Answers
  BY DEF Transcripts
<1>4. start \in Seq(Message) /\ ToSet(start) \subseteq ToSet(s.order)
      /\ (IsInjective(s.order) => IsInjective(start))
  <2> DEFINE I == {i \in 1..Len(s.order) : s.order[i] = Head(read.page)}
  <2>1. firstAt = IF I # {} THEN Min(I) ELSE 0
    BY DEF SelectInSeq
  <2>2. Len(s.order) \in Nat /\ I \in SUBSET (1..Len(s.order))
    BY <1>2
  <2> HIDE DEF I, firstAt
  <2>3. firstAt \in 0..Len(s.order)
    BY <2>1, <2>2, LowestPlace
  <2> QED
    BY <1>2, <2>3, Before
<1> HIDE DEF start
<1>5. /\ prefix \in Seq(Message) /\ ToSet(prefix) \subseteq ToSet(s.order) \ fetched
      /\ IsInjective(s.order) => IsInjective(prefix)
  <2>1. CASE joins
    <3> HIDE DEF fetched
    <3>1. /\ Without(start, fetched) \in Seq(Message)
          /\ ToSet(Without(start, fetched)) = ToSet(start) \ fetched
          /\ IsInjective(start) => IsInjective(Without(start, fetched))
      BY <1>4, WithoutContents
    <3> QED
      BY <1>4, <2>1, <3>1
  <2>2. CASE ~joins
    <3>1. <<>> \in Seq(Message) /\ ToSet(<<>>) = {} /\ IsInjective(<<>>)
      BY DEF ToSet, IsInjective
    <3> QED
      BY <2>2, <3>1
  <2> QED
    BY <2>1, <2>2
<1> HIDE DEF prefix
<1>6. /\ waiting \in Seq(Ids) /\ ToSet(waiting) = ToSet(read.inbox) \ fetched
  BY <1>3, WithoutContents
<1>7. kept \in Seq(Message) /\ ToSet(kept) = ToSet(s.order) \cap unacknowledged
  BY <1>2, OnlyContents
<1> HIDE DEF waiting, kept
<1>8. waiting \in Seq(Message)
  BY <1>6, Sorts, Widen
<1>9. /\ unsettled \in Seq(Message)
      /\ ToSet(unsettled) = (ToSet(read.inbox) \ fetched) \cup (ToSet(s.order) \cap unacknowledged)
  BY <1>6, <1>7, <1>8, ConcatContents
<1> HIDE DEF unsettled
<1>10. /\ prefix \o read.page \in Seq(Message)
       /\ ToSet(prefix \o read.page) = ToSet(prefix) \cup fetched
       /\ IsInjective(s.order) /\ IsInjective(read.page) => IsInjective(prefix \o read.page)
  <2>1. ToSet(prefix) \cap ToSet(read.page) = {}
    BY <1>5
  <2> QED
    BY <1>3, <1>5, <2>1, ConcatContents
<1> DEFINE order == prefix \o read.page
<1> HIDE DEF order
<1>11. ToSet(unsettled) \subseteq Ids
  <2>1. ToSet(read.inbox) \subseteq Ids
    BY <1>3 DEF ToSet
  <2> QED
    BY <1>2, <1>9, <2>1
<1>12. /\ committed \in Session
       /\ committed.order = order /\ committed.pending = ToSet(unsettled)
       /\ committed.outbox = s.outbox \cap unacknowledged
       /\ committed.loaded = TRUE
  <2>1. s.outbox \cap unacknowledged \subseteq Ids
    BY <1>2
  <2>2. read.open \cup (s.open \cap ToSet(prefix)) \subseteq Answers
    BY <1>2, <1>3
  <2>3. committed =
          [s EXCEPT !.order = order, !.pending = ToSet(unsettled),
                    !.outbox = s.outbox \cap unacknowledged,
                    !.open = read.open \cup (s.open \cap ToSet(prefix)),
                    !.loaded = TRUE, !.loading = FALSE, !.stale = FALSE, !.info = TRUE]
    BY DEF order
  <2>4. order \in Seq(Message)
    BY <1>10 DEF order
  <2> HIDE DEF unacknowledged, committed
  <2>5. committed \in Session
    BY <1>11, <2>1, <2>2, <2>3, <2>4 DEF Session
  <2> QED
    BY <2>3, <2>5 DEF Session
<1> HIDE DEF committed
<1>13. Appends(committed, appended, unsettled)
  BY <1>9, <1>12, AppendedRows
<1> HIDE DEF appended
<1>14. /\ appended \in Session
       /\ appended.pending = ToSet(unsettled) /\ appended.outbox = s.outbox \cap unacknowledged
       /\ appended.loaded = TRUE
       /\ ToSet(appended.order) = ToSet(order) \cup ToSet(unsettled)
       /\ IsInjective(order) => IsInjective(appended.order)
  BY <1>12, <1>13 DEF Appends, Session
<1>15. RowsOf(s) /\ IsInjective(read.page) => RowsOf(appended)
  BY <1>10, <1>14 DEF RowsOf, order
<1>16. /\ t \in Session /\ t.loaded = appended.loaded
       /\ RowsOf(appended) => RowsOf(t)
       /\ \A p \in Ids:
            /\ ~About(during, p) => SameFor(appended, t, p)
            /\ (\A i \in DOMAIN during: during[i].type # "cancelled") =>
                 /\ p \in ToSet(appended.order) => p \in ToSet(t.order)
                 /\ /\ appended.loaded
                    /\ \E i \in DOMAIN during: during[i].type = "enqueued" /\ during[i].id = p
                    => p \in ToSet(t.order)
  BY <1>14, ReplayReduces DEF Applies
<1> HIDE DEF t
<1>17. \A p \in Ids:
         /\ /\ p \in s.pending /\ p \in s.outbox /\ p \in ToSet(s.order)
            /\ p \notin fetched /\ p \notin ToSet(read.inbox)
            => p \in appended.pending /\ p \in appended.outbox
         /\ p \notin ToSet(read.inbox) /\ p \in appended.pending => p \in appended.outbox
  BY <1>9, <1>14
<1>18. \A p \in Ids:
         \/ p \in fetched \/ p \in ToSet(read.inbox)
         \/ p \in s.pending /\ p \in s.outbox /\ p \in ToSet(s.order)
         => p \in ToSet(appended.order)
  BY <1>9, <1>10, <1>14 DEF order
<1> QED
  BY <1>1, <1>14, <1>15, <1>16, <1>17, <1>18 DEF Snapshots, SameFor

-----------------------------------------------------------------------------
\* Keys

Clients == [key: Keys, session: Session]

\* A read that begins.
asked == [noRead EXCEPT !.phase = "asked"]

SameRows(s, t) ==
  /\ t.order = s.order /\ t.pending = s.pending /\ t.outbox = s.outbox
  /\ t.loaded = s.loaded /\ t.open = s.open /\ t.status = s.status /\ t.stale = s.stale

\* The read is gone on with, given up, or begun again; nothing is done to rows.
Goes(c, d) ==
  /\ d \in Clients /\ SameRows(c.session, d.session)
  /\ d.key.read = c.key.read \/ d.key.read = noRead \/ d.key.read = asked
  /\ d.key.again => d.key.state = "pending"
  /\ Rests(c.key) => Rests(d.key)

LEMMA Blank ==
  /\ noRead \in Transcripts /\ asked \in Transcripts /\ noKey \in Keys
  /\ emptySession \in Session
  /\ noRead.inbox = <<>> /\ noRead.page = <<>> /\ noRead.buffer = <<>> /\ noRead.phase = "none"
  /\ asked.inbox = <<>> /\ asked.page = <<>> /\ asked.buffer = <<>> /\ asked.phase = "asked"
  /\ noKey.state = "none" /\ noKey.read = noRead /\ ~noKey.again
<1>1. \A S: <<>> \in Seq(S)
  OBVIOUS
<1>2. noRead \in Transcripts
  BY <1>1 DEF noRead, Transcripts
<1> QED
  BY <1>1, <1>2 DEF noRead, asked, noKey, emptySession, Transcripts, Keys, Session

LEMMA BegunGoes ==
  ASSUME NEW c \in Clients
  PROVE  Goes(c, Begun(c)) /\ Begun(c).key.state = "pending" /\ Begun(c).key.read = asked
<1> DEFINE k == [state |-> "pending", invalidated |-> FALSE, again |-> FALSE, read |-> asked]
           s == [c.session EXCEPT !.loading = TRUE, !.known = TRUE]
<1>1. Begun(c) = [key |-> k, session |-> s]
  BY DEF Begun, asked
<1>2. k \in Keys /\ k.state = "pending" /\ k.read = asked
  BY Blank DEF Keys
<1>3. s \in Session /\ SameRows(c.session, s)
  BY DEF Clients, Session, SameRows
<1> HIDE DEF k, s
<1> QED
  BY <1>1, <1>2, <1>3 DEF Goes, Clients, Rests

LEMMA RunGoes ==
  ASSUME NEW c \in Clients, c.key.again => c.key.state = "pending"
  PROVE  /\ Goes(c, Run(c))
         /\ Run(c).key.state = "pending" \/ (c.key.state = "done" /\ Run(c) = c)
<1>1. c.key \in Keys /\ c.session \in Session /\ c.key.state \in {"none", "pending", "done"}
  BY DEF Clients, Keys
<1>2. CASE c.key.state = "none"
  <2>1. Run(c) = Begun(c)
    BY <1>2 DEF Run
  <2> QED
    BY <2>1, BegunGoes
<1>3. CASE c.key.state = "pending" /\ c.key.invalidated
  <2>1. Run(c) = [c EXCEPT !.key.again = TRUE, !.key.invalidated = FALSE]
    BY <1>3 DEF Run
  <2> DEFINE k == [c.key EXCEPT !.again = TRUE, !.invalidated = FALSE]
  <2>2. k \in Keys /\ k.state = "pending" /\ k.read = c.key.read
    BY <1>1, <1>3 DEF Keys
  <2>3. Run(c) = [c EXCEPT !.key = k]
    BY <2>1 DEF Clients
  <2> HIDE DEF k
  <2>4. Run(c) \in Clients /\ Run(c).session = c.session /\ Run(c).key = k
    BY <2>2, <2>3 DEF Clients
  <2> QED
    BY <2>2, <2>4 DEF Goes, SameRows, Rests
<1>4. CASE c.key.state = "done" \/ (c.key.state = "pending" /\ ~c.key.invalidated)
  <2>1. Run(c) = c
    BY <1>4 DEF Run
  <2> QED
    BY <1>4, <2>1 DEF Goes, SameRows, Rests
<1> QED
  BY <1>1, <1>2, <1>3, <1>4

LEMMA InvalidatedGoes ==
  ASSUME NEW c \in Clients, c.key.again => c.key.state = "pending"
  PROVE  /\ Goes(c, Invalidated(c))
         /\ Invalidated(c).session = c.session
         /\ Invalidated(c).key.state = IF c.key.state = "done" THEN "none" ELSE c.key.state
<1>1. c.key \in Keys /\ c.session \in Session /\ c.key.state \in {"none", "pending", "done"}
  BY DEF Clients, Keys
<1>2. CASE c.key.state = "done"
  <2>1. Invalidated(c) = [c EXCEPT !.key = noKey]
    BY <1>2 DEF Invalidated
  <2> QED
    BY <1>1, <1>2, <2>1, Blank DEF Goes, SameRows, Rests, Clients
<1>3. CASE c.key.state = "pending" /\ ~c.key.again
  <2>1. Invalidated(c) = [c EXCEPT !.key.invalidated = TRUE]
    BY <1>3 DEF Invalidated
  <2>2. Invalidated(c) \in Clients /\ Invalidated(c).session = c.session
        /\ Invalidated(c).key.state = "pending" /\ Invalidated(c).key.read = c.key.read
    BY <1>3, <2>1, ZenonT(40) DEF Clients, Keys
  <2> QED
    BY <1>3, <2>2 DEF Goes, SameRows, Rests
<1>4. CASE c.key.state = "none" \/ (c.key.state = "pending" /\ c.key.again)
  <2>1. Invalidated(c) = c
    BY <1>4 DEF Invalidated
  <2> QED
    BY <1>4, <2>1 DEF Goes, SameRows, Rests
<1> QED
  BY <1>1, <1>2, <1>3, <1>4

LEMMA GoesOn ==
  ASSUME NEW c, NEW d, NEW e, Goes(c, d), Goes(d, e)
  PROVE  Goes(c, e)
  BY DEF Goes, SameRows, Rests

\* run behind invalidate: the transcript is read, or read again.
LEMMA RereadGoes ==
  ASSUME NEW c \in Clients, c.key.again => c.key.state = "pending"
  PROVE  Goes(c, Run(Invalidated(c))) /\ Run(Invalidated(c)).key.state = "pending"
<1> DEFINE d == Invalidated(c)
<1>1. Goes(c, d) /\ d.key.state # "done"
  BY InvalidatedGoes
<1>2. d \in Clients /\ (d.key.again => d.key.state = "pending")
  BY <1>1 DEF Goes
<1> HIDE DEF d
<1>3. Goes(d, Run(d)) /\ Run(d).key.state = "pending"
  BY <1>1, <1>2, RunGoes
<1> QED
  BY <1>1, <1>3, GoesOn DEF d

LEMMA ReloadedGoes ==
  ASSUME NEW c \in Clients, c.key.again => c.key.state = "pending"
  PROVE  Goes(c, Reloaded(c)) /\ (online => Reloaded(c).key.state = "pending")
         /\ (~online => Reloaded(c) = c)
<1>1. Goes(c, c)
  BY DEF Goes, SameRows, Rests
<1> QED
  BY <1>1, RereadGoes DEF Reloaded

\* A read that is over leaves a read that begins, or none.
LEMMA EndedGoes ==
  ASSUME NEW c \in Clients, NEW ok \in BOOLEAN
  PROVE  /\ Goes(c, Ended(c, ok))
         /\ Ended(c, ok).key.read \in {noRead, asked}
         /\ Ended(c, ok).key.state = "done" => ok
<1>1. CASE c.key.again
  BY <1>1, BegunGoes DEF Ended
<1>2. CASE ~c.key.again
  <2> DEFINE to == IF ok /\ ~c.key.invalidated THEN "done" ELSE "none"
             k == [noKey EXCEPT !.state = to]
  <2>1. Ended(c, ok) = [c EXCEPT !.key = k]
    BY <1>2 DEF Ended
  <2>2. k \in Keys /\ k.read = noRead /\ ~k.again /\ k.state = to
    BY Blank DEF Keys, noKey
  <2> HIDE DEF k
  <2>3. Ended(c, ok) \in Clients /\ Ended(c, ok).key = k /\ Ended(c, ok).session = c.session
    BY <2>1, <2>2 DEF Clients
  <2> QED
    BY <2>2, <2>3 DEF Goes, SameRows, Rests
<1> QED
  BY <1>1, <1>2

-----------------------------------------------------------------------------
\* Types

SyncInv == Types /\ Joined

LEMMA NextCases ==
  ASSUME SyncNext
  PROVE  \/ Starts \/ Delivers \/ Steps \/ Answered \/ Ends \/ Deletes \/ TakeBack
         \/ Connects \/ Drops
         \/ HandleConnected \/ HandleBuffered \/ HandleEvent \/ HandleDeleted
         \/ Settle \/ ReadActive \/ CommitActive \/ Read \/ Commit \/ ReadFails
         \/ Leave \/ Return \/ Cancelled \/ CancelFails
         \/ \E p \in Ids: \/ Take(p) \/ Send(p) \/ Post(p) \/ Accepted(p) \/ Rejected(p)
                          \/ Cancel(p)
  BY DEF SyncNext, Server, Handle, Reads, Prompting

\* An event goes out on the stream, when there is one.
LEMMA Pushed ==
  ASSUME stream \in Seq(Events), NEW e \in Events, Push(e)
  PROVE  /\ stream' \in Seq(Events)
         /\ \A i \in DOMAIN stream': (i \in DOMAIN stream /\ stream'[i] = stream[i])
                                     \/ stream'[i] = e
<1>1. CASE ~attached
  BY <1>1 DEF Push
<1>2. CASE attached
  <2>1. stream' = Append(stream, e)
    BY <1>2 DEF Push
  <2> QED
    BY <2>1
<1> QED
  BY <1>1, <1>2

LEMMA EventTypes ==
  /\ \A t \in {"connected", "started", "ended", "deleted"}: Event(t, 0) \in Events
  /\ \A t \in {"enqueued", "delivered", "cancelled"}: \A p \in Ids: Event(t, p) \in Events
  /\ \A t \in {"step", "answered"}: \A m \in Answers: Event(t, m) \in Events
  BY DEF Event, Events

\* The first event is taken from the stream.
LEMMA Shifted ==
  ASSUME stream \in Seq(Events), Next1
  PROVE  /\ stream # <<>> /\ Head(stream) \in Events /\ stream' \in Seq(Events)
         /\ 1 \in DOMAIN stream /\ Head(stream) = stream[1]
         /\ \A i \in DOMAIN stream': i + 1 \in DOMAIN stream /\ stream'[i] = stream[i + 1]
<1>1. stream # <<>> /\ stream' = Tail(stream)
  BY DEF Next1
<1> QED
  BY <1>1, TailContents

LEMMA UpsetTypes ==
  ASSUME upsets \in [{"drops", "fails", "cancels", "leaves"} -> Nat],
         NEW kind \in {"drops", "fails", "cancels", "leaves"}, Upset(kind)
  PROVE  /\ upsets' \in [{"drops", "fails", "cancels", "leaves"} -> Nat]
         /\ upsets' = [upsets EXCEPT ![kind] = @ + 1]
         /\ upsets'[kind] # 0
  BY DEF Upset

LEMMA InitTypes ==
  ASSUME SyncInit
  PROVE  SyncInv
<1>1. ServerTypes
  <2>1. \A S: <<>> \in Seq(S)
    OBVIOUS
  <2>2. MaxRuns \in Nat
    BY ChatAssumption
  <2>3. 0 \in 0..MaxRuns
    BY <2>2
  <2>4. inbox \in Seq(Ids) /\ page \in Seq(Message) /\ stream \in Seq(Events)
    BY <2>1 DEF SyncInit
  <2> QED
    BY <2>3, <2>4 DEF SyncInit, ServerTypes
<1>2. ClientTypes
  <2>1. active \in [phase: {"none", "asked", "read"}, running: BOOLEAN,
                   update: {"none", "running", "idle"}]
    BY DEF SyncInit, noActive
  <2>2. post \in [Ids -> PostStates]
    BY DEF SyncInit, PostStates
  <2>3. /\ cancel \in [id: Ids \cup {0}, state: {"none", "sent", "cancelled", "refused"}]
        /\ cancel.state = "none"
    BY DEF SyncInit, noCancel
  <2>4. upsets \in [{"drops", "fails", "cancels", "leaves"} -> Nat]
    BY DEF SyncInit, noUpsets
  <2> QED
    BY <2>1, <2>2, <2>3, <2>4 DEF SyncInit, ClientTypes
<1>3. KeyTypes
  <2>1. [emptySession EXCEPT !.info = TRUE, !.known = TRUE] \in Session
    BY Blank DEF Session
  <2> QED
    BY <2>1, Blank DEF SyncInit, KeyTypes
<1>4. Joined
  BY Blank DEF SyncInit, Joined, Rests
<1> QED
  BY <1>1, <1>2, <1>3, <1>4 DEF SyncInv, Types

\* The steps of the server.
LEMMA ServerStepTypes ==
  ASSUME ServerTypes
  PROVE  /\ Starts => ServerTypes'
         /\ Delivers => ServerTypes'
         /\ Steps => ServerTypes'
         /\ Answered => ServerTypes'
         /\ Ends => ServerTypes'
         /\ Deletes => ServerTypes'
         /\ TakeBack /\ cancel.id \in Ids => ServerTypes'
         /\ \A p \in Ids: Take(p) => ServerTypes'
<1>0. stream \in Seq(Events) /\ inbox \in Seq(Ids) /\ page \in Seq(Message)
      /\ run \in 0..MaxRuns /\ MaxRuns \in Nat
  BY ChatAssumption DEF ServerTypes
<1>1. ASSUME Starts
      PROVE  ServerTypes'
  <2>1. stream' \in Seq(Events)
    BY <1>0, <1>1, EventTypes, Pushed DEF Starts
  <2> QED
    BY <1>0, <1>1, <2>1 DEF ServerTypes, Starts
<1>2. ASSUME Delivers
      PROVE  ServerTypes'
  <2>1. inbox # <<>> /\ Head(inbox) \in Ids /\ Tail(inbox) \in Seq(Ids)
    BY <1>0, <1>2, TailContents DEF Delivers
  <2>2. stream' \in Seq(Events)
    BY <1>0, <1>2, <2>1, EventTypes, Pushed DEF Delivers
  <2>3. page' \in Seq(Message)
    <3>1. Head(inbox) \in Message
      BY <2>1, Sorts
    <3> QED
      BY <1>0, <1>2, <3>1, AppendContents DEF Delivers
  <2> QED
    BY <1>0, <1>2, <2>1, <2>2, <2>3 DEF ServerTypes, Delivers
<1>3. ASSUME Steps
      PROVE  ServerTypes'
  <2>1. -run \in Answers
    BY <1>0, <1>3 DEF ServerTypes, Steps, Answers
  <2>2. stream' \in Seq(Events)
    BY <1>0, <1>3, <2>1, EventTypes, Pushed DEF Steps
  <2>3. page' \in Seq(Message)
    <3>1. -run \in Message
      BY <2>1, Sorts
    <3> QED
      BY <1>0, <1>3, <3>1, AppendContents DEF Steps
  <2> QED
    BY <1>0, <1>3, <2>1, <2>2, <2>3 DEF ServerTypes, Steps
<1>4. ASSUME Answered
      PROVE  ServerTypes'
  <2>1. -run \in Answers
    BY <1>4 DEF ServerTypes, Answered
  <2>2. stream' \in Seq(Events)
    BY <1>0, <1>4, <2>1, EventTypes, Pushed DEF Answered
  <2> QED
    BY <1>0, <1>4, <2>2 DEF ServerTypes, Answered
<1>5. ASSUME Ends
      PROVE  ServerTypes'
  <2>1. stream' \in Seq(Events)
    BY <1>0, <1>5, EventTypes, Pushed DEF Ends
  <2> QED
    BY <1>0, <1>5, <2>1 DEF ServerTypes, Ends
<1>6. ASSUME Deletes
      PROVE  ServerTypes'
  <2>1. stream' \in Seq(Events)
    BY <1>0, <1>6, EventTypes, Pushed DEF Deletes
  <2> QED
    BY <1>0, <1>6, <2>1 DEF ServerTypes, Deletes
<1>7. ASSUME TakeBack, cancel.id \in Ids
      PROVE  ServerTypes'
  <2>1. CASE exists /\ cancel.id \in ToSet(inbox)
    <3>1. Push(Event("cancelled", cancel.id)) /\ inbox' = Without(inbox, {cancel.id})
      BY <1>7, <2>1 DEF TakeBack
    <3>2. stream' \in Seq(Events)
      BY <1>0, <1>7, <3>1, EventTypes, Pushed
    <3>3. inbox' \in Seq(Ids)
      BY <1>0, <3>1, WithoutContents
    <3> QED
      BY <1>0, <1>7, <3>2, <3>3 DEF ServerTypes, TakeBack
  <2>2. CASE ~(exists /\ cancel.id \in ToSet(inbox))
    BY <1>7, <2>2 DEF ServerTypes, TakeBack
  <2> QED
    BY <2>1, <2>2
<1>8. ASSUME NEW p \in Ids, Take(p)
      PROVE  ServerTypes'
  <2>1. stream' \in Seq(Events)
    BY <1>0, <1>8, EventTypes, Pushed DEF Take
  <2>2. inbox' \in Seq(Ids)
    BY <1>0, <1>8, AppendContents DEF Take
  <2> QED
    BY <1>0, <1>8, <2>1, <2>2 DEF ServerTypes, Take
<1> QED
  BY <1>1, <1>2, <1>3, <1>4, <1>5, <1>6, <1>7, <1>8

\* What a step of the client does to the key and to the session, seen from a session t
\* the rows of which it leaves alone.
Carries(t) ==
  /\ KeyTypes' /\ (transcript'.again => transcript'.state = "pending")
  /\ Rests(transcript)'
  /\ SameRows(t, session')

ReadGoes ==
  transcript'.read = transcript.read \/ transcript'.read = noRead \/ transcript'.read = asked

ReadOver == transcript'.read = noRead \/ transcript'.read = asked

\* The client, with another session.
With(t) == [Client EXCEPT !.session = t]

LEMMA ClientWith ==
  ASSUME KeyTypes, Joined, NEW t \in Session
  PROVE  /\ With(t) \in Clients /\ With(t).key = transcript /\ With(t).session = t
         /\ With(t).key.again => With(t).key.state = "pending"
         /\ Client = With(session)
         /\ Client \in Clients
  BY DEF KeyTypes, Joined, With, Client, Clients

LEMMA BecomesGoes ==
  ASSUME KeyTypes, Joined, NEW t \in Session, NEW d, Goes(With(t), d), Becomes(d)
  PROVE  Carries(t) /\ ReadGoes
  BY ClientWith DEF Goes, Becomes, Carries, ReadGoes, KeyTypes, Clients, Joined, Rests

LEMMA ForgottenTypes ==
  ASSUME NEW s \in Session
  PROVE  /\ Forgotten(s) \in Session /\ ~Forgotten(s).loaded
         /\ Forgotten(s).order = s.order /\ Forgotten(s).pending = s.pending
         /\ Forgotten(s).outbox = s.outbox /\ Forgotten(s).open = s.open
         /\ Forgotten(s).stale = s.stale
  BY DEF Forgotten, Session

\* The stream ends, with the client online.
LEMMA DropsDoes ==
  ASSUME KeyTypes, Drops, online
  PROVE  /\ KeyTypes' /\ transcript' = noKey
         /\ Applies(Forgotten(session), session', transcript.read.buffer)
<1>1. transcript' = noKey /\ session' = Replayed(Forgotten(session), transcript.read.buffer)
  BY DEF Drops
<1>2. transcript.read.buffer \in Seq(Events) /\ session \in Session
  BY DEF KeyTypes, Keys, Transcripts
<1>3. Applies(Forgotten(session), session', transcript.read.buffer)
  BY <1>1, <1>2, ForgottenTypes, ReplayReduces
<1> QED
  BY <1>1, <1>3, Blank DEF KeyTypes, Applies

LEMMA ConnectedDoes ==
  ASSUME KeyTypes, Joined, HandleConnected
  PROVE  /\ Carries(Forgotten(session)) /\ ReadGoes
         /\ watched => transcript'.state = "pending"
         /\ transcript'.state # "done"
<1> DEFINE d == Invalidated(Client)
           c == [d EXCEPT !.session = Forgotten(@)]
           t == Forgotten(session)
<1>1. session \in Session
  BY DEF KeyTypes
<1>2. /\ Goes(Client, d) /\ d.session = session /\ d.key.state # "done"
  BY <1>1, ClientWith, InvalidatedGoes DEF Client
<1>3. c \in Clients /\ c.key = d.key /\ c.session = t
  BY <1>1, <1>2, ForgottenTypes DEF Goes, Clients
<1>4. Goes(With(t), c)
  <2>1. t \in Session
    BY <1>1, ForgottenTypes
  <2>2. With(t).key = transcript /\ With(t).session = t
    BY <2>1, ClientWith
  <2>3. Client.key = transcript
    BY DEF Client
  <2> HIDE DEF c, d, t
  <2> QED
    BY <1>2, <1>3, <2>2, <2>3 DEF Goes, SameRows, Rests
<1>5. c.key.again => c.key.state = "pending"
  BY <1>2, <1>3 DEF Goes
<1>6. IF watched THEN Becomes(Run(c)) ELSE Becomes(c)
  BY DEF HandleConnected
<1> HIDE DEF c, d
<1>7. Goes(c, Run(c)) /\ Run(c).key.state = "pending"
  BY <1>2, <1>3, <1>5, RunGoes
<1>8. PICK e: /\ Goes(With(t), e) /\ Becomes(e) /\ e.key.state # "done"
              /\ watched => e.key.state = "pending"
  BY <1>2, <1>3, <1>4, <1>6, <1>7, GoesOn
<1>9. t \in Session
  BY <1>1, ForgottenTypes
<1> HIDE DEF t
<1>10. Carries(t) /\ ReadGoes
  BY <1>8, <1>9, BecomesGoes
<1> QED
  BY <1>8, <1>10 DEF t, Becomes

LEMMA SettleDoes ==
  ASSUME KeyTypes, Joined, Settle
  PROVE  Carries(session) /\ ReadGoes /\ transcript'.state = "pending"
<1>1. session \in Session /\ Becomes(Run(Invalidated(Client)))
  BY DEF KeyTypes, Settle
<1>2. /\ Client = With(session) /\ Goes(Client, Run(Invalidated(Client)))
      /\ Run(Invalidated(Client)).key.state = "pending"
  BY <1>1, ClientWith, RereadGoes
<1> QED
  BY <1>1, <1>2, BecomesGoes DEF Becomes

LEMMA ReturnDoes ==
  ASSUME KeyTypes, Joined, Return
  PROVE  /\ Carries(session) /\ ReadGoes
         /\ online => transcript'.state = "pending"
                      \/ (transcript.state = "done" /\ session' = session)
         /\ transcript'.state = "done" => transcript.state = "done"
<1>1. session \in Session
  BY DEF KeyTypes
<1>2. CASE online
  <2>1. Becomes(Run(Client))
    BY <1>2 DEF Return
  <2>2. /\ Client = With(session) /\ Goes(Client, Run(Client))
        /\ Run(Client).key.state = "pending" \/ (Client.key.state = "done" /\ Run(Client) = Client)
    BY <1>1, ClientWith, RunGoes
  <2>3. Client.key = transcript /\ Client.session = session
    BY DEF Client
  <2> QED
    BY <1>1, <2>1, <2>2, <2>3, BecomesGoes DEF Becomes
<1>3. CASE ~online
  BY <1>3 DEF Return, Carries, ReadGoes, KeyTypes, Joined, SameRows, Rests
<1> QED
  BY <1>2, <1>3

LEMMA CancelFailsDoes ==
  ASSUME KeyTypes, Joined, CancelFails
  PROVE  /\ Carries(session) /\ ReadGoes
         /\ transcript'.state # "done" \/ (transcript' = transcript /\ session' = session)
         /\ transcript'.state = "pending" \/ (transcript' = transcript /\ session' = session)
<1>1. session \in Session
  BY DEF KeyTypes
<1>2. CASE session.loaded
  <2>1. Becomes(Reloaded(Client))
    BY <1>2 DEF CancelFails
  <2>2. /\ Client = With(session) /\ Goes(Client, Reloaded(Client))
        /\ Reloaded(Client).key.state = "pending" \/ Reloaded(Client) = Client
    BY <1>1, ClientWith, ReloadedGoes
  <2>3. Client.key = transcript /\ Client.session = session
    BY DEF Client
  <2> QED
    BY <1>1, <2>1, <2>2, <2>3, BecomesGoes DEF Becomes
<1>3. CASE ~session.loaded
  BY <1>3 DEF CancelFails, Carries, ReadGoes, KeyTypes, Joined, SameRows, Rests
<1> QED
  BY <1>2, <1>3

LEMMA RejectedDoes ==
  ASSUME KeyTypes, Joined, NEW p \in Ids, Rejected(p)
  PROVE  /\ Carries(retract(session, p)) /\ ReadGoes
         /\ transcript'.state = "pending" \/ transcript'.state = transcript.state
<1> DEFINE t == retract(session, p)
           c == [Client EXCEPT !.session = retract(@, p)]
<1>1. session \in Session
  BY DEF KeyTypes
<1>2. t \in Session
  BY <1>1, RetractRow
<1>3. c = With(t)
  BY DEF With, Client
<1>4. Becomes(IF session.loaded THEN Reloaded(c) ELSE c)
  BY DEF Rejected
<1> HIDE DEF c, t
<1>5. c \in Clients /\ c.key = transcript /\ (c.key.again => c.key.state = "pending")
  BY <1>2, <1>3, ClientWith
<1>6. Goes(c, Reloaded(c)) /\ (Reloaded(c).key.state = "pending" \/ Reloaded(c) = c)
  BY <1>5, ReloadedGoes
<1>7. Goes(c, c)
  BY <1>5 DEF Goes, SameRows, Rests
<1>8. PICK d: Goes(c, d) /\ Becomes(d) /\ (d.key.state = "pending" \/ d = c)
  BY <1>4, <1>6, <1>7
<1>9. Carries(t) /\ ReadGoes
  BY <1>2, <1>3, <1>8, BecomesGoes
<1> QED
  BY <1>5, <1>8, <1>9 DEF Becomes, t

\* The read's answers are here: the snapshot, with the events that waited.
LEMMA CommitDoes ==
  ASSUME KeyTypes, Joined, Commit
  PROVE  \E s, t \in Session:
           /\ SameRows(s, [session EXCEPT !.status = s.status])
           /\ Snapshots(s, t, transcript.read, transcript.read.buffer)
           /\ Carries(t) /\ ReadOver
<1> DEFINE s == IF session.status = "unknown" /\ activeKnown
                THEN [session EXCEPT !.status = "idle"] ELSE session
           t == applySnapshot(s, transcript.read, transcript.read.buffer)
           c == [Client EXCEPT !.session = t]
           d == Ended(c, TRUE)
<1>1. session \in Session /\ transcript.read \in Transcripts
      /\ transcript.read.buffer \in Seq(Events)
  BY DEF KeyTypes, Keys, Transcripts
<1>2. s \in Session /\ SameRows(s, [session EXCEPT !.status = s.status])
  BY <1>1 DEF Session, SameRows
<1>3. Becomes(d)
  BY DEF Commit
<1> HIDE DEF s
<1>4. Snapshots(s, t, transcript.read, transcript.read.buffer)
  BY <1>1, <1>2, SnapshotApplied
<1> HIDE DEF t
<1>5. t \in Session
  BY <1>4 DEF Snapshots
<1>6. c = With(t)
  BY DEF With
<1>7. With(t) \in Clients
  BY <1>5, ClientWith
<1>8. Goes(With(t), d) /\ d.key.read \in {noRead, asked}
  BY <1>6, <1>7, EndedGoes
<1> HIDE DEF c, d
<1>9. Carries(t)
  BY <1>3, <1>5, <1>8, BecomesGoes
<1>10. ReadOver
  BY <1>3, <1>8 DEF Becomes, ReadOver
<1> QED
  BY <1>2, <1>4, <1>5, <1>9, <1>10

\* The read fails: the events that waited are applied to what was there.
LEMMA ReadFailsDoes ==
  ASSUME KeyTypes, Joined, ReadFails
  PROVE  \E t \in Session:
           /\ Applies([session EXCEPT !.loading = FALSE], t, transcript.read.buffer)
           /\ Carries(t) /\ ReadOver /\ transcript'.state # "done"
<1> DEFINE s == [session EXCEPT !.loading = FALSE]
           t == Replayed(s, transcript.read.buffer)
           c == With(t)
           d == Ended(c, FALSE)
<1>1. session \in Session /\ transcript.read.buffer \in Seq(Events)
  BY DEF KeyTypes, Keys, Transcripts
<1>2. s \in Session
  BY <1>1 DEF Session
<1>3. Becomes(d)
  BY DEF ReadFails, Failed, With, Client
<1> HIDE DEF s
<1>4. Applies(s, t, transcript.read.buffer)
  BY <1>1, <1>2, ReplayReduces
<1> HIDE DEF t
<1>5. t \in Session
  BY <1>4 DEF Applies
<1>6. c \in Clients
  BY <1>5, ClientWith
<1>7. Goes(c, d) /\ d.key.read \in {noRead, asked} /\ d.key.state # "done"
  BY <1>6, EndedGoes
<1> HIDE DEF d
<1>8. Carries(t)
  BY <1>3, <1>5, <1>7, BecomesGoes
<1>9. ReadOver /\ transcript'.state # "done"
  BY <1>3, <1>7 DEF Becomes, ReadOver
<1> QED
  BY <1>4, <1>5, <1>8, <1>9 DEF s

\* What leaves the screen keeps its rows, or has none and is not loaded.
LEMMA LeaveDoes ==
  ASSUME KeyTypes, Joined, Leave
  PROVE  \/ Kept(session) /\ UNCHANGED <<transcript, session>>
         \/ /\ ~Kept(session) /\ Carries(Bare(session)) /\ ReadGoes
            /\ transcript'.state # "done"
<1>1. session \in Session
  BY DEF KeyTypes
<1>2. CASE Kept(session)
  BY <1>2 DEF Leave
<1>3. CASE ~Kept(session)
  <2> DEFINE t == Bare(session)
             c == With(t)
             d == Invalidated(c)
  <2>1. Becomes(d)
    BY <1>3 DEF Leave, Dropped, With, Client
  <2>2. t \in Session
    BY <1>1, Blank DEF Bare, Session
  <2> HIDE DEF t
  <2>3. c \in Clients /\ (c.key.again => c.key.state = "pending")
    BY <2>2, ClientWith
  <2>4. Goes(c, d) /\ d.key.state # "done"
    BY <2>3, InvalidatedGoes
  <2> HIDE DEF d
  <2>5. Carries(t) /\ ReadGoes
    BY <2>1, <2>2, <2>4, BecomesGoes
  <2> QED
    BY <1>3, <2>1, <2>4, <2>5 DEF Becomes, t
<1> QED
  BY <1>2, <1>3

\* An event waits behind the read.
LEMMA BufferedDoes ==
  ASSUME KeyTypes, stream \in Seq(Events), HandleBuffered
  PROVE  /\ KeyTypes' /\ session' = session
         /\ transcript'.state = transcript.state /\ transcript'.again = transcript.again
         /\ transcript'.read = [transcript.read EXCEPT !.buffer = Append(@, Head(stream))]
<1> DEFINE r == [transcript.read EXCEPT !.buffer = Append(@, Head(stream))]
<1>1. transcript \in Keys /\ session \in Session /\ transcript.read \in Transcripts
  BY DEF KeyTypes, Keys
<1>2. Head(stream) \in Events
  BY Shifted DEF HandleBuffered
<1>3. r \in Transcripts
  <2>1. transcript.read.buffer \in Seq(Events)
    BY <1>1 DEF Transcripts
  <2>2. Append(transcript.read.buffer, Head(stream)) \in Seq(Events)
    BY <1>2, <2>1
  <2> QED
    BY <1>1, <2>2 DEF Transcripts
<1>4. transcript' = [transcript EXCEPT !.read = r] /\ session' = session
  BY <1>1 DEF HandleBuffered, Keys
<1> HIDE DEF r
<1>5. transcript' \in Keys /\ transcript'.read = r
      /\ transcript'.state = transcript.state /\ transcript'.again = transcript.again
  BY <1>1, <1>3, <1>4 DEF Keys
<1> QED
  BY <1>1, <1>4, <1>5 DEF KeyTypes, r

LEMMA ReadDoes ==
  ASSUME KeyTypes, ServerTypes, Read
  PROVE  /\ KeyTypes' /\ session' = session
         /\ transcript'.state = transcript.state /\ transcript'.again = transcript.again
         /\ transcript'.read = ReadNext(transcript.read)
<1> DEFINE r == ReadNext(transcript.read)
<1>1. transcript \in Keys /\ session \in Session /\ transcript.read \in Transcripts
  BY DEF KeyTypes, Keys
<1>2. inbox \in Seq(Ids) /\ page \in Seq(Message) /\ open \subseteq Answers
  BY DEF ServerTypes
<1>3. r \in Transcripts
  BY <1>1, <1>2 DEF Transcripts, ReadNext
<1>4. transcript' = [transcript EXCEPT !.read = r] /\ session' = session
  BY DEF Read
<1> HIDE DEF r
<1>5. transcript' \in Keys /\ transcript'.read = r
      /\ transcript'.state = transcript.state /\ transcript'.again = transcript.again
  BY <1>1, <1>3, <1>4 DEF Keys
<1> QED
  BY <1>1, <1>4, <1>5 DEF KeyTypes, r

\* Prompts, shown and withdrawn.
LEMMA SendDoes ==
  ASSUME KeyTypes, NEW p \in Ids, Send(p)
  PROVE  /\ session' \in Session /\ session'.loaded = session.loaded
         /\ session'.pending = session.pending \cup {p}
         /\ session'.outbox = session.outbox \cup {p}
         /\ ToSet(session'.order) = ToSet(session.order) \cup {p}
         /\ RowsOf(session) => RowsOf(session')
<1> DEFINE a == admit(session, p)
<1>1. session \in Session
  BY DEF KeyTypes
<1>2. /\ a \in Session /\ a = [session EXCEPT !.pending = @ \cup {p}, !.order = a.order]
      /\ ToSet(a.order) = ToSet(session.order) \cup {p}
      /\ RowsOf(session) => RowsOf(a)
  BY <1>1, AdmitRow
<1>3. session' = [a EXCEPT !.outbox = @ \cup {p}]
  BY DEF Send
<1> HIDE DEF a
<1>4. a.pending = session.pending \cup {p} /\ a.outbox = session.outbox
      /\ a.loaded = session.loaded
  BY <1>1, <1>2 DEF Session
<1>5. a.outbox \cup {p} \subseteq Ids
  BY <1>2 DEF Session
<1>6. session' \in Session /\ session'.loaded = a.loaded /\ session'.pending = a.pending
      /\ session'.outbox = a.outbox \cup {p} /\ session'.order = a.order
  BY <1>2, <1>3, <1>5 DEF Session
<1> QED
  BY <1>2, <1>4, <1>6 DEF RowsOf

LEMMA AcceptedDoes ==
  ASSUME KeyTypes, NEW p \in Ids, Accepted(p)
  PROVE  /\ session' \in Session /\ session'.loaded = session.loaded
         /\ session'.pending = session.pending
         /\ session'.outbox = session.outbox \ {p}
         /\ ToSet(session.order) \subseteq ToSet(session'.order)
         /\ RowsOf(session) => RowsOf(session')
<1> DEFINE s == [session EXCEPT !.outbox = @ \ {p}, !.known = TRUE]
           a == admit(s, p)
<1>1. session \in Session
  BY DEF KeyTypes
<1>2. s \in Session /\ s.order = session.order /\ s.pending = session.pending
      /\ s.outbox = session.outbox \ {p} /\ s.loaded = session.loaded
  BY <1>1 DEF Session
<1>3. session' = IF p \in session.pending THEN a ELSE s
  BY DEF Accepted
<1> HIDE DEF s
<1>4. /\ a \in Session /\ a = [s EXCEPT !.pending = @ \cup {p}, !.order = a.order]
      /\ ToSet(a.order) = ToSet(s.order) \cup {p}
      /\ RowsOf(s) => RowsOf(a)
  BY <1>2, AdmitRow
<1> HIDE DEF a
<1>5. a.pending = s.pending \cup {p} /\ a.outbox = s.outbox /\ a.loaded = s.loaded
  BY <1>2, <1>4 DEF Session
<1>6. CASE p \in session.pending
  BY <1>2, <1>3, <1>4, <1>5, <1>6 DEF RowsOf
<1>7. CASE p \notin session.pending
  BY <1>2, <1>3, <1>7 DEF RowsOf
<1> QED
  BY <1>6, <1>7

LEMMA ActiveDoes ==
  ASSUME KeyTypes, ClientTypes, CommitActive
  PROVE  /\ session' \in Session /\ session'.loaded = session.loaded
         /\ session'.order = session.order /\ session'.pending = session.pending
         /\ session'.outbox = session.outbox
<1> DEFINE x == IF active.update # "none" THEN active.update
                ELSE IF active.running THEN "running" ELSE "idle"
<1>1. session \in Session /\ x \in {"running", "idle"}
  BY DEF KeyTypes, ClientTypes
<1>2. session' = IF session.known \/ active.running
                 THEN [session EXCEPT !.known = TRUE, !.status = x] ELSE session
  BY DEF CommitActive
<1> HIDE DEF x
<1> QED
  BY <1>1, <1>2 DEF Session


\* The steps that leave the transcript and what is shown of it alone.
KeySame == UNCHANGED <<transcript, session>>

LEMMA KeyUntouched ==
  /\ Starts \/ Delivers \/ Steps \/ Answered \/ Ends \/ Deletes \/ TakeBack \/ Connects
       => KeySame
  /\ ReadActive => KeySame
  /\ \A p \in Ids: Take(p) \/ Post(p) \/ Cancel(p) => KeySame
<1>1. /\ Starts => KeySame
      /\ Delivers => KeySame
      /\ Steps => KeySame
      /\ Answered => KeySame
      /\ Ends => KeySame
      /\ Deletes => KeySame
      /\ TakeBack => KeySame
      /\ Connects => KeySame
  BY DEF Starts, Delivers, Steps, Answered, Ends, Deletes, TakeBack, Connects, sync, KeySame
<1>2. ReadActive => KeySame
  BY DEF ReadActive, KeySame
<1>3. ASSUME NEW p \in Ids, Take(p) \/ Post(p) \/ Cancel(p)
      PROVE  KeySame
  BY <1>3 DEF Take, Post, Cancel, sync, KeySame
<1> QED
  BY <1>1, <1>2, <1>3

KeyStep ==
  KeyTypes' /\ (transcript'.again => transcript'.state = "pending") /\ Rests(transcript)'

LEMMA KeyStepTypes ==
  ASSUME SyncInv, [SyncNext]_syncVars
  PROVE  KeyStep
<1>0. KeyTypes /\ Joined /\ ServerTypes /\ ClientTypes /\ stream \in Seq(Events)
      /\ transcript \in Keys /\ session \in Session
  BY DEF SyncInv, Types, KeyTypes, ServerTypes
<1>1. ASSUME KeySame
      PROVE  KeyStep
  BY <1>0, <1>1 DEF KeySame, KeyTypes, Joined, KeyStep, Rests
<1>2. ASSUME NEW t, Carries(t)
      PROVE  KeyStep
  BY <1>2 DEF Carries, KeyStep
<1>3. ASSUME session' \in Session, transcript' = transcript
      PROVE  KeyStep
  BY <1>0, <1>3 DEF KeyTypes, Joined, KeyStep, Rests
<1>4. CASE Drops
  <2>1. CASE online
    <3>1. KeyTypes' /\ transcript' = noKey
      BY <1>0, <1>4, <2>1, DropsDoes
    <3> QED
      BY <3>1, Blank DEF KeyStep, Rests
  <2>2. CASE ~online
    BY <1>1, <1>4, <2>2 DEF Drops, KeySame
  <2> QED
    BY <2>1, <2>2
<1>5. CASE HandleConnected
  BY <1>0, <1>2, <1>5, ConnectedDoes
<1>6. CASE HandleBuffered
  BY <1>0, <1>6, BufferedDoes DEF Joined, KeyStep, Rests, HandleBuffered, Reading
<1>7. CASE HandleEvent
  <2>1. transcript' = transcript /\ session' = reduceSession(session, Head(stream)) /\ Next1
    BY <1>7 DEF HandleEvent
  <2>2. Head(stream) \in Events
    BY <1>0, <2>1, Shifted
  <2>3. session' \in Session
    BY <1>0, <2>1, <2>2, EventReduces DEF Reduces
  <2> QED
    BY <1>3, <2>1, <2>3
<1>8. CASE HandleDeleted
  BY <1>3, <1>8, Blank DEF HandleDeleted
<1>9. CASE Settle
  BY <1>0, <1>2, <1>9, SettleDoes
<1>10. CASE CommitActive
  BY <1>0, <1>3, <1>10, ActiveDoes DEF CommitActive
<1>11. CASE Read
  BY <1>0, <1>11, ReadDoes DEF Joined, KeyStep, Rests, Read, Reading
<1>12. CASE Commit
  BY <1>0, <1>2, <1>12, CommitDoes
<1>13. CASE ReadFails
  BY <1>0, <1>2, <1>13, ReadFailsDoes
<1>14. CASE Leave
  BY <1>0, <1>1, <1>2, <1>14, LeaveDoes DEF KeySame
<1>15. CASE Return
  BY <1>0, <1>2, <1>15, ReturnDoes
<1>16. CASE Cancelled
  <2>1. transcript' = transcript /\ session' = retract(session, cancel.id)
    BY <1>16 DEF Cancelled, sync
  <2> QED
    BY <1>0, <1>3, <2>1, RetractRow
<1>17. CASE CancelFails
  BY <1>0, <1>2, <1>17, CancelFailsDoes
<1>18. ASSUME NEW p \in Ids, Send(p)
       PROVE  KeyStep
  BY <1>0, <1>3, <1>18, SendDoes DEF Send, sync
<1>19. ASSUME NEW p \in Ids, Accepted(p)
       PROVE  KeyStep
  BY <1>0, <1>3, <1>19, AcceptedDoes DEF Accepted, sync
<1>20. ASSUME NEW p \in Ids, Rejected(p)
       PROVE  KeyStep
  BY <1>0, <1>2, <1>20, RejectedDoes
<1>21. CASE UNCHANGED syncVars
  BY <1>1, <1>21 DEF syncVars, sync, KeySame
<1> HIDE DEF KeyStep
<1> QED
  BY <1>1, <1>4, <1>5, <1>6, <1>7, <1>8, <1>9, <1>10, <1>11, <1>12, <1>13, <1>14, <1>15,
     <1>16, <1>17, <1>18, <1>19, <1>20, <1>21, NextCases, KeyUntouched

\* The steps of the client leave the server alone; the stream loses what is read of it.
LEMMA ServerUntouched ==
  ASSUME SyncInv, [SyncNext]_syncVars
  PROVE  \/ Starts \/ Delivers \/ Steps \/ Answered \/ Ends \/ Deletes \/ TakeBack
         \/ \E p \in Ids: Take(p)
         \/ /\ UNCHANGED server
            /\ \/ UNCHANGED wire
               \/ ~attached /\ attached' = TRUE /\ stream' = <<Event("connected", 0)>>
               \/ attached' = FALSE /\ stream' = <<>>
               \/ Next1
<1> DEFINE Same == /\ UNCHANGED server
                   /\ \/ UNCHANGED wire
                      \/ ~attached /\ attached' = TRUE /\ stream' = <<Event("connected", 0)>>
                      \/ attached' = FALSE /\ stream' = <<>>
                      \/ Next1
<1>1. Connects \/ Drops => Same
  BY DEF Connects, Drops
<1>2. HandleConnected \/ HandleBuffered \/ HandleEvent \/ HandleDeleted => Same
  BY DEF HandleConnected, HandleBuffered, HandleEvent, HandleDeleted
<1>3. Settle \/ ReadActive \/ CommitActive \/ Read \/ Commit \/ ReadFails => Same
  BY DEF Settle, ReadActive, CommitActive, Read, Commit, ReadFails
<1>4. Leave \/ Return \/ Cancelled \/ CancelFails => Same
  BY DEF Leave, Return, Cancelled, CancelFails
<1>5. ASSUME NEW p \in Ids, Send(p) \/ Post(p) \/ Accepted(p) \/ Rejected(p) \/ Cancel(p)
      PROVE  Same
  BY <1>5 DEF Send, Post, Accepted, Rejected, Cancel
<1>6. UNCHANGED syncVars => Same
  BY DEF syncVars
<1> HIDE DEF Same
<1>7. \/ Starts \/ Delivers \/ Steps \/ Answered \/ Ends \/ Deletes \/ TakeBack
      \/ (\E p \in Ids: Take(p)) \/ Same
  BY <1>1, <1>2, <1>3, <1>4, <1>5, <1>6, NextCases
<1> QED
  BY <1>7 DEF Same

LEMMA ServerStays ==
  ASSUME SyncInv, [SyncNext]_syncVars
  PROVE  ServerTypes'
<1>0. ServerTypes /\ stream \in Seq(Events) /\ (cancel.state # "none" => cancel.id \in Ids)
  BY DEF SyncInv, Types, ServerTypes, ClientTypes
<1>1. ASSUME UNCHANGED server, stream' \in Seq(Events), attached' \in BOOLEAN
      PROVE  ServerTypes'
  BY <1>0, <1>1 DEF server, ServerTypes
<1>2. TakeBack => cancel.id \in Ids
  BY <1>0 DEF TakeBack
<1>3. Next1 => stream' \in Seq(Events) /\ attached' \in BOOLEAN
  BY <1>0, Shifted DEF Next1, ServerTypes
<1>4. <<>> \in Seq(Events) /\ <<Event("connected", 0)>> \in Seq(Events)
  BY EventTypes
<1>5. UNCHANGED wire => stream' \in Seq(Events) /\ attached' \in BOOLEAN
  BY <1>0 DEF wire, ServerTypes
<1> QED
  BY <1>0, <1>1, <1>2, <1>3, <1>4, <1>5, ServerUntouched, ServerStepTypes

\* What the client keeps besides the session and its key, part by part.
ActiveStates ==
  [phase: {"none", "asked", "read"}, running: BOOLEAN, update: {"none", "running", "idle"}]

CancelTypes ==
  /\ cancel \in [id: Ids \cup {0}, state: {"none", "sent", "cancelled", "refused"}]
  /\ cancel.state # "none" => cancel.id \in Ids

UpsetKinds == [{"drops", "fails", "cancels", "leaves"} -> Nat]

LEMMA ClientParts ==
  ClientTypes <=> /\ online \in BOOLEAN /\ watched \in BOOLEAN
                  /\ activeKnown \in BOOLEAN /\ settling \in BOOLEAN
                  /\ active \in ActiveStates /\ post \in [Ids -> PostStates]
                  /\ CancelTypes /\ upsets \in UpsetKinds
  BY DEF ClientTypes, ActiveStates, CancelTypes, UpsetKinds

LEMMA OnlineStays ==
  ASSUME SyncInv, [SyncNext]_syncVars
  PROVE  online' \in BOOLEAN /\ (online' => attached') /\ (stream' # <<>> => attached')
<1> DEFINE Stays == /\ online' \in BOOLEAN /\ (online' => attached')
                    /\ stream' # <<>> => attached'
<1>0. /\ online \in BOOLEAN /\ (online => attached) /\ (stream # <<>> => attached)
      /\ stream \in Seq(Events)
  BY DEF SyncInv, Types, Joined, ServerTypes, ClientTypes
<1>1. ASSUME UNCHANGED <<online, attached>>, stream' = stream \/ attached
      PROVE  Stays
  BY <1>0, <1>1
<1>2. ASSUME UNCHANGED <<online, attached>>, NEW e, Push(e)
      PROVE  Stays
  BY <1>1, <1>2 DEF Push
<1>3. /\ Starts => Stays
      /\ Delivers => Stays
      /\ Steps => Stays
      /\ Answered => Stays
      /\ Ends => Stays
      /\ Deletes => Stays
  BY <1>2 DEF Starts, Delivers, Steps, Answered, Ends, Deletes, sync
<1>4. TakeBack => Stays
  BY <1>1, <1>2 DEF TakeBack, sync
<1>5. ASSUME NEW p \in Ids, Take(p)
      PROVE  Stays
  BY <1>2, <1>5 DEF Take, sync
<1>6. Connects \/ Drops => Stays
  BY <1>0 DEF Connects, Drops, sync
<1>7. HandleConnected => Stays
  BY <1>0 DEF HandleConnected, Next1
<1>8. HandleBuffered \/ HandleEvent \/ HandleDeleted => Stays
  BY <1>0, <1>1 DEF HandleBuffered, HandleEvent, HandleDeleted, Next1
<1>9. Settle \/ ReadActive \/ CommitActive \/ Read \/ Commit \/ ReadFails => Stays
  BY <1>1 DEF Settle, ReadActive, CommitActive, Read, Commit, ReadFails, wire
<1>10. Leave \/ Return \/ Cancelled \/ CancelFails => Stays
  BY <1>1 DEF Leave, Return, Cancelled, CancelFails, wire, sync
<1>11. ASSUME NEW p \in Ids, Send(p) \/ Post(p) \/ Accepted(p) \/ Rejected(p) \/ Cancel(p)
       PROVE  Stays
  BY <1>1, <1>11 DEF Send, Post, Accepted, Rejected, Cancel, wire, sync
<1>12. UNCHANGED syncVars => Stays
  BY <1>1 DEF syncVars, sync, wire
<1> HIDE DEF Stays
<1>13. Stays
  BY <1>3, <1>4, <1>5, <1>6, <1>7, <1>8, <1>9, <1>10, <1>11, <1>12, NextCases
<1> QED
  BY <1>13 DEF Stays

\* The list of running sessions.
LEMMA ActiveStays ==
  ASSUME SyncInv, [SyncNext]_syncVars
  PROVE  active' \in ActiveStates
<1>0. active \in ActiveStates /\ running \in BOOLEAN
  BY DEF SyncInv, Types, ServerTypes, ClientTypes, ActiveStates
<1>1. noActive \in ActiveStates /\ [noActive EXCEPT !.phase = "asked"] \in ActiveStates
  BY DEF noActive, ActiveStates
<1>2. \A e: Update(e) \in ActiveStates
  BY <1>0 DEF Update, ActiveStates
<1>3. Drops \/ HandleConnected \/ CommitActive => active' \in ActiveStates
  BY <1>0, <1>1 DEF Drops, HandleConnected, CommitActive
<1>4. HandleBuffered \/ HandleEvent \/ HandleDeleted => active' \in ActiveStates
  BY <1>2 DEF HandleBuffered, HandleEvent, HandleDeleted
<1>5. ReadActive => active' \in ActiveStates
  BY <1>0 DEF ReadActive, ActiveStates
<1>6. Starts \/ Delivers \/ Steps \/ Answered \/ Ends \/ Deletes \/ TakeBack
        => active' = active
  BY DEF Starts, Delivers, Steps, Answered, Ends, Deletes, TakeBack, sync
<1>7. Connects \/ Settle \/ Read \/ Commit \/ ReadFails => active' = active
  BY DEF Connects, Settle, Read, Commit, ReadFails, sync
<1>8. Leave \/ Return \/ Cancelled \/ CancelFails => active' = active
  BY DEF Leave, Return, Cancelled, CancelFails, sync
<1>9. ASSUME NEW p \in Ids,
             Take(p) \/ Send(p) \/ Post(p) \/ Accepted(p) \/ Rejected(p) \/ Cancel(p)
      PROVE  active' = active
  BY <1>9 DEF Take, Send, Post, Accepted, Rejected, Cancel, sync
<1>10. UNCHANGED syncVars => active' = active
  BY DEF syncVars, sync
<1> QED
  BY <1>0, <1>3, <1>4, <1>5, <1>6, <1>7, <1>8, <1>9, <1>10, NextCases

\* What is watched, and the timer.
LEMMA FlagsStay ==
  ASSUME SyncInv, [SyncNext]_syncVars
  PROVE  watched' \in BOOLEAN /\ activeKnown' \in BOOLEAN /\ settling' \in BOOLEAN
<1> DEFINE Stay == watched' \in BOOLEAN /\ activeKnown' \in BOOLEAN /\ settling' \in BOOLEAN
<1>0. watched \in BOOLEAN /\ activeKnown \in BOOLEAN /\ settling \in BOOLEAN
  BY DEF SyncInv, Types, ClientTypes
<1>1. Starts \/ Delivers \/ Steps \/ Answered \/ Ends \/ Deletes \/ TakeBack => Stay
  BY <1>0 DEF Starts, Delivers, Steps, Answered, Ends, Deletes, TakeBack, sync
<1>2. Connects \/ Drops => Stay
  BY <1>0 DEF Connects, Drops, sync
<1>3. HandleConnected \/ HandleBuffered \/ HandleEvent \/ HandleDeleted => Stay
  BY <1>0 DEF HandleConnected, HandleBuffered, HandleEvent, HandleDeleted
<1>4. Settle \/ ReadActive \/ CommitActive \/ Read \/ Commit \/ ReadFails => Stay
  BY <1>0 DEF Settle, ReadActive, CommitActive, Read, Commit, ReadFails
<1>5. Leave \/ Return \/ Cancelled \/ CancelFails => Stay
  BY <1>0 DEF Leave, Return, Cancelled, CancelFails, sync
<1>6. ASSUME NEW p \in Ids,
             Take(p) \/ Send(p) \/ Post(p) \/ Accepted(p) \/ Rejected(p) \/ Cancel(p)
      PROVE  Stay
  BY <1>0, <1>6 DEF Take, Send, Post, Accepted, Rejected, Cancel, sync
<1>7. UNCHANGED syncVars => Stay
  BY <1>0 DEF syncVars, sync
<1> HIDE DEF Stay
<1>8. Stay
  BY <1>1, <1>2, <1>3, <1>4, <1>5, <1>6, <1>7, NextCases
<1> QED
  BY <1>8 DEF Stay

\* What becomes of a prompt's request.
LEMMA PostStays ==
  ASSUME SyncInv, [SyncNext]_syncVars
  PROVE  /\ post' \in [Ids -> PostStates]
         /\ \/ post' = post
            \/ \E p \in Ids: /\ Take(p) \/ Send(p) \/ Post(p) \/ Accepted(p) \/ Rejected(p)
                             /\ \A q \in Ids \ {p}: post'[q] = post[q]
<1>0. post \in [Ids -> PostStates]
  BY DEF SyncInv, Types, ClientTypes
<1>1. Starts \/ Delivers \/ Steps \/ Answered \/ Ends \/ Deletes \/ TakeBack => post' = post
  BY DEF Starts, Delivers, Steps, Answered, Ends, Deletes, TakeBack, requests
<1>2. Connects \/ Drops => post' = post
  BY DEF Connects, Drops, requests
<1>3. HandleConnected \/ HandleBuffered \/ HandleEvent \/ HandleDeleted => post' = post
  BY DEF HandleConnected, HandleBuffered, HandleEvent, HandleDeleted, requests
<1>4. Settle \/ ReadActive \/ CommitActive \/ Read \/ Commit \/ ReadFails => post' = post
  BY DEF Settle, ReadActive, CommitActive, Read, Commit, ReadFails, requests
<1>5. Leave \/ Return \/ Cancelled \/ CancelFails => post' = post
  BY DEF Leave, Return, Cancelled, CancelFails, requests
<1>6. ASSUME NEW p \in Ids, Cancel(p)
      PROVE  post' = post
  BY <1>6 DEF Cancel
<1>7. ASSUME NEW p \in Ids, Take(p) \/ Send(p) \/ Post(p) \/ Accepted(p) \/ Rejected(p)
      PROVE  /\ post' \in [Ids -> PostStates]
             /\ \A q \in Ids \ {p}: post'[q] = post[q]
  BY <1>0, <1>7 DEF Take, Send, Post, Accepted, Rejected, PostStates
<1>8. UNCHANGED syncVars => post' = post
  BY DEF syncVars, requests
<1>9. post' = post \/ \E p \in Ids: Take(p) \/ Send(p) \/ Post(p) \/ Accepted(p) \/ Rejected(p)
  BY <1>1, <1>2, <1>3, <1>4, <1>5, <1>6, <1>8, NextCases
<1> QED
  BY <1>0, <1>7, <1>9

\* The prompt that is being taken back.
LEMMA CancelStays ==
  ASSUME SyncInv, [SyncNext]_syncVars
  PROVE  /\ CancelTypes'
         /\ \/ cancel' = cancel
            \/ cancel.state # "none" /\ cancel'.id = cancel.id
            \/ cancel'.state = "none"
            \/ \E p \in Ids: Cancel(p)
<1> DEFINE Next2 == \/ cancel' = cancel
                    \/ cancel.state # "none" /\ cancel'.id = cancel.id
                    \/ cancel'.state = "none"
                    \/ \E p \in Ids: Cancel(p)
<1>0. CancelTypes
  BY DEF SyncInv, Types, ClientTypes, CancelTypes
<1>1. cancel' = cancel => CancelTypes'
  BY <1>0 DEF CancelTypes
<1>2. Starts \/ Delivers \/ Steps \/ Answered \/ Ends \/ Deletes => cancel' = cancel
  BY DEF Starts, Delivers, Steps, Answered, Ends, Deletes, requests
<1>3. Connects \/ Drops => cancel' = cancel
  BY DEF Connects, Drops, requests
<1>4. HandleConnected \/ HandleBuffered \/ HandleEvent \/ HandleDeleted => cancel' = cancel
  BY DEF HandleConnected, HandleBuffered, HandleEvent, HandleDeleted, requests
<1>5. Settle \/ ReadActive \/ CommitActive \/ Read \/ Commit \/ ReadFails => cancel' = cancel
  BY DEF Settle, ReadActive, CommitActive, Read, Commit, ReadFails, requests
<1>6. Leave \/ Return => cancel' = cancel
  BY DEF Leave, Return, requests
<1>7. ASSUME NEW p \in Ids, Take(p) \/ Send(p) \/ Post(p) \/ Accepted(p) \/ Rejected(p)
      PROVE  cancel' = cancel
  BY <1>7 DEF Take, Send, Post, Accepted, Rejected
<1>8. UNCHANGED syncVars => cancel' = cancel
  BY DEF syncVars, requests
<1>9. TakeBack => CancelTypes' /\ cancel.state # "none" /\ cancel'.id = cancel.id
  BY <1>0 DEF TakeBack, CancelTypes
<1>10. Cancelled \/ CancelFails => CancelTypes' /\ cancel'.state = "none"
  BY DEF Cancelled, CancelFails, CancelTypes, noCancel
<1>11. ASSUME NEW p \in Ids, Cancel(p)
       PROVE  CancelTypes'
  BY <1>11 DEF Cancel, CancelTypes
<1> QED
  BY <1>1, <1>2, <1>3, <1>4, <1>5, <1>6, <1>7, <1>8, <1>9, <1>10, <1>11, NextCases

\* What came in between is counted, and nothing is forgotten.
LEMMA UpsetsStay ==
  ASSUME SyncInv, [SyncNext]_syncVars
  PROVE  /\ upsets' \in UpsetKinds
         /\ upsets'.fails = 0 => upsets.fails = 0
         /\ upsets'.cancels = 0 => upsets.cancels = 0
<1> DEFINE Stays == /\ upsets' \in UpsetKinds
                    /\ upsets'.fails = 0 => upsets.fails = 0
                    /\ upsets'.cancels = 0 => upsets.cancels = 0
<1>0. upsets \in UpsetKinds
  BY DEF SyncInv, Types, ClientTypes, UpsetKinds
<1>1. upsets' = upsets => Stays
  BY <1>0
<1>2. ASSUME NEW kind \in {"drops", "fails", "cancels", "leaves"}, Upset(kind)
      PROVE  Stays
  BY <1>0, <1>2 DEF Upset, UpsetKinds
<1> HIDE DEF Stays
<1>3. Starts \/ Delivers \/ Steps \/ Answered \/ Ends \/ Deletes \/ TakeBack => Stays
  BY <1>1 DEF Starts, Delivers, Steps, Answered, Ends, Deletes, TakeBack
<1>4. Connects \/ Drops => Stays
  BY <1>1, <1>2 DEF Connects, Drops
<1>5. HandleConnected \/ HandleBuffered \/ HandleEvent \/ HandleDeleted => Stays
  BY <1>1 DEF HandleConnected, HandleBuffered, HandleEvent, HandleDeleted
<1>6. Settle \/ ReadActive \/ CommitActive \/ Read \/ Commit => Stays
  BY <1>1 DEF Settle, ReadActive, CommitActive, Read, Commit
<1>7. ReadFails \/ CancelFails => Stays
  BY <1>1, <1>2 DEF ReadFails, CancelFails
<1>8. Leave \/ Return \/ Cancelled => Stays
  BY <1>1, <1>2 DEF Leave, Return, Cancelled
<1>9. ASSUME NEW p \in Ids, Take(p) \/ Send(p) \/ Post(p) \/ Accepted(p)
      PROVE  Stays
  BY <1>1, <1>9 DEF Take, Send, Post, Accepted
<1>10. ASSUME NEW p \in Ids, Rejected(p) \/ Cancel(p)
       PROVE  Stays
  BY <1>1, <1>2, <1>10 DEF Rejected, Cancel
<1>11. UNCHANGED syncVars => Stays
  BY <1>1 DEF syncVars
<1>12. Stays
  BY <1>3, <1>4, <1>5, <1>6, <1>7, <1>8, <1>9, <1>10, <1>11, NextCases
<1> QED
  BY <1>12 DEF Stays

LEMMA StepIInv ==
  ASSUME SyncInv, [SyncNext]_syncVars
  PROVE  SyncInv'
<1>1. ServerTypes'
  BY ServerStays
<1>2. ClientTypes'
  <2>1. /\ online' \in BOOLEAN /\ watched' \in BOOLEAN
        /\ activeKnown' \in BOOLEAN /\ settling' \in BOOLEAN
        /\ active' \in ActiveStates /\ post' \in [Ids -> PostStates]
        /\ CancelTypes' /\ upsets' \in UpsetKinds
    BY OnlineStays, ActiveStays, FlagsStay, PostStays, CancelStays, UpsetsStay
  <2> QED
    BY <2>1 DEF ClientTypes, ActiveStates, CancelTypes, UpsetKinds
<1>3. KeyTypes' /\ Joined'
  BY KeyStepTypes, OnlineStays DEF KeyStep, Joined
<1> QED
  BY <1>1, <1>2, <1>3 DEF SyncInv, Types

\* Every part of the state has its type.
THEOREM TypeInvariant == SyncSpec => []SyncInv
<1>1. SyncInit => SyncInv
  BY InitTypes
<1>2. SyncInv /\ [SyncNext]_syncVars => SyncInv'
  BY StepIInv
<1> QED
  BY <1>1, <1>2, PTL DEF SyncSpec

-----------------------------------------------------------------------------
\* What a step sends, and what it does to the server

Sent(e) ==
  \/ e.id \notin Ids /\ e.type \notin {"deleted", "cancelled", "enqueued"}
  \/ e.id \notin Ids /\ e.type = "deleted" /\ Deletes
  \/ \E p \in Ids: Take(p) /\ e = Event("enqueued", p)
  \/ Delivers /\ inbox # <<>> /\ e = Event("delivered", Head(inbox))
  \/ TakeBack /\ cancel.id \in ToSet(inbox) /\ e = Event("cancelled", cancel.id)

Carried == \A i \in DOMAIN stream': (\E j \in DOMAIN stream: stream'[i] = stream[j])
                                    \/ Sent(stream'[i])

LEMMA StreamStays ==
  ASSUME SyncInv, [SyncNext]_syncVars
  PROVE  Carried
<1>0. /\ stream \in Seq(Events) /\ inbox \in Seq(Ids) /\ (running => run > 0)
      /\ run \in 0..MaxRuns /\ MaxRuns \in Nat /\ open \subseteq Answers
      /\ (cancel.state # "none" => cancel.id \in Ids)
  BY ChatAssumption DEF SyncInv, Types, ServerTypes, ClientTypes
<1>1. ASSUME NEW e \in Events, Push(e), Sent(e)
      PROVE  Carried
  BY <1>0, <1>1, Pushed DEF Carried
<1>2. \A e: e.id \in Answers \cup {0} => e.id \notin Ids
  BY Sorts
<1>3. ASSUME Starts \/ Ends
      PROVE  Carried
  <2>1. \A t \in {"started", "ended"}: Event(t, 0) \in Events /\ Sent(Event(t, 0))
    BY EventTypes, Sorts DEF Sent, Event
  <2> QED
    BY <1>1, <1>3, <2>1 DEF Starts, Ends
<1>4. ASSUME Deletes
      PROVE  Carried
  <2>1. Event("deleted", 0) \in Events /\ Sent(Event("deleted", 0))
    BY <1>4, EventTypes, Sorts DEF Sent, Event
  <2> QED
    BY <1>1, <1>4, <2>1 DEF Deletes
<1>5. ASSUME Delivers
      PROVE  Carried
  <2>1. inbox # <<>> /\ Push(Event("delivered", Head(inbox)))
    BY <1>5 DEF Delivers
  <2>2. Head(inbox) \in Ids
    BY <1>0, <2>1, TailContents
  <2>3. Event("delivered", Head(inbox)) \in Events /\ Sent(Event("delivered", Head(inbox)))
    BY <1>5, <2>1, <2>2, EventTypes DEF Sent
  <2> QED
    BY <1>1, <2>1, <2>3
<1>6. ASSUME Steps \/ Answered
      PROVE  Carried
  <2>1. -run \in Answers
    BY <1>0, <1>6 DEF Steps, Answered, Answers
  <2>2. \A t \in {"step", "answered"}: Event(t, -run) \in Events /\ Sent(Event(t, -run))
    <3> TAKE t \in {"step", "answered"}
    <3>1. Event(t, -run) \in Events /\ Event(t, -run).id = -run /\ Event(t, -run).type = t
      BY <2>1, EventTypes DEF Event
    <3> QED
      BY <2>1, <3>1, Sorts DEF Sent
  <2> QED
    BY <1>1, <1>6, <2>2 DEF Steps, Answered
<1>7. ASSUME TakeBack
      PROVE  Carried
  <2>1. CASE exists /\ cancel.id \in ToSet(inbox)
    <3>1. Push(Event("cancelled", cancel.id)) /\ cancel.id \in Ids
      BY <1>0, <1>7, <2>1 DEF TakeBack
    <3>2. Event("cancelled", cancel.id) \in Events /\ Sent(Event("cancelled", cancel.id))
      BY <1>7, <2>1, <3>1, EventTypes DEF Sent
    <3> QED
      BY <1>1, <3>1, <3>2
  <2>2. CASE ~(exists /\ cancel.id \in ToSet(inbox))
    BY <1>7, <2>2 DEF TakeBack, Carried
  <2> QED
    BY <2>1, <2>2
<1>8. ASSUME NEW p \in Ids, Take(p)
      PROVE  Carried
  <2>1. Event("enqueued", p) \in Events /\ Sent(Event("enqueued", p))
    BY <1>8, EventTypes DEF Sent
  <2> QED
    BY <1>1, <1>8, <2>1 DEF Take
<1>9. UNCHANGED wire => Carried
  BY DEF wire, Carried
<1>10. ASSUME stream' = <<Event("connected", 0)>>
       PROVE  Carried
  BY <1>10, Sorts DEF Carried, Sent, Event
<1>11. stream' = <<>> => Carried
  BY DEF Carried
<1>12. Next1 => Carried
  BY <1>0, Shifted DEF Carried
<1> QED
  BY <1>3, <1>4, <1>5, <1>6, <1>7, <1>8, <1>9, <1>10, <1>11, <1>12, ServerUntouched

\* A session that is deleted stays so.
LEMMA ExistsOnce ==
  ASSUME SyncInv, [SyncNext]_syncVars
  PROVE  /\ exists' => exists
         /\ Deletes => ~exists'
<1>1. Starts \/ Delivers \/ Steps \/ Answered \/ Ends \/ TakeBack => exists' = exists
  BY DEF Starts, Delivers, Steps, Answered, Ends, TakeBack
<1>2. ASSUME NEW p \in Ids, Take(p)
      PROVE  exists' = exists
  BY <1>2 DEF Take
<1>3. Deletes => exists' = FALSE
  BY DEF Deletes
<1>4. UNCHANGED server => exists' = exists
  BY DEF server
<1>5. Deletes \/ exists' = exists
  BY <1>1, <1>2, <1>4, ServerUntouched
<1> QED
  BY <1>3, <1>5

-----------------------------------------------------------------------------
\* What is watched is read

\* Only a connection brings the client online, and only a look at it watches a session.
LEMMA WatchSteps ==
  ASSUME SyncInv, [SyncNext]_syncVars
  PROVE  /\ HandleConnected \/ (online' => online)
         /\ Return \/ (watched' => watched)
<1>1. Starts \/ Delivers \/ Steps \/ Answered \/ Ends \/ Deletes \/ TakeBack
        => UNCHANGED <<online, watched>>
  BY DEF Starts, Delivers, Steps, Answered, Ends, Deletes, TakeBack, sync
<1>2. Connects => UNCHANGED <<online, watched>>
  BY DEF Connects, sync
<1>3. Drops => (online' => online) /\ watched' = watched
  BY DEF Drops
<1>4. HandleConnected => watched' = watched
  BY DEF HandleConnected
<1>5. HandleBuffered \/ HandleEvent \/ HandleDeleted
        => online' = online /\ (watched' => watched)
  BY DEF HandleBuffered, HandleEvent, HandleDeleted
<1>6. Settle \/ ReadActive \/ CommitActive \/ Read \/ Commit \/ ReadFails
        => UNCHANGED <<online, watched>>
  BY DEF Settle, ReadActive, CommitActive, Read, Commit, ReadFails
<1>7. Leave => online' = online /\ (watched' => watched)
  BY DEF Leave
<1>8. Return => online' = online
  BY DEF Return
<1>9. Cancelled \/ CancelFails => UNCHANGED <<online, watched>>
  BY DEF Cancelled, CancelFails, sync
<1>10. ASSUME NEW p \in Ids,
             Take(p) \/ Send(p) \/ Post(p) \/ Accepted(p) \/ Rejected(p) \/ Cancel(p)
      PROVE  UNCHANGED <<online, watched>>
  BY <1>10 DEF Take, Send, Post, Accepted, Rejected, Cancel, sync
<1>11. UNCHANGED syncVars => UNCHANGED <<online, watched>>
  BY DEF syncVars, sync
<1> QED
  BY <1>1, <1>2, <1>3, <1>4, <1>5, <1>6, <1>7, <1>8, <1>9, <1>10, <1>11, NextCases

\* The part of FollowInv about the key.
Follow == (exists /\ transcript.state = "done" => session.loaded) /\ Followed

LEMMA FollowStep ==
  ASSUME SyncInv, [SyncNext]_syncVars, FollowInv
  PROVE  Follow'
<1>0. /\ KeyTypes /\ Joined /\ ServerTypes /\ ClientTypes /\ stream \in Seq(Events)
      /\ transcript \in Keys /\ session \in Session /\ Follow
      /\ \A i \in DOMAIN stream: stream[i].type = "deleted" => ~exists
  BY DEF SyncInv, Types, KeyTypes, ServerTypes, FollowInv, ReadIsHere, Follow
<1>1. /\ exists' => exists
      /\ upsets'.fails = 0 => upsets.fails = 0
      /\ HandleConnected \/ (online' => online)
      /\ Return \/ (watched' => watched)
  BY ExistsOnce, UpsetsStay, WatchSteps
<1>2. ASSUME \/ transcript'.state = transcript.state /\ session'.loaded = session.loaded
             \/ transcript'.state = "pending",
             ~HandleConnected, ~Return
      PROVE  Follow'
  BY <1>0, <1>1, <1>2 DEF Follow, Followed, Reading
<1>3. KeySame => transcript'.state = transcript.state /\ session'.loaded = session.loaded
  BY DEF KeySame
<1>4. ASSUME transcript'.state = "pending"
      PROVE  Follow'
  BY <1>4 DEF Follow, Followed, Reading
<1>5. ASSUME ~(exists' /\ online' /\ watched'), transcript'.state # "done"
      PROVE  Follow'
  BY <1>5 DEF Follow, Followed
<1>6. ASSUME NEW t, Carries(t), t.loaded
      PROVE  Follow'
  BY <1>6 DEF Carries, SameRows, Follow, Followed
<1>7. ASSUME ~exists
      PROVE  Follow'
  BY <1>1, <1>7 DEF Follow, Followed
<1>8. CASE HandleConnected
  <2>1. watched' = watched
    BY <1>8 DEF HandleConnected
  <2>2. (watched => transcript'.state = "pending") /\ transcript'.state # "done"
    BY <1>0, <1>8, ConnectedDoes
  <2> QED
    BY <1>4, <1>5, <2>1, <2>2
<1>9. CASE Return
  <2>1. /\ online' = online /\ Carries(session)
        /\ online => transcript'.state = "pending"
                     \/ (transcript.state = "done" /\ session' = session)
        /\ transcript'.state = "done" => transcript.state = "done"
    BY <1>0, <1>9, ReturnDoes DEF Return
  <2>2. session'.loaded = session.loaded
    BY <2>1 DEF Carries, SameRows
  <2> QED
    BY <1>0, <1>1, <2>1, <2>2 DEF Follow, Followed, Reading
<1> HIDE DEF Follow
<1>10. CASE Drops
  <2>1. CASE online
    <3>1. transcript'.state = "none" /\ ~online'
      BY <1>0, <1>10, <2>1, DropsDoes, Blank DEF Drops
    <3> QED
      BY <1>5, <3>1
  <2>2. CASE ~online
    <3>1. KeySame /\ ~online'
      BY <1>10, <2>2 DEF Drops, KeySame
    <3> QED
      BY <1>0, <1>1, <1>3, <3>1 DEF Follow, Followed
  <2> QED
    BY <2>1, <2>2
<1>11. CASE HandleBuffered
  <2>1. transcript'.state = "pending"
    BY <1>0, <1>11, BufferedDoes DEF HandleBuffered, Reading
  <2> QED
    BY <1>4, <2>1
<1>12. CASE HandleEvent
  <2>1. transcript' = transcript /\ session' = reduceSession(session, Head(stream)) /\ Next1
    BY <1>12 DEF HandleEvent
  <2>2. Head(stream) \in Events
    BY <1>0, <2>1, Shifted
  <2>3. session'.loaded = session.loaded
    BY <1>0, <2>1, <2>2, EventReduces DEF Reduces
  <2> QED
    BY <1>2, <1>8, <1>9, <2>1, <2>3
<1>13. CASE HandleDeleted
  <2>1. 1 \in DOMAIN stream /\ stream[1].type = "deleted"
    BY <1>0, <1>13, Shifted DEF HandleDeleted
  <2> QED
    BY <1>0, <1>7, <2>1
<1>14. CASE Settle
  BY <1>0, <1>4, <1>14, SettleDoes
<1>15. CASE CommitActive
  <2>1. transcript' = transcript /\ session'.loaded = session.loaded
    BY <1>0, <1>15, ActiveDoes DEF CommitActive
  <2> QED
    BY <1>2, <1>8, <1>9, <2>1
<1>16. CASE Read
  BY <1>0, <1>2, <1>8, <1>9, <1>16, ReadDoes
<1>17. CASE Commit
  BY <1>0, <1>6, <1>17, CommitDoes DEF Snapshots
<1>18. CASE ReadFails
  <2>1. transcript'.state # "done"
    BY <1>0, <1>18, ReadFailsDoes
  <2>2. ~exists \/ Upset("fails")
    BY <1>18 DEF ReadFails
  <2>3. Upset("fails") => upsets'.fails # 0
    BY <1>0, UpsetTypes DEF ClientTypes
  <2> QED
    BY <1>7, <2>1, <2>2, <2>3 DEF Follow, Followed
<1>19. CASE Leave
  <2>1. ~watched'
    BY <1>19 DEF Leave
  <2>2. KeySame \/ transcript'.state # "done"
    BY <1>0, <1>19, LeaveDoes DEF KeySame
  <2> QED
    BY <1>2, <1>3, <1>5, <1>8, <1>9, <2>1, <2>2
<1>20. CASE Cancelled
  <2>1. transcript' = transcript /\ session' = retract(session, cancel.id)
    BY <1>20 DEF Cancelled, sync
  <2>2. session'.loaded = session.loaded
    BY <1>0, <2>1, RetractRow
  <2> QED
    BY <1>2, <1>8, <1>9, <2>1, <2>2
<1>21. CASE CancelFails
  BY <1>0, <1>2, <1>8, <1>9, <1>21, CancelFailsDoes
<1>22. ASSUME NEW p \in Ids, Send(p)
       PROVE  Follow'
  BY <1>0, <1>2, <1>8, <1>9, <1>22, SendDoes DEF Send, sync
<1>23. ASSUME NEW p \in Ids, Accepted(p)
       PROVE  Follow'
  BY <1>0, <1>2, <1>8, <1>9, <1>23, AcceptedDoes DEF Accepted, sync
<1>24. ASSUME NEW p \in Ids, Rejected(p)
       PROVE  Follow'
  <2>1. Carries(retract(session, p))
        /\ (transcript'.state = "pending" \/ transcript'.state = transcript.state)
    BY <1>0, <1>24, RejectedDoes
  <2>2. session'.loaded = session.loaded
    BY <1>0, <2>1, RetractRow DEF Carries, SameRows
  <2> QED
    BY <1>2, <1>8, <1>9, <2>1, <2>2
<1>25. CASE UNCHANGED syncVars
  <2>1. KeySame
    BY <1>25 DEF syncVars, sync, KeySame
  <2> QED
    BY <1>2, <1>3, <1>8, <1>9, <2>1
<1>26. KeySame => Follow'
  BY <1>2, <1>3, <1>8, <1>9
<1> QED
  BY <1>8, <1>9, <1>10, <1>11, <1>12, <1>13, <1>14, <1>15, <1>16, <1>17, <1>18, <1>19,
     <1>20, <1>21, <1>22, <1>23, <1>24, <1>25, <1>26, NextCases, KeyUntouched

LEMMA FollowInvariant == SyncSpec => []FollowInv
<1>1. SyncInit => FollowInv
  BY Blank DEF SyncInit, FollowInv, ReadIsHere, Followed
<1>2. SyncInv /\ [SyncNext]_syncVars /\ FollowInv => FollowInv'
  <2> SUFFICES ASSUME SyncInv, [SyncNext]_syncVars, FollowInv
               PROVE  FollowInv'
    OBVIOUS
  <2>1. Follow'
    BY FollowStep
  <2>2. ASSUME NEW i \in DOMAIN stream', stream'[i].type = "deleted"
        PROVE  ~exists'
    <3>1. (\E j \in DOMAIN stream: stream'[i] = stream[j]) \/ Sent(stream'[i])
      BY <2>2, StreamStays DEF Carried
    <3>2. ASSUME Sent(stream'[i])
          PROVE  Deletes
      BY <2>2, <3>2 DEF Sent, Event
    <3> QED
      BY <2>2, <3>1, <3>2, ExistsOnce DEF FollowInv, ReadIsHere
  <2> QED
    BY <2>1, <2>2 DEF FollowInv, ReadIsHere, Follow
<1> QED
  BY <1>1, <1>2, TypeInvariant, PTL DEF SyncSpec

\* What is watched is read or being read, however connections, reads, leaving and
\* coming back mix; only a read that failed leaves it unread (sync.ts).
THEOREM WatchedIsRead == SyncSpec => []Followed
<1>1. FollowInv => Followed
  BY DEF FollowInv
<1> QED
  BY <1>1, FollowInvariant, PTL

-----------------------------------------------------------------------------
\* What a step does to what was read, to what the server has, and to requests

LEMMA ReadSteps ==
  ASSUME SyncInv, [SyncNext]_syncVars
  PROVE  \/ ReadGoes
         \/ /\ HandleBuffered
            /\ transcript'.read = [transcript.read EXCEPT !.buffer = Append(@, Head(stream))]
         \/ Read /\ transcript'.read = ReadNext(transcript.read)
<1>0. KeyTypes /\ Joined /\ ServerTypes /\ ClientTypes /\ stream \in Seq(Events)
  BY DEF SyncInv, Types, ServerTypes
<1>1. transcript' = transcript => ReadGoes
  BY DEF ReadGoes
<1>2. ReadOver => ReadGoes
  BY DEF ReadOver, ReadGoes
<1>3. KeySame => ReadGoes
  BY <1>1 DEF KeySame
<1>4. Drops => ReadGoes
  <2>1. Drops /\ online => transcript' = noKey
    BY <1>0, DropsDoes
  <2>2. Drops /\ ~online => transcript' = transcript
    BY DEF Drops
  <2> QED
    BY <1>1, <2>1, <2>2, Blank DEF ReadGoes
<1>5. HandleEvent \/ HandleDeleted \/ CommitActive => ReadGoes
  BY <1>1 DEF HandleEvent, HandleDeleted, CommitActive
<1>6. HandleConnected \/ Settle \/ Commit \/ ReadFails => ReadGoes
  BY <1>0, <1>2, ConnectedDoes, SettleDoes, CommitDoes, ReadFailsDoes
<1>7. Leave \/ Return \/ CancelFails => ReadGoes
  BY <1>0, <1>1, LeaveDoes, ReturnDoes, CancelFailsDoes
<1>8. Cancelled => ReadGoes
  BY <1>1 DEF Cancelled, sync
<1>9. ASSUME NEW p \in Ids, Send(p) \/ Accepted(p)
      PROVE  ReadGoes
  BY <1>1, <1>9 DEF Send, Accepted, sync
<1>10. ASSUME NEW p \in Ids, Rejected(p)
       PROVE  ReadGoes
  BY <1>0, <1>10, RejectedDoes
<1>11. UNCHANGED syncVars => ReadGoes
  BY <1>1 DEF syncVars, sync
<1>12. HandleBuffered =>
         transcript'.read = [transcript.read EXCEPT !.buffer = Append(@, Head(stream))]
  BY <1>0, BufferedDoes
<1>13. Read => transcript'.read = ReadNext(transcript.read)
  BY <1>0, ReadDoes
<1> HIDE DEF ReadGoes
<1> QED
  BY <1>3, <1>4, <1>5, <1>6, <1>7, <1>8, <1>9, <1>10, <1>11, <1>12, <1>13,
     NextCases, KeyUntouched

\* What was read, after a step.
LEMMA ReadAfter ==
  ASSUME SyncInv, [SyncNext]_syncVars
  PROVE  /\ \/ transcript'.read.inbox = transcript.read.inbox
            \/ transcript'.read.inbox = <<>>
            \/ transcript'.read.inbox = inbox
         /\ \/ transcript'.read.page = transcript.read.page
            \/ transcript'.read.page = <<>>
            \/ transcript'.read.page = page
         /\ \A i \in DOMAIN transcript'.read.buffer:
              \/ \E j \in DOMAIN transcript.read.buffer:
                   transcript'.read.buffer[i] = transcript.read.buffer[j]
              \/ \E j \in DOMAIN stream: transcript'.read.buffer[i] = stream[j]
<1> DEFINE r == transcript.read
           s == transcript'.read
           After == /\ s.inbox = r.inbox \/ s.inbox = <<>> \/ s.inbox = inbox
                    /\ s.page = r.page \/ s.page = <<>> \/ s.page = page
                    /\ \A i \in DOMAIN s.buffer:
                         \/ \E j \in DOMAIN r.buffer: s.buffer[i] = r.buffer[j]
                         \/ \E j \in DOMAIN stream: s.buffer[i] = stream[j]
<1>0. r \in Transcripts /\ stream \in Seq(Events) /\ r.buffer \in Seq(Events)
  BY DEF SyncInv, Types, KeyTypes, ServerTypes, Keys, Transcripts
<1>1. CASE ReadGoes
  BY <1>1, Blank DEF ReadGoes
<1>2. ASSUME HandleBuffered, s = [r EXCEPT !.buffer = Append(@, Head(stream))]
      PROVE  After
  <2>1. s.inbox = r.inbox /\ s.page = r.page /\ s.buffer = Append(r.buffer, Head(stream))
    BY <1>0, <1>2 DEF Transcripts
  <2>2. 1 \in DOMAIN stream /\ Head(stream) = stream[1]
    BY <1>0, <1>2, Shifted DEF HandleBuffered
  <2> HIDE DEF r, s
  <2> QED
    BY <1>0, <2>1, <2>2
<1>3. CASE Read /\ s = ReadNext(r)
  BY <1>0, <1>3 DEF ReadNext, Transcripts
<1>4. After
  BY <1>1, <1>2, <1>3, ReadSteps
<1> QED
  BY <1>4

\* Requests.
LEMMA PostSteps ==
  ASSUME SyncInv, [SyncNext]_syncVars, NEW p \in Ids
  PROVE  /\ Untaken(p)' => Untaken(p) /\ ~Take(p) /\ ~Accepted(p)
         /\ post'[p] \in {"chained", "sent"} =>
              /\ Send(p) \/ post[p] \in {"chained", "sent"}
              /\ ~Take(p) /\ ~Accepted(p) /\ ~Rejected(p)
         /\ post'[p] = "taken" =>
              /\ post[p] = "taken" \/ (Take(p) /\ post[p] = "sent")
              /\ ~Accepted(p) /\ ~Rejected(p)
<1>0. post \in [Ids -> PostStates]
  BY DEF SyncInv, Types, ClientTypes
<1>1. Take(p) => /\ post[p] \in {"sent", "orphan"}
                 /\ post'[p] = IF post[p] = "sent" THEN "taken" ELSE "rejected"
  BY <1>0 DEF Take
<1>2. Send(p) => post[p] = "none" /\ post'[p] = "chained"
  BY <1>0 DEF Send
<1>3. Post(p) => post[p] = "chained" /\ post'[p] = "sent"
  BY <1>0 DEF Post
<1>4. Accepted(p) => post[p] = "taken" /\ post'[p] = "accepted"
  BY <1>0 DEF Accepted
<1>5. Rejected(p) => /\ post[p] \in {"sent", "taken"}
                     /\ post'[p] = IF post[p] = "sent" THEN "orphan" ELSE "rejected"
  BY <1>0 DEF Rejected
<1>6. \/ post'[p] = post[p]
      \/ Take(p) \/ Send(p) \/ Post(p) \/ Accepted(p) \/ Rejected(p)
  BY PostStays
<1> QED
  BY <1>1, <1>2, <1>3, <1>4, <1>5, <1>6 DEF Untaken

\* What the server has.
LEMMA ServerContents ==
  ASSUME SyncInv, [SyncNext]_syncVars
  PROVE  /\ \A p \in ToSet(inbox'): p \in ToSet(inbox) \/ Take(p)
         /\ \A m \in ToSet(page'): m \in ToSet(page) \cup ToSet(inbox) \cup Answers
         /\ TakeBack \/ ToSet(inbox) \cup ToSet(page) \subseteq ToSet(inbox') \cup ToSet(page')
         /\ ToSet(page) \subseteq ToSet(page')
         /\ \A p \in Ids: Take(p) => p \in ToSet(inbox')
<1> DEFINE Good == /\ \A p \in ToSet(inbox'): p \in ToSet(inbox) \/ Take(p)
                   /\ \A m \in ToSet(page'): m \in ToSet(page) \cup ToSet(inbox) \cup Answers
                   /\ \/ TakeBack
                      \/ ToSet(inbox) \cup ToSet(page) \subseteq ToSet(inbox') \cup ToSet(page')
                   /\ ToSet(page) \subseteq ToSet(page')
<1>0. /\ inbox \in Seq(Ids) /\ page \in Seq(Message) /\ (running => run > 0)
      /\ run \in 0..MaxRuns /\ MaxRuns \in Nat
  BY ChatAssumption DEF SyncInv, Types, ServerTypes
<1>1. inbox' = inbox /\ page' = page => Good
  OBVIOUS
<1>2. Starts \/ Answered \/ Ends \/ Deletes => Good
  BY <1>1 DEF Starts, Answered, Ends, Deletes
<1>3. UNCHANGED server => Good
  BY <1>1 DEF server
<1>4. ASSUME Delivers
      PROVE  Good
  <2>1. inbox # <<>> /\ inbox' = Tail(inbox) /\ page' = Append(page, Head(inbox))
    BY <1>4 DEF Delivers
  <2>2. ToSet(inbox) = {Head(inbox)} \cup ToSet(inbox') /\ Head(inbox) \in Ids
    BY <1>0, <2>1, TailContents
  <2>3. ToSet(page') = ToSet(page) \cup {Head(inbox)}
    <3>1. Head(inbox) \in Message
      BY <2>2, Sorts
    <3> QED
      BY <1>0, <2>1, <3>1, AppendContents
  <2> QED
    BY <2>2, <2>3
<1>5. ASSUME Steps
      PROVE  Good
  <2>1. -run \in Answers /\ inbox' = inbox /\ page' = Append(page, -run)
    BY <1>0, <1>5 DEF Steps, Answers
  <2>2. ToSet(page') = ToSet(page) \cup {-run}
    <3>1. -run \in Message
      BY <2>1, Sorts
    <3> QED
      BY <1>0, <2>1, <3>1, AppendContents
  <2> QED
    BY <2>1, <2>2
<1>6. ASSUME TakeBack
      PROVE  Good
  <2>1. page' = page /\ (inbox' = inbox \/ inbox' = Without(inbox, {cancel.id}))
    BY <1>6 DEF TakeBack
  <2>2. ToSet(inbox') \subseteq ToSet(inbox)
    BY <1>0, <2>1, WithoutContents
  <2> QED
    BY <1>6, <2>1, <2>2
<1>7. ASSUME NEW p \in Ids, Take(p)
      PROVE  Good /\ p \in ToSet(inbox')
  <2>1. inbox' = Append(inbox, p) /\ page' = page
    BY <1>7 DEF Take
  <2>2. ToSet(inbox') = ToSet(inbox) \cup {p}
    BY <1>0, <2>1, AppendContents
  <2> QED
    BY <1>7, <2>1, <2>2
<1>8. Good
  <2> HIDE DEF Good
  <2> QED
    BY <1>2, <1>3, <1>4, <1>5, <1>6, <1>7, ServerUntouched
<1> QED
  BY <1>7, <1>8

LEMMA ApartStep ==
  ASSUME SyncInv, [SyncNext]_syncVars, Apart, Unseen
  PROVE  Apart'
<1>0. /\ inbox \in Seq(Ids) /\ page \in Seq(Message) /\ (running => run > 0)
      /\ run \in 0..MaxRuns /\ MaxRuns \in Nat
      /\ IsInjective(inbox) /\ IsInjective(page) /\ ToSet(inbox) \cap ToSet(page) = {}
  BY ChatAssumption DEF SyncInv, Types, ServerTypes, Apart
<1>1. IsInjective(transcript'.read.page)
  <2>1. IsInjective(<<>>)
    BY DEF IsInjective
  <2> QED
    BY <2>1, ReadAfter DEF Apart
<1> DEFINE Good == /\ IsInjective(inbox') /\ IsInjective(page')
                   /\ ToSet(inbox') \cap ToSet(page') = {}
<1>2. inbox' = inbox /\ page' = page => Good
  BY <1>0
<1>3. Starts \/ Answered \/ Ends \/ Deletes => Good
  BY <1>2 DEF Starts, Answered, Ends, Deletes
<1>4. UNCHANGED server => Good
  BY <1>2 DEF server
<1>5. ASSUME Delivers
      PROVE  Good
  <2>1. inbox # <<>> /\ inbox' = Tail(inbox) /\ page' = Append(page, Head(inbox))
    BY <1>5 DEF Delivers
  <2>2. /\ ToSet(inbox) = {Head(inbox)} \cup ToSet(inbox') /\ Head(inbox) \in Ids
        /\ IsInjective(inbox') /\ Head(inbox) \notin ToSet(inbox')
    BY <1>0, <2>1, TailContents
  <2>3. ToSet(page') = ToSet(page) \cup {Head(inbox)} /\ IsInjective(page')
    <3>1. Head(inbox) \in Message /\ Head(inbox) \notin ToSet(page)
      BY <1>0, <2>2, Sorts
    <3> QED
      BY <1>0, <2>1, <3>1, AppendContents
  <2> QED
    BY <1>0, <2>2, <2>3
<1>6. ASSUME Steps
      PROVE  Good
  <2>1. -run \in Answers /\ inbox' = inbox /\ page' = Append(page, -run)
        /\ -run \notin ToSet(page)
    BY <1>0, <1>6 DEF Steps, Answers
  <2>2. ToSet(page') = ToSet(page) \cup {-run} /\ IsInjective(page')
    <3>1. -run \in Message
      BY <2>1, Sorts
    <3> QED
      BY <1>0, <2>1, <3>1, AppendContents
  <2>3. -run \notin ToSet(inbox)
    <3>1. ToSet(inbox) \subseteq Ids
      BY <1>0 DEF ToSet
    <3> QED
      BY <2>1, <3>1, Sorts
  <2> QED
    BY <1>0, <2>1, <2>2, <2>3
<1>7. ASSUME TakeBack
      PROVE  Good
  <2>1. page' = page /\ (inbox' = inbox \/ inbox' = Without(inbox, {cancel.id}))
    BY <1>7 DEF TakeBack
  <2>2. ToSet(inbox') \subseteq ToSet(inbox) /\ IsInjective(inbox')
    BY <1>0, <2>1, WithoutContents
  <2> QED
    BY <1>0, <2>1, <2>2
<1>8. ASSUME NEW p \in Ids, Take(p)
      PROVE  Good
  <2>1. inbox' = Append(inbox, p) /\ page' = page
    BY <1>8 DEF Take
  <2>2. p \notin ToSet(inbox) \cup ToSet(page)
    BY <1>8 DEF Take, Untaken, Unseen
  <2>3. ToSet(inbox') = ToSet(inbox) \cup {p} /\ IsInjective(inbox')
    BY <1>0, <2>1, <2>2, AppendContents
  <2> QED
    BY <1>0, <2>1, <2>2, <2>3
<1>9. Good
  <2> HIDE DEF Good
  <2> QED
    BY <1>3, <1>4, <1>5, <1>6, <1>7, <1>8, ServerUntouched
<1> QED
  BY <1>1, <1>9 DEF Apart

LEMMA UnseenStep ==
  ASSUME SyncInv, [SyncNext]_syncVars, Unseen
  PROVE  Unseen'
<1>1. SUFFICES ASSUME NEW p \in Ids, Untaken(p)'
               PROVE  /\ p \notin ToSet(inbox') \cup ToSet(page')
                      /\ p \notin ToSet(transcript'.read.inbox) \cup ToSet(transcript'.read.page)
                      /\ ~About(stream', p) /\ ~About(transcript'.read.buffer, p)
  BY DEF Unseen
<1>2. /\ Untaken(p) /\ ~Take(p)
  BY <1>1, PostSteps
<1>3. /\ p \notin ToSet(inbox) \cup ToSet(page)
      /\ p \notin ToSet(transcript.read.inbox) \cup ToSet(transcript.read.page)
      /\ ~About(stream, p) /\ ~About(transcript.read.buffer, p)
  BY <1>2 DEF Unseen
<1>4. p \notin ToSet(inbox') \cup ToSet(page')
  BY <1>2, <1>3, ServerContents, Sorts
<1>5. p \notin ToSet(transcript'.read.inbox) \cup ToSet(transcript'.read.page)
  <2>1. ToSet(<<>>) = {}
    BY DEF ToSet
  <2> QED
    BY <1>3, <2>1, ReadAfter
<1>6. ~About(stream', p)
  <2> SUFFICES ASSUME NEW i \in DOMAIN stream', stream'[i].id = p
               PROVE  FALSE
    BY DEF About
  <2>1. Sent(stream'[i])
    BY <1>3, StreamStays DEF Carried, About
  <2>2. inbox # <<>> => Head(inbox) \in ToSet(inbox)
    BY TailContents DEF SyncInv, Types, ServerTypes
  <2>3. \A t, q: Event(t, q).id = q
    BY DEF Event
  <2> QED
    BY <1>2, <1>3, <2>1, <2>2, <2>3 DEF Sent
<1>7. ~About(transcript'.read.buffer, p)
  BY <1>3, ReadAfter DEF About
<1> QED
  BY <1>4, <1>5, <1>6, <1>7

LEMMA NoCancelsStep ==
  ASSUME SyncInv, [SyncNext]_syncVars, NoCancels
  PROVE  NoCancels'
<1>1. SUFFICES ASSUME upsets'.cancels = 0
               PROVE  /\ cancel'.state = "none"
                      /\ \A i \in DOMAIN stream': stream'[i].type # "cancelled"
                      /\ \A i \in DOMAIN transcript'.read.buffer:
                           transcript'.read.buffer[i].type # "cancelled"
  BY DEF NoCancels
<1>2. /\ cancel.state = "none"
      /\ \A i \in DOMAIN stream: stream[i].type # "cancelled"
      /\ \A i \in DOMAIN transcript.read.buffer: transcript.read.buffer[i].type # "cancelled"
  BY <1>1, UpsetsStay DEF NoCancels
<1>3. ~TakeBack
  BY <1>2 DEF TakeBack
<1>4. cancel'.state = "none"
  <2>1. ASSUME NEW p \in Ids, Cancel(p)
        PROVE  FALSE
    <3>1. Upset("cancels") /\ upsets \in UpsetKinds
      BY <2>1 DEF Cancel, SyncInv, Types, ClientTypes, UpsetKinds
    <3> QED
      BY <1>1, <3>1, UpsetTypes DEF UpsetKinds
  <2> QED
    BY <1>2, <2>1, CancelStays
<1>5. \A i \in DOMAIN stream': stream'[i].type # "cancelled"
  <2>1. \A e: Sent(e) => e.type # "cancelled"
    BY <1>3 DEF Sent, Event
  <2> QED
    BY <1>2, <2>1, StreamStays DEF Carried
<1>6. \A i \in DOMAIN transcript'.read.buffer: transcript'.read.buffer[i].type # "cancelled"
  BY <1>2, ReadAfter
<1> QED
  BY <1>4, <1>5, <1>6

-----------------------------------------------------------------------------
\* What a step does to the rows

RowsSame(s, t) == t.order = s.order /\ t.pending = s.pending /\ t.outbox = s.outbox

Steady == RowsSame(session, session') /\ (session'.loaded => session.loaded)

\* The events that waited are applied to what is there.
Behind ==
  /\ ReadOver
  /\ \E s, t \in Session:
       /\ RowsSame(session, s) /\ (s.loaded => session.loaded)
       /\ Applies(s, t, transcript.read.buffer)
       /\ RowsSame(t, session') /\ session'.loaded = t.loaded

Single == HandleEvent /\ Reduces(session, session', Head(stream)) /\ transcript' = transcript

\* The snapshot, with the events that waited.
Fresh ==
  /\ ReadOver /\ transcript.read.phase = "page"
  /\ \E s, t \in Session:
       /\ RowsSame(session, s)
       /\ Snapshots(s, t, transcript.read, transcript.read.buffer)
       /\ RowsSame(t, session')

Cleared ==
  /\ ~exists \/ session.outbox = {}
  /\ session'.order = <<>> /\ session'.pending = {} /\ session'.outbox = {}
  /\ ~session'.loaded

Withdraws(q) ==
  /\ session'.pending = session.pending \ {q} /\ session'.outbox = session.outbox \ {q}
  /\ ToSet(session'.order) = ToSet(session.order) \ {q}
  /\ session'.loaded = session.loaded
  /\ RowsOf(session) => RowsOf(session')

Adds(q) ==
  /\ session'.pending = session.pending \cup {q}
  /\ session'.outbox = session.outbox \cup {q}
  /\ ToSet(session'.order) = ToSet(session.order) \cup {q}
  /\ session'.loaded = session.loaded
  /\ RowsOf(session) => RowsOf(session')

Settles(q) ==
  /\ session'.pending = session.pending /\ session'.outbox = session.outbox \ {q}
  /\ ToSet(session.order) \subseteq ToSet(session'.order)
  /\ session'.loaded = session.loaded
  /\ RowsOf(session) => RowsOf(session')

LEMMA SessionSteps ==
  ASSUME SyncInv, FollowInv, [SyncNext]_syncVars
  PROVE  \/ Steady \/ Behind \/ Single \/ Fresh \/ Cleared
         \/ \E q \in Ids: \/ Send(q) /\ Adds(q)
                          \/ Accepted(q) /\ Settles(q)
                          \/ Rejected(q) /\ Withdraws(q)
         \/ Cancelled /\ cancel.id \in Ids /\ Withdraws(cancel.id)
<1>0. /\ KeyTypes /\ Joined /\ ServerTypes /\ ClientTypes /\ stream \in Seq(Events)
      /\ session \in Session /\ (cancel.state # "none" => cancel.id \in Ids)
  BY DEF SyncInv, Types, ServerTypes, KeyTypes, ClientTypes
<1>1. session' = session => Steady
  BY DEF Steady, RowsSame
<1>2. KeySame => Steady
  BY <1>1 DEF KeySame
<1>3. Carries(session) => Steady
  BY DEF Carries, SameRows, Steady, RowsSame
<1>4. ASSUME Drops
      PROVE  Steady \/ Behind
  <2>1. CASE online
    <3>1. /\ KeyTypes' /\ transcript' = noKey
          /\ Applies(Forgotten(session), session', transcript.read.buffer)
      BY <1>0, <1>4, <2>1, DropsDoes
    <3>2. Forgotten(session) \in Session /\ RowsSame(session, Forgotten(session))
          /\ ~Forgotten(session).loaded
      BY <1>0, ForgottenTypes DEF RowsSame
    <3>3. session' \in Session /\ RowsSame(session', session')
      BY <3>1 DEF KeyTypes, RowsSame
    <3>4. ReadOver
      BY <3>1, Blank DEF ReadOver
    <3> QED
      BY <3>1, <3>2, <3>3, <3>4 DEF Behind
  <2>2. CASE ~online
    BY <1>1, <1>4, <2>2 DEF Drops
  <2> QED
    BY <2>1, <2>2
<1>5. ASSUME ReadFails
      PROVE  Behind
  <2> DEFINE s == [session EXCEPT !.loading = FALSE]
  <2>1. PICK t \in Session: Applies(s, t, transcript.read.buffer) /\ Carries(t) /\ ReadOver
    BY <1>0, <1>5, ReadFailsDoes
  <2>2. s \in Session /\ RowsSame(session, s) /\ s.loaded = session.loaded
    BY <1>0 DEF Session, RowsSame
  <2>3. RowsSame(t, session') /\ session'.loaded = t.loaded
    BY <2>1 DEF Carries, SameRows, RowsSame
  <2> HIDE DEF s
  <2> QED
    BY <2>1, <2>2, <2>3 DEF Behind
<1>6. ASSUME HandleEvent
      PROVE  Single
  <2>1. transcript' = transcript /\ session' = reduceSession(session, Head(stream)) /\ Next1
    BY <1>6 DEF HandleEvent
  <2>2. Head(stream) \in Events
    BY <1>0, <2>1, Shifted
  <2> QED
    BY <1>0, <1>6, <2>1, <2>2, EventReduces DEF Single
<1>7. ASSUME Commit
      PROVE  Fresh
  <2>1. PICK s, t \in Session:
          /\ SameRows(s, [session EXCEPT !.status = s.status])
          /\ Snapshots(s, t, transcript.read, transcript.read.buffer)
          /\ Carries(t) /\ ReadOver
    BY <1>0, <1>7, CommitDoes
  <2>2. RowsSame(session, s)
    BY <1>0, <2>1 DEF SameRows, RowsSame, Session
  <2>3. RowsSame(t, session')
    BY <2>1 DEF Carries, SameRows, RowsSame
  <2> QED
    BY <1>7, <2>1, <2>2, <2>3 DEF Fresh, Commit
<1>8. ASSUME HandleDeleted
      PROVE  Cleared
  <2>1. session' = emptySession
    BY <1>8 DEF HandleDeleted
  <2>2. 1 \in DOMAIN stream /\ stream[1].type = "deleted"
    BY <1>0, <1>8, Shifted DEF HandleDeleted
  <2>3. ~exists
    BY <2>2 DEF FollowInv, ReadIsHere
  <2> QED
    BY <2>1, <2>3 DEF Cleared, emptySession
<1>9. ASSUME Leave
      PROVE  Steady \/ Cleared
  <2>1. CASE UNCHANGED <<transcript, session>>
    BY <1>1, <2>1
  <2>2. CASE ~Kept(session) /\ Carries(Bare(session))
    <3>1. session.outbox = {}
      BY <2>2 DEF Kept
    <3>2. Bare(session).order = <<>> /\ Bare(session).pending = {}
          /\ Bare(session).outbox = {} /\ ~Bare(session).loaded
      BY DEF Bare, emptySession
    <3> QED
      BY <2>2, <3>1, <3>2 DEF Carries, SameRows, Cleared
  <2> QED
    BY <1>0, <1>9, <2>1, <2>2, LeaveDoes
<1>10. ASSUME Cancelled
       PROVE  cancel.id \in Ids /\ Withdraws(cancel.id)
  <2>1. session' = retract(session, cancel.id) /\ cancel.id \in Ids
    BY <1>0, <1>10 DEF Cancelled
  <2> QED
    BY <1>0, <2>1, RetractRow DEF Withdraws
<1>11. ASSUME NEW q \in Ids, Send(q)
       PROVE  Adds(q)
  BY <1>0, <1>11, SendDoes DEF Adds
<1>12. ASSUME NEW q \in Ids, Accepted(q)
       PROVE  Settles(q)
  BY <1>0, <1>12, AcceptedDoes DEF Settles
<1>13. ASSUME NEW q \in Ids, Rejected(q)
       PROVE  Withdraws(q)
  <2>1. Carries(retract(session, q))
    BY <1>0, <1>13, RejectedDoes
  <2>2. RowsSame(retract(session, q), session') /\ session'.loaded = retract(session, q).loaded
    BY <2>1 DEF Carries, SameRows, RowsSame
  <2>3. /\ retract(session, q).pending = session.pending \ {q}
        /\ retract(session, q).outbox = session.outbox \ {q}
        /\ ToSet(retract(session, q).order) = ToSet(session.order) \ {q}
        /\ retract(session, q).loaded = session.loaded
        /\ RowsOf(session) => RowsOf(retract(session, q))
    BY <1>0, RetractRow
  <2> QED
    BY <2>2, <2>3 DEF RowsSame, Withdraws, RowsOf
<1>14. HandleBuffered \/ Read => Steady
  BY <1>0, <1>1, BufferedDoes, ReadDoes
<1>15. CommitActive => Steady
  BY <1>0, ActiveDoes DEF Steady, RowsSame
<1>16. HandleConnected => Steady
  <2>1. HandleConnected => Carries(Forgotten(session))
    BY <1>0, ConnectedDoes
  <2> QED
    BY <1>0, <2>1, ForgottenTypes DEF Carries, SameRows, Steady, RowsSame
<1>17. Settle \/ Return \/ CancelFails => Steady
  BY <1>0, <1>3, SettleDoes, ReturnDoes, CancelFailsDoes
<1>18. UNCHANGED syncVars => Steady
  BY <1>1 DEF syncVars
<1> QED
  BY <1>2, <1>4, <1>5, <1>6, <1>7, <1>8, <1>9, <1>10, <1>11, <1>12, <1>13, <1>14, <1>15,
     <1>16, <1>17, <1>18, NextCases, KeyUntouched

-----------------------------------------------------------------------------
\* Prompts stay on the screen

LEMMA RowsStep ==
  ASSUME SyncInv, FollowInv, [SyncNext]_syncVars, Rows, Apart
  PROVE  Rows'
<1>0. RowsOf(session) /\ IsInjective(transcript.read.page)
  BY DEF Rows, Apart, RowsOf
<1>1. \A s, t: RowsSame(s, t) /\ RowsOf(s) => RowsOf(t)
  BY DEF RowsSame, RowsOf
<1>2. SUFFICES RowsOf(session')
  BY DEF RowsOf, Rows
<1>3. CASE Steady
  BY <1>0, <1>1, <1>3 DEF Steady
<1>4. CASE Behind
  <2>1. PICK s, t \in Session: /\ RowsSame(session, s) /\ RowsSame(t, session')
                               /\ Applies(s, t, transcript.read.buffer)
    BY <1>4 DEF Behind
  <2> QED
    BY <1>0, <1>1, <2>1 DEF Applies
<1>5. CASE Single
  BY <1>0, <1>5 DEF Single, Reduces
<1>6. CASE Fresh
  <2>1. PICK s, t \in Session: /\ RowsSame(session, s) /\ RowsSame(t, session')
                               /\ Snapshots(s, t, transcript.read, transcript.read.buffer)
    BY <1>6 DEF Fresh
  <2> QED
    BY <1>0, <1>1, <2>1 DEF Snapshots
<1>7. CASE Cleared
  BY <1>7 DEF Cleared, RowsOf, IsInjective
<1>8. ASSUME NEW q, Adds(q) \/ Settles(q) \/ Withdraws(q)
      PROVE  RowsOf(session')
  BY <1>0, <1>8 DEF Adds, Settles, Withdraws
<1> QED
  BY <1>3, <1>4, <1>5, <1>6, <1>7, <1>8, SessionSteps

\* A prompt nobody has said a word about.
LEMMA SilentStep ==
  ASSUME SyncInv, FollowInv, [SyncNext]_syncVars, Unseen, NEW p \in Ids, Untaken(p)
  PROVE  /\ p \notin ToSet(transcript.read.inbox) /\ p \notin ToSet(transcript.read.page)
         /\ ~About(transcript.read.buffer, p)
         /\ HandleEvent => Head(stream).id # p
<1>1. /\ p \notin ToSet(transcript.read.inbox) \cup ToSet(transcript.read.page)
      /\ ~About(stream, p) /\ ~About(transcript.read.buffer, p)
  BY DEF Unseen
<1>2. HandleEvent => 1 \in DOMAIN stream /\ Head(stream) = stream[1]
  BY Shifted DEF HandleEvent, SyncInv, Types, ServerTypes
<1> QED
  BY <1>1, <1>2 DEF About

LEMMA NotCancelledStep ==
  ASSUME SyncInv, FollowInv, [SyncNext]_syncVars, Unseen, NotCancelled
  PROVE  NotCancelled'
<1>1. SUFFICES ASSUME exists', NEW p \in Ids, Untaken(p)'
               PROVE  /\ p \in session'.pending => p \in session'.outbox
                      /\ cancel'.state # "none" => cancel'.id # p
  BY DEF NotCancelled
<1>2. exists /\ Untaken(p) /\ ~Accepted(p)
  BY <1>1, ExistsOnce, PostSteps
<1>3. /\ p \in session.pending => p \in session.outbox
      /\ cancel.state # "none" => cancel.id # p
  BY <1>2 DEF NotCancelled
<1>4. /\ p \notin ToSet(transcript.read.inbox) /\ p \notin ToSet(transcript.read.page)
      /\ ~About(transcript.read.buffer, p)
      /\ HandleEvent => Head(stream).id # p
  BY <1>2, SilentStep
<1>5. cancel'.state # "none" => cancel'.id # p
  <2>1. ASSUME NEW q \in Ids, Cancel(q)
        PROVE  q # p /\ cancel'.id = q
    BY <1>3, <2>1 DEF Cancel
  <2> QED
    BY <1>3, <2>1, CancelStays
<1> DEFINE Good == p \in session'.pending => p \in session'.outbox
<1>6. ASSUME Behind
      PROVE  Good
  <2>1. PICK s, t \in Session: /\ RowsSame(session, s) /\ RowsSame(t, session')
                               /\ Applies(s, t, transcript.read.buffer)
    BY <1>6 DEF Behind
  <2>2. SameFor(s, t, p)
    BY <1>4, <2>1 DEF Applies
  <2> QED
    BY <1>3, <2>1, <2>2 DEF RowsSame, SameFor
<1>7. ASSUME Single
      PROVE  Good
  <2>1. SameFor(session, session', p)
    BY <1>4, <1>7 DEF Single, Reduces
  <2> QED
    BY <1>3, <2>1 DEF SameFor
<1>8. ASSUME Fresh
      PROVE  Good
  <2>1. PICK s, t \in Session: /\ RowsSame(session, s) /\ RowsSame(t, session')
                               /\ Snapshots(s, t, transcript.read, transcript.read.buffer)
    BY <1>8 DEF Fresh
  <2>2. p \in t.pending => p \in t.outbox
    BY <1>4, <2>1 DEF Snapshots
  <2> QED
    BY <2>1, <2>2 DEF RowsSame
<1>9. Cleared => Good
  BY DEF Cleared
<1>10. ASSUME NEW q, Adds(q) \/ Withdraws(q)
       PROVE  Good
  BY <1>3, <1>10 DEF Adds, Withdraws
<1>11. ASSUME NEW q \in Ids, Accepted(q), Settles(q)
       PROVE  Good
  <2>1. q # p
    BY <1>2, <1>11
  <2> QED
    BY <1>3, <1>11, <2>1 DEF Settles
<1>12. Steady => Good
  BY <1>3 DEF Steady, RowsSame
<1> HIDE DEF Good
<1>13. Good
  BY <1>6, <1>7, <1>8, <1>9, <1>10, <1>11, <1>12, SessionSteps
<1> QED
  BY <1>5, <1>13 DEF Good

LEMMA SendingStep ==
  ASSUME SyncInv, FollowInv, [SyncNext]_syncVars, Unseen, Rows, NotCancelled, Sending
  PROVE  Sending'
<1>1. SUFFICES ASSUME exists', NEW p \in Ids, post'[p] \in {"chained", "sent"}
               PROVE  p \in session'.pending /\ p \in session'.outbox
  BY DEF Sending
<1>2. /\ exists /\ Untaken(p) /\ ~Accepted(p) /\ ~Rejected(p)
      /\ Send(p) \/ post[p] \in {"chained", "sent"}
  <2>1. Untaken(p)'
    BY <1>1 DEF Untaken
  <2> QED
    BY <1>1, <2>1, ExistsOnce, PostSteps
<1> DEFINE Good == p \in session'.pending /\ p \in session'.outbox
<1>3. ASSUME Send(p)
      PROVE  Good
  BY <1>3, SendDoes DEF SyncInv, Types
<1>4. ASSUME post[p] \in {"chained", "sent"}
      PROVE  Good
  <2>1. p \in session.pending /\ p \in session.outbox /\ p \in ToSet(session.order)
    BY <1>2, <1>4 DEF Sending, Rows
  <2>2. /\ p \notin ToSet(transcript.read.inbox) /\ p \notin ToSet(transcript.read.page)
        /\ ~About(transcript.read.buffer, p)
        /\ HandleEvent => Head(stream).id # p
    BY <1>2, SilentStep
  <2>3. ASSUME Behind
        PROVE  Good
    <3>1. PICK s, t \in Session: /\ RowsSame(session, s) /\ RowsSame(t, session')
                                 /\ Applies(s, t, transcript.read.buffer)
      BY <2>3 DEF Behind
    <3>2. SameFor(s, t, p)
      BY <2>2, <3>1 DEF Applies
    <3> QED
      BY <2>1, <3>1, <3>2 DEF RowsSame, SameFor
  <2>4. ASSUME Single
        PROVE  Good
    <3>1. SameFor(session, session', p)
      BY <2>2, <2>4 DEF Single, Reduces
    <3> QED
      BY <2>1, <3>1 DEF SameFor
  <2>5. ASSUME Fresh
        PROVE  Good
    <3>1. PICK s, t \in Session: /\ RowsSame(session, s) /\ RowsSame(t, session')
                                 /\ Snapshots(s, t, transcript.read, transcript.read.buffer)
      BY <2>5 DEF Fresh
    <3>2. p \in s.pending /\ p \in s.outbox /\ p \in ToSet(s.order)
      BY <2>1, <3>1 DEF RowsSame
    <3>3. p \in t.pending /\ p \in t.outbox
      BY <2>2, <3>1, <3>2 DEF Snapshots
    <3> QED
      BY <3>1, <3>3 DEF RowsSame
  <2>6. Steady => Good
    BY <2>1 DEF Steady, RowsSame
  <2>7. ~Cleared
    BY <1>2, <2>1 DEF Cleared
  <2>8. ASSUME NEW q, Adds(q)
        PROVE  Good
    BY <2>1, <2>8 DEF Adds
  <2>9. ASSUME NEW q \in Ids, (Accepted(q) /\ Settles(q)) \/ (Rejected(q) /\ Withdraws(q))
        PROVE  Good
    <3>1. q # p
      BY <1>2, <2>9
    <3> QED
      BY <2>1, <2>9, <3>1 DEF Settles, Withdraws
  <2>10. ASSUME Cancelled, Withdraws(cancel.id)
         PROVE  Good
    <3>1. cancel.id # p
      BY <1>2, <2>10 DEF NotCancelled, Cancelled
    <3> QED
      BY <2>1, <2>10, <3>1 DEF Withdraws
  <2> HIDE DEF Good
  <2> QED
    BY <2>3, <2>4, <2>5, <2>6, <2>7, <2>8, <2>9, <2>10, SessionSteps
<1> QED
  BY <1>2, <1>3, <1>4

\* Where a prompt the server has taken is found by the read that is under way.
Found(p) ==
  /\ transcript.read.phase = "inbox" =>
       p \in ToSet(transcript.read.inbox) \cup ToSet(page) \/ Held(p)
  /\ transcript.read.phase = "page" =>
       p \in ToSet(transcript.read.inbox) \cup ToSet(transcript.read.page) \/ Held(p)

LEMMA FoundStep ==
  ASSUME SyncInv, [SyncNext]_syncVars, NEW p \in Ids, p \in ToSet(inbox) \cup ToSet(page), Found(p),
         \/ ~(p \in session.pending /\ p \in session.outbox)
         \/ p \in session'.pending /\ p \in session'.outbox
         \/ ReadOver
  PROVE  Found(p)'
<1> DEFINE r == transcript.read
           s == transcript'.read
           Row == p \in session.pending /\ p \in session.outbox
           Row2 == p \in session'.pending /\ p \in session'.outbox
           In(b) == \E i \in DOMAIN b: b[i] = Event("enqueued", p)
<1>0. /\ r \in Transcripts /\ r.buffer \in Seq(Events) /\ stream \in Seq(Events)
      /\ ToSet(page) \subseteq ToSet(page')
  BY ServerContents DEF SyncInv, Types, KeyTypes, ServerTypes, Keys, Transcripts
<1>1. ReadOver => Found(p)'
  BY Blank DEF ReadOver, Found
<1>2. ASSUME s.phase = r.phase, s.inbox = r.inbox, s.page = r.page,
             In(r.buffer) => In(s.buffer), ~ReadOver
      PROVE  Found(p)'
  <2>1. Row => Row2
    BY <1>2
  <2> HIDE DEF Row, Row2, In
  <2>2. Held(p) => Held(p)'
    BY <1>2, <2>1 DEF Held, Row, Row2, In
  <2> QED
    BY <1>0, <1>2, <2>2 DEF Found
<1>3. CASE ReadGoes
  <2>1. ReadOver \/ s = r
    BY <1>3 DEF ReadGoes, ReadOver
  <2> QED
    BY <1>1, <1>2, <2>1
<1>4. CASE HandleBuffered /\ s = [r EXCEPT !.buffer = Append(@, Head(stream))]
  <2>1. s.phase = r.phase /\ s.inbox = r.inbox /\ s.page = r.page
        /\ s.buffer = Append(r.buffer, Head(stream))
    BY <1>0, <1>4 DEF Transcripts
  <2>2. In(r.buffer) => In(s.buffer)
    BY <1>0, <2>1
  <2> HIDE DEF r, s, In
  <2> QED
    BY <1>1, <1>2, <2>1, <2>2
<1>5. CASE Read /\ s = ReadNext(r)
  <2>1. r.phase \in {"asked", "inbox"} /\ page' = page /\ session' = session
    BY <1>5 DEF Read, server
  <2>2. Held(p) => Held(p)'
    <3>1. s.buffer = r.buffer
      BY <1>0, <1>5 DEF ReadNext, Transcripts
    <3> QED
      BY <2>1, <3>1 DEF Held
  <2>3. CASE r.phase = "asked"
    <3>1. s.phase = "inbox" /\ s.inbox = inbox
      BY <1>0, <1>5, <2>3 DEF ReadNext, Transcripts
    <3> QED
      BY <2>1, <3>1 DEF Found
  <2>4. CASE r.phase = "inbox"
    <3>1. s.phase = "page" /\ s.inbox = r.inbox /\ s.page = page
      BY <1>0, <1>5, <2>4 DEF ReadNext, Transcripts
    <3> QED
      BY <2>1, <2>2, <2>4, <3>1 DEF Found
  <2> QED
    BY <2>1, <2>3, <2>4
<1> QED
  BY <1>3, <1>4, <1>5, ReadSteps

LEMMA TakenStep ==
  ASSUME SyncInv, FollowInv, [SyncNext]_syncVars, PromptInv
  PROVE  TakenShown'
<1>0. Unseen /\ Rows /\ NotCancelled /\ NoCancels /\ Sending /\ TakenShown
  BY DEF PromptInv
<1>1. SUFFICES ASSUME exists', upsets'.cancels = 0, NEW p \in Ids, post'[p] = "taken"
               PROVE  TakenPrompt(p)'
  BY DEF TakenShown
<1>2. /\ exists /\ upsets.cancels = 0 /\ ~Accepted(p) /\ ~Rejected(p)
      /\ post[p] = "taken" \/ (Take(p) /\ post[p] = "sent")
  BY <1>1, ExistsOnce, UpsetsStay, PostSteps
<1>3. /\ cancel.state = "none"
      /\ \A i \in DOMAIN transcript.read.buffer: transcript.read.buffer[i].type # "cancelled"
      /\ \A i \in DOMAIN stream: stream[i].type # "cancelled"
  BY <1>0, <1>2 DEF NoCancels
<1>4. ~TakeBack /\ ~Cancelled
  BY <1>3 DEF TakeBack, Cancelled
<1>5. \A q \in ToSet(inbox) \cup ToSet(page): q \in ToSet(inbox') \cup ToSet(page')
  BY <1>4, ServerContents
<1>6. ASSUME Take(p), post[p] = "sent"
      PROVE  TakenPrompt(p)'
  <2>1. /\ p \in session.pending /\ p \in session.outbox /\ p \in ToSet(session.order)
    BY <1>0, <1>2, <1>6 DEF Sending, Rows
  <2>2. session' = session
    BY <1>6, KeyUntouched DEF KeySame
  <2>3. Held(p)' /\ p \in ToSet(session'.order)
    BY <2>1, <2>2 DEF Held
  <2>4. p \in ToSet(inbox')
    BY <1>6, ServerContents
  <2> QED
    BY <2>3, <2>4 DEF TakenPrompt
<1>7. ASSUME post[p] = "taken"
      PROVE  TakenPrompt(p)'
  <2>1. TakenPrompt(p)
    BY <1>0, <1>2, <1>7 DEF TakenShown
  <2>2. /\ p \in ToSet(inbox) \cup ToSet(page) /\ Found(p)
        /\ session.loaded => p \in ToSet(session.order)
    BY <2>1 DEF TakenPrompt, Found
  <2> DEFINE Row == p \in session.pending /\ p \in session.outbox
             Row2 == p \in session'.pending /\ p \in session'.outbox
             Shown == session'.loaded => p \in ToSet(session'.order)
             Good == (~Row \/ Row2 \/ ReadOver) /\ Shown
  <2>3. ASSUME Steady
        PROVE  Good
    BY <2>2, <2>3 DEF Steady, RowsSame
  <2>4. ASSUME Behind
        PROVE  Good
    <3>1. PICK s, t \in Session: /\ RowsSame(session, s) /\ RowsSame(t, session')
                                 /\ s.loaded => session.loaded
                                 /\ session'.loaded = t.loaded
                                 /\ Applies(s, t, transcript.read.buffer)
      BY <2>4 DEF Behind
    <3>2. t.loaded = s.loaded /\ (p \in ToSet(s.order) => p \in ToSet(t.order))
      BY <1>3, <3>1 DEF Applies
    <3>3. Shown
      BY <2>2, <3>1, <3>2 DEF RowsSame
    <3> QED
      BY <2>4, <3>3 DEF Behind
  <2>5. ASSUME Single
        PROVE  Good
    <3>1. Head(stream).type # "cancelled"
      BY <1>3, <2>5, Shifted DEF Single, HandleEvent, SyncInv, Types, ServerTypes
    <3>2. Shown
      BY <2>2, <2>5, <3>1 DEF Single, Reduces
    <3>3. transcript.read = noRead /\ transcript' = transcript
      BY <2>5 DEF Single, HandleEvent, Reading, SyncInv, Joined, Rests
    <3>4. ReadOver
      BY <3>3 DEF ReadOver
    <3> QED
      BY <3>2, <3>4
  <2>6. ASSUME Fresh
        PROVE  Good
    <3>1. PICK s, t \in Session: /\ RowsSame(session, s) /\ RowsSame(t, session')
                                 /\ Snapshots(s, t, transcript.read, transcript.read.buffer)
      BY <2>6 DEF Fresh
    <3>2. \/ p \in ToSet(transcript.read.page) \/ p \in ToSet(transcript.read.inbox)
          \/ Held(p)
      BY <2>2, <2>6 DEF Found, Fresh
    <3>3. \/ p \in ToSet(transcript.read.page) \/ p \in ToSet(transcript.read.inbox)
          \/ p \in s.pending /\ p \in s.outbox /\ p \in ToSet(s.order)
          \/ \E i \in DOMAIN transcript.read.buffer:
               /\ transcript.read.buffer[i].type = "enqueued"
               /\ transcript.read.buffer[i].id = p
      BY <1>0, <3>1, <3>2 DEF Held, RowsSame, Rows, Event
    <3>4. p \in ToSet(t.order)
      BY <1>3, <3>1, <3>3 DEF Snapshots
    <3>5. Shown
      BY <3>1, <3>4 DEF RowsSame
    <3> QED
      BY <2>6, <3>5 DEF Fresh
  <2>7. ASSUME Cleared
        PROVE  Good
    BY <1>2, <2>7 DEF Cleared
  <2>8. ASSUME NEW q, Adds(q)
        PROVE  Good
    BY <2>2, <2>8 DEF Adds
  <2>9. ASSUME NEW q \in Ids, (Accepted(q) /\ Settles(q)) \/ (Rejected(q) /\ Withdraws(q))
        PROVE  Good
    <3>1. q # p
      BY <1>2, <2>9
    <3> QED
      BY <2>2, <2>9, <3>1 DEF Settles, Withdraws
  <2> HIDE DEF Good
  <2>10. Good
    BY <1>4, <2>3, <2>4, <2>5, <2>6, <2>7, <2>8, <2>9, SessionSteps
  <2>11. Found(p)'
    BY <2>2, <2>10, FoundStep DEF Good
  <2> QED
    BY <1>5, <2>2, <2>10, <2>11 DEF TakenPrompt, Found, Good
<1> QED
  BY <1>2, <1>6, <1>7

LEMMA InitPrompts ==
  ASSUME SyncInit
  PROVE  PromptInv
<1>1. /\ inbox = <<>> /\ page = <<>> /\ stream = <<>>
      /\ transcript.read.inbox = <<>> /\ transcript.read.page = <<>>
      /\ transcript.read.buffer = <<>>
      /\ cancel.state = "none" /\ \A p \in Ids: post[p] = "none"
      /\ session.order = <<>> /\ session.pending = {}
  BY Blank DEF SyncInit, noCancel, emptySession
<1>2. ToSet(<<>>) = {} /\ IsInjective(<<>>)
  BY DEF ToSet, IsInjective
<1>3. Unseen
  BY <1>1, <1>2 DEF Unseen, About
<1>4. Apart /\ Rows
  BY <1>1, <1>2 DEF Apart, Rows
<1>5. NotCancelled /\ NoCancels
  BY <1>1 DEF NotCancelled, NoCancels
<1>6. Sending /\ TakenShown
  BY <1>1 DEF Sending, TakenShown
<1> QED
  BY <1>3, <1>4, <1>5, <1>6 DEF PromptInv

LEMMA PromptInvariant == SyncSpec => []PromptInv
<1>1. SyncInit => PromptInv
  BY InitPrompts
<1>2. SyncInv /\ FollowInv /\ [SyncNext]_syncVars /\ PromptInv => PromptInv'
  BY RowsStep, ApartStep, UnseenStep, NotCancelledStep, NoCancelsStep, SendingStep, TakenStep
     DEF PromptInv
<1> QED
  BY <1>1, <1>2, TypeInvariant, FollowInvariant, PTL DEF SyncSpec

\* A prompt stays on the screen until the server has answered, through reads,
\* connections, failures and what leaves the screen; one the server has taken is
\* pending or a message (controller.ts, reduce.ts, sync.ts).
THEOREM PromptsAreShown == SyncSpec => []PromptShown
<1>1. PromptInv => PromptShown
  <2>1. ASSUME PromptInv, exists, NEW p \in Ids, post[p] \in {"chained", "sent"}
        PROVE  p \in session.pending \cap ToSet(session.order)
    BY <2>1 DEF PromptInv, Sending, Rows
  <2>2. ASSUME PromptInv, exists, NEW p \in Ids, post[p] = "taken", session.loaded,
               upsets.cancels = 0
        PROVE  p \in ToSet(session.order)
    BY <2>2 DEF PromptInv, TakenShown, TakenPrompt
  <2> QED
    BY <2>1, <2>2 DEF PromptShown
<1> QED
  BY <1>1, PromptInvariant, PTL

\* The state has its types, no message is shown twice, and what is pending has a row.
THEOREM ChatTypes == SyncSpec => []SyncTypes
<1>1. SyncInv /\ PromptInv => SyncTypes
  <2> SUFFICES ASSUME SyncInv, PromptInv
               PROVE  SyncTypes
    OBVIOUS
  <2>1. ServerTypes /\ ClientTypes /\ KeyTypes /\ Joined /\ Rows
    BY DEF SyncInv, Types, PromptInv
  <2>2. session.order \in Seq(Ids \cup Answers) /\ transcript.state \in {"none", "pending", "done"}
    BY <2>1 DEF KeyTypes, Session, Keys, Message
  <2> QED
    BY <2>1, <2>2 DEF SyncTypes, ServerTypes, ClientTypes, Joined, Rows, Message
<1> QED
  BY <1>1, TypeInvariant, PromptInvariant, PTL
==============================================================================
