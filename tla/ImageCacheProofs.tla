-------------------------- MODULE ImageCacheProofs --------------------------
(***************************************************************************)
(* Proofs about the chunk cache for every number of threads, chunks and    *)
(* buffers: types, what a pin, a slot and a buffer stand for, and that     *)
(* what a reader copies is the chunk it asked for.                         *)
(***************************************************************************)
EXTENDS ImageCache, FiniteSetTheorems, SequenceTheorems, WellFoundedInduction, TLAPS

\* The threads that pin a chunk, and what they add up to.
Pinners(c) == {t \in Threads: Pinning(t) /\ chunk[t] = c}
PinsCounted == \A c \in Chunks: pins[c] = Cardinality(Pinners(c))

\* A buffer that a thread has in hand is its own, raw until it is filled.
InHand(t) == pc[t] \in {"own", "host", "short", "backoff", "publish"}
BuffersOwned ==
  \A t \in Threads: InHand(t) =>
    /\ buf[t] \in Buffers
    /\ pc[t] # "publish" => mem[buf[t]] = Raw
    /\ pc[t] = "publish" => mem[buf[t]] = chunk[t]
BuffersAlone ==
  \A t, u \in Threads: t # u /\ InHand(t) /\ InHand(u) => buf[t] # buf[u]

\* The address in a slot is that of the chunk's bytes.
SlotsHold == \A c \in Chunks: Loaded(c) => mem[slot[c]] = c

\* A slot that is being loaded, or dropped, is one thread's.
InLoad(t) == pc[t] \in {"host", "short", "publish"}
LoadsOwned == \A t \in Threads: InLoad(t) => slot[chunk[t]] = Loading
LoadsAlone ==
  \A t, u \in Threads: t # u /\ InLoad(t) /\ InLoad(u) => chunk[t] # chunk[u]

InDrop(t) == pc[t] \in {"drain", "drop"}
DropsOwned ==
  \A t \in Threads: InDrop(t) =>
    /\ slot[victim[t]] = Evicting
    /\ ptr[t] \in Buffers /\ mem[ptr[t]] = victim[t]
DropsAlone ==
  \A t, u \in Threads: t # u /\ InDrop(t) /\ InDrop(u) => victim[t] # victim[u]

\* What a sweep saw in the slot was an address.
InPeek(t) == pc[t] \in {"peek", "claim"}
SweepsSeen == \A t \in Threads: InPeek(t) => ptr[t] \in Buffers

\* What is copied is in its slot still, or with a sweep that waits for the pins.
Draining(t, u) == pc[u] = "drain" /\ victim[u] = chunk[t] /\ ptr[u] = ptr[t]
Copies ==
  \A t \in Threads: pc[t] = "copy" =>
    /\ ptr[t] \in Buffers /\ mem[ptr[t]] = chunk[t]
    /\ slot[chunk[t]] = ptr[t] \/ \E u \in Threads: Draining(t, u)

Hands == BuffersOwned /\ BuffersAlone /\ SlotsHold
Turns == LoadsOwned /\ LoadsAlone /\ DropsOwned /\ DropsAlone /\ SweepsSeen
IInv == PinsCounted /\ Hands /\ Turns /\ Copies

-----------------------------------------------------------------------------

USE DEF slots, memory, reader, sweep, download, fetching
USE DEF Absent, Loading, Evicting, None, Free, Raw

LEMMA Sizes ==
  /\ N \in Nat /\ N > 0 /\ Memory \in Nat /\ Rounds \in Nat /\ Patience \in Nat
  /\ MaxOps \in Nat /\ MaxKills \in Nat /\ Limits \subseteq Nat
  /\ 1 \in Chunks
  BY ImageCacheAssumption DEF Chunks

\* There is a first free buffer, when there is any.
LEMMA Lowest ==
  ASSUME NEW S \in SUBSET Nat, S # {}
  PROVE  \E b \in S: \A d \in S: b <= d
<1>1. PICK b \in S: \A d \in S: <<d, b>> \notin OpToRel(<, Nat)
  BY WFMin, NatLessThanWellFounded, Zenon
<1>2. \A d \in S: ~(d < b)
  BY <1>1, Zenon DEF OpToRel
<1> QED
  BY <1>2

\* What Take picks.
LEMMA FirstFree ==
  ASSUME ~Full, NEW t \in Threads, Take(t)
  PROVE  \E b \in Buffers:
           /\ mem[b] = Free
           /\ mem' = [mem EXCEPT ![b] = Raw] /\ buf' = [buf EXCEPT ![t] = b]
           /\ pc' = [pc EXCEPT ![t] = "own"] /\ UNCHANGED <<chunk, sweep>>
<1> DEFINE S == {b \in Buffers: mem[b] = Free}
           First(b) == mem[b] = Free /\ \A d \in 1..b - 1: mem[d] # Free
           first == CHOOSE b \in Buffers: First(b)
<1>1. S \in SUBSET Nat /\ S # {}
  BY Sizes DEF Full, Buffers
<1>2. PICK b \in S: \A d \in S: b <= d
  <2> HIDE DEF S
  <2> QED
    BY <1>1, Lowest
<1>3. ASSUME NEW d \in 1..b - 1 PROVE mem[d] # Free
  BY <1>2, <1>3, Sizes DEF Buffers
<1>4. first \in Buffers /\ mem[first] = Free
  BY <1>2, <1>3
<1>5. mem' = [mem EXCEPT ![first] = Raw] /\ buf' = [buf EXCEPT ![t] = first]
  BY DEF Take
<1>6. pc' = [pc EXCEPT ![t] = "own"] /\ UNCHANGED <<chunk, sweep>>
  BY DEF Take, Goto
<1> HIDE DEF first
<1> QED
  BY <1>4, <1>5, <1>6

-----------------------------------------------------------------------------

LEMMA TypeInit == Init => TypeOK
<1> SUFFICES ASSUME Init PROVE TypeOK
  OBVIOUS
<1>1. CacheTypes
  BY DEF Init, CacheTypes
<1>2. ThreadTypes
  BY Sizes DEF Init, ThreadTypes, PCs
<1>3. sup \in Seq(Chunks) /\ todo \in Seq(Chunks)
  BY DEF Init
<1>4. HostTypes
  BY <1>3, Sizes DEF Init, HostTypes
<1> QED
  BY <1>1, <1>2, <1>4 DEF TypeOK

\* The cache: a read, a load and a sweep change it.
LEMMA CacheTyped ==
  ASSUME TypeOK, [Next]_vars
  PROVE  CacheTypes'
<1>1. ASSUME NEW t \in Threads, Read(t) \/ Alloc(t) \/ Kill(t) PROVE CacheTypes'
  BY <1>1 DEF TypeOK, CacheTypes, Read, Alloc, Kill
<1>2. ASSUME NEW t \in Threads, Reads(t) PROVE CacheTypes'
  <2>1. CASE Pin(t) \/ Missed(t)
    BY <2>1 DEF TypeOK, CacheTypes, ThreadTypes, Pin, Missed
  <2>2. CASE Copied(t)
    BY <2>2 DEF TypeOK, CacheTypes, ThreadTypes, Copied
  <2> QED
    BY <1>2, <2>1, <2>2 DEF TypeOK, CacheTypes, Reads, Look, Request, Poll, Fails
<1>3. ASSUME NEW t \in Threads, Loads(t) PROVE CacheTypes'
  <2>1. CASE Load(t) \/ Publish(t) \/ Count(t)
    <3>1. CASE Publish(t)
      <4>1. slot' = [slot EXCEPT ![chunk[t]] = buf[t]] /\ used' = [used EXCEPT ![chunk[t]] = TRUE]
        BY <3>1 DEF Publish
      <4> QED
        BY <3>1, <4>1 DEF TypeOK, CacheTypes, ThreadTypes, Publish
    <3> QED
      BY <2>1, <3>1 DEF TypeOK, CacheTypes, ThreadTypes, Load, Count
  <2>2. CASE Take(t)
    <3>1. CASE ~Full
      BY <2>2, <3>1, FirstFree DEF TypeOK, CacheTypes, Take
    <3> QED
      BY <2>2, <3>1 DEF TypeOK, CacheTypes, Take
  <2>3. CASE Own(t)
    BY <2>3 DEF TypeOK, CacheTypes, ThreadTypes, Own, GiveBack
  <2>4. CASE HostRead(t)
    BY <2>4 DEF TypeOK, CacheTypes, ThreadTypes, HostRead, Unload, GiveBack
  <2>5. CASE Short(t)
    BY <2>5 DEF TypeOK, CacheTypes, ThreadTypes, Short, Unload, GiveBack
  <2>6. CASE Backoff(t)
    BY <2>6 DEF TypeOK, CacheTypes, ThreadTypes, Backoff, GiveBack
  <2> QED
    BY <1>3, <2>1, <2>2, <2>3, <2>4, <2>5, <2>6 DEF Loads
<1>4. ASSUME NEW t \in Threads, Evicts(t) PROVE CacheTypes'
  <2>1. CASE Claim(t) \/ Drain(t)
    BY <2>1 DEF TypeOK, CacheTypes, ThreadTypes, Claim, Drain
  <2>2. CASE Drop(t)
    BY <2>2 DEF TypeOK, CacheTypes, ThreadTypes, Drop
  <2>3. CASE Peek(t)
    BY <2>3 DEF TypeOK, CacheTypes, ThreadTypes, Peek
  <2>4. CASE Sweep(t) \/ Deduct(t)
    BY <2>4 DEF TypeOK, CacheTypes, Sweep, Deduct
  <2> QED
    BY <1>4, <2>1, <2>2, <2>3, <2>4 DEF Evicts
<1>5. CASE SetLimit
  BY <1>5 DEF TypeOK, CacheTypes, SetLimit
<1>6. CASE Serves
  BY <1>6 DEF TypeOK, CacheTypes, Serves, Serve, SnapshotRead, ServeStash
<1>7. CASE ImageArrived \/ Arrive \/ Complete \/ DownloadFails \/ UNCHANGED vars
  BY <1>7 DEF TypeOK, CacheTypes, ImageArrived, Arrive, Complete, DownloadFails, vars
<1> QED
  BY <1>1, <1>2, <1>3, <1>4, <1>5, <1>6, <1>7 DEF Next

\* The threads.
LEMMA ThreadsTyped ==
  ASSUME TypeOK, [Next]_vars
  PROVE  ThreadTypes'
<1>1. ASSUME NEW t \in Threads, Read(t) \/ Kill(t) PROVE ThreadTypes'
  BY <1>1 DEF TypeOK, ThreadTypes, PCs, Read, Kill, Goto
<1>2. ASSUME NEW t \in Threads, Alloc(t) PROVE ThreadTypes'
  BY <1>2, Sizes DEF TypeOK, ThreadTypes, PCs, Alloc, Evict, Goto
<1>3. ASSUME NEW t \in Threads, Reads(t) PROVE ThreadTypes'
  <2>1. CASE Pin(t) \/ Missed(t) \/ Request(t)
    BY <2>1 DEF TypeOK, ThreadTypes, PCs, Pin, Missed, Request, Goto
  <2>2. CASE Look(t)
    BY <2>2 DEF TypeOK, ThreadTypes, PCs, Look, Loaded, Goto
  <2>3. CASE Copied(t) \/ Fails(t)
    BY <2>3, Sizes DEF TypeOK, ThreadTypes, PCs, Copied, Fails, Over, Goto
  <2>4. CASE Poll(t)
    BY <2>4, Sizes DEF TypeOK, ThreadTypes, PCs, Poll, Goto
  <2> QED
    BY <1>3, <2>1, <2>2, <2>3, <2>4 DEF Reads
<1>4. ASSUME NEW t \in Threads, Loads(t) PROVE ThreadTypes'
  <2>1. CASE Load(t)
    BY <2>1, Sizes DEF TypeOK, ThreadTypes, CacheTypes, PCs, Load, LoadReturns, Over, Evict, Goto
  <2>2. CASE Take(t)
    <3>1. CASE ~Full
      <4>1. PICK b \in Buffers:
              /\ buf' = [buf EXCEPT ![t] = b]
              /\ pc' = [pc EXCEPT ![t] = "own"] /\ UNCHANGED <<chunk, sweep>>
        BY <2>2, <3>1, FirstFree
      <4>2. UNCHANGED <<ptr, waited>>
        BY <2>2 DEF Take
      <4> QED
        BY <4>1, <4>2 DEF TypeOK, ThreadTypes, PCs
    <3> QED
      BY <2>2, <3>1, Sizes DEF TypeOK, ThreadTypes, PCs, Take, LoadReturns, Over, Evict, Goto
  <2>3. CASE Own(t) \/ Backoff(t) \/ Publish(t)
    BY <2>3 DEF TypeOK, ThreadTypes, PCs, Own, Backoff, Publish, GiveBack, Goto
  <2>4. CASE HostRead(t)
    BY <2>4, Sizes DEF TypeOK, ThreadTypes, PCs, HostRead, Unload, GiveBack, LoadReturns, Over, Goto
  <2>5. CASE Short(t)
    BY <2>5, Sizes DEF TypeOK, ThreadTypes, PCs, Short, Unload, GiveBack, LoadReturns, Over, Goto
  <2>6. CASE Count(t)
    BY <2>6, Sizes DEF TypeOK, ThreadTypes, PCs, Count, LoadReturns, Over, Goto
  <2> QED
    BY <1>4, <2>1, <2>2, <2>3, <2>4, <2>5, <2>6 DEF Loads
<1>5. ASSUME NEW t \in Threads, Evicts(t) PROVE ThreadTypes'
  <2>1. CASE Sweep(t)
    BY <2>1, Sizes DEF TypeOK, ThreadTypes, PCs, Sweep, Loaded, Goto
  <2>2. CASE Peek(t) \/ Claim(t) \/ Drain(t)
    BY <2>2 DEF TypeOK, ThreadTypes, PCs, Peek, Claim, Drain, Spare, Goto
  <2>3. CASE Drop(t) \/ Deduct(t)
    BY <2>3 DEF TypeOK, ThreadTypes, PCs, Drop, Deduct, Goto
  <2> QED
    BY <1>5, <2>1, <2>2, <2>3 DEF Evicts
<1>6. CASE SetLimit
  BY <1>6, Sizes DEF TypeOK, ThreadTypes, PCs, SetLimit, Evict, Goto, Threads
<1>7. CASE Serves
  <2>1. ASSUME NEW c \in Chunks, Fault(c), UNCHANGED <<ptr, waited, buf, sweep>> PROVE ThreadTypes'
    BY <2>1 DEF TypeOK, ThreadTypes, PCs, Fault, Goto
  <2>2. CASE UNCHANGED <<pc, chunk>>
    BY <1>7, <2>2 DEF TypeOK, ThreadTypes, Serves, Serve, SnapshotRead, ServeStash
  <2>3. \/ UNCHANGED <<pc, chunk>>
        \/ Fault(Head(sup)) /\ sup # <<>>
        \/ \E c \in Chunks: Fault(c)
        \/ Fault(Head(todo)) /\ todo # <<>>
    BY <1>7 DEF Serves, Serve, SnapshotRead, ServeStash
  <2>4. UNCHANGED <<ptr, waited, buf, sweep>>
    BY <1>7 DEF Serves, Serve, SnapshotRead, ServeStash
  <2>5. sup # <<>> => Head(sup) \in Chunks
    BY DEF TypeOK, HostTypes
  <2>6. todo # <<>> => Head(todo) \in Chunks
    BY DEF TypeOK, HostTypes
  <2> QED
    BY <2>1, <2>2, <2>3, <2>4, <2>5, <2>6
<1>8. CASE ImageArrived \/ Arrive \/ Complete \/ DownloadFails \/ UNCHANGED vars
  BY <1>8 DEF TypeOK, ThreadTypes, ImageArrived, Arrive, Complete, DownloadFails, vars
<1> QED
  BY <1>1, <1>2, <1>3, <1>4, <1>5, <1>6, <1>7, <1>8 DEF Next

\* What the host has: the queue, the download, snapshots and what came by them.
LEMMA HostTyped ==
  ASSUME TypeOK, [Next]_vars
  PROVE  HostTypes'
<1> USE DEF TypeOK, HostTypes
<1>0. ASSUME NEW c, snap' = [snap EXCEPT ![c] = None]
      PROVE  snap' \in [Chunks -> 0..N + 1]
  <2>1. snap \in [Chunks -> 0..N + 1] /\ None \in 0..N + 1
    BY Sizes
  <2> HIDE DEF TypeOK, HostTypes, None
  <2> QED
    BY <1>0, <2>1
<1>1. ASSUME NEW t \in Threads, Read(t) \/ Alloc(t) \/ Kill(t) PROVE HostTypes'
  BY <1>1, Sizes DEF Read, Alloc, Kill, Begin
<1>2. ASSUME NEW t \in Threads, Reads(t) PROVE HostTypes'
  <2>1. CASE Request(t)
    <3>1. chunk[t] \in Chunks
      BY DEF ThreadTypes
    <3>2. sup' \in Seq(Chunks)
      BY <2>1, <3>1 DEF Request
    <3> QED
      BY <2>1, <3>2 DEF Request
  <2>2. CASE ~Request(t)
    BY <1>2, <2>2 DEF Reads, Pin, Look, Copied, Missed, Poll, Fails
  <2> QED
    BY <2>1, <2>2
<1>3. ASSUME NEW t \in Threads, Loads(t) PROVE HostTypes'
  BY <1>3 DEF Loads, Load, Take, Own, HostRead, Short, Backoff, Publish, Count
<1>4. ASSUME NEW t \in Threads, Evicts(t) PROVE HostTypes'
  BY <1>4 DEF Evicts, Sweep, Peek, Claim, Drain, Drop, Deduct
<1>5. CASE SetLimit
  BY <1>5, Sizes DEF SetLimit, Begin
<1>6. CASE Serve
  <2>1. Head(sup) \in Chunks /\ sup' \in Seq(Chunks)
    BY <1>6 DEF Serve
  <2>2. snap' \in [Chunks -> 0..N + 1]
    BY <1>6, <2>1, Sizes DEF Serve
  <2> QED
    BY <1>6, <2>1, <2>2 DEF Serve
<1>7. CASE SnapshotRead
  <2>1. CASE UNCHANGED <<stash, serving, todo>>
    <3>1. snap' = snap \/ \E c \in Chunks: snap' = [snap EXCEPT ![c] = None]
      BY <1>7, <2>1 DEF SnapshotRead
    <3>2. snap' \in [Chunks -> 0..N + 1]
      BY <1>0, <3>1
    <3> QED
      BY <1>7, <2>1, <3>2 DEF SnapshotRead
  <2>2. CASE ~UNCHANGED <<stash, serving, todo>>
    <3>1. PICK c \in Chunks:
            /\ ~handed
            /\ \E upto \in snap[c] - 1..arrived:
                 IF upto < c
                 THEN snap' = [snap EXCEPT ![c] = None] /\ UNCHANGED <<pc, chunk, stash, serving, todo>>
                 ELSE /\ stash' = c..upto /\ serving' = c
                      /\ todo' = [i \in 1..upto - c + 1 |-> c + i - 1]
                      /\ UNCHANGED <<pc, chunk, snap>>
      BY <1>7, <2>2 DEF SnapshotRead
    <3>2. PICK upto \in snap[c] - 1..arrived:
            /\ ~(upto < c) /\ stash' = c..upto /\ serving' = c
            /\ todo' = [i \in 1..upto - c + 1 |-> c + i - 1]
            /\ UNCHANGED snap
      BY <2>2, <3>1
    <3>3. upto \in Chunks /\ stash' \subseteq Chunks
      BY <3>2, Sizes DEF Chunks
    <3>4. todo' \in [1..upto - c + 1 -> Chunks] /\ upto - c + 1 \in Nat
      BY <3>2, <3>3, Sizes DEF Chunks
    <3>5. todo' \in Seq(Chunks)
      <4> DEFINE k == upto - c + 1
      <4>1. k \in Nat /\ todo' \in [1..k -> Chunks]
        BY <3>4
      <4> HIDE DEF k, TypeOK, HostTypes
      <4> QED
        BY <4>1, SeqDef
    <3> QED
      BY <1>7, <3>2, <3>3, <3>5 DEF SnapshotRead
  <2> QED
    BY <2>1, <2>2
<1>8. CASE ServeStash
  <2>1. todo' \in Seq(Chunks)
    <3>1. todo \in Seq(Chunks)
      OBVIOUS
    <3>2. todo' = todo \/ (todo # <<>> /\ todo' = Tail(todo))
      BY <1>8 DEF ServeStash
    <3> HIDE DEF TypeOK, HostTypes
    <3> QED
      BY <3>1, <3>2
  <2>2. stash' \subseteq Chunks /\ serving' \in Chunks \cup {None}
    BY <1>8 DEF ServeStash
  <2>3. snap' \in [Chunks -> 0..N + 1]
    BY <1>0, <1>8 DEF ServeStash
  <2> QED
    BY <1>8, <2>1, <2>2, <2>3 DEF ServeStash
<1>9. CASE ImageArrived \/ Arrive \/ Complete \/ DownloadFails \/ UNCHANGED vars
  <2>1. CASE Arrive
    BY <2>1, Sizes DEF Arrive
  <2>2. CASE ImageArrived \/ Complete \/ DownloadFails
    BY <2>2 DEF ImageArrived, Complete, DownloadFails
  <2> QED
    BY <1>9, <2>1, <2>2 DEF vars
<1> QED
  BY <1>1, <1>2, <1>3, <1>4, <1>5, <1>6, <1>7, <1>8, <1>9 DEF Next, Serves

\* The cache keeps its types.
THEOREM TypeCorrect == Spec => []TypeOK
<1>1. TypeOK /\ [Next]_vars => TypeOK'
  BY CacheTyped, ThreadsTyped, HostTyped DEF TypeOK
<1> QED
  BY <1>1, TypeInit, PTL DEF Spec

-----------------------------------------------------------------------------

LEMMA Values ==
  /\ {Absent, Loading, Evicting, None} \cap Buffers = {}
  /\ {Raw, Free} \cap Chunks = {}
  BY Sizes DEF Buffers, Chunks

\* Nobody but t moves.
Only(t) ==
  \A u \in Threads: u # t =>
    /\ pc'[u] = pc[u] /\ chunk'[u] = chunk[u] /\ ptr'[u] = ptr[u]
    /\ buf'[u] = buf[u] /\ victim'[u] = victim[u]

\* Where a thread has nothing: no pin, no slot, no buffer.
Busy == {"look", "copy", "missed", "own", "host", "short", "backoff", "publish", "drain", "drop"}

LEMMA ThreadsFinite ==
  /\ IsFiniteSet(Threads)
  /\ \A c: IsFiniteSet(Pinners(c)) /\ Cardinality(Pinners(c)) \in Nat
<1>1. IsFiniteSet({Page, Kerneld})
  <2>1. IsFiniteSet({Page}) /\ {Page, Kerneld} = {Page} \cup {Kerneld}
    BY FS_Singleton
  <2> QED
    BY <2>1, FS_AddElement
<1>2. IsFiniteSet(Threads)
  BY <1>1, ImageCacheAssumption, FS_Union DEF Threads
<1>3. ASSUME NEW c PROVE IsFiniteSet(Pinners(c)) /\ Cardinality(Pinners(c)) \in Nat
  BY <1>2, FS_Subset, FS_CardinalityType DEF Pinners
<1> QED
  BY <1>2, <1>3

\* A step of one thread that neither pins nor unpins keeps the counts.
LEMMA PinsKept ==
  ASSUME PinsCounted, NEW t \in Threads, Only(t), UNCHANGED pins,
         Pinning(t)' <=> Pinning(t), Pinning(t) => UNCHANGED chunk
  PROVE  PinsCounted'
<1>1. ASSUME NEW c \in Chunks PROVE Pinners(c)' = Pinners(c)
  BY DEF Pinners, Pinning, Only
<1> QED
  BY <1>1 DEF PinsCounted

\* Who pins is counted.
LEMMA PinnedPositive ==
  ASSUME PinsCounted, TypeOK, NEW t \in Threads, Pinning(t)
  PROVE  pins[chunk[t]] > 0
<1>1. chunk[t] \in Chunks /\ t \in Pinners(chunk[t])
  BY DEF TypeOK, ThreadTypes, Pinners
<1>2. Cardinality(Pinners(chunk[t])) # 0 /\ Cardinality(Pinners(chunk[t])) \in Nat
  BY <1>1, ThreadsFinite, FS_EmptySet
<1> QED
  BY <1>1, <1>2 DEF PinsCounted

\* A thread that has nothing, before and after, disturbs nothing.
LEMMA QuietStep ==
  ASSUME TypeOK, IInv, NEW t \in Threads, Only(t), UNCHANGED <<slot, mem, pins>>,
         pc[t] \notin Busy, pc'[t] \notin Busy,
         InPeek(t)' => ptr'[t] \in Buffers
  PROVE  IInv'
<1>1. PinsCounted'
  BY PinsKept DEF IInv, Pinning, Busy
<1>2. Hands'
  BY DEF IInv, Hands, BuffersOwned, BuffersAlone, SlotsHold, InHand, Only, Busy, Loaded
<1>3. Turns'
  BY DEF IInv, Turns, LoadsOwned, LoadsAlone, DropsOwned, DropsAlone, SweepsSeen,
     InLoad, InDrop, InPeek, Only, Busy
<1>4. Copies'
  BY DEF IInv, Copies, Draining, Only, Busy
<1> QED
  BY <1>1, <1>2, <1>3, <1>4 DEF IInv

-----------------------------------------------------------------------------
\* Readers.

LEMMA PinStep ==
  ASSUME TypeOK, IInv, NEW t \in Threads, Pin(t)
  PROVE  IInv'
<1> USE DEF TypeOK, CacheTypes, ThreadTypes
<1>1. PinsCounted'
  <2>1. ASSUME NEW c \in Chunks PROVE pins'[c] = Cardinality(Pinners(c)')
    <3>1. CASE c = chunk[t]
      <4>1. Pinners(c)' = Pinners(c) \cup {t} /\ t \notin Pinners(c)
        BY <3>1 DEF Pin, Goto, Pinners, Pinning
      <4>2. Cardinality(Pinners(c)') = Cardinality(Pinners(c)) + 1
        <5>1. IsFiniteSet(Pinners(c)) /\ Cardinality(Pinners(c)) \in Nat
          BY ThreadsFinite
        <5> HIDE DEF TypeOK, CacheTypes, ThreadTypes
        <5> QED
          BY <4>1, <5>1, FS_AddElement
      <4> QED
        BY <3>1, <4>2 DEF Pin, IInv, PinsCounted
    <3>2. CASE c # chunk[t]
      <4>1. Pinners(c)' = Pinners(c)
        BY <3>2 DEF Pin, Goto, Pinners, Pinning
      <4> QED
        BY <3>2, <4>1 DEF Pin, IInv, PinsCounted
    <3> QED
      BY <3>1, <3>2
  <2> QED
    BY <2>1 DEF PinsCounted
<1>2. Hands'
  BY DEF Pin, Goto, IInv, Hands, BuffersOwned, BuffersAlone, SlotsHold, InHand, Loaded
<1>3. Turns'
  BY DEF Pin, Goto, IInv, Turns, LoadsOwned, LoadsAlone, DropsOwned, DropsAlone, SweepsSeen,
     InLoad, InDrop, InPeek
<1>4. Copies'
  BY DEF Pin, Goto, IInv, Copies, Draining
<1> QED
  BY <1>1, <1>2, <1>3, <1>4 DEF IInv

LEMMA LookStep ==
  ASSUME TypeOK, IInv, NEW t \in Threads, Look(t)
  PROVE  IInv'
<1> USE DEF TypeOK, CacheTypes, ThreadTypes
<1>0. /\ Only(t) /\ UNCHANGED <<slot, mem, pins, chunk>>
      /\ pc[t] = "look" /\ pc'[t] \in {"copy", "missed"}
  BY DEF Look, Goto, Only
<1>1. PinsCounted'
  BY <1>0, PinsKept DEF IInv, Pinning
<1>2. Hands'
  BY <1>0 DEF Only, IInv, Hands, BuffersOwned, BuffersAlone, SlotsHold, InHand, Loaded
<1>3. Turns'
  BY <1>0 DEF Only, IInv, Turns, LoadsOwned, LoadsAlone, DropsOwned, DropsAlone, SweepsSeen,
     InLoad, InDrop, InPeek
<1>4. Copies'
  <2>1. ASSUME NEW u \in Threads, u # t, pc'[u] = "copy"
        PROVE  /\ ptr'[u] \in Buffers /\ mem'[ptr'[u]] = chunk'[u]
               /\ slot'[chunk'[u]] = ptr'[u] \/ \E v \in Threads: Draining(u, v)'
    BY <1>0, <2>1 DEF Only, IInv, Copies, Draining
  <2>2. pc'[t] = "copy" =>
          /\ ptr'[t] \in Buffers /\ mem'[ptr'[t]] = chunk'[t]
          /\ slot'[chunk'[t]] = ptr'[t]
    BY DEF Look, Goto, Loaded, IInv, Hands, SlotsHold
  <2> QED
    BY <2>1, <2>2 DEF Copies
<1> QED
  BY <1>1, <1>2, <1>3, <1>4 DEF IInv

\* The copy, and a look for nothing, let go of the chunk.
LEMMA UnpinStep ==
  ASSUME TypeOK, IInv, NEW t \in Threads, Copied(t) \/ Missed(t)
  PROVE  IInv'
<1> USE DEF TypeOK, CacheTypes, ThreadTypes
<1>0. /\ Only(t) /\ UNCHANGED <<slot, mem>>
      /\ pc[t] \in {"copy", "missed"} /\ pc'[t] \in {"idle", "load"}
      /\ pins' = [pins EXCEPT ![chunk[t]] = @ - 1]
  BY DEF Copied, Missed, Over, Goto, Only
<1>1. PinsCounted'
  <2>1. ASSUME NEW c \in Chunks PROVE pins'[c] = Cardinality(Pinners(c)')
    <3>1. CASE c = chunk[t]
      <4>1. Pinners(c)' = Pinners(c) \ {t} /\ t \in Pinners(c)
        BY <1>0, <3>1 DEF Only, Pinners, Pinning
      <4>2. Cardinality(Pinners(c)') = Cardinality(Pinners(c)) - 1
        BY <4>1, ThreadsFinite, FS_RemoveElement
      <4> QED
        BY <1>0, <3>1, <4>2 DEF IInv, PinsCounted
    <3>2. CASE c # chunk[t]
      <4>1. Pinners(c)' = Pinners(c)
        BY <1>0, <3>2 DEF Only, Pinners, Pinning
      <4> QED
        BY <1>0, <3>2, <4>1 DEF IInv, PinsCounted
    <3> QED
      BY <3>1, <3>2
  <2> QED
    BY <2>1 DEF PinsCounted
<1>2. Hands'
  BY <1>0 DEF Only, IInv, Hands, BuffersOwned, BuffersAlone, SlotsHold, InHand, Loaded
<1>3. Turns'
  BY <1>0 DEF Only, IInv, Turns, LoadsOwned, LoadsAlone, DropsOwned, DropsAlone, SweepsSeen,
     InLoad, InDrop, InPeek
<1>4. Copies'
  BY <1>0 DEF Only, IInv, Copies, Draining
<1> QED
  BY <1>1, <1>2, <1>3, <1>4 DEF IInv

-----------------------------------------------------------------------------
\* Loads.

\* A free buffer is nobody's.
LEMMA TakeStep ==
  ASSUME TypeOK, IInv, NEW t \in Threads, Take(t), ~Full
  PROVE  IInv'
<1> USE DEF TypeOK, CacheTypes, ThreadTypes
<1>0. PICK b \in Buffers:
        /\ mem[b] = Free
        /\ mem' = [mem EXCEPT ![b] = Raw] /\ buf' = [buf EXCEPT ![t] = b]
        /\ pc' = [pc EXCEPT ![t] = "own"] /\ UNCHANGED <<chunk, sweep>>
  BY FirstFree
<1>1. UNCHANGED <<slot, pins, ptr>> /\ pc[t] \in {"room", "reserve", "take"} /\ Only(t)
  BY <1>0 DEF Take, Only
<1>2. PinsCounted'
  BY <1>0, <1>1, PinsKept DEF IInv, Pinning
<1>3. Hands'
  BY <1>0, <1>1, Values DEF Only, IInv, Hands, BuffersOwned, BuffersAlone, SlotsHold, InHand, Loaded
<1>4. Turns'
  BY <1>0, <1>1, Values DEF Only, IInv, Turns, LoadsOwned, LoadsAlone, DropsOwned, DropsAlone,
     SweepsSeen, InLoad, InDrop, InPeek
<1>5. Copies'
  BY <1>0, <1>1, Values DEF Only, IInv, Copies, Draining
<1> QED
  BY <1>2, <1>3, <1>4, <1>5 DEF IInv

\* A raw buffer is given back; with it, perhaps, a slot this thread was loading.
LEMMA GiveBackStep ==
  ASSUME TypeOK, IInv, NEW t \in Threads, Only(t), GiveBack(t), UNCHANGED pins,
         pc[t] \in {"own", "host", "short", "backoff"},
         pc'[t] \in {"idle", "pin", "load", "EAGAIN", "EIO", "ENOMEM"},
         \/ UNCHANGED slot /\ ~InLoad(t)
         \/ slot' = [slot EXCEPT ![chunk[t]] = Absent] /\ InLoad(t)
  PROVE  IInv'
<1> USE DEF TypeOK, CacheTypes, ThreadTypes
<1>0. mem[buf[t]] = Raw /\ buf[t] \in Buffers /\ mem' = [mem EXCEPT ![buf[t]] = Free]
  BY DEF GiveBack, IInv, Hands, BuffersOwned, InHand
<1>1. InLoad(t) => slot[chunk[t]] = Loading
  BY DEF IInv, Turns, LoadsOwned
<1>2. PinsCounted'
  BY PinsKept DEF IInv, Pinning
<1>3. Hands'
  <2>1. BuffersOwned' /\ BuffersAlone'
    BY <1>0 DEF Only, IInv, Hands, BuffersOwned, BuffersAlone, InHand
  <2>2. SlotsHold'
    BY <1>0, <1>1, Values DEF IInv, Hands, SlotsHold, Loaded
  <2> QED
    BY <2>1, <2>2 DEF Hands
<1>4. Turns'
  <2>1. LoadsOwned' /\ LoadsAlone'
    BY <1>1 DEF Only, IInv, Turns, LoadsOwned, LoadsAlone, InLoad
  <2>2. DropsOwned' /\ DropsAlone'
    BY <1>0, <1>1, Values DEF Only, IInv, Turns, DropsOwned, DropsAlone, InDrop
  <2>3. SweepsSeen'
    BY DEF Only, IInv, Turns, SweepsSeen, InPeek
  <2> QED
    BY <2>1, <2>2, <2>3 DEF Turns
<1>5. Copies'
  BY <1>0, <1>1, Values DEF Only, IInv, Copies, Draining
<1> QED
  BY <1>2, <1>3, <1>4, <1>5 DEF IInv

LEMMA OwnStep ==
  ASSUME TypeOK, IInv, NEW t \in Threads, Own(t)
  PROVE  IInv'
<1> USE DEF TypeOK, CacheTypes, ThreadTypes
<1>1. CASE slot[chunk[t]] # Absent
  <2>1. Only(t) /\ GiveBack(t) /\ UNCHANGED pins
    BY <1>1 DEF Own, GiveBack, Goto, Only
  <2>2. /\ pc[t] \in {"own", "host", "short", "backoff"}
        /\ pc'[t] \in {"idle", "pin", "load", "EAGAIN", "EIO", "ENOMEM"}
        /\ UNCHANGED slot /\ ~InLoad(t)
    BY <1>1 DEF Own, Goto, InLoad
  <2> QED
    BY <2>1, <2>2, GiveBackStep
<1>2. CASE slot[chunk[t]] = Absent
  <2>0. /\ Only(t) /\ UNCHANGED <<mem, pins, chunk, buf>>
        /\ pc[t] = "own" /\ pc'[t] = "host"
        /\ slot' = [slot EXCEPT ![chunk[t]] = Loading]
    BY <1>2 DEF Own, Goto, Only
  <2>1. PinsCounted'
    BY <2>0, PinsKept DEF IInv, Pinning
  <2>2. Hands'
    BY <2>0, Values DEF Only, IInv, Hands, BuffersOwned, BuffersAlone, SlotsHold, InHand, Loaded
  <2>3. Turns'
    BY <1>2, <2>0, Values DEF Only, IInv, Turns, LoadsOwned, LoadsAlone, DropsOwned, DropsAlone,
       SweepsSeen, InLoad, InDrop, InPeek
  <2>4. Copies'
    BY <1>2, <2>0, Values DEF Only, IInv, Copies, Draining
  <2> QED
    BY <2>1, <2>2, <2>3, <2>4 DEF IInv
<1> QED
  BY <1>1, <1>2

\* The bytes go into a buffer that nobody else has.
LEMMA HostReadStep ==
  ASSUME TypeOK, IInv, NEW t \in Threads, HostRead(t)
  PROVE  IInv'
<1> USE DEF TypeOK, CacheTypes, ThreadTypes
<1>1. CASE t # Kerneld /\ ~Handle(t)
  <2>1. Only(t) /\ GiveBack(t) /\ UNCHANGED pins
    BY <1>1 DEF HostRead, Unload, GiveBack, LoadReturns, Over, Goto, Only
  <2>2. /\ pc[t] \in {"own", "host", "short", "backoff"}
        /\ pc'[t] \in {"idle", "pin", "load", "EAGAIN", "EIO", "ENOMEM"}
        /\ slot' = [slot EXCEPT ![chunk[t]] = Absent] /\ InLoad(t)
    BY <1>1 DEF HostRead, Unload, LoadReturns, Over, Goto, InLoad
  <2> QED
    BY <2>1, <2>2, GiveBackStep
<1>2. CASE ~(t # Kerneld /\ ~Handle(t))
  <2>0. /\ Only(t) /\ UNCHANGED <<slot, pins, chunk, buf>> /\ pc[t] = "host"
        /\ \/ pc'[t] = "publish" /\ mem' = [mem EXCEPT ![buf[t]] = chunk[t]]
           \/ pc'[t] = "short" /\ UNCHANGED mem
    BY <1>2 DEF HostRead, Goto, Only
  <2>1. buf[t] \in Buffers /\ mem[buf[t]] = Raw
    BY <2>0 DEF IInv, Hands, BuffersOwned, InHand
  <2>2. PinsCounted'
    BY <2>0, PinsKept DEF IInv, Pinning
  <2>3. Hands'
    BY <2>0, <2>1, Values DEF Only, IInv, Hands, BuffersOwned, BuffersAlone, SlotsHold, InHand, Loaded
  <2>4. Turns'
    BY <2>0, <2>1, Values DEF Only, IInv, Turns, LoadsOwned, LoadsAlone, DropsOwned, DropsAlone,
       SweepsSeen, InLoad, InDrop, InPeek
  <2>5. Copies'
    BY <2>0, <2>1, Values DEF Only, IInv, Copies, Draining
  <2> QED
    BY <2>2, <2>3, <2>4, <2>5 DEF IInv
<1> QED
  BY <1>1, <1>2

LEMMA ShortStep ==
  ASSUME TypeOK, IInv, NEW t \in Threads, Short(t)
  PROVE  IInv'
<1> USE DEF TypeOK, CacheTypes, ThreadTypes
<1>1. CASE ~(arrival = "arriving" /\ t # Kerneld)
  <2>1. Only(t) /\ GiveBack(t) /\ UNCHANGED pins
    BY <1>1 DEF Short, Unload, GiveBack, LoadReturns, Over, Goto, Only
  <2>2. /\ pc[t] \in {"own", "host", "short", "backoff"}
        /\ pc'[t] \in {"idle", "pin", "load", "EAGAIN", "EIO", "ENOMEM"}
        /\ slot' = [slot EXCEPT ![chunk[t]] = Absent] /\ InLoad(t)
    BY <1>1 DEF Short, Unload, LoadReturns, Over, Goto, InLoad
  <2> QED
    BY <2>1, <2>2, GiveBackStep
<1>2. CASE arrival = "arriving" /\ t # Kerneld
  <2>0. /\ Only(t) /\ UNCHANGED <<mem, pins, chunk, buf>>
        /\ pc[t] = "short" /\ pc'[t] = "backoff"
        /\ slot' = [slot EXCEPT ![chunk[t]] = Absent]
    BY <1>2 DEF Short, Goto, Only
  <2>1. slot[chunk[t]] = Loading
    BY <2>0 DEF IInv, Turns, LoadsOwned, InLoad
  <2>2. PinsCounted'
    BY <2>0, PinsKept DEF IInv, Pinning
  <2>3. Hands'
    BY <2>0, Values DEF Only, IInv, Hands, BuffersOwned, BuffersAlone, SlotsHold, InHand, Loaded
  <2>4. Turns'
    BY <2>0, <2>1, Values DEF Only, IInv, Turns, LoadsOwned, LoadsAlone, DropsOwned, DropsAlone,
       SweepsSeen, InLoad, InDrop, InPeek
  <2>5. Copies'
    BY <2>0, <2>1, Values DEF Only, IInv, Copies, Draining
  <2> QED
    BY <2>2, <2>3, <2>4, <2>5 DEF IInv
<1> QED
  BY <1>1, <1>2

\* The slot has the buffer now, and the thread no longer.
LEMMA PublishStep ==
  ASSUME TypeOK, IInv, NEW t \in Threads, Publish(t)
  PROVE  IInv'
<1> USE DEF TypeOK, CacheTypes, ThreadTypes
<1>0. /\ Only(t) /\ UNCHANGED <<mem, pins, chunk>>
      /\ pc[t] = "publish" /\ pc'[t] = "count"
      /\ slot' = [slot EXCEPT ![chunk[t]] = buf[t]]
  BY DEF Publish, Goto, Only
<1>1. slot[chunk[t]] = Loading /\ buf[t] \in Buffers /\ mem[buf[t]] = chunk[t]
  BY <1>0 DEF IInv, Hands, Turns, BuffersOwned, LoadsOwned, InHand, InLoad
<1>2. PinsCounted'
  BY <1>0, PinsKept DEF IInv, Pinning
<1>3. Hands'
  BY <1>0, <1>1, Values DEF Only, IInv, Hands, BuffersOwned, BuffersAlone, SlotsHold, InHand, Loaded
<1>4. Turns'
  BY <1>0, <1>1, Values DEF Only, IInv, Turns, LoadsOwned, LoadsAlone, DropsOwned, DropsAlone,
     SweepsSeen, InLoad, InDrop, InPeek
<1>5. Copies'
  BY <1>0, <1>1, Values DEF Only, IInv, Copies, Draining
<1> QED
  BY <1>2, <1>3, <1>4, <1>5 DEF IInv

-----------------------------------------------------------------------------
\* Sweeps.

\* The address in the slot is the one the sweep saw: it holds the victim.
LEMMA ClaimStep ==
  ASSUME TypeOK, IInv, NEW t \in Threads, Claim(t)
  PROVE  IInv'
<1> USE DEF TypeOK, CacheTypes, ThreadTypes
<1>1. CASE slot[victim[t]] # ptr[t]
  BY <1>1, QuietStep DEF Claim, Spare, Goto, Only, Busy, InPeek
<1>2. CASE slot[victim[t]] = ptr[t]
  <2>0. /\ Only(t) /\ UNCHANGED <<mem, pins, chunk, ptr, victim>>
        /\ pc[t] = "claim" /\ pc'[t] = "drain"
        /\ slot' = [slot EXCEPT ![victim[t]] = Evicting]
    BY <1>2 DEF Claim, Goto, Only
  <2>1. ptr[t] \in Buffers /\ mem[ptr[t]] = victim[t]
    BY <1>2, <2>0 DEF IInv, Hands, Turns, SlotsHold, SweepsSeen, InPeek, Loaded
  <2>2. PinsCounted'
    BY <2>0, PinsKept DEF IInv, Pinning
  <2>3. Hands'
    BY <2>0, Values DEF Only, IInv, Hands, BuffersOwned, BuffersAlone, SlotsHold, InHand, Loaded
  <2>4. Turns'
    BY <1>2, <2>0, <2>1, Values DEF Only, IInv, Turns, LoadsOwned, LoadsAlone, DropsOwned, DropsAlone,
       SweepsSeen, InLoad, InDrop, InPeek
  <2>5. Copies'
    BY <1>2, <2>0, <2>1, Values DEF Only, IInv, Copies, Draining
  <2> QED
    BY <2>2, <2>3, <2>4, <2>5 DEF IInv
<1> QED
  BY <1>1, <1>2

\* Nobody pins the victim, or it goes back into its slot.
LEMMA DrainStep ==
  ASSUME TypeOK, IInv, NEW t \in Threads, Drain(t)
  PROVE  IInv'
<1> USE DEF TypeOK, CacheTypes, ThreadTypes
<1>0. /\ Only(t) /\ UNCHANGED <<mem, pins, chunk, victim>> /\ pc[t] = "drain"
      /\ slot[victim[t]] = Evicting /\ ptr[t] \in Buffers /\ mem[ptr[t]] = victim[t]
  BY DEF Drain, Spare, Goto, Only, IInv, Turns, DropsOwned, InDrop
<1>1. CASE pins[victim[t]] = 0
  <2>0. UNCHANGED <<slot, ptr>> /\ pc'[t] = "drop"
    BY <1>1 DEF Drain, Goto
  <2>1. PinsCounted'
    BY <1>0, <2>0, PinsKept DEF IInv, Pinning
  <2>2. Hands'
    BY <1>0, <2>0 DEF Only, IInv, Hands, BuffersOwned, BuffersAlone, SlotsHold, InHand, Loaded
  <2>3. Turns'
    BY <1>0, <2>0 DEF Only, IInv, Turns, LoadsOwned, LoadsAlone, DropsOwned, DropsAlone,
       SweepsSeen, InLoad, InDrop, InPeek
  <2>4. \A u \in Threads: pc[u] = "copy" => chunk[u] # victim[t]
    BY <1>1, PinnedPositive DEF IInv, Pinning
  <2>5. Copies'
    BY <1>0, <2>0, <2>4 DEF Only, IInv, Copies, Draining
  <2> QED
    BY <2>1, <2>2, <2>3, <2>5 DEF IInv
<1>2. CASE pins[victim[t]] # 0
  <2>0. slot' = [slot EXCEPT ![victim[t]] = ptr[t]] /\ pc'[t] = "sweep"
    BY <1>2 DEF Drain, Spare, Goto
  <2>1. PinsCounted'
    BY <1>0, <2>0, PinsKept DEF IInv, Pinning
  <2>2. Hands'
    BY <1>0, <2>0, Values DEF Only, IInv, Hands, BuffersOwned, BuffersAlone, SlotsHold, InHand, Loaded
  <2>3. Turns'
    BY <1>0, <2>0, Values DEF Only, IInv, Turns, LoadsOwned, LoadsAlone, DropsOwned, DropsAlone,
       SweepsSeen, InLoad, InDrop, InPeek
  <2>4. Copies'
    BY <1>0, <2>0, Values DEF Only, IInv, Copies, Draining
  <2> QED
    BY <2>1, <2>2, <2>3, <2>4 DEF IInv
<1> QED
  BY <1>1, <1>2

\* The victim's buffer is freed: no slot, no other thread and no reader has it.
LEMMA DropStep ==
  ASSUME TypeOK, IInv, NEW t \in Threads, Drop(t)
  PROVE  IInv'
<1> USE DEF TypeOK, CacheTypes, ThreadTypes
<1>0. /\ Only(t) /\ UNCHANGED <<pins, chunk, buf, victim>>
      /\ pc[t] = "drop" /\ pc'[t] = "deduct"
      /\ mem' = [mem EXCEPT ![ptr[t]] = Free]
      /\ slot' = [slot EXCEPT ![victim[t]] = Absent]
  BY DEF Drop, Goto, Only
<1>1. slot[victim[t]] = Evicting /\ ptr[t] \in Buffers /\ mem[ptr[t]] = victim[t]
  BY <1>0 DEF IInv, Turns, DropsOwned, InDrop
<1>2. PinsCounted'
  BY <1>0, PinsKept DEF IInv, Pinning
<1>3. Hands'
  <2>1. ASSUME NEW u \in Threads, InHand(u) PROVE buf[u] # ptr[t]
    BY <1>1, <2>1, Values DEF IInv, Hands, Turns, BuffersOwned, LoadsOwned, InHand, InLoad
  <2>2. BuffersOwned' /\ BuffersAlone'
    BY <1>0, <1>1, <2>1 DEF Only, IInv, Hands, BuffersOwned, BuffersAlone, InHand
  <2>3. SlotsHold'
    BY <1>0, <1>1, Values DEF IInv, Hands, SlotsHold, Loaded
  <2> QED
    BY <2>2, <2>3 DEF Hands
<1>4. Turns'
  <2>1. ASSUME NEW u \in Threads, u # t, InDrop(u) PROVE ptr[u] # ptr[t] /\ victim[u] # victim[t]
    BY <1>0, <1>1, <2>1 DEF IInv, Turns, DropsOwned, DropsAlone, InDrop
  <2>2. LoadsOwned' /\ LoadsAlone'
    BY <1>0, <1>1 DEF Only, IInv, Turns, LoadsOwned, LoadsAlone, InLoad
  <2>3. DropsOwned' /\ DropsAlone'
    BY <1>0, <1>1, <2>1 DEF Only, IInv, Turns, DropsOwned, DropsAlone, InDrop
  <2>4. SweepsSeen'
    BY <1>0 DEF Only, IInv, Turns, SweepsSeen, InPeek
  <2> QED
    BY <2>2, <2>3, <2>4 DEF Turns
<1>5. Copies'
  <2>1. ASSUME NEW u \in Threads, pc[u] = "copy" PROVE chunk[u] # victim[t] /\ ptr[u] # ptr[t]
    BY <1>0, <1>1, <2>1, Values DEF IInv, Copies, Turns, DropsAlone, InDrop, Draining
  <2> QED
    BY <1>0, <1>1, <2>1 DEF Only, IInv, Copies, Draining
<1> QED
  BY <1>2, <1>3, <1>4, <1>5 DEF IInv

-----------------------------------------------------------------------------

\* What a thread does without a pin, a slot or a buffer.
LEMMA QuietActions ==
  ASSUME TypeOK, IInv, NEW t \in Threads,
         \/ Read(t) \/ Alloc(t) \/ Request(t) \/ Poll(t) \/ Fails(t)
         \/ Load(t) \/ (Take(t) /\ Full) \/ Count(t) \/ Sweep(t) \/ Peek(t) \/ Deduct(t)
  PROVE  IInv'
<1> USE DEF TypeOK, CacheTypes, ThreadTypes
<1>1. CASE Read(t) \/ Request(t) \/ Poll(t) \/ Fails(t)
  <2>1. /\ Only(t) /\ UNCHANGED <<slot, mem, pins>>
        /\ pc[t] \notin Busy /\ pc'[t] \notin Busy /\ ~InPeek(t)'
    BY <1>1 DEF Read, Request, Poll, Fails, Over, Goto, Only, Busy, InPeek
  <2> QED
    BY <2>1, QuietStep
<1>2. CASE Alloc(t) \/ Load(t) \/ (Take(t) /\ Full) \/ Count(t)
  <2>1. /\ Only(t) /\ UNCHANGED <<slot, mem, pins>>
        /\ pc[t] \notin Busy /\ pc'[t] \notin Busy /\ ~InPeek(t)'
    BY <1>2 DEF Alloc, Load, Take, Count, Evict, LoadReturns, Over, Goto, Only, Busy, InPeek
  <2> QED
    BY <2>1, QuietStep
<1>3. CASE Sweep(t) \/ Peek(t) \/ Deduct(t)
  <2>1. Only(t) /\ UNCHANGED <<slot, mem, pins>> /\ pc[t] \notin Busy /\ pc'[t] \notin Busy
    BY <1>3 DEF Sweep, Peek, Deduct, Spare, Goto, Only, Busy
  <2>2. InPeek(t)' => ptr'[t] \in Buffers
    BY <1>3 DEF Sweep, Peek, Deduct, Spare, Goto, Loaded, InPeek, IInv, Turns, SweepsSeen
  <2> QED
    BY <2>1, <2>2, QuietStep
<1> QED
  BY <1>1, <1>2, <1>3

\* kerneld starts with a fault where it had nothing; so does the page with a limit.
LEMMA HostActions ==
  ASSUME TypeOK, IInv,
         \/ SetLimit \/ Serves \/ ImageArrived \/ Arrive \/ Complete \/ DownloadFails
         \/ (\E t \in Threads: Kill(t)) \/ UNCHANGED vars
  PROVE  IInv'
<1> USE DEF TypeOK, CacheTypes, ThreadTypes
<1>1. UNCHANGED <<slot, mem, pins>>
  BY DEF SetLimit, Serves, Serve, SnapshotRead, ServeStash, ImageArrived, Arrive, Complete,
     DownloadFails, Kill, vars
<1>2. CASE SetLimit
  BY <1>1, <1>2, QuietStep DEF SetLimit, Evict, Goto, Only, Busy, InPeek, Threads
<1>3. CASE Serves
  <2>1. Only(Kerneld) /\ pc[Kerneld] = "idle" /\ pc'[Kerneld] \in {"idle", "load"}
    BY <1>3 DEF Serves, Serve, SnapshotRead, ServeStash, Awaits, Fault, Goto, Only, Threads
  <2> QED
    BY <1>1, <2>1, QuietStep DEF Busy, InPeek, Threads
<1>4. CASE \/ ImageArrived \/ Arrive \/ Complete \/ DownloadFails
           \/ (\E t \in Threads: Kill(t)) \/ UNCHANGED vars
  <2>1. UNCHANGED <<pc, chunk, ptr, buf, victim>>
    BY <1>4 DEF ImageArrived, Arrive, Complete, DownloadFails, Kill, vars
  <2> QED
    BY <1>1, <2>1 DEF IInv, PinsCounted, Pinners, Pinning, Hands, BuffersOwned, BuffersAlone,
       SlotsHold, InHand, Loaded, Turns, LoadsOwned, LoadsAlone, DropsOwned, DropsAlone,
       SweepsSeen, InLoad, InDrop, InPeek, Copies, Draining
<1> QED
  BY <1>2, <1>3, <1>4

LEMMA InvInit == Init => IInv
<1> SUFFICES ASSUME Init PROVE IInv
  OBVIOUS
<1>1. PinsCounted
  <2>1. \A c \in Chunks: Pinners(c) = {}
    BY DEF Init, Pinners, Pinning
  <2> QED
    BY <2>1, FS_EmptySet DEF Init, PinsCounted
<1>2. Hands
  BY Values DEF Init, Hands, BuffersOwned, BuffersAlone, SlotsHold, InHand, Loaded
<1>3. Turns
  BY DEF Init, Turns, LoadsOwned, LoadsAlone, DropsOwned, DropsAlone, SweepsSeen,
     InLoad, InDrop, InPeek
<1>4. Copies
  BY DEF Init, Copies
<1> QED
  BY <1>1, <1>2, <1>3, <1>4 DEF IInv

LEMMA InvStep == TypeOK /\ IInv /\ [Next]_vars => IInv'
<1> SUFFICES ASSUME TypeOK, IInv, [Next]_vars PROVE IInv'
  OBVIOUS
<1>1. ASSUME NEW t \in Threads, Reads(t) PROVE IInv'
  BY <1>1, PinStep, LookStep, UnpinStep, QuietActions DEF Reads
<1>2. ASSUME NEW t \in Threads, Backoff(t) PROVE IInv'
  <2>1. Only(t) /\ GiveBack(t) /\ UNCHANGED pins
    BY <1>2 DEF Backoff, GiveBack, Goto, TypeOK, ThreadTypes, Only
  <2>2. /\ pc[t] \in {"own", "host", "short", "backoff"}
        /\ pc'[t] \in {"idle", "pin", "load", "EAGAIN", "EIO", "ENOMEM"}
        /\ UNCHANGED slot /\ ~InLoad(t)
    BY <1>2 DEF Backoff, Goto, TypeOK, ThreadTypes, InLoad
  <2> QED
    BY <2>1, <2>2, GiveBackStep
<1>3. ASSUME NEW t \in Threads, Loads(t) PROVE IInv'
  BY <1>2, <1>3, TakeStep, OwnStep, HostReadStep, ShortStep, PublishStep, QuietActions DEF Loads
<1>4. ASSUME NEW t \in Threads, Evicts(t) PROVE IInv'
  BY <1>4, ClaimStep, DrainStep, DropStep, QuietActions DEF Evicts
<1> QED
  BY <1>1, <1>3, <1>4, QuietActions, HostActions DEF Next

\* What a reader copies is the chunk it asked for, whatever is loaded and dropped
\* meanwhile (image.rs, with_chunk and evict).
THEOREM ReadsSafe == Spec => []ReadsItsChunk
<1>1. IInv => ReadsItsChunk
  BY DEF IInv, Copies, ReadsItsChunk
<1> QED
  BY <1>1, InvInit, InvStep, TypeCorrect, PTL DEF Spec

-----------------------------------------------------------------------------
\* The books of the cache.

\* A slot that is being loaded, or dropped, has a thread at it.
Held ==
  \A c \in Chunks:
    /\ slot[c] = Loading => \E t \in Threads: InLoad(t) /\ chunk[t] = c
    /\ slot[c] = Evicting => \E t \in Threads: InDrop(t) /\ victim[t] = c

\* A thread remembers a buffer exactly while it has it in hand.
BuffersKept == \A t \in Threads: buf[t] # None <=> InHand(t)

AInv == Held /\ BuffersKept /\ NoBufferLost /\ BytesCounted

\* The threads that have a buffer, that have yet to deduct one, or to count one.
Holding == {t \in Threads: buf[t] # None \/ pc[t] \in {"drain", "drop"}}
Dropping == {t \in Threads: pc[t] \in {"drain", "drop", "deduct"}}
Counting == {t \in Threads: pc[t] = "count"}

Books ==
  /\ Cardinality(InUse) = Cardinality(Cached) + Cardinality(Holding)
  /\ bytes = Cardinality(Cached) + Cardinality(Dropping) - Cardinality(Counting)

LEMMA BooksAre == (NoBufferLost /\ BytesCounted) <=> Books
BY DEF NoBufferLost, BytesCounted, Books, Holding, Dropping, Counting

LEMMA BooksFinite ==
  /\ IsFiniteSet(InUse) /\ IsFiniteSet(Cached)
  /\ IsFiniteSet(Holding) /\ IsFiniteSet(Dropping) /\ IsFiniteSet(Counting)
  /\ Cardinality(InUse) \in Nat /\ Cardinality(Cached) \in Nat
  /\ Cardinality(Holding) \in Nat /\ Cardinality(Dropping) \in Nat /\ Cardinality(Counting) \in Nat
<1>1. IsFiniteSet(Buffers) /\ IsFiniteSet(Chunks)
  BY Sizes, FS_Interval DEF Buffers, Chunks
<1>2. InUse \subseteq Buffers /\ Cached \subseteq Chunks
  BY DEF InUse, Cached
<1>3. Holding \subseteq Threads /\ Dropping \subseteq Threads /\ Counting \subseteq Threads
  BY DEF Holding, Dropping, Counting
<1> QED
  BY <1>1, <1>2, <1>3, ThreadsFinite, FS_Subset, FS_CardinalityType

\* One more, one less.
LEMMA OneMore ==
  ASSUME NEW S, NEW T, NEW x, IsFiniteSet(S), x \notin S, T = S \cup {x}
  PROVE  Cardinality(T) = Cardinality(S) + 1
BY FS_AddElement

LEMMA OneLess ==
  ASSUME NEW S, NEW T, NEW x, IsFiniteSet(S), x \in S, T = S \ {x}
  PROVE  Cardinality(T) = Cardinality(S) - 1
BY FS_RemoveElement

\* Where a thread has a part in the books.
Entered == {"own", "host", "short", "backoff", "publish", "count", "drain", "drop", "deduct"}

LEMMA BooksQuiet ==
  ASSUME TypeOK, AInv, NEW t \in Threads, Only(t), UNCHANGED <<slot, mem, bytes>>,
         buf'[t] = buf[t], pc[t] \notin Entered, pc'[t] \notin Entered
  PROVE  AInv'
<1>1. Held'
  BY DEF AInv, Held, Only, InLoad, InDrop, Entered
<1>2. BuffersKept'
  BY DEF AInv, BuffersKept, Only, InHand, Entered
<1>3. InUse' = InUse /\ Cached' = Cached
  BY DEF InUse, Cached, Loaded
<1>4. Holding' = Holding /\ Dropping' = Dropping /\ Counting' = Counting
  BY DEF Holding, Dropping, Counting, Only, Entered
<1>5. Books'
  BY <1>3, <1>4, BooksAre DEF AInv, Books
<1>6. NoBufferLost' /\ BytesCounted'
  BY <1>5, BooksAre DEF Books, NoBufferLost, BytesCounted, Holding, Dropping, Counting
<1> QED
  BY <1>1, <1>2, <1>6 DEF AInv

LEMMA BooksInit == Init => AInv
<1> SUFFICES ASSUME Init PROVE AInv
  OBVIOUS
<1>1. Held /\ BuffersKept
  BY DEF Init, Held, BuffersKept, InHand
<1>2. InUse = {} /\ Cached = {} /\ Holding = {} /\ Dropping = {} /\ Counting = {}
  BY Values DEF Init, InUse, Cached, Loaded, Holding, Dropping, Counting
<1>3. Books
  BY <1>2, FS_EmptySet DEF Init, Books
<1> QED
  BY <1>1, <1>3, BooksAre DEF AInv

\* A free buffer is taken: one more in use, and one more thread has one.
LEMMA BooksTake ==
  ASSUME TypeOK, AInv, NEW t \in Threads, Take(t), ~Full
  PROVE  AInv'
<1>0. PICK b \in Buffers:
        /\ mem[b] = Free
        /\ mem' = [mem EXCEPT ![b] = Raw] /\ buf' = [buf EXCEPT ![t] = b]
        /\ pc' = [pc EXCEPT ![t] = "own"] /\ UNCHANGED <<chunk, sweep>>
  BY FirstFree
<1>1. UNCHANGED <<slot, bytes, ptr>> /\ pc[t] \in {"room", "reserve", "take"} /\ Only(t)
  BY <1>0 DEF Take, Only, TypeOK, ThreadTypes
<1>2. pc'[t] = "own" /\ buf'[t] = b /\ buf[t] = None /\ b # None
  BY <1>0, <1>1, Values DEF TypeOK, ThreadTypes, AInv, BuffersKept, InHand
<1>3. Held'
  BY <1>1, <1>2 DEF AInv, Held, Only, InLoad, InDrop
<1>4. BuffersKept'
  BY <1>1, <1>2 DEF AInv, BuffersKept, Only, InHand
<1>5. InUse' = InUse \cup {b} /\ b \notin InUse
  BY <1>0 DEF InUse, TypeOK, CacheTypes
<1>6. Holding' = Holding \cup {t} /\ t \notin Holding
  BY <1>1, <1>2 DEF Holding, Only
<1>7. Cached' = Cached /\ Dropping' = Dropping /\ Counting' = Counting
  BY <1>1, <1>2 DEF Cached, Loaded, Dropping, Counting, Only
<1>8. /\ Cardinality(InUse') = Cardinality(InUse) + 1
      /\ Cardinality(Holding') = Cardinality(Holding) + 1
  BY <1>5, <1>6, BooksFinite, OneMore
<1>9. Books'
  BY <1>1, <1>7, <1>8, BooksAre, BooksFinite DEF AInv, Books
<1> QED
  BY <1>3, <1>4, <1>9 DEF AInv, Books, NoBufferLost, BytesCounted, Holding, Dropping, Counting

\* A buffer is given back, and with it, perhaps, a slot.
LEMMA BooksGiveBack ==
  ASSUME TypeOK, IInv, AInv, NEW t \in Threads, Only(t), GiveBack(t), UNCHANGED bytes,
         pc[t] \in {"own", "host", "short", "backoff"},
         pc'[t] \in {"idle", "pin", "load", "EAGAIN", "EIO", "ENOMEM"},
         \/ UNCHANGED slot /\ ~InLoad(t)
         \/ slot' = [slot EXCEPT ![chunk[t]] = Absent] /\ InLoad(t)
  PROVE  AInv'
<1>0. /\ mem[buf[t]] = Raw /\ buf[t] \in Buffers /\ mem' = [mem EXCEPT ![buf[t]] = Free]
      /\ buf'[t] = None /\ buf[t] # None
  BY Values DEF GiveBack, IInv, Hands, BuffersOwned, InHand, TypeOK, ThreadTypes
<1>1. InLoad(t) => slot[chunk[t]] = Loading
  BY DEF IInv, Turns, LoadsOwned
<1>3. Held'
  BY <1>1 DEF TypeOK, CacheTypes, ThreadTypes, AInv, Held, Only, InLoad, InDrop
<1>4. BuffersKept'
  BY <1>0 DEF AInv, BuffersKept, Only, InHand
<1>5. InUse' = InUse \ {buf[t]} /\ buf[t] \in InUse
  BY <1>0 DEF InUse, TypeOK, CacheTypes
<1>6. Holding' = Holding \ {t} /\ t \in Holding
  BY <1>0 DEF Holding, Only
<1>7. Cached' = Cached /\ Dropping' = Dropping /\ Counting' = Counting
  <2>1. Cached' = Cached
    BY <1>1, Values DEF Cached, Loaded, TypeOK, CacheTypes, ThreadTypes
  <2> QED
    BY <2>1 DEF Dropping, Counting, Only
<1>8. /\ Cardinality(InUse') = Cardinality(InUse) - 1
      /\ Cardinality(Holding') = Cardinality(Holding) - 1
  BY <1>5, <1>6, BooksFinite, OneLess
<1>9. Books'
  BY <1>7, <1>8, BooksAre, BooksFinite DEF AInv, Books
<1> QED
  BY <1>3, <1>4, <1>9 DEF AInv, Books, NoBufferLost, BytesCounted, Holding, Dropping, Counting

\* A slot is taken for a load, filled, or let go before the buffer is: nothing
\* is gained or lost.
LEMMA BooksLoading ==
  ASSUME TypeOK, IInv, AInv, NEW t \in Threads, Only(t), UNCHANGED <<buf, chunk, bytes>>,
         \/ /\ pc[t] = "own" /\ pc'[t] = "host" /\ UNCHANGED mem
            /\ slot[chunk[t]] = Absent /\ slot' = [slot EXCEPT ![chunk[t]] = Loading]
         \/ /\ pc[t] = "host" /\ UNCHANGED slot
            /\ \/ pc'[t] = "publish" /\ mem' = [mem EXCEPT ![buf[t]] = chunk[t]]
               \/ pc'[t] = "short" /\ UNCHANGED mem
         \/ /\ pc[t] = "short" /\ pc'[t] = "backoff" /\ UNCHANGED mem
            /\ slot' = [slot EXCEPT ![chunk[t]] = Absent]
  PROVE  AInv'
<1>0. buf[t] \in Buffers /\ mem[buf[t]] = Raw /\ (InLoad(t) => slot[chunk[t]] = Loading)
  BY DEF IInv, Hands, BuffersOwned, InHand, Turns, LoadsOwned
<1>3. Held'
  BY <1>0 DEF TypeOK, CacheTypes, ThreadTypes, AInv, Held, Only, InLoad, InDrop
<1>4. BuffersKept'
  BY <1>0 DEF AInv, BuffersKept, Only, InHand
<1>5. InUse' = InUse
  BY <1>0, Values DEF InUse, TypeOK, CacheTypes, ThreadTypes
<1>6. Cached' = Cached
  BY <1>0, Values DEF Cached, Loaded, TypeOK, CacheTypes, ThreadTypes, InLoad
<1>7. Holding' = Holding /\ Dropping' = Dropping /\ Counting' = Counting
  BY DEF Holding, Dropping, Counting, Only
<1>9. Books'
  BY <1>5, <1>6, <1>7, BooksAre DEF AInv, Books
<1> QED
  BY <1>3, <1>4, <1>9 DEF AInv, Books, NoBufferLost, BytesCounted, Holding, Dropping, Counting

\* The slot has the buffer, which is counted next.
LEMMA BooksPublish ==
  ASSUME TypeOK, IInv, AInv, NEW t \in Threads, Publish(t)
  PROVE  AInv'
<1>0. /\ Only(t) /\ UNCHANGED <<mem, bytes, chunk>>
      /\ pc[t] = "publish" /\ pc'[t] = "count" /\ buf'[t] = None
      /\ slot' = [slot EXCEPT ![chunk[t]] = buf[t]]
  BY DEF Publish, Goto, Only, TypeOK, ThreadTypes
<1>1. slot[chunk[t]] = Loading /\ buf[t] \in Buffers /\ chunk[t] \in Chunks
  BY <1>0 DEF IInv, Hands, Turns, BuffersOwned, LoadsOwned, InHand, InLoad, TypeOK, ThreadTypes
<1>3. Held'
  BY <1>0, <1>1, Values DEF TypeOK, CacheTypes, ThreadTypes, AInv, Held, Only, InLoad, InDrop
<1>4. BuffersKept'
  BY <1>0 DEF AInv, BuffersKept, Only, InHand
<1>5. Cached' = Cached \cup {chunk[t]} /\ chunk[t] \notin Cached
  BY <1>0, <1>1, Values DEF Cached, Loaded, TypeOK, CacheTypes, ThreadTypes
<1>6. /\ Holding' = Holding \ {t} /\ t \in Holding
      /\ Counting' = Counting \cup {t} /\ t \notin Counting
  BY <1>0, <1>1, Values DEF Holding, Counting, Only
<1>7. InUse' = InUse /\ Dropping' = Dropping
  BY <1>0 DEF InUse, Dropping, Only
<1>8. /\ Cardinality(Cached') = Cardinality(Cached) + 1
      /\ Cardinality(Holding') = Cardinality(Holding) - 1
      /\ Cardinality(Counting') = Cardinality(Counting) + 1
  BY <1>5, <1>6, BooksFinite, OneLess, OneMore
<1>9. Books'
  <2>1. bytes' = bytes /\ bytes \in Int /\ Books
    BY <1>0, BooksAre DEF AInv, TypeOK, CacheTypes
  <2> QED
    BY <2>1, <1>7, <1>8, BooksFinite DEF Books
<1> QED
  BY <1>3, <1>4, <1>9 DEF AInv, Books, NoBufferLost, BytesCounted, Holding, Dropping, Counting

\* The count follows what was loaded, or dropped.
LEMMA BooksCount ==
  ASSUME TypeOK, IInv, AInv, NEW t \in Threads, Count(t) \/ Deduct(t)
  PROVE  AInv'
<1>0. /\ Only(t) /\ UNCHANGED <<slot, mem, buf>>
      /\ \/ /\ pc[t] = "count" /\ pc'[t] \in {"idle", "pin"} /\ bytes' = bytes + 1
         \/ /\ pc[t] = "deduct" /\ pc'[t] = "sweep" /\ bytes' = bytes - 1
  BY DEF Count, Deduct, LoadReturns, Over, Goto, Only, TypeOK, ThreadTypes
<1>3. Held'
  BY <1>0 DEF AInv, Held, Only, InLoad, InDrop
<1>4. BuffersKept'
  BY <1>0 DEF AInv, BuffersKept, Only, InHand
<1>5. InUse' = InUse /\ Cached' = Cached /\ Holding' = Holding
  BY <1>0 DEF InUse, Cached, Loaded, Holding, Only
<1>6. CASE pc[t] = "count"
  <2>1. Counting' = Counting \ {t} /\ t \in Counting /\ Dropping' = Dropping
    BY <1>0, <1>6 DEF Counting, Dropping, Only
  <2>2. Cardinality(Counting') = Cardinality(Counting) - 1
    BY <2>1, BooksFinite, OneLess
  <2>3. Books'
    BY <1>0, <1>5, <1>6, <2>1, <2>2, BooksAre, BooksFinite DEF AInv, Books, TypeOK, CacheTypes
  <2> QED
    BY <1>3, <1>4, <2>3 DEF AInv, Books, NoBufferLost, BytesCounted, Holding, Dropping, Counting
<1>7. CASE pc[t] = "deduct"
  <2>1. Dropping' = Dropping \ {t} /\ t \in Dropping /\ Counting' = Counting
    BY <1>0, <1>7 DEF Counting, Dropping, Only
  <2>2. Cardinality(Dropping') = Cardinality(Dropping) - 1
    BY <2>1, BooksFinite, OneLess
  <2>3. Books'
    BY <1>0, <1>5, <1>7, <2>1, <2>2, BooksAre, BooksFinite DEF AInv, Books, TypeOK, CacheTypes
  <2> QED
    BY <1>3, <1>4, <2>3 DEF AInv, Books, NoBufferLost, BytesCounted, Holding, Dropping, Counting
<1> QED
  BY <1>0, <1>6, <1>7

\* A sweep takes a chunk out of its slot.
LEMMA BooksClaim ==
  ASSUME TypeOK, IInv, AInv, NEW t \in Threads, Claim(t), slot[victim[t]] = ptr[t]
  PROVE  AInv'
<1>0. /\ Only(t) /\ UNCHANGED <<mem, bytes, buf, chunk, victim>>
      /\ pc[t] = "claim" /\ pc'[t] = "drain"
      /\ slot' = [slot EXCEPT ![victim[t]] = Evicting]
  BY DEF Claim, Goto, Only, TypeOK, ThreadTypes
<1>1. slot[victim[t]] \in Buffers /\ victim[t] \in Chunks /\ buf[t] = None
  BY <1>0 DEF IInv, Turns, SweepsSeen, InPeek, AInv, BuffersKept, InHand, TypeOK, ThreadTypes
<1>3. Held'
  BY <1>0, <1>1, Values DEF TypeOK, CacheTypes, ThreadTypes, AInv, Held, Only, InLoad, InDrop
<1>4. BuffersKept'
  BY <1>0 DEF AInv, BuffersKept, Only, InHand
<1>5. Cached' = Cached \ {victim[t]} /\ victim[t] \in Cached
  BY <1>0, <1>1, Values DEF Cached, Loaded, TypeOK, CacheTypes, ThreadTypes
<1>6. /\ Holding' = Holding \cup {t} /\ t \notin Holding
      /\ Dropping' = Dropping \cup {t} /\ t \notin Dropping
  BY <1>0, <1>1 DEF Holding, Dropping, Only
<1>7. InUse' = InUse /\ Counting' = Counting
  BY <1>0 DEF InUse, Counting, Only
<1>8. /\ Cardinality(Cached') = Cardinality(Cached) - 1
      /\ Cardinality(Holding') = Cardinality(Holding) + 1
      /\ Cardinality(Dropping') = Cardinality(Dropping) + 1
  BY <1>5, <1>6, BooksFinite, OneLess, OneMore
<1>9. Books'
  <2>1. bytes' = bytes /\ bytes \in Int /\ Books
    BY <1>0, BooksAre DEF AInv, TypeOK, CacheTypes
  <2> QED
    BY <2>1, <1>7, <1>8, BooksFinite DEF Books
<1> QED
  BY <1>3, <1>4, <1>9 DEF AInv, Books, NoBufferLost, BytesCounted, Holding, Dropping, Counting

\* It goes on to drop it, or puts it back.
LEMMA BooksDrain ==
  ASSUME TypeOK, IInv, AInv, NEW t \in Threads, Drain(t)
  PROVE  AInv'
<1>0. /\ Only(t) /\ UNCHANGED <<mem, bytes, buf, chunk, victim>> /\ pc[t] = "drain"
      /\ slot[victim[t]] = Evicting /\ ptr[t] \in Buffers /\ victim[t] \in Chunks
      /\ buf[t] = None
  BY DEF Drain, Spare, Goto, Only, IInv, Turns, DropsOwned, InDrop, AInv, BuffersKept, InHand,
     TypeOK, ThreadTypes
<1>1. CASE pins[victim[t]] = 0
  <2>0. UNCHANGED slot /\ pc'[t] = "drop"
    BY <1>1 DEF Drain, Goto, TypeOK, ThreadTypes
  <2>1. Held' /\ BuffersKept'
    BY <1>0, <2>0 DEF AInv, Held, BuffersKept, Only, InHand, InLoad, InDrop
  <2>2. /\ InUse' = InUse /\ Cached' = Cached /\ Holding' = Holding
        /\ Dropping' = Dropping /\ Counting' = Counting
    BY <1>0, <2>0 DEF InUse, Cached, Loaded, Holding, Dropping, Counting, Only
  <2>3. Books'
    BY <1>0, <2>2, BooksAre DEF AInv, Books
  <2> QED
    BY <2>1, <2>3 DEF AInv, Books, NoBufferLost, BytesCounted, Holding, Dropping, Counting
<1>2. CASE pins[victim[t]] # 0
  <2>0. slot' = [slot EXCEPT ![victim[t]] = ptr[t]] /\ pc'[t] = "sweep"
    BY <1>2 DEF Drain, Spare, Goto, TypeOK, ThreadTypes
  <2>1. Held'
    BY <1>0, <2>0, Values DEF TypeOK, CacheTypes, ThreadTypes, AInv, Held, Only, InLoad, InDrop
  <2>2. BuffersKept'
    BY <1>0, <2>0 DEF AInv, BuffersKept, Only, InHand
  <2>3. Cached' = Cached \cup {victim[t]} /\ victim[t] \notin Cached
    BY <1>0, <2>0, Values DEF Cached, Loaded, TypeOK, CacheTypes, ThreadTypes
  <2>4. /\ Holding' = Holding \ {t} /\ t \in Holding
        /\ Dropping' = Dropping \ {t} /\ t \in Dropping
    BY <1>0, <2>0 DEF Holding, Dropping, Only
  <2>5. InUse' = InUse /\ Counting' = Counting
    BY <1>0, <2>0 DEF InUse, Counting, Only
  <2>6. /\ Cardinality(Cached') = Cardinality(Cached) + 1
        /\ Cardinality(Holding') = Cardinality(Holding) - 1
        /\ Cardinality(Dropping') = Cardinality(Dropping) - 1
    BY <2>3, <2>4, BooksFinite, OneLess, OneMore
  <2>7. Books'
    BY <1>0, <2>5, <2>6, BooksAre, BooksFinite DEF AInv, Books, TypeOK, CacheTypes
  <2> QED
    BY <2>1, <2>2, <2>7 DEF AInv, Books, NoBufferLost, BytesCounted, Holding, Dropping, Counting
<1> QED
  BY <1>1, <1>2

\* Its buffer is freed, which is deducted next.
LEMMA BooksDrop ==
  ASSUME TypeOK, IInv, AInv, NEW t \in Threads, Drop(t)
  PROVE  AInv'
<1>0. /\ Only(t) /\ UNCHANGED <<bytes, buf, chunk, victim>>
      /\ pc[t] = "drop" /\ pc'[t] = "deduct"
      /\ mem' = [mem EXCEPT ![ptr[t]] = Free]
      /\ slot' = [slot EXCEPT ![victim[t]] = Absent]
  BY DEF Drop, Goto, Only, TypeOK, ThreadTypes
<1>1. /\ slot[victim[t]] = Evicting /\ ptr[t] \in Buffers /\ mem[ptr[t]] = victim[t]
      /\ victim[t] \in Chunks /\ buf[t] = None
  BY <1>0 DEF IInv, Turns, DropsOwned, InDrop, AInv, BuffersKept, InHand, TypeOK, ThreadTypes
<1>3. Held'
  <2>1. \A u \in Threads: u # t /\ InDrop(u) => victim[u] # victim[t]
    BY <1>0 DEF IInv, Turns, DropsAlone, InDrop
  <2> QED
    BY <1>0, <1>1, <2>1, Values DEF TypeOK, CacheTypes, ThreadTypes, AInv, Held, Only, InLoad, InDrop
<1>4. BuffersKept'
  BY <1>0 DEF AInv, BuffersKept, Only, InHand
<1>5. InUse' = InUse \ {ptr[t]} /\ ptr[t] \in InUse
  BY <1>0, <1>1, Values DEF InUse, TypeOK, CacheTypes
<1>6. Holding' = Holding \ {t} /\ t \in Holding
  BY <1>0, <1>1 DEF Holding, Only
<1>7. Cached' = Cached /\ Dropping' = Dropping /\ Counting' = Counting
  <2>1. Cached' = Cached
    BY <1>0, <1>1, Values DEF Cached, Loaded, TypeOK, CacheTypes
  <2> QED
    BY <1>0, <2>1 DEF Dropping, Counting, Only
<1>8. /\ Cardinality(InUse') = Cardinality(InUse) - 1
      /\ Cardinality(Holding') = Cardinality(Holding) - 1
  BY <1>5, <1>6, BooksFinite, OneLess
<1>9. Books'
  BY <1>0, <1>7, <1>8, BooksAre, BooksFinite DEF AInv, Books
<1> QED
  BY <1>3, <1>4, <1>9 DEF AInv, Books, NoBufferLost, BytesCounted, Holding, Dropping, Counting

\* What a thread does without a slot or a buffer.
LEMMA BooksQuietActions ==
  ASSUME TypeOK, AInv, NEW t \in Threads,
         \/ Read(t) \/ Alloc(t) \/ Reads(t) \/ Load(t) \/ (Take(t) /\ Full)
         \/ Sweep(t) \/ Peek(t) \/ (Claim(t) /\ slot[victim[t]] # ptr[t])
  PROVE  AInv'
<1> USE DEF TypeOK, CacheTypes, ThreadTypes
<1>1. CASE Read(t) \/ Alloc(t) \/ Reads(t)
  <2>1. Only(t) /\ UNCHANGED <<slot, mem, bytes, buf>> /\ {pc[t], pc'[t]} \cap Entered = {}
    BY <1>1 DEF Read, Alloc, Reads, Pin, Look, Copied, Missed, Request, Poll, Fails, Over, Evict,
       Goto, Only, Entered
  <2> QED
    BY <2>1, BooksQuiet
<1>2. CASE Load(t) \/ (Take(t) /\ Full)
  <2>1. Only(t) /\ UNCHANGED <<slot, mem, bytes, buf>> /\ {pc[t], pc'[t]} \cap Entered = {}
    BY <1>2 DEF Load, Take, Evict, LoadReturns, Over, Goto, Only, Entered
  <2> QED
    BY <2>1, BooksQuiet
<1>3. CASE Sweep(t) \/ Peek(t) \/ (Claim(t) /\ slot[victim[t]] # ptr[t])
  <2>1. Only(t) /\ UNCHANGED <<slot, mem, bytes, buf>> /\ {pc[t], pc'[t]} \cap Entered = {}
    BY <1>3 DEF Sweep, Peek, Claim, Spare, Goto, Only, Entered
  <2> QED
    BY <2>1, BooksQuiet
<1> QED
  BY <1>1, <1>2, <1>3

\* The other threads, kerneld's loop and the download.
LEMMA BooksHostActions ==
  ASSUME TypeOK, AInv,
         \/ SetLimit \/ Serves \/ ImageArrived \/ Arrive \/ Complete \/ DownloadFails
         \/ (\E t \in Threads: Kill(t)) \/ UNCHANGED vars
  PROVE  AInv'
<1> USE DEF TypeOK, CacheTypes, ThreadTypes
<1>1. UNCHANGED <<slot, mem, bytes, buf, victim>> \/ SetLimit
  BY DEF Serves, Serve, SnapshotRead, ServeStash, ImageArrived, Arrive, Complete,
     DownloadFails, Kill, vars
<1>2. CASE SetLimit
  <2>1. Only(Page) /\ UNCHANGED <<slot, mem, bytes, buf>> /\ pc[Page] = "idle" /\ pc'[Page] = "sweep"
    BY <1>2 DEF SetLimit, Evict, Goto, Only, Threads
  <2> QED
    BY <2>1, BooksQuiet DEF Entered, Threads
<1>3. CASE Serves
  <2>1. Only(Kerneld) /\ pc[Kerneld] = "idle" /\ pc'[Kerneld] \in {"idle", "load"}
    BY <1>3 DEF Serves, Serve, SnapshotRead, ServeStash, Awaits, Fault, Goto, Only, Threads
  <2>2. UNCHANGED <<slot, mem, bytes, buf>>
    BY <1>3 DEF Serves, Serve, SnapshotRead, ServeStash
  <2> QED
    BY <2>1, <2>2, BooksQuiet DEF Entered, Threads
<1>4. CASE \/ ImageArrived \/ Arrive \/ Complete \/ DownloadFails
           \/ (\E t \in Threads: Kill(t)) \/ UNCHANGED vars
  <2>1. UNCHANGED <<slot, mem, bytes, pc, chunk, buf, victim>>
    BY <1>4 DEF ImageArrived, Arrive, Complete, DownloadFails, Kill, vars
  <2> QED
    BY <2>1 DEF AInv, Held, BuffersKept, NoBufferLost, BytesCounted, InLoad, InDrop, InHand,
       InUse, Cached, Loaded
<1> QED
  BY <1>2, <1>3, <1>4

\* A load gets its slot or gives its buffer back.
LEMMA BooksLoads ==
  ASSUME TypeOK, IInv, AInv, NEW t \in Threads, Own(t) \/ HostRead(t) \/ Short(t) \/ Backoff(t)
  PROVE  AInv'
<1> USE DEF TypeOK, CacheTypes, ThreadTypes
<1>0. Only(t)
  BY DEF Own, HostRead, Short, Backoff, Unload, GiveBack, LoadReturns, Over, Goto, Only
<1>1. CASE Own(t)
  <2>1. CASE slot[chunk[t]] = Absent
    <3>1. /\ pc[t] = "own" /\ pc'[t] = "host" /\ UNCHANGED <<mem, buf, chunk, bytes>>
          /\ slot' = [slot EXCEPT ![chunk[t]] = Loading]
      BY <1>1, <2>1 DEF Own, Goto
    <3> QED
      BY <1>0, <2>1, <3>1, BooksLoading
  <2>2. CASE slot[chunk[t]] # Absent
    <3>1. GiveBack(t) /\ UNCHANGED <<slot, bytes>> /\ pc[t] = "own" /\ pc'[t] = "load"
      BY <1>1, <2>2 DEF Own, Goto
    <3> QED
      BY <1>0, <3>1, BooksGiveBack DEF InLoad
  <2> QED
    BY <2>1, <2>2
<1>2. CASE HostRead(t)
  <2>1. CASE t # Kerneld /\ ~Handle(t)
    <3>1. /\ GiveBack(t) /\ UNCHANGED bytes /\ pc[t] = "host" /\ pc'[t] \in {"idle", "EAGAIN"}
          /\ slot' = [slot EXCEPT ![chunk[t]] = Absent]
      BY <1>2, <2>1 DEF HostRead, Unload, LoadReturns, Over, Goto
    <3> QED
      BY <1>0, <3>1, BooksGiveBack DEF InLoad
  <2>2. CASE ~(t # Kerneld /\ ~Handle(t))
    <3>1. /\ pc[t] = "host" /\ UNCHANGED <<slot, buf, chunk, bytes>>
          /\ \/ pc'[t] = "publish" /\ mem' = [mem EXCEPT ![buf[t]] = chunk[t]]
             \/ pc'[t] = "short" /\ UNCHANGED mem
      BY <1>2, <2>2 DEF HostRead, Goto
    <3> QED
      BY <1>0, <3>1, BooksLoading
  <2> QED
    BY <2>1, <2>2
<1>3. CASE Short(t)
  <2>1. CASE arrival = "arriving" /\ t # Kerneld
    <3>1. /\ pc[t] = "short" /\ pc'[t] = "backoff" /\ UNCHANGED <<mem, buf, chunk, bytes>>
          /\ slot' = [slot EXCEPT ![chunk[t]] = Absent]
      BY <1>3, <2>1 DEF Short, Goto
    <3> QED
      BY <1>0, <3>1, BooksLoading
  <2>2. CASE ~(arrival = "arriving" /\ t # Kerneld)
    <3>1. /\ GiveBack(t) /\ UNCHANGED bytes /\ pc[t] = "short" /\ pc'[t] \in {"idle", "EAGAIN", "EIO"}
          /\ slot' = [slot EXCEPT ![chunk[t]] = Absent]
      BY <1>3, <2>2 DEF Short, Unload, LoadReturns, Over, Goto
    <3> QED
      BY <1>0, <3>1, BooksGiveBack DEF InLoad
  <2> QED
    BY <2>1, <2>2
<1>4. CASE Backoff(t)
  <2>1. GiveBack(t) /\ UNCHANGED <<slot, bytes>> /\ pc[t] = "backoff" /\ pc'[t] = "load"
    BY <1>4 DEF Backoff, Goto
  <2> QED
    BY <1>0, <2>1, BooksGiveBack DEF InLoad
<1> QED
  BY <1>1, <1>2, <1>3, <1>4

LEMMA BooksStep == TypeOK /\ IInv /\ AInv /\ [Next]_vars => AInv'
<1> SUFFICES ASSUME TypeOK, IInv, AInv, [Next]_vars PROVE AInv'
  OBVIOUS
<1>1. ASSUME NEW t \in Threads, Loads(t) PROVE AInv'
  BY <1>1, BooksTake, BooksLoads, BooksPublish, BooksCount, BooksQuietActions DEF Loads
<1>2. ASSUME NEW t \in Threads, Evicts(t) PROVE AInv'
  BY <1>2, BooksClaim, BooksDrain, BooksDrop, BooksCount, BooksQuietActions DEF Evicts
<1> QED
  BY <1>1, <1>2, BooksQuietActions, BooksHostActions DEF Next

\* Whoever is at a slot is alone there.
LEMMA HoldersAlone == IInv /\ AInv => OneHolder
<1> SUFFICES ASSUME IInv, AInv, NEW c \in Chunks
             PROVE  /\ slot[c] = Loading => Cardinality(LoadingOf(c)) = 1
                    /\ slot[c] # Loading => LoadingOf(c) = {}
                    /\ slot[c] = Evicting => Cardinality(EvictingOf(c)) = 1
                    /\ slot[c] # Evicting => EvictingOf(c) = {}
  BY DEF OneHolder
<1>1. /\ slot[c] # Loading => LoadingOf(c) = {}
      /\ slot[c] # Evicting => EvictingOf(c) = {}
  BY DEF IInv, Turns, LoadsOwned, DropsOwned, InLoad, InDrop, LoadingOf, EvictingOf
<1>2. ASSUME slot[c] = Loading PROVE Cardinality(LoadingOf(c)) = 1
  <2>1. PICK t \in Threads: InLoad(t) /\ chunk[t] = c
    BY <1>2 DEF AInv, Held
  <2>2. LoadingOf(c) = {t}
    BY <2>1 DEF IInv, Turns, LoadsAlone, InLoad, LoadingOf
  <2> QED
    BY <2>2, FS_Singleton
<1>3. ASSUME slot[c] = Evicting PROVE Cardinality(EvictingOf(c)) = 1
  <2>1. PICK t \in Threads: InDrop(t) /\ victim[t] = c
    BY <1>3 DEF AInv, Held
  <2>2. EvictingOf(c) = {t}
    BY <2>1 DEF IInv, Turns, DropsAlone, InDrop, EvictingOf
  <2> QED
    BY <2>2, FS_Singleton
<1> QED
  BY <1>1, <1>2, <1>3

\* No slot has two holders or none, no buffer is lost, and the count does not
\* drift, with any number of loads and sweeps at once (image.rs, load and evict).
THEOREM AccountedCorrect == Spec => []Accounted
<1>1. IInv /\ AInv => Accounted
  BY HoldersAlone DEF AInv, Accounted
<1>2. Spec => [](IInv /\ AInv)
  BY InvInit, InvStep, BooksInit, BooksStep, TypeCorrect, PTL DEF Spec
<1> QED
  BY <1>1, <1>2, PTL
=============================================================================
