----------------------------- MODULE ImageCache -----------------------------
(***************************************************************************)
(* The chunk cache of an image (crates/bat-kernel/src/image.rs), with what *)
(* kerneld does for threads that cannot read the image themselves          *)
(* (runtime/src/kernel/kerneld.ts) and the download the image may still be *)
(* arriving by.                                                            *)
(*                                                                         *)
(* No lock protects a slot.  A reader pins the chunk, looks, copies, and   *)
(* lets go; whoever is about to load a chunk beyond the limit sweeps       *)
(* first, and drops what nobody pins.  A buffer that was given back is     *)
(* soon another chunk's.  One action is one access to shared memory, or    *)
(* several that no other thread can tell apart.                            *)
(*                                                                         *)
(* There is one image.  The hand of the clock, which every sweep moves, is *)
(* anywhere.  Every wait ends by its own timeout (10, 50 or 100 ms), so    *)
(* that wake-ups matter for speed only and are left out.  With `snapshots' *)
(* the file has one handle, its writer's, while it arrives (WebKit), and   *)
(* kerneld reads snapshots of it.  Reads of the file that fail are left    *)
(* out.                                                                    *)
(***************************************************************************)
EXTENDS Integers, Sequences, SequencesExt, FiniteSets

CONSTANTS
  Workers, Page, Kerneld,
  N,              \* chunks of the image
  Memory,         \* buffers the kernel memory has room for
  Limits,         \* of the cache, in chunks
  Rounds,         \* of the clock in a sweep
  Patience,       \* looks before a reader gives up
  MaxOps,         \* bound: reads, and sweeps for other reasons; one of an image
                  \* that is arriving, or of a browser with one handle, is the last
  MaxKills        \* bound; none while more reads are to come

Threads == Workers \cup {Page, Kerneld}
Chunks == 1..N
Buffers == 1..Memory

\* A slot is one of these or a buffer; a buffer is free, has nothing in it yet,
\* or has the bytes of a chunk.
Absent == 0
Loading == -1
Evicting == -2
None == 0
Free == -1
Raw == 0

ASSUME ImageCacheAssumption ==
  /\ N \in Nat \ {0} /\ {Memory, Rounds, Patience, MaxOps, MaxKills} \subseteq Nat
  /\ Limits \subseteq Nat
  /\ Page # Kerneld /\ Page \notin Workers /\ Kerneld \notin Workers
  /\ IsFiniteSet(Workers)

VARIABLES
  slot, pins, used,       \* by chunk: slots; the two parts of meta
  mem,                    \* by buffer
  bytes, limit,           \* CACHE_BYTES and CACHE_LIMIT, in chunks
  pc,
  chunk, ptr,             \* the chunk a thread is after, the address it read
  buf,                    \* the buffer it loads into
  goal, rounds, victim,   \* its sweep
  back,                   \* and where that returns to
  waited,
  killed,
  sup,                    \* Work::Fault in the supervisor's queue
  arrived, arrival,       \* chunks in the file; ARRIVAL
  snapshots, handed,      \* no handle but the writer's; kerneld has one
  snap,                   \* by chunk: a snapshot is being read (pending), and
                          \* how much was in the file when it was taken
  stash, serving, todo,   \* a snapshot read, the request it answers, the
                          \* chunks still to be loaded from it
  ops

slots == <<slot, pins, used>>
memory == <<mem, bytes, limit>>
reader == <<chunk, ptr, waited>>
sweep == <<goal, rounds, victim, back>>
download == <<arrived, arrival>>
fetching == <<handed, snap, stash, serving, todo>>
vars == <<slots, memory, pc, reader, buf, sweep, killed, sup, download,
          snapshots, fetching, ops>>

Goto(t, l) == pc' = [pc EXCEPT ![t] = l]
Plain == arrival = "complete" /\ ~snapshots
Begin == ops < MaxOps /\ ops' = IF Plain THEN ops + 1 ELSE MaxOps
CanBlock(t) == t # Page
Alive(t) == t \notin killed
Loaded(c) == slot[c] \in Buffers

Init ==
  /\ slot = [c \in Chunks |-> Absent] /\ pins = [c \in Chunks |-> 0]
  /\ used = [c \in Chunks |-> FALSE]
  /\ mem = [b \in Buffers |-> Free] /\ bytes = 0 /\ limit \in Limits
  /\ pc = [t \in Threads |-> "idle"]
  /\ chunk = [t \in Threads |-> 1] /\ ptr = [t \in Threads |-> None]
  /\ buf = [t \in Threads |-> None]
  /\ goal = [t \in Threads |-> 0] /\ rounds = [t \in Threads |-> 0]
  /\ victim = [t \in Threads |-> 1] /\ back = [t \in Threads |-> "idle"]
  /\ waited = [t \in Threads |-> 0]
  /\ killed = {} /\ sup = <<>>
  /\ arrived \in 0..N /\ snapshots \in BOOLEAN
  /\ arrival = IF arrived = N /\ ~snapshots THEN "complete" ELSE "arriving"
  /\ handed = ~snapshots
  /\ snap = [c \in Chunks |-> None] /\ stash = {} /\ serving = None /\ todo = <<>>
  /\ ops = 0

-----------------------------------------------------------------------------
\* with_chunk: pin, look, copy, let go; otherwise have the chunk loaded, again.

\* A read of one chunk: read_at, from a worker or the page (kernel.retrying).
Read(t) ==
  /\ t # Kerneld /\ Alive(t) /\ pc[t] = "idle" /\ Begin
  /\ \E c \in Chunks: chunk' = [chunk EXCEPT ![t] = c]
  /\ Goto(t, "pin")
  /\ UNCHANGED <<slots, memory, ptr, waited, buf, sweep, killed, sup, download, snapshots, fetching>>

Pin(t) ==
  /\ Alive(t) /\ pc[t] = "pin"
  /\ pins' = [pins EXCEPT ![chunk[t]] = @ + 1]
  /\ Goto(t, "look")
  /\ UNCHANGED <<slot, used, memory, reader, buf, sweep, killed, sup, download, snapshots, fetching, ops>>

Look(t) ==
  /\ Alive(t) /\ pc[t] = "look"
  /\ IF Loaded(chunk[t])
     THEN ptr' = [ptr EXCEPT ![t] = slot[chunk[t]]] /\ Goto(t, "copy")
     ELSE Goto(t, "missed") /\ UNCHANGED ptr
  /\ UNCHANGED <<slots, memory, chunk, waited, buf, sweep, killed, sup, download, snapshots, fetching, ops>>

\* A read, or a fault that kerneld serves, is over.
Over(t) == Goto(t, "idle") /\ chunk' = [chunk EXCEPT ![t] = 1]

\* The copy has ended: the chunk is marked and let go.
Copied(t) ==
  /\ Alive(t) /\ pc[t] = "copy"
  /\ used' = [used EXCEPT ![chunk[t]] = TRUE]
  /\ pins' = [pins EXCEPT ![chunk[t]] = @ - 1]
  /\ ptr' = [ptr EXCEPT ![t] = None]
  /\ Over(t)
  /\ UNCHANGED <<slot, memory, waited, buf, sweep, killed, sup, download, snapshots, fetching, ops>>

\* It is not there: let go, and have it loaded.
Missed(t) ==
  /\ Alive(t) /\ pc[t] = "missed"
  /\ pins' = [pins EXCEPT ![chunk[t]] = @ - 1]
  /\ Goto(t, "load")
  /\ UNCHANGED <<slot, used, memory, reader, buf, sweep, killed, sup, download, snapshots, fetching, ops>>

\* Where load returns to: kerneld's bat_image_fault is over in any case, a
\* reader looks again, asks kerneld, or fails.
LoadReturns(t, r) ==
  IF t = Kerneld THEN Over(t)
  ELSE Goto(t, IF r = "ok" THEN "pin" ELSE r) /\ UNCHANGED chunk

\* A read that failed.
Fails(t) ==
  /\ Alive(t) /\ pc[t] \in {"EIO", "ENOMEM"}
  /\ Over(t)
  /\ UNCHANGED <<slots, memory, ptr, waited, buf, sweep, killed, sup, download, snapshots, fetching, ops>>

\* Ask the supervisor.  The page gives up with EAGAIN, and comes again.
Request(t) ==
  /\ Alive(t) /\ pc[t] \in {"EAGAIN", "ask"}
  /\ sup' = IF Contains(sup, chunk[t]) THEN sup ELSE Append(sup, chunk[t])
  /\ Goto(t, IF CanBlock(t) THEN "poll" ELSE "pin")
  /\ UNCHANGED <<slots, memory, reader, buf, sweep, killed, download, snapshots, fetching, ops>>

\* One round of the wait.  Above Patience waited counts on, here by its parity.
Poll(t) ==
  /\ Alive(t) /\ pc[t] = "poll"
  /\ IF Loaded(chunk[t]) \/ (arrival # "arriving" /\ waited[t] > Patience)
     THEN /\ Goto(t, IF Loaded(chunk[t]) THEN "pin" ELSE "EIO")
          /\ waited' = [waited EXCEPT ![t] = 0]
     ELSE /\ IF waited[t] % 2 = 1 /\ (arrival = "arriving" \/ slot[chunk[t]] = Absent)
             THEN Goto(t, "ask") ELSE UNCHANGED pc
          /\ waited' = [waited EXCEPT ![t] = IF @ > Patience + 1 THEN @ - 1 ELSE @ + 1]
  /\ UNCHANGED <<slots, memory, chunk, ptr, buf, sweep, killed, sup, download, snapshots, fetching, ops>>

-----------------------------------------------------------------------------
\* load: room first, then the slot, then the bytes.

Full == \A b \in Buffers: mem[b] # Free

\* evict(n) for a limit of g, and what comes behind it.
Evict(t, g, to) ==
  /\ goal' = [goal EXCEPT ![t] = g]
  /\ rounds' = [rounds EXCEPT ![t] = Rounds]
  /\ back' = [back EXCEPT ![t] = to]
  /\ Goto(t, "sweep")
  /\ UNCHANGED victim

\* A slot that is being loaded or dropped is waited for.
Load(t) ==
  /\ Alive(t) /\ pc[t] = "load"
  /\ IF slot[chunk[t]] = Absent
     THEN Evict(t, IF limit = 0 THEN 0 ELSE limit - 1, "room") /\ UNCHANGED chunk
     ELSE Loaded(chunk[t]) /\ LoadReturns(t, "ok") /\ UNCHANGED sweep
  /\ UNCHANGED <<slots, memory, ptr, waited, buf, killed, sup, download, snapshots, fetching, ops>>

\* A buffer.  The whole cache is dropped before the memory is said to be full,
\* once by load and once by mem::reserve.
Take(t) ==
  /\ Alive(t) /\ pc[t] \in {"room", "reserve", "take"}
  /\ IF ~Full
     THEN LET b == CHOOSE b \in Buffers: mem[b] = Free /\ \A d \in 1..b - 1: mem[d] # Free
          IN  /\ mem' = [mem EXCEPT ![b] = Raw]
              /\ buf' = [buf EXCEPT ![t] = b]
              /\ Goto(t, "own") /\ UNCHANGED <<chunk, sweep>>
     ELSE /\ IF pc[t] = "take" THEN LoadReturns(t, "ENOMEM") /\ UNCHANGED sweep
             ELSE Evict(t, 0, IF pc[t] = "room" THEN "reserve" ELSE "take") /\ UNCHANGED chunk
          /\ UNCHANGED <<mem, buf>>
  /\ UNCHANGED <<slots, bytes, limit, ptr, waited, killed, sup, download, snapshots, fetching, ops>>

GiveBack(t) ==
  /\ mem' = [mem EXCEPT ![buf[t]] = Free]
  /\ buf' = [buf EXCEPT ![t] = None]

Own(t) ==
  /\ Alive(t) /\ pc[t] = "own"
  /\ IF slot[chunk[t]] = Absent
     THEN /\ slot' = [slot EXCEPT ![chunk[t]] = Loading]
          /\ Goto(t, "host") /\ UNCHANGED <<mem, buf>>
     ELSE GiveBack(t) /\ Goto(t, "load") /\ UNCHANGED slot
  /\ UNCHANGED <<pins, used, bytes, limit, reader, sweep, killed, sup, download, snapshots, fetching, ops>>

\* The slot is let go, with nothing in it.
Unload(t, r) ==
  /\ slot' = [slot EXCEPT ![chunk[t]] = Absent]
  /\ GiveBack(t) /\ LoadReturns(t, r)

\* host_image_read, through the thread's handle or kerneld's stash: the bytes, no
\* handle, or fewer bytes.
Handle(t) == IF t = Kerneld THEN handed ELSE t # Page /\ ~snapshots

HostRead(t) ==
  /\ Alive(t) /\ pc[t] = "host"
  /\ IF t # Kerneld /\ ~Handle(t) THEN Unload(t, "EAGAIN")
     ELSE IF chunk[t] \in stash \/ (Handle(t) /\ chunk[t] <= arrived)
     THEN /\ mem' = [mem EXCEPT ![buf[t]] = chunk[t]]
          /\ Goto(t, "publish") /\ UNCHANGED <<slot, buf, chunk>>
     ELSE Goto(t, "short") /\ UNCHANGED <<slot, mem, buf, chunk>>
  /\ UNCHANGED <<pins, used, bytes, limit, ptr, waited, sweep, killed, sup, download, snapshots, fetching, ops>>

\* Mutant: the slot is left LOADING while the thread waits for the rest.
ShortKeeps(t) ==
  /\ Alive(t) /\ pc[t] = "short"
  /\ IF arrival = "arriving" /\ t # Kerneld
     THEN Goto(t, "backoff") /\ UNCHANGED <<slot, mem, buf, chunk>>
     ELSE Unload(t, IF arrival = "arriving" THEN "EAGAIN" ELSE "EIO")
  /\ UNCHANGED <<pins, used, bytes, limit, ptr, waited, sweep, killed, sup, download, snapshots, fetching, ops>>

\* Not there yet: let the slot go and, except in bat_image_fault, wait.
Short(t) ==
  /\ Alive(t) /\ pc[t] = "short"
  /\ IF arrival = "arriving" /\ t # Kerneld
     THEN /\ slot' = [slot EXCEPT ![chunk[t]] = Absent]
          /\ Goto(t, "backoff") /\ UNCHANGED <<mem, buf, chunk>>
     ELSE Unload(t, IF arrival = "arriving" THEN "EAGAIN" ELSE "EIO")
  /\ UNCHANGED <<pins, used, bytes, limit, ptr, waited, sweep, killed, sup, download, snapshots, fetching, ops>>

Backoff(t) ==
  /\ Alive(t) /\ pc[t] = "backoff"
  /\ GiveBack(t) /\ Goto(t, "load")
  /\ UNCHANGED <<slots, bytes, limit, reader, sweep, killed, sup, download, snapshots, fetching, ops>>

\* The chunk is marked before its address is there to be seen.
Publish(t) ==
  /\ Alive(t) /\ pc[t] = "publish"
  /\ used' = [used EXCEPT ![chunk[t]] = TRUE]
  /\ slot' = [slot EXCEPT ![chunk[t]] = buf[t]]
  /\ buf' = [buf EXCEPT ![t] = None]
  /\ Goto(t, "count")
  /\ UNCHANGED <<pins, memory, reader, sweep, killed, sup, download, snapshots, fetching, ops>>

Count(t) ==
  /\ Alive(t) /\ pc[t] = "count"
  /\ bytes' = bytes + 1
  /\ LoadReturns(t, "ok")
  /\ UNCHANGED <<slots, mem, limit, ptr, waited, buf, sweep, killed, sup, download, snapshots, fetching, ops>>

-----------------------------------------------------------------------------
\* evict

\* bat_image_cache_limit, from the page, and bat_alloc when the memory is full.
SetLimit ==
  /\ pc[Page] = "idle" /\ Begin
  /\ limit' \in Limits
  /\ Evict(Page, limit', "idle")
  /\ UNCHANGED <<slots, mem, bytes, reader, buf, killed, sup, download, snapshots, fetching>>

Alloc(t) ==
  /\ t # Kerneld /\ Alive(t) /\ pc[t] = "idle" /\ Begin /\ Full
  /\ Evict(t, 0, "idle")
  /\ UNCHANGED <<slots, memory, reader, buf, killed, sup, download, snapshots, fetching>>

\* One round.  The number of bytes is an unsigned one: below zero it is large.
Sweep(t) ==
  /\ Alive(t) /\ pc[t] = "sweep"
  /\ IF bytes \in 0..goal[t] \/ rounds[t] = 0
     THEN /\ Goto(t, back[t])
          /\ goal' = [goal EXCEPT ![t] = 0] /\ rounds' = [rounds EXCEPT ![t] = 0]
          /\ victim' = [victim EXCEPT ![t] = 1] /\ back' = [back EXCEPT ![t] = "idle"]
          /\ UNCHANGED ptr
     ELSE \E c \in Chunks:
            /\ rounds' = [rounds EXCEPT ![t] = @ - 1]
            /\ IF Loaded(c)
               THEN /\ victim' = [victim EXCEPT ![t] = c]
                    /\ ptr' = [ptr EXCEPT ![t] = slot[c]]
                    /\ Goto(t, "peek")
               ELSE UNCHANGED <<pc, ptr, victim>>
            /\ UNCHANGED <<goal, back>>
  /\ UNCHANGED <<slots, memory, chunk, waited, buf, killed, sup, download, snapshots, fetching, ops>>

Spare(t) == Goto(t, "sweep") /\ ptr' = [ptr EXCEPT ![t] = None]

\* A chunk that was read is spared once, one that is pinned always.
Peek(t) ==
  /\ Alive(t) /\ pc[t] = "peek"
  /\ used' = [used EXCEPT ![victim[t]] = FALSE]
  /\ IF used[victim[t]] \/ pins[victim[t]] > 0 THEN Spare(t) ELSE Goto(t, "claim") /\ UNCHANGED ptr
  /\ UNCHANGED <<slot, pins, memory, chunk, waited, buf, sweep, killed, sup, download, snapshots, fetching, ops>>

\* Mutant: the slot is stored and not compared.
ClaimBlindly(t) ==
  /\ Alive(t) /\ pc[t] = "claim"
  /\ slot' = [slot EXCEPT ![victim[t]] = Evicting] /\ Goto(t, "drain") /\ UNCHANGED ptr
  /\ UNCHANGED <<pins, used, memory, chunk, waited, buf, sweep, killed, sup, download, snapshots, fetching, ops>>

Claim(t) ==
  /\ Alive(t) /\ pc[t] = "claim"
  /\ IF slot[victim[t]] = ptr[t]
     THEN slot' = [slot EXCEPT ![victim[t]] = Evicting] /\ Goto(t, "drain") /\ UNCHANGED ptr
     ELSE Spare(t) /\ UNCHANGED slot
  /\ UNCHANGED <<pins, used, memory, chunk, waited, buf, sweep, killed, sup, download, snapshots, fetching, ops>>

\* Mutant: the pins are not looked at again.
DrainUnseen(t) ==
  /\ Alive(t) /\ pc[t] = "drain"
  /\ Goto(t, "drop") /\ UNCHANGED <<slot, ptr>>
  /\ UNCHANGED <<pins, used, memory, chunk, waited, buf, sweep, killed, sup, download, snapshots, fetching, ops>>

\* The wait for those who pinned before has ended; if it took too long, the chunk
\* stays.
Drain(t) ==
  /\ Alive(t) /\ pc[t] = "drain"
  /\ IF pins[victim[t]] = 0 THEN Goto(t, "drop") /\ UNCHANGED <<slot, ptr>>
     ELSE slot' = [slot EXCEPT ![victim[t]] = ptr[t]] /\ Spare(t)
  /\ UNCHANGED <<pins, used, memory, chunk, waited, buf, sweep, killed, sup, download, snapshots, fetching, ops>>

Drop(t) ==
  /\ Alive(t) /\ pc[t] = "drop"
  /\ mem' = [mem EXCEPT ![ptr[t]] = Free]
  /\ slot' = [slot EXCEPT ![victim[t]] = Absent]
  /\ ptr' = [ptr EXCEPT ![t] = None]
  /\ Goto(t, "deduct")
  /\ UNCHANGED <<pins, used, bytes, limit, chunk, waited, buf, sweep, killed, sup, download, snapshots, fetching, ops>>

Deduct(t) ==
  /\ Alive(t) /\ pc[t] = "deduct"
  /\ bytes' = bytes - 1
  /\ Goto(t, "sweep")
  /\ UNCHANGED <<slots, mem, limit, reader, buf, sweep, killed, sup, download, snapshots, fetching, ops>>

-----------------------------------------------------------------------------
\* kerneld, which serves a fault at a time except for its awaits.

Awaits == pc[Kerneld] = "idle" /\ serving = None

Fault(c) == chunk' = [chunk EXCEPT ![Kerneld] = c] /\ Goto(Kerneld, "load")

\* The loop takes a fault.  While the file's only handle is its writer's, it is
\* read through a snapshot (faultArriving), one at a time for a chunk.
Serve ==
  /\ Awaits /\ sup # <<>>
  /\ sup' = Tail(sup)
  /\ LET c == Head(sup)
     IN  IF handed THEN Fault(c) /\ UNCHANGED snap
         ELSE /\ snap' = IF snap[c] = None THEN [snap EXCEPT ![c] = arrived + 1] ELSE snap
              /\ UNCHANGED <<pc, chunk>>
  /\ UNCHANGED <<slots, memory, ptr, waited, buf, sweep, killed, download, snapshots,
                 handed, stash, serving, todo, ops>>

\* A snapshot has been read: it was taken at the request or since.
SnapshotRead ==
  /\ Awaits
  /\ \E c \in Chunks:
       /\ snap[c] # None
       /\ IF handed
          THEN /\ Fault(c) /\ snap' = [snap EXCEPT ![c] = None]
               /\ UNCHANGED <<stash, serving, todo>>
          ELSE \E upto \in snap[c] - 1..arrived:
                 IF upto < c
                 THEN snap' = [snap EXCEPT ![c] = None] /\ UNCHANGED <<pc, chunk, stash, serving, todo>>
                 ELSE /\ stash' = c..upto /\ serving' = c
                      /\ todo' = [i \in 1..upto - c + 1 |-> c + i - 1]
                      /\ UNCHANGED <<pc, chunk, snap>>
  /\ UNCHANGED <<slots, memory, ptr, waited, buf, sweep, killed, sup, download, snapshots,
                 handed, ops>>

\* The chunk asked for and those that came with it, one by one.
ServeStash ==
  /\ pc[Kerneld] = "idle" /\ serving # None
  /\ IF todo # <<>>
     THEN Fault(Head(todo)) /\ todo' = Tail(todo) /\ UNCHANGED <<snap, stash, serving>>
     ELSE /\ snap' = [snap EXCEPT ![serving] = None]
          /\ stash' = {} /\ serving' = None /\ UNCHANGED <<pc, chunk, todo>>
  /\ UNCHANGED <<slots, memory, ptr, waited, buf, sweep, killed, sup, download, snapshots,
                 handed, ops>>

\* imageArrived: the writer has closed the file.
ImageArrived ==
  /\ Awaits /\ arrival = "arriving" /\ arrived = N /\ ~handed
  /\ handed' = TRUE
  /\ UNCHANGED <<slots, memory, pc, reader, buf, sweep, killed, sup, download, snapshots,
                 snap, stash, serving, todo, ops>>

-----------------------------------------------------------------------------
\* The download, front to back; what the page tells the kernel when it ends.

Arrive ==
  /\ arrival = "arriving" /\ arrived < N
  /\ arrived' = arrived + 1
  /\ UNCHANGED <<slots, memory, pc, reader, buf, sweep, killed, sup, arrival, snapshots, fetching, ops>>

Complete ==
  /\ arrival = "arriving" /\ arrived = N /\ handed
  /\ arrival' = "complete"
  /\ UNCHANGED <<slots, memory, pc, reader, buf, sweep, killed, sup, arrived, snapshots, fetching, ops>>

DownloadFails ==
  /\ arrival = "arriving"
  /\ arrival' = "failed"
  /\ UNCHANGED <<slots, memory, pc, reader, buf, sweep, killed, sup, arrived, snapshots, fetching, ops>>

-----------------------------------------------------------------------------
\* kerneld terminates a worker, by the kill gate: not while it pins a chunk.

Pinning(t) == pc[t] \in {"look", "copy", "missed"}

Kill(t) ==
  /\ t \in Workers /\ Alive(t) /\ pc[t] # "idle" /\ ~Pinning(t)
  /\ Cardinality(killed) < MaxKills /\ ~Plain
  /\ killed' = killed \cup {t}
  /\ UNCHANGED <<slots, memory, pc, reader, buf, sweep, sup, download, snapshots, fetching, ops>>

-----------------------------------------------------------------------------

Reads(t) == Pin(t) \/ Look(t) \/ Copied(t) \/ Missed(t) \/ Request(t) \/ Poll(t) \/ Fails(t)

Loads(t) ==
  \/ Load(t) \/ Take(t) \/ Own(t) \/ HostRead(t) \/ Short(t) \/ Backoff(t)
  \/ Publish(t) \/ Count(t)

Evicts(t) ==
  \/ Sweep(t) \/ Peek(t) \/ Claim(t) \/ Drain(t) \/ Drop(t) \/ Deduct(t)

Serves == Serve \/ SnapshotRead \/ ServeStash

Next ==
  \/ \E t \in Threads: Read(t) \/ Alloc(t) \/ Reads(t) \/ Loads(t) \/ Evicts(t) \/ Kill(t)
  \/ SetLimit \/ Serves \/ ImageArrived
  \/ Arrive \/ Complete \/ DownloadFails

Spec == Init /\ [][Next]_vars

\* Threads, kerneld and the download go on.
FairSpec ==
  /\ Spec
  /\ \A t \in Threads: WF_vars(Reads(t) \/ Loads(t) \/ Evicts(t))
  /\ WF_vars(Serves) /\ WF_vars(ImageArrived) /\ WF_vars(Arrive) /\ WF_vars(Complete)

-----------------------------------------------------------------------------

PCs ==
  {"idle", "pin", "look", "copy", "missed", "EAGAIN", "ask", "poll", "EIO", "ENOMEM",
   "load", "room", "reserve", "take", "own", "host", "short", "backoff", "publish",
   "count", "sweep", "peek", "claim", "drain", "drop", "deduct"}

CacheTypes ==
  /\ slot \in [Chunks -> Buffers \cup {Absent, Loading, Evicting}]
  /\ pins \in [Chunks -> Int] /\ used \in [Chunks -> BOOLEAN]
  /\ mem \in [Buffers -> Chunks \cup {Raw, Free}]
  /\ bytes \in Int /\ limit \in Limits

ThreadTypes ==
  /\ pc \in [Threads -> PCs]
  /\ chunk \in [Threads -> Chunks] /\ victim \in [Threads -> Chunks]
  /\ ptr \in [Threads -> Buffers \cup {None}] /\ buf \in [Threads -> Buffers \cup {None}]
  /\ goal \in [Threads -> Nat] /\ rounds \in [Threads -> 0..Rounds]
  /\ back \in [Threads -> {"idle", "room", "reserve", "take"}]
  /\ waited \in [Threads -> 0..Patience + 2]

HostTypes ==
  /\ killed \subseteq Workers /\ sup \in Seq(Chunks)
  /\ arrived \in 0..N /\ arrival \in {"arriving", "complete", "failed"}
  /\ snapshots \in BOOLEAN /\ handed \in BOOLEAN
  /\ snap \in [Chunks -> 0..N + 1] /\ stash \subseteq Chunks
  /\ serving \in Chunks \cup {None} /\ todo \in Seq(Chunks) /\ ops \in 0..MaxOps

TypeOK == CacheTypes /\ ThreadTypes /\ HostTypes

\* "Readers pin a chunk for the length of their copy" (kernel-abi.md): while a
\* reader copies, its address is that of the chunk's bytes.
ReadsItsChunk == \A t \in Threads: pc[t] = "copy" => mem[ptr[t]] = chunk[t]

\* Threads between taking a slot and giving it up.
LoadingOf(c) == {t \in Threads: chunk[t] = c /\ pc[t] \in {"host", "short", "publish"}}
EvictingOf(c) == {t \in Threads: victim[t] = c /\ pc[t] \in {"drain", "drop"}}

\* Each slot that is not free has one holder: the cache itself or, while it is
\* loaded or dropped, one thread.
OneHolder ==
  \A c \in Chunks:
    /\ slot[c] = Loading => Cardinality(LoadingOf(c)) = 1
    /\ slot[c] # Loading => LoadingOf(c) = {}
    /\ slot[c] = Evicting => Cardinality(EvictingOf(c)) = 1
    /\ slot[c] # Evicting => EvictingOf(c) = {}

\* Each buffer in use is that of a slot or one that a thread has in hand.
InUse == {b \in Buffers: mem[b] # Free}
Cached == {c \in Chunks: Loaded(c)}

NoBufferLost ==
  Cardinality(InUse) =
    Cardinality(Cached) + Cardinality({t \in Threads: buf[t] # None \/ pc[t] \in {"drain", "drop"}})

\* CACHE_BYTES is what is in slots, but for what is being added or deducted.
BytesCounted ==
  bytes = Cardinality(Cached) + Cardinality({t \in Threads: pc[t] \in {"drain", "drop", "deduct"}})
            - Cardinality({t \in Threads: pc[t] = "count"})

\* No interleaving of loads and sweeps gives a slot two holders or none, loses a
\* buffer, or lets the count drift: "any thread may run this, several at once"
\* (evict).
Accounted == OneHolder /\ NoBufferLost /\ BytesCounted

\* A worker was terminated with a slot in hand, which the gate does not count:
\* whoever wants the chunk waits for ever.
Orphan == \E c \in Chunks: (LoadingOf(c) \cup EvictingOf(c)) \cap killed # {}

\* "A thread that may block waits in the kernel for the chunk", "asks kerneld" or
\* "retries" (kernel-abi.md): every read ends (there are MaxOps of them, so that
\* none goes on for ever), if no slot is lost, sweeps end, and the page, which
\* waits 100 ms before it tries again, does not take a slot or a buffer in the
\* middle of kerneld's work every time.  After a download that failed the page's
\* read of a chunk that is not in the file does not end: kerneld fails to load it
\* and tells the page nothing, which asks again.
Unanswered(t) == pc[t] # "idle" /\ t \notin killed /\ ~(t = Page /\ arrival = "failed")

Answered ==
  \/ <>[](Orphan \/ \A t \in Threads \ {Kerneld}: ~Unanswered(t))
  \/ []<>(\E u \in Threads: pc[u] = "drop")
  \/ []<>(buf[Page] # None /\ pc[Kerneld] # "idle")

\* The code does not keep this.  A range that is not there means "not in the file
\* yet, not an error" while the image arrives (kernel-abi.md): a read fails only
\* after a download that failed.  But load asks for the state of the download
\* after it read the file, and a chunk that arrived in between with the last one
\* is an error; and a reader that waited for more than ten seconds gives up once
\* the download is complete, without asking again, for it went on counting.
ArrivedIsRead == \A t \in Threads \ {Kerneld}: pc[t] = "EIO" => arrival = "failed"

=============================================================================
