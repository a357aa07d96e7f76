# TLA+ models of the Browser Agent Toolkit

The Browser Agent Toolkit runs Node programs (the OpenCode server, the dev server of an
application, shells and their tools) inside one browser tab. What an operating system does
for such programs is done by a WebAssembly module, the *kernel*, that every web worker
instantiates on one shared memory, and by *kerneld*, a JavaScript worker that supervises the
others. The program's own core logic is there: a dozen objects in shared memory that many
threads operate at once, with futexes to wait on, threads that can be terminated at any
moment, and a journal that must survive a crash of the tab. Around it are protocols of the same
kind: the event loop of each process, the tunnel that carries its connections out of the
browser, and the chat client that follows a conversation over connections that come and go.
These modules model that core and those protocols. They were written from the source; where this text names a line, it is a line of the
repository.

## 1. Inventory

### The kernel, `crates/bat-kernel/src`

There is no kernel thread. A system call runs in the worker that makes it, on objects in
shared memory, under the locks of those objects.

| Part | State | Operations | What is hard | What must be true |
| --- | --- | --- | --- | --- |
| locks (`lock.rs`, `thread.rs`) | the word of each lock, the count of locks and the dying flag of each thread | lock, unlock, the kill gate; read and write of the `RwLock`; wait queues | futex protocols; threads that may not sleep; termination at any instruction | exclusion, no lost wake-up, no lock left behind by a dead worker |
| pipes and open files (`fd.rs`) | a ring of bytes, wait queues, counts of open ends, references, subscriptions | read, write, close, dup, shutdown, subscribe | partial transfers, closing while others sleep, calls that are killed | a FIFO of bytes, an end that closes exactly when nothing refers to it, wake-ups |
| listeners (`fd.rs`) | names, backlog | listen, connect, accept, close | connect against close | every connection is accepted or refused |
| readiness (`fd.rs`, `proc.rs`) | subscriptions of each file, an event queue and an event word per process | subscribe, post, take_events, close | a level checked after subscribing, a number used again | no event is lost, none is queued for the number's next owner |
| processes (`proc.rs`) | the process table, states, statuses, event queues, the supervisor's work queue | spawn, attach, finish, waitpid, kill, post, take_events | parent and child that exit together, kills inside calls | a status for every exit, no zombies, no process that never starts |
| file system (`vfs.rs`) | a slab of nodes, a free list, directories, an overlay over read-only images | open, write, link, unlink, rename, mkdir, mount | hard links, open files without a name, whiteouts, non-persistent trees | the tree stays a tree, nothing is freed while it is referred to, the journal rebuilds it |
| persistence (`persist.rs`) | a buffer of physical records, sequence numbers, the durable number | record, take, snapshot, apply, wait_durable | crashes between any two writes, writes that fail | a crash leaves a prefix of the operations, with every durable one |
| images (`image.rs`) | a slot per chunk (absent, loading, evicting or an address), pins, a count of bytes, the state of the download | read, load, sweep, ask kerneld, wait | no lock at all: readers pin, sweeps free under them; an image that is still arriving, with one file handle or none | a reader copies its own chunk, nothing leaks, every waiting reader is answered |
| terminals (`tty.rs`, `bat-pty`) | line discipline, window size, output queue | read, write, resize, signals | flow control | bytes in order, writers woken |
| codecs (`http.rs`, `ws.rs`), resolution (`resolve.rs`, `module_facts.rs`), memory (`alloc.rs`, `mem.rs`) | parser states, caches, the heap | feed, resolve, allocate | boundaries | agreement with their formats |

### The supervisor and the process runtime, `runtime/src`

* **kerneld** (`kernel/kerneld.ts`) takes work from the kernel's queue (spawn, kill, exit,
  flush, image fault), creates workers, keeps a spare one, terminates them, restores the
  overlay at boot, drains the journal to OPFS and folds it into snapshots. It is one
  JavaScript thread: what it does between two awaits is atomic for timers and messages, but
  not for the threads of the kernel. Hard: the awaits, the timers, and failures of OPFS.
* **process workers** (`process/worker.ts`, `process/loop.ts`, `kernel/process-worker.ts`)
  attach to their process, run the program on an event loop that sleeps on a word in shared
  memory, and report the exit. A turn of the loop runs timers, events and immediates; browser
  tasks (a ping, a host timer, the word) start the next one. Hard: level-triggered readiness
  through subscriptions, with descriptors that are closed and used again; three ways to be
  woken; when the process may end.
* **node/** puts the Node API on the kernel's calls, **loader/** resolves and transforms
  modules, **net/** carries TCP and TLS through a WebSocket with windows of unacknowledged bytes
  at both ends (`net/tunnel.ts`), **sqlite/** is a SQLite VFS on the kernel's files, **host/** and **sw/** connect the
  page and its service worker to processes.

### Around them

`crates/bat-sh` is a shell with its utilities, `bat-image`, `bat-prepare` and `bat-modules`
build images. `packages/relay` is the other end of the tunnel: a server that opens a socket for
each WebSocket and passes bytes on, with windows, timers and pauses of its own.
`packages/toolkit` prepares applications and holds the chat client: a store of sessions, kept
up to date by an event stream without replay and by reads of the transcript, which overtake
each other; prompts are shown before the server has them. Hard: events applied twice or not at
all around a read, answers that are lost, reconnects. Right: a prompt stays visible, what is
shown agrees with the server when nothing is under way, what is looked at is read.
`packages/react` and `packages/terminal` (a vendored terminal emulator) present it.
`third_party`, `ports`, `examples` and `bench` hold no logic of the system's own.

### How they interact

A worker calls the kernel; the kernel changes shared objects and either bumps a word and
notifies (other workers, asleep in `memory.atomic.wait`, or the page, which can only wait
asynchronously), or appends to the supervisor's queue and bumps kerneld's word. kerneld
answers with calls of its own (`bat_proc_mark_exited`, `bat_journal_take`,
`bat_persist_set_durable`, ...) and with what only JavaScript can do: `new Worker`,
`worker.terminate()`, reads and writes of OPFS files. `PROJECT.json` lists, line by line,
what of this is hard to test and which property looks for it.

## 2. The modules

| Module | Models | Specification of |
| --- | --- | --- |
| `AbstractLock` | what a lock with a kill gate promises: one owner, who releases it, and a thread is stopped only when it owns nothing | |
| `KernelThreads` | the threads that ask for the kernel's locks | |
| `KernelLock` | `RawLock`, `gate_enter`, `gate_leave` and kerneld's `retire` | implements `AbstractLock` |
| `KernelRwLock` | `RwLock`, the reader/writer lock of the file system | |
| `KernelLockProofs` | theorems about `KernelLock` and `KernelRwLock` | |
| `AbstractPipe` | a bounded FIFO of bytes with two ends | |
| `Pipe` | `Pipe`, `OpenFile` and the wait queues | implements `AbstractPipe` |
| `PipeProofs` | theorems about `Pipe` | |
| `Processes` | `proc.rs` with the supervising half of `kerneld.ts` | |
| `ProcessesProofs` | theorems about `Processes` | |
| `AbstractStore` | files that go back, in a crash, to an instant between two operations | |
| `Persist` | `persist.rs` with the persisting half of `kerneld.ts` | implements `AbstractStore` |
| `Overlay` | the nodes and names of `vfs.rs`, the records they write and their replay | |
| `OverlayProofs` | theorems about `Overlay` | |
| `EventLoop` | `process/loop.ts` on subscriptions, the event queue and the event word | |
| `EventLoopProofs` | theorems about `EventLoop` | |
| `ImageCache` | the chunk cache of `image.rs`, kerneld's part in a fault, the download | |
| `ImageCacheProofs` | theorems about `ImageCache` | |
| `AbstractRequest` | a request over a stream: bytes once, one end, success only with all of it | |
| `Tunnel` | `tunnel.ts`, TLS as a buffer, `tcp-relay.ts`, the server | implements `AbstractRequest` |
| `TunnelProofs` | theorems about `Tunnel` | |
| `ChatSync` | `chat/sync.ts`, `reduce.ts` and the prompts of `controller.ts`, with the server | |
| `LogProofs` | theorems about the two logs, those of `Persist` and `ChatSync` | |

Each `MC...` module gives the constants of its component the values the `.cfg` files choose
from. The level of atomicity is the same everywhere: one action is one atomic access to shared
memory, or one critical section of a lock, because `KernelLock` and `KernelRwLock` show that
critical sections exclude each other. What JavaScript does between two awaits is split wherever another thread
can see it half done.

### KernelLock

The word of a lock is 0, 1 or 2 as in `lock.rs`; `pc` says where each thread is in `lock()` or
`unlock()`: `gate` (counted, dying not yet read), `cas` (fast path), `spin`, `swap`, `futex`
(about to sleep), `asleep`, `notify`, `leave`. `depth` and `dying` are the fields of the
thread record; `sleepers` is the queue the browser keeps for the word, which `Without` (the
one external definition) leaves when a sleeping worker is terminated. A thread may hold
several locks and asks for them in ascending order, the nesting order of the kernel. The
supervisor marks a worker (`MarkDying`) and terminates it when the count reads zero
(`Terminate`) or, if `GiveUp`, at any time.

### KernelRwLock

`s` is the word, as a record of the writer bit `w`, the WAIT bit and the number of readers `n`.
A load of the word and the compare-and-swap after it are two actions, with the loaded word in
`seen` between them. The sequence number on which waiters sleep is abstracted as in `Pipe`:
`fresh` is the set of threads whose number is still the present one, a bump empties it, and
`memory.atomic.wait` goes to sleep exactly for its members. `SlowSeq`, `SlowOr`, `SlowTry`,
`SlowCas`, `RwSleep` are the loop of `slow`; `WakeClear`, `WakeBump`, `WakeNotify` are the tail of
`release`, in which the last reader takes WAIT back only after it has let the lock go. The page
goes round the loop without sleeping. Names that `KernelLock` has too begin with `Rw` here, because
one module proves things about both.

### Pipe

The ring is `buf`, `head` and `len` with the code's modular copies. `fresh[t]` stands for the
comparison of a futex word: it is true as long as nobody bumped the word since thread t read
it; the real word is a counter of 32 bits, so this leaves out exactly a wrap of 2^32 bumps
while one thread is between its read and its wait.

What keeps an open file alive are the descriptors (`fd`), the calls in progress and what was left
on the stack of a dead worker. `bat_close` takes the descriptor out of the table (`CloseFd`), drops
the reference (`Drop`, which closes the end if it was the last) and then wakes the other side
(`CloseBumps`, `CloseNotifies`), in steps of their own, because the worker may be terminated between
any two of them: the lock of the pipe is free again when `wake_all` is called. `Kill` and `Finish`
are the two halves of a SIGKILL: the worker stops wherever it is, then kerneld takes what its
process has left in its table and drops it like anybody else. `lost` says what went with the worker:
the reference of the call it was in, the wake-up it owed.

### Processes

One actor per process, named by its pid, and kerneld. `state`, `status`, `parent`, `files` and
`table` are the fields of the record and the table; every store of `proc::finish` is an action
of its own (`FinishSwap` to `FinishReport`), for a worker or for kerneld. kerneld's `drain`
empties `sup` without giving way; the rest of `spawn` (`SpawnRuns`, `SpawnFails`), timers
(`TimerFires`) and `onerror` (`TakeCrash`) run only while it awaits. `worker` is what has become
of each `Proc` object. `KillWindows` opens three windows one by one in which the code lets a
kill in but does not survive it; see the findings.

### Persist

A record stands for one operation and the overlay for the sequence of the records applied.
Each file of OPFS has `disk` (what is certainly stored) and `cache` (what was written); `flush`
makes them equal, `Crash` keeps either, part by part: the header and the body of a snapshot
separately, a frame of the journal whole or not at all, because it carries a checksum.
`Restore` is the code's choice of snapshot and replay of newer frames, and computes the new
`journalSize` and `nextSlot`. `Fail` is an exception from any of the calls to OPFS, behind which
the rest of the drain or of the snapshot is given up. `AbstractStore` has a flag for it: an
undamaged store goes back to an instant, a damaged one to some of its operations.

### Overlay

What `Persist` treats as opaque records is the subject here. `live` is the slab: for each inode
number the kind of node, its side of the persistence border, its counts of names and of
descriptors, a file's content or a directory's entries. `disk` is the slab that a boot would
rebuild from the last snapshot and the records since. Replay is a fold over records, so each
operation folds its own into `disk` when it writes them, and `disk` is at every moment what
replay would find; the end of a frame, where replay frees the nodes nobody links to
(`rebuild_free`), is the action `EndFrame`, which may come between any two operations.
`Linked`, `Unlinked`, `Dropped`, `Freed`, `Placed` and `WithPersist` are the code's primitives,
used by the operations and by replay alike. An operation holds the write lock of the file system,
so it is one step, except for `release`, which counts down under the read lock and frees later.

Directory 1 of the root is excluded from persistence, like `/tmp`. `CrossBorder` says whether
hard links may lead across that border and whether the excluded directory itself may be removed,
renamed or replaced; the passing run says no, see the findings. There is no image below the
overlay, hence no whiteout and no copying up; symbolic links, attributes, mounts and watches are
left out, and a file's content is one value, which a write replaces.

### EventLoop

The reading process is one JavaScript thread, so `pc` and
`phase` say at which point of a turn it is, and other processes' accesses (`ppc`: queue,
bump, notify, under the file's lock) come in between. A turn is started by a task: the ping of the
channel, the host's timer, or the event word, which `fresh` abstracts as in `Pipe`. `refs` and the
countdown to the end are the code's. A file is a pipe that is read by the input stream of
`node/process.ts`; guest code does at most one thing per callback: read on, close, open the next
file at the same number, set a timer, ask for an immediate, a microtask, a fetch. Time is what is
left until a timer is due, and the clamp of 4 ms is 2 units. Handlers of children, signals and
watches, intervals, and event masks are left out.

### ImageCache

`slot`, `pins` and `used` are the words of a chunk, `mem` the kernel memory's buffers with the
chunk each holds the bytes of, `bytes` and `limit` the two statics. No lock protects them, so one
action is one access, or several that no other thread can tell apart (marking and unpinning a
chunk that was copied; freeing a buffer and vacating its slot). `pc` walks a thread through
`with_chunk` (`pin`, `look`, `copy`, `missed`), `chunk` (`ask`, `poll`), `load` (`load`, `room` to
`take`, `own`, `host`, `short`, `backoff`, `publish`, `count`) and `evict` (`sweep`, `peek`,
`claim`, `drain`, `drop`, `deduct`), which `back` returns from. kerneld is a thread of its own in
`load`; `sup`, `snap`, `stash`, `serving` are its queue and its awaits. The hand of the clock is
anywhere, since every sweep moves it; waits end by their timeouts, so wake-ups are left out; there
is one image, and reads of its file do not fail. `snapshots` is the browser whose file has one
handle, the writer's, while it arrives.

### Tunnel

Bytes are counted, not kept: a WebSocket keeps their order, so a byte is known by its place in the
stream. Frames are of any size; control frames arrive in order behind what was sent before
them. The page's `pump` is cut where it gives way or can be entered again; TLS is external, a
buffer of `TlsCap` bytes of plaintext that refuses more, with the end of the stream told to it
once. The relay's `accept`, `start`, `finish`, acks, pauses and timers are actions; the server
sends a byte of handshake, the response and close_notify, and may stop anywhere. `fault` is set by
what a request cannot survive: the stream cut, the WebSocket lost, a dial that fails, an abort, the
relay's timers. Wisp, the other wire format, is left out.

### ChatSync

One session. The server (external, from how the client uses its API) has the inbox of prompts
that are not delivered yet and the page of messages; each change puts events on the stream,
which is lost with its connection and not replayed. The client's reads are two requests (inbox,
then page) with the events between them kept and applied on top; `transcript` is the state of
that read's key in `createKeys`, `active` that of the list of running sessions. Requests (`post`,
`cancel`) and events overtake each other. `upsets` bounds how often a connection is lost, a
request fails, a prompt is withdrawn or the user looks elsewhere.

## 3. The runs

Bounds are constants of the `.cfg` files or of the `MC` modules. Each module has a type invariant;
they hold in these runs, are proved where section 5 says so, and are otherwise left out of the
runs.

| Run | Shows | Bounds |
| --- | --- | --- |
| `KernelLock` | kill gate, no lost wake-up, refinement of `AbstractLock` (which includes exclusion), a sleeper on an inner lock is woken | two locks that nest, two workers, one of which may be retired, the page that only spins |
| `KernelRwLock` | a writer is alone, no lost wake-up, a sleeper is woken if the lock is free again and again | the page and two workers, all of which read and write |
| `Pipe` | ends open while referred to, no lost wake-up, refinement of `AbstractPipe`, the last close wakes the other side unless a thread was killed inside a call | a ring of 2, a message of 3, reads of one byte, a reader and two writers; the reader and one writer may be killed anywhere, in `bat_close` too |
| `Processes` | `StatusBeforeEof`, `NoZombies`, `NoMissedExit` | the page, a child, a grandchild or second child; two kills or crashes |
| `ProcessesLive` | `SpawnServed`, `WorkerStopped` | the page and one child, two faults, which may hit inside `finish` |
| `Persist` | a crash leaves a prefix with all that is durable; a flush returns; refinement of `AbstractStore`, also behind a write that failed | two operations; three faults, each a crash or a failing write |
| `Overlay` | the slab stays one tree, replay rebuilds the persistent tree, an open file stays | three names per directory, four nodes, two contents, one descriptor per file, one boot |
| `EventLoop` | no lost wake-up, events queued for their owner only, the process ends idle and does end, timers first, every event is served | two files at one number, one timer, one chunk per file, one operation of the guest besides reading |
| `Tunnel` | windows, no socket left behind, refinement of `AbstractRequest`, an undisturbed request completes, a disturbed one ends | a window of 3, pieces of 2, a high-water mark and a plaintext buffer of 1, a request of 4 and a response of 5 bytes |
| `TunnelCut` | finding | a window of 2, pieces of 1, a request of 3, a response of 4 |
| `ChatSync` | a prompt stays visible, what is shown agrees with the server when all is quiet, what is watched is read | two prompts, one run, one upset |
| `ImageCache` | a reader copies its own chunk; slots, buffers and the count agree; every read ends | two chunks for a cache of one and a memory of two, one look in a sweep; two reads or sweeps, or one while the image arrives, with a worker terminated |

The bounds are enough for what they look for. A lost wake-up of a lock needs a holder, a
sleeper and a third thread that takes the word in between; nesting needs two locks. The
reader/writer lock needs two readers that leave and a writer that sleeps. A write
that wraps and does not fit needs a ring of two and a message of three; the reference counts
need two threads on one end. The life of a process is decided by a process, its parent and its
children: three generations, where pid 1, the page, is never killed. A crash during recovery's
aftermath needs two crashes, and a failing write a third fault; the two slots of the snapshots
come into play with two snapshots, one of them of nothing new (with three operations and two
faults the invariants hold as well, on 3.2 million states). Four nodes are the root, the excluded
directory and two more: a directory with a file in it that is moved over the border as a tree, or a
file with two names that is moved over another; a number that was freed is used again for a node of
another kind. An event for the wrong owner needs two files at one number. Both halves of a request
are longer than a window and a window is longer than a piece, so each end stops and goes on
several times; whatever can be full is full at one byte. Two prompts are one in the inbox and one
under way, and every upset meets every point of a read, of a run and of a prompt (one prompt with
four upsets passes too, on 11 million states). A chunk that is dropped under a reader needs two
chunks, a cache of one, a reader and somebody who loads the other; a buffer that is used again
needs the memory to be full (with two workers and two looks in a sweep the invariants hold as well,
on 1.9 million states).

Where `CHECK_DEADLOCK` is off the system may really stop: every process has exited, every
end is closed, the request is over, or a bound on operations, faults or boots is reached.

### Findings

`TunnelCut` is expected to be violated. When the server's stream is cut without close_notify while
TLS is full of plaintext that the body's reader has not taken, `tls_in_eof` (`lib.rs:148`) drops the
error it meets, the page never tells TLS again, and the request hangs; `tunnel.ts:514-515` says that
such a stream is survived only by a response that was already complete.

Other behaviours that contradict a comment or a document have a property in the modules, marked
"the code does not keep this", and no run of their own. Whoever checks the property sees it fail:

* `Pipe`, `LastCloseWakes`: a worker killed inside a call keeps its open file for ever
  (`abi.rs:209`, and `proc.rs:163` to 169 in `bat_close`), or has closed the end and not yet woken
  anybody (`fd.rs:156`), and the other end sleeps on: `finish` finds no descriptor. `NoLostWakeup` and
  `LastCloseWakesUnlessKilled` say that nothing else loses a wake-up;
* `Processes`, `WaitReturnsStatus`: `waitpid` between the store of the state and that of the status
  returns 0 (`proc.rs:293`);
* `EventLoop`, `DeliveredToOwner`: an event the loop has taken before a close reaches the next
  owner of the number; its handlers survive a wake-up with nothing to read (`loop.ts:423`);
* `ChatSync`, `StaleIsRead`: an event applied from the buffer of a read marks the session stale, and
  nobody reads it again (`sync.ts:317`); `InOrder`: a prompt whose events are replayed over a page
  that has it moves below its answer (`reduce.ts:487`);
* `ImageCache`, `ArrivedIsRead`: a chunk that arrives with the last of the download, between a
  short read and the look at the download's state, is an I/O error, and so is one that a reader
  waited for longer than ten seconds, if it looks in between (`image.rs:336`, `image.rs:415`).

Further ones are let in by a constant, or excluded by name, and the passing runs show that nothing
goes wrong while they are kept out:

* `GiveUp = TRUE`: `retire` terminates after two seconds (`kerneld.ts:206`) even a worker that
  holds a lock, against `KillGateSafe`;
* `KillWindows <- InExit`: a worker killed in its own `finish` leaves the exit half done,
  against `NoZombies` and `NoMissedExit`;
* `KillWindows <- InSpawn`: a parent killed inside `spawn` leaves a child that never starts,
  against `SpawnServed`;
* `KillWindows <- BeforeStart`: a process killed while kerneld awaits its worker gets the worker
  all the same, for ever, against `WorkerStopped`;
* `fails > 0` in `Persist`: after a failed write the records taken are lost from the middle, and a
  later flush calls them durable (`kerneld.ts:455`), so `CrashConsistent` and `DurableSurvives`
  speak of stores without a failure; `ImplementsAbstractStore` says what is left of them;
* `CrossBorder = TRUE`: after `mv /tmp /b` the journal frees the directory it renamed, and the
  next boot has a name that leads nowhere; `ln /tmp/x /work/y` journals a link to a node that was
  never journaled, and a file with two names that is moved over the border leaves the other name
  on the wrong side of it. All against `ReplayRebuilds`;
* `Orphan` in `ImageCache`: a worker terminated while it loads or drops a chunk, which the kill gate
  does not count, leaves the slot so for ever, and whoever wants the chunk waits, kerneld included;
* the page's read of a chunk that is not in the file after a download that failed goes on for ever,
  where `abi.rs:682` says that such reads fail: kerneld's failure does not reach it (`Answered`
  excludes it);
* a read of the transcript that failed leaves it unread until the next connection (`Followed`
  speaks of sessions without a failed request), and a session deleted elsewhere while the client
  was away stays in its list (`sync.ts:302`).

## 4. Fairness

Workers are threads of the operating system that run in parallel, so a call that was begun goes
on: weak fairness of each thread's own steps. A worker need not call the kernel, spawn, write or
exit; those actions have no fairness. For the lock, a critical section is short and waits for
nothing but inner locks, so its owner releases it each time it gets the chance (strong fairness
of `Unlock`). The page never sleeps: it goes round its loop like any other thread, and nothing is
promised to it. `SleeperWoken` of `KernelLock` speaks of the innermost lock only: the owner of an
outer lock may lose every race for an inner one, for ever, because an unlock hands the lock to
nobody. `KernelRwLock` has weak fairness of everything a thread does after it has entered;
readers are preferred, and readers that overlap for ever keep a writer out, which the code
accepts, so its `WaiterWoken` assumes that the lock is free again and again. kerneld's queue is emptied in order (weak fairness of `Supervise` and `Kerneld`);
while it awaits its word, the browser runs timers, messages and continuations in turn, each in
the end (strong fairness of each callback, since an await ends and begins again). `Persist` has
weak fairness of kerneld's steps and of each thread in a flush, none of operations and crashes.

In `EventLoop` the browser runs the tasks it has (weak fairness of a turn or task), time passes and
a process that has bumped the word notifies it; writers owe nothing. In `Tunnel` the page's tasks,
the reader of the body, the relay's callbacks and the acknowledgements go on, and a server that has
sent everything closes; none of that is asked of a fault. `Settles` rests on the relay's timers
(weak fairness of `RelayFails` is its premise): a server that says nothing keeps the page waiting
until they end it. In `ImageCache` every thread that is in a read goes on, and so do kerneld and
the download, unless it fails. Two things no scheduler grants are alternatives of `Answered`: that
sweeps drop what is loaded for ever, and that the page, which waits 100 ms before it tries again,
takes a slot or a buffer in the middle of kerneld's work each time. `ChatSync` has no liveness
property: `Current` and `Followed` speak of states in which nothing is under way.

## 5. Proofs

### KernelLockProofs

Proved with TLAPS, for any finite set of threads and of locks:

* `TypeCorrect`: `Spec => []TypeOK`;
* `LockExclusion`: `Spec => []MutualExclusion`;
* `KillGate`: if `GiveUp` is false, `Spec => []KillGateSafe`;
* `NoLostWakeupCorrect`: if `GiveUp` is false, `Spec => []NoLostWakeup`;
* `Refinement`: if `GiveUp` is false, `Spec => ImplementsAbstractLock`.

They rest on `LockAssumption` and `ThreadsAssumption` alone. The argument is an inductive invariant, `IInv`:

1. types and mutual exclusion;
2. `FreeWordUnowned`: nobody holds a lock whose word is 0. This is what makes exclusion
   inductive: each of the three ways to take a lock sees 0 in the same step that ends it;
3. `DepthCounts`: the count in the thread record is the number of locks held, plus one while the
   thread is taking or releasing one. This is why the supervisor may conclude from a count of
   zero that the thread is outside every lock; it needs the cardinality of `held`, hence the
   finiteness of `Locks`;
4. `ParkedHoldsNothing`: the gate parks a thread only at depth one, before its first lock;
5. `SleepersAreAsleep` and `AsleepIsQueued`: the wait queue of a word and the program counters
   agree, so that a notify moves only threads that sleep and a termination leaves no ghost;
6. `GoneIsIdle`: a worker that was terminated was outside lock operations (if `GiveUp` is false).

Each action has its step, and each conjunct the action can disturb a step below it. `Invariance`
is the resulting temporal theorem; the theorems above follow from it. `NoLostWakeup` is inductive
relative to it (`CoveredStep`): whoever covers a lock's sleepers goes on covering them until it has
notified, or has left 2 in the word, which then covers them. The refinement maps
an acquisition in any of its three forms to the abstract `Acquire`, `Unlock` to `Release`,
`Terminate` to `Stop`, everything else to a stutter.

Of the reader/writer lock the same module proves, for any finite set of threads, of which any may
sleep, from `ThreadsAssumption`:

* `RwTypeCorrect`: `RwSpec => []RwTypeOK`, with the number of readers never below zero;
* `WriterAlone`: `RwSpec => []Exclusion`;
* `WakeupKept`: `RwSpec => []NoLostWaiter`.

The inductive invariant `RwIInv` (`RwInvariance`) adds to the three properties:

1. `WordCounts`: the word tells the truth: its count is the number of threads that hold a
   reader's guard, and its writer bit is set exactly when one holds a writer's. Both the types
   (a release subtracts one) and exclusion rest on it;
2. `SeenAllows`: a thread on its way to a compare-and-swap has loaded a word that allowed it
   what it wants, so a swap that succeeds starts from such a word, however often the word has
   changed and changed back;
3. `WaitSeen`: a thread that has set WAIT and still has the present sequence number left WAIT
   behind, unless somebody has taken it and has yet to bump the number. This carries the
   argument for the wake-up over the gap in which the last reader takes WAIT back late: whoever
   set WAIT in the gap finds the number changed when it tries to sleep.

### PipeProofs

For any number of readers and writers, any ring and messages, from `PipeAssumption` (both ends
have somebody, the ring and the messages are not empty, there is a byte to fill the ring with
before anything is written):

* `TypeCorrect`: `Spec => []TypeOK`;
* `OpenCorrect`: `Spec => []OpenWhileReferred`;
* `NoLostWakeupCorrect`: `Spec => []NoLostWakeup`, wherever kills hit: only one that comes exactly
  between a change of the pipe and the wake-up for it loses one;
* `Refinement`: `Spec => ImplementsAbstractPipe`.

The inductive invariant `IInv` adds to them:

1. `CallsRefer`: who is in a call still has its descriptor; who closes has not. An end is
   counted by its references, so this is what keeps the ring's other side from being told that
   nobody is there while somebody is;
2. `KeepToEnd` and `Pending`: readers are in read calls, writers in write calls, with something
   left to write when they try;
3. `ReaderCovered` and `WriterCovered`: a sleeper, or a thread that has decided to sleep, that the
   ring could serve has somebody at the other end who has yet to change the word, or to notify, or
   who was killed before that.
   The word and the notification are two steps and have two clauses: whoever decided to sleep
   before the bump does not sleep, whoever slept before it is notified. `NoLostWakeup` follows;
   by itself it is not inductive, since it says nothing of threads about to sleep.

The refinement maps `buf`, `head` and `len` to the sequence of the bytes in the ring
(`Contents`) and each writer's message to what is left of it (`Todo`). Reading and writing copy in
one piece or two, modulo `Cap`; `RingWritten` and `RingRead` say what either does to the ring,
`Enqueued` and `Dequeued` what it does to the sequence. The rest of the call, closing, killing and
sleeping are stutters, or the abstract close of an end with its last reference.

### ProcessesProofs

For any number of processes, kills and crashes and any exit codes, from `ProcessesAssumption`:

* `TypeCorrect`: `Spec => []TypeOK`, wherever kills may hit: only what was born is in the table, and
  exactly the workers kerneld has terminated have stopped;
* `StatusCorrect`: `Spec => []StatusBeforeEof`, wherever kills may hit;
* `NoZombiesWhereSpared`: `Spec /\ [][Spares]_vars => []NoZombies`: in every behaviour in which no
  kill takes a worker inside its own `finish`. The code has no such protection, so this is a
  condition on what happens and not a fact about the code; see the findings in section 3;
* `NoMissedExitWhereSpared`: `Spec /\ [][Spares]_vars => []NoMissedExit`, under the same condition.

The inductive invariants, each relative to those before it:

1. `SpawnedOnce`: a process is asked for once: in the supervisor's queue, or by the parent that is
   about to put it there, and only while it has no worker. Types rest on it, since a second `spawn`
   would give a stopped worker's process another one (`Tied`);
2. `PageLives`: nobody kills, starts or ends the page, and what is in the table has a parent;
3. `Published`: whoever is past the swap in `finish` finishes a dead process and carries its
   outcome; behind the store of the status, the status is the outcome. Only the swap that finds the
   process alive changes the outcome, and then nobody else is past it;
4. `Reaped`: a dead process in the table whose own finish has looked at its parent, and found it
   alive (`Looked`), has a live parent still, or somebody finishes the parent and will find it
   (`Finds`). This is the handshake of child and parent that exit together: the child looks after it
   is marked dead, the parent is marked dead before it collects, so one of the two sees the other;
5. `Woken` and `Told`: a `waitpid` that sleeps for a dead process, or is about to with the word
   unchanged, has the finish of that process still before its notification, or before its change of
   the word; and the finish of a dead process in the table has told the parent, will, or will take
   the process out. `NoMissedExit` says nothing of those about to sleep, so it is not inductive.

Most steps are of no concern to an invariant: `Plain`, `Bystands` and `FinishAlone` say what such
steps leave alone, and each invariant has one lemma for them and one for the steps that matter.

### EventLoopProofs

For any number of files, descriptors and timers and any bound on them, from
`EventLoopAssumption` (a file and a descriptor to begin with, descriptors are numbers):

* `TypeCorrect`: `Spec => []TypeOK`;
* `NoLostWakeupCorrect`: `Spec => []NoLostWakeup`;
* `QueuedCorrect`: `Spec => []QueuedForOwner`;
* `EndsIdleCorrect`: `Spec => []EndsIdle`;
* `TimersFirstCorrect`: `Spec => TimersFirst`.

Sleeping is the whole loop's business, and so is the inductive invariant `IInv` (`InvCorrect`):

1. `RefsCounted`: `refs` is the number of timers with a reference, immediates, readers and the
   fetch. `EndsIdle` needs it: the process ends when `refs` is not positive, and a sum of numbers is
   that only when each is zero. It is preserved at the end of a phase because the last turn's
   immediates are done (`Leftovers`);
2. `FilesKnown`: a file is open at one number, and who reads it is subscribed to it or about to be;
3. `Queues`: the queue holds at most one event for a number, and of its owner; every reader of a
   file that can be read has an event queued or taken, or the thread is at its file (`Heard`);
   what is queued while the thread waits, or decides to, has a writer that has yet to bump or to
   notify (`WordSeen`);
4. `TurnInv`: which points of the code belong to which task and phase, and what a phase leaves
   behind for the next: a turn that was interrupted has been asked for again, an immediate has, and
   events taken at its end have;
5. `Heap`: timers are sorted; the host's timer fires no later than the first, unless a turn comes
   sooner (`HostTimer`); those due when the turn began come first, so the phase of timers ends with
   none of them left (`OwedFirst`), although guest code arms and clears timers meanwhile.

`NextCases` flattens the next-state relation; lemmas say what arming, clearing and firing a timer do
to the heap (`Arming`, `Clearing`, `Firing`, `Ticking`), what posting and purging do to the queue
(`QueuedIs`, `PurgedIs`), and what every call of the guest leaves alone (`GuestSteps`). Every conjunct
of `IInv` was first checked by TLC on the run's constants, and with two descriptors, two timers and two
operations (5 million states).

### TunnelProofs

For all windows, pieces, buffers and lengths, from `TunnelAssumption` (all positive, a piece not
larger than a window):

* `TypeCorrect`: `Spec => []TypeOK`, which bounds the body kept for its reader;
* `Windows`: `Spec => []WindowsKept`: neither end holds more than a window of the other's bytes, and
  the relay never finds a page that breaks the protocol;
* `NoSocket`: `Spec => []NoSocketLeft`;
* `Refinement`: `Spec => ImplementsRequest`.

The inductive invariant `IInv` adds to these:

1. `SendCount` and `ReceiveCount`: every byte of either direction is in exactly one place. What the
   sender counts as unacknowledged is what is queued, under way, at the other end, or an
   acknowledgement under way; this is what makes the windows hold whatever order frames and
   acknowledgements come in;
2. `NothingEarly`, `NothingUnopened` and `PumpRuns`: what cannot be there before the handshake, before
   the socket or outside `pump`;
3. that the relay is never `broken`, and `WrittenEarly`: nothing is written before TLS is loaded.

The refinement maps the counts of bytes each side has got to those of the abstract request, and
`outcome` to its end; only the reader's and the parser's steps are abstract steps, and a failure is
one wherever it happens.

### ImageCacheProofs

For any number of workers, chunks, buffers, limits and rounds, from `ImageCacheAssumption`:

* `TypeCorrect`: `Spec => []TypeOK`. It stands on its own; `Take` needs that a set of numbers that
  is not empty has a least one;
* `ReadsSafe`: `Spec => []ReadsItsChunk`: whatever is loaded and dropped meanwhile, what a reader
  copies is its chunk;
* `AccountedCorrect`: `Spec => []Accounted`: slots, buffers and the count of bytes agree.

The inductive invariant `IInv` says of each word what it stands for:

1. `PinsCounted`: the pins of a chunk are the readers between pinning and letting go, so a sweep
   that reads zero has nobody before it;
2. `Hands`: a buffer that a load has in hand is that load's alone, raw until it is filled, and the
   address in a slot is that of its chunk's bytes. This makes the comparison in `Claim` sound
   although the chunk may have been dropped and loaded again since the sweep looked;
3. `Turns`: a slot that says LOADING or EVICTING is one thread's to change;
4. `Copies`: what is being copied is in its slot still, or with a sweep that has taken it out and
   now waits for the pins. It is the order of the two halves, pin before look and take out before
   count, that keeps every reader within one of the two.

`QuietStep` disposes of the actions that have no pin, slot or buffer in hand; each of the others has
a lemma. `Accounted` needs four facts more (`AInv`), relative to `IInv`: a slot that says LOADING or
EVICTING has a thread that is at it (`Held`, the converse of `Turns`), a thread remembers a buffer
exactly while it has it in hand (`BuffersKept`), and the two sums: the buffers in use are those that
are cached and those in hand (`NoBufferLost`), and `bytes` is what is cached, with what has been taken
out and not deducted yet and without what was put in and not counted yet (`BytesCounted`).

### LogProofs: the journal

For any number of operations, flushing threads and crashes, at any moments, from
`PersistAssumption` (the bounds are numbers):

* `CrashCorrect`: `Spec => []CrashConsistent`: as long as no write to OPFS failed, a crash leaves
  the first operations that were made, in their order, none missing and none applied twice;
* `DurableCorrect`: `Spec => []DurableSurvives`: and all that were published as durable;
* `StoreUntilFailure`: up to, and with, the first write that fails every step is one of
  `AbstractStore`, or a stutter.

The properties speak of what a crash *may* leave, so the invariant relates the files to the history
of operations (`History`: the overlay, or, between a crash and the restore, what the files restore).
`Sound`, the part of `IInv` that holds while no write failed, says:

1. `StoredOK`: the frames of the journal are pieces of the history in order, each snapshot with a
   header is a beginning of it, what follows the newest snapshot is without a gap up to `OnDisk`
   (`Continues`), and `durable` is not beyond `OnDisk`;
2. `JournalOK` and `SlotsOK`: what is written but not flushed differs from what is stored in one
   place only, the frame or the truncation of the journal, or the slot to be overwritten; and the
   other slot has the newest snapshot until the new header is stored. This is why the body is flushed
   before the header, why the slots alternate, and why the journal is truncated last;
3. `TakenOK`: what was taken continues what is kept (a drain) or is all of the history (a snapshot),
   and what is pending continues what was taken, so no record is lost between the two.

`FutureIs` is the heart of it: whichever of `Remains` a crash leaves of either slot and whichever
journal, the files restore a beginning of the history not shorter than `OnDisk`. The recursion in
`Newer` and the choice in `Best` and `Whole` have lemmas of their own (`NewerIs` by a least
counterexample, because the induction theorems of the library take an operator). The invariant was
checked by TLC before, with four operations and three crashes.

### OverlayProofs

For any number of nodes, names, contents, descriptors and boots, from `OverlayAssumption` and
`CrossBorder = FALSE`:

* `SlabTypesCorrect`: `OverlaySpec => []SlabTypes`;
* `LiveTreeCorrect`: `OverlaySpec => []LiveTree`;
* `ReplayRebuildsCorrect`: `OverlaySpec => []ReplayRebuilds`;
* `OpenStaysCorrect`: `OverlaySpec => OpenStays`.

The hypothesis is the one of the passing run, and it is not a convenience: with hard links over
the border, or with the excluded directory moved away, `ReplayRebuilds` is false of the code (see the findings
above). It leaves renames in: a subtree whose nodes have one name each may come in over the border, be
journaled, and go out again.

The inductive invariant, `TreeInv` (`SlabInvariance`), has three parts:

1. `LiveInv(live)`: a vacant number has nothing in it, only directories have entries, only files are
   open (`Shapes`); counts and entries agree (`SlabSound`); every directory is reached from the root
   (`Tree`, as "a set with the root that is closed under entries has all directories", which needs
   no recursion); the excluded directory is in its place, and its entry is the only one whose two ends
   have different flags (`Border`). `LiveTree` alone is not inductive: that a directory's
   count is not lost when an entry is replaced needs the shapes, that a rename keeps the tree needs all three;
2. `boots` is in bounds;
3. `disk` is `Image(live, tops)`: what is persistent in the live slab, with nobody having it open, and the
   excluded directory empty (`tops` is 1) or not there (0, after a snapshot). This is an equality,
   stronger than what `ReplayRebuilds` asks for, because the numbers that replay has free matter to
   the records that come next: a record for a number that is in use still would free what is there.

The steps, one lemma per operation (`MakeKeeps`, `LinkKeeps`, `UnlinkKeeps`, `RenameKeeps`,
`WriteFileKeeps`, `ReleaseKeeps`, `FrameKeeps`, `SnapshotKeeps`, `BootKeeps`), show that the operation's
records, applied to the image of the old slab, give the image of the new one:

* the primitives are functions of three nodes (`LinkedIs`, `UnlinkedIs`, `MoveNodes`): what loses its last
  name in an operation has no entries, so that `free_node` stops where it starts (`LeafFreed`), and the counts
  are followed by the cardinality of the entries that lead to a node (`HoldsPut`);
* replay is followed by `Run(s, records, t)`: runs join (`RunJoin`), and `emit_subtree` and a snapshot are runs
  from a slab to one where part of another has been grafted on (`Graft`): `EmitEntry` is a name further,
  `EmitNode` a node, by the recursion of `Emitted` in depth; `NodesRun` and `NamesRun` are the two halves of a
  snapshot;
* `rebuild_free` takes nothing from an image (`ImageRebuilt`): nothing persistent is without a name, except
  files that are open or about to be freed, which the image leaves out. A write to such a file is journaled,
  and replay ignores it;
* `Boot` starts from an image, which is a slab that is persistent as a whole (`ImageRestored`), and marks the
  excluded directory.

`OpenStays` follows from the same steps, action by action (`NextOpen`). `TreeInv` was checked by TLC before, on
the instance of the run.

### LogProofs: the event stream

For any number of prompts, runs and upsets, from `ChatAssumption` (the bounds are numbers):

* `ChatTypes`: `SyncSpec => []SyncTypes`, and with it that no message is shown twice and that whatever is
  pending has a row;
* `WatchedIsRead`: `SyncSpec => []Followed`;
* `PromptsAreShown`: `SyncSpec => []PromptShown`.

`SyncInv` (`TypeInvariant`) gives every event, read and key its type, and says of a key that it keeps
something of a read only while the read is under way. Two invariants rest on it:

1. `FollowInv`: the server announces a deletion after it has happened (`ReadIsHere`), so an announcement
   that is on its way never hits a session that exists; a transcript whose key says it was read is
   loaded. `Followed` is inductive with these;
2. `PromptInv`: nothing the server has said (in its events, in what was read, in the buffer behind a
   read) is about a prompt it has not seen (`Unseen`), so no read and no event removes a prompt that
   is on its way: it is pending and in the outbox (`Sending`), which a read keeps. For a prompt the
   server has taken (`TakenShown`) there is a race: the read asked for the inbox before the prompt was
   there, or for the page before it was delivered. Then either the client still has it in its outbox,
   or the event that announced it is in the buffer of the read (`Held`), and either survives the read.
   It needs that the server has a prompt in one place only (`Apart`) and that nothing takes a prompt
   back while nobody has asked for it (`NotCancelled`, `NoCancels`).

Two kinds of lemma carry the proof. The first say what the reducer does with an event and a read with
a transcript, message by message (`Only`, `Replayed`, `Appended` are recursive functions, so that
induction over the places of a sequence is the recursion of a function and a least counterexample). The
second say which actions leave a session, a read, the stream or the server alone, so that an
invariant has a case only for what can disturb it.

### Only model-checked

Everything temporal under fairness (the prover does not handle fairness): `FlushEnds` of `Persist`
and `LastCloseWakesUnlessKilled` of `Pipe` among them. What `Persist` does behind a write that failed
(the damaged store of `ImplementsAbstractStore`), since which operations are then missing would need
an induction over the frames for the prover. And of `Overlay` what happens when
`CrossBorder` is true, where the properties are false. And `Current` of
`ChatSync`, which compares what is left of a whole stream of events with the server: it would take
a simulation of the reducer by the server for every suffix of the stream.

## 6. What is not modelled

Listeners, terminals and what the file system does over an image are not modelled yet. Of the
event loop, handlers of children, signals and watches are left out; of the network, Wisp, the bytes
of HTTP, and the Node API on top; of the relay, its allow list, limits and captures; of the chat
client, the watchdog of its connection, the catalog, models, forms and permissions, older pages,
subagents and streamed text. Codecs, module resolution, the allocator, the shell and the build
tools are sequential programs over data that their own tests reach better; the terminal widget and
the React components are presentation. `PROJECT.json` lists them with the reason.

Abstractions a reader should know: futex words are compared by "unchanged since read" and
not by their 32-bit value; JavaScript's `await` is a point where others run, not a queue of
microtasks; OPFS's `flush` is taken to be a barrier for its own file, and the truncation that
opens a snapshot is taken not to be reordered with the writes after it; signals other than
SIGKILL are left out.

## 7. Plan

1. `Listeners`: connect against accept and close; the abstract specification is a queue of
   connections each of which is accepted or refused.
2. `Overlay` over an image: copying up, whiteouts and opaque directories, and their records.
3. Terminals: line discipline and the signals it sends; `child_process` on `Processes` and `Pipe`.
4. Proofs: `Current` for `ChatSync`.
