----------------------------- MODULE EventLoop -----------------------------
(***************************************************************************)
(* The event loop of a process (runtime/src/process/loop.ts) on the        *)
(* kernel's readiness events (the subscriptions of crates/bat-kernel/src/  *)
(* fd.rs, the event queue and the event word of proc.rs).                  *)
(*                                                                         *)
(* A turn runs the timers that are due, then the kernel's events, then the *)
(* immediates, and ends by sleeping on the event word with                 *)
(* Atomics.waitAsync.  The next turn is started by one of three browser    *)
(* tasks: a ping, the host's timer, the event word.  Other processes       *)
(* (`ppc') write into the files this one reads at any moment; each post    *)
(* queues, bumps the word and notifies in three steps, under the lock of   *)
(* the file.                                                               *)
(*                                                                         *)
(* A file is the read end of a pipe.  Its reader is the input stream of    *)
(* node/process.ts, which holds a reference while it reads; the guest may  *)
(* close it and open the next one, which then has the same number.  Guest  *)
(* code is at most one operation per callback.  The event word counts up,  *)
(* so what a waiter compares is that nobody bumped it since it was loaded  *)
(* (`fresh').  nextTick callbacks run right behind the callback that asked *)
(* for them and are a part of it.  Timers that are cleared or armed again  *)
(* leave the heap at once, and time is what is left until a timer is due.  *)
(***************************************************************************)
EXTENDS Integers, Sequences, SequencesExt, FiniteSets

CONSTANTS
  Files, Fds,   \* the pipes this process reads, the numbers it opens them at
  Timers,
  Long,         \* the delay of a long timer; a short one is due after 1
  MaxData,      \* bound: chunks written into a file
  MaxOps        \* bound: timers, immediates, ... asked for

None == "none"

ASSUME EventLoopAssumption ==
  /\ Long \in Nat \ {0, 1} /\ MaxData \in Nat /\ MaxOps \in Nat
  /\ Files # {} /\ None \notin Files
  /\ Fds # {} /\ Fds \subseteq Nat

\* A timer due in less than this polls through the channel (4 ms).
Clamp == 2

VARIABLES
  data, wclosed,    \* the files: chunks unread, no writer left
  sent,             \* chunks ever written, for the bound
  sub,              \* files with a subscription of this process
  evq,              \* EventQ.ready, each event with the file it is about
  fresh,            \* nobody bumped the event word since it was loaded
  wait,             \* the waitAsync: none, pending, resolved
  ppc, pfile,       \* a writer inside post, and the file it holds
  status,           \* of a file: new, open, ended, closed
  fdfile,           \* the descriptor table
  handler,          \* numbers with a handler (fdHandlers)
  pc, task,         \* where the loop's thread is, and in which kind of task
  arming,           \* the number it is subscribing
  phase,            \* of the turn
  ready,            \* kernel events taken and not delivered
  pinged,
  heap, left, late, \* timers by due time; time left; armed in this turn
  owed,             \* history: due when the turn began
  timerRef,         \* live timers with a reference
  hostLeft,         \* the host's timer
  imm, batch,       \* immediates, and those of this turn
  fetching, micro,  \* a native promise that holds a reference, a microtask
  refs, ran, exitCheck,
  active,           \* AsyncLocalStorage is in use (ctx.active)
  ops

pipes == <<data, wclosed, sent>>
word == <<evq, fresh, wait>>
writer == <<ppc, pfile>>
files == <<status, fdfile, handler>>
timers == <<heap, left, late, owed, timerRef, hostLeft>>
work == <<imm, batch, fetching, micro>>
turning == <<phase, ran, exitCheck>>
vars == <<pipes, sub, word, writer, files, pc, task, arming, turning, ready,
          pinged, timers, work, refs, active, ops>>

\* The program opened and reads the first file and has started the loop.
Init ==
  LET f == CHOOSE g \in Files: TRUE
      d == CHOOSE e \in Fds: \A other \in Fds: e <= other
  IN
    /\ data = [g \in Files |-> 0] /\ sent = data
    /\ wclosed = [g \in Files |-> FALSE]
    /\ sub = {f} /\ evq = <<>> /\ fresh = FALSE /\ wait = "none"
    /\ ppc = "idle" /\ pfile = None
    /\ status = [g \in Files |-> IF g = f THEN "open" ELSE "new"]
    /\ fdfile = [e \in Fds |-> IF e = d THEN f ELSE None]
    /\ handler = {d}
    /\ pc = "idle" /\ task = "turn" /\ arming = d
    /\ phase = 0 /\ ran = FALSE /\ exitCheck = 0
    /\ ready = <<>> /\ pinged = TRUE
    /\ heap = <<>> /\ left = [t \in Timers |-> 0] /\ late = {} /\ owed = {}
    /\ timerRef = {} /\ refs = 1
    /\ hostLeft = -1
    /\ imm = 0 /\ batch = 0 /\ fetching = FALSE /\ micro = FALSE
    /\ active \in BOOLEAN /\ ops = 0

Least(m, n) == IF m < n THEN m ELSE n
Live == {heap[i] : i \in DOMAIN heap}
Stopped == pc = "stopped"
InTurn == task = "turn" /\ pc # "idle"

\* Where the thread is once a callback returned: with AsyncLocalStorage in use a
\* turn yields after each.
Returned == IF task # "turn" THEN "idle" ELSE IF active THEN "back" ELSE "turn"

-----------------------------------------------------------------------------
\* The kernel: post and take_events (proc.rs)

\* Queued once per token; the mask is not modelled.
Queued(q, d) ==
  IF \E i \in DOMAIN q: q[i].fd = d THEN q
  ELSE Append(q, [fd |-> d, of |-> fdfile[d]])

Subscribers(f) == {d \in Fds: fdfile[d] = f /\ f \in sub}

Posted(f) == IF Subscribers(f) = {} THEN evq
             ELSE Queued(evq, CHOOSE d \in Subscribers(f): TRUE)

Bumped == /\ fresh' = FALSE
          /\ wait' = IF wait = "pending" THEN "resolved" ELSE wait

Unlocked(f) == pfile # f

\* Pipe::write and close_writer, in another process: the state and the queue
\* under the lock of the pipe, then the word, then the notification.
Write(f) ==
  /\ ppc = "idle" /\ ~Stopped
  /\ sent[f] < MaxData /\ ~wclosed[f]
  /\ data' = [data EXCEPT ![f] = @ + 1]
  /\ sent' = [sent EXCEPT ![f] = @ + 1]
  /\ evq' = Posted(f)
  /\ ppc' = IF Subscribers(f) = {} THEN "idle" ELSE "bump"
  /\ pfile' = IF ppc' = "idle" THEN None ELSE f
  /\ UNCHANGED <<wclosed, sub, fresh, wait, files, pc, task, arming, turning, ready,
                 pinged, timers, work, refs, active, ops>>

CloseWriter(f) ==
  /\ ppc = "idle" /\ ~Stopped /\ ~wclosed[f]
  /\ wclosed' = [wclosed EXCEPT ![f] = TRUE]
  /\ evq' = Posted(f)
  /\ ppc' = IF Subscribers(f) = {} THEN "idle" ELSE "bump"
  /\ pfile' = IF ppc' = "idle" THEN None ELSE f
  /\ UNCHANGED <<data, sent, sub, fresh, wait, files, pc, task, arming, turning, ready,
                 pinged, timers, work, refs, active, ops>>

WakeBump ==
  /\ ppc = "bump"
  /\ fresh' = FALSE
  /\ ppc' = "notify"
  /\ UNCHANGED <<pipes, sub, evq, wait, pfile, files, pc, task, arming, turning, ready,
                 pinged, timers, work, refs, active, ops>>

WakeNotify ==
  /\ ppc = "notify"
  /\ wait' = IF wait = "pending" THEN "resolved" ELSE wait
  /\ ppc' = "idle" /\ pfile' = None
  /\ UNCHANGED <<pipes, sub, evq, fresh, files, pc, task, arming, turning, ready,
                 pinged, timers, work, refs, active, ops>>

-----------------------------------------------------------------------------
\* Waking up

Head1(h) == h[1]

\* scheduleWake with this heap: a ping for a timer that is due soon, else the
\* host's timer, unless it comes early enough already.
WantsPing(h, l) == h # <<>> /\ l[Head1(h)] < Clamp

HostLeft(h, l) ==
  IF h = <<>> \/ WantsPing(h, l) \/ (hostLeft >= 0 /\ hostLeft <= l[Head1(h)])
  THEN hostLeft ELSE l[Head1(h)]

\* Mutant: only the end of a turn looks at the references.
ReleaseSilent == FALSE

\* released(): does dropping a reference ask for a turn?
ReleasePings == refs - 1 <= 0 /\ ~InTurn

Tick ==
  /\ ~Stopped
  /\ hostLeft > 0 \/ \E t \in Live: left[t] > 0
  /\ left' = [t \in Timers |-> IF left[t] > 0 THEN left[t] - 1 ELSE 0]
  /\ hostLeft' = IF hostLeft > 0 THEN hostLeft - 1 ELSE hostLeft
  /\ UNCHANGED <<pipes, sub, word, writer, files, pc, task, arming, turning, ready,
                 pinged, heap, late, owed, timerRef, work, refs, active, ops>>

Idle == pc = "idle" /\ ~micro

\* A task of the browser calls turn(); a turn that yielded goes on in its phase.
BeginTurn ==
  /\ pc' = "turn" /\ task' = "turn"
  /\ phase' = IF phase = 0 THEN 1 ELSE phase
  /\ ran' = (phase # 0 /\ ran)
  /\ owed' = IF phase = 0 THEN {t \in Live: left[t] = 0} ELSE owed

TaskPing ==
  /\ Idle /\ pinged
  /\ pinged' = FALSE
  /\ BeginTurn
  /\ UNCHANGED <<pipes, sub, word, writer, files, arming, exitCheck, ready,
                 heap, left, late, timerRef, hostLeft, work, refs, active, ops>>

TaskTimer ==
  /\ Idle /\ hostLeft = 0
  /\ hostLeft' = -1
  /\ BeginTurn
  /\ UNCHANGED <<pipes, sub, word, writer, files, arming, exitCheck, ready,
                 pinged, heap, left, late, timerRef, work, refs, active, ops>>

TaskWake ==
  /\ Idle /\ wait = "resolved"
  /\ wait' = "none"
  /\ BeginTurn
  /\ UNCHANGED <<pipes, sub, evq, fresh, writer, files, arming, exitCheck, ready,
                 pinged, heap, left, late, timerRef, hostLeft, work, refs, active, ops>>

\* The continuation of a native promise, outside of any turn.
FetchSettles ==
  /\ Idle /\ fetching
  /\ fetching' = FALSE
  /\ refs' = refs - 1
  /\ pinged' = (pinged \/ ReleasePings)
  /\ pc' = "guest" /\ task' = "native"
  /\ UNCHANGED <<pipes, sub, word, writer, files, arming, turning, ready,
                 timers, imm, batch, micro, active, ops>>

Microtask ==
  /\ pc = "idle" /\ micro
  /\ micro' = FALSE
  /\ pc' = "guest" /\ task' = "native"
  /\ UNCHANGED <<pipes, sub, word, writer, files, arming, turning, ready,
                 pinged, timers, imm, batch, fetching, refs, active, ops>>

-----------------------------------------------------------------------------
\* A turn

TimerDue == heap # <<>> /\ left[heap[1]] = 0 /\ heap[1] \notin late

StepTimer ==
  /\ pc = "turn" /\ phase = 1 /\ TimerDue
  /\ heap' = Tail(heap)
  /\ refs' = refs - (IF heap[1] \in timerRef THEN 1 ELSE 0)
  /\ timerRef' = timerRef \ {heap[1]}
  /\ ran' = TRUE
  /\ pc' = "guest"
  /\ UNCHANGED <<pipes, sub, word, writer, files, task, arming, phase, exitCheck, ready,
                 pinged, left, late, owed, hostLeft, work, active, ops>>

\* Mutant: the kernel's events come first.
TimersDoneEarly == TRUE

TimersDone == ~TimerDue

EndTimers ==
  /\ pc = "turn" /\ phase = 1 /\ TimersDone
  /\ phase' = 2
  /\ pc' = "take"
  /\ UNCHANGED <<pipes, sub, word, writer, files, task, arming, ran, exitCheck, ready,
                 pinged, timers, work, refs, active, ops>>

\* takeKernel: takes until nothing is queued.
Take(at, next) ==
  /\ pc = at
  /\ ready' = ready \o evq
  /\ evq' = <<>>
  /\ pc' = IF evq = <<>> THEN next ELSE at
  /\ UNCHANGED <<pipes, sub, fresh, wait, writer, files, task, arming, turning,
                 pinged, timers, work, refs, active, ops>>

\* The handler is looked up now, not when the event was taken.
StepKernel ==
  /\ pc = "turn" /\ phase = 2 /\ ready # <<>>
  /\ ready' = Tail(ready)
  /\ ran' = TRUE
  /\ pc' = IF Head(ready).fd \in handler THEN "pump" ELSE Returned
  /\ arming' = Head(ready).fd
  /\ UNCHANGED <<pipes, sub, word, writer, files, task, phase, exitCheck,
                 pinged, timers, work, refs, active, ops>>

EndKernel ==
  /\ pc = "turn" /\ phase = 2 /\ ready = <<>>
  /\ phase' = 3
  /\ batch' = imm /\ imm' = 0
  /\ UNCHANGED <<pipes, sub, word, writer, files, pc, task, arming, ran, exitCheck, ready,
                 pinged, timers, fetching, micro, refs, active, ops>>

StepImmediate ==
  /\ pc = "turn" /\ phase = 3 /\ batch > 0
  /\ batch' = batch - 1
  /\ refs' = refs - 1
  /\ ran' = TRUE
  /\ pc' = "guest"
  /\ UNCHANGED <<pipes, sub, word, writer, files, task, arming, phase, exitCheck, ready,
                 pinged, timers, imm, fetching, micro, active, ops>>

\* The end of a turn: immediates of this turn and the next timer are waited for,
\* then the kernel.
EndTurn ==
  /\ pc = "turn" /\ phase = 3 /\ batch = 0
  /\ phase' = 0
  /\ pinged' = (pinged \/ imm > 0 \/ WantsPing(heap, left))
  /\ hostLeft' = HostLeft(heap, left)
  /\ late' = {}
  /\ task' = "end"
  /\ pc' = IF wait # "none" THEN "check" ELSE "load"
  /\ UNCHANGED <<pipes, sub, word, writer, files, arming, ran, exitCheck, ready,
                 heap, left, owed, timerRef, work, refs, active, ops>>

\* armKernelWait
LoadWord ==
  /\ pc = "load"
  /\ fresh' = TRUE
  /\ pc' = "rest"
  /\ UNCHANGED <<pipes, sub, evq, wait, writer, files, task, arming, turning, ready,
                 pinged, timers, work, refs, active, ops>>

\* Mutant: what was queued between the last take and the load is not looked at.
RestUnread ==
  /\ pc = "rest"
  /\ pc' = "await"
  /\ UNCHANGED <<pipes, sub, word, writer, files, task, arming, turning, ready,
                 pinged, timers, work, refs, active, ops>>

TakeRest == Take("rest", "await")

WaitAsync ==
  /\ pc = "await"
  /\ IF ready # <<>> \/ ~fresh
     THEN pinged' = TRUE /\ UNCHANGED wait
     ELSE wait' = "pending" /\ UNCHANGED pinged
  /\ fresh' = FALSE
  /\ pc' = "check"
  /\ UNCHANGED <<pipes, sub, evq, writer, files, task, arming, turning, ready,
                 timers, work, refs, active, ops>>

\* Mutant: looks taken before anything ran still count.
CountdownKept == exitCheck

\* Is anything left that keeps the process alive?  One look more after the
\* microtasks of this turn, then beforeExit, then the end.
Countdown == IF ran THEN 0 ELSE exitCheck

Done == refs <= 0 /\ ready = <<>>

Check ==
  /\ pc = "check"
  /\ ~(Done /\ Countdown = 2)
  /\ exitCheck' = IF Done THEN Countdown + 1 ELSE 0
  /\ pinged' = (pinged \/ Done)
  /\ pc' = IF Done /\ Countdown = 1 THEN "guest" ELSE "idle"
  /\ UNCHANGED <<pipes, sub, word, writer, files, task, arming, phase, ran, ready,
                 timers, work, refs, active, ops>>

Drained ==
  /\ pc = "check" /\ Done /\ Countdown = 2
  /\ pc' = "stopped"
  /\ UNCHANGED <<pipes, sub, word, writer, files, task, arming, turning, ready,
                 pinged, timers, work, refs, active, ops>>

-----------------------------------------------------------------------------
\* The reader of a file: pump and stop of inStream (node/process.ts)

\* stop: the handler goes (offFd), and the reference with it.
StopReading(d) ==
  /\ handler' = handler \ {d}
  /\ sub' = sub \ {fdfile[d]}
  /\ refs' = refs - 1
  /\ pinged' = (pinged \/ ReleasePings)

\* What is there is read, up to the end of file.
PumpAll ==
  LET f == fdfile[arming] IN
  /\ pc = "pump" /\ f # None /\ Unlocked(f)
  /\ data' = [data EXCEPT ![f] = 0]
  /\ IF wclosed[f]
     THEN /\ StopReading(arming)
          /\ status' = [status EXCEPT ![f] = "ended"]
     ELSE UNCHANGED <<handler, sub, refs, pinged, status>>
  /\ pc' = "guest"
  /\ UNCHANGED <<wclosed, sent, word, writer, fdfile, task, arming, turning, ready,
                 timers, work, active, ops>>

\* The stream takes no more: reading stops, with data left or not.
PumpFull ==
  LET f == fdfile[arming] IN
  /\ pc = "pump" /\ f # None /\ Unlocked(f) /\ data[f] > 0
  /\ \E n \in 0..data[f] - 1: data' = [data EXCEPT ![f] = n]
  /\ StopReading(arming)
  /\ pc' = "guest"
  /\ UNCHANGED <<wclosed, sent, word, writer, status, fdfile, task, arming, turning,
                 ready, timers, work, active, ops>>

\* read: a reference, a handler and a subscription.
StartReading(d) ==
  /\ handler' = handler \cup {d}
  /\ refs' = refs + 1
  /\ arming' = d
  /\ pc' = "subscribe"

\* bat_fd_subscribe: the subscription, then a look at what is there already.
Subscribe ==
  LET f == fdfile[arming] IN
  /\ pc = "subscribe" /\ Unlocked(f)
  /\ sub' = sub \cup {f}
  /\ pc' = "level"
  /\ UNCHANGED <<pipes, word, writer, files, task, arming, turning, ready,
                 pinged, timers, work, refs, active, ops>>

Readable(f) == data[f] > 0 \/ wclosed[f]

\* Mutant: only what comes later is told.
LevelUnchecked ==
  /\ pc = "level" /\ Unlocked(fdfile[arming])
  /\ pinged' = TRUE /\ pc' = Returned
  /\ UNCHANGED <<pipes, sub, word, writer, files, task, arming, turning, ready,
                 timers, work, refs, active, ops>>

Level ==
  LET f == fdfile[arming] IN
  /\ pc = "level" /\ Unlocked(f)
  /\ IF Readable(f)
     THEN evq' = Queued(evq, arming) /\ Bumped
     ELSE UNCHANGED word
  /\ pinged' = TRUE
  /\ pc' = Returned
  /\ UNCHANGED <<pipes, sub, writer, files, task, arming, turning, ready,
                 timers, work, refs, active, ops>>

-----------------------------------------------------------------------------
\* Guest code

\* Where a timer with this delay goes in the heap: behind those due before it
\* and those due at the same time that were armed before.
Armed(t, n) ==
  InsertAt(heap, Cardinality({i \in DOMAIN heap: left[heap[i]] <= n}) + 1, t)

SetTimeout(t, n) ==
  LET l == [left EXCEPT ![t] = n] IN
  /\ t \notin Live
  /\ heap' = Armed(t, n)
  /\ left' = l
  /\ late' = IF phase # 0 THEN late \cup {t} ELSE late
  /\ owed' = owed \ {t}
  /\ timerRef' = timerRef \cup {t}
  /\ refs' = refs + 1
  /\ pinged' = (pinged \/ WantsPing(heap', l))
  /\ hostLeft' = HostLeft(heap', l)
  /\ ops' = ops + 1
  /\ pc' = Returned
  /\ UNCHANGED <<sub, files, arming, work, data>>

\* clearTimeout and unref: a reference less, if the timer held one.
DropTimer(t, h) ==
  /\ t \in Live
  /\ heap' = h
  /\ left' = IF h = heap THEN left ELSE [left EXCEPT ![t] = 0]
  /\ timerRef' = timerRef \ {t}
  /\ refs' = refs - (IF t \in timerRef THEN 1 ELSE 0)
  /\ pinged' = (pinged \/ (t \in timerRef /\ ReleasePings))
  /\ pc' = Returned
  /\ UNCHANGED <<sub, files, arming, late, owed, hostLeft, work, ops, data>>

ClearTimeout(t) == DropTimer(t, RemoveAt(heap, CHOOSE i \in DOMAIN heap: heap[i] = t))

Unref(t) == t \in timerRef /\ DropTimer(t, heap)

SetImmediate ==
  /\ imm' = imm + 1 /\ refs' = refs + 1
  /\ pinged' = TRUE
  /\ ops' = ops + 1
  /\ pc' = Returned
  /\ UNCHANGED <<sub, files, arming, timers, batch, fetching, micro, data>>

Fetch ==
  /\ ~fetching /\ fetching' = TRUE
  /\ refs' = refs + 1
  /\ ops' = ops + 1
  /\ pc' = Returned
  /\ UNCHANGED <<sub, files, arming, pinged, timers, imm, batch, micro, data>>

QueueMicrotask ==
  /\ ~micro /\ micro' = TRUE
  /\ ops' = ops + 1
  /\ pc' = Returned
  /\ UNCHANGED <<sub, files, arming, pinged, timers, imm, batch, fetching, refs, data>>

\* The reader of an open file that was full asks for more.
Resume(d) ==
  /\ fdfile[d] # None /\ status[fdfile[d]] = "open" /\ d \notin handler
  /\ StartReading(d)
  /\ UNCHANGED <<sub, status, fdfile, pinged, timers, work, ops, data>>

Open(f) ==
  \E d \in Fds:
    /\ status[f] = "new" /\ fdfile[d] = None
    /\ \A e \in Fds: fdfile[e] = None => d <= e
    /\ status' = [status EXCEPT ![f] = "open"]
    /\ fdfile' = [fdfile EXCEPT ![d] = f]
    /\ StartReading(d)
    /\ UNCHANGED <<sub, pinged, timers, work, ops, data>>

GuestOps ==
  \/ ops < MaxOps /\ \E t \in Timers, n \in {1, Long}: SetTimeout(t, n)
  \/ \E t \in Timers: ClearTimeout(t) \/ Unref(t)
  \/ ops < MaxOps /\ (SetImmediate \/ Fetch \/ QueueMicrotask)
  \/ \E d \in Fds: Resume(d)
  \/ \E f \in Files: Open(f)

Guest ==
  /\ pc = "guest"
  /\ GuestOps
  /\ UNCHANGED <<wclosed, sent, word, writer, task, turning, ready, active>>

\* Mutant: what is queued for the number stays.
PurgedNothing(q, d) == q

\* kernel.close of the number: the subscription goes, and with it what is queued,
\* which is at most one event.
Purged(q, d) ==
  IF \A i \in DOMAIN q: q[i].fd # d THEN q
  ELSE RemoveAt(q, CHOOSE i \in DOMAIN q: q[i].fd = d)

CloseFile(d) ==
  /\ pc = "guest" /\ fdfile[d] # None /\ Unlocked(fdfile[d])
  /\ IF d \in handler THEN StopReading(d)
     ELSE UNCHANGED <<handler, refs, pinged>> /\ sub' = sub \ {fdfile[d]}
  /\ status' = [status EXCEPT ![fdfile[d]] = "closed"]
  /\ fdfile' = [fdfile EXCEPT ![d] = None]
  /\ evq' = Purged(evq, d)
  /\ pc' = Returned
  /\ UNCHANGED <<pipes, fresh, wait, writer, task, arming, turning, ready,
                 timers, work, active, ops>>

\* A callback that asks for nothing (more).
Return ==
  /\ pc = "guest"
  /\ pc' = Returned
  /\ UNCHANGED <<pipes, sub, word, writer, files, task, arming, turning, ready,
                 pinged, timers, work, refs, active, ops>>

Yield ==
  /\ pc = "back"
  /\ pinged' = TRUE
  /\ pc' = "idle"
  /\ UNCHANGED <<pipes, sub, word, writer, files, task, arming, turning, ready,
                 timers, work, refs, active, ops>>

-----------------------------------------------------------------------------

Turn ==
  \/ StepTimer \/ EndTimers \/ Take("take", "turn") \/ StepKernel \/ EndKernel
  \/ StepImmediate \/ EndTurn \/ LoadWord \/ TakeRest \/ WaitAsync
  \/ Check \/ Drained
  \/ PumpAll \/ PumpFull \/ Subscribe \/ Level
  \/ Guest \/ (\E d \in Fds: CloseFile(d)) \/ Return \/ Yield

Task == TaskPing \/ TaskTimer \/ TaskWake \/ FetchSettles \/ Microtask

Wake == WakeBump \/ WakeNotify

Next ==
  \/ Turn \/ Task \/ Tick \/ Wake
  \/ \E f \in Files: Write(f) \/ CloseWriter(f)

Spec == Init /\ [][Next]_vars

\* The thread runs on as long as it has something to run, and time passes.
FairSpec == Spec /\ WF_vars(Turn \/ Task) /\ WF_vars(Tick) /\ WF_vars(Wake)

-----------------------------------------------------------------------------

PCs == {"idle", "turn", "take", "load", "rest", "await", "check", "pump",
        "subscribe", "level", "guest", "back", "stopped"}
Events == [fd: Fds, of: Files]

PipeTypes ==
  /\ data \in [Files -> 0..MaxData] /\ sent \in [Files -> 0..MaxData]
  /\ \A f \in Files: data[f] <= sent[f]
  /\ wclosed \in [Files -> BOOLEAN]
  /\ ppc \in {"idle", "bump", "notify"} /\ pfile \in Files \cup {None}
  /\ status \in [Files -> {"new", "open", "ended", "closed"}]

QueueTypes ==
  /\ sub \subseteq Files /\ fdfile \in [Fds -> Files \cup {None}]
  /\ handler \subseteq Fds /\ IsFiniteSet(handler)
  /\ evq \in Seq(Events) /\ ready \in Seq(Events)
  /\ fresh \in BOOLEAN /\ wait \in {"none", "pending", "resolved"}

LoopTypes ==
  /\ pc \in PCs /\ task \in {"turn", "native", "end"} /\ arming \in Fds
  /\ phase \in 0..3 /\ exitCheck \in 0..2
  /\ imm \in Nat /\ batch \in Nat /\ refs \in Int /\ ops \in Nat

TimerTypes ==
  /\ heap \in Seq(Timers) /\ left \in [Timers -> 0..Long]
  /\ late \subseteq Timers /\ owed \subseteq Timers
  /\ timerRef \subseteq Timers /\ IsFiniteSet(timerRef)
  /\ hostLeft \in -1..Long

FlagTypes ==
  /\ ran \in BOOLEAN /\ pinged \in BOOLEAN /\ fetching \in BOOLEAN
  /\ micro \in BOOLEAN /\ active \in BOOLEAN

TypeOK == PipeTypes /\ QueueTypes /\ LoopTypes /\ TimerTypes /\ FlagTypes

\* The number of references is that of the things that hold one: live timers,
\* immediates, a fetch, readers (released() and its callers).
RefsCounted ==
  /\ timerRef \subseteq Live
  /\ refs = Cardinality(timerRef) + imm + batch + Cardinality(handler)
            + (IF fetching THEN 1 ELSE 0)

\* armKernelWait, scheduleWake, ping: when the thread sleeps and nothing is under
\* way that wakes it, there is nothing it should have seen: no event, nothing
\* readable for a reader, no immediate, no timer that is due or that the host's
\* timer will come too late for.
Asleep ==
  /\ Idle /\ ~pinged /\ wait # "resolved" /\ hostLeft # 0 /\ ppc = "idle"

NoLostWakeup ==
  Asleep =>
    /\ evq = <<>> /\ ready = <<>> /\ imm = 0
    /\ \A d \in handler: ~Readable(fdfile[d])
    /\ \A t \in Live: hostLeft > 0 /\ hostLeft <= left[t]

\* Process::close: "an event still queued for this fd must not be delivered to
\* whatever is opened next" (proc.rs): the kernel's queue holds events only of
\* the file that is open at the number.
QueuedForOwner == \A i \in DOMAIN evq: fdfile[evq[i].fd] = evq[i].of

\* The same of the events the loop has taken already.  The code does not keep this:
\* they are known by their number, and its next owner hears of them.
DeliveredToOwner ==
  pc = "turn" /\ phase = 2 /\ ready # <<>> /\ Head(ready).fd \in handler =>
    fdfile[Head(ready).fd] = Head(ready).of

\* drained(): the process ends only when nothing is left that could run.
EndsIdle == Stopped => refs = 0 /\ ~micro /\ imm = 0 /\ ready = <<>>

\* "a timer that came due while the previous turn was running always fires
\* before a file-watch event is delivered" (loop.ts): no event is delivered
\* while a timer waits that was due when the turn began.
TimersFirst == [][Len(ready') < Len(ready) => owed \cap Live = {}]_vars

\* A reader is told of what it can read, and a timer fires, unless it is
\* cleared or the process ends.
Reading(f) == \E d \in handler: fdfile[d] = f

Served ==
  /\ \A f \in Files: Reading(f) /\ Readable(f) ~>
       Stopped \/ ~Reading(f) \/ ~Readable(f)
  /\ \A t \in Timers: t \in Live /\ left[t] = 0 ~>
       Stopped \/ t \notin Live \/ left[t] > 0

\* "a process whose last reference went that way sat until its next timer or
\* kernel event, or for ever" (loop.ts, of what released() is for): without
\* references the process ends, or something takes one again.
EndsWhenDone == refs <= 0 ~> refs > 0 \/ Stopped
=============================================================================
