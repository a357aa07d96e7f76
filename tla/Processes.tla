----------------------------- MODULE Processes -----------------------------
(***************************************************************************)
(* The life of a process: the process table (crates/bat-kernel/src/        *)
(* proc.rs) together with the supervisor that gives processes their        *)
(* workers and takes them away (runtime/src/kernel/kerneld.ts).            *)
(*                                                                         *)
(* The actors are the workers, one for each process and named after it,    *)
(* and kerneld.  A worker that exits runs proc::finish itself; kerneld     *)
(* runs it for a process it has killed, that crashed, or that never        *)
(* started.  A step is one access to shared memory or one critical section *)
(* of a lock.  kerneld is one JavaScript thread: it empties the work queue *)
(* without giving way, and timers, messages and the continuations of its   *)
(* asynchronous spawns run only while it awaits its word.                  *)
(*                                                                         *)
(* Termination takes a worker between two of its steps (KernelLock).       *)
(* KillWindows says in which calls it may: "exit" inside proc::finish,     *)
(* "spawn" inside proc::spawn; and "start": a process may be killed before *)
(* it has its worker.  Nothing in the code keeps a kill out of the three.  *)
(***************************************************************************)
EXTENDS Integers, Sequences, FiniteSets

CONSTANTS
  MaxPid,       \* bound: how many processes there ever are
  Kerneld,
  Codes,        \* the codes programs exit with
  KillWindows,  \* see above
  MaxFaults     \* bound: how many kills and crashes there are

Procs == 1..MaxPid
Page == 1
Killed == 137   \* 128 + SIGKILL
Crashed == 1
NotStarted == 127

ASSUME ProcessesAssumption ==
  /\ MaxPid \in Nat \ {0}
  /\ Kerneld \notin Procs
  /\ Codes \subseteq 0..255
  /\ KillWindows \subseteq {"exit", "spawn", "start"}
  /\ MaxFaults \in Nat

VARIABLES
  \* struct Process
  state, status, parent, files,
  table,        \* PROCS
  told,         \* TOKEN_CHILD has been posted to the parent
  outcome,      \* what the call of finish that took effect was given
  \* the actors
  pc,
  obj,          \* the process the current call is about
  code,         \* the status passed to finish
  orphans,      \* finish: the dead children it found
  fresh,        \* waitpid: the word of exit_wq is still what was read
  result,       \* waitpid: what the last call returned, and what it should have
  \* kerneld
  sup,          \* SUP, the supervisor's work queue
  worker,       \* the Proc objects: what has become of each process's worker
  crashes,      \* onerror messages not handled yet
  after,        \* what kerneld does when finish returns
  faults        \* how many kills and crashes there have been

record == <<state, status, parent, files, told, outcome>>
locals == <<obj, code, orphans, fresh, result>>
daemon == <<sup, worker, crashes, after, faults>>
vars == <<record, table, pc, locals, daemon>>

Actors == Procs \cup {Kerneld}
None == -1
Work == [kind: {"spawn", "kill", "exit"}, pid: Procs]

Finishing == {"fswap", "fstatus", "ftake", "fclose", "fbump", "fnotify", "flook",
              "fpost", "fremove", "fcollect", "freap", "freport"}
Spawning == {"sreq"}
Waiting == {"wseq", "wload", "wsleep", "wasleep", "wremove", "wstatus"}
WorkerPC == {"none", "boot", "attach", "user", "stray", "done", "gone"}
            \cup Finishing \cup Spawning \cup Waiting
KerneldPC == {"await", "drain", "kill", "crashed"} \cup Finishing

Goto(a, at) == pc' = [pc EXCEPT ![a] = at]

Init ==
  /\ state = [p \in Procs |-> IF p = Page THEN "running" ELSE "unborn"]
  /\ status = [p \in Procs |-> 0]
  /\ parent = [p \in Procs |-> 0]
  /\ files = [p \in Procs |-> "open"]
  /\ table = {Page}
  /\ told = [p \in Procs |-> FALSE]
  /\ outcome = [p \in Procs |-> None]
  /\ pc = [a \in Actors |-> CASE a = Page -> "user" [] a = Kerneld -> "await" [] OTHER -> "none"]
  /\ obj = [a \in Actors |-> Page]
  /\ code = [a \in Actors |-> 0]
  /\ orphans = [a \in Actors |-> {}]
  /\ fresh = [p \in Procs |-> FALSE]
  /\ result = [p \in Procs |-> [got |-> None, due |-> None]]
  /\ sup = <<>>
  /\ worker = [p \in Procs |-> "none"]
  /\ crashes = {}
  /\ after = "await"
  /\ faults = 0

-----------------------------------------------------------------------------
\* proc::spawn: the record goes into the table, then the request to kerneld.
\* Pids count up and are never reused.

SpawnNew(a) ==
  LET unborn == {p \in Procs: state[p] = "unborn"}
      child == CHOOSE p \in unborn: \A q \in unborn: p <= q
  IN
  /\ pc[a] = "user" /\ unborn # {}
  /\ state' = [state EXCEPT ![child] = "starting"]
  /\ parent' = [parent EXCEPT ![child] = a]
  /\ table' = table \cup {child}
  /\ obj' = [obj EXCEPT ![a] = child]
  /\ Goto(a, "sreq")
  /\ UNCHANGED <<status, files, told, outcome, code, orphans, fresh, result, daemon>>

\* Mutant: the request is forgotten.
SpawnUnqueued(a) ==
  /\ pc[a] = "sreq"
  /\ Goto(a, "user")
  /\ UNCHANGED <<record, table, locals, daemon>>

SpawnRequest(a) ==
  /\ pc[a] = "sreq"
  /\ sup' = Append(sup, [kind |-> "spawn", pid |-> obj[a]])
  /\ Goto(a, "user")
  /\ UNCHANGED <<record, table, locals, worker, crashes, after, faults>>

-----------------------------------------------------------------------------
\* proc::kill with SIGKILL: a request to kerneld.

Kill(a, p) ==
  /\ pc[a] = "user" /\ faults < MaxFaults
  /\ p # Page /\ p \in table /\ state[p] # "exited"
  /\ state[p] = "starting" => "start" \in KillWindows
  /\ sup' = Append(sup, [kind |-> "kill", pid |-> p])
  /\ faults' = faults + 1
  /\ UNCHANGED <<record, table, pc, locals, worker, crashes, after>>

-----------------------------------------------------------------------------
\* proc::attach, the worker's first call for its process: the record is looked
\* up, then a starting process becomes running.

AttachGet(p) ==
  /\ pc[p] = "boot"
  /\ Goto(p, IF p \in table THEN "attach" ELSE "stray")
  /\ UNCHANGED <<record, table, locals, daemon>>

Attach(p) ==
  /\ pc[p] = "attach"
  /\ state' = [state EXCEPT ![p] = IF @ = "starting" THEN "running" ELSE @]
  /\ Goto(p, "user")
  /\ UNCHANGED <<status, parent, files, told, outcome, table, locals, daemon>>

-----------------------------------------------------------------------------
\* proc::finish, by the process's own worker (bat_proc_exit) or by kerneld
\* (bat_proc_mark_exited).

Return(a) == Goto(a, IF a = Kerneld THEN after ELSE "done")

Exit(p, c) ==
  /\ pc[p] = "user" /\ p # Page
  /\ obj' = [obj EXCEPT ![p] = p]
  /\ code' = [code EXCEPT ![p] = c]
  /\ Goto(p, "fswap")
  /\ UNCHANGED <<record, table, orphans, fresh, result, daemon>>

\* Mutant: no early return for a process that has exited already.
FinishAgain(a) ==
  /\ pc[a] = "fswap"
  /\ state' = [state EXCEPT ![obj[a]] = "exited"]
  /\ outcome' = [outcome EXCEPT ![obj[a]] = IF @ = None THEN code[a] ELSE @]
  /\ Goto(a, "fstatus")
  /\ UNCHANGED <<status, parent, files, told, table, locals, daemon>>

\* Only the first caller goes on.
FinishSwap(a) ==
  LET p == obj[a]
      first == state[p] # "exited"
  IN
  /\ pc[a] = "fswap"
  /\ state' = [state EXCEPT ![p] = "exited"]
  /\ outcome' = [outcome EXCEPT ![p] = IF first THEN code[a] ELSE @]
  /\ IF first THEN Goto(a, "fstatus") ELSE Return(a)
  /\ UNCHANGED <<status, parent, files, told, table, locals, daemon>>

FinishStatus(a) ==
  /\ pc[a] = "fstatus"
  /\ status' = [status EXCEPT ![obj[a]] = code[a]]
  /\ Goto(a, "ftake")
  /\ UNCHANGED <<state, parent, files, told, outcome, table, locals, daemon>>

FinishTakeFiles(a) ==
  /\ pc[a] = "ftake"
  /\ files' = [files EXCEPT ![obj[a]] = "taken"]
  /\ Goto(a, "fclose")
  /\ UNCHANGED <<state, status, parent, told, outcome, table, locals, daemon>>

FinishCloseFiles(a) ==
  /\ pc[a] = "fclose"
  /\ files' = [files EXCEPT ![obj[a]] = "closed"]
  /\ Goto(a, "fbump")
  /\ UNCHANGED <<state, status, parent, told, outcome, table, locals, daemon>>

\* exit_wq.wake_all
WaitersFor(p) == {a \in Procs: pc[a] \in Waiting /\ obj[a] = p}

FinishBump(a) ==
  /\ pc[a] = "fbump"
  /\ fresh' = [w \in Procs |-> fresh[w] /\ w \notin WaitersFor(obj[a])]
  /\ Goto(a, "fnotify")
  /\ UNCHANGED <<record, table, obj, code, orphans, result, daemon>>

FinishNotify(a) ==
  /\ pc[a] = "fnotify"
  /\ pc' = [b \in Actors |->
              CASE b = a -> "flook"
                [] b \in WaitersFor(obj[a]) /\ pc[b] = "wasleep" -> "wseq"
                [] OTHER -> pc[b]]
  /\ UNCHANGED <<record, table, locals, daemon>>

\* Mutant: a parent that is still in the table is taken to be alive.
FinishLookInTable(a) ==
  /\ pc[a] = "flook"
  /\ Goto(a, IF parent[obj[a]] \in table THEN "fpost" ELSE "fremove")
  /\ UNCHANGED <<record, table, locals, daemon>>

\* Is the parent there to wait for it?  A parent that has left the table has
\* exited.
FinishLook(a) ==
  /\ pc[a] = "flook"
  /\ Goto(a, IF state[parent[obj[a]]] # "exited" THEN "fpost" ELSE "fremove")
  /\ UNCHANGED <<record, table, locals, daemon>>

FinishPost(a) ==
  /\ pc[a] = "fpost"
  /\ told' = [told EXCEPT ![obj[a]] = TRUE]
  /\ Goto(a, "fcollect")
  /\ UNCHANGED <<state, status, parent, files, outcome, table, locals, daemon>>

FinishRemove(a) ==
  /\ pc[a] = "fremove"
  /\ table' = table \ {obj[a]}
  /\ Goto(a, "fcollect")
  /\ UNCHANGED <<record, locals, daemon>>

\* The dead children of the process, under one lock; then their removal, under
\* another.
FinishCollect(a) ==
  LET dead == {c \in table: parent[c] = obj[a] /\ state[c] = "exited"} IN
  /\ pc[a] = "fcollect"
  /\ orphans' = [orphans EXCEPT ![a] = dead]
  /\ Goto(a, IF dead = {} THEN "freport" ELSE "freap")
  /\ UNCHANGED <<record, table, obj, code, fresh, result, daemon>>

FinishReap(a) ==
  /\ pc[a] = "freap"
  /\ table' = table \ orphans[a]
  /\ orphans' = [orphans EXCEPT ![a] = {}]
  /\ Goto(a, "freport")
  /\ UNCHANGED <<record, obj, code, fresh, result, daemon>>

FinishReport(a) ==
  /\ pc[a] = "freport"
  /\ sup' = Append(sup, [kind |-> "exit", pid |-> obj[a]])
  /\ Return(a)
  /\ UNCHANGED <<record, table, locals, worker, crashes, after, faults>>

Finish(a) ==
  \/ FinishSwap(a) \/ FinishStatus(a) \/ FinishTakeFiles(a) \/ FinishCloseFiles(a)
  \/ FinishBump(a) \/ FinishNotify(a) \/ FinishLook(a) \/ FinishPost(a)
  \/ FinishRemove(a) \/ FinishCollect(a) \/ FinishReap(a) \/ FinishReport(a)

-----------------------------------------------------------------------------
\* proc::waitpid, by a worker, which may sleep, or by the page, which may not.

Wait(a, p) ==
  /\ pc[a] = "user"
  /\ p \in table /\ parent[p] = a
  /\ obj' = [obj EXCEPT ![a] = p]
  /\ Goto(a, "wseq")
  /\ UNCHANGED <<record, table, code, orphans, fresh, result, daemon>>

WaitSeq(a) ==
  /\ pc[a] = "wseq"
  /\ fresh' = [fresh EXCEPT ![a] = TRUE]
  /\ Goto(a, "wload")
  /\ UNCHANGED <<record, table, obj, code, orphans, result, daemon>>

\* With nohang, or on the page, the call is back at once.
WaitLoad(a) ==
  /\ pc[a] = "wload"
  /\ IF state[obj[a]] = "exited" THEN Goto(a, "wremove")
     ELSE \/ a # Page /\ Goto(a, "wsleep")
          \/ Goto(a, "user")
  /\ UNCHANGED <<record, table, locals, daemon>>

\* Mutant: the word is read again right before the sleep, not before the state.
WaitSleepOnNewWord(a) ==
  /\ pc[a] = "wsleep"
  /\ Goto(a, "wasleep")
  /\ UNCHANGED <<record, table, locals, daemon>>

WaitSleep(a) ==
  /\ pc[a] = "wsleep"
  /\ Goto(a, IF fresh[a] THEN "wasleep" ELSE "wseq")
  /\ UNCHANGED <<record, table, locals, daemon>>

WaitRemove(a) ==
  /\ pc[a] = "wremove"
  /\ table' = table \ {obj[a]}
  /\ Goto(a, "wstatus")
  /\ UNCHANGED <<record, locals, daemon>>

WaitStatus(a) ==
  /\ pc[a] = "wstatus"
  /\ result' = [result EXCEPT ![a] = [got |-> status[obj[a]], due |-> outcome[obj[a]]]]
  /\ Goto(a, "user")
  /\ UNCHANGED <<record, table, obj, code, orphans, fresh, daemon>>

WaitOn(a) == WaitSeq(a) \/ WaitLoad(a) \/ WaitSleep(a) \/ WaitRemove(a) \/ WaitStatus(a)

-----------------------------------------------------------------------------
\* kerneld's workers

\* An uncaught error in a program: the browser tells kerneld (worker.onerror).
Crash(p) ==
  /\ pc[p] = "user" /\ p # Page /\ faults < MaxFaults
  /\ crashes' = crashes \cup {p}
  /\ faults' = faults + 1
  /\ UNCHANGED <<record, table, pc, locals, sup, worker, after>>

\* Can the worker of p be terminated now?
MayTerminate(p) ==
  /\ pc[p] \in Finishing => "exit" \in KillWindows
  /\ pc[p] \in Spawning => "spawn" \in KillWindows

\* The pcs after the termination of p's worker, with kerneld's next one.
Terminated(p, at) == pc' = [pc EXCEPT ![p] = "gone", ![Kerneld] = at]

\* retire(proc, 0) of the worker of p, if there is one to retire.
Retire(p, at) ==
  IF worker[p] = "live"
  THEN MayTerminate(p) /\ worker' = [worker EXCEPT ![p] = "gone"] /\ Terminated(p, at)
  ELSE UNCHANGED worker /\ Goto(Kerneld, at)

\* finish, for p, by kerneld, which does `next' when it returns.
KerneldFinishes(p, c, next) ==
  /\ obj' = [obj EXCEPT ![Kerneld] = p]
  /\ code' = [code EXCEPT ![Kerneld] = c]
  /\ after' = next

\* supervise: the queue is emptied without an await.
Resume ==
  /\ pc[Kerneld] = "await" /\ sup # <<>>
  /\ Goto(Kerneld, "drain")
  /\ UNCHANGED <<record, table, locals, daemon>>

Drained ==
  /\ pc[Kerneld] = "drain" /\ sup = <<>>
  /\ Goto(Kerneld, "await")
  /\ UNCHANGED <<record, table, locals, daemon>>

TakeWork(kind, p) ==
  /\ pc[Kerneld] = "drain" /\ sup # <<>>
  /\ Head(sup) = [kind |-> kind, pid |-> p]
  /\ sup' = Tail(sup)

\* spawn(pid), as far as its await.
TakeSpawn(p) ==
  /\ TakeWork("spawn", p)
  /\ worker' = [worker EXCEPT ![p] = "awaited"]
  /\ UNCHANGED <<record, table, pc, locals, crashes, after, faults>>

\* kill(pid, SIGKILL): retire the worker, if procs has one, then finish.
TakeKill(p) ==
  /\ TakeWork("kill", p)
  /\ KerneldFinishes(p, Killed, "drain")
  /\ Goto(Kerneld, "kill")
  /\ UNCHANGED <<record, table, orphans, fresh, result, worker, crashes, faults>>

KillRetires ==
  /\ pc[Kerneld] = "kill"
  /\ Retire(obj[Kerneld], "fswap")
  /\ UNCHANGED <<record, table, locals, sup, crashes, after, faults>>

\* Mutant: the exit of a process is not followed up.
ExitIgnored(p) ==
  /\ TakeWork("exit", p)
  /\ UNCHANGED <<record, table, pc, locals, worker, crashes, after, faults>>

\* The process has exited: its worker goes in 50 ms.
TakeExit(p) ==
  /\ TakeWork("exit", p)
  /\ worker' = [worker EXCEPT ![p] = IF @ = "live" THEN "retiring" ELSE @]
  /\ UNCHANGED <<record, table, pc, locals, crashes, after, faults>>

TimerFires(p) ==
  /\ pc[Kerneld] = "await" /\ worker[p] = "retiring" /\ MayTerminate(p)
  /\ worker' = [worker EXCEPT ![p] = "gone"]
  /\ Terminated(p, "await")
  /\ UNCHANGED <<record, table, locals, sup, crashes, after, faults>>

\* The rest of spawn(pid): a worker is there, or cannot be had.
SpawnRuns(p) ==
  /\ pc[Kerneld] = "await" /\ worker[p] = "awaited"
  /\ worker' = [worker EXCEPT ![p] = "live"]
  /\ Goto(p, "boot")
  /\ UNCHANGED <<record, table, locals, sup, crashes, after, faults>>

SpawnFails(p) ==
  /\ pc[Kerneld] = "await" /\ worker[p] = "awaited"
  /\ worker' = [worker EXCEPT ![p] = "none"]
  /\ KerneldFinishes(p, NotStarted, "await")
  /\ Goto(Kerneld, "fswap")
  /\ UNCHANGED <<record, table, orphans, fresh, result, sup, crashes, faults>>

\* worker.onerror: finish, then retire.
TakeCrash(p) ==
  /\ pc[Kerneld] = "await" /\ p \in crashes
  /\ crashes' = crashes \ {p}
  /\ KerneldFinishes(p, Crashed, "crashed")
  /\ Goto(Kerneld, "fswap")
  /\ UNCHANGED <<record, table, orphans, fresh, result, sup, worker, faults>>

CrashRetires ==
  /\ pc[Kerneld] = "crashed"
  /\ Retire(obj[Kerneld], "await")
  /\ UNCHANGED <<record, table, locals, sup, crashes, after, faults>>

-----------------------------------------------------------------------------
\* What a program chooses to do, the steps of its calls, and kerneld.

Choose(p) ==
  \/ SpawnNew(p)
  \/ \E q \in Procs: Kill(p, q) \/ Wait(p, q)
  \/ \E c \in Codes: Exit(p, c)
  \/ Crash(p)

Step(p) == SpawnRequest(p) \/ AttachGet(p) \/ Attach(p) \/ Finish(p) \/ WaitOn(p)

Supervise ==
  \/ Resume \/ Drained \/ KillRetires \/ CrashRetires
  \/ \E p \in Procs: TakeSpawn(p) \/ TakeKill(p) \/ TakeExit(p)
  \/ Finish(Kerneld)

Callback(p) == TimerFires(p) \/ SpawnRuns(p) \/ SpawnFails(p) \/ TakeCrash(p)

Next ==
  \/ \E p \in Procs: Choose(p) \/ Step(p) \/ Callback(p)
  \/ Supervise

Spec == Init /\ [][Next]_vars

\* A call that was started goes on, kerneld goes on, and every callback of
\* its event loop runs in the end: while it awaits, timers, messages and
\* continuations take turns with it.
Fairness ==
  /\ \A p \in Procs: WF_vars(Step(p)) /\ SF_vars(Callback(p))
  /\ WF_vars(Supervise)

FairSpec == Spec /\ Fairness

-----------------------------------------------------------------------------

\* What was born is in the table, nothing else.
RecordTypes ==
  /\ state \in [Procs -> {"unborn", "starting", "running", "exited"}]
  /\ status \in [Procs -> 0..255]
  /\ parent \in [Procs -> Procs \cup {0}]
  /\ files \in [Procs -> {"open", "taken", "closed"}]
  /\ table \subseteq {p \in Procs: state[p] # "unborn"}
  /\ told \in [Procs -> BOOLEAN]
  /\ outcome \in [Procs -> 0..255 \cup {None}]

CallTypes ==
  /\ pc \in [Actors -> WorkerPC \cup KerneldPC]
  /\ pc[Kerneld] \in KerneldPC /\ \A p \in Procs: pc[p] \in WorkerPC
  /\ obj \in [Actors -> Procs] /\ code \in [Actors -> 0..255]
  /\ orphans \in [Actors -> SUBSET Procs]
  /\ fresh \in [Procs -> BOOLEAN]

DaemonTypes ==
  /\ sup \in Seq(Work)
  /\ worker \in [Procs -> {"none", "awaited", "live", "retiring", "gone"}]
  /\ crashes \subseteq Procs /\ faults \in 0..MaxFaults
  /\ after \in {"await", "drain", "crashed"}

\* Exactly the workers kerneld has terminated have stopped.
Stopped == \A p \in Procs: pc[p] = "gone" <=> worker[p] = "gone"

TypeOK == RecordTypes /\ CallTypes /\ DaemonTypes /\ Stopped

FinishingOf(p) == {a \in Actors: pc[a] \in Finishing \ {"fswap"} /\ obj[a] = p}

\* The status is published before the files are closed: a parent that has seen
\* the end of its child's pipes and then waits for it reads the child's status,
\* the one of the finish that came first (proc.rs, the comment in finish).
StatusBeforeEof == \A p \in Procs: files[p] = "closed" => status[p] = outcome[p]

\* A process that is dead, and done with dying, is in the table only while
\* somebody may wait for it: its parent is alive, or is dying and has yet to
\* look for dead children.  A child and its parent that exit at the same time
\* do not both leave the removal to the other.
NoZombies ==
  \A p \in table:
    state[p] = "exited" /\ FinishingOf(p) = {} =>
      \/ state[parent[p]] # "exited"
      \/ \E a \in FinishingOf(parent[p]):
           pc[a] # "freport" /\ (pc[a] = "freap" => p \in orphans[a])

\* "Wake the parent" (proc.rs, finish): no parent misses the exit of its child.
\* One that sleeps in waitpid although the child is dead will be woken, for the
\* finish of the child has yet to notify: it read the word of exit_wq before the
\* state, and finish changes them in the other order.  And where finish is over,
\* TOKEN_CHILD has been posted for every dead child that may still be waited for.
Announcing == {"fstatus", "ftake", "fclose", "fbump", "fnotify"}

NoMissedExit ==
  /\ \A a \in Procs:
       pc[a] = "wasleep" /\ state[obj[a]] = "exited" =>
         \E b \in FinishingOf(obj[a]): pc[b] \in Announcing
  /\ \A p \in table: state[p] = "exited" /\ FinishingOf(p) = {} => told[p]

\* waitpid returns the exit status (kernel-abi.md, section 3).  The code does not
\* keep this: between the store of the state and that of the status it returns 0.
WaitReturnsStatus == \A a \in Procs: result[a].got = result[a].due

\* A process that was created starts, or is reported dead.
SpawnServed == \A p \in Procs: state[p] = "starting" ~> state[p] # "starting"

\* The worker of a dead process is terminated.
WorkerStopped == \A p \in Procs: state[p] = "exited" ~> worker[p] \in {"none", "gone"}

=============================================================================
