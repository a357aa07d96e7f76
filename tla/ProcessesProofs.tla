--------------------------- MODULE ProcessesProofs ---------------------------
(***************************************************************************)
(* Proofs about the life of a process, for every number of processes, of   *)
(* kills and of crashes: types, that the status of a process is there      *)
(* before its files are closed, that no dead process stays in the table    *)
(* for ever, and that no parent misses the exit of its child.              *)
(***************************************************************************)
EXTENDS Processes, SequenceTheorems, WellFoundedInduction, TLAPS

\* The part of finish behind the swap.
Past == Finishing \ {"fswap"}

\* What has been asked for once is asked for once: a process has one worker.
Spawn(p) == [kind |-> "spawn", pid |-> p]
Requests(a, p) == pc[a] = "sreq" /\ obj[a] = p
Queued(p) == \E i \in DOMAIN sup: sup[i] = Spawn(p)

SpawnedOnce ==
  /\ \A p \in Procs: state[p] = "unborn" => worker[p] = "none" /\ ~Queued(p)
  /\ \A p \in Procs: Queued(p) => worker[p] = "none"
  /\ \A i, j \in DOMAIN sup: sup[i] = sup[j] /\ sup[i].kind = "spawn" => i = j
  /\ \A a, p \in Procs: Requests(a, p) => state[p] # "unborn" /\ worker[p] = "none" /\ ~Queued(p)
  /\ \A a, b, p \in Procs: Requests(a, p) /\ Requests(b, p) => a = b

\* Nobody kills, starts or ends the page, and everybody else has a parent.
PageLives ==
  /\ state[Page] = "running" /\ Page \notin crashes /\ worker[Page] # "awaited"
  /\ \A p \in table \ {Page}: parent[p] \in Procs
  /\ \A a \in Actors: pc[a] \in Finishing \cup {"kill", "sreq"} => obj[a] # Page
  /\ \A i \in DOMAIN sup: sup[i].kind \in {"spawn", "kill"} => sup[i].pid # Page

\* Who finishes a process publishes what it was given, and does it before it
\* touches the files.
Published ==
  /\ \A a \in Actors: pc[a] \in Past => state[obj[a]] = "exited"
  /\ \A a \in Actors: pc[a] = "fstatus" => outcome[obj[a]] = code[a]
  /\ \A a \in Actors: pc[a] \in Past \ {"fstatus"} => status[obj[a]] = outcome[obj[a]]
  /\ \A p \in Procs: files[p] # "open" => state[p] = "exited" /\ status[p] = outcome[p]

\* Who has yet to look for the dead children of q will find p.
Finds(b, q, p) ==
  /\ pc[b] \in Past /\ obj[b] = q /\ pc[b] # "freport"
  /\ pc[b] = "freap" => p \in orphans[b]

\* A dead process whose finish has looked at its parent, and found it alive.
Looked(p) ==
  /\ p \in table /\ state[p] = "exited"
  /\ \A a \in Actors: pc[a] \in Past /\ obj[a] = p => pc[a] \in {"fpost", "fcollect", "freap", "freport"}

Reaped ==
  \A p \in Procs: Looked(p) =>
    state[parent[p]] # "exited" \/ \E b \in Actors: Finds(b, parent[p], p)

-----------------------------------------------------------------------------

USE DEF record, locals, daemon, vars

\* The constants are what they should be.
LEMMA Constants ==
  /\ Kerneld \notin Procs /\ Page \in Procs
  /\ Procs \subseteq Actors /\ Kerneld \in Actors
  /\ \A a \in Actors: a \in Procs \/ a = Kerneld
  /\ Codes \subseteq 0..255 /\ MaxFaults \in Nat
  /\ Killed \in 0..255 /\ Crashed \in 0..255 /\ NotStarted \in 0..255
  BY ProcessesAssumption DEF Procs, Page, Actors, Killed, Crashed, NotStarted

\* The next child exists: among unborn pids there is a lowest.
LEMMA Lowest ==
  ASSUME NEW S \in SUBSET Nat, S # {}
  PROVE  \E m \in S: \A q \in S: m <= q
<1>1. PICK m \in S: \A q \in S: <<q, m>> \notin OpToRel(<, Nat)
  BY NatLessThanWellFounded, WFMin, Zenon
<1>2. \A q \in S: ~(q < m)
  BY <1>1, Zenon DEF OpToRel
<1> QED
  BY <1>2

\* What a step may be.  kerneld's own steps and its callbacks are apart.
Asks == \E a \in Procs: SpawnNew(a) \/ SpawnRequest(a) \/ \E p \in Procs: Kill(a, p)
Attaches == \E p \in Procs: AttachGet(p) \/ Attach(p)
Ends == \E p \in Procs: Crash(p) \/ \E c \in Codes: Exit(p, c)
Waits == \E a \in Procs: WaitOn(a) \/ \E p \in Procs: Wait(a, p)
Finishes == \E a \in Actors: Finish(a)
Turns == Resume \/ Drained
Takes == \E p \in Procs: TakeSpawn(p) \/ TakeKill(p) \/ TakeExit(p)
Retires == KillRetires \/ CrashRetires
Callbacks == \E p \in Procs: Callback(p)

LEMMA NextCases ==
  ASSUME Next
  PROVE  Asks \/ Attaches \/ Ends \/ Waits \/ Finishes \/ Turns \/ Takes \/ Retires \/ Callbacks
<1>1. CASE \E p \in Procs: Choose(p)
  BY <1>1 DEF Choose, Asks, Waits, Ends
<1>2. CASE \E p \in Procs: Step(p)
  BY <1>2, Constants DEF Step, Asks, Attaches, Waits, Finishes
<1>3. CASE \E p \in Procs: Callback(p)
  BY <1>3 DEF Callbacks
<1>4. CASE Supervise
  BY <1>4, Constants DEF Supervise, Turns, Takes, Retires, Finishes
<1> QED
  BY <1>1, <1>2, <1>3, <1>4 DEF Next

\* The child of a spawn is one of the unborn.
LEMMA ChildIsUnborn ==
  ASSUME NEW a \in Procs, SpawnNew(a)
  PROVE  \E child \in Procs:
           /\ state[child] = "unborn" /\ pc[a] = "user"
           /\ state' = [state EXCEPT ![child] = "starting"]
           /\ parent' = [parent EXCEPT ![child] = a]
           /\ table' = table \cup {child}
           /\ obj' = [obj EXCEPT ![a] = child]
           /\ pc' = [pc EXCEPT ![a] = "sreq"]
           /\ UNCHANGED <<status, files, told, outcome, code, orphans, fresh, result, daemon>>
<1> DEFINE unborn == {p \in Procs: state[p] = "unborn"}
<1> DEFINE child == CHOOSE p \in unborn: \A q \in unborn: p <= q
<1>1. child \in unborn
  <2>1. unborn \in SUBSET Procs /\ unborn # {}
    BY DEF SpawnNew
  <2>2. unborn \in SUBSET Nat
    BY DEF Procs
  <2>3. \E m \in unborn: \A q \in unborn: m <= q
    BY <2>1, <2>2, Lowest
  <2> HIDE DEF unborn
  <2> QED
    BY <2>3
<1>2. child \in Procs /\ state[child] = "unborn"
  BY <1>1
<1>3. /\ pc[a] = "user"
      /\ state' = [state EXCEPT ![child] = "starting"]
      /\ parent' = [parent EXCEPT ![child] = a]
      /\ table' = table \cup {child}
      /\ obj' = [obj EXCEPT ![a] = child]
      /\ pc' = [pc EXCEPT ![a] = "sreq"]
      /\ UNCHANGED <<status, files, told, outcome, code, orphans, fresh, result, daemon>>
  BY DEF SpawnNew, Goto
<1> HIDE DEF child
<1> QED
  BY <1>2, <1>3

-----------------------------------------------------------------------------

LEMMA InitTypes ==
  ASSUME Init
  PROVE  TypeOK
<1> USE Constants DEF Init
<1>1. RecordTypes
  BY DEF RecordTypes, None
<1>2. CallTypes
  BY DEF CallTypes, WorkerPC, KerneldPC
<1>3. DaemonTypes
  BY DEF DaemonTypes
<1>4. Stopped
  BY DEF Stopped
<1> QED
  BY <1>1, <1>2, <1>3, <1>4 DEF TypeOK

-----------------------------------------------------------------------------
\* Types

LEMMA RecordFrame ==
  ASSUME RecordTypes, UNCHANGED <<record, table>>
  PROVE  RecordTypes'
BY DEF RecordTypes

\* Only these steps write to the record of a process or to the table.
LEMMA RecordTypesStep ==
  ASSUME TypeOK, Next
  PROVE  RecordTypes'
<1>0. /\ RecordTypes
      /\ obj \in [Actors -> Procs] /\ code \in [Actors -> 0..255]
      /\ Procs \subseteq Actors
  BY Constants DEF TypeOK, CallTypes
<1>1. CASE Asks
  <2> PICK a \in Procs: SpawnNew(a) \/ SpawnRequest(a) \/ \E p \in Procs: Kill(a, p)
    BY <1>1 DEF Asks
  <2>1. CASE SpawnNew(a)
    <3> PICK child \in Procs:
           /\ state' = [state EXCEPT ![child] = "starting"]
           /\ parent' = [parent EXCEPT ![child] = a]
           /\ table' = table \cup {child}
           /\ UNCHANGED <<status, files, told, outcome>>
      BY <2>1, ChildIsUnborn
    <3> QED
      BY <1>0 DEF RecordTypes
  <2>2. CASE SpawnRequest(a)
    BY <1>0, <2>2, RecordFrame DEF SpawnRequest
  <2>3. CASE \E p \in Procs: Kill(a, p)
    BY <1>0, <2>3, RecordFrame DEF Kill
  <2> QED
    BY <2>1, <2>2, <2>3
<1>2. CASE Attaches
  <2> PICK p \in Procs: AttachGet(p) \/ Attach(p)
    BY <1>2 DEF Attaches
  <2>1. CASE AttachGet(p)
    BY <1>0, <2>1, RecordFrame DEF AttachGet
  <2>2. CASE Attach(p)
    BY <1>0, <2>2 DEF Attach, RecordTypes
  <2> QED
    BY <2>1, <2>2
<1>3. CASE Ends
  BY <1>0, <1>3, RecordFrame DEF Ends, Crash, Exit
<1>4. CASE Waits
  <2> PICK a \in Procs: WaitOn(a) \/ \E p \in Procs: Wait(a, p)
    BY <1>4 DEF Waits
  <2>1. CASE WaitRemove(a)
    BY <1>0, <2>1 DEF WaitRemove, RecordTypes
  <2>2. CASE ~WaitRemove(a)
    BY <1>0, <2>2, RecordFrame DEF WaitOn, Wait, WaitSeq, WaitLoad, WaitSleep, WaitStatus
  <2> QED
    BY <2>1, <2>2
<1>5. CASE Finishes
  <2> PICK a \in Actors: Finish(a)
    BY <1>5 DEF Finishes
  <2>1. CASE FinishSwap(a)
    BY <1>0, <2>1 DEF FinishSwap, RecordTypes
  <2>2. CASE FinishStatus(a)
    BY <1>0, <2>2 DEF FinishStatus, RecordTypes
  <2>3. CASE FinishTakeFiles(a) \/ FinishCloseFiles(a)
    BY <1>0, <2>3 DEF FinishTakeFiles, FinishCloseFiles, RecordTypes
  <2>4. CASE FinishPost(a)
    BY <1>0, <2>4 DEF FinishPost, RecordTypes
  <2>5. CASE FinishRemove(a) \/ FinishReap(a)
    BY <1>0, <2>5 DEF FinishRemove, FinishReap, RecordTypes
  <2>6. CASE FinishBump(a) \/ FinishNotify(a) \/ FinishLook(a) \/ FinishCollect(a) \/ FinishReport(a)
    BY <1>0, <2>6, RecordFrame
       DEF FinishBump, FinishNotify, FinishLook, FinishCollect, FinishReport
  <2> QED
    BY <2>1, <2>2, <2>3, <2>4, <2>5, <2>6 DEF Finish
<1>6. CASE Turns
  BY <1>0, <1>6, RecordFrame DEF Turns, Resume, Drained
<1>7. CASE Takes
  BY <1>0, <1>7, RecordFrame DEF Takes, TakeSpawn, TakeKill, TakeExit
<1>8. CASE Retires
  BY <1>0, <1>8, RecordFrame DEF Retires, KillRetires, CrashRetires
<1>9. CASE Callbacks
  BY <1>0, <1>9, RecordFrame DEF Callbacks, Callback, TimerFires, SpawnRuns, SpawnFails, TakeCrash
<1> QED
  BY <1>1, <1>2, <1>3, <1>4, <1>5, <1>6, <1>7, <1>8, <1>9, NextCases

\* Where the actors are, and what they carry.
PlaceTypes ==
  /\ pc \in [Actors -> WorkerPC \cup KerneldPC]
  /\ pc[Kerneld] \in KerneldPC /\ \A p \in Procs: pc[p] \in WorkerPC

CarryTypes ==
  /\ obj \in [Actors -> Procs] /\ code \in [Actors -> 0..255]
  /\ orphans \in [Actors -> SUBSET Procs]
  /\ fresh \in [Procs -> BOOLEAN]

LEMMA CallTypesParts == CallTypes <=> PlaceTypes /\ CarryTypes
BY DEF CallTypes, PlaceTypes, CarryTypes

LEMMA GotoKeeps ==
  ASSUME PlaceTypes, NEW a \in Actors, NEW at, Goto(a, at),
         a = Kerneld => at \in KerneldPC, a # Kerneld => at \in WorkerPC
  PROVE  PlaceTypes'
BY Constants DEF PlaceTypes, Goto

\* Who moves in its own ways stays on them.
LEMMA WorkerGoto ==
  ASSUME PlaceTypes, NEW p \in Procs, NEW at \in WorkerPC, Goto(p, at)
  PROVE  PlaceTypes'
BY GotoKeeps, Constants

LEMMA KerneldGoto ==
  ASSUME PlaceTypes, NEW at \in KerneldPC, Goto(Kerneld, at)
  PROVE  PlaceTypes'
BY GotoKeeps, Constants

LEMMA TerminatedKeeps ==
  ASSUME PlaceTypes, NEW p \in Procs, NEW at \in KerneldPC, Terminated(p, at)
  PROVE  PlaceTypes'
BY Constants DEF PlaceTypes, Terminated, WorkerPC

LEMMA FinishGoto ==
  ASSUME PlaceTypes, NEW a \in Actors, NEW at \in Finishing, Goto(a, at)
  PROVE  PlaceTypes'
BY GotoKeeps, Constants DEF WorkerPC, KerneldPC

LEMMA ReturnKeeps ==
  ASSUME PlaceTypes, DaemonTypes, NEW a \in Actors, Return(a)
  PROVE  PlaceTypes'
<1>1. after \in KerneldPC /\ "done" \in WorkerPC
  BY DEF DaemonTypes, KerneldPC, WorkerPC
<1> QED
  BY <1>1, GotoKeeps DEF Return

LEMMA PlaceFrame ==
  ASSUME PlaceTypes, UNCHANGED pc
  PROVE  PlaceTypes'
BY DEF PlaceTypes

LEMMA PlaceTypesStep ==
  ASSUME TypeOK, Next
  PROVE  PlaceTypes'
<1>0. PlaceTypes /\ DaemonTypes
  BY CallTypesParts DEF TypeOK
<1>w. {"user", "sreq", "attach", "stray", "boot", "wseq", "wload", "wsleep", "wasleep", "wremove",
       "wstatus", "done", "fswap"} \subseteq WorkerPC
  BY DEF WorkerPC, Waiting, Spawning, Finishing
<1>k. {"await", "drain", "kill", "fswap"} \subseteq KerneldPC
  BY DEF KerneldPC, Finishing
<1>f. {"fswap", "fstatus", "ftake", "fclose", "fbump", "fnotify", "flook",
       "fpost", "fremove", "fcollect", "freap", "freport"} = Finishing
  BY DEF Finishing
<1>1. CASE Asks
  <2> PICK a \in Procs: SpawnNew(a) \/ SpawnRequest(a) \/ \E p \in Procs: Kill(a, p)
    BY <1>1 DEF Asks
  <2>1. CASE SpawnNew(a)
    BY <1>0, <1>w, <2>1, WorkerGoto DEF SpawnNew
  <2>2. CASE SpawnRequest(a)
    BY <1>0, <1>w, <2>2, WorkerGoto DEF SpawnRequest
  <2>3. CASE \E p \in Procs: Kill(a, p)
    BY <1>0, <2>3, PlaceFrame DEF Kill
  <2> QED
    BY <2>1, <2>2, <2>3
<1>2. CASE Attaches
  <2> PICK p \in Procs: AttachGet(p) \/ Attach(p)
    BY <1>2 DEF Attaches
  <2>1. CASE AttachGet(p)
    BY <1>0, <1>w, <2>1, WorkerGoto DEF AttachGet
  <2>2. CASE Attach(p)
    BY <1>0, <1>w, <2>2, WorkerGoto DEF Attach
  <2> QED
    BY <2>1, <2>2
<1>3. CASE Ends
  <2> PICK p \in Procs: Crash(p) \/ \E c \in Codes: Exit(p, c)
    BY <1>3 DEF Ends
  <2>1. CASE Crash(p)
    BY <1>0, <2>1, PlaceFrame DEF Crash
  <2>2. CASE \E c \in Codes: Exit(p, c)
    BY <1>0, <1>w, <2>2, WorkerGoto DEF Exit
  <2> QED
    BY <2>1, <2>2
<1>4. CASE Waits
  <2> PICK a \in Procs: WaitOn(a) \/ \E p \in Procs: Wait(a, p)
    BY <1>4 DEF Waits
  <2>1. \E at \in WorkerPC: Goto(a, at)
    BY <1>w DEF WaitOn, Wait, WaitSeq, WaitLoad, WaitSleep, WaitRemove, WaitStatus
  <2> QED
    BY <1>0, <2>1, WorkerGoto
<1>5. CASE Finishes
  <2> PICK a \in Actors: Finish(a)
    BY <1>5 DEF Finishes
  <2>1. CASE FinishNotify(a)
    BY <1>0, <2>1, Constants DEF FinishNotify, PlaceTypes, WaitersFor, WorkerPC, KerneldPC, Finishing, Waiting
  <2>2. CASE ~FinishNotify(a) /\ ~Return(a)
    <3>1. \E at \in Finishing: Goto(a, at)
      BY <1>f, <2>2 DEF Finish, FinishSwap, FinishStatus, FinishTakeFiles, FinishCloseFiles,
        FinishBump, FinishLook, FinishPost, FinishRemove, FinishCollect, FinishReap, FinishReport
    <3> QED
      BY <1>0, <3>1, FinishGoto
  <2>3. CASE Return(a)
    BY <1>0, <2>3, ReturnKeeps
  <2> QED
    BY <2>1, <2>2, <2>3
<1>6. CASE Turns
  BY <1>0, <1>6, <1>k, KerneldGoto DEF Turns, Resume, Drained
<1>7. CASE Takes
  <2> PICK p \in Procs: TakeSpawn(p) \/ TakeKill(p) \/ TakeExit(p)
    BY <1>7 DEF Takes
  <2>1. CASE TakeKill(p)
    BY <1>0, <1>k, <2>1, KerneldGoto DEF TakeKill
  <2>2. CASE TakeSpawn(p) \/ TakeExit(p)
    BY <1>0, <2>2, PlaceFrame DEF TakeSpawn, TakeExit
  <2> QED
    BY <2>1, <2>2
<1>8. CASE Retires
  <2>1. \E at \in KerneldPC: Retire(obj[Kerneld], at)
    BY <1>8, <1>k DEF Retires, KillRetires, CrashRetires
  <2>2. obj[Kerneld] \in Procs
    BY Constants DEF TypeOK, CallTypes
  <2> QED
    BY <1>0, <2>1, <2>2, KerneldGoto, TerminatedKeeps DEF Retire
<1>9. CASE Callbacks
  <2> PICK p \in Procs: Callback(p)
    BY <1>9 DEF Callbacks
  <2>1. CASE TimerFires(p)
    BY <1>0, <1>k, <2>1, TerminatedKeeps DEF TimerFires
  <2>2. CASE SpawnRuns(p)
    BY <1>0, <1>w, <2>2, WorkerGoto DEF SpawnRuns
  <2>3. CASE SpawnFails(p) \/ TakeCrash(p)
    BY <1>0, <1>k, <2>3, KerneldGoto DEF SpawnFails, TakeCrash
  <2> QED
    BY <2>1, <2>2, <2>3 DEF Callback
<1> QED
  BY <1>1, <1>2, <1>3, <1>4, <1>5, <1>6, <1>7, <1>8, <1>9, NextCases

LEMMA CarryFrame ==
  ASSUME CarryTypes, UNCHANGED <<obj, code, orphans, fresh>>
  PROVE  CarryTypes'
BY DEF CarryTypes

LEMMA CarryTypesStep ==
  ASSUME TypeOK, Next
  PROVE  CarryTypes'
<1>0. CarryTypes
  BY CallTypesParts DEF TypeOK
<1>1. CASE Asks
  <2> PICK a \in Procs: SpawnNew(a) \/ SpawnRequest(a) \/ \E p \in Procs: Kill(a, p)
    BY <1>1 DEF Asks
  <2>1. CASE SpawnNew(a)
    <3>1. \E child \in Procs: obj' = [obj EXCEPT ![a] = child] /\ UNCHANGED <<code, orphans, fresh>>
      BY <2>1, ChildIsUnborn
    <3> QED
      BY <1>0, <3>1 DEF CarryTypes
  <2>2. CASE SpawnRequest(a) \/ \E p \in Procs: Kill(a, p)
    BY <1>0, <2>2, CarryFrame DEF SpawnRequest, Kill
  <2> QED
    BY <2>1, <2>2
<1>2. CASE Attaches
  BY <1>0, <1>2, CarryFrame DEF Attaches, AttachGet, Attach
<1>3. CASE Ends
  <2>1. CASE \E p \in Procs: Crash(p)
    BY <1>0, <2>1, CarryFrame DEF Crash
  <2>2. CASE \E p \in Procs: \E c \in Codes: Exit(p, c)
    BY <1>0, <2>2, Constants DEF Exit, CarryTypes
  <2> QED
    BY <1>3, <2>1, <2>2 DEF Ends
<1>4. CASE Waits
  <2> PICK a \in Procs: WaitOn(a) \/ \E p \in Procs: Wait(a, p)
    BY <1>4 DEF Waits
  <2>1. CASE \E p \in Procs: Wait(a, p)
    <3>1. \E p \in Procs: obj' = [obj EXCEPT ![a] = p]
      BY <2>1 DEF Wait
    <3>2. UNCHANGED <<code, orphans, fresh>>
      BY <2>1 DEF Wait
    <3> QED
      BY <1>0, <3>1, <3>2 DEF CarryTypes
  <2>2. CASE WaitSeq(a)
    BY <1>0, <2>2 DEF WaitSeq, CarryTypes
  <2>3. CASE WaitLoad(a) \/ WaitSleep(a) \/ WaitRemove(a) \/ WaitStatus(a)
    BY <1>0, <2>3, CarryFrame DEF WaitLoad, WaitSleep, WaitRemove, WaitStatus
  <2> QED
    BY <2>1, <2>2, <2>3 DEF WaitOn
<1>5. CASE Finishes
  <2> PICK a \in Actors: Finish(a)
    BY <1>5 DEF Finishes
  <2>1. CASE FinishBump(a)
    BY <1>0, <2>1 DEF FinishBump, CarryTypes
  <2>2. CASE FinishCollect(a)
    <3>1. table \subseteq Procs
      BY DEF TypeOK, RecordTypes
    <3> QED
      BY <1>0, <2>2, <3>1 DEF FinishCollect, CarryTypes
  <2>3. CASE FinishReap(a)
    BY <1>0, <2>3 DEF FinishReap, CarryTypes
  <2>4. CASE ~FinishBump(a) /\ ~FinishCollect(a) /\ ~FinishReap(a)
    BY <1>0, <2>4, CarryFrame
       DEF Finish, FinishSwap, FinishStatus, FinishTakeFiles, FinishCloseFiles, FinishNotify,
           FinishLook, FinishPost, FinishRemove, FinishReport
  <2> QED
    BY <2>1, <2>2, <2>3, <2>4
<1>6. CASE Turns
  BY <1>0, <1>6, CarryFrame DEF Turns, Resume, Drained
<1>k. ASSUME NEW p \in Procs, NEW c \in 0..255, NEW next, KerneldFinishes(p, c, next), UNCHANGED <<orphans, fresh>>
      PROVE  CarryTypes'
  BY <1>0, <1>k DEF KerneldFinishes, CarryTypes
<1>7. CASE Takes
  <2> PICK p \in Procs: TakeSpawn(p) \/ TakeKill(p) \/ TakeExit(p)
    BY <1>7 DEF Takes
  <2>1. CASE TakeKill(p)
    BY <1>k, <2>1, Constants DEF TakeKill
  <2>2. CASE TakeSpawn(p) \/ TakeExit(p)
    BY <1>0, <2>2, CarryFrame DEF TakeSpawn, TakeExit
  <2> QED
    BY <2>1, <2>2
<1>8. CASE Retires
  BY <1>0, <1>8, CarryFrame DEF Retires, KillRetires, CrashRetires
<1>9. CASE Callbacks
  <2> PICK p \in Procs: Callback(p)
    BY <1>9 DEF Callbacks
  <2>1. CASE TimerFires(p) \/ SpawnRuns(p)
    BY <1>0, <2>1, CarryFrame DEF TimerFires, SpawnRuns
  <2>2. CASE SpawnFails(p)
    BY <1>k, <2>2, Constants DEF SpawnFails
  <2>3. CASE TakeCrash(p)
    BY <1>k, <2>3, Constants DEF TakeCrash
  <2> QED
    BY <2>1, <2>2, <2>3 DEF Callback
<1> QED
  BY <1>1, <1>2, <1>3, <1>4, <1>5, <1>6, <1>7, <1>8, <1>9, NextCases

LEMMA TailIsWork ==
  ASSUME TypeOK, sup # <<>>
  PROVE  Tail(sup) \in Seq(Work)
BY DEF TypeOK, DaemonTypes

LEMMA DaemonTypesStep ==
  ASSUME TypeOK, Next
  PROVE  DaemonTypes'
<1> USE Constants DEF TypeOK, DaemonTypes
<1>1. CASE Asks
  <2> PICK a \in Procs: SpawnNew(a) \/ SpawnRequest(a) \/ \E p \in Procs: Kill(a, p)
    BY <1>1 DEF Asks
  <2>1. CASE SpawnNew(a)
    BY <2>1 DEF SpawnNew
  <2>2. CASE SpawnRequest(a)
    <3>1. obj[a] \in Procs
      BY DEF CallTypes
    <3> QED
      BY <2>2, <3>1 DEF SpawnRequest, Work
  <2>3. CASE \E p \in Procs: Kill(a, p)
    BY <2>3 DEF Kill, Work
  <2> QED
    BY <2>1, <2>2, <2>3
<1>2. CASE Attaches
  BY <1>2 DEF Attaches, AttachGet, Attach
<1>3. CASE Ends
  BY <1>3 DEF Ends, Crash, Exit
<1>4. CASE Waits
  BY <1>4 DEF Waits, WaitOn, Wait, WaitSeq, WaitLoad, WaitSleep, WaitRemove, WaitStatus
<1>5. CASE Finishes
  <2> PICK a \in Actors: Finish(a)
    BY <1>5 DEF Finishes
  <2>1. CASE FinishReport(a)
    <3>1. obj[a] \in Procs
      BY DEF CallTypes
    <3> QED
      BY <2>1, <3>1 DEF FinishReport, Work
  <2>2. CASE ~FinishReport(a)
    BY <2>2 DEF Finish, FinishSwap, FinishStatus, FinishTakeFiles, FinishCloseFiles, FinishBump,
                FinishNotify, FinishLook, FinishPost, FinishRemove, FinishCollect, FinishReap
  <2> QED
    BY <2>1, <2>2
<1>6. CASE Turns
  BY <1>6 DEF Turns, Resume, Drained
<1>7. CASE Takes
  <2> PICK p \in Procs: TakeSpawn(p) \/ TakeKill(p) \/ TakeExit(p)
    BY <1>7 DEF Takes
  <2>1. sup' \in Seq(Work)
    BY TailIsWork DEF TakeSpawn, TakeKill, TakeExit, TakeWork
  <2>2. CASE TakeSpawn(p)
    BY <2>1, <2>2 DEF TakeSpawn
  <2>3. CASE TakeKill(p)
    BY <2>1, <2>3 DEF TakeKill, KerneldFinishes
  <2>4. CASE TakeExit(p)
    BY <2>1, <2>4 DEF TakeExit
  <2> QED
    BY <2>2, <2>3, <2>4
<1>8. CASE Retires
  BY <1>8 DEF Retires, KillRetires, CrashRetires, Retire
<1>9. CASE Callbacks
  BY <1>9 DEF Callbacks, Callback, TimerFires, SpawnRuns, SpawnFails, TakeCrash, KerneldFinishes
<1> QED
  BY <1>1, <1>2, <1>3, <1>4, <1>5, <1>6, <1>7, <1>8, <1>9, NextCases

-----------------------------------------------------------------------------
\* One worker for a process, and the page

\* What most steps are to these: no birth, nothing asked for, no worker for a
\* process that had none, nobody who turns to the page.
Minds == Finishing \cup {"kill", "sreq"}

Plain ==
  /\ \A p \in Procs: state'[p] = "unborn" => state[p] = "unborn"
  /\ state'[Page] = state[Page]
  /\ parent' = parent /\ table' \subseteq table
  /\ \A p \in Procs: worker[p] = "none" => worker'[p] = "none"
  /\ worker'[Page] = "awaited" => worker[Page] = "awaited"
  /\ \A a \in Actors: pc'[a] = "sreq" => pc[a] = "sreq" /\ obj'[a] = obj[a]
  /\ \A a \in Actors: pc'[a] \in Minds => (pc[a] \in Minds /\ obj'[a] = obj[a]) \/ obj'[a] # Page
  /\ crashes' \subseteq crashes
  /\ \/ sup' = sup
     \/ sup # <<>> /\ sup' = Tail(sup)
     \/ \E p \in Procs: sup' = Append(sup, [kind |-> "exit", pid |-> p])

\* What is in the queue after a step that may have put an entry of another kind
\* there, or taken the first.
LEMMA QueueOf ==
  ASSUME sup \in Seq(Work), NEW e \in Work, sup' = Append(sup, e)
  PROVE  /\ \A i \in DOMAIN sup': (sup'[i] = e /\ i = Len(sup) + 1) \/ (i \in DOMAIN sup /\ sup'[i] = sup[i])
         /\ \A i \in DOMAIN sup: i \in DOMAIN sup' /\ sup'[i] = sup[i]
         /\ Len(sup) + 1 \in DOMAIN sup' /\ sup'[Len(sup) + 1] = e
OBVIOUS

LEMMA QueueTail ==
  ASSUME sup \in Seq(Work), sup # <<>>, sup' = Tail(sup)
  PROVE  \A i \in DOMAIN sup': i + 1 \in DOMAIN sup /\ sup'[i] = sup[i + 1] /\ i \in Nat /\ i + 1 # 1
OBVIOUS

\* The queue of a plain step holds no new spawn, and holds none twice.
LEMMA PlainQueue ==
  ASSUME TypeOK, SpawnedOnce, PageLives, Plain
  PROVE  /\ \A p \in Procs: Queued(p)' => Queued(p)
         /\ \A i, j \in DOMAIN sup': sup'[i] = sup'[j] /\ sup'[i].kind = "spawn" => i = j
         /\ \A i \in DOMAIN sup': sup'[i].kind \in {"spawn", "kill"} => sup'[i].pid # Page
<1>0. sup \in Seq(Work)
  BY DEF TypeOK, DaemonTypes
<1>1. /\ \A i, j \in DOMAIN sup: sup[i] = sup[j] /\ sup[i].kind = "spawn" => i = j
      /\ \A i \in DOMAIN sup: sup[i].kind \in {"spawn", "kill"} => sup[i].pid # Page
  BY DEF SpawnedOnce, PageLives
<1>2. CASE sup' = sup
  BY <1>1, <1>2 DEF Queued
<1>3. CASE sup # <<>> /\ sup' = Tail(sup)
  <2>1. \A i \in DOMAIN sup': i + 1 \in DOMAIN sup /\ sup'[i] = sup[i + 1] /\ i \in Nat
    BY <1>0, <1>3, QueueTail
  <2>2. \A p \in Procs: Queued(p)' => Queued(p)
    BY <2>1 DEF Queued
  <2>3. ASSUME NEW i \in DOMAIN sup', NEW j \in DOMAIN sup', sup'[i] = sup'[j], sup'[i].kind = "spawn"
        PROVE  i = j
    <3>1. i + 1 = j + 1
      BY <1>1, <2>1, <2>3
    <3> QED
      BY <2>1, <2>3, <3>1
  <2>4. \A i \in DOMAIN sup': sup'[i].kind \in {"spawn", "kill"} => sup'[i].pid # Page
    BY <1>1, <2>1
  <2> QED
    BY <2>2, <2>3, <2>4
<1>4. CASE \E p \in Procs: sup' = Append(sup, [kind |-> "exit", pid |-> p])
  <2> PICK q \in Procs: sup' = Append(sup, [kind |-> "exit", pid |-> q])
    BY <1>4
  <2>1. \A i \in DOMAIN sup': sup'[i] = [kind |-> "exit", pid |-> q] \/ (i \in DOMAIN sup /\ sup'[i] = sup[i])
    BY <1>0, QueueOf DEF Work
  <2>2. \A i \in DOMAIN sup': sup'[i].kind \in {"spawn", "kill"} => i \in DOMAIN sup /\ sup'[i] = sup[i]
    BY <2>1
  <2>3. \A p \in Procs: Queued(p)' => Queued(p)
    BY <2>2 DEF Queued, Spawn
  <2> QED
    BY <1>1, <2>2, <2>3
<1> QED
  BY <1>2, <1>3, <1>4 DEF Plain

LEMMA PlainKeeps ==
  ASSUME TypeOK, SpawnedOnce, PageLives, Plain
  PROVE  SpawnedOnce' /\ PageLives'
<1>1. \A p \in Procs: Queued(p)' => Queued(p)
  BY PlainQueue
<1>2. \A a, p \in Procs: Requests(a, p)' => Requests(a, p)
  BY Constants DEF Plain, Requests
<1>3. SpawnedOnce'
  <2>1. \A p \in Procs: state'[p] = "unborn" => worker'[p] = "none" /\ ~Queued(p)'
    BY <1>1 DEF Plain, SpawnedOnce
  <2>2. \A p \in Procs: Queued(p)' => worker'[p] = "none"
    BY <1>1 DEF Plain, SpawnedOnce
  <2>3. \A a, p \in Procs: Requests(a, p)' => state'[p] # "unborn" /\ worker'[p] = "none" /\ ~Queued(p)'
    BY <1>1, <1>2 DEF Plain, SpawnedOnce
  <2>4. \A a, b, p \in Procs: Requests(a, p)' /\ Requests(b, p)' => a = b
    BY <1>2 DEF SpawnedOnce
  <2> QED
    BY <2>1, <2>2, <2>3, <2>4, PlainQueue DEF SpawnedOnce
<1>4. PageLives'
  <2>1. \A a \in Actors: pc'[a] \in Minds => obj'[a] # Page
    BY DEF Plain, PageLives, Minds
  <2>2. \A p \in table' \ {Page}: parent'[p] \in Procs
    BY DEF Plain, PageLives
  <2>3. state'[Page] = "running" /\ Page \notin crashes' /\ worker'[Page] # "awaited"
    BY DEF Plain, PageLives
  <2> QED
    BY <2>1, <2>2, <2>3, PlainQueue DEF PageLives, Minds
<1> QED
  BY <1>3, <1>4

\* Which steps are plain.
LEMMA SpawnNewKeeps ==
  ASSUME TypeOK, SpawnedOnce, PageLives, NEW a \in Procs, SpawnNew(a)
  PROVE  SpawnedOnce' /\ PageLives'
<1> PICK child \in Procs:
       /\ state[child] = "unborn" /\ pc[a] = "user"
       /\ state' = [state EXCEPT ![child] = "starting"]
       /\ parent' = [parent EXCEPT ![child] = a]
       /\ table' = table \cup {child}
       /\ obj' = [obj EXCEPT ![a] = child]
       /\ pc' = [pc EXCEPT ![a] = "sreq"]
       /\ UNCHANGED <<worker, sup, crashes>>
  BY ChildIsUnborn
<1>0. /\ state \in [Procs -> {"unborn", "starting", "running", "exited"}]
      /\ parent \in [Procs -> Procs \cup {0}] /\ table \subseteq Procs
      /\ pc \in [Actors -> WorkerPC \cup KerneldPC] /\ obj \in [Actors -> Procs]
      /\ Procs \subseteq Actors
  BY Constants DEF TypeOK, RecordTypes, CallTypes
<1>1. worker[child] = "none" /\ ~Queued(child) /\ \A b \in Procs: ~Requests(b, child)
  BY DEF SpawnedOnce
<1>2. \A b, p \in Procs: Requests(b, p)' => Requests(b, p) \/ (b = a /\ p = child)
  BY <1>0 DEF Requests
<1>3. child # Page
  BY DEF PageLives
<1>4. SpawnedOnce'
  BY <1>0, <1>1, <1>2 DEF SpawnedOnce, Queued
<1>5. PageLives'
  <2>1. \A b \in Actors: pc'[b] \in Finishing \cup {"kill", "sreq"} => obj'[b] # Page
    BY <1>0, <1>3 DEF PageLives
  <2>2. state'[Page] = "running" /\ \A p \in table' \ {Page}: parent'[p] \in Procs
    BY <1>0, <1>3, Constants DEF PageLives
  <2> QED
    BY <2>1, <2>2 DEF PageLives
<1> QED
  BY <1>4, <1>5

LEMMA SpawnRequestKeeps ==
  ASSUME TypeOK, SpawnedOnce, PageLives, NEW a \in Procs, SpawnRequest(a)
  PROVE  SpawnedOnce' /\ PageLives'
<1> DEFINE e == Spawn(obj[a])
<1>0. /\ pc \in [Actors -> WorkerPC \cup KerneldPC] /\ obj \in [Actors -> Procs]
      /\ Procs \subseteq Actors /\ sup \in Seq(Work) /\ e \in Work
  BY Constants DEF TypeOK, CallTypes, DaemonTypes, Spawn, Work
<1>1. /\ pc[a] = "sreq" /\ obj[a] \in Procs /\ sup' = Append(sup, e)
      /\ pc' = [pc EXCEPT ![a] = "user"] /\ UNCHANGED <<state, table, parent, obj, worker, crashes>>
  BY <1>0 DEF SpawnRequest, Spawn, Goto
<1>2. Requests(a, obj[a])
  BY <1>1 DEF Requests
<1>3. state[obj[a]] # "unborn" /\ worker[obj[a]] = "none" /\ ~Queued(obj[a]) /\ obj[a] # Page
  BY <1>0, <1>1, <1>2 DEF SpawnedOnce, PageLives
<1>4. \A i \in DOMAIN sup': (sup'[i] = e /\ i = Len(sup) + 1) \/ (i \in DOMAIN sup /\ sup'[i] = sup[i])
  BY <1>0, <1>1, QueueOf
<1>5. \A b, p \in Procs: Requests(b, p)' => Requests(b, p) /\ p # obj[a]
  BY <1>0, <1>1, <1>2 DEF Requests, SpawnedOnce
<1>6. \A p \in Procs: Queued(p)' => Queued(p) \/ p = obj[a]
  BY <1>4 DEF Queued, Spawn
<1>7. \A i \in DOMAIN sup: sup[i] # e
  BY <1>3 DEF Queued
<1>8. SpawnedOnce'
  <2>1. \A i, j \in DOMAIN sup': sup'[i] = sup'[j] /\ sup'[i].kind = "spawn" => i = j
    BY <1>4, <1>7 DEF SpawnedOnce
  <2>2. \A p \in Procs: state'[p] = "unborn" => worker'[p] = "none" /\ ~Queued(p)'
    BY <1>1, <1>3, <1>6 DEF SpawnedOnce
  <2>3. \A p \in Procs: Queued(p)' => worker'[p] = "none"
    BY <1>1, <1>3, <1>6 DEF SpawnedOnce
  <2>4. \A b, p \in Procs: Requests(b, p)' => state'[p] # "unborn" /\ worker'[p] = "none" /\ ~Queued(p)'
    BY <1>1, <1>5, <1>6 DEF SpawnedOnce
  <2>5. \A b, c, p \in Procs: Requests(b, p)' /\ Requests(c, p)' => b = c
    BY <1>5 DEF SpawnedOnce
  <2> QED
    BY <2>1, <2>2, <2>3, <2>4, <2>5 DEF SpawnedOnce
<1>9. PageLives'
  <2>1. \A i \in DOMAIN sup': sup'[i].kind \in {"spawn", "kill"} => sup'[i].pid # Page
    BY <1>3, <1>4 DEF PageLives, Spawn
  <2>2. \A b \in Actors: pc'[b] \in Finishing \cup {"kill", "sreq"} => obj'[b] # Page
    BY <1>0, <1>1 DEF PageLives, Finishing
  <2> QED
    BY <1>1, <2>1, <2>2 DEF PageLives
<1> QED
  BY <1>8, <1>9

LEMMA KillKeeps ==
  ASSUME TypeOK, SpawnedOnce, PageLives, NEW a \in Procs, NEW p \in Procs, Kill(a, p)
  PROVE  SpawnedOnce' /\ PageLives'
<1> DEFINE e == [kind |-> "kill", pid |-> p]
<1>0. sup \in Seq(Work) /\ e \in Work /\ p # Page
  BY DEF TypeOK, DaemonTypes, Work, Kill
<1>1. sup' = Append(sup, e) /\ UNCHANGED <<state, table, parent, pc, obj, worker, crashes>>
  BY DEF Kill
<1>2. \A i \in DOMAIN sup': sup'[i] = e \/ (i \in DOMAIN sup /\ sup'[i] = sup[i])
  BY <1>0, <1>1, QueueOf
<1>3. \A i \in DOMAIN sup': sup'[i].kind = "spawn" => i \in DOMAIN sup /\ sup'[i] = sup[i]
  BY <1>2
<1>4. \A q \in Procs: Queued(q)' => Queued(q)
  BY <1>3 DEF Queued, Spawn
<1>5. \A b, q \in Procs: Requests(b, q)' <=> Requests(b, q)
  BY <1>1 DEF Requests
<1>6. SpawnedOnce'
  BY <1>1, <1>3, <1>4, <1>5 DEF SpawnedOnce
<1>7. PageLives'
  BY <1>0, <1>1, <1>2 DEF PageLives
<1> QED
  BY <1>6, <1>7

LEMMA TakeSpawnKeeps ==
  ASSUME TypeOK, SpawnedOnce, PageLives, NEW p \in Procs, TakeSpawn(p)
  PROVE  SpawnedOnce' /\ PageLives' /\ worker[p] = "none" /\ p # Page
<1>0. sup \in Seq(Work) /\ worker \in [Procs -> {"none", "awaited", "live", "retiring", "gone"}]
  BY DEF TypeOK, DaemonTypes
<1>1. /\ sup # <<>> /\ Head(sup) = Spawn(p) /\ sup' = Tail(sup)
      /\ worker' = [worker EXCEPT ![p] = "awaited"]
      /\ UNCHANGED <<state, table, parent, pc, obj, crashes>>
  BY DEF TakeSpawn, TakeWork, Spawn
<1>2. 1 \in DOMAIN sup /\ sup[1] = Spawn(p)
  BY <1>0, <1>1
<1>3. Queued(p) /\ worker[p] = "none" /\ p # Page /\ state[p] # "unborn" /\ \A a \in Procs: ~Requests(a, p)
  BY <1>2, Constants DEF SpawnedOnce, PageLives, Queued, Spawn
<1>4. \A i \in DOMAIN sup': i + 1 \in DOMAIN sup /\ sup'[i] = sup[i + 1] /\ i \in Nat /\ i + 1 # 1
  BY <1>0, <1>1, QueueTail
<1>5. \A q \in Procs: Queued(q)' => Queued(q) /\ q # p
  <2>1. \A i \in DOMAIN sup': sup[i + 1] # Spawn(p)
    BY <1>2, <1>4 DEF SpawnedOnce, Spawn
  <2> QED
    BY <1>4, <2>1 DEF Queued
<1>6. \A i, j \in DOMAIN sup': sup'[i] = sup'[j] /\ sup'[i].kind = "spawn" => i = j
  <2> SUFFICES ASSUME NEW i \in DOMAIN sup', NEW j \in DOMAIN sup', sup'[i] = sup'[j], sup'[i].kind = "spawn"
               PROVE  i = j
    OBVIOUS
  <2>1. i + 1 = j + 1
    BY <1>4 DEF SpawnedOnce
  <2> QED
    BY <1>4, <2>1
<1>7. \A a, q \in Procs: Requests(a, q)' <=> Requests(a, q)
  BY <1>1 DEF Requests
<1>8. SpawnedOnce'
  BY <1>0, <1>1, <1>3, <1>5, <1>6, <1>7 DEF SpawnedOnce
<1>9. PageLives'
  <2>1. \A i \in DOMAIN sup': sup'[i].kind \in {"spawn", "kill"} => sup'[i].pid # Page
    BY <1>4 DEF PageLives
  <2> QED
    BY <1>0, <1>1, <1>3, <2>1, Constants DEF PageLives
<1> QED
  BY <1>3, <1>8, <1>9

LEMMA CrashKeeps ==
  ASSUME SpawnedOnce, PageLives, NEW p \in Procs, Crash(p)
  PROVE  SpawnedOnce' /\ PageLives'
<1>1. p # Page /\ crashes' = crashes \cup {p} /\ UNCHANGED <<state, table, parent, pc, obj, worker, sup>>
  BY DEF Crash
<1> QED
  BY <1>1 DEF SpawnedOnce, PageLives, Requests, Queued

\* The types these proofs use, and where kerneld, and nobody else, may be.
LEMMA Types ==
  ASSUME TypeOK
  PROVE  /\ state \in [Procs -> {"unborn", "starting", "running", "exited"}]
         /\ pc \in [Actors -> WorkerPC \cup KerneldPC] /\ obj \in [Actors -> Procs]
         /\ worker \in [Procs -> {"none", "awaited", "live", "retiring", "gone"}]
         /\ Procs \subseteq Actors /\ Kerneld \in Actors /\ Kerneld \notin Procs
         /\ pc[Kerneld] \notin {"sreq", "gone", "none"} /\ after \notin Minds \cup {"gone", "none"}
         /\ "await" \notin Minds /\ "drain" \notin Minds
BY Constants DEF TypeOK, RecordTypes, CallTypes, DaemonTypes, KerneldPC, Minds, Finishing

\* A move that begins nothing.
LEMMA MoveIsPlain ==
  ASSUME TypeOK, NEW a \in Actors, NEW at, Goto(a, at), at # "sreq",
         at \in Minds => pc[a] \in Minds,
         UNCHANGED <<obj, parent, worker, crashes>>, table' \subseteq table,
         \A p \in Procs: state'[p] = "unborn" => state[p] = "unborn", state'[Page] = state[Page],
         \/ sup' = sup
         \/ sup # <<>> /\ sup' = Tail(sup)
         \/ \E p \in Procs: sup' = Append(sup, [kind |-> "exit", pid |-> p])
  PROVE  Plain
BY Types DEF Plain, Goto

LEMMA FinishIsPlain ==
  ASSUME TypeOK, PageLives, NEW a \in Actors, Finish(a)
  PROVE  Plain
<1>0. state \in [Procs -> {"unborn", "starting", "running", "exited"}] /\ obj[a] \in Procs
  BY Types
<1>1. Finishing \subseteq Minds /\ "sreq" \notin Finishing
  BY DEF Minds, Finishing
<1>2. pc[a] \in Finishing
  BY DEF Finish, FinishSwap, FinishStatus, FinishTakeFiles, FinishCloseFiles, FinishBump, FinishNotify,
     FinishLook, FinishPost, FinishRemove, FinishCollect, FinishReap, FinishReport, Finishing
<1>3. UNCHANGED <<obj, parent, worker, crashes>> /\ table' \subseteq table
  BY DEF Finish, FinishSwap, FinishStatus, FinishTakeFiles, FinishCloseFiles, FinishBump, FinishNotify,
     FinishLook, FinishPost, FinishRemove, FinishCollect, FinishReap, FinishReport
<1>4. /\ \A p \in Procs: state'[p] = "unborn" => state[p] = "unborn"
      /\ state'[Page] = state[Page]
  <2>1. obj[a] # Page
    BY <1>2 DEF PageLives
  <2>2. CASE FinishSwap(a)
    BY <1>0, <2>1, <2>2, Constants DEF FinishSwap
  <2>3. CASE ~FinishSwap(a)
    BY <2>3 DEF Finish, FinishStatus, FinishTakeFiles, FinishCloseFiles, FinishBump, FinishNotify,
       FinishLook, FinishPost, FinishRemove, FinishCollect, FinishReap, FinishReport
  <2> QED
    BY <2>2, <2>3
<1>5. \/ sup' = sup
      \/ \E p \in Procs: sup' = Append(sup, [kind |-> "exit", pid |-> p])
  BY <1>0 DEF Finish, FinishSwap, FinishStatus, FinishTakeFiles, FinishCloseFiles, FinishBump,
     FinishNotify, FinishLook, FinishPost, FinishRemove, FinishCollect, FinishReap, FinishReport
<1>6. CASE FinishNotify(a)
  <2>1. \A b \in Actors: pc'[b] = pc[b] \/ pc'[b] = "wseq" \/ (b = a /\ pc'[b] = "flook")
    BY <1>6 DEF FinishNotify
  <2>2. \A b \in Actors: pc'[b] = "sreq" => pc[b] = "sreq"
    BY <2>1
  <2>3. \A b \in Actors: pc'[b] \in Minds => pc[b] \in Minds
    BY <1>1, <1>2, <2>1 DEF Minds, Finishing
  <2> QED
    BY <1>3, <1>4, <1>5, <2>2, <2>3 DEF Plain
<1>7. CASE ~FinishNotify(a)
  <2>1. \E at \in Finishing \cup {after, "done"}: Goto(a, at)
    BY <1>7 DEF Finish, FinishSwap, FinishStatus, FinishTakeFiles, FinishCloseFiles, FinishBump,
       FinishLook, FinishPost, FinishRemove, FinishCollect, FinishReap, FinishReport, Finishing, Return
  <2>2. after # "sreq"
    BY Types DEF Minds
  <2> QED
    BY <1>1, <1>2, <1>3, <1>4, <1>5, <2>1, <2>2, MoveIsPlain
<1> QED
  BY <1>6, <1>7

LEMMA WorkerIsPlain ==
  ASSUME TypeOK, PageLives, Attaches \/ Waits \/ \E p \in Procs: \E c \in Codes: Exit(p, c)
  PROVE  Plain
<1>1. CASE Attaches
  <2> PICK p \in Procs: AttachGet(p) \/ Attach(p)
    BY <1>1 DEF Attaches
  <2>1. CASE AttachGet(p)
    <3>1. \E at \in {"attach", "stray"}: Goto(p, at)
      BY <2>1 DEF AttachGet
    <3> QED
      BY <2>1, <3>1, MoveIsPlain, Types DEF AttachGet, Minds, Finishing
  <2>2. CASE Attach(p)
    <3>1. \A q \in Procs: state'[q] = "unborn" => state[q] = "unborn"
      BY <2>2, Types DEF Attach
    <3>2. state'[Page] = state[Page]
      BY <2>2, Types, Constants DEF Attach, PageLives
    <3> QED
      BY <2>2, <3>1, <3>2, MoveIsPlain, Types DEF Attach, Minds, Finishing
  <2> QED
    BY <2>1, <2>2
<1>2. CASE Waits
  <2> PICK a \in Procs: WaitOn(a) \/ \E p \in Procs: Wait(a, p)
    BY <1>2 DEF Waits
  <2>1. /\ \E at \in Waiting \cup {"user"}: pc' = [pc EXCEPT ![a] = at]
        /\ UNCHANGED <<state, parent, worker, crashes, sup>> /\ table' \subseteq table
    BY DEF WaitOn, Wait, WaitSeq, WaitLoad, WaitSleep, WaitRemove, WaitStatus, Waiting, Goto
  <2>2. \A b \in Actors: b # a => obj'[b] = obj[b]
    BY Types DEF WaitOn, Wait, WaitSeq, WaitLoad, WaitSleep, WaitRemove, WaitStatus
  <2>3. "sreq" \notin Waiting /\ (Waiting \cup {"user"}) \cap Minds = {}
    BY DEF Waiting, Minds, Finishing
  <2> QED
    BY <2>1, <2>2, <2>3, Types DEF Plain
<1>3. CASE \E p \in Procs: \E c \in Codes: Exit(p, c)
  BY <1>3, Types DEF Exit, Goto, Plain
<1> QED
  BY <1>1, <1>2, <1>3

LEMMA KerneldIsPlain ==
  ASSUME TypeOK, SpawnedOnce, PageLives,
         Turns \/ Retires \/ Callbacks \/ \E p \in Procs: TakeKill(p) \/ TakeExit(p)
  PROVE  Plain
<1>f. "fswap" \in Minds /\ "kill" \in Minds
  BY DEF Minds, Finishing
<1>1. CASE Turns
  <2>1. \E at \in {"drain", "await"}: Goto(Kerneld, at)
    BY <1>1 DEF Turns, Resume, Drained
  <2> QED
    BY <1>1, <2>1, MoveIsPlain, Types DEF Turns, Resume, Drained
<1>2. CASE Retires
  <2>u. UNCHANGED <<state, table, parent, obj, crashes, sup>>
    BY <1>2 DEF Retires, KillRetires, CrashRetires
  <2>1. /\ \A p \in Procs: worker[p] = "none" => worker'[p] = "none"
        /\ worker'[Page] = "awaited" => worker[Page] = "awaited"
    <3>1. \/ worker' = worker
          \/ worker[obj[Kerneld]] = "live" /\ worker' = [worker EXCEPT ![obj[Kerneld]] = "gone"]
      BY <1>2 DEF Retires, KillRetires, CrashRetires, Retire
    <3> QED
      BY <3>1, Types, Constants
  <2>2. \A a \in Procs: pc'[a] = pc[a] \/ pc'[a] = "gone"
    BY <1>2, Types DEF Retires, KillRetires, CrashRetires, Retire, Terminated, Goto
  <2>3. pc'[Kerneld] = "await" \/ (pc'[Kerneld] = "fswap" /\ pc[Kerneld] = "kill")
    BY <1>2, Types DEF Retires, KillRetires, CrashRetires, Retire, Terminated, Goto
  <2>4. \A a \in Actors: pc'[a] = "sreq" => pc[a] = "sreq"
    BY <2>2, <2>3, Constants
  <2>5. \A a \in Actors: pc'[a] \in Minds => pc[a] \in Minds
    BY <1>f, <2>2, <2>3, Constants DEF Minds, Finishing
  <2> QED
    BY <2>u, <2>1, <2>4, <2>5 DEF Plain
<1>3. CASE Callbacks
  <2> PICK p \in Procs: Callback(p)
    BY <1>3 DEF Callbacks
  <2>1. CASE TimerFires(p)
    <3>1. /\ \A a \in Procs: pc'[a] = pc[a] \/ pc'[a] = "gone"
          /\ pc'[Kerneld] = "await"
      BY <2>1, Types DEF TimerFires, Terminated
    <3>2. \A a \in Actors: pc'[a] \in Minds => pc'[a] = pc[a]
      BY <3>1, Constants, Types DEF Minds, Finishing
    <3> QED
      BY <2>1, <3>1, <3>2, Types, Constants DEF TimerFires, Plain, Minds
  <2>2. CASE SpawnRuns(p)
    BY <2>2, Types DEF SpawnRuns, Plain, Goto, Minds, Finishing
  <2>3. CASE SpawnFails(p)
    <3>1. p # Page
      BY <2>3 DEF SpawnFails, PageLives
    <3> QED
      BY <2>3, <3>1, Types DEF SpawnFails, KerneldFinishes, Plain, Goto
  <2>4. CASE TakeCrash(p)
    <3>1. p # Page
      BY <2>4 DEF TakeCrash, PageLives
    <3> QED
      BY <2>4, <3>1, Types DEF TakeCrash, KerneldFinishes, Plain, Goto
  <2> QED
    BY <2>1, <2>2, <2>3, <2>4 DEF Callback
<1>4. CASE \E p \in Procs: TakeKill(p) \/ TakeExit(p)
  <2> PICK p \in Procs: TakeKill(p) \/ TakeExit(p)
    BY <1>4
  <2>0. sup # <<>> /\ sup' = Tail(sup)
    BY DEF TakeKill, TakeExit, TakeWork
  <2>1. CASE TakeKill(p)
    <3>1. 1 \in DOMAIN sup /\ sup[1] = [kind |-> "kill", pid |-> p]
      BY <2>1 DEF TakeKill, TakeWork, TypeOK, DaemonTypes
    <3>2. p # Page
      BY <3>1 DEF PageLives
    <3> QED
      BY <2>0, <2>1, <3>2, Types DEF TakeKill, KerneldFinishes, Plain, Goto
  <2>2. CASE TakeExit(p)
    BY <2>0, <2>2, Types, Constants DEF TakeExit, Plain
  <2> QED
    BY <2>1, <2>2
<1> QED
  BY <1>1, <1>2, <1>3, <1>4

LEMMA SpawnedStep ==
  ASSUME TypeOK, SpawnedOnce, PageLives, Next
  PROVE  SpawnedOnce' /\ PageLives'
<1>1. CASE Asks
  BY <1>1, SpawnNewKeeps, SpawnRequestKeeps, KillKeeps DEF Asks
<1>2. CASE Ends
  BY <1>2, CrashKeeps, WorkerIsPlain, PlainKeeps DEF Ends
<1>3. CASE Takes
  BY <1>3, TakeSpawnKeeps, KerneldIsPlain, PlainKeeps DEF Takes
<1>4. CASE Attaches \/ Waits
  BY <1>4, WorkerIsPlain, PlainKeeps
<1>5. CASE Finishes
  BY <1>5, FinishIsPlain, PlainKeeps DEF Finishes
<1>6. CASE Turns \/ Retires \/ Callbacks
  BY <1>6, KerneldIsPlain, PlainKeeps
<1> QED
  BY <1>1, <1>2, <1>3, <1>4, <1>5, <1>6, NextCases

\* A worker has stopped exactly if kerneld has terminated it, and has not begun
\* exactly if kerneld has not got it yet; the page was there before.
Tied ==
  /\ Stopped
  /\ \A p \in Procs \ {Page}: pc[p] = "none" <=> worker[p] \in {"none", "awaited"}

LEMMA TiedStep ==
  ASSUME TypeOK, Tied, SpawnedOnce, PageLives, Next
  PROVE  Tied'
<1>0. Tied
  OBVIOUS
<1>m. ASSUME NEW a \in Actors, NEW at, Goto(a, at), at \notin {"gone", "none"},
             pc[a] \notin {"gone", "none"}, UNCHANGED worker
      PROVE  Tied'
  BY <1>0, <1>m, Types DEF Tied, Stopped, Goto
<1>u. ASSUME UNCHANGED <<pc, worker>>
      PROVE  Tied'
  BY <1>0, <1>u DEF Tied, Tied, Stopped
<1>t. ASSUME NEW p \in Procs, NEW at, Terminated(p, at), worker[p] \in {"live", "retiring"},
             worker' = [worker EXCEPT ![p] = "gone"]
      PROVE  Tied'
  BY <1>0, <1>t, Types DEF Tied, Stopped, Terminated
<1>1. CASE Asks
  <2>1. CASE \E a \in Procs: SpawnNew(a)
    BY <1>m, <2>1, Types DEF SpawnNew
  <2>2. CASE \E a \in Procs: SpawnRequest(a)
    BY <1>m, <2>2, Types DEF SpawnRequest
  <2>3. CASE \E a, p \in Procs: Kill(a, p)
    BY <1>u, <2>3 DEF Kill
  <2> QED
    BY <1>1, <2>1, <2>2, <2>3 DEF Asks
<1>2. CASE Attaches
  <2>1. \E p \in Procs: \E at \in {"attach", "stray", "user"}: Goto(p, at) /\ pc[p] \notin {"gone", "none"}
    BY <1>2 DEF Attaches, AttachGet, Attach
  <2>2. UNCHANGED worker
    BY <1>2 DEF Attaches, AttachGet, Attach
  <2> QED
    BY <1>m, <2>1, <2>2, Types
<1>3. CASE Ends
  <2>1. CASE \E p \in Procs: Crash(p)
    BY <1>u, <2>1 DEF Crash
  <2>2. CASE \E p \in Procs: \E c \in Codes: Exit(p, c)
    BY <1>m, <2>2, Types DEF Exit
  <2> QED
    BY <1>3, <2>1, <2>2 DEF Ends
<1>4. CASE Waits
  <2>1. \E a \in Procs: \E at \in Waiting \cup {"user"}: Goto(a, at) /\ pc[a] \notin {"gone", "none"}
    BY <1>4 DEF Waits, WaitOn, Wait, WaitSeq, WaitLoad, WaitSleep, WaitRemove, WaitStatus, Waiting
  <2>2. UNCHANGED worker /\ {"gone", "none"} \cap (Waiting \cup {"user"}) = {}
    BY <1>4 DEF Waits, WaitOn, Wait, WaitSeq, WaitLoad, WaitSleep, WaitRemove, WaitStatus, Waiting
  <2> QED
    BY <1>m, <2>1, <2>2, Types
<1>5. CASE Finishes
  <2> PICK a \in Actors: Finish(a)
    BY <1>5 DEF Finishes
  <2>1. CASE FinishNotify(a)
    <3>1. \A b \in Actors: pc'[b] = pc[b] \/ (pc'[b] = "wseq" /\ pc[b] = "wasleep")
                                          \/ (pc'[b] = "flook" /\ pc[b] = "fnotify")
      BY <2>1 DEF FinishNotify
    <3> QED
      BY <1>0, <2>1, <3>1, Types DEF FinishNotify, Tied, Stopped
  <2>2. CASE ~FinishNotify(a)
    <3>1. \E at \in Finishing \cup {after, "done"}: Goto(a, at)
      BY <2>2 DEF Finish, FinishSwap, FinishStatus, FinishTakeFiles, FinishCloseFiles, FinishBump,
         FinishLook, FinishPost, FinishRemove, FinishCollect, FinishReap, FinishReport, Finishing, Return
    <3>2. pc[a] \notin {"gone", "none"} /\ UNCHANGED worker
      BY <2>2 DEF Finish, FinishSwap, FinishStatus, FinishTakeFiles, FinishCloseFiles, FinishBump,
         FinishLook, FinishPost, FinishRemove, FinishCollect, FinishReap, FinishReport
    <3>3. {"gone", "none"} \cap (Finishing \cup {after, "done"}) = {}
      BY Types DEF Finishing
    <3> QED
      BY <1>m, <3>1, <3>2, <3>3
  <2> QED
    BY <2>1, <2>2
<1>6. CASE Turns
  <2>1. \E at \in {"drain", "await"}: Goto(Kerneld, at)
    BY <1>6 DEF Turns, Resume, Drained
  <2>2. UNCHANGED worker
    BY <1>6 DEF Turns, Resume, Drained
  <2> QED
    BY <1>m, <2>1, <2>2, Types
<1>7. CASE Takes
  <2> PICK p \in Procs: TakeSpawn(p) \/ TakeKill(p) \/ TakeExit(p)
    BY <1>7 DEF Takes
  <2>1. CASE TakeSpawn(p)
    BY <1>0, <2>1, TakeSpawnKeeps, Types DEF TakeSpawn, Tied, Stopped
  <2>2. CASE TakeKill(p)
    BY <1>m, <2>2, Types DEF TakeKill
  <2>3. CASE TakeExit(p)
    BY <1>0, <2>3, Types DEF TakeExit, Tied, Stopped
  <2> QED
    BY <2>1, <2>2, <2>3
<1>8. CASE Retires
  <2>1. \E at \in {"fswap", "await"}: Retire(obj[Kerneld], at)
    BY <1>8 DEF Retires, KillRetires, CrashRetires
  <2> QED
    BY <1>m, <1>t, <2>1, Types DEF Retire
<1>9. CASE Callbacks
  <2> PICK p \in Procs: Callback(p)
    BY <1>9 DEF Callbacks
  <2>1. CASE TimerFires(p)
    BY <1>t, <2>1 DEF TimerFires
  <2>2. CASE SpawnRuns(p)
    BY <1>0, <2>2, Types DEF SpawnRuns, Goto, Tied, Stopped
  <2>3. CASE SpawnFails(p)
    BY <1>0, <2>3, Types DEF SpawnFails, Goto, Tied, Stopped
  <2>4. CASE TakeCrash(p)
    BY <1>m, <2>4, Types DEF TakeCrash
  <2> QED
    BY <2>1, <2>2, <2>3, <2>4 DEF Callback
<1> QED
  BY <1>1, <1>2, <1>3, <1>4, <1>5, <1>6, <1>7, <1>8, <1>9, NextCases

Lives == TypeOK /\ Tied /\ SpawnedOnce /\ PageLives

LEMMA LivesInit ==
  ASSUME Init
  PROVE  Lives
<1>1. SpawnedOnce
  BY Constants DEF Init, SpawnedOnce, Requests, Queued
<1>2. PageLives
  BY Constants DEF Init, PageLives, Finishing
<1>3. Tied
  BY Constants DEF Init, Tied, Stopped
<1> QED
  BY <1>1, <1>2, <1>3, InitTypes DEF Lives

LEMMA LivesStep ==
  ASSUME Lives, [Next]_vars
  PROVE  Lives'
<1>1. CASE Next
  <2>1. RecordTypes' /\ CallTypes' /\ DaemonTypes'
    <3>1. CallTypes' <=> PlaceTypes' /\ CarryTypes'
      BY DEF CallTypes, PlaceTypes, CarryTypes
    <3> QED
      BY <1>1, <3>1, RecordTypesStep, PlaceTypesStep, CarryTypesStep, DaemonTypesStep DEF Lives
  <2>2. Tied' /\ SpawnedOnce' /\ PageLives'
    BY <1>1, SpawnedStep, TiedStep DEF Lives
  <2> QED
    BY <2>1, <2>2 DEF Lives, TypeOK, Tied
<1>2. CASE UNCHANGED vars
  <2>1. RecordTypes' /\ CallTypes'
    BY <1>2 DEF Lives, TypeOK, RecordTypes, CallTypes
  <2>2. DaemonTypes' /\ Tied'
    BY <1>2 DEF Lives, TypeOK, DaemonTypes, Tied, Stopped
  <2>3. SpawnedOnce'
    BY <1>2 DEF Lives, SpawnedOnce, Requests, Queued
  <2>4. PageLives'
    BY <1>2 DEF Lives, PageLives
  <2> QED
    BY <2>1, <2>2, <2>3, <2>4 DEF Lives, TypeOK, Tied
<1> QED
  BY <1>1, <1>2

LEMMA LivesCorrect == Spec => []Lives
<1>1. Init => Lives
  BY LivesInit
<1>2. Lives /\ [Next]_vars => Lives'
  BY LivesStep
<1> QED
  BY <1>1, <1>2, PTL DEF Spec

\* Only what was born is in the table, and exactly the workers kerneld has
\* terminated have stopped: a pid is given its worker once.
THEOREM TypeCorrect == Spec => []TypeOK
<1>1. Lives => TypeOK
  BY DEF Lives
<1> QED
  BY <1>1, LivesCorrect, PTL

-----------------------------------------------------------------------------
\* The status is there before the end of the files

\* What a step outside finish leaves alone.
Bystands ==
  /\ \A p \in Procs: state'[p] = "exited" <=> state[p] = "exited"
  /\ \A p \in Procs: state[p] = "exited" => parent'[p] = parent[p]
  /\ \A p \in table': p \in table \/ state'[p] = "starting"
  /\ UNCHANGED <<status, outcome, files>>
  /\ \A a \in Actors: pc'[a] \in Past =>
       pc'[a] = pc[a] /\ obj'[a] = obj[a] /\ code'[a] = code[a] /\ orphans'[a] = orphans[a]

LEMMA PastIs ==
  /\ Past = {"fstatus", "ftake", "fclose", "fbump", "fnotify", "flook",
             "fpost", "fremove", "fcollect", "freap", "freport"}
  /\ Past \subseteq Finishing
BY DEF Past, Finishing

\* A step of one actor that leaves everything but the record and the queues.
LEMMA MoveBystands ==
  ASSUME TypeOK, NEW a \in Actors, NEW at, Goto(a, at), at \notin Past,
         \A b \in Actors \ {a}: obj'[b] = obj[b] /\ code'[b] = code[b],
         \A p \in Procs: state'[p] = "exited" <=> state[p] = "exited",
         table' \subseteq table, UNCHANGED <<parent, status, outcome, files, orphans>>
  PROVE  Bystands
BY Types DEF Bystands, Goto

LEMMA OthersBystand ==
  ASSUME Lives, Next, ~Finishes
  PROVE  Bystands
<1>0. TypeOK
  BY DEF Lives
<1>1. CASE Asks
  <2> PICK a \in Procs: SpawnNew(a) \/ SpawnRequest(a) \/ \E p \in Procs: Kill(a, p)
    BY <1>1 DEF Asks
  <2>1. CASE SpawnNew(a)
    <3> PICK child \in Procs:
          /\ state[child] = "unborn" /\ pc[a] = "user"
          /\ state' = [state EXCEPT ![child] = "starting"]
          /\ parent' = [parent EXCEPT ![child] = a]
          /\ table' = table \cup {child}
          /\ obj' = [obj EXCEPT ![a] = child]
          /\ pc' = [pc EXCEPT ![a] = "sreq"]
          /\ UNCHANGED <<status, files, outcome, code, orphans>>
      BY <2>1, ChildIsUnborn
    <3>1. parent \in [Procs -> Procs \cup {0}]
      BY <1>0 DEF TypeOK, RecordTypes
    <3>2. /\ \A p \in Procs: state'[p] = "exited" <=> state[p] = "exited"
          /\ \A p \in Procs: state[p] = "exited" => parent'[p] = parent[p]
          /\ \A p \in table': p \in table \/ state'[p] = "starting"
      BY <1>0, <3>1, Types
    <3>3. \A b \in Actors: pc'[b] \in Past => pc'[b] = pc[b] /\ obj'[b] = obj[b]
      BY <1>0, Types, PastIs
    <3> QED
      BY <3>2, <3>3 DEF Bystands
  <2>2. CASE SpawnRequest(a)
    BY <1>0, <2>2, MoveBystands, Types, PastIs DEF SpawnRequest
  <2>3. CASE \E p \in Procs: Kill(a, p)
    BY <2>3 DEF Kill, Bystands
  <2> QED
    BY <2>1, <2>2, <2>3
<1>2. CASE Attaches
  <2> PICK p \in Procs: AttachGet(p) \/ Attach(p)
    BY <1>2 DEF Attaches
  <2>1. CASE AttachGet(p)
    <3>1. \E at \in {"attach", "stray"}: Goto(p, at)
      BY <2>1 DEF AttachGet
    <3> QED
      BY <1>0, <2>1, <3>1, MoveBystands, Types, PastIs DEF AttachGet
  <2>2. CASE Attach(p)
    <3>1. \A q \in Procs: state'[q] = "exited" <=> state[q] = "exited"
      BY <1>0, <2>2, Types DEF Attach
    <3> QED
      BY <1>0, <2>2, <3>1, MoveBystands, Types, PastIs DEF Attach
  <2> QED
    BY <2>1, <2>2
<1>3. CASE Ends
  <2>1. CASE \E p \in Procs: Crash(p)
    BY <2>1 DEF Crash, Bystands
  <2>2. CASE \E p \in Procs: \E c \in Codes: Exit(p, c)
    <3> PICK p \in Procs, c \in Codes: Exit(p, c)
      BY <2>2
    <3>1. \A b \in Actors \ {p}: obj'[b] = obj[b] /\ code'[b] = code[b]
      BY <1>0, Types DEF Exit, TypeOK, CallTypes
    <3> QED
      BY <1>0, <3>1, MoveBystands, Types, PastIs DEF Exit
  <2> QED
    BY <1>3, <2>1, <2>2 DEF Ends
<1>4. CASE Waits
  <2> PICK a \in Procs: WaitOn(a) \/ \E p \in Procs: Wait(a, p)
    BY <1>4 DEF Waits
  <2>1. \E at \in Waiting \cup {"user"}: Goto(a, at)
    BY DEF WaitOn, Wait, WaitSeq, WaitLoad, WaitSleep, WaitRemove, WaitStatus, Waiting
  <2>2. UNCHANGED <<state, parent, status, outcome, files, orphans, code>> /\ table' \subseteq table
    BY DEF WaitOn, Wait, WaitSeq, WaitLoad, WaitSleep, WaitRemove, WaitStatus
  <2>3. \A b \in Actors \ {a}: obj'[b] = obj[b]
    BY <1>0, Types DEF WaitOn, Wait, WaitSeq, WaitLoad, WaitSleep, WaitRemove, WaitStatus
  <2>4. (Waiting \cup {"user"}) \cap Past = {}
    BY PastIs DEF Waiting
  <2> QED
    BY <1>0, <2>1, <2>2, <2>3, <2>4, MoveBystands, Types
<1>6. CASE Turns
  <2>1. \E at \in {"drain", "await"}: Goto(Kerneld, at)
    BY <1>6 DEF Turns, Resume, Drained
  <2> QED
    BY <1>0, <1>6, <2>1, MoveBystands, Types, PastIs DEF Turns, Resume, Drained
<1>k. ASSUME NEW p \in Procs, NEW c, NEW next, NEW at, KerneldFinishes(p, c, next), Goto(Kerneld, at),
             at \notin Past, UNCHANGED <<record, table, orphans>>
      PROVE  Bystands
  <2>1. \A b \in Actors \ {Kerneld}: obj'[b] = obj[b] /\ code'[b] = code[b]
    BY <1>0, <1>k, Types DEF KerneldFinishes, TypeOK, CallTypes
  <2> QED
    BY <1>0, <1>k, <2>1, MoveBystands, Types
<1>7. CASE Takes
  <2> PICK p \in Procs: TakeSpawn(p) \/ TakeKill(p) \/ TakeExit(p)
    BY <1>7 DEF Takes
  <2>1. CASE TakeKill(p)
    BY <1>k, <2>1, PastIs DEF TakeKill
  <2>2. CASE TakeSpawn(p) \/ TakeExit(p)
    BY <2>2 DEF TakeSpawn, TakeExit, Bystands
  <2> QED
    BY <2>1, <2>2
<1>t. ASSUME NEW p \in Procs, NEW at, Terminated(p, at), at \notin Past,
             UNCHANGED <<record, table, locals>>
      PROVE  Bystands
  BY <1>0, <1>t, Types, PastIs DEF Terminated, Bystands
<1>8. CASE Retires
  <2>1. \E at \in {"fswap", "await"}: Retire(obj[Kerneld], at)
    BY <1>8 DEF Retires, KillRetires, CrashRetires
  <2>2. UNCHANGED <<record, table, locals>>
    BY <1>8 DEF Retires, KillRetires, CrashRetires
  <2>3. (\E at \in {"fswap", "await"}: Goto(Kerneld, at)) \/ \E at \in {"fswap", "await"}: Terminated(obj[Kerneld], at)
    BY <2>1 DEF Retire
  <2> QED
    BY <1>0, <1>t, <2>2, <2>3, MoveBystands, Types, PastIs
<1>9. CASE Callbacks
  <2> PICK p \in Procs: Callback(p)
    BY <1>9 DEF Callbacks
  <2>1. CASE TimerFires(p)
    BY <1>t, <2>1, PastIs DEF TimerFires
  <2>2. CASE SpawnRuns(p)
    BY <1>0, <2>2, MoveBystands, Types, PastIs DEF SpawnRuns
  <2>3. CASE SpawnFails(p)
    BY <1>k, <2>3, PastIs DEF SpawnFails
  <2>4. CASE TakeCrash(p)
    BY <1>k, <2>4, PastIs DEF TakeCrash
  <2> QED
    BY <2>1, <2>2, <2>3, <2>4 DEF Callback
<1> QED
  BY <1>1, <1>2, <1>3, <1>4, <1>6, <1>7, <1>8, <1>9, NextCases

LEMMA BystandsPublished ==
  ASSUME TypeOK, Published, Bystands
  PROVE  Published'
BY Types, PastIs DEF Published, Bystands

\* What a step of finish leaves alone: the other calls of finish.
LEMMA FinishAlone ==
  ASSUME TypeOK, NEW a \in Actors, Finish(a)
  PROVE  /\ \A b \in Actors \ {a}: pc[b] \in Past \/ pc'[b] \in Past => pc'[b] = pc[b]
         /\ \A b \in Actors \ {a}: orphans'[b] = orphans[b]
         /\ UNCHANGED <<obj, code, parent>>
<1>1. UNCHANGED <<obj, code, parent>>
  BY DEF Finish, FinishSwap, FinishStatus, FinishTakeFiles, FinishCloseFiles, FinishBump, FinishNotify,
     FinishLook, FinishPost, FinishRemove, FinishCollect, FinishReap, FinishReport
<1>2. \A b \in Actors \ {a}: orphans'[b] = orphans[b]
  BY Types DEF Finish, FinishSwap, FinishStatus, FinishTakeFiles, FinishCloseFiles, FinishBump, FinishNotify,
     FinishLook, FinishPost, FinishRemove, FinishCollect, FinishReap, FinishReport, TypeOK, CallTypes
<1>3. CASE FinishNotify(a)
  BY <1>1, <1>2, <1>3, Types, PastIs DEF FinishNotify
<1>4. CASE ~FinishNotify(a)
  <2>1. \E at \in Finishing \cup {after, "done"}: Goto(a, at)
    BY <1>4 DEF Finish, FinishSwap, FinishStatus, FinishTakeFiles, FinishCloseFiles, FinishBump,
       FinishLook, FinishPost, FinishRemove, FinishCollect, FinishReap, FinishReport, Finishing, Return
  <2> QED
    BY <1>1, <1>2, <2>1, Types DEF Goto
<1> QED
  BY <1>3, <1>4

LEMMA FinishPublished ==
  ASSUME TypeOK, Published, NEW a \in Actors, Finish(a)
  PROVE  Published'
<1> DEFINE p == obj[a]
<1>0. /\ state \in [Procs -> {"unborn", "starting", "running", "exited"}]
      /\ status \in [Procs -> 0..255] /\ outcome \in [Procs -> 0..255 \cup {None}]
      /\ files \in [Procs -> {"open", "taken", "closed"}]
      /\ pc \in [Actors -> WorkerPC \cup KerneldPC] /\ obj \in [Actors -> Procs] /\ p \in Procs
  BY Types DEF TypeOK, RecordTypes
<1>1. /\ \A b \in Actors \ {a}: pc'[b] \in Past => pc'[b] = pc[b]
      /\ UNCHANGED <<obj, code>>
  BY FinishAlone
<1>r. after \notin Past /\ "done" \notin Past
  BY Types, PastIs DEF Minds
<1>2. CASE FinishSwap(a)
  <2>1. CASE state[p] = "exited"
    <3>1. UNCHANGED <<state, status, outcome, files>> /\ Return(a)
      BY <1>0, <2>1, <1>2 DEF FinishSwap
    <3>2. pc'[a] \notin Past
      BY <1>0, <1>r, <3>1 DEF Return, Goto
    <3> QED
      BY <1>1, <3>1, <3>2, PastIs DEF Published
  <2>2. CASE state[p] # "exited"
    <3>1. /\ state' = [state EXCEPT ![p] = "exited"] /\ outcome' = [outcome EXCEPT ![p] = code[a]]
          /\ UNCHANGED <<status, files>> /\ pc'[a] = "fstatus"
      BY <1>0, <2>2, <1>2 DEF FinishSwap, Goto
    <3>2. \A b \in Actors: pc[b] \in Past => obj[b] # p
      BY <2>2 DEF Published
    <3>3. \A q \in Procs: files[q] # "open" => q # p
      BY <2>2 DEF Published
    <3> HIDE DEF p
    <3>4. \A b \in Actors: pc'[b] \in Past =>
            /\ state'[obj[b]] = "exited"
            /\ pc'[b] = "fstatus" => outcome'[obj[b]] = code[b]
            /\ pc'[b] # "fstatus" => status[obj[b]] = outcome'[obj[b]]
      <4>1. ASSUME NEW b \in Actors \ {a}, pc'[b] \in Past
            PROVE  pc'[b] = pc[b] /\ obj[b] # p /\ obj[b] \in Procs
        BY <1>0, <1>1, <3>2, <4>1
      <4>2. \A b \in Actors \ {a}: pc'[b] \in Past =>
              /\ state'[obj[b]] = "exited"
              /\ pc'[b] = "fstatus" => outcome'[obj[b]] = code[b]
              /\ pc'[b] # "fstatus" => status[obj[b]] = outcome'[obj[b]]
        BY <1>0, <3>1, <4>1 DEF Published
      <4>3. pc'[a] = "fstatus" /\ state'[obj[a]] = "exited" /\ outcome'[obj[a]] = code[a]
        BY <1>0, <3>1 DEF p
      <4> QED
        BY <4>2, <4>3
    <3>5. \A q \in Procs: files[q] # "open" => state'[q] = "exited" /\ status[q] = outcome'[q]
      BY <1>0, <3>1, <3>3 DEF Published
    <3> QED
      BY <1>1, <3>1, <3>4, <3>5, PastIs DEF Published
  <2> QED
    BY <2>1, <2>2
<1>3. CASE FinishStatus(a)
  <2>1. /\ pc[a] = "fstatus" /\ pc'[a] = "ftake" /\ status' = [status EXCEPT ![p] = code[a]]
        /\ UNCHANGED <<state, outcome, files>>
    BY <1>0, <1>3 DEF FinishStatus, Goto
  <2>2. outcome[p] = code[a] /\ state[p] = "exited"
    BY <2>1, PastIs DEF Published
  <2>3. \A q \in Procs: status'[q] = IF q = p THEN outcome[q] ELSE status[q]
    BY <1>0, <2>1, <2>2
  <2>4. \A b \in Actors \ {a}: pc'[b] \in Past =>
          pc'[b] = pc[b] /\ obj[b] \in Procs /\ obj'[b] = obj[b] /\ code'[b] = code[b]
    BY <1>0, <1>1
  <2> HIDE DEF p
  <2>5. \A b \in Actors: pc'[b] \in Past => state'[obj'[b]] = "exited"
    BY <1>1, <2>1, <2>2, <2>4 DEF Published, p
  <2>6. \A b \in Actors: pc'[b] = "fstatus" => outcome'[obj'[b]] = code'[b]
    BY <2>1, <2>4, PastIs DEF Published
  <2>7. \A b \in Actors: pc'[b] \in Past \ {"fstatus"} => status'[obj'[b]] = outcome'[obj'[b]]
    BY <1>0, <1>1, <2>1, <2>3, <2>4 DEF Published, p
  <2>8. \A q \in Procs: files'[q] # "open" => state'[q] = "exited" /\ status'[q] = outcome'[q]
    BY <2>1, <2>3 DEF Published
  <2> QED
    BY <2>5, <2>6, <2>7, <2>8 DEF Published
<1>4. CASE FinishTakeFiles(a) \/ FinishCloseFiles(a)
  <2>1. /\ pc[a] \in Past \ {"fstatus"} /\ pc'[a] \in Past \ {"fstatus"}
        /\ UNCHANGED <<state, status, outcome>>
        /\ \A q \in Procs \ {p}: files'[q] = files[q]
    BY <1>0, <1>4, PastIs DEF FinishTakeFiles, FinishCloseFiles, Goto
  <2>2. state[p] = "exited" /\ status[p] = outcome[p]
    BY <2>1 DEF Published
  <2> QED
    BY <1>1, <2>1, <2>2, PastIs DEF Published
<1>5. CASE ~FinishSwap(a) /\ ~FinishStatus(a) /\ ~FinishTakeFiles(a) /\ ~FinishCloseFiles(a)
  <2>1. pc[a] \in Past \ {"fstatus"} /\ UNCHANGED <<state, status, outcome, files>>
    BY <1>5, PastIs DEF Finish, FinishBump, FinishNotify, FinishLook, FinishPost, FinishRemove,
       FinishCollect, FinishReap, FinishReport
  <2>2. pc'[a] # "fstatus"
    <3>1. CASE FinishNotify(a)
      BY <1>0, <3>1 DEF FinishNotify
    <3>2. CASE ~FinishNotify(a)
      <4>1. \E at \in (Past \ {"fstatus"}) \cup {after, "done"}: Goto(a, at)
        BY <1>5, <3>2, PastIs DEF Finish, FinishBump, FinishLook, FinishPost, FinishRemove,
           FinishCollect, FinishReap, FinishReport, Return
      <4> QED
        BY <1>0, <1>r, <4>1, PastIs DEF Goto
    <3> QED
      BY <3>1, <3>2
  <2> QED
    BY <1>1, <2>1, <2>2, PastIs DEF Published
<1> QED
  BY <1>2, <1>3, <1>4, <1>5

LEMMA PublishedStep ==
  ASSUME Lives, Published, [Next]_vars
  PROVE  Published'
<1>1. CASE Next /\ ~Finishes
  BY <1>1, OthersBystand, BystandsPublished DEF Lives
<1>2. CASE Finishes
  BY <1>2, FinishPublished DEF Lives, Finishes
<1>3. CASE UNCHANGED vars
  BY <1>3 DEF Published
<1> QED
  BY <1>1, <1>2, <1>3

\* A process whose files are closed has the status of the finish that took
\* effect, wherever a kill may hit: nobody closes the files of a process
\* without having stored it, and no later finish gets as far as storing another.
THEOREM StatusCorrect == Spec => []StatusBeforeEof
<1>1. Init => Published
  BY PastIs, Constants DEF Init, Published
<1>2. Lives /\ Published /\ [Next]_vars => Published'
  BY PublishedStep
<1>3. Published => StatusBeforeEof
  BY DEF Published, StatusBeforeEof
<1> QED
  BY <1>1, <1>2, <1>3, LivesCorrect, PTL DEF Spec

-----------------------------------------------------------------------------
\* Every dead process is reaped

\* The step does not take a worker inside its own finish.
Spares == \A p \in Procs: pc[p] \in Past => pc'[p] # "gone"

\* Where no kill takes a worker inside its finish, finish goes on.
LEMMA FinishersStay ==
  ASSUME Lives, Next, ~Finishes, Spares
  PROVE  \A a \in Actors: pc[a] \in Past =>
           pc'[a] = pc[a] /\ obj'[a] = obj[a] /\ orphans'[a] = orphans[a]
<1>0. TypeOK /\ Tied
  BY DEF Lives
<1>s. SUFFICES ASSUME NEW a \in Actors, pc[a] \in Past
               PROVE  pc'[a] = pc[a]
  BY <1>0, OthersBystand DEF Bystands
<1>m. ASSUME NEW b \in Actors, NEW at, Goto(b, at), pc[b] \notin Past
      PROVE  pc'[a] = pc[a]
  BY <1>0, <1>m, <1>s, Types DEF Goto
<1>t. ASSUME NEW p \in Procs, NEW at, Terminated(p, at), pc[Kerneld] \notin Past
      PROVE  pc'[a] = pc[a]
  BY <1>0, <1>t, <1>s, Types DEF Terminated, Spares
<1>1. CASE Asks
  <2> PICK b \in Procs: SpawnNew(b) \/ SpawnRequest(b) \/ \E p \in Procs: Kill(b, p)
    BY <1>1 DEF Asks
  <2>1. CASE SpawnNew(b)
    BY <1>0, <1>m, <2>1, Types, PastIs DEF SpawnNew
  <2>2. CASE SpawnRequest(b)
    BY <1>0, <1>m, <2>2, Types, PastIs DEF SpawnRequest
  <2>3. CASE \E p \in Procs: Kill(b, p)
    BY <2>3 DEF Kill
  <2> QED
    BY <2>1, <2>2, <2>3
<1>2. CASE Attaches
  <2>1. \E p \in Procs: \E at \in {"attach", "stray", "user"}: Goto(p, at) /\ pc[p] \in {"boot", "attach"}
    BY <1>2 DEF Attaches, AttachGet, Attach
  <2> QED
    BY <1>0, <1>m, <2>1, Types, PastIs
<1>3. CASE Ends
  <2>1. CASE \E p \in Procs: Crash(p)
    BY <2>1 DEF Crash
  <2>2. CASE \E p \in Procs: \E c \in Codes: Exit(p, c)
    BY <1>0, <1>m, <2>2, Types, PastIs DEF Exit
  <2> QED
    BY <1>3, <2>1, <2>2 DEF Ends
<1>4. CASE Waits
  <2>1. \E b \in Procs: \E at \in Waiting \cup {"user"}: Goto(b, at) /\ pc[b] \in Waiting \cup {"user"}
    BY <1>4 DEF Waits, WaitOn, Wait, WaitSeq, WaitLoad, WaitSleep, WaitRemove, WaitStatus, Waiting
  <2>2. (Waiting \cup {"user"}) \cap Past = {}
    BY PastIs DEF Waiting
  <2> QED
    BY <1>0, <1>m, <2>1, <2>2, Types
<1>6. CASE Turns
  <2>1. \E at \in {"drain", "await"}: Goto(Kerneld, at) /\ pc[Kerneld] \in {"drain", "await"}
    BY <1>6 DEF Turns, Resume, Drained
  <2> QED
    BY <1>0, <1>m, <2>1, Types, PastIs
<1>7. CASE Takes
  <2> PICK p \in Procs: TakeSpawn(p) \/ TakeKill(p) \/ TakeExit(p)
    BY <1>7 DEF Takes
  <2>1. CASE TakeKill(p)
    BY <1>0, <1>m, <2>1, Types, PastIs DEF TakeKill, TakeWork
  <2>2. CASE TakeSpawn(p) \/ TakeExit(p)
    BY <2>2 DEF TakeSpawn, TakeExit
  <2> QED
    BY <2>1, <2>2
<1>8. CASE Retires
  <2>1. \E at \in {"fswap", "await"}: Retire(obj[Kerneld], at) /\ pc[Kerneld] \in {"kill", "crashed"}
    BY <1>8 DEF Retires, KillRetires, CrashRetires
  <2> QED
    BY <1>0, <1>m, <1>t, <2>1, Types, PastIs DEF Retire
<1>9. CASE Callbacks
  <2> PICK p \in Procs: Callback(p)
    BY <1>9 DEF Callbacks
  <2>0. pc[Kerneld] \notin Past
    BY PastIs DEF Callback, TimerFires, SpawnRuns, SpawnFails, TakeCrash
  <2>1. CASE TimerFires(p)
    BY <1>t, <2>0, <2>1 DEF TimerFires
  <2>2. CASE SpawnRuns(p)
    <3>1. pc[p] = "none"
      BY <2>2 DEF SpawnRuns, Tied, Lives, PageLives
    <3> QED
      BY <1>0, <1>m, <2>2, <3>1, Types, PastIs DEF SpawnRuns
  <2>3. CASE SpawnFails(p) \/ TakeCrash(p)
    BY <1>0, <1>m, <2>0, <2>3, Types DEF SpawnFails, TakeCrash
  <2> QED
    BY <2>1, <2>2, <2>3 DEF Callback
<1> QED
  BY <1>1, <1>2, <1>3, <1>4, <1>6, <1>7, <1>8, <1>9, NextCases

\* The parent of what is dead and in the table has a record.
LEMMA ParentIs ==
  ASSUME Lives, NEW p \in table, state[p] = "exited"
  PROVE  p \in Procs /\ parent[p] \in Procs
BY DEF Lives, TypeOK, RecordTypes, PageLives

LEMMA OthersReaped ==
  ASSUME Lives, Reaped, Next, ~Finishes, Spares
  PROVE  Reaped'
<1> SUFFICES ASSUME NEW p \in Procs, Looked(p)'
             PROVE  state'[parent'[p]] # "exited" \/ \E b \in Actors: Finds(b, parent[p], p)'
  BY DEF Reaped
<1>1. p \in table /\ state[p] = "exited" /\ parent'[p] = parent[p]
  BY OthersBystand DEF Looked, Bystands
<1>2. Looked(p)
  <2>1. \A a \in Actors: pc[a] \in Past /\ obj[a] = p => pc[a] \in {"fpost", "fcollect", "freap", "freport"}
    BY FinishersStay DEF Looked
  <2> QED
    BY <1>1, <2>1 DEF Looked
<1>3. state[parent[p]] # "exited" \/ \E b \in Actors: Finds(b, parent[p], p)
  BY <1>2 DEF Reaped
<1>4. parent[p] \in Procs
  BY <1>1, ParentIs
<1>5. CASE state[parent[p]] # "exited"
  BY <1>1, <1>4, <1>5, OthersBystand DEF Bystands
<1>6. CASE \E b \in Actors: Finds(b, parent[p], p)
  <2> PICK b \in Actors: Finds(b, parent[p], p)
    BY <1>6
  <2>1. Finds(b, parent[p], p)'
    BY <1>1, FinishersStay DEF Finds
  <2> QED
    BY <2>1
<1> QED
  BY <1>3, <1>5, <1>6

\* A finisher that goes on, and has not reaped, will still find what it would
\* have found; what it has reaped is no longer there.
LEMMA FinderGoesOn ==
  ASSUME Lives, NEW b \in Actors, Finish(b), NEW p \in table', state[p] = "exited",
         Finds(b, parent[p], p)
  PROVE  Finds(b, parent[p], p)'
<1>0. /\ TypeOK /\ UNCHANGED <<obj, parent>> /\ table \subseteq Procs
      /\ orphans \in [Actors -> SUBSET Procs] /\ pc \in [Actors -> WorkerPC \cup KerneldPC]
  BY FinishAlone DEF Lives, TypeOK, RecordTypes, CallTypes
<1>1. pc[b] \in Past /\ obj[b] = parent[p] /\ pc[b] # "freport" /\ pc[b] # "fswap"
  BY PastIs DEF Finds
<1>2. CASE FinishCollect(b)
  <2>1. p \in table
    BY <1>2 DEF FinishCollect
  <2>2. p \in orphans'[b] /\ pc'[b] = "freap"
    BY <1>0, <1>1, <1>2, <2>1 DEF FinishCollect, Goto
  <2> QED
    BY <1>0, <1>1, <2>2, PastIs DEF Finds
<1>3. CASE FinishReap(b)
  BY <1>3 DEF FinishReap, Finds
<1>4. CASE ~FinishCollect(b) /\ ~FinishReap(b)
  <2>1. pc'[b] \in Past \ {"freap", "freport"}
    <3>1. CASE FinishNotify(b)
      BY <3>1, PastIs DEF FinishNotify
    <3>2. CASE ~FinishNotify(b)
      <4>1. \E at \in Past \ {"freap", "freport"}: Goto(b, at)
        BY <1>1, <1>4, <3>2, PastIs
           DEF Finish, FinishSwap, FinishStatus, FinishTakeFiles, FinishCloseFiles, FinishBump,
               FinishLook, FinishPost, FinishRemove, FinishReport
      <4> QED
        BY <1>0, <4>1 DEF Goto
    <3> QED
      BY <3>1, <3>2
  <2> QED
    BY <1>0, <1>1, <2>1 DEF Finds
<1> QED
  BY <1>2, <1>3, <1>4

\* Another's finish does not move who will find p.
LEMMA FinderStays ==
  ASSUME Lives, NEW a \in Actors, Finish(a), NEW b \in Actors \ {a}, NEW p, Finds(b, parent[p], p)
  PROVE  Finds(b, parent[p], p)'
BY FinishAlone DEF Lives, Finds

LEMMA FinishReaped ==
  ASSUME Lives, Published, Reaped, NEW a \in Actors, Finish(a)
  PROVE  Reaped'
<1>0. /\ TypeOK /\ UNCHANGED <<obj, parent>> /\ table' \subseteq table /\ obj[a] \in Procs
      /\ state \in [Procs -> {"unborn", "starting", "running", "exited"}]
      /\ pc \in [Actors -> WorkerPC \cup KerneldPC]
  <2>1. table' \subseteq table
    BY DEF Finish, FinishSwap, FinishStatus, FinishTakeFiles, FinishCloseFiles, FinishBump, FinishNotify,
       FinishLook, FinishPost, FinishRemove, FinishCollect, FinishReap, FinishReport
  <2> QED
    BY <2>1, FinishAlone, Types DEF Lives
<1> SUFFICES ASSUME NEW p \in Procs, Looked(p)'
             PROVE  state'[parent[p]] # "exited" \/ \E b \in Actors: Finds(b, parent[p], p)'
  BY <1>0 DEF Reaped
<1>1. p \in table /\ p \in table' /\ state'[p] = "exited"
  BY <1>0 DEF Looked
<1>2. \A b \in Actors \ {a}: pc[b] \in Past /\ obj[b] = p => pc[b] \in {"fpost", "fcollect", "freap", "freport"}
  BY <1>0, FinishAlone DEF Looked
\* The step that looks, and finds the parent alive.
<1>3. CASE FinishLook(a) /\ obj[a] = p
  <2>1. pc'[a] = (IF state[parent[p]] # "exited" THEN "fpost" ELSE "fremove") /\ state' = state
    BY <1>0, <1>3 DEF FinishLook, Goto
  <2>2. pc'[a] # "fremove"
    BY <1>0, <1>3, <2>1, PastIs DEF Looked
  <2> QED
    BY <2>1, <2>2
<1>4. CASE ~(FinishLook(a) /\ obj[a] = p)
  <2>1. Looked(p)
    <3>1. state[p] = "exited"
      <4>1. CASE FinishSwap(a) /\ state[obj[a]] # "exited" /\ obj[a] = p
        <5>1. pc'[a] = "fstatus"
          BY <1>0, <4>1 DEF FinishSwap, Goto
        <5> QED
          BY <1>0, <4>1, <5>1, PastIs DEF Looked
      <4>2. CASE ~(FinishSwap(a) /\ state[obj[a]] # "exited" /\ obj[a] = p)
        BY <1>0, <1>1, <4>2 DEF Finish, FinishSwap, FinishStatus, FinishTakeFiles, FinishCloseFiles,
           FinishBump, FinishNotify, FinishLook, FinishPost, FinishRemove, FinishCollect, FinishReap,
           FinishReport
      <4> QED
        BY <4>1, <4>2
    <3>2. pc[a] \in Past /\ obj[a] = p => pc[a] \in {"fpost", "fcollect", "freap", "freport"}
      <4> SUFFICES ASSUME pc[a] \in Past, obj[a] = p, pc[a] \notin {"fpost", "fcollect", "freap", "freport"}
                   PROVE  FALSE
        OBVIOUS
      <4>1. \/ FinishStatus(a) \/ FinishTakeFiles(a) \/ FinishCloseFiles(a) \/ FinishBump(a)
            \/ FinishNotify(a) \/ FinishRemove(a)
        BY <1>4, PastIs DEF Finish, FinishSwap, FinishPost, FinishCollect, FinishReap, FinishReport
      <4>2. CASE FinishRemove(a)
        BY <1>1, <4>2 DEF FinishRemove
      <4>3. CASE FinishNotify(a)
        <5>1. pc'[a] = "flook"
          BY <1>0, <4>3 DEF FinishNotify
        <5> QED
          BY <1>0, <5>1, PastIs DEF Looked
      <4>4. CASE ~FinishRemove(a) /\ ~FinishNotify(a)
        <5>1. pc'[a] \in {"ftake", "fclose", "fbump", "fnotify"}
          BY <1>0, <4>1, <4>4 DEF FinishStatus, FinishTakeFiles, FinishCloseFiles, FinishBump, Goto
        <5> QED
          BY <1>0, <5>1, PastIs DEF Looked
      <4> QED
        BY <4>2, <4>3, <4>4
    <3> QED
      BY <1>1, <1>2, <3>1, <3>2 DEF Looked
  <2>2. parent[p] \in Procs /\ state[p] = "exited"
    BY <1>1, <2>1, ParentIs DEF Looked
  <2>3. CASE \E b \in Actors: Finds(b, parent[p], p)
    <3> PICK b \in Actors: Finds(b, parent[p], p)
      BY <2>3
    <3>1. CASE b = a
      <4>1. Finds(b, parent[p], p)'
        BY <1>1, <2>2, <3>1, FinderGoesOn
      <4> QED
        BY <4>1
    <3>2. CASE b # a
      <4>1. Finds(b, parent[p], p)'
        BY <3>2, FinderStays
      <4> QED
        BY <4>1
    <3> QED
      BY <3>1, <3>2
  <2>4. CASE state[parent[p]] # "exited"
    \* The parent dies: who finishes it has everything to do.
    <3>1. CASE FinishSwap(a) /\ obj[a] = parent[p]
      <4>1. pc'[a] = "fstatus"
        BY <1>0, <2>4, <3>1 DEF FinishSwap, Goto
      <4>2. Finds(a, parent[p], p)'
        BY <1>0, <3>1, <4>1, PastIs DEF Finds
      <4> QED
        BY <4>2
    <3>2. CASE ~(FinishSwap(a) /\ obj[a] = parent[p])
      BY <1>0, <2>2, <2>4, <3>2 DEF Finish, FinishSwap, FinishStatus, FinishTakeFiles, FinishCloseFiles,
         FinishBump, FinishNotify, FinishLook, FinishPost, FinishRemove, FinishCollect, FinishReap,
         FinishReport
    <3> QED
      BY <3>1, <3>2
  <2> QED
    BY <2>1, <2>3, <2>4 DEF Reaped
<1> QED
  BY <1>3, <1>4

LEMMA ReapedStep ==
  ASSUME Lives, Published, Reaped, [Next]_vars, [Spares]_vars
  PROVE  Reaped'
<1>1. CASE Next /\ Spares /\ ~Finishes
  BY <1>1, OthersReaped
<1>2. CASE Finishes
  BY <1>2, FinishReaped DEF Finishes
<1>3. CASE UNCHANGED vars
  BY <1>3 DEF Reaped, Looked, Finds
<1> QED
  BY <1>1, <1>2, <1>3

\* A dead process whose finish is over is in the table only while somebody may
\* wait for it or will remove it, whatever exits at the same time, in every
\* behaviour in which no kill takes a worker inside its own finish: that would
\* leave the call with nobody to complete it.
THEOREM NoZombiesWhereSpared == Spec /\ [][Spares]_vars => []NoZombies
<1>1. Init => Published /\ Reaped
  BY PastIs, Constants DEF Init, Published, Reaped, Looked
<1>2. Lives /\ Published /\ [Next]_vars => Published'
  BY PublishedStep
<1>3. Lives /\ Published /\ Reaped /\ [Next]_vars /\ [Spares]_vars => Reaped'
  BY ReapedStep
<1>4. Lives /\ Reaped => NoZombies
  <2> SUFFICES ASSUME Lives, Reaped, NEW p \in table, state[p] = "exited", FinishingOf(p) = {}
               PROVE  \/ state[parent[p]] # "exited"
                      \/ \E a \in FinishingOf(parent[p]):
                           pc[a] # "freport" /\ (pc[a] = "freap" => p \in orphans[a])
    BY DEF NoZombies
  <2>1. p \in Procs
    BY ParentIs
  <2>2. Looked(p)
    BY DEF Looked, FinishingOf, Past
  <2> QED
    BY <2>1, <2>2 DEF Reaped, Finds, FinishingOf, Past
<1> QED
  BY <1>1, <1>2, <1>3, <1>4, LivesCorrect, PTL DEF Spec

-----------------------------------------------------------------------------
\* No exit is missed

\* Who sleeps, or is about to, for the exit of a process that is dead is still
\* to be woken, or kept from sleeping, by the finish of that process.
Woken ==
  \A a \in Procs: state[obj[a]] = "exited" =>
    /\ pc[a] = "wasleep" => \E b \in Actors: obj[b] = obj[a] /\ pc[b] \in Announcing
    /\ pc[a] = "wsleep" /\ fresh[a] =>
         \E b \in Actors: obj[b] = obj[a] /\ pc[b] \in Announcing \ {"fnotify"}

\* The finish of a dead process that has not told the parent has yet to do it,
\* or will take the process out of the table.
Telling == Announcing \cup {"flook", "fpost", "fremove"}

Told ==
  \A p \in table: state[p] = "exited" =>
    told[p] \/ \E b \in Actors: obj[b] = p /\ pc[b] \in Telling

LEMMA TellingIs ==
  /\ Announcing = {"fstatus", "ftake", "fclose", "fbump", "fnotify"}
  /\ Telling = Announcing \cup {"flook", "fpost", "fremove"} /\ Telling \subseteq Past
BY PastIs DEF Announcing, Telling

\* How a call of waitpid, or anybody, comes to sleep: it slept already, it has
\* found the process alive, or nothing has changed since it read the word.
FallsAsleep(a) ==
  /\ obj'[a] = obj[a]
  /\ \/ pc'[a] = pc[a] /\ fresh'[a] = fresh[a]
     \/ pc'[a] = "wsleep" /\ state[obj[a]] # "exited"
     \/ pc'[a] = "wasleep" /\ pc[a] = "wsleep" /\ fresh[a]

LEMMA SleepersStep ==
  ASSUME TypeOK, Next, ~Finishes, NEW a \in Procs, pc'[a] \in {"wsleep", "wasleep"}
  PROVE  FallsAsleep(a)
<1>0. a \in Actors /\ a # Kerneld /\ fresh \in [Procs -> BOOLEAN]
  BY Types DEF TypeOK, CallTypes
<1>m. ASSUME NEW b \in Actors, NEW at, Goto(b, at), at \notin {"wsleep", "wasleep"}
      PROVE  pc'[a] = pc[a] /\ a # b
  BY <1>0, <1>m, Types DEF Goto
<1>t. ASSUME NEW p \in Procs, NEW at, Terminated(p, at), at \notin {"wsleep", "wasleep"}
      PROVE  pc'[a] = pc[a]
  BY <1>0, <1>t, Types DEF Terminated
<1>s. ASSUME pc'[a] = pc[a], obj'[a] = obj[a], fresh'[a] = fresh[a]
      PROVE  FallsAsleep(a)
  BY <1>s DEF FallsAsleep
<1>1. CASE Asks
  <2> PICK b \in Procs: SpawnNew(b) \/ SpawnRequest(b) \/ \E p \in Procs: Kill(b, p)
    BY <1>1 DEF Asks
  <2>1. CASE SpawnNew(b)
    <3>1. \E child: obj' = [obj EXCEPT ![b] = child]
      BY <2>1, ChildIsUnborn
    <3>2. pc'[a] = pc[a] /\ a # b
      BY <1>m, <2>1, Types DEF SpawnNew
    <3>3. fresh' = fresh
      BY <2>1 DEF SpawnNew
    <3> QED
      BY <1>0, <1>s, <3>1, <3>2, <3>3, Types
  <2>2. CASE SpawnRequest(b)
    BY <1>m, <1>s, <2>2, Types DEF SpawnRequest
  <2>3. CASE \E p \in Procs: Kill(b, p)
    BY <1>s, <2>3 DEF Kill
  <2> QED
    BY <2>1, <2>2, <2>3
<1>2. CASE Attaches
  <2> PICK p \in Procs: AttachGet(p) \/ Attach(p)
    BY <1>2 DEF Attaches
  <2>1. \E at \in {"attach", "stray", "user"}: Goto(p, at)
    BY DEF AttachGet, Attach
  <2>2. UNCHANGED locals
    BY DEF AttachGet, Attach
  <2> QED
    BY <1>m, <1>s, <2>1, <2>2, Types
<1>3. CASE Ends
  <2>1. CASE \E p \in Procs: Crash(p)
    BY <1>s, <2>1 DEF Crash
  <2>2. CASE \E p \in Procs: \E c \in Codes: Exit(p, c)
    BY <1>0, <1>m, <1>s, <2>2, Types DEF Exit
  <2> QED
    BY <1>3, <2>1, <2>2 DEF Ends
<1>4. CASE Waits
  <2> PICK b \in Procs: WaitOn(b) \/ \E p \in Procs: Wait(b, p)
    BY <1>4 DEF Waits
  <2>1. CASE WaitLoad(b)
    BY <1>0, <2>1, Types DEF WaitLoad, Goto, FallsAsleep
  <2>2. CASE WaitSleep(b)
    BY <1>0, <2>2, Types DEF WaitSleep, Goto, FallsAsleep
  <2>3. CASE WaitSeq(b)
    BY <1>0, <1>m, <1>s, <2>3, Types DEF WaitSeq
  <2>4. CASE WaitRemove(b) \/ WaitStatus(b)
    BY <1>m, <1>s, <2>4, Types DEF WaitRemove, WaitStatus
  <2>5. CASE \E p \in Procs: Wait(b, p)
    BY <1>0, <1>m, <1>s, <2>5, Types DEF Wait
  <2> QED
    BY <2>1, <2>2, <2>3, <2>4, <2>5 DEF WaitOn
<1>6. CASE Turns
  BY <1>0, <1>m, <1>s, <1>6, Types DEF Turns, Resume, Drained
<1>7. CASE Takes
  <2> PICK p \in Procs: TakeSpawn(p) \/ TakeKill(p) \/ TakeExit(p)
    BY <1>7 DEF Takes
  <2>1. CASE TakeKill(p)
    BY <1>0, <1>m, <1>s, <2>1, Types DEF TakeKill, KerneldFinishes
  <2>2. CASE TakeSpawn(p) \/ TakeExit(p)
    BY <1>s, <2>2 DEF TakeSpawn, TakeExit
  <2> QED
    BY <2>1, <2>2
<1>8. CASE Retires
  <2>1. \E at \in {"fswap", "await"}: Retire(obj[Kerneld], at)
    BY <1>8 DEF Retires, KillRetires, CrashRetires
  <2>2. UNCHANGED locals
    BY <1>8 DEF Retires, KillRetires, CrashRetires
  <2>3. pc'[a] = pc[a]
    BY <1>m, <1>t, <2>1, Types DEF Retire
  <2> QED
    BY <1>s, <2>2, <2>3
<1>9. CASE Callbacks
  <2> PICK p \in Procs: Callback(p)
    BY <1>9 DEF Callbacks
  <2>1. CASE TimerFires(p)
    BY <1>s, <1>t, <2>1 DEF TimerFires
  <2>2. CASE SpawnRuns(p)
    BY <1>m, <1>s, <2>2, Types DEF SpawnRuns
  <2>3. CASE SpawnFails(p) \/ TakeCrash(p)
    BY <1>0, <1>m, <1>s, <2>3, Types DEF SpawnFails, TakeCrash, KerneldFinishes
  <2> QED
    BY <2>1, <2>2, <2>3 DEF Callback
<1> QED
  BY <1>1, <1>2, <1>3, <1>4, <1>6, <1>7, <1>8, <1>9, NextCases

LEMMA OthersWoken ==
  ASSUME Lives, Woken, Next, ~Finishes, Spares
  PROVE  Woken'
<1>0. TypeOK /\ Announcing \subseteq Past
  BY TellingIs DEF Lives
<1> SUFFICES ASSUME NEW a \in Procs, state'[obj'[a]] = "exited", pc'[a] \in {"wsleep", "wasleep"},
                    pc'[a] = "wsleep" => fresh'[a]
             PROVE  \E b \in Actors: /\ obj'[b] = obj'[a] /\ pc'[b] \in Announcing
                                     /\ pc'[a] = "wsleep" => pc'[b] # "fnotify"
  BY DEF Woken
<1>1. FallsAsleep(a)
  BY <1>0, SleepersStep
<1>2. obj'[a] = obj[a] /\ obj[a] \in Procs /\ state[obj[a]] = "exited"
  BY <1>0, <1>1, Types, OthersBystand DEF FallsAsleep, Bystands
<1>3. \E b \in Actors: /\ obj[b] = obj[a] /\ pc[b] \in Announcing
                       /\ pc'[a] = "wsleep" => pc[b] # "fnotify"
  <2>1. CASE pc'[a] = "wsleep"
    BY <1>1, <1>2, <2>1 DEF FallsAsleep, Woken
  <2>2. CASE pc'[a] = "wasleep"
    BY <1>1, <1>2, <2>2 DEF FallsAsleep, Woken
  <2> QED
    BY <2>1, <2>2
<1>4. PICK b \in Actors: /\ obj[b] = obj[a] /\ pc[b] \in Announcing
                         /\ pc'[a] = "wsleep" => pc[b] # "fnotify"
  BY <1>3
<1>5. pc'[b] = pc[b] /\ obj'[b] = obj[b]
  BY <1>0, <1>4, FinishersStay
<1> QED
  BY <1>2, <1>4, <1>5

LEMMA OthersTold ==
  ASSUME Lives, Told, Next, ~Finishes, Spares
  PROVE  Told'
<1>0. TypeOK /\ Telling \subseteq Past
  BY TellingIs DEF Lives
<1>1. told' = told
  <2>1. CASE Asks \/ Attaches \/ Ends \/ Waits
    BY <2>1 DEF Asks, SpawnNew, SpawnRequest, Kill, Attaches, AttachGet, Attach, Ends, Crash, Exit,
       Waits, Wait, WaitOn, WaitSeq, WaitLoad, WaitSleep, WaitRemove, WaitStatus
  <2>2. CASE Turns \/ Takes \/ Retires \/ Callbacks
    BY <2>2 DEF Turns, Resume, Drained, Takes, TakeSpawn, TakeKill, TakeExit, Retires, KillRetires,
       CrashRetires, Callbacks, Callback, TimerFires, SpawnRuns, SpawnFails, TakeCrash
  <2> QED
    BY <2>1, <2>2, NextCases
<1> SUFFICES ASSUME NEW p \in table', state'[p] = "exited"
             PROVE  told[p] \/ \E b \in Actors: obj'[b] = p /\ pc'[b] \in Telling
  BY <1>1 DEF Told
<1>2. p \in table /\ state[p] = "exited"
  <2>1. p \in table
    BY OthersBystand DEF Bystands
  <2> QED
    BY <1>0, <2>1, OthersBystand DEF Bystands, TypeOK, RecordTypes
<1>3. CASE \E b \in Actors: obj[b] = p /\ pc[b] \in Telling
  BY <1>0, <1>3, FinishersStay
<1> QED
  BY <1>2, <1>3 DEF Told

\* A step of finish puts nobody to sleep.
LEMMA FinishSleepers ==
  ASSUME TypeOK, NEW c \in Actors, Finish(c), NEW a \in Procs, pc'[a] \in {"wsleep", "wasleep"}
  PROVE  /\ a # c /\ pc'[a] = pc[a] /\ obj'[a] = obj[a] /\ (fresh'[a] => fresh[a])
         /\ obj[a] = obj[c] => /\ pc[c] = "fnotify" => pc[a] # "wasleep"
                               /\ pc[c] = "fbump" => ~fresh'[a]
<1>0. a \in Actors /\ a # Kerneld /\ fresh \in [Procs -> BOOLEAN]
  BY Types DEF TypeOK, CallTypes
<1>1. obj' = obj
  BY FinishAlone
<1>2. CASE FinishNotify(c)
  BY <1>0, <1>1, <1>2, Types DEF FinishNotify, WaitersFor, Waiting
<1>3. CASE ~FinishNotify(c)
  <2>1. \E at \in Finishing \cup {after, "done"}: Goto(c, at)
    BY <1>3 DEF Finish, FinishSwap, FinishStatus, FinishTakeFiles, FinishCloseFiles, FinishBump,
       FinishLook, FinishPost, FinishRemove, FinishCollect, FinishReap, FinishReport, Finishing, Return
  <2>2. {"wsleep", "wasleep"} \cap (Finishing \cup {after, "done"}) = {}
    BY DEF Finishing, TypeOK, DaemonTypes
  <2>3. a # c /\ pc'[a] = pc[a]
    BY <1>0, <2>1, <2>2, Types DEF Goto
  <2>4. CASE FinishBump(c)
    BY <1>0, <1>1, <2>3, <2>4 DEF FinishBump, WaitersFor, Waiting
  <2>5. CASE ~FinishBump(c)
    <3>1. fresh' = fresh /\ pc[c] \notin {"fbump", "fnotify"}
      BY <1>3, <2>5 DEF Finish, FinishSwap, FinishStatus, FinishTakeFiles, FinishCloseFiles,
         FinishLook, FinishPost, FinishRemove, FinishCollect, FinishReap, FinishReport
    <3> QED
      BY <1>1, <2>3, <3>1
  <2> QED
    BY <2>4, <2>5
<1> QED
  BY <1>2, <1>3

\* The way of finish up to its notification, and on to the parent.
LEMMA AnnouncerGoesOn ==
  ASSUME TypeOK, NEW c \in Actors, Finish(c), pc[c] \in Announcing
  PROVE  IF pc[c] = "fnotify" THEN pc'[c] = "flook"
         ELSE pc'[c] \in Announcing /\ (pc'[c] = "fnotify" => pc[c] = "fbump")
<1>1. CASE FinishNotify(c)
  BY <1>1, Types DEF FinishNotify
<1>2. CASE ~FinishNotify(c)
  <2>1. FinishStatus(c) \/ FinishTakeFiles(c) \/ FinishCloseFiles(c) \/ FinishBump(c)
    BY <1>2, TellingIs DEF Finish, FinishSwap, FinishLook, FinishPost, FinishRemove, FinishCollect,
       FinishReap, FinishReport
  <2> QED
    BY <2>1, Types, TellingIs DEF FinishStatus, FinishTakeFiles, FinishCloseFiles, FinishBump, Goto
<1> QED
  BY <1>1, <1>2

\* The first finish of a process ends it; no other step of finish ends any.
LEMMA FinishEnds ==
  ASSUME TypeOK, NEW c \in Actors, Finish(c), NEW p \in Procs, state'[p] = "exited", state[p] # "exited"
  PROVE  obj[c] = p /\ pc'[c] = "fstatus"
<1>1. FinishSwap(c)
  BY DEF Finish, FinishSwap, FinishStatus, FinishTakeFiles, FinishCloseFiles, FinishBump, FinishNotify,
     FinishLook, FinishPost, FinishRemove, FinishCollect, FinishReap, FinishReport
<1> QED
  BY <1>1, Types DEF FinishSwap, Goto

LEMMA FinishWoken ==
  ASSUME Lives, Woken, NEW c \in Actors, Finish(c)
  PROVE  Woken'
<1>0. TypeOK /\ Announcing \subseteq Past /\ obj' = obj
  BY TellingIs, FinishAlone DEF Lives
<1> SUFFICES ASSUME NEW a \in Procs, state'[obj[a]] = "exited", pc'[a] \in {"wsleep", "wasleep"},
                    pc'[a] = "wsleep" => fresh'[a]
             PROVE  \E b \in Actors: /\ obj[b] = obj[a] /\ pc'[b] \in Announcing
                                     /\ pc'[a] = "wsleep" => pc'[b] # "fnotify"
  BY <1>0 DEF Woken
<1>1. /\ a # c /\ pc'[a] = pc[a] /\ (fresh'[a] => fresh[a]) /\ obj[a] \in Procs
      /\ obj[a] = obj[c] => /\ pc[c] = "fnotify" => pc[a] # "wasleep"
                            /\ pc[c] = "fbump" => ~fresh'[a]
  BY <1>0, FinishSleepers, Types
<1>2. CASE state[obj[a]] # "exited"
  BY <1>0, <1>1, <1>2, FinishEnds, TellingIs
<1>3. CASE state[obj[a]] = "exited"
  <2>1. \E b \in Actors: /\ obj[b] = obj[a] /\ pc[b] \in Announcing
                         /\ pc[a] = "wsleep" => pc[b] # "fnotify"
    BY <1>1, <1>3 DEF Woken
  <2>2. PICK b \in Actors: /\ obj[b] = obj[a] /\ pc[b] \in Announcing
                           /\ pc[a] = "wsleep" => pc[b] # "fnotify"
    BY <2>1
  <2>3. CASE b # c
    BY <1>0, <1>1, <2>2, <2>3, FinishAlone
  <2>4. CASE b = c
    BY <1>0, <1>1, <2>2, <2>4, AnnouncerGoesOn
  <2> QED
    BY <2>3, <2>4
<1> QED
  BY <1>2, <1>3

LEMMA FinishTold ==
  ASSUME Lives, Told, NEW c \in Actors, Finish(c)
  PROVE  Told'
<1>0. TypeOK /\ Telling \subseteq Past /\ obj' = obj /\ told \in [Procs -> BOOLEAN] /\ table \subseteq Procs
  BY TellingIs, FinishAlone DEF Lives, TypeOK, RecordTypes
<1>1. table' \subseteq table
  BY DEF Finish, FinishSwap, FinishStatus, FinishTakeFiles, FinishCloseFiles, FinishBump, FinishNotify,
     FinishLook, FinishPost, FinishRemove, FinishCollect, FinishReap, FinishReport
<1>2. \A p \in Procs: told[p] => told'[p]
  BY <1>0 DEF Finish, FinishSwap, FinishStatus, FinishTakeFiles, FinishCloseFiles, FinishBump, FinishNotify,
     FinishLook, FinishPost, FinishRemove, FinishCollect, FinishReap, FinishReport
<1> SUFFICES ASSUME NEW p \in table', state'[p] = "exited", ~told[p]
             PROVE  told'[p] \/ \E b \in Actors: obj[b] = p /\ pc'[b] \in Telling
  BY <1>0, <1>1, <1>2 DEF Told
<1>3. p \in table /\ p \in Procs
  BY <1>0, <1>1
<1>4. CASE state[p] # "exited"
  BY <1>0, <1>3, <1>4, FinishEnds, TellingIs
<1>5. CASE state[p] = "exited"
  <2>1. PICK b \in Actors: obj[b] = p /\ pc[b] \in Telling
    BY <1>3, <1>5 DEF Told
  <2>2. CASE b # c
    BY <1>0, <2>1, <2>2, FinishAlone
  <2>3. CASE b = c /\ pc[c] \in Announcing
    BY <1>0, <2>1, <2>3, AnnouncerGoesOn, TellingIs
  <2>4. CASE b = c /\ pc[c] \in {"flook", "fpost", "fremove"}
    <3>1. FinishLook(c) \/ FinishPost(c) \/ FinishRemove(c)
      BY <2>4 DEF Finish, FinishSwap, FinishStatus, FinishTakeFiles, FinishCloseFiles, FinishBump,
         FinishNotify, FinishCollect, FinishReap, FinishReport
    <3>2. CASE FinishLook(c)
      BY <1>0, <2>1, <2>4, <3>2, Types, TellingIs DEF FinishLook, Goto
    <3>3. CASE FinishPost(c)
      BY <1>0, <1>3, <2>1, <2>4, <3>3 DEF FinishPost
    <3>4. CASE FinishRemove(c)
      BY <2>1, <2>4, <3>4 DEF FinishRemove
    <3> QED
      BY <3>1, <3>2, <3>3, <3>4
  <2> QED
    BY <2>1, <2>2, <2>3, <2>4, TellingIs
<1> QED
  BY <1>4, <1>5

LEMMA AnnouncedStep ==
  ASSUME Lives, Woken, Told, [Next]_vars, [Spares]_vars
  PROVE  Woken' /\ Told'
<1>1. CASE Next /\ Spares /\ ~Finishes
  BY <1>1, OthersWoken, OthersTold
<1>2. CASE Finishes
  BY <1>2, FinishWoken, FinishTold DEF Finishes
<1>3. CASE UNCHANGED vars
  BY <1>3 DEF Woken, Told
<1> QED
  BY <1>1, <1>2, <1>3

\* No exit is missed, however waitpid, exits, kills and crashes meet, in every
\* behaviour in which no kill takes a worker inside its own finish: a waitpid
\* that sleeps for a dead process will be woken, and the parent of one that is
\* there to be waited for has been told.
THEOREM NoMissedExitWhereSpared == Spec /\ [][Spares]_vars => []NoMissedExit
<1>1. Init => Woken /\ Told
  BY Constants DEF Init, Woken, Told
<1>2. Lives /\ Woken /\ Told /\ [Next]_vars /\ [Spares]_vars => Woken' /\ Told'
  BY AnnouncedStep
<1>3. Lives /\ Woken /\ Told => NoMissedExit
  BY TellingIs, PastIs DEF Lives, TypeOK, RecordTypes, NoMissedExit, Woken, Told, FinishingOf, Past
<1> QED
  BY <1>1, <1>2, <1>3, LivesCorrect, PTL DEF Spec

==============================================================================
