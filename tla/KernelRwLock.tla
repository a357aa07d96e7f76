---------------------------- MODULE KernelRwLock ----------------------------
(***************************************************************************)
(* The reader/writer lock of the file system (crates/bat-kernel/src/       *)
(* lock.rs, RwLock): one word with a writer bit, a bit that says somebody  *)
(* waits and the number of readers, and a sequence number on which the     *)
(* waiters sleep.                                                          *)
(*                                                                         *)
(* One action is one atomic access to shared memory; a load and the        *)
(* compare-and-swap that depends on it are two.  A thread holds this lock  *)
(* at most once.  The kill gate is that of KernelLock and keeps a worker   *)
(* from being terminated anywhere in here; it is left out.                 *)
(*                                                                         *)
(* Of the sequence number only equality is ever asked: `fresh' holds the   *)
(* threads that read the number it still has.                              *)
(***************************************************************************)
EXTENDS KernelThreads, Integers

VARIABLES
  s,      \* the word: W, WAIT and the number of readers
  fresh,  \* the threads that have read the present sequence number
  rwPc,   \* where a thread is
  write,  \* does a thread want, or have, the lock for writing?
  seen    \* the word a thread loaded for its compare-and-swap, while it needs it

rwVars == <<s, fresh, rwPc, write, seen>>

Word == [w: BOOLEAN, wait: BOOLEAN, n: Nat]
RwPC == {"run", "cas", "spin", "seq", "or", "try", "trycas", "futex", "asleep",
       "guard", "clear", "bump", "notify"}

Free(word) == ~word.w /\ word.n = 0

\* try_once: may a thread that saw this word take the lock?
Allows(word, wr) == IF wr THEN Free(word) ELSE ~word.w

Taken(word, wr) == IF wr THEN [word EXCEPT !.w = TRUE] ELSE [word EXCEPT !.n = @ + 1]

RwGoto(t, at) == rwPc' = [rwPc EXCEPT ![t] = at]

\* The word of a free lock; also what `seen' is when a thread needs none.
Zero == [w |-> FALSE, wait |-> FALSE, n |-> 0]

RwInit ==
  /\ s = Zero
  /\ fresh = {}
  /\ rwPc = [t \in Threads |-> "run"]
  /\ write = [t \in Threads |-> FALSE]
  /\ seen = [t \in Threads |-> Zero]

-----------------------------------------------------------------------------
\* Mutant: a store of what was loaded, plus one.
CasUnchecked(t, else) ==
  /\ s' = Taken(seen[t], write[t]) /\ RwGoto(t, "guard")
  /\ seen' = [seen EXCEPT ![t] = Zero]
  /\ UNCHANGED <<fresh, write>>

\* compare_exchange on the word that was loaded.
Cas(t, else) ==
  /\ IF s = seen[t]
     THEN s' = Taken(s, write[t]) /\ RwGoto(t, "guard")
     ELSE UNCHANGED s /\ RwGoto(t, else)
  /\ seen' = [seen EXCEPT ![t] = Zero]
  /\ UNCHANGED <<fresh, write>>

\* The load of the word, and what to do when it does not allow a try.
Load(t, then, else) ==
  /\ IF Allows(s, write[t])
     THEN seen' = [seen EXCEPT ![t] = s] /\ RwGoto(t, then)
     ELSE UNCHANGED seen /\ RwGoto(t, else)
  /\ UNCHANGED <<s, fresh, write>>

\* read: the load.
ReadEnter(t) ==
  /\ rwPc[t] = "run"
  /\ write' = [write EXCEPT ![t] = FALSE]
  /\ IF Allows(s, FALSE)
     THEN seen' = [seen EXCEPT ![t] = s] /\ RwGoto(t, "cas")
     ELSE UNCHANGED seen /\ RwGoto(t, "spin")
  /\ UNCHANGED <<s, fresh>>

\* write: a compare-and-swap from a word with no bit set.
WriteEnter(t) ==
  /\ rwPc[t] = "run"
  /\ write' = [write EXCEPT ![t] = TRUE]
  /\ IF Free(s) /\ ~s.wait
     THEN s' = Taken(s, TRUE) /\ RwGoto(t, "guard")
     ELSE UNCHANGED s /\ RwGoto(t, "spin")
  /\ UNCHANGED <<fresh, seen>>

TakeCas(t) == rwPc[t] = "cas" /\ Cas(t, "spin")

Spin(t) == rwPc[t] = "spin" /\ Load(t, "cas", "spin")

\* SPINS tries failed.
RwSpinEnds(t) ==
  /\ rwPc[t] = "spin"
  /\ RwGoto(t, "seq")
  /\ UNCHANGED <<s, fresh, write, seen>>

SlowSeq(t) ==
  /\ rwPc[t] = "seq"
  /\ fresh' = fresh \cup {t}
  /\ RwGoto(t, "or")
  /\ UNCHANGED <<s, write, seen>>

SlowOr(t) ==
  /\ rwPc[t] = "or"
  /\ s' = [s EXCEPT !.wait = TRUE]
  /\ RwGoto(t, "try")
  /\ UNCHANGED <<fresh, write, seen>>

\* Where a try that failed leads.
Again(t) == IF t \in CanBlock THEN "futex" ELSE "seq"

SlowTry(t) == rwPc[t] = "try" /\ Load(t, "trycas", Again(t))

SlowCas(t) == rwPc[t] = "trycas" /\ Cas(t, Again(t))

\* memory.atomic.wait compares and enqueues in one step.
RwSleep(t) ==
  /\ rwPc[t] = "futex"
  /\ RwGoto(t, IF t \in fresh THEN "asleep" ELSE "seq")
  /\ UNCHANGED <<s, fresh, write, seen>>

-----------------------------------------------------------------------------
\* Mutant: the first reader to leave wakes, as if it were the last.
ReleaseReadAny(t) ==
  /\ rwPc[t] = "guard" /\ ~write[t]
  /\ s' = [s EXCEPT !.n = @ - 1]
  /\ RwGoto(t, IF s.wait /\ s.n > 1 THEN "clear" ELSE "run")
  /\ UNCHANGED <<fresh, write, seen>>

\* release of a reader: the last one wakes.
ReleaseRead(t) ==
  /\ rwPc[t] = "guard" /\ ~write[t]
  /\ s' = [s EXCEPT !.n = @ - 1]
  /\ RwGoto(t, IF s.wait /\ s.n = 1 THEN "clear" ELSE "run")
  /\ UNCHANGED <<fresh, write, seen>>

\* release of a writer: both bits go at once.
ReleaseWrite(t) ==
  /\ rwPc[t] = "guard" /\ write[t]
  /\ s' = [s EXCEPT !.w = FALSE, !.wait = FALSE]
  /\ RwGoto(t, IF s.wait THEN "bump" ELSE "run")
  /\ write' = [write EXCEPT ![t] = FALSE]
  /\ UNCHANGED <<fresh, seen>>

\* wake: the last reader takes WAIT back.
WakeClear(t) ==
  /\ rwPc[t] = "clear"
  /\ s' = [s EXCEPT !.wait = FALSE]
  /\ RwGoto(t, "bump")
  /\ UNCHANGED <<fresh, write, seen>>

WakeBump(t) ==
  /\ rwPc[t] = "bump"
  /\ fresh' = {}
  /\ RwGoto(t, "notify")
  /\ UNCHANGED <<s, write, seen>>

\* Mutant: one waiter is woken, as if it would wake the next.
WakeOne(t) ==
  /\ rwPc[t] = "notify"
  /\ IF \E u \in Threads: rwPc[u] = "asleep"
     THEN \E u \in Threads:
            rwPc[u] = "asleep" /\ rwPc' = [rwPc EXCEPT ![t] = "run", ![u] = "seq"]
     ELSE RwGoto(t, "run")
  /\ UNCHANGED <<s, fresh, write, seen>>

\* memory.atomic.notify of everybody.
WakeNotify(t) ==
  /\ rwPc[t] = "notify"
  /\ rwPc' = [u \in Threads |->
              IF u = t THEN "run" ELSE IF rwPc[u] = "asleep" THEN "seq" ELSE rwPc[u]]
  /\ UNCHANGED <<s, fresh, write, seen>>

-----------------------------------------------------------------------------
Enter(t) == ReadEnter(t) \/ WriteEnter(t)

Continue(t) ==
  \/ TakeCas(t) \/ Spin(t) \/ RwSpinEnds(t)
  \/ SlowSeq(t) \/ SlowOr(t) \/ SlowTry(t) \/ SlowCas(t) \/ RwSleep(t)
  \/ ReleaseRead(t) \/ ReleaseWrite(t)
  \/ WakeClear(t) \/ WakeBump(t) \/ WakeNotify(t)

RwNext == \E t \in Threads: Enter(t) \/ Continue(t)

RwSpec == RwInit /\ [][RwNext]_rwVars

\* A thread that has entered goes on; nobody has to enter.
RwFairSpec == RwSpec /\ \A t \in Threads: WF_rwVars(Continue(t))

-----------------------------------------------------------------------------
RwTypeOK ==
  /\ s \in Word
  /\ fresh \subseteq Threads
  /\ rwPc \in [Threads -> RwPC]
  /\ write \in [Threads -> BOOLEAN]
  /\ seen \in [Threads -> Word]

Readers == {t \in Threads: rwPc[t] = "guard" /\ ~write[t]}
Writers == {t \in Threads: rwPc[t] = "guard" /\ write[t]}

\* A writer is alone, whatever loads and swaps were under way when it came in:
\* the guards hand out references to the file system on this alone.
Exclusion ==
  \A t \in Writers, u \in Readers \cup Writers: t = u

\* Somebody has seen WAIT in the word it released and has yet to bump.
Owed == \E u \in Threads: rwPc[u] \in {"clear", "bump"}

\* While a thread sleeps somebody is on the way to wake it, or somebody holds
\* the lock and will see WAIT when it lets go: never a sleeper before a free
\* lock, although the last reader takes back a WAIT that others may have set
\* since.
NoLostWaiter ==
  \A t \in Threads: rwPc[t] = "asleep" =>
    \/ Owed \/ \E u \in Threads: rwPc[u] = "notify"
    \/ s.wait /\ ~Free(s)

\* Readers are preferred, and readers that overlap for ever keep a writer out;
\* but if the lock is free again and again nobody sleeps for ever.
WaiterWoken ==
  []<>Free(s) => \A t \in Threads: rwPc[t] = "asleep" ~> rwPc[t] # "asleep"
=============================================================================
