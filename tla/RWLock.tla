------------------------------ MODULE RWLock ------------------------------
(***************************************************************************)
(* The readers-writer lock of xtkernel/rwlock.c, as the file layer uses it *)
(* (xtLockFile / xtUnlockFile in xtkernel/fs.c, called by xtReadFile and   *)
(* xtWriteFile around the driver's I/O).                                   *)
(*                                                                         *)
(* The kernel runs on one processor and xtLockSpinlock clears the          *)
(* interrupt flag, so the code between taking and dropping the lock's      *)
(* spinlock is one step; no function called in between takes another       *)
(* spinlock.  Between two such steps any other thread may run.             *)
(***************************************************************************)
EXTENDS Integers, Sequences, FiniteSets

CONSTANTS
    Threads,        \* the threads that share one XTFile
    Writers,        \* those that call xtWriteFile on it (all may call xtReadFile)
    NonBlocking,    \* those that use it with XT_FILE_MODE_NONBLOCK
    AllocMayFail    \* may xtCreateList fail inside rwSleep?

ASSUME RWLockAssumption ==
    /\ IsFiniteSet(Threads)
    /\ Writers \subseteq Threads
    /\ NonBlocking \subseteq Threads
    /\ AllocMayFail \in BOOLEAN

VARIABLES
    spinlock,       \* lock->spinlock.isBusy, between steps
    readers,        \* lock->readers: -1 is "a writer holds it"
    waitReaders,    \* lock->waitReaders, a queue of threads
    waitWriters,    \* lock->waitWriters
    state,          \* thread->state: "RUN" or "WAIT"
    pc              \* where in the code each thread is

vars == <<spinlock, readers, waitReaders, waitWriters, state, pc>>

Location == {"idle", "wantRead", "wantWrite", "sleepRead", "sleepWrite",
             "reading", "writing"}

TypeOK ==
    /\ spinlock \in {0, 1}
    /\ readers \in Nat \cup {-1}
    /\ waitReaders \in Seq(Threads)
    /\ waitWriters \in Seq(Threads)
    /\ state \in [Threads -> {"RUN", "WAIT"}]
    /\ pc \in [Threads -> Location]

Goto(t, l) == pc' = [pc EXCEPT ![t] = l]

(***************************************************************************)
(* xtInitRWLock.                                                           *)
(***************************************************************************)
Init ==
    /\ spinlock = 0
    /\ readers = 0
    /\ waitReaders = <<>>
    /\ waitWriters = <<>>
    /\ state = [t \in Threads |-> "RUN"]
    /\ pc = [t \in Threads |-> "idle"]

(***************************************************************************)
(* The conditions the code tests under the spinlock: the negations of the  *)
(* two while loops, and the canLock of a non-blocking caller.              *)
(***************************************************************************)
CanReadIgnoringQueue == readers # -1
CanReadBesideWriter == waitWriters = <<>>
CanRead == readers # -1 /\ waitWriters = <<>>
CanWriteUnlessWriter == readers # -1
CanWrite == readers = 0

canLock(type) == IF type = "read" THEN readers >= 0 /\ waitWriters = <<>>
                                  ELSE readers = 0

(***************************************************************************)
(* xtLockFile up to its call of xtAcquireRead or xtAcquireWrite.  A        *)
(* non-blocking caller looks at the lock in a critical section of its own  *)
(* and returns XT_WOULD_BLOCK when it cannot be had.                       *)
(***************************************************************************)
xtLockFile(t, type) ==
    /\ pc[t] = "idle"
    /\ type = "write" => t \in Writers
    /\ t \in NonBlocking => spinlock = 0 /\ canLock(type)
    /\ Goto(t, IF type = "read" THEN "wantRead" ELSE "wantWrite")
    /\ UNCHANGED <<spinlock, readers, waitReaders, waitWriters, state>>

WouldBlock(t, type) ==
    /\ pc[t] = "idle"
    /\ type = "write" => t \in Writers
    /\ t \in NonBlocking
    /\ spinlock = 0
    /\ ~canLock(type)
    /\ UNCHANGED vars

(***************************************************************************)
(* rwSleep, both queues: the new node goes to the tail, the thread is      *)
(* marked waiting, and the caller drops the spinlock and executes int      *)
(* 0x20.  A thread in the WAIT state is not scheduled, so the next step of *)
(* t needs state[t] = "RUN" again.                                         *)
(***************************************************************************)
rwSleepQueueOnly(t) == UNCHANGED state
rwSleep(t) == state' = [state EXCEPT ![t] = "WAIT"]

(***************************************************************************)
(* XT_TRY(rwSleep(...)) when the list node cannot be allocated: the error  *)
(* is returned with the spinlock still held.                               *)
(***************************************************************************)
rwSleepFails(t) ==
    /\ AllocMayFail
    /\ spinlock' = 1
    /\ Goto(t, "idle")
    /\ UNCHANGED <<readers, waitReaders, waitWriters, state>>

(***************************************************************************)
(* One pass through the loop of xtAcquireRead, on entry ("wantRead") or    *)
(* after a wake-up ("sleepRead").                                          *)
(***************************************************************************)
xtAcquireRead(t) ==
    /\ pc[t] \in {"wantRead", "sleepRead"}
    /\ state[t] = "RUN"
    /\ spinlock = 0
    /\ \/ /\ CanRead
          /\ readers' = readers + 1
          /\ Goto(t, "reading")
          /\ UNCHANGED <<spinlock, waitReaders, waitWriters, state>>
       \/ /\ ~CanRead
          /\ waitReaders' = Append(waitReaders, t)
          /\ rwSleep(t)
          /\ Goto(t, "sleepRead")
          /\ UNCHANGED <<spinlock, readers, waitWriters>>
       \/ /\ ~CanRead
          /\ rwSleepFails(t)

xtAcquireWrite(t) ==
    /\ pc[t] \in {"wantWrite", "sleepWrite"}
    /\ state[t] = "RUN"
    /\ spinlock = 0
    /\ \/ /\ CanWrite
          /\ readers' = -1
          /\ Goto(t, "writing")
          /\ UNCHANGED <<spinlock, waitReaders, waitWriters, state>>
       \/ /\ ~CanWrite
          /\ waitWriters' = Append(waitWriters, t)
          /\ rwSleep(t)
          /\ Goto(t, "sleepWrite")
          /\ UNCHANGED <<spinlock, readers, waitReaders>>
       \/ /\ ~CanWrite
          /\ rwSleepFails(t)

(***************************************************************************)
(* rwWakeOne(&lock->waitWriters) and rwWakeAll(&lock->waitReaders).        *)
(***************************************************************************)
rwWakeNone == UNCHANGED <<waitWriters, state>>
rwWakeOne ==
    IF waitWriters = <<>>
    THEN UNCHANGED <<waitWriters, state>>
    ELSE /\ state' = [state EXCEPT ![Head(waitWriters)] = "RUN"]
         /\ waitWriters' = Tail(waitWriters)

rwWakeAll ==
    /\ state' = [t \in Threads |->
                    IF \E i \in 1..Len(waitReaders) : waitReaders[i] = t
                    THEN "RUN" ELSE state[t]]
    /\ waitReaders' = <<>>

(***************************************************************************)
(* xtUnlockFile: xtReleaseRead and xtReleaseWrite.                         *)
(***************************************************************************)
xtReleaseRead(t) ==
    /\ pc[t] = "reading"
    /\ spinlock = 0
    /\ readers' = readers - 1
    /\ IF readers - 1 = 0 THEN rwWakeOne ELSE UNCHANGED <<waitWriters, state>>
    /\ Goto(t, "idle")
    /\ UNCHANGED <<spinlock, waitReaders>>

xtReleaseWriteDecrement(t) ==
    /\ pc[t] = "writing"
    /\ spinlock = 0
    /\ readers' = readers - 1
    /\ IF waitWriters # <<>>
       THEN rwWakeOne /\ UNCHANGED waitReaders
       ELSE rwWakeAll /\ UNCHANGED waitWriters
    /\ Goto(t, "idle")
    /\ UNCHANGED spinlock

xtReleaseWrite(t) ==
    /\ pc[t] = "writing"
    /\ spinlock = 0
    /\ readers' = 0
    /\ IF waitWriters # <<>>
       THEN rwWakeOne /\ UNCHANGED waitReaders
       ELSE rwWakeAll /\ UNCHANGED waitWriters
    /\ Goto(t, "idle")
    /\ UNCHANGED spinlock

Step(t) == xtAcquireRead(t) \/ xtAcquireWrite(t) \/ xtReleaseRead(t) \/ xtReleaseWrite(t)

Next ==
    \E t \in Threads :
        \/ \E type \in {"read", "write"} : xtLockFile(t, type) \/ WouldBlock(t, type)
        \/ xtAcquireRead(t)
        \/ xtAcquireWrite(t)
        \/ xtReleaseRead(t)
        \/ xtReleaseWrite(t)

Spec == Init /\ [][Next]_vars

(***************************************************************************)
(* A thread whose state is RUN is scheduled again and again (module        *)
(* Scheduler), so it keeps taking the steps it has begun: it comes back    *)
(* from a wake-up, and finishes its I/O and releases.  Nobody has to call  *)
(* xtLockFile.                                                             *)
(***************************************************************************)
FairSpec == Spec /\ \A t \in Threads : WF_vars(Step(t))

-----------------------------------------------------------------------------
Reading == {t \in Threads : pc[t] = "reading"}

InQueue(q, t) == \E i \in 1..Len(q) : q[i] = t

WokenWriter(t) == pc[t] = "sleepWrite" /\ state[t] = "RUN"

(***************************************************************************)
(* lock->readers says who is inside: -1 exactly while one writer and no    *)
(* reader is between xtLockFile and xtUnlockFile, otherwise the number of  *)
(* threads reading with no writer among them.                              *)
(***************************************************************************)
HoldersMatchCount ==
    \/ /\ readers = -1
       /\ Reading = {}
       /\ \E w \in Threads : \A t \in Threads : pc[t] = "writing" <=> t = w
    \/ /\ readers = Cardinality(Reading)
       /\ \A t \in Threads : pc[t] # "writing"

(***************************************************************************)
(* A sleeping thread is in the queue of what it wants, once, and a queued  *)
(* thread is asleep: a wake-up can neither miss a sleeper nor be spent on  *)
(* a thread that runs.                                                     *)
(***************************************************************************)
QueueOf(q, l) ==
    /\ \A i \in 1..Len(q) : pc[q[i]] = l /\ state[q[i]] = "WAIT"
    /\ \A i, j \in 1..Len(q) : q[i] = q[j] => i = j

SleepersAreQueued ==
    /\ QueueOf(waitReaders, "sleepRead")
    /\ QueueOf(waitWriters, "sleepWrite")
    /\ \A t \in Threads :
          state[t] = "WAIT" => InQueue(waitReaders, t) \/ InQueue(waitWriters, t)

(***************************************************************************)
(* No lost wake-up: whenever a thread sleeps, someone is left whose next   *)
(* steps will wake it.  A sleeping writer has a holder that will release,  *)
(* or a woken writer on its way to the lock; a sleeping reader has a       *)
(* writer holding, queued, or on its way.  (After rwSleep failed the       *)
(* spinlock is never dropped and nothing moves.)                           *)
(***************************************************************************)
NoLostWakeup ==
    spinlock = 0 =>
        /\ waitWriters # <<>> =>
              readers # 0 \/ \E t \in Threads : WokenWriter(t)
        /\ waitReaders # <<>> =>
              \/ readers = -1
              \/ waitWriters # <<>>
              \/ \E t \in Threads : WokenWriter(t)

IndInv == TypeOK /\ HoldersMatchCount /\ SleepersAreQueued /\ NoLostWakeup

(***************************************************************************)
(* The lock keeps the promise of RWLockSpec.                               *)
(***************************************************************************)
held == [t \in Threads |-> CASE pc[t] = "reading" -> "read"
                             [] pc[t] = "writing" -> "write"
                             [] OTHER -> "none"]

Abs == INSTANCE RWLockSpec WITH Threads <- Threads, held <- held

ImplementsRWLock == Abs!Spec

(***************************************************************************)
(* A writer that went to sleep is woken: queued writers keep new readers   *)
(* out, so the holders drain and the queue moves (rwlock.c:66-69, 92-94),  *)
(* unless rwSleep failed and left the spinlock taken.                      *)
(***************************************************************************)
SleepingWriterIsWoken ==
    \A t \in Threads :
        (pc[t] = "sleepWrite" /\ state[t] = "WAIT") ~> (state[t] = "RUN" \/ spinlock = 1)
=============================================================================
