------------------------------- MODULE Mutex -------------------------------
(***************************************************************************)
(* The sleeping mutex of xtkernel/mutex.c on one processor.                *)
(*                                                                         *)
(* xtLockSpinlock clears the interrupt flag and xtUnlockSpinlock sets it,  *)
(* without counting.  So xtWakeUpThread, which locks and unlocks the woken *)
(* thread's own spinlock, enables interrupts inside xtUnlockMutex while    *)
(* m->lock is still held (pc "waking").  A thread that then runs into      *)
(* m->lock spins with interrupts off on the only processor: `hung'.        *)
(***************************************************************************)
EXTENDS Naturals, Sequences

CONSTANTS Threads, None

ASSUME MutexAssumption == None \notin Threads

VARIABLES
    lock,       \* the thread holding m->lock between steps, or None
    owner,      \* m->owner
    waitList,   \* m->waitList
    state,      \* thread->state
    pc,         \* where each thread is
    hung        \* the thread that spins for ever, or None

vars == <<lock, owner, waitList, state, pc, hung>>

Location == {"idle", "lock", "registered", "critical", "waking"}

TypeOK ==
    /\ lock \in Threads \cup {None}
    /\ owner \in Threads \cup {None}
    /\ waitList \in Seq(Threads)
    /\ state \in [Threads -> {"RUN", "SLEEP"}]
    /\ pc \in [Threads -> Location]
    /\ hung \in Threads \cup {None}

Init ==
    /\ lock = None
    /\ owner = None
    /\ waitList = <<>>
    /\ state = [t \in Threads |-> "RUN"]
    /\ pc = [t \in Threads |-> "idle"]
    /\ hung = None

Goto(t, l) == pc' = [pc EXCEPT ![t] = l]

(***************************************************************************)
(* Thread t is scheduled; t takes m->lock, or spins on it for ever when a  *)
(* preempted thread holds it.                                              *)
(***************************************************************************)
Scheduled(t) == hung = None /\ state[t] = "RUN"

Spin(t) ==
    /\ lock # None
    /\ hung' = t
    /\ UNCHANGED <<lock, owner, waitList, state, pc>>

Call(t) ==
    /\ Scheduled(t)
    /\ pc[t] = "idle"
    /\ Goto(t, "lock")
    /\ UNCHANGED <<lock, owner, waitList, state, hung>>

(***************************************************************************)
(* xtLockMutex from one xtLockSpinlock to the next xtUnlockSpinlock: the   *)
(* first time and after every wake-up.                                     *)
(***************************************************************************)
MutexFreeOrQuiet == owner = None \/ waitList = <<>>
MutexFree == owner = None

xtLockMutex(t) ==
    /\ Scheduled(t)
    /\ pc[t] = "lock"
    /\ \/ Spin(t)
       \/ /\ lock = None
          /\ MutexFree
          /\ owner' = t
          /\ Goto(t, "critical")
          /\ UNCHANGED <<lock, waitList, state, hung>>
       \/ /\ lock = None
          /\ ~MutexFree
          /\ waitList' = Append(waitList, t)
          /\ Goto(t, "registered")
          /\ UNCHANGED <<lock, owner, state, hung>>

(***************************************************************************)
(* xtSleepThread(current, UINT64_MAX): no tick count ends this sleep.  The *)
(* thread goes on, with xtLockSpinlock, once its state is RUN again.       *)
(***************************************************************************)
Asleep == "SLEEP"

xtSleepThread(t) ==
    /\ Scheduled(t)
    /\ pc[t] = "registered"
    /\ state' = [state EXCEPT ![t] = Asleep]
    /\ Goto(t, "lock")
    /\ UNCHANGED <<lock, owner, waitList, hung>>

(***************************************************************************)
(* xtUnlockMutex up to the end of xtWakeUpThread, and the rest of it.      *)
(***************************************************************************)
HeadLeft == waitList
Rest == Tail(waitList)

xtUnlockMutex(t) ==
    /\ Scheduled(t)
    /\ pc[t] = "critical"
    /\ \/ Spin(t)
       \/ /\ lock = None
          /\ waitList = <<>>
          /\ owner' = None
          /\ Goto(t, "idle")
          /\ UNCHANGED <<lock, waitList, state, hung>>
       \/ /\ lock = None
          /\ waitList # <<>>
          /\ owner' = None
          /\ waitList' = Rest
          /\ state' = [state EXCEPT ![Head(waitList)] = "RUN"]
          /\ lock' = t
          /\ Goto(t, "waking")
          /\ UNCHANGED hung

ForgetRelease(t) ==
    /\ Scheduled(t)
    /\ pc[t] = "waking"
    /\ Goto(t, "idle")
    /\ UNCHANGED <<lock, owner, waitList, state, hung>>

FinishUnlock(t) ==
    /\ Scheduled(t)
    /\ pc[t] = "waking"
    /\ lock' = None
    /\ Goto(t, "idle")
    /\ UNCHANGED <<owner, waitList, state, hung>>

Next == \E t \in Threads :
    \/ Call(t)
    \/ xtLockMutex(t)
    \/ xtSleepThread(t)
    \/ xtUnlockMutex(t)
    \/ FinishUnlock(t)

Spec == Init /\ [][Next]_vars

-----------------------------------------------------------------------------
(***************************************************************************)
(* At most one thread is between xtLockMutex and xtUnlockMutex, and it is  *)
(* m->owner (the unlocking thread gives up ownership before it wakes).     *)
(***************************************************************************)
OwnerIsAlone == \A t \in Threads : pc[t] = "critical" <=> owner = t

(***************************************************************************)
(* The processor hangs in one way only: the spinning thread waits for a    *)
(* thread preempted inside xtUnlockMutex, after xtWakeUpThread enabled     *)
(* interrupts and before m->lock is dropped (mutex.c:41-43).               *)
(***************************************************************************)
HangsOnlyBehindUnlock ==
    /\ lock # None => pc[lock] = "waking"
    /\ hung # None => lock # None /\ lock # hung

(***************************************************************************)
(* A thread that sleeps forever inside xtLockMutex still is in the wait    *)
(* list, so that an xtUnlockMutex will wake it (mutex.c:18, "register and  *)
(* fall asleep atomically").                                               *)
(***************************************************************************)
SleepsRegistered ==
    \A t \in Threads : state[t] = "SLEEP" => \E i \in 1..Len(waitList) : waitList[i] = t

(***************************************************************************)
(* A registered thread is woken at most once per registration: its node    *)
(* is in the list once and only while it is on its way to sleep or asleep. *)
(***************************************************************************)
ListedOnce ==
    /\ \A i, j \in 1..Len(waitList) : waitList[i] = waitList[j] => i = j
    /\ \A i \in 1..Len(waitList) :
          \/ pc[waitList[i]] = "registered" /\ state[waitList[i]] = "RUN"
          \/ pc[waitList[i]] = "lock" /\ state[waitList[i]] = "SLEEP"

MutexInv == TypeOK /\ OwnerIsAlone /\ HangsOnlyBehindUnlock /\ ListedOnce
=============================================================================
