----------------------------- MODULE Scheduler -----------------------------
(***************************************************************************)
(* The scheduler of xtkernel/scheduler.c and the thread states it works    *)
(* on, with the creation and the end of threads (xtkernel/process.c).      *)
(*                                                                         *)
(* xtSchedule runs in the handler of interrupt 0x20, which is both the     *)
(* timer (1000 Hz) and what xtSwitchToThread executes.  A thread sets its  *)
(* own state first and switches away in a later step, so the timer may     *)
(* fire in between (pc[t] = "switch").  The list `threads' only grows at   *)
(* its tail and never shrinks: it is 1..count, thread 1 being IdleThread.  *)
(***************************************************************************)
EXTENDS Integers, FiniteSets

CONSTANTS
    MaxThreads,     \* bound on the length of the list `threads'
    Quantum,        \* thread->privilage, 20 in xtCreateThread
    SleepTimes,     \* the milliseconds passed to xtSleepThread
    Forever         \* a tick count close to 2^64: it never runs out

ASSUME SchedulerAssumption ==
    /\ MaxThreads \in Nat /\ MaxThreads > 0
    /\ Quantum \in Nat /\ Quantum > 0
    /\ Forever \notin Nat
    /\ SleepTimes \subseteq Nat \cup {Forever}

VARIABLES
    count,          \* the length of `threads'
    state,          \* thread->state, with its flag XT_THREAD_USER
    ticks,          \* thread->ticks
    pc,             \* "switch": about to execute int 0x20
    current,        \* the current thread of the processor
    iter            \* currentThreadIterator, a position of `threads'

vars == <<count, state, ticks, pc, current, iter>>

Idle == 1
Slots == 1..MaxThreads
Live == 1..count

(***************************************************************************)
(* enum of include/xt/scheduler.h; the low bits of thread->state.          *)
(***************************************************************************)
SLEEP == 0
RUN == 1
TERMINATED == 3
WAIT == 4
USER == 128

Base(s) == s % 128                          \* state & 0x7f
Flag(s) == s - (s % 128)                    \* state & 0x80
OrRun(s) == IF s % 2 = 0 THEN s + 1 ELSE s  \* state | XT_THREAD_RUN_STATE
IsRun(s) == s % 16 = RUN                    \* (state & 0xf) == RUN

States == {SLEEP, RUN, TERMINATED, WAIT} \cup {USER + RUN, USER + TERMINATED, USER + WAIT}
Ticks == Nat \cup {Forever}

TypeOK ==
    /\ count \in Slots
    /\ state \in [Slots -> States]
    /\ ticks \in [Slots -> Ticks]
    /\ pc \in [Slots -> {"run", "switch"}]
    /\ current \in Live
    /\ iter \in Live

(***************************************************************************)
(* thread->ticks - 1 on uint64_t: 0 wraps around to a value that no run of *)
(* the system will see the end of.                                         *)
(***************************************************************************)
Decrement(n) == IF n = 0 \/ n = Forever THEN Forever ELSE n - 1

(***************************************************************************)
(* xtSchedulerInit: the idle thread is created first, so it heads the list *)
(* and is current (scheduler.c:123, process.c:485-491).                    *)
(***************************************************************************)
Init ==
    /\ count = 1
    /\ state = [t \in Slots |-> IF t = Idle THEN RUN ELSE TERMINATED]
    /\ ticks = [t \in Slots |-> Quantum]
    /\ pc = [t \in Slots |-> "run"]
    /\ current = Idle
    /\ iter = Idle

-----------------------------------------------------------------------------
(***************************************************************************)
(* xtWakeUpThreads: every sleeper loses a tick, and wakes on its last.     *)
(***************************************************************************)
Expires(t) == t \in Live /\ state[t] = SLEEP /\ Decrement(ticks[t]) = 0

stateUnchanged == state
stateAwake == [t \in Slots |-> IF Expires(t) THEN OrRun(Base(state[t])) ELSE state[t]]
ticksAwake == [t \in Slots |->
    IF Expires(t) THEN Quantum
    ELSE IF t \in Live /\ state[t] = SLEEP THEN Decrement(ticks[t]) ELSE ticks[t]]

(***************************************************************************)
(* The search of xtSchedule: the first runnable thread after iter, round   *)
(* the list once and ending at iter itself; IdleThread when there is none. *)
(***************************************************************************)
Distance(i, j) == (j - i - 1 + count) % count

Runnable(s) == {t \in Live : IsRun(s[t])}

NextFromHead(s) ==
    IF Runnable(s) = {} THEN Idle
    ELSE CHOOSE t \in Runnable(s) : \A u \in Runnable(s) : t <= u
NextPosition(s) ==
    IF Runnable(s) = {} THEN iter
    ELSE CHOOSE t \in Runnable(s) :
             \A u \in Runnable(s) : Distance(iter, t) <= Distance(iter, u)

NextThread(s) == IF Runnable(s) = {} THEN Idle ELSE NextPosition(s)

(***************************************************************************)
(* xtSchedule.  A current thread that is runnable pays a tick and goes on  *)
(* while it has some left; otherwise the next one gets a full quantum.     *)
(***************************************************************************)
GoesOn == IsRun(stateAwake[current]) /\ Decrement(ticksAwake[current]) # 0

StaleQuantum(t) == ticksAwake[t]
NewQuantum(t) == Quantum

xtSchedule ==
    /\ state' = stateAwake
    /\ IF GoesOn
       THEN /\ ticks' = [ticksAwake EXCEPT ![current] = Decrement(@)]
            /\ UNCHANGED <<current, iter>>
       ELSE /\ iter' = NextPosition(stateAwake)
            /\ current' = NextThread(stateAwake)
            /\ ticks' = [t \in Slots |->
                  IF t = NextThread(stateAwake) THEN NewQuantum(t)
                  ELSE IF t = current /\ IsRun(stateAwake[t]) THEN 0
                  ELSE ticksAwake[t]]
    /\ UNCHANGED count

(***************************************************************************)
(* The timer interrupt, and int 0x20 from xtSwitchToThread.                *)
(***************************************************************************)
Timer == xtSchedule /\ UNCHANGED pc

xtSwitchToThread ==
    /\ pc[current] = "switch"
    /\ pc' = [pc EXCEPT ![current] = "run"]
    /\ xtSchedule

-----------------------------------------------------------------------------
(***************************************************************************)
(* What the current thread may do.  Its next step is int 0x20 once it has  *)
(* begun to switch; the idle thread only halts.                            *)
(***************************************************************************)
Acts == current # Idle /\ pc[current] = "run"

(* xtSleepThread(current, ms), up to its call of xtSwitchToThread. *)
xtSleepThread(ms) ==
    /\ Acts
    /\ state' = [state EXCEPT ![current] = SLEEP]
    /\ ticks' = [ticks EXCEPT ![current] = ms]
    /\ pc' = [pc EXCEPT ![current] = "switch"]
    /\ UNCHANGED <<count, current, iter>>

(* Waiting without a time limit, as rwSleep does. *)
Wait ==
    /\ Acts
    /\ state' = [state EXCEPT ![current] = Flag(@) + WAIT]
    /\ pc' = [pc EXCEPT ![current] = "switch"]
    /\ UNCHANGED <<count, ticks, current, iter>>

(* xtSwitchToThread from a thread that stays runnable. *)
Yield ==
    /\ Acts
    /\ pc' = [pc EXCEPT ![current] = "switch"]
    /\ UNCHANGED <<count, state, ticks, current, iter>>

(***************************************************************************)
(* xtWakeUpThread on a thread found in an event's or a mutex's list: one   *)
(* that sleeps, or is still on its way to sleep, or was terminated there.  *)
(***************************************************************************)
xtWakeUpThread(t) ==
    /\ Acts
    /\ t \in Live \ {Idle, current}
    /\ Base(state[t]) # WAIT
    /\ state' = [state EXCEPT ![t] = OrRun(Base(@))]
    /\ ticks' = [ticks EXCEPT ![t] = Quantum]
    /\ UNCHANGED <<count, pc, current, iter>>

(***************************************************************************)
(* rwWakeOne and rwWakeAll set the state of a waiting thread directly.     *)
(***************************************************************************)
Resume(t) ==
    /\ Acts
    /\ t \in Live \ {Idle, current}
    /\ Base(state[t]) = WAIT
    /\ state' = [state EXCEPT ![t] = Flag(@) + RUN]
    /\ UNCHANGED <<count, ticks, pc, current, iter>>

(***************************************************************************)
(* xtTerminateThread(current, code), up to its call of xtSwitchToThread.   *)
(* It makes every thread W in its waitThreads runnable: threads asleep in  *)
(* xtWaitForThread, or on their way to sleep.                              *)
(***************************************************************************)
Joiners == {t \in Live \ {Idle, current} : Base(state[t]) \in {SLEEP, RUN}}

xtTerminateThread(W) ==
    /\ Acts
    /\ state' = [t \in Slots |->
          IF t = current THEN Flag(state[t]) + TERMINATED
          ELSE IF t \in W THEN Flag(state[t]) + RUN ELSE state[t]]
    /\ pc' = [pc EXCEPT ![current] = "switch"]
    /\ UNCHANGED <<count, ticks, current, iter>>

(***************************************************************************)
(* xtCreateThread: the last thread of the list whose state is exactly      *)
(* TERMINATED is used again, otherwise one is appended.  The first caller  *)
(* is xtKernelMain, before any other thread runs.                          *)
(***************************************************************************)
Reusable == {t \in Live : state[t] = TERMINATED}

SlotForThread ==
    IF Reusable # {} THEN CHOOSE t \in Reusable : \A u \in Reusable : u <= t
    ELSE count + 1

xtCreateThread(s) ==
    /\ Acts \/ count = 1
    /\ SlotForThread \in Slots
    /\ count' = IF Reusable # {} THEN count ELSE count + 1
    /\ state' = [state EXCEPT ![SlotForThread] = s]
    /\ ticks' = [ticks EXCEPT ![SlotForThread] = Quantum]
    /\ pc' = [pc EXCEPT ![SlotForThread] = "run"]
    /\ UNCHANGED <<current, iter>>

Next ==
    \/ Timer
    \/ xtSwitchToThread
    \/ \E ms \in SleepTimes : xtSleepThread(ms)
    \/ Wait
    \/ Yield
    \/ \E t \in Slots : xtWakeUpThread(t) \/ Resume(t)
    \/ \E W \in SUBSET Joiners : xtTerminateThread(W)
    \/ \E s \in {RUN, USER + RUN} : xtCreateThread(s)

Spec == Init /\ [][Next]_vars

(***************************************************************************)
(* The timer keeps ticking: every critical section of the kernel ends and  *)
(* enables interrupts again.                                               *)
(***************************************************************************)
FairSpec == Spec /\ WF_vars(Timer)

-----------------------------------------------------------------------------
(***************************************************************************)
(* The processor is never given to a thread that cannot run: the current   *)
(* thread is runnable unless it has just changed its own state and is      *)
(* about to switch away.                                                   *)
(***************************************************************************)
CurrentCanRun == IsRun(state[current]) \/ pc[current] = "switch"

(***************************************************************************)
(* The thread that runs is the one the list iterator points at, so the     *)
(* next search starts right behind it and passes nobody over.              *)
(***************************************************************************)
IteratorAtCurrent == iter = current

(***************************************************************************)
(* A runnable current thread has between 1 tick and a quantum left.  With  *)
(* 0 the decrement of scheduler.c:70 would wrap around and the thread      *)
(* would keep the processor for good.                                      *)
(***************************************************************************)
CurrentHasQuantum == IsRun(state[current]) => ticks[current] \in 1..Quantum

(***************************************************************************)
(* A runnable thread gets the processor, whatever the others do: the       *)
(* current one goes on only while its time has not run out and it has not  *)
(* fallen asleep itself (scheduler.c:71).  Naps are where that breaks: a   *)
(* thread that sleeps for one tick is woken by the very int 0x20 that      *)
(* should switch away (scheduler.c:49-52) and goes on with a new quantum,  *)
(* so threads are passed over for ever only if naps never end.             *)
(***************************************************************************)
Naps == state[current] = SLEEP /\ ticks[current] = 1

RunnableIsScheduled ==
    <>[]~Naps => \A t \in Slots : IsRun(state[t]) ~> (current = t \/ ~IsRun(state[t]))

(***************************************************************************)
(* A thread that sleeps for a positive number of milliseconds wakes up     *)
(* (scheduler.c:63, "first wake all the threads whose time has come").  A  *)
(* sleep of 0 is no exception in the code's intent, yet scheduler.c:49     *)
(* decrements before it tests, and 0 wraps around.                         *)
(***************************************************************************)
SleepEnds ==
    \A t \in Slots : (state[t] = SLEEP /\ ticks[t] \in Nat \ {0}) ~> state[t] # SLEEP

(***************************************************************************)
(* The idle thread stays runnable, so the search of scheduler.c:78 always  *)
(* finds somebody and never has to fall back on IdleThread.                *)
(***************************************************************************)
IdleRuns == state[Idle] = RUN

(* After every step of the timer, of int 0x20 and of a thread the processor *)
(* is with a thread that can run or is about to leave (scheduler.c:27), the *)
(* search of xtSchedule starts at it, and it has ticks that count down to 0 *)
(* and do not wrap around (scheduler.c:70).                                 *)
ProcessorInv == TypeOK /\ IdleRuns /\ CurrentCanRun /\ IteratorAtCurrent /\ CurrentHasQuantum
=============================================================================
