------------------------------- MODULE Event -------------------------------
(***************************************************************************)
(* The events of xtkernel/event.c on one processor: auto-reset flags that  *)
(* threads wait for, one or several at a time.                             *)
(*                                                                         *)
(* A step is a stretch of code with interrupts disabled.  xtUnlockSpinlock *)
(* enables them whatever other spinlocks are still held, so a thread can   *)
(* be preempted while it holds an event's lock: inside xtSignalEvent after *)
(* every xtWakeUpThread ("waking"), and inside xtWaitForEvents after it    *)
(* unlocked its first event ("reset", "won", "unlock").  A thread that     *)
(* then runs into that lock spins with interrupts disabled: `hung'.        *)
(***************************************************************************)
EXTENDS Naturals, Sequences, SequencesExt

CONSTANTS
    Threads, Events,
    Requests,       \* Requests[t]: the calls of xtWaitForEvents t may make
    Quantum,        \* thread->privilage
    MaxSignals,     \* bound on the calls of xtSignalEvent per event
    None

ASSUME EventAssumption ==
    /\ None \notin Threads
    /\ Quantum \in Nat /\ Quantum > 0
    /\ MaxSignals \in Nat
    /\ \A t \in Threads : \A r \in Requests[t] :
          /\ r.events \in Seq(Events) /\ Len(r.events) > 0
          /\ r.all \in BOOLEAN        \* flags & XT_WAIT_FOR_ALL
          /\ r.timed \in BOOLEAN      \* milliseconds != UINT64_MAX

VARIABLES
    isSignaled,     \* event->isSignaled
    list,           \* event->list: the threads registered in an event
    dangling,       \* the events whose last list node has been freed
    lock,           \* the thread holding event->lock between steps, or None
    state,          \* thread->state
    pc,             \* where each thread is
    request,        \* the arguments of its xtWaitForEvents
    pos,            \* its loop index there
    target,         \* the event it is signalling
    hung,           \* the thread that spins for ever, or None
    signals,        \* history: how often an event was signalled
    wins            \* history: how often a wait took an event's signal

threadVars == <<state, pc, request, pos, target>>
vars == <<isSignaled, list, dangling, lock, threadVars, hung, signals, wins>>

Location == {"idle", "check", "reset", "won", "unlock", "sleep", "remove", "timeout", "waking"}
AllRequests == UNION {Requests[t] : t \in Threads}

TypeOK ==
    /\ isSignaled \in [Events -> {0, 1}]
    /\ list \in [Events -> Seq(Threads)]
    /\ dangling \subseteq Events
    /\ lock \in [Events -> Threads \cup {None}]
    /\ state \in [Threads -> {"RUN", "SLEEP"}]
    /\ pc \in [Threads -> Location]
    /\ request \in [Threads -> AllRequests \cup {None}]
    /\ pos \in [Threads -> Nat]
    /\ target \in [Threads -> Events \cup {None}]
    /\ hung \in Threads \cup {None}
    /\ signals \in [Events -> 0..MaxSignals]
    /\ wins \in [Events -> Nat]

(* xtCreateEvent, for every event; no thread is inside a call. *)
Init ==
    /\ isSignaled = [e \in Events |-> 0]
    /\ list = [e \in Events |-> <<>>]
    /\ dangling = {}
    /\ lock = [e \in Events |-> None]
    /\ state = [t \in Threads |-> "RUN"]
    /\ pc = [t \in Threads |-> "idle"]
    /\ request = [t \in Threads |-> None]
    /\ pos = [t \in Threads |-> 0]
    /\ target = [t \in Threads |-> None]
    /\ hung = None
    /\ signals = [e \in Events |-> 0]
    /\ wins = [e \in Events |-> 0]

-----------------------------------------------------------------------------
(***************************************************************************)
(* Thread t runs.  Nothing is said of what happens after a freed node      *)
(* stayed in a list.                                                       *)
(***************************************************************************)
Scheduled(t) == hung = None /\ dangling = {} /\ state[t] = "RUN"

EventAt(t, i) == request[t].events[i]
Count(t) == Len(request[t].events)
Waited(t) == {EventAt(t, i) : i \in 1..Count(t)}

Goto(t, l) == pc' = [pc EXCEPT ![t] = l]

Unheld(S) == \A e \in S : lock[e] = None

(* xtLockSpinlock on a lock that is held. *)
Spin(t) ==
    /\ hung' = t
    /\ UNCHANGED <<isSignaled, list, dangling, lock, threadVars, signals, wins>>

(* A call that names an event twice spins on its own lock (event.c:80). *)
Twice(t) == \E i, j \in 1..Count(t) : i # j /\ EventAt(t, i) = EventAt(t, j)
Lockable(t) == Unheld(Waited(t)) /\ ~Twice(t)

-----------------------------------------------------------------------------
xtResetEvent(t, e) ==
    /\ Scheduled(t)
    /\ pc[t] = "idle"
    /\ \/ ~Unheld({e}) /\ Spin(t)
       \/ /\ Unheld({e})
          /\ isSignaled' = [isSignaled EXCEPT ![e] = 0]
          /\ UNCHANGED <<list, dangling, lock, threadVars, hung, signals, wins>>

(***************************************************************************)
(* xtSignalEvent: set the flag, wake the first registered thread; then,    *)
(* with interrupts enabled by xtWakeUpThread, drop its node and go on with *)
(* the next one until the list is empty.                                   *)
(***************************************************************************)
LastLeft(l) == Len(l) <= 1
Drained(l) == l = <<>>

Release(e) == lock' = [lock EXCEPT ![e] = None]

WakeHead(t, e) ==
    IF Drained(list'[e])
    THEN /\ Release(e)
         /\ Goto(t, "idle")
         /\ UNCHANGED state
    ELSE /\ lock' = [lock EXCEPT ![e] = t]
         /\ Goto(t, "waking")
         /\ state' = [state EXCEPT ![Head(list'[e])] = "RUN"]

SetFlag(e) == isSignaled' = [isSignaled EXCEPT ![e] = 1]

xtSignalEvent(t, e) ==
    /\ Scheduled(t)
    /\ pc[t] = "idle"
    /\ signals[e] < MaxSignals
    /\ \/ ~Unheld({e}) /\ Spin(t)
       \/ /\ Unheld({e})
          /\ SetFlag(e)
          /\ list' = list
          /\ WakeHead(t, e)
          /\ target' = [target EXCEPT ![t] = e]
          /\ signals' = [signals EXCEPT ![e] = @ + 1]
          /\ UNCHANGED <<dangling, request, pos, hung, wins>>

WakeNext(t) ==
    /\ Scheduled(t)
    /\ pc[t] = "waking"
    /\ list' = [list EXCEPT ![target[t]] = Tail(@)]
    /\ WakeHead(t, target[t])
    /\ UNCHANGED <<isSignaled, dangling, request, pos, target, hung, signals, wins>>

-----------------------------------------------------------------------------
(* A thread calls xtWaitForEvents. *)
Call(t, r) ==
    /\ Scheduled(t)
    /\ pc[t] = "idle"
    /\ request' = [request EXCEPT ![t] = r]
    /\ Goto(t, "check")
    /\ UNCHANGED <<isSignaled, list, dangling, lock, state, pos, target, hung, signals, wins>>

(***************************************************************************)
(* The loop at l that unlocks the events one after the other has unlocked  *)
(* the first i of them; the rest stay locked by t.                         *)
(***************************************************************************)
After(l) == IF l = "unlock" THEN "sleep" ELSE "idle"

UnlockedUpTo(t, l, i) ==
    /\ Goto(t, IF i = Count(t) THEN After(l) ELSE l)
    /\ pos' = [pos EXCEPT ![t] = i]
    /\ lock' = [e \in Events |->
          IF \E j \in (i + 1)..Count(t) : EventAt(t, j) = e THEN t
          ELSE IF e = EventAt(t, i) THEN None ELSE lock[e]]

LeaveSignaled(e) == wins' = [wins EXCEPT ![e] = @ + 1] /\ UNCHANGED isSignaled
Take(e) ==
    /\ isSignaled' = [isSignaled EXCEPT ![e] = 0]
    /\ wins' = [wins EXCEPT ![e] = @ + 1]

(***************************************************************************)
(* Phase 1 and 2 of xtWaitForEvents up to the first xtUnlockSpinlock: lock *)
(* all the events, take the signal, or register in every event.            *)
(***************************************************************************)
AllSignaled(t) == \A e \in Waited(t) : isSignaled[e] = 1
FirstSignaled(t) == Min({i \in 1..Count(t) : isSignaled[EventAt(t, i)] = 1})
SatisfiedByAll(t) == AllSignaled(t)
Satisfied(t) == IF request[t].all THEN AllSignaled(t)
                ELSE \E e \in Waited(t) : isSignaled[e] = 1

Register(t) == list' = [e \in Events |->
    IF e \in Waited(t) THEN Append(list[e], t) ELSE list[e]]

xtWaitForEvents(t) ==
    /\ Scheduled(t)
    /\ pc[t] = "check"
    /\ \/ ~Lockable(t) /\ Spin(t)
       \/ /\ Lockable(t) /\ Satisfied(t) /\ request[t].all
          /\ Take(EventAt(t, 1))
          /\ UnlockedUpTo(t, "reset", 1)
          /\ UNCHANGED <<list, dangling, state, request, target, hung, signals>>
       \/ /\ Lockable(t) /\ Satisfied(t) /\ ~request[t].all
          /\ Take(EventAt(t, FirstSignaled(t)))
          /\ UnlockedUpTo(t, "won", 1)
          /\ UNCHANGED <<list, dangling, state, request, target, hung, signals>>
       \/ /\ Lockable(t) /\ ~Satisfied(t)
          /\ Register(t)
          /\ UnlockedUpTo(t, "unlock", 1)
          /\ UNCHANGED <<isSignaled, dangling, state, request, target, hung, signals, wins>>

(* The next iteration of one of the three unlocking loops. *)
UnlockNext(t) ==
    /\ Scheduled(t)
    /\ pc[t] \in {"reset", "won", "unlock"}
    /\ UnlockedUpTo(t, pc[t], pos[t] + 1)
    /\ IF pc[t] = "reset" THEN Take(EventAt(t, pos[t] + 1)) ELSE UNCHANGED <<isSignaled, wins>>
    /\ UNCHANGED <<list, dangling, state, request, target, hung, signals>>

(***************************************************************************)
(* xtSleepThread(current, milliseconds) when there is a time limit, else   *)
(* xtSwitchToThread, which leaves the thread runnable.                     *)
(***************************************************************************)
Sleep(t) ==
    /\ Scheduled(t)
    /\ pc[t] = "sleep"
    /\ state' = [state EXCEPT ![t] = IF request[t].timed THEN "SLEEP" ELSE "RUN"]
    /\ Goto(t, "remove")
    /\ pos' = [pos EXCEPT ![t] = 0]
    /\ UNCHANGED <<isSignaled, list, dangling, lock, request, target, hung, signals, wins>>

(* xtWakeUpThreads, called by the timer, ends the sleep of t. *)
Expire(t) ==
    /\ hung = None /\ dangling = {}
    /\ state[t] = "SLEEP"
    /\ state' = [state EXCEPT ![t] = "RUN"]
    /\ UNCHANGED <<isSignaled, list, dangling, lock, pc, request, pos, target, hung, signals, wins>>

(***************************************************************************)
(* One iteration of removeFromAllEvents.  xtSetNextList refuses NULL, so a *)
(* node that is last and not first is freed and stays linked.              *)
(***************************************************************************)
StaysLinked(nodes, i) == i > 1 /\ i = Len(nodes)

Dequeue(t, e) ==
    LET mine == {i \in 1..Len(list[e]) : list[e][i] = t} IN
    \/ /\ mine = {}
       /\ UNCHANGED <<list, dangling>>
    \/ /\ mine # {} /\ ~StaysLinked(list[e], Min(mine))
       /\ list' = [list EXCEPT ![e] = RemoveAt(@, Min(mine))]
       /\ UNCHANGED dangling
    \/ /\ mine # {} /\ StaysLinked(list[e], Min(mine))
       /\ dangling' = dangling \cup {e}
       /\ UNCHANGED list

(* What follows the last iteration, with ticks as CurrentHasQuantum says. *)
OneTooFew(t) == Count(t) - 1
LastEvent(t) == Count(t)
TimedOut(t, ticks) == request[t].timed /\ ticks = 0

removeFromAllEvents(t) == LET e == EventAt(t, pos[t] + 1) IN
    /\ Scheduled(t)
    /\ pc[t] = "remove"
    /\ \/ ~Unheld({e}) /\ Spin(t)
       \/ /\ Unheld({e})
          /\ Dequeue(t, e)
          /\ pos' = [pos EXCEPT ![t] = @ + 1]
          /\ IF pos[t] + 1 < LastEvent(t) THEN UNCHANGED pc
             ELSE \E ticks \in 1..Quantum : Goto(t, IF TimedOut(t, ticks) THEN "timeout" ELSE "check")
          /\ UNCHANGED <<isSignaled, lock, state, request, target, hung, signals, wins>>

-----------------------------------------------------------------------------
Step(t) ==
    \/ xtWaitForEvents(t)
    \/ UnlockNext(t)
    \/ Sleep(t)
    \/ Expire(t)
    \/ removeFromAllEvents(t)
    \/ WakeNext(t)

Next == \E t \in Threads :
    \/ Step(t)
    \/ \E e \in Events : xtSignalEvent(t, e) \/ xtResetEvent(t, e)
    \/ \E r \in Requests[t] : Call(t, r)

Spec == Init /\ [][Next]_vars

(***************************************************************************)
(* A runnable thread is scheduled again and again, and a timed sleep ends  *)
(* (RunnableIsScheduled and SleepEnds of module Scheduler).                *)
(***************************************************************************)
FairSpec == Spec /\ \A t \in Threads : WF_vars(Step(t))

-----------------------------------------------------------------------------
(***************************************************************************)
(* A signal lets at most one wait through: the waits that took a signal of *)
(* e, and the one that is still to be taken, are no more than the calls of *)
(* xtSignalEvent, whoever was woken and whoever polled.                    *)
(***************************************************************************)
OneWinnerPerSignal == \A e \in Events : wins[e] + isSignaled[e] <= signals[e]

(***************************************************************************)
(* A node of an event's list stands for a thread that is inside            *)
(* xtWaitForEvents, between its registration and its own clean-up, so      *)
(* xtSignalEvent never disturbs a thread that waits for something else.    *)
(***************************************************************************)
ListedOnlyWhileWaiting == dangling = {} =>
    \A e \in Events : \A i \in 1..Len(list[e]) : LET t == list[e][i] IN
        /\ \A j \in 1..Len(list[e]) : list[e][j] = t => i = j
        /\ \/ pc[t] \in {"unlock", "sleep"} /\ e \in Waited(t)
           \/ pc[t] = "remove" /\ \E k \in (pos[t] + 1)..Count(t) : EventAt(t, k) = e

(***************************************************************************)
(* Nobody who waits for one of several events stays registered in an event *)
(* that is signalled and not being signalled any more (event.c:27).        *)
(***************************************************************************)
NoWaiterLeftBehind ==
    \A e \in Events : lock[e] = None /\ isSignaled[e] = 1 =>
        \A i \in 1..Len(list[e]) : request[list[e][i]].all

(***************************************************************************)
(* A lock is held between steps only by a thread preempted inside          *)
(* xtSignalEvent or in an unlocking loop of xtWaitForEvents; so a hang     *)
(* needs a preemption at event.c:31, 92, 103 or 120.                       *)
(***************************************************************************)
HeldOnlyInWindows == \A e \in Events : lock[e] # None =>
    \/ pc[lock[e]] = "waking" /\ target[lock[e]] = e
    \/ /\ pc[lock[e]] \in {"reset", "won", "unlock"}
       /\ \E k \in (pos[lock[e]] + 1)..Count(lock[e]) : EventAt(lock[e], k) = e

(***************************************************************************)
(* While what it waits for stays signalled, a wait returns, unless the     *)
(* processor hangs or a freed node stays linked: the polling of a wait     *)
(* without a time limit, and the wake-up or the timer in the other case,   *)
(* lead it to a successful check.                                          *)
(***************************************************************************)
Waiting(t) == pc[t] \in {"check", "unlock", "sleep", "remove"}
CanProceed(t) == LET S == {e \in Waited(t) : isSignaled[e] = 1} IN
    IF request[t].all THEN S = Waited(t) ELSE S # {}
SignaledWaitReturns == \A t \in Threads :
    (Waiting(t) /\ CanProceed(t))
        ~> (~Waiting(t) \/ ~CanProceed(t) \/ hung # None \/ dangling # {})

(* The waiter lists agree with the waits (event.c:43) and the locks of the  *)
(* events with the windows in which they are held (event.c:31, 92).         *)
WaitListInv == TypeOK /\ ListedOnlyWhileWaiting /\ HeldOnlyInWindows

-----------------------------------------------------------------------------
(***************************************************************************)
(* What makes the properties above inductive.  A call in progress has its  *)
(* arguments, and its loop index is within them; a thread in one of the    *)
(* windows holds the locks of all the events it has yet to unlock, so no   *)
(* other thread touches them; the signals that a wait for all has yet to   *)
(* take are still there; and a waiter for one of several events is listed  *)
(* in a signalled event only while that event is being signalled.          *)
(***************************************************************************)
Unlocking(t) == pc[t] \in {"reset", "won", "unlock"}
Signaling(t, e) == pc[t] = "waking" /\ target[t] = e

CallsWithinArguments == \A t \in Threads :
    /\ pc[t] \in {"check", "reset", "won", "unlock", "sleep", "remove"} => request[t] \in Requests[t]
    /\ Unlocking(t) => pos[t] \in 1..(Count(t) - 1) /\ ~Twice(t)
    /\ pc[t] = "remove" => pos[t] \in 0..(Count(t) - 1)

WindowsHoldTheirLocks == \A t \in Threads :
    /\ Unlocking(t) => \A k \in (pos[t] + 1)..Count(t) : lock[EventAt(t, k)] = t
    /\ pc[t] = "waking" => /\ target[t] \in Events
                           /\ lock[target[t]] = t
                           /\ list[target[t]] # <<>>

SignalsKept == \A t \in Threads : pc[t] = "reset" =>
    \A k \in (pos[t] + 1)..Count(t) : isSignaled[EventAt(t, k)] = 1

BehindOnlyWhileSignaling ==
    \A e \in Events : isSignaled[e] = 1 /\ (\A u \in Threads : ~Signaling(u, e)) =>
        \A i \in 1..Len(list[e]) : request[list[e][i]].all

EventInv ==
    /\ WaitListInv /\ OneWinnerPerSignal
    /\ CallsWithinArguments /\ WindowsHoldTheirLocks
    /\ SignalsKept /\ BehindOnlyWhileSignaling
=============================================================================
