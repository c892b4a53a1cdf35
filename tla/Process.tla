------------------------------ MODULE Process -------------------------------
(***************************************************************************)
(* The life of threads and processes, xtkernel/process.c: creation, the    *)
(* end of a thread, waiting for it, and the end of a process.              *)
(*                                                                         *)
(* One processor runs `current'; interrupts are off only while a spinlock  *)
(* is held, so the timer may switch away between any two steps.  Which     *)
(* thread runs next is left open (module Scheduler has xtSchedule), but a  *)
(* thread that is not in RUN state never gets the processor back: this is  *)
(* how a thread that has marked itself TERMINATED may lose the rest of its *)
(* xtTerminateThread.  XTThread structures are reused, so a thread is a    *)
(* slot, and `born' counts the threads that have lived in it.  The kernel  *)
(* is compiled without optimisation: a step reads what one expression of   *)
(* the code reads, or writes what one assignment writes.                   *)
(***************************************************************************)
EXTENDS Integers, FiniteSets, FiniteSetsExt, Lists

CONSTANTS
    MaxThreads,     \* bound on the length of the list `threads'
    MaxBorn,        \* bound on the threads that are created
    MaxMisused,     \* bound on the terminations of a thread that waits or has ended
    Processes,      \* the processes there are from the start
    KernelProcess,  \* the one whose threads are kernel threads
    HeapContents    \* what activeThreads may be: xtCreateProcess sets neither it nor flags

ASSUME ProcessAssumption ==
    /\ MaxThreads \in Nat \ {0} /\ MaxBorn \in Nat \ {0} /\ MaxMisused \in Nat
    /\ KernelProcess \in Processes
    /\ HeapContents \subseteq Nat /\ HeapContents # {}

VARIABLES
    count,          \* the length of `threads', the list of the scheduler
    thread,         \* XTThread: state, user (its flag), result, waitThreads, process
    process,        \* XTProcess: activeThreads, threads, terminating (flags), freed
    current,        \* the thread on the processor, NoThread when it is IdleThread
    pc,             \* where a thread is in the operations below
    call,           \* their locals: the thread joined or ended, the code, the loop's position
    born,           \* history: the threads that have lived in a slot
    due,            \* history: the exit code of the thread a joiner waits for, once it has ended
    seen            \* history: the threads created, those that handles name (handles are never
                    \* given back), and what has happened that was not meant to

vars == <<count, thread, process, current, pc, call, born, due, seen>>

NoThread == 0
Wrapped == -1
Slots == 1..MaxThreads
Listed == 1..count
Codes == 1..MaxBorn
NoCall == [thread |-> NoThread, born |-> 0, code |-> 0, target |-> KernelProcess, left |-> 0,
           inside |-> 0, process |-> KernelProcess, pos |-> 1, over |-> 0]

(* A node of waitThreads: a thread, and whether the node has been freed.   *)
Node(t) == [thread |-> t, freed |-> 0]
NodeType == [thread : Slots, freed : {0, 1}]

Places == {"run", "locked", "listed", "joining",
           "ended", "loaded", "stored", "testing", "entering", "teardown", "torn"}
ThreadType == [state : {"RUN", "SLEEP", "TERMINATED"}, user : {0, 1}, result : Codes \cup {0},
               waitThreads : Seq(NodeType), process : Processes]
ProcessType == [activeThreads : Nat \cup {Wrapped}, threads : Seq(Slots),
                terminating : {0, 1}, freed : {0, 1}]
CallType == [thread : Slots \cup {NoThread}, born : Codes \cup {0}, code : Codes \cup {0},
             target : Processes, left : Nat \cup {Wrapped},
             inside : {0, 1}, process : Processes, pos : Nat \ {0}, over : {0, 1}]
SeenType == [created : Codes, named : SUBSET Slots, misused : Nat, stray : {0, 1}, fault : {0, 1},
             lost : {0, 1}]

TypeOK ==
    /\ count \in Slots
    /\ thread \in [Slots -> ThreadType]
    /\ process \in [Processes -> ProcessType]
    /\ current \in Listed \cup {NoThread}
    /\ pc \in [Slots -> Places]
    /\ call \in [Slots -> CallType]
    /\ born \in [Slots -> Codes \cup {0}]
    /\ due \in [Slots -> Codes \cup {0}]
    /\ seen \in SeenType

(***************************************************************************)
(* xtKernelMain has created the kernel thread 1 and switched to it; the    *)
(* process it starts its program in comes from xtCreateProcess, which sets *)
(* neither activeThreads nor flags.  kernelProcess is static, hence zero.  *)
(* process->threads is not set either: a heap block that holds anything    *)
(* but NULL there is a list that xtAppendList gets lost in, and is not     *)
(* followed.                                                               *)
(***************************************************************************)
Fresh(p, user) == [state |-> "RUN", user |-> user, result |-> 0, waitThreads |-> <<>>, process |-> p]

xtCreateProcess(p, garbage, flag) ==
    [activeThreads |-> IF p = KernelProcess THEN 0 ELSE garbage,
     threads |-> IF p = KernelProcess THEN <<1>> ELSE <<>>,
     terminating |-> IF p = KernelProcess THEN 0 ELSE flag, freed |-> 0]

Init ==
    /\ count = 1
    /\ thread = [t \in Slots |-> Fresh(KernelProcess, 0)]
    /\ \E garbage \in [Processes -> HeapContents], flag \in [Processes -> {0, 1}] :
          process = [p \in Processes |-> xtCreateProcess(p, garbage[p], flag[p])]
    /\ current = 1
    /\ pc = [t \in Slots |-> "run"]
    /\ call = [t \in Slots |-> NoCall]
    /\ born = [t \in Slots |-> IF t = 1 THEN 1 ELSE 0]
    /\ due = [t \in Slots |-> 0]
    /\ seen = [created |-> 1, named |-> {}, misused |-> 0, stray |-> 0, fault |-> 0, lost |-> 0]

-----------------------------------------------------------------------------
(* What happens after freed memory has been read is not followed (a node   *)
(* of waitThreads, or a thread of a freed process, which stays on the list *)
(* that every timer interrupt walks), nor what happens after the processor *)
(* hangs or the process of the kernel itself begins to be ended (`lost').  *)
Sound == seen.fault = 0 /\ seen.lost = 0

(* c is on the processor, or still on it although it has ended itself. *)
OnProcessor(c, at) == Sound /\ c = current /\ c # NoThread /\ pc[c] = at
Runs(c) == OnProcessor(c, "run") /\ thread[c].state = "RUN"
Ended(t) == thread[t].state = "TERMINATED"
IsKernel(c) == thread[c].process = KernelProcess

(* The timer, or xtSwitchToThread of a thread that sleeps or has ended.    *)
Switch ==
    /\ Sound
    /\ LET runnable == {t \in Listed : thread[t].state = "RUN"}
       IN  current' \in IF runnable = {} THEN {NoThread} ELSE runnable
    /\ current' # current
    /\ UNCHANGED <<count, thread, process, pc, call, born, due, seen>>

(***************************************************************************)
(* xtCreateThread: the last thread of the list whose state is TERMINATED,  *)
(* without the USER flag, is reused; else the list gets a new one.  The    *)
(* slot stays on the list of the process it had.  A user thread is started *)
(* by xtExecuteProgram.                                                    *)
(***************************************************************************)
NotRunning(t) == thread[t].state # "RUN"
Reusable(t) == Ended(t) /\ thread[t].user = 0
SlotFor == LET ended == {t \in Listed : Reusable(t)} IN IF ended = {} THEN count + 1 ELSE Max(ended)

xtCreateThread(c, p, user) ==
    LET t == SlotFor IN
    /\ Runs(c) /\ t \in Slots /\ seen.created < MaxBorn
    /\ ~IsKernel(c) => user = 1
    /\ user = 0 <=> p = KernelProcess
    /\ count' = IF t > count THEN t ELSE count
    /\ thread' = [thread EXCEPT ![t] = Fresh(p, user)]
    /\ process' = [process EXCEPT ![p].threads = Append(@, t)]
    /\ pc' = [pc EXCEPT ![t] = "run"]
    /\ call' = [call EXCEPT ![t] = NoCall]
    /\ born' = [born EXCEPT ![t] = @ + 1]
    /\ due' = [due EXCEPT ![t] = 0]
    /\ seen' = [seen EXCEPT !.created = @ + 1, !.named = IF IsKernel(c) THEN @ ELSE @ \cup {t}]
    /\ UNCHANGED current

-----------------------------------------------------------------------------
(***************************************************************************)
(* xtTerminateThread up to its unlock: result and state, and every thread  *)
(* on waitThreads is made runnable, whatever state it is in.               *)
(***************************************************************************)
Woken(t) == {thread[t].waitThreads[i].thread : i \in DOMAIN thread[t].waitThreads}

WithoutResult(t, code) == [thread[t] EXCEPT !.state = "TERMINATED"]
WithResult(t, code) == [thread[t] EXCEPT !.result = code, !.state = "TERMINATED"]

Terminate(t, code) ==
    [u \in Slots |->
        LET now == IF u = t THEN WithResult(t, code) ELSE thread[u]
        IN  IF u \in Woken(t) THEN [now EXCEPT !.state = "RUN"] ELSE now]

InWait(u) == pc[u] \in {"locked", "listed", "joining"}
Joins(u, t) == InWait(u) /\ call[u].thread = t /\ call[u].born = born[t]
DueAfter(t, code) == [u \in Slots |-> IF Joins(u, t) THEN code ELSE due[u]]

(* misused: a thread is ended while it waits for another, or a second      *)
(* time.  stray: a thread is woken that does not wait for the one ended.   *)
SeenAfter(t) ==
    [created |-> seen.created, named |-> seen.named, lost |-> seen.lost,
     misused |-> IF Ended(t) \/ InWait(t) THEN seen.misused + 1 ELSE seen.misused,
     stray |-> IF \E u \in Woken(t) : ~Joins(u, t) \/ Ended(u) THEN 1 ELSE seen.stray,
     fault |-> IF \E i \in DOMAIN thread[t].waitThreads : thread[t].waitThreads[i].freed = 1
               THEN 1 ELSE seen.fault]

(* A kernel thread ends any thread; a user thread itself, or by a handle,  *)
(* which xtUserExecuteProgram gives for the thread it creates and which    *)
(* names the structure, whoever lives in it later.                         *)
MayEnd(c, t) == IsKernel(c) \/ t = c \/ t \in seen.named

(* A thread switched away inside xtWaitForThread holds its own lock.       *)
LockHeld(t) == pc[t] = "locked"

(* An exit code tells which of the threads of its slot has ended. *)
ExitCode(t) == born[t]

xtTerminateThread(c, t, code) ==
    /\ Runs(c) /\ t \in Listed /\ MayEnd(c, t) /\ ~LockHeld(t)
    /\ Ended(t) \/ InWait(t) => seen.misused < MaxMisused
    /\ thread' = Terminate(t, code)
    /\ due' = DueAfter(t, code)
    /\ seen' = SeenAfter(t)
    /\ pc' = [pc EXCEPT ![c] = "ended"]
    /\ call' = [call EXCEPT ![c] = [NoCall EXCEPT !.thread = t, !.born = born[t], !.code = code]]
    /\ UNCHANGED <<count, process, current, born>>

(***************************************************************************)
(* The rest of it, with interrupts enabled: activeThreads-- (a load and a  *)
(* store), its test, and the test and the setting of TERMINATING, each of  *)
(* which follows thread->process again.  Nothing ever counts up; zero      *)
(* wraps around to a number close to 2^64 that no run of the system counts *)
(* down to zero.  Who does not end the process returns: to the loop of     *)
(* xtTerminateProcess when it was called from there.                       *)
(***************************************************************************)
Decrement(n) == IF n \in {0, Wrapped} THEN Wrapped ELSE n - 1
ProcessOf(c) == thread[call[c].thread].process

Load(c) ==
    /\ OnProcessor(c, "ended")
    /\ call' = [call EXCEPT ![c].target = ProcessOf(c), ![c].left = process[ProcessOf(c)].activeThreads]
    /\ pc' = [pc EXCEPT ![c] = "loaded"]
    /\ UNCHANGED <<count, thread, process, current, born, due, seen>>

Store(c) ==
    /\ OnProcessor(c, "loaded")
    /\ process' = [process EXCEPT ![call[c].target].activeThreads = Decrement(call[c].left)]
    /\ pc' = [pc EXCEPT ![c] = "stored"]
    /\ call' = [call EXCEPT ![c].target = KernelProcess, ![c].left = 0]
    /\ UNCHANGED <<count, thread, current, born, due, seen>>

ReturnTo(c) ==
    IF call[c].inside = 0 THEN "run" ELSE IF call[c].thread = c THEN "torn" ELSE "teardown"

Return(c) ==
    /\ pc' = [pc EXCEPT ![c] = ReturnTo(c)]
    /\ call' = [call EXCEPT ![c] = IF @.inside = 0 THEN NoCall ELSE @]

IsZeroOrWrapped(n) == n \in {0, Wrapped}
IsZero(n) == n = 0

TestCount(c) ==
    /\ OnProcessor(c, "stored")
    /\ \/ /\ IsZero(process[ProcessOf(c)].activeThreads)
          /\ pc' = [pc EXCEPT ![c] = "testing"]
          /\ UNCHANGED call
       \/ ~IsZero(process[ProcessOf(c)].activeThreads) /\ Return(c)
    /\ UNCHANGED <<count, thread, process, current, born, due, seen>>

(* The flag is tested at the call and again in xtTerminateProcess: what    *)
(* passes the second test has passed the first.                            *)
TestFlag(c) ==
    /\ OnProcessor(c, "testing")
    /\ \/ /\ process[ProcessOf(c)].terminating = 0
          /\ pc' = [pc EXCEPT ![c] = "entering"]
          /\ call' = [call EXCEPT ![c] = [@ EXCEPT !.process = ProcessOf(c), !.inside = 1,
                                                   !.pos = 1, !.over = 0]]
       \/ process[ProcessOf(c)].terminating = 1 /\ Return(c)
    /\ UNCHANGED <<count, thread, process, current, born, due, seen>>

Enter(c) ==
    /\ OnProcessor(c, "entering")
    /\ process' = [process EXCEPT ![call[c].process].terminating = 1]
    /\ pc' = [pc EXCEPT ![c] = "teardown"]
    /\ seen' = [seen EXCEPT !.lost = IF call[c].process = KernelProcess THEN 1 ELSE @]
    /\ UNCHANGED <<count, thread, current, call, born, due>>

(***************************************************************************)
(* xtTerminateProcess: a turn of its loop over process->threads (the next  *)
(* node is read before the thread of this one is ended), then the thread   *)
(* itself if it is one of the process's.  It is not meant to return from   *)
(* that (pc "torn"), but does if somebody makes it runnable.  A thread of  *)
(* the list may be another process's last by now: that process is ended    *)
(* first, and with its memory freed the model does not follow the return.  *)
(***************************************************************************)
ThreadAt(p, pos) == process[p].threads[pos]
NextOne(pos) == pos + 1
OverAfter(c) == IF NextOne(call[c].pos) <= Len(process[call[c].process].threads) THEN 0 ELSE 1

PassThread(c) ==
    LET t == ThreadAt(call[c].process, call[c].pos) IN
    /\ OnProcessor(c, "teardown") /\ call[c].over = 0
    /\ t = c \/ Ended(t)
    /\ call' = [call EXCEPT ![c] = [@ EXCEPT !.pos = NextOne(call[c].pos), !.over = OverAfter(c)]]
    /\ UNCHANGED <<count, thread, process, current, pc, born, due, seen>>

EndEachThread(c) ==
    LET t == ThreadAt(call[c].process, call[c].pos) IN
    /\ OnProcessor(c, "teardown") /\ call[c].over = 0
    /\ t # c /\ ~Ended(t) /\ ~LockHeld(t)
    /\ thread' = Terminate(t, call[c].code)
    /\ due' = DueAfter(t, call[c].code)
    /\ seen' = SeenAfter(t)
    /\ pc' = [pc EXCEPT ![c] = "ended"]
    /\ call' = [call EXCEPT ![c] = [@ EXCEPT !.thread = t, !.born = born[t],
                                             !.pos = NextOne(call[c].pos), !.over = OverAfter(c)]]
    /\ UNCHANGED <<count, process, current, born>>

EndItself(c) ==
    /\ OnProcessor(c, "teardown") /\ call[c].over = 1
    /\ thread[c].process = call[c].process
    /\ thread' = Terminate(c, call[c].code)
    /\ due' = DueAfter(c, call[c].code)
    /\ seen' = [SeenAfter(c) EXCEPT !.misused = seen.misused]
    /\ pc' = [pc EXCEPT ![c] = "ended"]
    /\ call' = [call EXCEPT ![c] = [@ EXCEPT !.thread = c, !.born = born[c]]]
    /\ UNCHANGED <<count, process, current, born>>

(* The structures of the threads, the memory, the handles and the process. *)
FreeProcess(c) ==
    /\ \/ OnProcessor(c, "teardown") /\ call[c].over = 1 /\ thread[c].process # call[c].process
       \/ OnProcessor(c, "torn") /\ thread[c].state = "RUN"
    /\ process' = [process EXCEPT ![call[c].process].freed = 1]
    /\ seen' = [seen EXCEPT !.fault = 1]
    /\ UNCHANGED <<count, thread, current, pc, call, born, due>>

-----------------------------------------------------------------------------
(***************************************************************************)
(* xtWaitForThread, which only kernel threads call: at once for a thread   *)
(* that has ended, else a node is put on its list and the two locks are    *)
(* released, which enables interrupts while its own is still held, and     *)
(* only then does the thread go to sleep, without a time limit.            *)
(***************************************************************************)
OnlyNode(nodes, c) == <<Node(c)>>
WithNode(nodes, c) == Append(nodes, Node(c))

xtWaitForThread(c, t) ==
    /\ Runs(c) /\ IsKernel(c) /\ t \in Listed \ {c} /\ ~Ended(t) /\ ~LockHeld(t)
    /\ thread' = [thread EXCEPT ![t].waitThreads = WithNode(@, c)]
    /\ pc' = [pc EXCEPT ![c] = "locked"]
    /\ call' = [call EXCEPT ![c] = [NoCall EXCEPT !.thread = t, !.born = born[t]]]
    /\ due' = [due EXCEPT ![c] = 0]
    /\ UNCHANGED <<count, process, current, born, seen>>

xtUnlockSpinlock(c) ==
    /\ OnProcessor(c, "locked")
    /\ pc' = [pc EXCEPT ![c] = "listed"]
    /\ UNCHANGED <<count, thread, process, current, call, born, due, seen>>

(* Whoever wants a lock whose holder was switched away spins with          *)
(* interrupts disabled: the processor hangs.                               *)
Spin(c) ==
    /\ \/ Runs(c) /\ \E t \in Listed : LockHeld(t) /\ MayEnd(c, t)
       \/ /\ OnProcessor(c, "teardown") /\ call[c].over = 0
          /\ LET t == ThreadAt(call[c].process, call[c].pos) IN LockHeld(t) /\ ~Ended(t)
    /\ seen' = [seen EXCEPT !.lost = 1]
    /\ UNCHANGED <<count, thread, process, current, pc, call, born, due>>

Sleeping(t) == [thread[t] EXCEPT !.state = "SLEEP", !.user = 0]

(* A user thread sleeps for an event or a mutex, and its sleep ends: the    *)
(* whole state is assigned, so the thread loses its USER flag, and its      *)
(* structure will be reused.  Without the flag such a sleep is a Switch.    *)
SleepElsewhere(c) ==
    /\ Runs(c) /\ thread[c].user = 1
    /\ thread' = [thread EXCEPT ![c] = Sleeping(c)]
    /\ UNCHANGED <<count, process, current, pc, call, born, due, seen>>

xtWakeUpThread(t) ==
    /\ Sound
    /\ t \in Listed /\ thread[t].state = "SLEEP" /\ pc[t] = "run"
    /\ thread' = [thread EXCEPT ![t].state = "RUN"]
    /\ UNCHANGED <<count, process, current, pc, call, born, due, seen>>

xtSleepThread(c) ==
    /\ OnProcessor(c, "listed") /\ thread[c].state = "RUN"
    /\ thread' = [thread EXCEPT ![c] = Sleeping(c)]
    /\ pc' = [pc EXCEPT ![c] = "joining"]
    /\ UNCHANGED <<count, process, current, call, born, due, seen>>

(***************************************************************************)
(* The waiter takes its node off the list with xtRemoveFromList, and frees *)
(* it with xtDestroyList in any case: linked or not, freed or not.         *)
(***************************************************************************)
TakeOff(nodes, c) ==
    LET mine == {i \in DOMAIN nodes : nodes[i] = Node(c)}
        kept == xtRemoveFromList(nodes, IF mine = {} THEN 0 ELSE Min(mine))
    IN  [i \in DOMAIN kept |-> IF kept[i] = Node(c) THEN [kept[i] EXCEPT !.freed = 1] ELSE kept[i]]

ReturnWaiter(c) ==
    LET t == call[c].thread IN
    /\ OnProcessor(c, "joining") /\ thread[c].state = "RUN"
    /\ thread' = [thread EXCEPT ![t].waitThreads = TakeOff(@, c)]
    /\ pc' = [pc EXCEPT ![c] = "run"]
    /\ call' = [call EXCEPT ![c] = NoCall]
    /\ due' = [due EXCEPT ![c] = 0]
    /\ UNCHANGED <<count, process, current, born, seen>>

-----------------------------------------------------------------------------
Next ==
    \/ Switch
    \/ \E c \in Slots :
          \/ \E p \in Processes, user \in {0, 1} : xtCreateThread(c, p, user)
          \/ \E t \in Slots : xtTerminateThread(c, t, ExitCode(t))
          \/ Load(c) \/ Store(c) \/ TestCount(c) \/ TestFlag(c) \/ Enter(c)
          \/ PassThread(c) \/ EndEachThread(c) \/ EndItself(c) \/ FreeProcess(c)
          \/ \E t \in Slots : xtWaitForThread(c, t)
          \/ xtUnlockSpinlock(c) \/ Spin(c)
          \/ SleepElsewhere(c) \/ xtWakeUpThread(c)
          \/ xtSleepThread(c)
          \/ ReturnWaiter(c)

Spec == Init /\ [][Next]_vars

-----------------------------------------------------------------------------
Waits(c) == pc[c] = "joining" /\ thread[c].state = "SLEEP"
Lives(c) == ~Ended(call[c].thread) /\ born[call[c].thread] = call[c].born

(* xtWaitForThread sleeps without a limit.  Its sleeper is on the list of a *)
(* live thread, or it missed the end of that thread, which came after the   *)
(* unlock at process.c:420 and before the sleep at 421 (the code is due);   *)
(* only a reused structure or a stray wake-up can lose it in another way.   *)
SleeperIsListed ==
    \A c \in Listed : Waits(c) /\ born[call[c].thread] = 1 /\ seen.stray = 0 =>
        \/ Lives(c) /\ \E i \in DOMAIN thread[call[c].thread].waitThreads :
               thread[call[c].thread].waitThreads[i] = Node(c)
        \/ due[c] # 0

JoinReturns(c) == pc[c] = "joining" /\ pc'[c] = "run" /\ born'[c] = born[c]
RightResult(c, t) ==
    \/ due[c] # 0 /\ (thread[t].result = due[c] \/ born[t] # call[c].born)
    \/ due[c] = 0 /\ seen.stray = 1

(* A wait is over only when the thread waited for has ended (or a stray     *)
(* wake-up ended it), and returns the exit code of that thread, although    *)
(* xtWaitForThread reads thread->result long after the end, when            *)
(* xtCreateThread may have given the structure away: that is the only way   *)
(* to another result.                                                       *)
JoinGetsExitCode == [][\A c \in Slots : JoinReturns(c) => RightResult(c, call[c].thread)]_vars

(* A termination makes runnable exactly what waits for that thread, never   *)
(* a thread that has ended or one that waits for another (process.c:186),   *)
(* and walks no freed node, as long as no thread is ended while it waits    *)
(* (its node stays behind) and none is ended twice (its list stays behind). *)
WakesItsWaiters == seen.misused = 0 =>
    /\ seen.stray = 0
    /\ seen.fault = 1 => \E p \in Processes : process[p].freed = 1

(* The process of the kernel is not ended with a program's last thread:     *)
(* its own counter starts at 0 and wraps around with the first end          *)
(* (process.c:200).  The one way to it is a structure that xtCreateThread   *)
(* gives to a kernel thread while the end of its user thread is between     *)
(* counting down and testing (process.c:200-205), where thread->process is  *)
(* read again.                                                              *)
KernelOutlivesPrograms == \A c \in Slots :
    pc[c] = "entering" /\ call[c].process = KernelProcess => born[call[c].thread] # call[c].born

(* When the memory of a process is released (process.c:249), the threads    *)
(* its loop has passed have ended and none of them runs.                    *)
FreedThreadsEnded ==
    \A c \in Listed : c = current /\ process[call[c].process].freed = 1 /\ pc[c] = "teardown" =>
        \A i \in DOMAIN process[call[c].process].threads : i < call[c].pos =>
            LET t == process[call[c].process].threads[i] IN Ended(t) \/ born[t] > 1

(* The thread structures: who waits is listed where it will be found        *)
(* (process.c:420), and who was freed had ended (process.c:250); the        *)
(* counter of live threads stays within what its wrap-around gives.         *)
ThreadsInv == TypeOK /\ SleeperIsListed /\ FreedThreadsEnded

-----------------------------------------------------------------------------
(***************************************************************************)
(* What makes these properties inductive.                                  *)
(***************************************************************************)
OwnThreads(c) == process[call[c].process].threads

(* A slot is on the scheduler's list once a thread has lived in it, and the *)
(* process of a thread has threads: xtCreateThread puts it on both lists    *)
(* (process.c:489-524), and from neither is anything ever removed.          *)
SlotOK(t) ==
    /\ t \in Listed <=> born[t] # 0
    /\ born[t] <= seen.created
    /\ t \notin Listed => pc[t] = "run" /\ thread[t].waitThreads = <<>>
    /\ process[thread[t].process].threads # <<>>

(* The counter of the kernel's process starts at 0 and wraps around. *)
SlotsInv ==
    /\ \A t \in Slots : SlotOK(t)
    /\ process[KernelProcess].threads # <<>>
    /\ process[KernelProcess].activeThreads \in {0, Wrapped}

(* The thread of an entry of a process's list is of that process, and the   *)
(* one of a node of waitThreads a kernel thread, until the slot is reused.  *)
EntryOf(p, t) == t \in Listed /\ (born[t] = 1 => thread[t].process = p)

EntriesInv ==
    /\ \A p \in Processes : \A i \in DOMAIN process[p].threads : EntryOf(p, process[p].threads[i])
    /\ \A t \in Slots : \A i \in DOMAIN thread[t].waitThreads :
          EntryOf(KernelProcess, thread[t].waitThreads[i].thread)

(* The locals of the operations under way, and what the loop of             *)
(* xtTerminateProcess has passed, be it the only one for its process or not *)
(* (the flag is tested and set in two steps).                               *)
Passed(c, t) == t = c \/ Ended(t) \/ born[t] > 1

CallOK(c) ==
    /\ pc[c] # "run" => call[c].thread \in Listed /\ call[c].born \in 1..born[call[c].thread]
    /\ InWait(c) => call[c].thread # c
    /\ pc[c] # "run" /\ ~InWait(c) => call[c].code \in Codes
    /\ call[c].pos <= Len(OwnThreads(c)) + 1
    /\ call[c].over = 0 => call[c].pos <= Len(OwnThreads(c))
    /\ call[c].process # KernelProcess =>
          \A i \in 1..(call[c].pos - 1) : Passed(c, OwnThreads(c)[i])

(* While the structure holds the thread that is being ended, one of the     *)
(* kernel's process has wrapped the counter around before it is tested.     *)
(* The loop runs for another process than the kernel's, or all is lost.     *)
SameThread(c) == born[call[c].thread] = call[c].born
KernelThread(c) == ProcessOf(c) = KernelProcess

CountOK(c) ==
    /\ pc[c] = "loaded" /\ call[c].target = KernelProcess => call[c].left \in {0, Wrapped}
    /\ pc[c] = "loaded" /\ SameThread(c) => ProcessOf(c) = call[c].target
    /\ pc[c] = "stored" /\ SameThread(c) /\ KernelThread(c) =>
          process[KernelProcess].activeThreads = Wrapped
    /\ pc[c] = "testing" /\ SameThread(c) => ~KernelThread(c)
    /\ pc[c] = "entering" /\ SameThread(c) => call[c].process # KernelProcess
    /\ pc[c] \in {"entering", "teardown", "torn"} => call[c].inside = 1
    /\ Sound /\ pc[c] # "entering" /\ call[c].inside = 1 => call[c].process # KernelProcess

CallsInv == \A c \in Slots : CallOK(c) /\ CountOK(c)

(* A waiter and the thread it waits for: due is the result of that thread   *)
(* as long as it is the same thread; and unless somebody was woken by       *)
(* mistake, a waiter is made runnable with its due, and without one it is   *)
(* on the list of a live thread.                                            *)
IsListed(u, t) == \E i \in DOMAIN thread[t].waitThreads : thread[t].waitThreads[i] = Node(u)

WaiterOK(u, t) ==
    /\ due[u] # 0 /\ born[t] = call[u].born =>
          thread[t].result = due[u] /\ (seen.stray = 0 => Ended(t))
    /\ seen.stray = 0 /\ pc[u] = "joining" /\ thread[u].state = "RUN" => due[u] # 0
    /\ seen.stray = 0 /\ due[u] = 0 /\ born[t] = 1 => ~Ended(t) /\ IsListed(u, t)

WaitersInv == \A u \in Slots : InWait(u) => WaiterOK(u, call[u].thread)

(* Without misuse, the list of a thread that may still be ended (it has not *)
(* ended, or is on the processor and ends with its process) holds only      *)
(* nodes of live threads that wait for it.                                  *)
NodeOK(node, t) == node.freed = 0 /\ Joins(node.thread, t) /\ ~Ended(node.thread)

NodesInv == Sound /\ seen.misused = 0 => \A t \in Slots : ~Ended(t) \/ t = current =>
    \A i \in DOMAIN thread[t].waitThreads : NodeOK(thread[t].waitThreads[i], t)

FreedInv == Sound => \A p \in Processes : process[p].freed = 0

(* The inductive invariant of process.c. *)
ProcessInv ==
    /\ TypeOK /\ SlotsInv /\ EntriesInv /\ CallsInv /\ WaitersInv /\ NodesInv
    /\ FreedInv /\ WakesItsWaiters /\ FreedThreadsEnded
=============================================================================
