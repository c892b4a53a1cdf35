-------------------------------- MODULE Pipe --------------------------------
(***************************************************************************)
(* The pipe of xtkernel/pipe.c: a ring buffer with a writing and a reading *)
(* end, and an event for each direction.                                   *)
(*                                                                         *)
(* A step is a stretch of code with interrupts disabled.  Bytes are        *)
(* numbered in the order in which they are written.  xtLockFile admits one *)
(* call of pipeWriteFile at a time and any number of pipeReadFile.  The    *)
(* events are flags here (module Event has their inside): a wait takes the *)
(* flag once it is set.  pipeCloseFile signals while it holds p->lock and  *)
(* xtSignalEvent returns with interrupts enabled, so the closing thread    *)
(* can be preempted there ("closing"); whoever then locks p->lock spins    *)
(* with interrupts disabled: `hung'.  xtCloseFile takes no lock of the     *)
(* file, so an end may be closed while calls on it are in progress, and    *)
(* the last close may free the pipe under them: a thread that then goes on *)
(* touches freed memory, and the model ends (`fault').  No pipe has        *)
(* XT_FILE_MODE_NONBLOCK: xtCreatePipe sets the flags and nothing changes  *)
(* them.                                                                   *)
(***************************************************************************)
EXTENDS Naturals, Sequences

CONSTANTS
    Readers, Writer,    \* the threads that call pipeReadFile, pipeWriteFile
    None,
    Size,               \* p->size
    MaxCount,           \* bound on the count of one call
    MaxBytes            \* bound on the bytes written altogether

ASSUME PipeAssumption ==
    /\ Size \in Nat \ {0}
    /\ MaxCount \in Nat /\ MaxBytes \in Nat
    /\ Writer \notin Readers /\ None \notin {"write", "read"}

Threads == Readers \cup {Writer}
Ends == {"write", "read"}

VARIABLES
    buffer, head, tail, lock, refCount,     \* XTPipeData
    closed,         \* the ends with p->writeClosed, p->readClosed
    event,          \* isSignaled of p->canReadEvent and p->canWriteEvent
    freed,          \* p and what it owns were given back to the heap
    pc,             \* where each thread is
    remaining,      \* the local variable of its call
    closing,        \* where the close of each end is
    hung,           \* TRUE when a thread spins for ever
    fault,          \* TRUE when a thread has touched the freed pipe
    cut,            \* history: the threads whose call was in progress when their end was closed
    passed,         \* history: the waiting readers whose wake-up another reader has taken
    written,        \* history: the bytes written so far
    received        \* history: the bytes read so far, in order

ring == <<buffer, head, tail>>
callVars == <<pc, remaining>>
notes == <<cut, passed>>
vars == <<ring, lock, refCount, closed, event, freed, callVars, closing, hung, fault, notes,
          written, received>>

Positions == 0..(Size - 1)

TypeOK ==
    /\ buffer \in [Positions -> 0..MaxBytes]
    /\ head \in Positions /\ tail \in Positions
    /\ lock \in Ends \cup {None}
    /\ refCount \in 0..2
    /\ closed \subseteq Ends
    /\ event \in [{"canRead", "canWrite"} -> BOOLEAN]
    /\ freed \in BOOLEAN
    /\ pc \in [Threads -> {"idle", "loop", "wait", "signal"}]
    /\ remaining \in [Threads -> 0..MaxCount]
    /\ closing \in [Ends -> {"open", "closing", "last", "closed"}]
    /\ hung \in BOOLEAN /\ fault \in BOOLEAN
    /\ cut \subseteq Threads /\ passed \subseteq Readers
    /\ written \in 0..MaxBytes
    /\ received \in Seq(1..MaxBytes)

(* xtCreatePipe. *)
Init ==
    /\ buffer = [i \in Positions |-> 0]
    /\ head = 0 /\ tail = 0
    /\ lock = None
    /\ refCount = 2
    /\ closed = {}
    /\ event = [e \in {"canRead", "canWrite"} |-> FALSE]
    /\ freed = FALSE
    /\ pc = [t \in Threads |-> "idle"]
    /\ remaining = [t \in Threads |-> 0]
    /\ closing = [e \in Ends |-> "open"]
    /\ hung = FALSE /\ fault = FALSE
    /\ cut = {} /\ passed = {}
    /\ written = 0
    /\ received = <<>>

-----------------------------------------------------------------------------
pipeUsed == IF head >= tail THEN head - tail ELSE Size - (tail - head)
pipeFree == Size - pipeUsed

Smaller(m, n) == IF m < n THEN m ELSE n

Goto(t, l) == pc' = [pc EXCEPT ![t] = l]

Running == ~hung /\ ~fault
Inside(t, l) == Running /\ ~freed /\ pc[t] = l

EndOf(t) == IF t = Writer THEN "write" ELSE "read"
EventOf(t) == IF t = Writer THEN "canWrite" ELSE "canRead"
OtherEvent(t) == IF t = Writer THEN "canRead" ELSE "canWrite"

(***************************************************************************)
(* A call on an end that its owner has not closed, nor begun to close.     *)
(***************************************************************************)
Call(t, count) ==
    /\ Running
    /\ pc[t] = "idle"
    /\ closing[EndOf(t)] = "open"
    /\ t = Writer => written + count <= MaxBytes
    /\ remaining' = [remaining EXCEPT ![t] = count]
    /\ Goto(t, "loop")
    /\ passed' = passed \ {t}
    /\ UNCHANGED <<ring, lock, refCount, closed, event, freed, closing, hung, fault, cut, written, received>>

(* xtLockSpinlock(&p->lock) while a preempted pipeCloseFile holds it. *)
Spin ==
    /\ lock # None
    /\ hung' = TRUE
    /\ UNCHANGED <<ring, lock, refCount, closed, event, freed, callVars, closing, fault, notes, written, received>>

(***************************************************************************)
(* pipeWriteToBuffer and pipeReadFromBuffer.  firstPart bytes go up to the *)
(* end of the buffer, the others to its beginning.                         *)
(***************************************************************************)
FirstPartOneMore(from, count) == Smaller(Size - from + 1, count)
FirstPart(from, count) == Smaller(Size - from, count)

pipeWriteToBuffer(count) == LET first == FirstPart(head, count) IN
    /\ buffer' = [i \in Positions |->
          IF i >= head /\ i < head + first THEN written + 1 + (i - head)
          ELSE IF i < count - first THEN written + 1 + first + i
          ELSE buffer[i]]
    /\ head' = (head + count) % Size
    /\ written' = written + count

Advance(count) == (tail + count) % Size

TakenSwapped(first, count) == [k \in 1..count |->
    IF k <= count - first THEN buffer[k - 1] ELSE buffer[tail + k - (count - first) - 1]]
Taken(first, count) == [k \in 1..count |->
    IF k <= first THEN buffer[tail + k - 1] ELSE buffer[k - first - 1]]

pipeReadFromBuffer(count) ==
    /\ received' = received \o Taken(FirstPart(tail, count), count)
    /\ tail' = Advance(count)

-----------------------------------------------------------------------------
(***************************************************************************)
(* One iteration of pipeWriteFile.  The test for a full buffer leads to    *)
(* the wait for canWriteEvent, as the code has it.                         *)
(***************************************************************************)
WithinFree(count) == Smaller(count, pipeFree)

pipeWriteFile ==
    /\ Inside(Writer, "loop")
    /\ \/ Spin
       \/ /\ lock = None
          /\ closed # {}                                \* XT_BROKEN_PIPE
          /\ Goto(Writer, "idle")
          /\ UNCHANGED <<ring, remaining, written>>
          /\ UNCHANGED <<lock, refCount, closed, event, freed, closing, hung, fault, notes, received>>
       \/ /\ lock = None
          /\ closed = {}
          /\ pipeWriteToBuffer(WithinFree(remaining[Writer]))
          /\ remaining' = [remaining EXCEPT ![Writer] = @ - WithinFree(@)]
          /\ Goto(Writer, IF pipeFree = 0 THEN "wait" ELSE "signal")
          /\ UNCHANGED <<tail, lock, refCount, closed, event, freed, closing, hung, fault, notes, received>>

(* One iteration of pipeReadFile. *)
pipeReadFile(t) ==
    /\ Inside(t, "loop")
    /\ \/ Spin
       \/ /\ lock = None
          /\ pipeUsed > 0 /\ "read" \notin closed
          /\ pipeReadFromBuffer(Smaller(remaining[t], pipeUsed))
          /\ Goto(t, "signal")
          /\ remaining' = [remaining EXCEPT ![t] = 0]
          /\ UNCHANGED <<buffer, head, lock, refCount, closed, event, freed, closing, hung, fault, notes, written>>
       \/ /\ lock = None
          /\ pipeUsed = 0 \/ "read" \in closed
          /\ Goto(t, IF closed # {} THEN "idle" ELSE "wait")
          /\ UNCHANGED <<ring, lock, refCount, closed, event, freed, remaining, closing, hung, fault, notes, written, received>>

(* xtWaitForEvents on the event of the end, and the loop's continue. *)
Wait(t) ==
    /\ Inside(t, "wait")
    /\ event[EventOf(t)]
    /\ event' = [event EXCEPT ![EventOf(t)] = FALSE]
    /\ Goto(t, "loop")
    /\ passed' = IF t = Writer THEN passed ELSE passed \cup {u \in Readers \ {t} : pc[u] = "wait"}
    /\ UNCHANGED <<ring, lock, refCount, closed, freed, remaining, closing, hung, fault, cut, written, received>>

(* xtSignalEvent for the other end, after p->lock is released. *)
SignalSame(t) == event' = [event EXCEPT ![EventOf(t)] = TRUE]
SignalOther(t) == event' = [event EXCEPT ![OtherEvent(t)] = TRUE]

Signal(t) ==
    /\ Inside(t, "signal")
    /\ SignalOther(t)
    /\ Goto(t, IF remaining[t] = 0 THEN "idle" ELSE "loop")
    /\ UNCHANGED <<ring, lock, refCount, closed, freed, remaining, closing, hung, fault, notes, written, received>>

-----------------------------------------------------------------------------
(***************************************************************************)
(* A thread inside a call goes on although the pipe has been freed.        *)
(***************************************************************************)
Touch(t) ==
    /\ Running /\ freed
    /\ pc[t] # "idle"
    /\ pc[t] = "wait" => event[EventOf(t)]
    /\ fault' = TRUE
    /\ UNCHANGED <<ring, lock, refCount, closed, event, freed, callVars, closing, hung, notes, written, received>>

(***************************************************************************)
(* pipeCloseFile, once for each end, with or without calls in progress on  *)
(* it: mark and signal; count down and unlock; the last one frees.         *)
(***************************************************************************)
pipeCloseFile(e) ==
    /\ Running
    /\ closing[e] = "open"
    /\ \/ Spin
       \/ /\ lock = None
          /\ closed' = closed \cup {e}
          /\ event' = [event EXCEPT ![IF e = "write" THEN "canRead" ELSE "canWrite"] = TRUE]
          /\ lock' = e
          /\ closing' = [closing EXCEPT ![e] = "closing"]
          /\ cut' = cut \cup {t \in Threads : EndOf(t) = e /\ pc[t] # "idle"}
          /\ UNCHANGED <<ring, refCount, freed, callVars, hung, fault, passed, written, received>>

LastIsFirst(n) == n <= 1
IsLast(n) == n = 0

CountDown(e) ==
    /\ Running
    /\ closing[e] = "closing"
    /\ refCount' = refCount - 1
    /\ closing' = [closing EXCEPT ![e] = IF IsLast(refCount - 1) THEN "last" ELSE "closed"]
    /\ lock' = None
    /\ UNCHANGED <<ring, closed, event, freed, callVars, hung, fault, notes, written, received>>

Free(e) ==
    /\ Running
    /\ closing[e] = "last"
    /\ freed' = TRUE
    /\ closing' = [closing EXCEPT ![e] = "closed"]
    /\ UNCHANGED <<ring, lock, refCount, closed, event, callVars, hung, fault, notes, written, received>>

-----------------------------------------------------------------------------
Step(t) == (IF t = Writer THEN pipeWriteFile ELSE pipeReadFile(t)) \/ Wait(t) \/ Signal(t) \/ Touch(t)

Next ==
    \/ \E t \in Threads : Step(t)
    \/ \E t \in Threads, count \in 1..MaxCount : Call(t, count)
    \/ \E e \in Ends : pipeCloseFile(e) \/ CountDown(e) \/ Free(e)

Spec == Init /\ [][Next]_vars

(***************************************************************************)
(* A thread inside a call goes on: it stays runnable while it waits (see   *)
(* Event), and the scheduler reaches every runnable thread.                *)
(***************************************************************************)
FairSpec ==
    /\ Spec
    /\ \A t \in Threads : WF_vars(Step(t))
    /\ \A e \in Ends : WF_vars(CountDown(e)) /\ WF_vars(Free(e))

-----------------------------------------------------------------------------
(***************************************************************************)
(* The ring from tail to head holds the last bytes written, in order,      *)
(* across the wrap-around and whatever the sizes of the calls.             *)
(***************************************************************************)
RingHoldsLastWritten == \A k \in 0..(pipeUsed - 1) :
    buffer[(tail + k) % Size] = written - pipeUsed + 1 + k

(***************************************************************************)
(* No byte is read twice, and none before one written earlier.             *)
(***************************************************************************)
ReceivedInOrder == \A i \in 1..(Len(received) - 1) : received[i] < received[i + 1]

(***************************************************************************)
(* The reference count keeps the pipe until both ends are closed, whatever *)
(* the preempted closes and the calls do meanwhile: it is never freed      *)
(* under a call whose own end is open.  The calls it can be freed under,   *)
(* and that touch it afterwards, are those that were in progress when      *)
(* their own end was closed (pipe.c:170-196; nothing in the code waits for *)
(* them).                                                                  *)
(***************************************************************************)
FreedUnderCutCallsOnly ==
    /\ freed => \A e \in Ends : closing[e] = "closed"
    /\ freed => \A t \in Threads : pc[t] # "idle" => t \in cut
    /\ fault => \E t \in cut : pc[t] # "idle"

(***************************************************************************)
(* A read comes back when there is something to read, or when the writing  *)
(* end is closed and the reader is due its EOF (pipe.c:107, 179).  One     *)
(* signal wakes one reader, and a reader that leaves bytes behind, or its  *)
(* EOF, signals nobody (pipe.c:160): a reader that waits beside others may *)
(* stay when one of them has taken the wake-up.                            *)
(***************************************************************************)
Reading(t) == pc[t] \in {"loop", "wait"}
Due == pipeUsed > 0 \/ "write" \in closed
ReadReturns == \A t \in Readers :
    (Reading(t) /\ Due) ~> (~Reading(t) \/ ~Due \/ t \in passed \/ hung \/ fault)

(***************************************************************************)
(* Bytes are lost only by the buffer: a write that fills it makes it look  *)
(* empty (pipe.c:27, 47), and everything that is in it then is lost, never *)
(* a part of it.                                                           *)
(***************************************************************************)
LostInWholeBuffers == (written - Len(received) - pipeUsed) % Size = 0

(* The ring of pipeWriteFile and pipeReadFile: head and tail delimit the bytes  *)
(* written last, wrap-around included, and what is missing between the two  *)
(* ends of the pipe was lost in whole buffers (pipe.c:27, 40).              *)
RingInv == TypeOK /\ LostInWholeBuffers /\ RingHoldsLastWritten

-----------------------------------------------------------------------------
(***************************************************************************)
(* What makes the properties above inductive: what was read lies before    *)
(* the bytes in the ring; a write in progress stays within MaxBytes; and   *)
(* the close of the two ends, who holds p->lock, what refCount counts, and *)
(* that only one of the ends can be the last.                              *)
(***************************************************************************)
ReadIsBehind ==
    /\ pipeUsed <= written
    /\ \A i \in 1..Len(received) : received[i] <= written - pipeUsed

WritesWithinBound == pc[Writer] # "idle" => written + remaining[Writer] <= MaxBytes

Counted(e) == IF closing[e] \in {"open", "closing"} THEN 1 ELSE 0

CloseProtocol ==
    /\ \A e \in Ends : lock = e <=> closing[e] = "closing"
    /\ \A t \in Threads : closing[EndOf(t)] # "open" /\ pc[t] # "idle" => t \in cut
    /\ refCount = Counted("write") + Counted("read")
    /\ \A e, f \in Ends : closing[e] = "last" /\ e # f => closing[f] = "closed"
    /\ freed => \A e \in Ends : closing[e] = "closed"
    /\ fault => \E t \in cut : pc[t] # "idle"

PipeInv == RingInv /\ ReceivedInOrder /\ ReadIsBehind /\ WritesWithinBound /\ CloseProtocol
=============================================================================
