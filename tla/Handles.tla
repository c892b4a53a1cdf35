------------------------------- MODULE Handles ------------------------------
(***************************************************************************)
(* The handles of processes (xtkernel/process.c) and the system calls that *)
(* make and use them (xtkernel/user.c, arch/x86_64/syscall.c).             *)
(*                                                                         *)
(* A process keeps its descriptors in a tree of tables, HANDLE_LEVELS deep *)
(* with HANDLE_ENTRIES entries each.  A table is the sequence of indices   *)
(* that leads to it; a descriptor belongs to a slot, the sequence of all   *)
(* its indices.  System calls run with interrupts enabled: the search for  *)
(* a free handle and its use are separate steps.  xtUserCloseHandle does   *)
(* nothing and is in no table, so no handle is ever given back.            *)
(***************************************************************************)
EXTENDS Integers, Sequences, FiniteSets, SequencesExt, FiniteSetsExt

CONSTANTS
    HANDLE_LEVELS, HANDLE_ENTRIES,
    HandleBits,     \* the argument of sign_ext, 35 in the code: more than any search finds
    Chosen,         \* the handles that programs choose themselves
    Callers,        \* [threads -> processes]: the threads that make system calls
    MaxCopies,      \* bound on the handles that are duplicated
    MaxObjects      \* bound on the pipes, processes and threads that are made

ASSUME HandlesAssumption ==
    /\ HANDLE_LEVELS \in Nat \ {0} /\ HANDLE_ENTRIES \in Nat \ {0, 1}
    /\ HandleBits \in Nat \ {0} /\ MaxObjects \in Nat /\ MaxCopies \in Nat

Threads == DOMAIN Callers
Processes == {1, 2}             \* the first program, and a process it may create
STDIN == 0
STDOUT == 1
STDERR == 2
CURRENT_PROCESS == -1
Handles == 0..(HANDLE_ENTRIES ^ HANDLE_LEVELS - 1)
Arguments == Handles \cup {CURRENT_PROCESS, 2 ^ (HandleBits - 1), 2 ^ HandleBits}

Null == [type |-> "none", access |-> {}, desc |-> 0]
Paths == SeqOf(0..(HANDLE_ENTRIES - 1), HANDLE_LEVELS)
Tables == SeqOf(0..(HANDLE_ENTRIES - 1), HANDLE_LEVELS - 1)

VARIABLES
    tables,         \* the tables of each process's tree
    entry,          \* the descriptor of each handle: type, access, desc
    copied,         \* the number of duplicates made
    made,           \* the number of objects made; object 0 is the serial device
    child,          \* 1 when process 2 exists, 2 when a program runs in it
    call,           \* the system call of each thread: op, step, its object, the handle found
    last            \* history: the handles a thread's last xtUserCreatePipe has returned

vars == <<tables, entry, copied, made, child, call, last>>

NoCall == [op |-> "none", object |-> 0, handle |-> 0, found |-> 0, taken |-> 0, first |-> 0]
Unfound == 0
Found == 1
NotFound == 2

Types == {"FILE", "PROCESS", "THREAD"}
Descriptor == [type : Types, access : SUBSET {"R", "W"}, desc : 0..MaxObjects] \cup {Null}

TypeOK ==
    /\ tables \in [Processes -> SUBSET Tables]
    /\ entry \in [Processes -> [Handles -> Descriptor]]
    /\ \A p \in Processes, h \in Handles : entry[p][h] # Null => <<>> \in tables[p]
    /\ made \in 0..MaxObjects /\ copied \in 0..MaxCopies /\ child \in 0..2
    /\ \A t \in Threads : call[t].handle \in Handles

-----------------------------------------------------------------------------
(* The indices of a handle, the highest level first; higher bits are lost. *)
Shift(n) == HANDLE_ENTRIES ^ n
Index(h, level) == (h \div Shift(level)) % HANDLE_ENTRIES
Indices(h) == [i \in 1..HANDLE_LEVELS |-> Index(h, HANDLE_LEVELS - i)]
ValueOf == [path \in Paths |-> FoldLeft(LAMBDA v, i : v * HANDLE_ENTRIES + i, 0, path)]
Value(path) == ValueOf[path]
Unshifted(path) == Value(path)
Lowest(path) == Value(path) * Shift(HANDLE_LEVELS - Len(path))

(* (h XOR m) - m for m = 2^(HandleBits - 1): a handle is its own extension, *)
(* and accepted, when its bit HandleBits - 1 is clear, whatever is above it. *)
sign_ext(h) == IF (h \div 2 ^ (HandleBits - 1)) % 2 = 0 THEN h ELSE h - 2 ^ HandleBits
Accepted(h) == h = sign_ext(h)

(***************************************************************************)
(* xtResolveHandle with create: the tables on the way to the slot, which   *)
(* is the entry of a handle of as many bits as the tree has.               *)
(***************************************************************************)
Created(h) == {SubSeq(Indices(h), 1, n) : n \in 0..(HANDLE_LEVELS - 1)}
SlotOf == [h \in Arguments |-> Value(Indices(h))]
Slot(h) == SlotOf[h]

xtGetHandle(p, h) == IF Accepted(h) THEN entry[p][Slot(h)] ELSE Null

(***************************************************************************)
(* find_free_recursive.  A branch whose answer is 0 is passed over; a leaf *)
(* that is full answers -1, which is not 0 and goes straight to the top.   *)
(***************************************************************************)
None == -1
IsSkipped(answer) == answer = 0

Leaf(p, path) ==
    LET free == {i \in 0..(HANDLE_ENTRIES - 1) : entry[p][Value(Append(path, i))] = Null}
    IN  IF free = {} THEN None ELSE Value(Append(path, Min(free)))

RECURSIVE find_free_recursive(_, _)
find_free_recursive(p, path) ==
    LET Below(i) == Append(path, i)
        Answer(i) == IF Below(i) \notin tables[p] THEN Lowest(Below(i))
                     ELSE find_free_recursive(p, Below(i))
        ends == {i \in 0..(HANDLE_ENTRIES - 1) :
                    Below(i) \notin tables[p] \/ ~IsSkipped(Answer(i))}
    IN  CASE path \notin tables[p] -> Lowest(path)
          [] path \in tables[p] /\ Len(path) = HANDLE_LEVELS - 1 -> Leaf(p, path)
          [] OTHER -> IF ends = {} THEN None ELSE Answer(Min(ends))

xtFindFreeHandle(p) == find_free_recursive(p, <<>>)

(***************************************************************************)
(* xtDuplicateHandle: the slot is overwritten, whatever it held.           *)
(***************************************************************************)
Install(p, h, d) ==
    /\ tables' = [tables EXCEPT ![p] = @ \cup Created(h)]
    /\ entry' = [entry EXCEPT ![p][Slot(h)] = d]

(* For the properties: the other threads of p that have found h. *)
OthersTold(t, p, h) ==
    [u \in Threads |->
        IF u # t /\ Callers[u] = p /\ call[u].found = Found /\ call[u].handle = Slot(h)
        THEN [call[u] EXCEPT !.taken = 1] ELSE call[u]]

-----------------------------------------------------------------------------
(* waitThread of main.c gives the first program its three handles.         *)
Serial(access) == [type |-> "FILE", access |-> access, desc |-> 0]

Init ==
    /\ tables = [p \in Processes |-> IF p = 1 THEN UNION {Created(h) : h \in {STDIN, STDOUT, STDERR}} ELSE {}]
    /\ entry = [p \in Processes |-> [h \in Handles |->
                  CASE p = 1 /\ h = STDIN -> Serial({"R"})
                    [] p = 1 /\ h = STDOUT -> Serial({"R", "W"})
                    [] p = 1 /\ h = STDERR -> Serial({"W"})
                    [] OTHER -> Null]]
    /\ copied = 0
    /\ made = 0
    /\ child = 0
    /\ call = [t \in Threads |-> NoCall]
    /\ last = [t \in Threads |-> <<>>]

Ready(t) == call[t].op = "none" /\ (Callers[t] = 2 => child = 2)

(* The process an argument names, 0 when the call returns an error.        *)
ProcessOf(t, h) ==
    LET d == xtGetHandle(Callers[t], h) IN
    CASE h = CURRENT_PROCESS -> Callers[t]
      [] h # CURRENT_PROCESS /\ d.type = "PROCESS" -> 2
      [] OTHER -> 0

WithoutSearch(op) == [NoCall EXCEPT !.op = op, !.object = made + 1, !.found = Found]
Started(op) == [NoCall EXCEPT !.op = op, !.object = made + 1]

Enter(t, op) ==
    /\ made < MaxObjects
    /\ made' = made + 1
    /\ call' = [call EXCEPT ![t] = Started(op)]

(* xtUserCreatePipe, up to the search for the first handle.                *)
xtUserCreatePipe(t) ==
    /\ Ready(t) /\ Enter(t, "write")
    /\ UNCHANGED <<tables, entry, copied, child, last>>

(* xtUserCreateProcess; the parent is looked up but makes no difference.   *)
xtUserCreateProcess(t, parent) ==
    /\ Ready(t) /\ ProcessOf(t, parent) # 0
    /\ child = 0 /\ child' = 1
    /\ Enter(t, "process")
    /\ UNCHANGED <<tables, entry, copied, last>>

(* xtUserExecuteProgram: xtExecuteProgram (module Loader) makes a thread.  *)
xtUserExecuteProgram(t, target) ==
    /\ Ready(t) /\ ProcessOf(t, target) # 0
    /\ child' = IF ProcessOf(t, target) = 2 THEN 2 ELSE child
    /\ Enter(t, "thread")
    /\ UNCHANGED <<tables, entry, copied, last>>

(***************************************************************************)
(* The search: only xtUserCreateProcess returns its error, the others go   *)
(* on with the 0 that their variable was initialised to.                   *)
(***************************************************************************)
Search(t) ==
    LET h == xtFindFreeHandle(Callers[t]) IN
    /\ call[t].op # "none" /\ call[t].found = Unfound
    /\ call' = [call EXCEPT ![t] =
                  IF h = None /\ call[t].op = "process" THEN NoCall
                  ELSE [@ EXCEPT !.found = IF h = None THEN NotFound ELSE Found,
                                 !.handle = IF h = None THEN 0 ELSE h]]
    /\ UNCHANGED <<tables, entry, copied, made, child, last>>

Result(c) ==
    CASE c.op = "write" -> [type |-> "FILE", access |-> {"W"}, desc |-> c.object]
      [] c.op = "read" -> [type |-> "FILE", access |-> {"R"}, desc |-> c.object]
      [] c.op = "process" -> [type |-> "PROCESS", access |-> {}, desc |-> c.object]
      [] c.op = "thread" -> [type |-> "THREAD", access |-> {}, desc |-> c.object]

NextCall(c) == IF c.op = "write" THEN [NoCall EXCEPT !.op = "read", !.object = c.object, !.first = c.handle]
               ELSE NoCall

Returned(c) == <<c.first, c.handle>>

(* The second half: the descriptor, and for a pipe the search once more.   *)
Finish(t) ==
    LET c == call[t] IN
    /\ c.found # Unfound
    /\ Install(Callers[t], c.handle, Result(c))
    /\ call' = [OthersTold(t, Callers[t], c.handle) EXCEPT ![t] = NextCall(c)]
    /\ last' = IF c.op = "read" THEN [last EXCEPT ![t] = Returned(c)] ELSE last
    /\ UNCHANGED <<copied, made, child>>

(***************************************************************************)
(* xtUserDuplicateHandle(handle, processHandle, toSetHandle), the one call *)
(* that chooses a handle: it may replace a descriptor.                     *)
(***************************************************************************)
xtUserDuplicateHandle(t, h, target, to) ==
    LET d == xtGetHandle(Callers[t], h)
        p == ProcessOf(t, target)
    IN
    /\ copied < MaxCopies /\ copied' = copied + 1
    /\ Ready(t) /\ p # 0 /\ d # Null /\ Accepted(to)
    /\ Install(p, to, d)
    /\ call' = OthersTold(t, p, to)
    /\ UNCHANGED <<made, child, last>>

-----------------------------------------------------------------------------
Next ==
    \E t \in Threads :
        \/ xtUserCreatePipe(t)
        \/ \E h \in Arguments : xtUserCreateProcess(t, h)
        \/ \E h \in Arguments : xtUserExecuteProgram(t, h)
        \/ Search(t)
        \/ Finish(t)
        \/ \E h, target \in Arguments, to \in Chosen : xtUserDuplicateHandle(t, h, target, to)

Spec == Init /\ [][Next]_vars

-----------------------------------------------------------------------------
Used(p, h) == entry[p][h] # Null
LeafFull(p, h) == \A g \in Handles : g \div HANDLE_ENTRIES = h \div HANDLE_ENTRIES => Used(p, g)

(* xtFindFreeHandle finds a free handle, and the lowest one when handle 0   *)
(* is in use: a branch that answers 0 is passed over with all it holds      *)
(* (process.c:104).  It fails only when some leaf table is full, though     *)
(* other tables need not be (process.c:87, 107).                            *)
SearchFindsLowest ==
    \A p \in Processes : LET h == xtFindFreeHandle(p) IN
        IF h = None THEN \E g \in Handles : LeafFull(p, g)
        ELSE ~Used(p, h) /\ (Used(p, 0) => \A g \in Handles : g < h => Used(p, g))

(* A system call that makes an object gives it a handle nobody has, so that *)
(* no handle changes its meaning, unless the search has failed (and 0 is    *)
(* overwritten, user.c:133, 139, 225) or another thread of the process has  *)
(* put something there between the search and the descriptor.               *)
FreshHandle ==
    [][\A t \in Threads : call[t].found # Unfound /\ call'[t].found = Unfound =>
          \/ ~Used(Callers[t], call[t].handle)
          \/ call[t].found = NotFound
          \/ call[t].taken = 1]_vars

(* The ends of a pipe get two handles (user.c:133-143): the first is in the *)
(* table before the second is looked for, whatever other threads do in      *)
(* between.  Only when both searches fail are they the same, namely 0.      *)
PipeHasTwoEnds ==
    \A t \in Threads : last[t] # <<>> /\ last[t][1] = last[t][2] =>
        last[t][1] = 0 /\ \E g \in Handles : LeafFull(Callers[t], g)

(* The descriptor tables: what the search for a free handle finds           *)
(* (process.c:104), and that both ends of a pipe are reachable (user.c:132).*)
HandlesInv == TypeOK /\ SearchFindsLowest /\ PipeHasTwoEnds
=============================================================================
