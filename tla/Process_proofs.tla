--------------------------- MODULE Process_proofs ---------------------------
(***************************************************************************)
(* Threads and processes, for every number of structures, of threads that  *)
(* live in them, of processes, and whatever activeThreads starts as.       *)
(* ProcessInv is the inductive invariant.  A step of it is one of          *)
(*   - the end of a thread (three actions share Terminate), and what comes *)
(*     after it, step by step;                                             *)
(*   - the reuse of a structure, xtCreateThread;                           *)
(*   - a step of the waiter, or of the loop of xtTerminateProcess.         *)
(***************************************************************************)
EXTENDS Process, WellFoundedInduction, TLAPS

-----------------------------------------------------------------------------
(* The smallest of some numbers is one of them. *)
LEMMA LeastOfNaturals ==
    ASSUME NEW D, D \subseteq Nat, D # {}
    PROVE  Min(D) \in D /\ \A m \in D : Min(D) <= m
  <1>1. PICK d \in D : \A m \in D : ~(<<m, d>> \in OpToRel(<, Nat))
    BY NatLessThanWellFounded, WFMin, Zenon
  <1>2. \A m \in D : ~(m < d)
    BY <1>1 DEF OpToRel
  <1>3. \A m \in D : d <= m
    BY <1>2
  <1> QED
    BY <1>3 DEF Min

(* The largest of some positive numbers below a bound is one of them. *)
LEMMA LargestOfNaturals ==
    ASSUME NEW n \in Nat, NEW D, D \subseteq 1..n, D # {}
    PROVE  Max(D) \in D
  <1> DEFINE U == {k \in 0..n : \A m \in D : m <= k}
  <1>1. n \in U /\ U \subseteq Nat
    OBVIOUS
  <1>2. PICK k \in U : \A m \in U : k <= m
    BY <1>1, LeastOfNaturals
  <1>3. k \in D
    <2> SUFFICES ASSUME k \notin D PROVE FALSE
      OBVIOUS
    <2>1. \A m \in D : m <= k - 1
      BY <1>2
    <2>2. PICK m \in D : m <= k - 1
      BY <2>1
    <2>3. k - 1 \in 0..n
      BY <1>2, <2>2
    <2> QED
      BY <1>2, <2>1, <2>3
  <1> QED
    BY <1>2, <1>3 DEF Max

(* The constants, and the slots of the scheduler's list. *)
LEMMA Basics ==
    ASSUME TypeOK
    PROVE  /\ count \in Nat \ {0} /\ Slots = 1..MaxThreads /\ Listed \subseteq Slots
           /\ \A t \in Slots : t \in Nat /\ (t \in Listed <=> t <= count)
           /\ MaxThreads \in Nat \ {0} /\ MaxBorn \in Nat \ {0}
           /\ \A k \in Codes : k \in Nat \ {0}
           /\ NoThread \notin Slots
  BY ProcessAssumption DEF TypeOK, Slots, Listed, Codes, NoThread

(* A sequence with one more element. *)
LEMMA OneMore ==
    ASSUME NEW S, NEW s \in Seq(S), NEW x \in S
    PROVE  /\ Append(s, x) \in Seq(S) /\ Len(Append(s, x)) = Len(s) + 1
           /\ DOMAIN Append(s, x) = 1..(Len(s) + 1) /\ DOMAIN s = 1..Len(s) /\ Len(s) \in Nat
           /\ \A i \in 1..Len(s) : Append(s, x)[i] = s[i]
           /\ Append(s, x)[Len(s) + 1] = x
  OBVIOUS

(* Two sequences, one after the other. *)
LEMMA Concatenated ==
    ASSUME NEW S, NEW s \in Seq(S), NEW r \in Seq(S)
    PROVE  /\ s \o r \in Seq(S)
           /\ DOMAIN (s \o r) = 1..(Len(s) + Len(r))
           /\ \A i \in 1..(Len(s) + Len(r)) :
                 (s \o r)[i] = IF i <= Len(s) THEN s[i] ELSE r[i - Len(s)]
  OBVIOUS

(* What xtRemoveFromList leaves was there before. *)
LEMMA RemovedFrom ==
    ASSUME NEW S, NEW s \in Seq(S), NEW k \in Nat
    PROVE  /\ xtRemoveFromList(s, k) \in Seq(S)
           /\ \A i \in DOMAIN xtRemoveFromList(s, k) : \E j \in DOMAIN s : xtRemoveFromList(s, k)[i] = s[j]
  <1>1. CASE Victim(k) > Len(s)
    BY <1>1 DEF xtRemoveFromList
  <1>2. CASE ~(Victim(k) > Len(s))
    <2>1. PICK v \in 1..Len(s) : v = Victim(k)
      BY <1>2 DEF Victim
    <2> DEFINE front == SubSeq(s, 1, v - 1)
               rest == SubSeq(s, v + 1, Len(s))
    <2>2. /\ front \in Seq(S) /\ Len(front) = v - 1 /\ \A i \in 1..(v - 1) : front[i] = s[i]
      OBVIOUS
    <2>3. /\ rest \in Seq(S) /\ Len(rest) = Len(s) - v
          /\ \A i \in 1..(Len(s) - v) : rest[i] = s[v + i]
      OBVIOUS
    <2>4. xtRemoveFromList(s, k) = front \o rest
      BY <1>2, <2>1 DEF xtRemoveFromList, RemoveAt
    <2>5. Len(s) \in Nat /\ DOMAIN s = 1..Len(s)
      OBVIOUS
    <2> HIDE DEF front, rest
    <2>6. /\ front \o rest \in Seq(S)
          /\ DOMAIN (front \o rest) = 1..(Len(front) + Len(rest))
          /\ \A i \in 1..(Len(front) + Len(rest)) :
                (front \o rest)[i] = IF i <= Len(front) THEN front[i] ELSE rest[i - Len(front)]
      BY <2>2, <2>3, Concatenated
    <2>7. ASSUME NEW i \in 1..(Len(s) - 1)
          PROVE  \E j \in 1..Len(s) : (front \o rest)[i] = s[j]
      <3>1. CASE i <= v - 1
        <4>1. (front \o rest)[i] = s[i] /\ i \in 1..Len(s)
          BY <2>2, <2>3, <2>5, <2>6, <3>1
        <4> QED
          BY <4>1
      <3>2. CASE ~(i <= v - 1)
        <4>1. i - (v - 1) \in 1..(Len(s) - v)
          BY <2>5, <3>2
        <4>2. (front \o rest)[i] = rest[i - (v - 1)]
          BY <2>2, <2>3, <2>5, <2>6, <3>2
        <4>3. rest[i - (v - 1)] = s[i + 1] /\ i + 1 \in 1..Len(s)
          BY <2>3, <2>5, <4>1
        <4> QED
          BY <4>2, <4>3
      <3> QED
        BY <3>1, <3>2
    <2>8. Len(front) + Len(rest) = Len(s) - 1
      BY <2>2, <2>3, <2>5
    <2> QED
      BY <2>4, <2>5, <2>6, <2>7, <2>8
  <1> QED
    BY <1>1, <1>2

(* The waiter's node taken off: what is left was there, or is its freed node. *)
LEMMA TakenOff ==
    ASSUME NEW nodes \in Seq(NodeType), NEW c \in Slots
    PROVE  /\ TakeOff(nodes, c) \in Seq(NodeType)
           /\ \A i \in DOMAIN TakeOff(nodes, c) : \E j \in DOMAIN nodes :
                 /\ TakeOff(nodes, c)[i].thread = nodes[j].thread
                 /\ nodes[j] # Node(c) => TakeOff(nodes, c)[i] = nodes[j]
  <1> DEFINE mine == {i \in DOMAIN nodes : nodes[i] = Node(c)}
  <1>1. PICK k \in Nat : k = IF mine = {} THEN 0 ELSE Min(mine)
    <2>1. mine \subseteq Nat
      OBVIOUS
    <2> QED
      BY <2>1, LeastOfNaturals
  <1>2. PICK kept \in Seq(NodeType) : /\ kept = xtRemoveFromList(nodes, k)
                                      /\ \A i \in DOMAIN kept : \E j \in DOMAIN nodes : kept[i] = nodes[j]
    <2>1. /\ xtRemoveFromList(nodes, k) \in Seq(NodeType)
          /\ \A i \in DOMAIN xtRemoveFromList(nodes, k) :
                \E j \in DOMAIN nodes : xtRemoveFromList(nodes, k)[i] = nodes[j]
      BY RemovedFrom
    <2> QED
      BY <2>1
  <1>3. TakeOff(nodes, c) = [i \in DOMAIN kept |-> IF kept[i] = Node(c) THEN [kept[i] EXCEPT !.freed = 1] ELSE kept[i]]
    BY <1>1, <1>2 DEF TakeOff
  <1>4. \A i \in DOMAIN kept : kept[i] \in NodeType
    OBVIOUS
  <1>5. ASSUME NEW i \in DOMAIN kept
        PROVE  /\ TakeOff(nodes, c)[i] \in NodeType
               /\ TakeOff(nodes, c)[i].thread = kept[i].thread
               /\ kept[i] # Node(c) => TakeOff(nodes, c)[i] = kept[i]
    BY <1>3, <1>4, <1>5 DEF NodeType
  <1>6. TakeOff(nodes, c) \in Seq(NodeType)
    <2>1. DOMAIN kept = 1..Len(kept) /\ Len(kept) \in Nat
      OBVIOUS
    <2>2. TakeOff(nodes, c) \in [1..Len(kept) -> NodeType]
      BY <1>3, <1>5, <2>1
    <2> QED
      BY <2>1, <2>2
  <1>7. DOMAIN TakeOff(nodes, c) = DOMAIN kept
    BY <1>3
  <1> QED
    BY <1>2, <1>5, <1>6, <1>7

-----------------------------------------------------------------------------
(* The nodes of a list of waiters. *)
LEMMA NodeThreads ==
    ASSUME TypeOK, NEW t \in Slots, NEW i \in DOMAIN thread[t].waitThreads
    PROVE  thread[t].waitThreads[i] \in NodeType /\ thread[t].waitThreads[i].thread \in Slots
  <1>1. thread[t].waitThreads \in Seq(NodeType)
    BY DEF TypeOK, ThreadType
  <1>2. thread[t].waitThreads[i] \in NodeType
    BY <1>1
  <1> QED
    BY <1>2 DEF NodeType

(* What the end of a thread does to the structures: it has the code, and    *)
(* who is on its list runs.                                                 *)
LEMMA Terminated ==
    ASSUME TypeOK, NEW t \in Slots, NEW code \in Codes, NEW th, th = Terminate(t, code)
    PROVE  /\ th \in [Slots -> ThreadType]
           /\ \A u \in Slots : /\ th[u].waitThreads = thread[u].waitThreads
                               /\ th[u].process = thread[u].process
                               /\ u # t => th[u].result = thread[u].result
                               /\ u \in Woken(t) => th[u].state = "RUN"
                               /\ u \notin Woken(t) /\ u # t => th[u].state = thread[u].state
           /\ th[t].result = code
           /\ t \notin Woken(t) => th[t].state = "TERMINATED"
  <1>1. ASSUME NEW u \in Slots
        PROVE  /\ th[u] \in ThreadType
               /\ th[u].waitThreads = thread[u].waitThreads
               /\ th[u].process = thread[u].process
               /\ u # t => th[u].result = thread[u].result
               /\ u = t => th[u].result = code
               /\ u \in Woken(t) => th[u].state = "RUN"
               /\ u \notin Woken(t) /\ u # t => th[u].state = thread[u].state
               /\ u \notin Woken(t) /\ u = t => th[u].state = "TERMINATED"
    <2> DEFINE now == IF u = t THEN WithResult(t, code) ELSE thread[u]
    <2>1. thread[u] \in ThreadType
      BY DEF TypeOK
    <2>2. /\ now \in ThreadType
          /\ now.waitThreads = thread[u].waitThreads
          /\ now.process = thread[u].process
          /\ u # t => now = thread[u]
          /\ u = t => now.result = code /\ now.state = "TERMINATED"
      BY <2>1 DEF ThreadType, WithResult
    <2>3. th[u] = IF u \in Woken(t) THEN [now EXCEPT !.state = "RUN"] ELSE now
      BY DEF Terminate
    <2> HIDE DEF now
    <2> QED
      BY <2>2, <2>3 DEF ThreadType
  <1>2. th = [u \in Slots |-> th[u]]
    BY DEF Terminate
  <1> QED
    BY <1>1, <1>2

(* The lists of processes never get shorter, and the counter of the kernel  *)
(* that has wrapped around stays so.                                        *)
ListsGrow ==
    /\ process[KernelProcess].activeThreads = Wrapped => process'[KernelProcess].activeThreads = Wrapped
    /\ \A p \in Processes :
          /\ Len(process[p].threads) <= Len(process'[p].threads)
          /\ \A i \in 1..Len(process[p].threads) : process'[p].threads[i] = process[p].threads[i]

SameLists == \A p \in Processes : process'[p].threads = process[p].threads

(* A slot is given to another thread only by counting up. *)
Ages == \A t \in Listed :
    /\ t \in Listed' /\ born'[t] \in Nat /\ born'[t] >= born[t]
    /\ born'[t] = born[t] => thread'[t].process = thread[t].process

(* A user thread that has ended does not come back, except as another. *)
StaysEnded == \A t \in Slots : Ended(t) /\ born[t] = 1 /\ thread[t].process # KernelProcess =>
    Ended(t)' \/ born'[t] > 1

(* Nobody on a list of waiters is a user thread in its first life. *)
LEMMA WokenAreKernel ==
    ASSUME ProcessInv, NEW t \in Slots, NEW u \in Woken(t)
    PROVE  u \in Slots /\ EntryOf(KernelProcess, u)
  <1>1. PICK i \in DOMAIN thread[t].waitThreads : u = thread[t].waitThreads[i].thread
    BY DEF Woken
  <1>2. thread[t].waitThreads[i] \in NodeType
    BY DEF ProcessInv, TypeOK, ThreadType
  <1> QED
    BY <1>1, <1>2 DEF ProcessInv, EntriesInv, NodeType

(* The end of a thread brings no ended user thread back. *)
LEMMA EndingKeeps ==
    ASSUME ProcessInv, NEW t \in Slots, NEW code \in Codes,
           thread' = Terminate(t, code), born' = born, count' = count
    PROVE  Ages /\ StaysEnded
  <1> USE DEF ProcessInv
  <1>1. Ages
    <2>1. \A u \in Slots : thread'[u].process = thread[u].process
      BY Terminated
    <2>2. \A u \in Listed : u \in Slots /\ born[u] \in Nat
      BY Basics DEF TypeOK
    <2> QED
      BY <2>1, <2>2 DEF Ages, Listed
  <1>2. ASSUME NEW u \in Slots, Ended(u), born[u] = 1, thread[u].process # KernelProcess
        PROVE  Ended(u)'
    <2>1. u \notin Woken(t)
      BY <1>2, WokenAreKernel DEF EntryOf
    <2> QED
      BY <1>2, <2>1, Terminated DEF Ended
  <1> QED
    BY <1>1, <1>2 DEF StaysEnded

(* A step that gives no slot away and makes no ended thread runnable. *)
LEMMA NobodyReturns ==
    ASSUME ProcessInv, count' = count, born' = born,
           \A t \in Slots : /\ thread'[t].process = thread[t].process
                            /\ Ended(t) => thread'[t].state = "TERMINATED"
    PROVE  Ages /\ StaysEnded
  <1>1. \A t \in Listed : t \in Slots /\ born[t] \in Nat
    BY Basics DEF ProcessInv, TypeOK
  <1>2. Ages
    BY <1>1 DEF Ages, Listed
  <1>3. StaysEnded
    BY DEF StaysEnded, Ended
  <1> QED
    BY <1>2, <1>3

(* What the loop of xtTerminateProcess has passed stays behind it. *)
LEMMA PassedKept ==
    ASSUME ProcessInv, Ages, StaysEnded, NEW p \in Processes, p # KernelProcess,
           NEW c \in Slots, NEW t \in Slots, EntryOf(p, t), Passed(c, t)
    PROVE  t = c \/ Ended(t)' \/ born'[t] > 1
  <1> USE DEF ProcessInv
  <1>1. born[t] \in Nat \ {0}
    BY Basics DEF EntryOf, SlotsInv, SlotOK, TypeOK
  <1>2. born'[t] \in Nat /\ born'[t] >= born[t]
    BY DEF EntryOf, Ages
  <1>3. CASE born[t] > 1
    BY <1>1, <1>2, <1>3
  <1>4. CASE Ended(t) /\ born[t] = 1
    BY <1>4 DEF EntryOf, StaysEnded
  <1> QED
    BY <1>1, <1>3, <1>4 DEF Passed

(* The calls of a thread that takes no step itself, or goes on with them. *)
GoesOn(c) == pc'[c] = pc[c] \/ (pc[c] # "run" /\ ~InWait(c) /\ ~InWait(c)')

LEMMA CallKept ==
    ASSUME ProcessInv, Ages, StaysEnded, ListsGrow, NEW c \in Slots, GoesOn(c),
           call'[c].thread = call[c].thread, call'[c].born = call[c].born, call'[c].code = call[c].code,
           call'[c].process = call[c].process, call'[c].pos = call[c].pos, call'[c].over = call[c].over
    PROVE  CallOK(c)'
  <1> USE DEF ProcessInv
  <1>1. CallOK(c)
    BY DEF CallsInv
  <1>2. call[c] \in CallType /\ call[c].process \in Processes /\ call[c].pos \in Nat \ {0}
    BY DEF TypeOK, CallType
  <1>3. process[call[c].process].threads \in Seq(Slots)
    BY <1>2 DEF TypeOK, ProcessType
  <1>4. ASSUME call[c].process # KernelProcess, NEW i \in 1..(call[c].pos - 1)
        PROVE  Passed(c, OwnThreads(c)[i])'
    <2>1. i \in 1..Len(OwnThreads(c)) /\ i \in DOMAIN OwnThreads(c)
      BY <1>1, <1>2, <1>3, <1>4 DEF CallOK, OwnThreads
    <2>2. PICK t \in Slots : t = OwnThreads(c)[i]
      BY <1>3, <2>1 DEF OwnThreads
    <2>3. OwnThreads(c)'[i] = t
      BY <1>2, <2>1, <2>2 DEF ListsGrow, OwnThreads
    <2>4. EntryOf(call[c].process, t)
      BY <1>2, <2>1, <2>2 DEF EntriesInv, OwnThreads
    <2>5. Passed(c, t)
      BY <1>1, <1>4, <2>2 DEF CallOK
    <2>6. t = c \/ Ended(t)' \/ born'[t] > 1
      BY <1>2, <1>4, <2>4, <2>5, PassedKept
    <2> QED
      BY <2>3, <2>6 DEF Passed
  <1>5. ASSUME pc'[c] # "run"
        PROVE  /\ call[c].thread \in Listed' /\ call[c].born \in 1..born'[call[c].thread]
               /\ InWait(c)' => call[c].thread # c
               /\ ~InWait(c)' => call[c].code \in Codes
    <2>1. pc[c] # "run" /\ (InWait(c)' <=> InWait(c))
      BY <1>5 DEF GoesOn, InWait
    <2>2. /\ call[c].thread \in Listed /\ call[c].born \in 1..born[call[c].thread]
          /\ InWait(c)' => call[c].thread # c
          /\ ~InWait(c)' => call[c].code \in Codes
      BY <1>1, <2>1 DEF CallOK
    <2>3. /\ born[call[c].thread] \in Nat /\ born'[call[c].thread] \in Nat
          /\ born'[call[c].thread] >= born[call[c].thread]
      BY <2>2, Basics DEF Ages, TypeOK
    <2> QED
      BY <2>2, <2>3 DEF Ages
  <1>6. /\ call[c].pos <= Len(OwnThreads(c)') + 1
        /\ call[c].over = 0 => call[c].pos <= Len(OwnThreads(c)')
    <2>1. /\ call[c].pos <= Len(OwnThreads(c)) + 1
          /\ call[c].over = 0 => call[c].pos <= Len(OwnThreads(c))
      BY <1>1 DEF CallOK
    <2>2. /\ Len(OwnThreads(c)) <= Len(OwnThreads(c)') /\ Len(OwnThreads(c)) \in Nat
          /\ Len(OwnThreads(c)') >= Len(OwnThreads(c)) + 0
      BY <1>2, <1>3 DEF ListsGrow, OwnThreads
    <2> QED
      BY <1>2, <2>1, <2>2
  <1>7. InWait(c)' => pc'[c] # "run"
    BY DEF InWait
  <1> QED
    BY <1>4, <1>5, <1>6, <1>7 DEF CallOK

(* What a thread that takes no step knows of the counter. *)
LEMMA CountKept ==
    ASSUME ProcessInv, Sound, Ages, ListsGrow, NEW c \in Slots, pc'[c] = pc[c], call'[c] = call[c]
    PROVE  CountOK(c)'
  <1> USE DEF ProcessInv
  <1>1. CASE pc[c] = "run"
    BY <1>1 DEF CallsInv, CountOK
  <1>2. CASE pc[c] # "run"
    <2>1. PICK t \in Listed : t = call[c].thread /\ call[c].born \in 1..born[t] /\ born[t] \in Nat
      BY <1>2, Basics DEF CallsInv, CallOK, TypeOK
    <2>2. born'[t] = call[c].born => /\ born[t] = call[c].born
                                     /\ thread'[t].process = thread[t].process
      BY <2>1 DEF Ages
    <2>3. CountOK(c)
      BY DEF CallsInv
    <2> QED
      BY <2>1, <2>2, <2>3 DEF CountOK, SameThread, KernelThread, ProcessOf, ListsGrow
  <1> QED
    BY <1>1, <1>2

(* A call at its beginning, and no call. *)
LEMMA CallBegins ==
    ASSUME ProcessInv, ListsGrow, NEW c \in Slots, pc'[c] \in {"run", "locked", "ended"},
           call'[c].process = KernelProcess, call'[c].pos = 1, call'[c].over = 0, call'[c].inside = 0,
           pc'[c] # "run" => /\ call'[c].thread \in Listed'
                             /\ call'[c].born \in 1..born'[call'[c].thread],
           InWait(c)' => call'[c].thread # c,
           pc'[c] = "ended" => call'[c].code \in Codes
    PROVE  CallOK(c)' /\ CountOK(c)'
  <1> USE DEF ProcessInv
  <1>1. Len(process[KernelProcess].threads) \in Nat \ {0}
    <2>1. process[KernelProcess].threads \in Seq(Slots) /\ process[KernelProcess].threads # <<>>
      BY ProcessAssumption DEF TypeOK, ProcessType, SlotsInv
    <2> QED
      BY <2>1
  <1>2. Len(OwnThreads(c)') >= Len(process[KernelProcess].threads)
    BY ProcessAssumption DEF ListsGrow, OwnThreads
  <1>3. Len(OwnThreads(c)') >= 1
    BY <1>1, <1>2
  <1>4. pc'[c] # "run" /\ ~InWait(c)' => pc'[c] = "ended"
    BY DEF InWait
  <1> QED
    BY <1>3, <1>4 DEF CallOK, CountOK

-----------------------------------------------------------------------------
(* Slots that are not yet on the list, and the counter of the kernel. *)
LEMMA SlotsKept ==
    ASSUME ProcessInv, ListsGrow, count' = count, born' = born, seen'.created = seen.created,
           \A t \in Slots : thread'[t].process = thread[t].process,
           \A t \in Slots \ Listed : pc'[t] = pc[t] /\ thread'[t].waitThreads = thread[t].waitThreads,
           process' \in [Processes -> ProcessType],
           process'[KernelProcess].activeThreads \in {0, Wrapped}
    PROVE  SlotsInv'
  <1> USE DEF ProcessInv
  <1>1. ASSUME NEW p \in Processes, process[p].threads # <<>>
        PROVE  process'[p].threads # <<>>
    <2>1. process[p].threads \in Seq(Slots) /\ process'[p].threads \in Seq(Slots)
      BY DEF TypeOK, ProcessType
    <2>2. Len(process[p].threads) > 0
      BY <1>1, <2>1
    <2>3. Len(process'[p].threads) > 0
      BY <2>1, <2>2 DEF ListsGrow
    <2> QED
      BY <2>3
  <1>2. ASSUME NEW t \in Slots PROVE SlotOK(t)'
    <2>1. SlotOK(t)
      BY DEF SlotsInv
    <2>2. thread[t].process \in Processes
      BY DEF TypeOK, ThreadType
    <2>3. process'[thread[t].process].threads # <<>>
      BY <1>1, <2>1, <2>2 DEF SlotOK
    <2> QED
      BY <2>1, <2>3 DEF SlotOK, Listed
  <1>3. process'[KernelProcess].threads # <<>>
    BY <1>1, ProcessAssumption DEF SlotsInv
  <1> QED
    BY <1>2, <1>3 DEF SlotsInv

(* An entry stays one. *)
LEMMA EntryKept ==
    ASSUME ProcessInv, Ages, NEW p, NEW t, EntryOf(p, t)
    PROVE  t \in Listed' /\ (born'[t] = 1 => thread'[t].process = p)
  <1>1. born[t] \in Nat \ {0}
    BY Basics DEF ProcessInv, EntryOf, SlotsInv, SlotOK, TypeOK
  <1> QED
    BY <1>1 DEF EntryOf, Ages

(* Lists that nobody changes. *)
LEMMA EntriesKept ==
    ASSUME ProcessInv, Ages, SameLists,
           \A t \in Slots : thread'[t].waitThreads = thread[t].waitThreads
    PROVE  EntriesInv'
  <1> USE DEF ProcessInv
  <1>1. ASSUME NEW p, NEW t, EntryOf(p, t)
        PROVE  t \in Listed' /\ (born'[t] = 1 => thread'[t].process = p)
    BY <1>1, EntryKept
  <1>2. \A p \in Processes : \A i \in DOMAIN process'[p].threads :
            LET t == process'[p].threads[i] IN t \in Listed' /\ (born'[t] = 1 => thread'[t].process = p)
    BY <1>1 DEF EntriesInv, SameLists
  <1>3. \A t \in Slots : \A i \in DOMAIN thread'[t].waitThreads :
            LET u == thread'[t].waitThreads[i].thread
            IN  u \in Listed' /\ (born'[u] = 1 => thread'[u].process = KernelProcess)
    BY <1>1 DEF EntriesInv
  <1> QED
    BY <1>2, <1>3 DEF EntriesInv, EntryOf

(* Nothing has been freed as long as the system is followed. *)
LEMMA NothingFreed ==
    ASSUME ProcessInv, Sound, call' \in [Slots -> CallType], Listed' \subseteq Slots,
           \A p \in Processes : process'[p].freed = process[p].freed
    PROVE  FreedInv' /\ FreedThreadsEnded'
  <1>1. \A p \in Processes : process'[p].freed = 0
    BY DEF ProcessInv, FreedInv
  <1>2. \A c \in Listed' : call'[c].process \in Processes
    BY DEF CallType
  <1> QED
    BY <1>1, <1>2 DEF FreedInv, FreedThreadsEnded

-----------------------------------------------------------------------------
(* Who is in xtWaitForThread, before or after the step, takes no part in it. *)
SameWaits == \A u \in Slots : InWait(u) \/ InWait(u)' => pc'[u] = pc[u] /\ call'[u] = call[u]

(* The waiters when a thread ends: its own get their due and run, the       *)
(* others keep what they know, unless the end wakes one by mistake.         *)
LEMMA EndingWaiters ==
    ASSUME ProcessInv, NEW t \in Slots, NEW code \in Codes,
           thread' = Terminate(t, code), due' = DueAfter(t, code), born' = born,
           seen'.stray = SeenAfter(t).stray, SameWaits
    PROVE  WaitersInv'
  <1> USE DEF ProcessInv
  <1>1. /\ \A u \in Slots : /\ thread'[u].waitThreads = thread[u].waitThreads
                            /\ u # t => thread'[u].result = thread[u].result
                            /\ u \in Woken(t) => thread'[u].state = "RUN"
                            /\ u \notin Woken(t) /\ u # t => thread'[u].state = thread[u].state
        /\ thread'[t].result = code
        /\ t \notin Woken(t) => thread'[t].state = "TERMINATED"
    BY Terminated
  <1>2. seen'.stray = 0 => seen.stray = 0 /\ \A u \in Woken(t) : Joins(u, t) /\ ~Ended(u)
    BY DEF SeenAfter, TypeOK, SeenType
  <1>3. code # 0
    BY Basics
  <1> SUFFICES ASSUME NEW u \in Slots, InWait(u)'
               PROVE  WaiterOK(u, call[u].thread)'
    BY DEF WaitersInv
  <1>4. pc'[u] = pc[u] /\ call'[u] = call[u] /\ InWait(u)
    BY DEF SameWaits, InWait
  <1>5. PICK s \in Slots : s = call[u].thread
    BY <1>4, Basics DEF CallsInv, CallOK, InWait
  <1>6. /\ WaiterOK(u, s) /\ s # u
        /\ call[u].born \in 1..born[s] /\ born[s] \in Nat
    BY <1>4, <1>5, Basics DEF CallsInv, CallOK, WaitersInv, TypeOK, InWait
  <1>7. CASE Joins(u, t)
    <2>1. s = t /\ due'[u] = code
      BY <1>5, <1>7 DEF Joins, DueAfter
    <2>2. seen'.stray = 0 => thread'[t].state = "TERMINATED"
      <3> SUFFICES ASSUME seen'.stray = 0, t \in Woken(t) PROVE FALSE
        BY <1>1
      <3>1. InWait(t) /\ call[t].thread = t
        BY <1>2 DEF Joins
      <3> QED
        BY <3>1 DEF CallsInv, CallOK
    <2> QED
      BY <1>1, <1>3, <1>4, <1>5, <2>1, <2>2 DEF WaiterOK, Ended
  <1>8. CASE ~Joins(u, t)
    <2>1. due'[u] = due[u]
      BY <1>8 DEF DueAfter
    <2>2. born[s] = call[u].born => s # t
      BY <1>4, <1>5, <1>8 DEF Joins
    <2>3. ASSUME due[u] # 0, born[s] = call[u].born
          PROVE  thread'[s].result = due[u] /\ (seen'.stray = 0 => thread'[s].state = "TERMINATED")
      <3>1. thread[s].result = due[u] /\ (seen.stray = 0 => Ended(s))
        BY <1>6, <2>3 DEF WaiterOK
      <3>2. thread'[s].result = thread[s].result
        BY <1>1, <2>2, <2>3
      <3>3. ASSUME seen'.stray = 0 PROVE thread'[s].state = "TERMINATED"
        <4>1. Ended(s) /\ s \notin Woken(t)
          BY <1>2, <3>1, <3>3
        <4> QED
          BY <1>1, <2>2, <2>3, <4>1 DEF Ended
      <3> QED
        BY <3>1, <3>2, <3>3
    <2>4. ASSUME seen'.stray = 0, pc[u] = "joining", thread'[u].state = "RUN"
          PROVE  due[u] # 0
      <3>1. u \notin Woken(t)
        BY <1>2, <1>8, <2>4
      <3>2. thread[u].state = "RUN"
        BY <1>1, <2>4, <3>1
      <3> QED
        BY <1>2, <1>6, <2>4, <3>2 DEF WaiterOK
    <2>5. ASSUME seen'.stray = 0, due[u] = 0, born[s] = 1
          PROVE  /\ thread'[s].state # "TERMINATED"
                 /\ \E i \in DOMAIN thread'[s].waitThreads : thread'[s].waitThreads[i] = Node(u)
      <3>1. ~Ended(s) /\ IsListed(u, s)
        BY <1>2, <1>6, <2>5 DEF WaiterOK
      <3>2. s # t
        BY <1>6, <2>2, <2>5
      <3> QED
        BY <1>1, <3>1, <3>2 DEF Ended, IsListed
    <2> QED
      BY <1>4, <1>5, <2>1, <2>3, <2>4, <2>5 DEF WaiterOK, Ended, IsListed
  <1> QED
    BY <1>7, <1>8

(* Without misuse, the end of a thread wakes exactly its own waiters, and   *)
(* walks no freed node.                                                     *)
LEMMA EndingNodes ==
    ASSUME ProcessInv, Sound, NEW t \in Slots, NEW code \in Codes,
           thread' = Terminate(t, code), born' = born, current' = current, SameWaits,
           seen'.stray = SeenAfter(t).stray, seen'.fault = SeenAfter(t).fault,
           seen'.misused = 0 => seen.misused = 0 /\ ~InWait(t) /\ (~Ended(t) \/ t = current)
    PROVE  NodesInv' /\ (seen'.misused = 0 => seen'.stray = 0 /\ seen'.fault = 0)
  <1> USE DEF ProcessInv
  <1> SUFFICES ASSUME seen'.misused = 0
               PROVE  NodesInv' /\ seen'.stray = 0 /\ seen'.fault = 0
    BY DEF NodesInv
  <1>1. seen.misused = 0 /\ ~InWait(t) /\ (~Ended(t) \/ t = current)
    OBVIOUS
  <1>2. \A s \in Slots : ~Ended(s) \/ s = current =>
            \A i \in DOMAIN thread[s].waitThreads : NodeOK(thread[s].waitThreads[i], s)
    BY <1>1 DEF NodesInv
  <1>3. \A u \in Woken(t) : Joins(u, t) /\ ~Ended(u)
    BY <1>1, <1>2 DEF Woken, NodeOK
  <1>4. seen'.stray = 0
    BY <1>1, <1>3 DEF SeenAfter, WakesItsWaiters
  <1>5. seen'.fault = 0
    <2>1. \A i \in DOMAIN thread[t].waitThreads : thread[t].waitThreads[i].freed # 1
      BY <1>1, <1>2 DEF NodeOK
    <2> QED
      BY <2>1 DEF SeenAfter, Sound
  <1>6. /\ \A u \in Slots : /\ thread'[u].waitThreads = thread[u].waitThreads
                            /\ u \in Woken(t) => thread'[u].state = "RUN"
                            /\ u \notin Woken(t) /\ u # t => thread'[u].state = thread[u].state
    BY Terminated
  <1>7. ASSUME NEW s \in Slots, thread'[s].state # "TERMINATED" \/ s = current,
               NEW i \in DOMAIN thread[s].waitThreads
        PROVE  NodeOK(thread[s].waitThreads[i], s)'
    <2>1. ~Ended(s) \/ s = current
      BY <1>1, <1>3, <1>6, <1>7 DEF Ended
    <2>2. NodeOK(thread[s].waitThreads[i], s)
      BY <1>2, <1>7, <2>1
    <2>3. PICK u \in Slots : u = thread[s].waitThreads[i].thread
      BY <1>7, NodeThreads
    <2>4. InWait(u) /\ u # t /\ Joins(u, s) /\ ~Ended(u)
      BY <1>1, <2>2, <2>3 DEF NodeOK, Joins
    <2>5. InWait(u)' /\ Joins(u, s)'
      BY <2>4 DEF SameWaits, Joins, InWait
    <2>6. thread'[u].state # "TERMINATED"
      BY <1>6, <2>4 DEF Ended
    <2> QED
      BY <1>6, <2>2, <2>3, <2>5, <2>6 DEF NodeOK, Ended, Joins, InWait
  <1>8. NodesInv'
    BY <1>6, <1>7 DEF NodesInv, Ended
  <1> QED
    BY <1>4, <1>5, <1>8

(* The end of a thread t by c, whatever c is about. *)
LEMMA EndingStep ==
    ASSUME ProcessInv, Sound, NEW c \in Slots, c = current, NEW t \in Slots, NEW code \in Codes,
           thread' = Terminate(t, code), due' = DueAfter(t, code),
           UNCHANGED <<count, born, current>>,
           seen' \in SeenType, seen'.created = seen.created,
           seen'.stray = SeenAfter(t).stray, seen'.fault = SeenAfter(t).fault,
           seen'.misused = 0 => seen.misused = 0 /\ ~InWait(t) /\ (~Ended(t) \/ t = current),
           process' = process,
           pc' \in [Slots -> Places],
           call' \in [Slots -> CallType],
           \A u \in Slots \ {c} : pc'[u] = pc[u] /\ call'[u] = call[u],
           ~InWait(c), ~InWait(c)', CallOK(c)', CountOK(c)'
    PROVE  ProcessInv'
  <1> USE DEF ProcessInv
  <1>1. /\ process' \in [Processes -> ProcessType] /\ SameLists /\ ListsGrow
        /\ \A p \in Processes : process'[p].freed = process[p].freed
        /\ process'[KernelProcess].activeThreads \in {0, Wrapped}
    <2>1. \A p \in Processes : Len(process[p].threads) \in Nat
      BY DEF TypeOK, ProcessType
    <2> QED
      BY <2>1 DEF SameLists, ListsGrow, TypeOK, SlotsInv
  <1>2. /\ thread' \in [Slots -> ThreadType]
        /\ \A u \in Slots : /\ thread'[u].waitThreads = thread[u].waitThreads
                            /\ thread'[u].process = thread[u].process
    BY Terminated
  <1>3. due' \in [Slots -> Codes \cup {0}]
    BY DEF DueAfter, TypeOK
  <1>4. TypeOK'
    BY <1>1, <1>2, <1>3 DEF TypeOK, Listed
  <1>5. Ages /\ StaysEnded
    BY EndingKeeps
  <1>6. SameWaits
    BY DEF SameWaits
  <1>7. c \in Listed
    BY Basics DEF TypeOK
  <1>8. SlotsInv'
    BY <1>1, <1>2, <1>7, SlotsKept
  <1>9. EntriesInv'
    BY <1>1, <1>2, <1>5, EntriesKept
  <1>10. CallsInv'
    <2>1. ASSUME NEW u \in Slots \ {c} PROVE CallOK(u)' /\ CountOK(u)'
      BY <1>1, <1>5, <2>1, CallKept, CountKept DEF GoesOn
    <2> QED
      BY <2>1 DEF CallsInv
  <1>11. WaitersInv'
    BY <1>6, EndingWaiters
  <1>12. NodesInv' /\ (seen'.misused = 0 => seen'.stray = 0 /\ seen'.fault = 0)
    BY <1>6, EndingNodes
  <1>13. FreedInv' /\ FreedThreadsEnded'
    BY <1>1, Basics, NothingFreed DEF Listed
  <1>14. WakesItsWaiters'
    BY <1>12 DEF WakesItsWaiters
  <1> QED
    BY <1>4, <1>8, <1>9, <1>10, <1>11, <1>12, <1>13, <1>14

(* What SeenAfter is made of. *)
LEMMA SeenTypes ==
    ASSUME TypeOK, NEW t \in Slots
    PROVE  /\ SeenAfter(t) \in SeenType /\ SeenAfter(t).created = seen.created
           /\ SeenAfter(t).misused = 0 => seen.misused = 0 /\ ~InWait(t) /\ ~Ended(t)
  BY DEF TypeOK, SeenType, SeenAfter

(* The locals of a call that begins. *)
Begins(t, b, code) == [NoCall EXCEPT !.thread = t, !.born = b, !.code = code]
Waiting(t, b) == [NoCall EXCEPT !.thread = t, !.born = b]

LEMMA NewCall ==
    /\ NoCall \in CallType /\ NoCall.pos = 1 /\ NoCall.over = 0 /\ NoCall.process = KernelProcess
    /\ NoCall.inside = 0
    /\ \A t \in Slots, b \in Codes, code \in Codes :
          /\ Begins(t, b, code) \in CallType
          /\ Begins(t, b, code).thread = t /\ Begins(t, b, code).born = b /\ Begins(t, b, code).code = code
          /\ Begins(t, b, code).pos = 1 /\ Begins(t, b, code).over = 0
          /\ Begins(t, b, code).process = KernelProcess /\ Begins(t, b, code).inside = 0
    /\ \A t \in Slots, b \in Codes :
          /\ Waiting(t, b) \in CallType
          /\ Waiting(t, b).thread = t /\ Waiting(t, b).born = b
          /\ Waiting(t, b).pos = 1 /\ Waiting(t, b).over = 0
          /\ Waiting(t, b).process = KernelProcess /\ Waiting(t, b).inside = 0
  <1>1. /\ NoCall \in CallType /\ NoCall.pos = 1 /\ NoCall.over = 0 /\ NoCall.process = KernelProcess
        /\ NoCall.inside = 0
    BY ProcessAssumption DEF NoCall, CallType
  <1>2. ASSUME NEW t \in Slots, NEW b \in Codes
        PROVE  /\ Waiting(t, b) \in CallType
               /\ Waiting(t, b).thread = t /\ Waiting(t, b).born = b
               /\ Waiting(t, b).pos = 1 /\ Waiting(t, b).over = 0
               /\ Waiting(t, b).process = KernelProcess /\ Waiting(t, b).inside = 0
    BY <1>1 DEF CallType, Waiting
  <1>3. ASSUME NEW t \in Slots, NEW b \in Codes, NEW code \in Codes
        PROVE  /\ Begins(t, b, code) \in CallType
               /\ Begins(t, b, code).thread = t /\ Begins(t, b, code).born = b
               /\ Begins(t, b, code).code = code
               /\ Begins(t, b, code).pos = 1 /\ Begins(t, b, code).over = 0
               /\ Begins(t, b, code).process = KernelProcess /\ Begins(t, b, code).inside = 0
    <2>1. PICK r \in CallType : r = Waiting(t, b)
      BY <1>2
    <2>2. Begins(t, b, code) = [r EXCEPT !.code = code]
      BY <2>1 DEF Begins, Waiting
    <2> QED
      BY <1>2, <2>1, <2>2 DEF CallType
  <1> QED
    BY <1>1, <1>2, <1>3

(* xtTerminateThread, up to its unlock. *)
LEMMA TerminateStep ==
    ASSUME ProcessInv, NEW c \in Slots, NEW t \in Slots, xtTerminateThread(c, t, ExitCode(t))
    PROVE  ProcessInv'
  <1> USE DEF ProcessInv
  <1>1. PICK code \in Codes : code = ExitCode(t) /\ code = born[t]
    <2>1. t \in Listed
      BY DEF xtTerminateThread
    <2> QED
      BY <2>1, Basics DEF SlotsInv, SlotOK, TypeOK, ExitCode
  <1>2. /\ Sound /\ c = current /\ pc[c] = "run" /\ t \in Listed
        /\ pc' = [pc EXCEPT ![c] = "ended"]
        /\ call' = [call EXCEPT ![c] = Begins(t, code, code)]
        /\ thread' = Terminate(t, code) /\ due' = DueAfter(t, code) /\ seen' = SeenAfter(t)
        /\ UNCHANGED <<count, process, born, current>>
    BY <1>1 DEF xtTerminateThread, Runs, OnProcessor, Begins
  <1>3. PICK r \in CallType : /\ r = Begins(t, code, code)
                              /\ r.thread = t /\ r.born = code /\ r.code = code
                              /\ r.pos = 1 /\ r.over = 0 /\ r.process = KernelProcess /\ r.inside = 0
    BY NewCall
  <1>4. /\ pc' \in [Slots -> Places] /\ pc'[c] = "ended"
        /\ call' \in [Slots -> CallType] /\ call'[c] = r
        /\ \A u \in Slots \ {c} : pc'[u] = pc[u] /\ call'[u] = call[u]
    BY <1>2, <1>3 DEF TypeOK, Places
  <1>5. ListsGrow
    <2>1. \A p \in Processes : Len(process[p].threads) \in Nat
      BY DEF TypeOK, ProcessType
    <2> QED
      BY <1>2, <2>1 DEF ListsGrow
  <1>6. CallOK(c)' /\ CountOK(c)'
    <2>1. call'[c].thread \in Listed' /\ call'[c].born \in 1..born'[call'[c].thread]
      BY <1>1, <1>2, <1>3, <1>4, Basics DEF Listed
    <2>2. ~InWait(c)'
      BY <1>4 DEF InWait
    <2> QED
      BY <1>3, <1>4, <1>5, <2>1, <2>2, CallBegins
  <1>7. ~InWait(c) /\ ~InWait(c)'
    BY <1>2, <1>4 DEF InWait
  <1> QED
    BY <1>2, <1>4, <1>6, <1>7, SeenTypes, EndingStep

-----------------------------------------------------------------------------
(* Processes that only have their counter or their flag changed. *)
SameProcesses ==
    /\ process' \in [Processes -> ProcessType]
    /\ SameLists /\ ListsGrow
    /\ \A p \in Processes : process'[p].freed = process[p].freed
    /\ process'[KernelProcess].activeThreads \in {0, Wrapped}

LEMMA ProcessesUnchanged ==
    ASSUME ProcessInv, process' = process
    PROVE  SameProcesses
  <1>1. \A p \in Processes : Len(process[p].threads) \in Nat
    BY DEF ProcessInv, TypeOK, ProcessType
  <1> QED
    BY <1>1 DEF ProcessInv, SameProcesses, SameLists, ListsGrow, TypeOK, SlotsInv

(* Nothing else is seen to happen but that the system is lost. *)
SeenButLost ==
    /\ seen' \in SeenType /\ seen'.created = seen.created /\ seen'.misused = seen.misused
    /\ seen'.stray = seen.stray /\ seen'.fault = seen.fault

(* A step of c that changes no thread, at most a process's counter or flag. *)
LEMMA OwnStep ==
    ASSUME ProcessInv, Sound, NEW c \in Slots, c = current,
           UNCHANGED <<count, thread, born, current, due>>, SeenButLost, SameProcesses,
           pc' \in [Slots -> Places],
           call' \in [Slots -> CallType],
           \A u \in Slots \ {c} : pc'[u] = pc[u] /\ call'[u] = call[u],
           ~InWait(c), ~InWait(c)', CallOK(c)', CountOK(c)'
    PROVE  ProcessInv'
  <1> USE DEF ProcessInv
  <1>1. /\ process' \in [Processes -> ProcessType] /\ SameLists /\ ListsGrow
        /\ \A p \in Processes : process'[p].freed = process[p].freed
        /\ process'[KernelProcess].activeThreads \in {0, Wrapped}
    BY DEF SameProcesses
  <1>2. TypeOK'
    BY <1>1 DEF TypeOK, Listed, SeenButLost
  <1>3. Ages /\ StaysEnded
    BY NobodyReturns DEF Ended
  <1>4. c \in Listed
    BY Basics DEF TypeOK
  <1>5. SlotsInv'
    BY <1>1, <1>4, SlotsKept DEF SeenButLost
  <1>6. EntriesInv'
    BY <1>1, <1>3, EntriesKept
  <1>7. CallsInv'
    <2>1. ASSUME NEW u \in Slots \ {c} PROVE CallOK(u)' /\ CountOK(u)'
      BY <1>1, <1>3, <2>1, CallKept, CountKept DEF GoesOn
    <2> QED
      BY <2>1 DEF CallsInv
  <1>8. WaitersInv'
    <2> SUFFICES ASSUME NEW u \in Slots, InWait(u)' PROVE WaiterOK(u, call[u].thread)'
      BY DEF WaitersInv
    <2>1. u # c /\ pc'[u] = pc[u] /\ call'[u] = call[u] /\ InWait(u)
      BY DEF InWait
    <2> QED
      BY <2>1 DEF WaitersInv, WaiterOK, Ended, IsListed, SeenButLost
  <1>9. NodesInv'
    <2> SUFFICES ASSUME Sound, seen.misused = 0, NEW t \in Slots, ~Ended(t) \/ t = current,
                        NEW i \in DOMAIN thread[t].waitThreads
                 PROVE  NodeOK(thread[t].waitThreads[i], t)'
      BY DEF NodesInv, Ended, SeenButLost
    <2>1. NodeOK(thread[t].waitThreads[i], t)
      BY DEF NodesInv
    <2>2. PICK u \in Slots : u = thread[t].waitThreads[i].thread
      BY NodeThreads
    <2>3. InWait(u) /\ u # c
      BY <2>1, <2>2 DEF NodeOK, Joins
    <2> QED
      BY <2>1, <2>2, <2>3 DEF NodeOK, Joins, InWait, Ended
  <1>10. FreedInv' /\ FreedThreadsEnded'
    BY <1>1, Basics, NothingFreed DEF Listed
  <1>11. WakesItsWaiters'
    BY <1>1 DEF WakesItsWaiters, SeenButLost
  <1> QED
    BY <1>2, <1>5, <1>6, <1>7, <1>8, <1>9, <1>10, <1>11

(* The thread that is being ended: it is on the list. *)
LEMMA ThreadOfCall ==
    ASSUME ProcessInv, NEW c \in Slots, pc[c] # "run"
    PROVE  /\ call[c].thread \in Listed /\ call[c].thread \in Slots /\ ProcessOf(c) \in Processes
           /\ process[ProcessOf(c)].threads # <<>> /\ process[ProcessOf(c)].threads \in Seq(Slots)
           /\ process[ProcessOf(c)].activeThreads \in Nat \cup {Wrapped}
  <1>1. call[c].thread \in Listed /\ call[c].thread \in Slots
    BY Basics DEF ProcessInv, CallsInv, CallOK
  <1>2. ProcessOf(c) \in Processes
    BY <1>1 DEF ProcessInv, TypeOK, ThreadType, ProcessOf
  <1> QED
    BY <1>1, <1>2 DEF ProcessInv, SlotsInv, SlotOK, TypeOK, ProcessType, ProcessOf

(* activeThreads is read. *)
LEMMA LoadStep ==
    ASSUME ProcessInv, NEW c \in Slots, Load(c)
    PROVE  ProcessInv'
  <1> USE DEF ProcessInv
  <1>1. /\ Sound /\ c = current /\ pc[c] = "ended" /\ pc' = [pc EXCEPT ![c] = "loaded"]
        /\ UNCHANGED <<count, thread, process, current, born, due, seen>>
    BY DEF Load, OnProcessor
  <1>2. PICK p \in Processes, n \in Nat \cup {Wrapped} :
            p = ProcessOf(c) /\ n = process[p].activeThreads
    BY <1>1, ThreadOfCall
  <1>3. call' = [call EXCEPT ![c].target = p, ![c].left = n]
    BY <1>2 DEF Load
  <1>4. /\ pc' \in [Slots -> Places] /\ pc'[c] = "loaded"
        /\ \A u \in Slots \ {c} : pc'[u] = pc[u] /\ call'[u] = call[u]
    BY <1>1, <1>3 DEF TypeOK, Places
  <1>5. /\ call'[c] \in CallType /\ call'[c].target = p /\ call'[c].left = n
        /\ call'[c].thread = call[c].thread /\ call'[c].born = call[c].born /\ call'[c].code = call[c].code
        /\ call'[c].process = call[c].process /\ call'[c].pos = call[c].pos /\ call'[c].over = call[c].over
        /\ call'[c].inside = call[c].inside
    <2>1. PICK r \in CallType : r = call[c]
      BY DEF TypeOK
    <2>2. call'[c] = [r EXCEPT !.target = p, !.left = n]
      BY <1>3, <2>1 DEF TypeOK
    <2> QED
      BY <2>1, <2>2 DEF CallType
  <1>6. call' \in [Slots -> CallType]
    BY <1>3, <1>4, <1>5 DEF TypeOK
  <1>7. SameProcesses /\ SeenButLost /\ Ages /\ StaysEnded
    BY <1>1, ProcessesUnchanged, NobodyReturns DEF Ended, SeenButLost, TypeOK
  <1>8. ~InWait(c) /\ ~InWait(c)'
    BY <1>1, <1>4 DEF InWait
  <1>9. CallOK(c)'
    BY <1>1, <1>5, <1>7, <1>8, CallKept DEF GoesOn, SameProcesses
  <1>10. CountOK(c)'
    <2>1. p = KernelProcess => n \in {0, Wrapped}
      BY <1>2 DEF SlotsInv
    <2>2. ProcessOf(c)' = p
      BY <1>1, <1>2, <1>5 DEF ProcessOf
    <2>3. call[c].inside = 1 => call[c].process # KernelProcess
      BY <1>1 DEF CallsInv, CountOK
    <2> QED
      BY <1>4, <1>5, <2>1, <2>2, <2>3 DEF CountOK
  <1> QED
    BY <1>1, <1>4, <1>6, <1>7, <1>8, <1>9, <1>10, OwnStep

(* It is written back: the counter of the kernel has wrapped around now. *)
LEMMA StoreStep ==
    ASSUME ProcessInv, NEW c \in Slots, Store(c)
    PROVE  ProcessInv'
  <1> USE DEF ProcessInv
  <1>1. /\ Sound /\ c = current /\ pc[c] = "loaded" /\ pc' = [pc EXCEPT ![c] = "stored"]
        /\ UNCHANGED <<count, thread, current, born, due, seen>>
    BY DEF Store, OnProcessor
  <1>2. PICK p \in Processes, n \in Nat \cup {Wrapped} :
            p = call[c].target /\ n = Decrement(call[c].left)
    <2>1. \A m \in Nat \cup {Wrapped} : Decrement(m) \in Nat \cup {Wrapped}
      BY DEF Decrement, Wrapped
    <2>2. call[c].target \in Processes /\ call[c].left \in Nat \cup {Wrapped}
      BY DEF TypeOK, CallType
    <2> QED
      BY <2>1, <2>2
  <1>3. /\ process' = [process EXCEPT ![p].activeThreads = n]
        /\ call' = [call EXCEPT ![c].target = KernelProcess, ![c].left = 0]
    BY <1>2 DEF Store
  <1>4. p = KernelProcess => n = Wrapped
    BY <1>1, <1>2 DEF CallsInv, CountOK, Decrement
  <1>5. /\ process' \in [Processes -> ProcessType]
        /\ \A q \in Processes : /\ process'[q].threads = process[q].threads
                                /\ process'[q].freed = process[q].freed
                                /\ q # p => process'[q].activeThreads = process[q].activeThreads
        /\ process'[p].activeThreads = n
    BY <1>3 DEF TypeOK, ProcessType
  <1>6. SameProcesses
    <2>1. \A q \in Processes : Len(process[q].threads) \in Nat
      BY DEF TypeOK, ProcessType
    <2>2. /\ process'[KernelProcess].activeThreads \in {0, Wrapped}
          /\ process[KernelProcess].activeThreads = Wrapped => process'[KernelProcess].activeThreads = Wrapped
      BY <1>4, <1>5, ProcessAssumption DEF SlotsInv
    <2> QED
      BY <1>5, <2>1, <2>2 DEF SameProcesses, SameLists, ListsGrow
  <1>7. /\ pc' \in [Slots -> Places] /\ pc'[c] = "stored"
        /\ \A u \in Slots \ {c} : pc'[u] = pc[u] /\ call'[u] = call[u]
    BY <1>1, <1>3 DEF TypeOK, Places
  <1>8. /\ call'[c] \in CallType
        /\ call'[c].thread = call[c].thread /\ call'[c].born = call[c].born /\ call'[c].code = call[c].code
        /\ call'[c].process = call[c].process /\ call'[c].pos = call[c].pos /\ call'[c].over = call[c].over
        /\ call'[c].inside = call[c].inside
    <2>1. PICK r \in CallType : r = call[c]
      BY DEF TypeOK
    <2>2. PICK k \in Processes, zero \in Nat \cup {Wrapped} : k = KernelProcess /\ zero = 0
      BY ProcessAssumption
    <2>3. call'[c] = [r EXCEPT !.target = k, !.left = zero]
      BY <1>3, <2>1, <2>2 DEF TypeOK
    <2> QED
      BY <2>1, <2>3 DEF CallType
  <1>9. call' \in [Slots -> CallType]
    BY <1>3, <1>7, <1>8 DEF TypeOK
  <1>10. SeenButLost /\ Ages /\ StaysEnded
    BY <1>1, NobodyReturns DEF Ended, SeenButLost, TypeOK
  <1>11. ~InWait(c) /\ ~InWait(c)'
    BY <1>1, <1>7 DEF InWait
  <1>12. CallOK(c)'
    BY <1>1, <1>6, <1>8, <1>10, <1>11, CallKept DEF GoesOn, SameProcesses
  <1>13. CountOK(c)'
    <2>1. SameThread(c) => ProcessOf(c) = p
      BY <1>1, <1>2 DEF CallsInv, CountOK
    <2>2. (SameThread(c)' <=> SameThread(c)) /\ (KernelThread(c)' <=> ProcessOf(c) = KernelProcess)
      BY <1>1, <1>8 DEF SameThread, KernelThread, ProcessOf
    <2>3. call[c].inside = 1 => call[c].process # KernelProcess
      BY <1>1 DEF CallsInv, CountOK
    <2> QED
      BY <1>4, <1>5, <1>7, <1>8, <2>1, <2>2, <2>3 DEF CountOK
  <1> QED
    BY <1>1, <1>6, <1>7, <1>9, <1>10, <1>11, <1>12, <1>13, OwnStep

(* The call goes on, or returns. *)
LEMMA ReturnsStep ==
    ASSUME ProcessInv, Sound, NEW c \in Slots, c = current, pc[c] \in {"stored", "testing"}, Return(c),
           UNCHANGED <<count, thread, process, current, born, due, seen>>
    PROVE  ProcessInv'
  <1> USE DEF ProcessInv
  <1>1. PICK at \in Places : at = ReturnTo(c) /\ at \in {"run", "teardown", "torn"}
                             /\ (call[c].inside # 0 => at # "run") /\ (call[c].inside = 0 => at = "run")
    BY DEF ReturnTo, Places
  <1>2. PICK r \in CallType : r = IF call[c].inside = 0 THEN NoCall ELSE call[c]
    BY NewCall DEF TypeOK
  <1>3. pc' = [pc EXCEPT ![c] = at] /\ call' = [call EXCEPT ![c] = r]
    BY <1>1, <1>2 DEF Return, TypeOK
  <1>4. /\ pc' \in [Slots -> Places] /\ pc'[c] = at /\ call' \in [Slots -> CallType] /\ call'[c] = r
        /\ \A u \in Slots \ {c} : pc'[u] = pc[u] /\ call'[u] = call[u]
    BY <1>1, <1>3 DEF TypeOK
  <1>5. SameProcesses /\ SeenButLost /\ Ages /\ StaysEnded
    BY ProcessesUnchanged, NobodyReturns DEF Ended, SeenButLost, TypeOK
  <1>6. ~InWait(c) /\ ~InWait(c)'
    BY <1>1, <1>4 DEF InWait
  <1>7. CallOK(c)' /\ CountOK(c)'
    <2>1. CASE call[c].inside = 0
      <3>1. pc'[c] = "run" /\ call'[c] = NoCall
        BY <1>1, <1>2, <1>4, <2>1
      <3> QED
        BY <1>5, <1>6, <3>1, NewCall, CallBegins DEF SameProcesses
    <2>2. CASE call[c].inside # 0
      <3>1. call'[c] = call[c]
        BY <1>2, <1>4, <2>2
      <3>2. CallOK(c)'
        BY <1>5, <1>6, <3>1, CallKept DEF GoesOn, SameProcesses
      <3>3. call[c].inside = 1 /\ call[c].process # KernelProcess
        BY <2>2 DEF CallsInv, CountOK, TypeOK, CallType
      <3> QED
        BY <1>1, <1>4, <3>1, <3>2, <3>3 DEF CountOK
    <2> QED
      BY <2>1, <2>2
  <1> QED
    BY <1>4, <1>5, <1>6, <1>7, OwnStep

(* Whether it was the last thread. *)
LEMMA TestCountStep ==
    ASSUME ProcessInv, NEW c \in Slots, TestCount(c)
    PROVE  ProcessInv'
  <1> USE DEF ProcessInv
  <1>1. /\ Sound /\ c = current /\ pc[c] = "stored"
        /\ UNCHANGED <<count, thread, process, current, born, due, seen>>
    BY DEF TestCount, OnProcessor
  <1>2. CASE Return(c)
    BY <1>1, <1>2, ReturnsStep
  <1>3. CASE /\ IsZero(process[ProcessOf(c)].activeThreads)
             /\ pc' = [pc EXCEPT ![c] = "testing"] /\ UNCHANGED call
    <2>1. /\ pc' \in [Slots -> Places] /\ pc'[c] = "testing" /\ call' \in [Slots -> CallType]
          /\ \A u \in Slots \ {c} : pc'[u] = pc[u] /\ call'[u] = call[u]
      BY <1>3 DEF TypeOK, Places
    <2>2. SameProcesses /\ SeenButLost /\ Ages /\ StaysEnded
      BY <1>1, ProcessesUnchanged, NobodyReturns DEF Ended, SeenButLost, TypeOK
    <2>3. ~InWait(c) /\ ~InWait(c)'
      BY <1>1, <2>1 DEF InWait
    <2>4. CallOK(c)'
      BY <1>1, <1>3, <2>2, <2>3, CallKept DEF GoesOn, SameProcesses
    <2>5. CountOK(c)'
      <3>1. SameThread(c) => ~KernelThread(c)
        BY <1>1, <1>3 DEF CallsInv, CountOK, KernelThread, IsZero, Wrapped
      <3>2. (SameThread(c)' <=> SameThread(c)) /\ (KernelThread(c)' <=> KernelThread(c))
        BY <1>1, <1>3 DEF SameThread, KernelThread, ProcessOf
      <3>3. call[c].inside = 1 => call[c].process # KernelProcess
        BY <1>1 DEF CallsInv, CountOK
      <3> QED
        BY <1>3, <2>1, <3>1, <3>2, <3>3 DEF CountOK
    <2> QED
      BY <1>1, <2>1, <2>2, <2>3, <2>4, <2>5, OwnStep
  <1> QED
    BY <1>2, <1>3 DEF TestCount

(* Whether the process is being ended already. *)
LEMMA TestFlagStep ==
    ASSUME ProcessInv, NEW c \in Slots, TestFlag(c)
    PROVE  ProcessInv'
  <1> USE DEF ProcessInv
  <1>1. /\ Sound /\ c = current /\ pc[c] = "testing"
        /\ UNCHANGED <<count, thread, process, current, born, due, seen>>
    BY DEF TestFlag, OnProcessor
  <1>2. CASE Return(c)
    BY <1>1, <1>2, ReturnsStep
  <1>3. CASE /\ pc' = [pc EXCEPT ![c] = "entering"]
             /\ call' = [call EXCEPT ![c] = [@ EXCEPT !.process = ProcessOf(c), !.inside = 1,
                                                      !.pos = 1, !.over = 0]]
    <2>1. PICK p \in Processes : p = ProcessOf(c)
      BY <1>1, ThreadOfCall
    <2>2. PICK r \in CallType : r = call[c]
      BY DEF TypeOK
    <2>3. call'[c] = [r EXCEPT !.process = p, !.inside = 1, !.pos = 1, !.over = 0]
      BY <1>3, <2>1, <2>2 DEF TypeOK
    <2>4. /\ call'[c] \in CallType /\ call'[c].process = p /\ call'[c].pos = 1 /\ call'[c].over = 0
          /\ call'[c].thread = r.thread /\ call'[c].born = r.born /\ call'[c].code = r.code
          /\ call'[c].inside = 1
      <3>1. PICK a \in CallType : /\ a = [r EXCEPT !.process = p, !.inside = 1]
                                  /\ a.process = p /\ a.inside = 1
                                  /\ a.thread = r.thread /\ a.born = r.born /\ a.code = r.code
        <4> DEFINE x == [r EXCEPT !.process = p, !.inside = 1]
        <4>1. /\ x \in CallType /\ x.process = p /\ x.inside = 1
              /\ x.thread = r.thread /\ x.born = r.born /\ x.code = r.code
          BY DEF CallType
        <4> HIDE DEF x
        <4>2. \E a : a = x /\ a \in CallType /\ a.process = p /\ a.inside = 1
                     /\ a.thread = r.thread /\ a.born = r.born /\ a.code = r.code
          BY <4>1
        <4> QED
          BY <4>2 DEF x
      <3>2. PICK pos \in Nat \ {0}, over \in {0, 1} : pos = 1 /\ over = 0
        OBVIOUS
      <3>3. call'[c] = [a EXCEPT !.pos = pos, !.over = over]
        BY <2>3, <3>1, <3>2
      <3> QED
        BY <3>1, <3>2, <3>3 DEF CallType
    <2>5. /\ pc' \in [Slots -> Places] /\ pc'[c] = "entering"
          /\ \A u \in Slots \ {c} : pc'[u] = pc[u] /\ call'[u] = call[u]
      BY <1>3 DEF TypeOK, Places
    <2>6. call' \in [Slots -> CallType]
      BY <1>3, <2>4, <2>5 DEF TypeOK
    <2>7. SameProcesses /\ SeenButLost
      BY <1>1, ProcessesUnchanged DEF SeenButLost, TypeOK
    <2>8. ~InWait(c) /\ ~InWait(c)'
      BY <1>1, <2>5 DEF InWait
    <2>9. CallOK(c)'
      <3>1. /\ call'[c].thread \in Listed' /\ call'[c].born \in 1..born'[call'[c].thread]
            /\ call'[c].code \in Codes
        BY <1>1, <2>2, <2>4, <2>8 DEF CallsInv, CallOK, Listed
      <3>2. Len(OwnThreads(c)') >= 1
        <4>1. process[p].threads # <<>> /\ process[p].threads \in Seq(Slots)
          BY <1>1, <2>1, ThreadOfCall
        <4>2. Len(process[p].threads) >= 1
          BY <4>1
        <4> QED
          BY <1>1, <2>4, <4>2 DEF OwnThreads
      <3> QED
        BY <2>4, <2>5, <2>8, <3>1, <3>2 DEF CallOK
    <2>10. CountOK(c)'
      <3>1. SameThread(c) => p # KernelProcess
        BY <1>1, <2>1 DEF CallsInv, CountOK, KernelThread
      <3>2. SameThread(c)' <=> SameThread(c)
        BY <1>1, <2>2, <2>4 DEF SameThread
      <3> QED
        BY <2>4, <2>5, <3>1, <3>2 DEF CountOK
    <2> QED
      BY <1>1, <2>5, <2>6, <2>7, <2>8, <2>9, <2>10, OwnStep
  <1> QED
    BY <1>2, <1>3 DEF TestFlag

(* The flag is set. *)
LEMMA EnterStep ==
    ASSUME ProcessInv, NEW c \in Slots, Enter(c)
    PROVE  ProcessInv'
  <1> USE DEF ProcessInv
  <1>1. /\ Sound /\ c = current /\ pc[c] = "entering" /\ pc' = [pc EXCEPT ![c] = "teardown"]
        /\ UNCHANGED <<count, thread, current, call, born, due>>
    BY DEF Enter, OnProcessor
  <1>2. PICK p \in Processes : p = call[c].process /\ process' = [process EXCEPT ![p].terminating = 1]
    BY DEF Enter, TypeOK, CallType
  <1>3. SameProcesses
    <2>1. \A q \in Processes : Len(process[q].threads) \in Nat
      BY DEF TypeOK, ProcessType
    <2>2. /\ process' \in [Processes -> ProcessType]
          /\ \A q \in Processes : /\ process'[q].threads = process[q].threads
                                  /\ process'[q].freed = process[q].freed
                                  /\ process'[q].activeThreads = process[q].activeThreads
      BY <1>2 DEF TypeOK, ProcessType
    <2> QED
      BY <2>1, <2>2, ProcessAssumption DEF SameProcesses, SameLists, ListsGrow, SlotsInv
  <1>4. SeenButLost
    <2>1. PICK s \in SeenType : s = seen
      BY DEF TypeOK
    <2>2. PICK lost \in {0, 1} : seen' = [s EXCEPT !.lost = lost]
      <3>1. s.lost \in {0, 1}
        BY DEF SeenType
      <3>2. CASE call[c].process = KernelProcess
        BY <2>1, <3>2 DEF Enter
      <3>3. CASE call[c].process # KernelProcess
        BY <2>1, <3>1, <3>3 DEF Enter
      <3> QED
        BY <3>2, <3>3
    <2> QED
      BY <2>1, <2>2 DEF SeenButLost, SeenType
  <1>5. Ages /\ StaysEnded
    BY <1>1, NobodyReturns DEF Ended
  <1>6. /\ pc' \in [Slots -> Places] /\ pc'[c] = "teardown" /\ call' \in [Slots -> CallType]
        /\ \A u \in Slots \ {c} : pc'[u] = pc[u] /\ call'[u] = call[u]
    BY <1>1 DEF TypeOK, Places
  <1>7. ~InWait(c) /\ ~InWait(c)'
    BY <1>1, <1>6 DEF InWait
  <1>8. CallOK(c)' /\ CountOK(c)'
    <2>1. CallOK(c)'
      BY <1>1, <1>3, <1>5, <1>7, CallKept DEF GoesOn, SameProcesses
    <2>2. call'[c].inside = 1
      BY <1>1 DEF CallsInv, CountOK
    <2>3. call[c].process = KernelProcess => seen'.lost = 1
      BY DEF Enter, TypeOK, SeenType
    <2> QED
      BY <1>1, <1>6, <2>1, <2>2, <2>3 DEF CountOK, Sound
  <1> QED
    BY <1>1, <1>3, <1>4, <1>6, <1>7, <1>8, OwnStep

(* The processor hangs. *)
LEMMA SpinStep ==
    ASSUME ProcessInv, NEW c \in Slots, Spin(c)
    PROVE  ProcessInv'
  <1> USE DEF ProcessInv
  <1>1. /\ Sound /\ c = current /\ ~InWait(c)
        /\ UNCHANGED <<count, thread, process, current, pc, call, born, due>>
        /\ seen' = [seen EXCEPT !.lost = 1]
    BY DEF Spin, Runs, OnProcessor, InWait
  <1>2. SeenButLost
    BY <1>1 DEF TypeOK, SeenType, SeenButLost
  <1>3. SameProcesses /\ Ages /\ StaysEnded
    BY <1>1, ProcessesUnchanged, NobodyReturns DEF Ended
  <1>4. CallOK(c)' /\ CountOK(c)'
    BY <1>1, <1>3, CallKept, CountKept DEF GoesOn, SameProcesses
  <1>5. pc' \in [Slots -> Places] /\ call' \in [Slots -> CallType] /\ ~InWait(c)'
    BY <1>1 DEF TypeOK, InWait
  <1> QED
    BY <1>1, <1>2, <1>3, <1>4, <1>5, OwnStep

-----------------------------------------------------------------------------
(* Where the loop of xtTerminateProcess is. *)
LEMMA AtPosition ==
    ASSUME ProcessInv, NEW c \in Slots, call[c].over = 0
    PROVE  /\ call[c].pos \in DOMAIN OwnThreads(c) /\ OwnThreads(c) \in Seq(Slots)
           /\ Len(OwnThreads(c)) \in Nat /\ call[c].pos \in Nat \ {0}
           /\ call[c].pos <= Len(OwnThreads(c))
           /\ ThreadAt(call[c].process, call[c].pos) \in Slots
           /\ ThreadAt(call[c].process, call[c].pos) = OwnThreads(c)[call[c].pos]
           /\ EntryOf(call[c].process, ThreadAt(call[c].process, call[c].pos))
           /\ call[c].process \in Processes
  <1> USE DEF ProcessInv
  <1>1. call[c].process \in Processes /\ call[c].pos \in Nat \ {0}
    BY DEF TypeOK, CallType
  <1>2. OwnThreads(c) \in Seq(Slots)
    BY <1>1 DEF TypeOK, ProcessType, OwnThreads
  <1>3. call[c].pos <= Len(OwnThreads(c)) /\ Len(OwnThreads(c)) \in Nat
    BY <1>2 DEF CallsInv, CallOK
  <1>4. call[c].pos \in DOMAIN OwnThreads(c)
    BY <1>1, <1>2, <1>3
  <1>5. ThreadAt(call[c].process, call[c].pos) = OwnThreads(c)[call[c].pos]
    BY DEF ThreadAt, OwnThreads
  <1>6. EntryOf(call[c].process, OwnThreads(c)[call[c].pos]) /\ OwnThreads(c)[call[c].pos] \in Slots
    BY <1>1, <1>2, <1>4 DEF EntriesInv, OwnThreads
  <1> QED
    BY <1>1, <1>2, <1>3, <1>4, <1>5, <1>6

(* A turn of the loop: the thread at its position is behind it afterwards. *)
LEMMA TurnOK ==
    ASSUME ProcessInv, Sound, NEW c \in Slots, pc[c] = "teardown", call[c].over = 0,
           Ages, StaysEnded, SameLists,
           pc'[c] \in {"teardown", "ended"},
           call'[c].process = call[c].process, call'[c].pos = NextOne(call[c].pos),
           call'[c].over = OverAfter(c), call'[c].inside = call[c].inside,
           call'[c].thread \in Listed', call'[c].born \in 1..born'[call'[c].thread],
           call'[c].code \in Codes,
           NEW t \in Slots, t = ThreadAt(call[c].process, call[c].pos),
           call[c].process = KernelProcess \/ t = c \/ Ended(t)' \/ born'[t] > 1
    PROVE  CallOK(c)' /\ CountOK(c)'
  <1> USE DEF ProcessInv
  <1>1. PICK p \in Processes, own \in Seq(Slots), pos \in Nat \ {0} :
            /\ p = call[c].process /\ own = OwnThreads(c) /\ pos = call[c].pos
            /\ own = process[p].threads /\ own = process'[p].threads
            /\ Len(own) \in Nat /\ pos <= Len(own) /\ DOMAIN own = 1..Len(own) /\ t = own[pos]
    BY AtPosition DEF OwnThreads, SameLists
  <1>2. OwnThreads(c)' = own
    BY <1>1 DEF OwnThreads
  <1>3. call'[c].pos = pos + 1 /\ call'[c].over = IF pos + 1 <= Len(own) THEN 0 ELSE 1
    BY <1>1 DEF NextOne, OverAfter
  <1>4. ASSUME p # KernelProcess, NEW i \in 1..pos
        PROVE  own[i] = c \/ thread'[own[i]].state = "TERMINATED" \/ born'[own[i]] > 1
    <2>1. CASE i = pos
      BY <1>1, <1>4, <2>1 DEF Ended
    <2>2. CASE i # pos
      <3>1. i \in 1..(pos - 1) /\ i \in DOMAIN own
        BY <1>1, <2>2
      <3>2. Passed(c, own[i])
        BY <1>1, <1>4, <3>1 DEF CallsInv, CallOK
      <3>3. own[i] \in Slots /\ EntryOf(p, own[i])
        <4>1. i \in DOMAIN process[p].threads /\ process[p].threads[i] = own[i]
          BY <1>1, <3>1
        <4>2. EntryOf(p, process[p].threads[i])
          BY <4>1 DEF EntriesInv
        <4>3. own[i] \in Slots
          BY <3>1
        <4> QED
          BY <4>1, <4>2, <4>3
      <3> QED
        BY <1>4, <3>2, <3>3, PassedKept DEF Ended
    <2> QED
      BY <2>1, <2>2
  <1>5. ASSUME p # KernelProcess, NEW i \in 1..((pos + 1) - 1) PROVE Passed(c, own[i])'
    <2>1. i \in 1..pos
      OBVIOUS
    <2> QED
      BY <1>4, <1>5, <2>1 DEF Passed, Ended
  <1>6. ~InWait(c)' /\ pc'[c] # "run"
    BY DEF InWait
  <1>7. CallOK(c)'
    BY <1>1, <1>2, <1>3, <1>5, <1>6 DEF CallOK
  <1>8. CountOK(c)'
    BY DEF CallsInv, CountOK
  <1> QED
    BY <1>7, <1>8

(* The loop passes a thread that has ended, or its own. *)
LEMMA PassStep ==
    ASSUME ProcessInv, NEW c \in Slots, PassThread(c)
    PROVE  ProcessInv'
  <1> USE DEF ProcessInv
  <1>1. /\ Sound /\ c = current /\ pc[c] = "teardown" /\ call[c].over = 0
        /\ UNCHANGED <<count, thread, process, current, pc, born, due, seen>>
    BY DEF PassThread, OnProcessor
  <1>2. PICK t \in Slots : t = ThreadAt(call[c].process, call[c].pos)
    BY <1>1, AtPosition
  <1>3. t = c \/ Ended(t)
    BY <1>2 DEF PassThread
  <1>4. PICK pos \in Nat \ {0}, over \in {0, 1} : pos = NextOne(call[c].pos) /\ over = OverAfter(c)
    BY DEF NextOne, OverAfter, TypeOK, CallType
  <1>5. PICK r \in CallType : r = call[c]
    BY DEF TypeOK
  <1>6. call' = [call EXCEPT ![c] = [r EXCEPT !.pos = pos, !.over = over]]
    BY <1>4, <1>5 DEF PassThread
  <1>7. /\ [r EXCEPT !.pos = pos, !.over = over] \in CallType
        /\ call'[c] = [r EXCEPT !.pos = pos, !.over = over]
        /\ call'[c].pos = pos /\ call'[c].over = over /\ call'[c].process = r.process
        /\ call'[c].inside = r.inside
        /\ call'[c].thread = r.thread /\ call'[c].born = r.born /\ call'[c].code = r.code
    BY <1>5, <1>6 DEF TypeOK, CallType
  <1>8. /\ call' \in [Slots -> CallType]
        /\ \A u \in Slots \ {c} : pc'[u] = pc[u] /\ call'[u] = call[u]
    BY <1>1, <1>6, <1>7 DEF TypeOK
  <1>9. SameProcesses /\ SeenButLost /\ Ages /\ StaysEnded
    BY <1>1, ProcessesUnchanged, NobodyReturns DEF Ended, SeenButLost, TypeOK
  <1>10. ~InWait(c) /\ ~InWait(c)' /\ pc' \in [Slots -> Places] /\ pc'[c] = "teardown"
    BY <1>1 DEF InWait, TypeOK
  <1>11. /\ call'[c].thread \in Listed' /\ call'[c].born \in 1..born'[call'[c].thread]
         /\ call'[c].code \in Codes
    BY <1>1, <1>5, <1>7, <1>10 DEF CallsInv, CallOK, Listed
  <1>12. t = c \/ Ended(t)'
    BY <1>1, <1>3 DEF Ended
  <1>13. CallOK(c)' /\ CountOK(c)'
    BY <1>1, <1>2, <1>4, <1>5, <1>7, <1>9, <1>10, <1>11, <1>12, TurnOK DEF SameProcesses
  <1> QED
    BY <1>1, <1>8, <1>9, <1>10, <1>13, OwnStep

(* It ends a thread. *)
LEMMA EndEachStep ==
    ASSUME ProcessInv, NEW c \in Slots, EndEachThread(c)
    PROVE  ProcessInv'
  <1> USE DEF ProcessInv
  <1>1. /\ Sound /\ c = current /\ pc[c] = "teardown" /\ call[c].over = 0
        /\ pc' = [pc EXCEPT ![c] = "ended"]
        /\ UNCHANGED <<count, process, current, born>>
    BY DEF EndEachThread, OnProcessor
  <1>2. PICK t \in Slots : t = ThreadAt(call[c].process, call[c].pos) /\ EntryOf(call[c].process, t)
    BY <1>1, AtPosition
  <1>3. PICK r \in CallType : r = call[c] /\ r.code \in Codes
    <2>1. ~InWait(c)
      BY <1>1 DEF InWait
    <2> QED
      BY <1>1, <2>1 DEF TypeOK, CallsInv, CallOK
  <1>4. PICK pos \in Nat \ {0}, over \in {0, 1}, b \in Codes :
            pos = NextOne(call[c].pos) /\ over = OverAfter(c) /\ b = born[t]
    <2>1. born[t] \in Codes
      BY <1>2, Basics DEF EntryOf, SlotsInv, SlotOK, TypeOK
    <2> QED
      BY <2>1 DEF NextOne, OverAfter, TypeOK, CallType
  <1>5. /\ thread' = Terminate(t, r.code) /\ due' = DueAfter(t, r.code) /\ seen' = SeenAfter(t)
        /\ call' = [call EXCEPT ![c] = [r EXCEPT !.thread = t, !.born = b, !.pos = pos, !.over = over]]
    BY <1>2, <1>3, <1>4 DEF EndEachThread
  <1>6. /\ [r EXCEPT !.thread = t, !.born = b, !.pos = pos, !.over = over] \in CallType
        /\ call'[c] = [r EXCEPT !.thread = t, !.born = b, !.pos = pos, !.over = over]
        /\ call'[c].pos = pos /\ call'[c].over = over /\ call'[c].process = r.process
        /\ call'[c].inside = r.inside
        /\ call'[c].thread = t /\ call'[c].born = b /\ call'[c].code = r.code
    BY <1>3, <1>5 DEF TypeOK, CallType
  <1>7. /\ call' \in [Slots -> CallType] /\ pc' \in [Slots -> Places] /\ pc'[c] = "ended"
        /\ \A u \in Slots \ {c} : pc'[u] = pc[u] /\ call'[u] = call[u]
    BY <1>1, <1>5, <1>6 DEF TypeOK, Places
  <1>8. Ages /\ StaysEnded
    BY <1>1, <1>3, <1>5, EndingKeeps
  <1>9. ~InWait(c) /\ ~InWait(c)'
    BY <1>1, <1>7 DEF InWait
  <1>10. t \in Listed' /\ b \in 1..born'[t]
    BY <1>1, <1>2, <1>4, Basics DEF EntryOf, Listed
  <1>11. r.process = KernelProcess \/ thread'[t].state = "TERMINATED" \/ born'[t] > 1
    <2>1. CASE t \in Woken(t) /\ r.process # KernelProcess
      <3>1. born[t] # 1
        BY <1>2, <1>3, <2>1, WokenAreKernel DEF EntryOf
      <3>2. born[t] \in Nat \ {0}
        BY <1>4, Basics
      <3> QED
        BY <1>1, <3>1, <3>2
    <2>2. CASE t \notin Woken(t)
      BY <1>3, <1>5, <2>2, Terminated
    <2> QED
      BY <2>1, <2>2
  <1>12. CallOK(c)' /\ CountOK(c)'
    <2>1. SameLists
      BY <1>1 DEF SameLists
    <2> QED
      BY <1>1, <1>2, <1>3, <1>4, <1>6, <1>7, <1>8, <1>10, <1>11, <2>1, TurnOK DEF Ended
  <1> QED
    BY <1>1, <1>3, <1>5, <1>7, <1>9, <1>12, SeenTypes, EndingStep

(* The end of the process's own last thread, while it is still running. *)
LEMMA EndItselfStep ==
    ASSUME ProcessInv, NEW c \in Slots, EndItself(c)
    PROVE  ProcessInv'
  <1> USE DEF ProcessInv
  <1>1. /\ Sound /\ c = current /\ pc[c] = "teardown"
        /\ pc' = [pc EXCEPT ![c] = "ended"]
        /\ seen' = [SeenAfter(c) EXCEPT !.misused = seen.misused]
        /\ UNCHANGED <<count, process, current, born>>
    BY DEF EndItself, OnProcessor
  <1>2. PICK r \in CallType : r = call[c] /\ r.code \in Codes
    <2>1. ~InWait(c)
      BY <1>1 DEF InWait
    <2> QED
      BY <1>1, <2>1 DEF TypeOK, CallsInv, CallOK
  <1>3. c \in Listed
    BY <1>1, Basics DEF TypeOK
  <1>4. PICK b \in Codes : b = born[c] /\ b \in Nat \ {0}
    BY <1>3, Basics DEF SlotsInv, SlotOK, TypeOK
  <1>5. /\ thread' = Terminate(c, r.code) /\ due' = DueAfter(c, r.code)
        /\ call' = [call EXCEPT ![c] = [r EXCEPT !.thread = c, !.born = b]]
    BY <1>2, <1>4 DEF EndItself
  <1>6. /\ [r EXCEPT !.thread = c, !.born = b] \in CallType
        /\ call'[c] = [r EXCEPT !.thread = c, !.born = b]
        /\ call'[c].pos = r.pos /\ call'[c].over = r.over /\ call'[c].process = r.process
        /\ call'[c].inside = r.inside
        /\ call'[c].thread = c /\ call'[c].born = b /\ call'[c].code = r.code
    BY <1>2, <1>5 DEF TypeOK, CallType
  <1>7. /\ call' \in [Slots -> CallType] /\ pc' \in [Slots -> Places] /\ pc'[c] = "ended"
        /\ \A u \in Slots \ {c} : pc'[u] = pc[u] /\ call'[u] = call[u]
    BY <1>1, <1>5, <1>6 DEF TypeOK, Places
  <1>8. /\ seen' \in SeenType /\ seen'.created = seen.created /\ seen'.misused = seen.misused
        /\ seen'.stray = SeenAfter(c).stray /\ seen'.fault = SeenAfter(c).fault
    <2>1. seen.misused \in Nat
      BY DEF TypeOK, SeenType
    <2> QED
      BY <1>1, <2>1, SeenTypes DEF SeenType
  <1>9. ~InWait(c) /\ ~InWait(c)'
    BY <1>1, <1>7 DEF InWait
  <1>10. Ages /\ StaysEnded
    BY <1>1, <1>2, <1>5, EndingKeeps
  <1>11. CallOK(c)' /\ CountOK(c)'
    <2>1. PICK own \in Seq(Slots) : own = OwnThreads(c) /\ OwnThreads(c)' = own /\ r.process \in Processes
      BY <1>1, <1>2, <1>6 DEF OwnThreads, TypeOK, CallType, ProcessType
    <2>2. /\ r.pos <= Len(own) + 1 /\ (r.over = 0 => r.pos <= Len(own)) /\ r.pos \in Nat \ {0}
          /\ r.process # KernelProcess => \A i \in 1..(r.pos - 1) : Passed(c, own[i])
      BY <1>2, <2>1 DEF CallsInv, CallOK, CallType
    <2>3. ASSUME r.process # KernelProcess, NEW i \in 1..(r.pos - 1) PROVE Passed(c, own[i])'
      <3>1. i \in DOMAIN own /\ own[i] \in Slots
        BY <2>1, <2>2
      <3>2. EntryOf(r.process, own[i])
        BY <1>2, <2>1, <3>1 DEF EntriesInv, OwnThreads
      <3> QED
        BY <1>10, <2>1, <2>2, <2>3, <3>1, <3>2, PassedKept DEF Passed
    <2>4. c \in Listed' /\ b \in 1..born'[c]
      BY <1>1, <1>3, <1>4 DEF Listed
    <2>5. CallOK(c)'
      BY <1>2, <1>6, <1>7, <1>9, <2>1, <2>2, <2>3, <2>4 DEF CallOK
    <2> QED
      BY <1>1, <1>2, <1>6, <1>7, <2>5 DEF CallsInv, CountOK
  <1> QED
    BY <1>1, <1>2, <1>5, <1>7, <1>8, <1>9, <1>11, EndingStep

(* The memory of the process is released: the threads the loop has passed   *)
(* have ended.                                                              *)
LEMMA FreeStep ==
    ASSUME ProcessInv, NEW c \in Slots, FreeProcess(c)
    PROVE  ProcessInv'
  <1> USE DEF ProcessInv
  <1>1. /\ Sound /\ c = current /\ pc[c] \in {"teardown", "torn"}
        /\ pc[c] = "teardown" => thread[c].process # call[c].process
        /\ process' = [process EXCEPT ![call[c].process].freed = 1]
        /\ seen' = [seen EXCEPT !.fault = 1]
        /\ UNCHANGED <<count, thread, current, pc, call, born, due>>
    BY DEF FreeProcess, OnProcessor
  <1>2. PICK q \in Processes : q = call[c].process
    BY DEF TypeOK, CallType
  <1>3. /\ process' \in [Processes -> ProcessType] /\ process'[q].freed = 1
        /\ \A p \in Processes : /\ process'[p].threads = process[p].threads
                                /\ process'[p].activeThreads = process[p].activeThreads
    BY <1>1, <1>2 DEF TypeOK, ProcessType
  <1>4. /\ seen' \in SeenType /\ seen'.fault = 1 /\ seen'.created = seen.created
        /\ seen'.stray = seen.stray /\ seen'.misused = seen.misused
    BY <1>1 DEF TypeOK, SeenType
  <1>5. TypeOK'
    BY <1>1, <1>3, <1>4 DEF TypeOK, Listed
  <1>6. Ages /\ StaysEnded
    BY <1>1, NobodyReturns DEF Ended
  <1>7. SameLists /\ ListsGrow
    <2>1. \A p \in Processes : Len(process[p].threads) \in Nat
      BY DEF TypeOK, ProcessType
    <2> QED
      BY <1>3, <2>1, ProcessAssumption DEF SameLists, ListsGrow
  <1>8. SlotsInv'
    <2>1. process'[KernelProcess].activeThreads \in {0, Wrapped}
      BY <1>3, ProcessAssumption DEF SlotsInv
    <2> QED
      BY <1>1, <1>3, <1>4, <1>7, <2>1, SlotsKept
  <1>9. EntriesInv'
    BY <1>1, <1>6, <1>7, EntriesKept
  <1>10. CallsInv'
    <2>1. ASSUME NEW u \in Slots PROVE CallOK(u)' /\ CountOK(u)'
      BY <1>1, <1>6, <1>7, CallKept, CountKept DEF GoesOn
    <2> QED
      BY <2>1 DEF CallsInv
  <1>11. WaitersInv'
    BY <1>1, <1>4 DEF WaitersInv, WaiterOK, InWait, Ended, IsListed
  <1>12. NodesInv' /\ FreedInv'
    BY <1>4 DEF NodesInv, FreedInv, Sound
  <1>13. WakesItsWaiters'
    BY <1>3, <1>4 DEF WakesItsWaiters
  <1>14. FreedThreadsEnded'
    <2> SUFFICES ASSUME pc[c] = "teardown", NEW i \in DOMAIN process[q].threads, i < call[c].pos,
                        NEW t, t = process[q].threads[i]
                 PROVE  thread[t].state = "TERMINATED" \/ born[t] > 1
      BY <1>1, <1>2, <1>3 DEF FreedThreadsEnded, Ended, Listed
    <2>1. t \in Slots /\ EntryOf(q, t)
      BY DEF EntriesInv, TypeOK, ProcessType
    <2>2. born[t] \in Nat \ {0}
      BY <2>1, Basics DEF EntryOf, SlotsInv, SlotOK, TypeOK
    <2>3. q # KernelProcess
      BY <1>1, <1>2 DEF CallsInv, CountOK
    <2>4. Passed(c, t)
      <3>1. i \in 1..(call[c].pos - 1)
        BY DEF TypeOK, CallType, ProcessType
      <3> QED
        BY <1>2, <2>3, <3>1 DEF CallsInv, CallOK, OwnThreads
    <2>5. t = c => born[t] # 1
      BY <1>1, <1>2, <2>1 DEF EntryOf
    <2> QED
      BY <2>2, <2>4, <2>5 DEF Passed, Ended
  <1> QED
    BY <1>5, <1>8, <1>9, <1>10, <1>11, <1>12, <1>13, <1>14

-----------------------------------------------------------------------------
(* The slot of a new thread: that of one that has ended, or a new one. *)
LEMMA SlotChosen ==
    ASSUME ProcessInv
    PROVE  (SlotFor \in Listed /\ Ended(SlotFor)) \/ SlotFor = count + 1
  <1> DEFINE ended == {t \in Listed : Reusable(t)}
  <1>1. CASE ended = {}
    BY <1>1 DEF SlotFor
  <1>2. CASE ended # {}
    <2>1. ended \subseteq 1..count /\ count \in Nat
      BY Basics DEF ProcessInv, Listed
    <2>2. SlotFor = Max(ended)
      BY <1>2 DEF SlotFor
    <2> HIDE DEF ended
    <2>3. Max(ended) \in ended
      BY <1>2, <2>1, LargestOfNaturals
    <2> QED
      BY <2>2, <2>3 DEF ended, Reusable
  <1> QED
    BY <1>1, <1>2

(* A new thread: who referred to an earlier thread of the slot can tell. *)
LEMMA CreateStep ==
    ASSUME ProcessInv, NEW c \in Slots, NEW p \in Processes, NEW user \in {0, 1},
           xtCreateThread(c, p, user)
    PROVE  ProcessInv'
  <1> USE DEF ProcessInv
  <1>1. PICK t \in Slots : t = SlotFor
    BY DEF xtCreateThread
  <1>2. /\ Sound /\ c = current /\ pc[c] = "run" /\ thread[c].state = "RUN"
        /\ seen.created < MaxBorn
        /\ count' = IF t > count THEN t ELSE count
        /\ thread' = [thread EXCEPT ![t] = Fresh(p, user)]
        /\ process' = [process EXCEPT ![p].threads = Append(@, t)]
        /\ pc' = [pc EXCEPT ![t] = "run"]
        /\ call' = [call EXCEPT ![t] = NoCall]
        /\ born' = [born EXCEPT ![t] = @ + 1]
        /\ due' = [due EXCEPT ![t] = 0]
        /\ seen' = [seen EXCEPT !.created = @ + 1, !.named = IF IsKernel(c) THEN @ ELSE @ \cup {t}]
        /\ current' = current
    BY <1>1 DEF xtCreateThread, Runs, OnProcessor
  <1>3. (t \in Listed /\ Ended(t)) \/ t = count + 1
    BY <1>1, SlotChosen
  <1>4. /\ \A u \in Slots : u \in Listed' <=> u \in Listed \/ u = t
        /\ count' \in Slots /\ Listed' \subseteq Slots /\ Listed \subseteq Listed'
    <2>1. count \in Nat \ {0} /\ Slots = 1..MaxThreads /\ count \in Slots /\ MaxThreads \in Nat
      BY Basics DEF TypeOK
    <2>2. CASE t > count
      <3>1. t = count + 1 /\ count' = t
        BY <1>2, <1>3, <2>1, <2>2 DEF Listed
      <3> QED
        BY <2>1, <3>1 DEF Listed
    <2>3. CASE ~(t > count)
      <3>1. count' = count /\ t \in Listed
        BY <1>2, <2>1, <2>3 DEF Listed
      <3> QED
        BY <2>1, <3>1 DEF Listed
    <2> QED
      BY <2>2, <2>3
  <1>5. c \in Listed /\ t # c /\ t # current
    <2>1. c \in Listed
      BY <1>2, Basics DEF TypeOK
    <2>2. count + 1 \notin Listed
      BY Basics DEF Listed
    <2> QED
      BY <1>2, <1>3, <2>1, <2>2 DEF Ended
  <1>6. /\ \A u \in Slots : u # t => /\ thread'[u] = thread[u] /\ pc'[u] = pc[u] /\ call'[u] = call[u]
                                    /\ born'[u] = born[u] /\ due'[u] = due[u]
        /\ thread'[t] = Fresh(p, user) /\ pc'[t] = "run" /\ call'[t] = NoCall
        /\ born'[t] = born[t] + 1 /\ due'[t] = 0
    BY <1>2 DEF TypeOK
  <1>7. /\ Fresh(p, user) \in ThreadType /\ Fresh(p, user).waitThreads = <<>>
        /\ Fresh(p, user).process = p
    BY DEF Fresh, ThreadType
  <1>8. /\ seen' \in SeenType /\ seen'.created = seen.created + 1 /\ seen'.misused = seen.misused
        /\ seen'.stray = seen.stray /\ seen'.fault = seen.fault /\ seen'.lost = seen.lost
        /\ seen.created \in Nat
    <2>1. seen \in SeenType /\ seen.created \in Codes
      BY DEF TypeOK, SeenType
    <2>2. PICK k \in Codes : k = seen.created + 1 /\ seen.created \in Nat
      <3>1. seen.created \in Nat /\ seen.created + 1 \in Codes
        BY <1>2, <2>1, Basics DEF Codes
      <3> QED
        BY <3>1
    <2>3. PICK S \in SUBSET Slots : S = IF IsKernel(c) THEN seen.named ELSE seen.named \cup {t}
      BY <2>1 DEF SeenType
    <2>4. seen' = [seen EXCEPT !.created = k, !.named = S]
      BY <1>2, <2>2, <2>3
    <2> QED
      BY <2>1, <2>2, <2>4 DEF SeenType
  <1>9. /\ born[t] \in Nat /\ born[t] <= seen.created
        /\ born[t] + 1 \in Codes
        /\ t \in Listed <=> born[t] # 0
        /\ \A u \in Slots : born[u] \in Nat
    <2>1. \A u \in Slots : born[u] \in Nat
      BY Basics DEF TypeOK
    <2> QED
      BY <1>2, <1>8, <2>1, Basics DEF SlotsInv, SlotOK, Codes
  <1>10. /\ process' \in [Processes -> ProcessType]
         /\ \A q \in Processes : /\ process'[q].freed = process[q].freed
                                 /\ process'[q].terminating = process[q].terminating
                                 /\ process'[q].activeThreads = process[q].activeThreads
                                 /\ q # p => process'[q].threads = process[q].threads
         /\ process'[p].threads = Append(process[p].threads, t)
    <2>1. \A q \in Processes : process[q] \in ProcessType
      BY DEF TypeOK
    <2>2. Append(process[p].threads, t) \in Seq(Slots)
      BY <2>1 DEF ProcessType
    <2> QED
      BY <1>2, <2>1, <2>2 DEF TypeOK, ProcessType
  <1>11. TypeOK'
    <2>1. thread' \in [Slots -> ThreadType]
      BY <1>2, <1>7 DEF TypeOK
    <2>2. current' \in Listed' \cup {NoThread}
      BY <1>2, <1>4, <1>5
    <2>3. call' \in [Slots -> CallType]
      BY <1>2, NewCall DEF TypeOK
    <2>4. /\ pc' \in [Slots -> Places]
          /\ due' \in [Slots -> Codes \cup {0}]
      BY <1>2 DEF TypeOK, Places
    <2>5. born' \in [Slots -> Codes \cup {0}]
      BY <1>2, <1>9 DEF TypeOK
    <2> QED
      BY <1>4, <1>8, <1>10, <2>1, <2>2, <2>3, <2>4, <2>5 DEF TypeOK
  <1>12. Ages
    <2> SUFFICES ASSUME NEW u \in Listed
                 PROVE  /\ u \in Listed' /\ born'[u] \in Nat /\ born'[u] >= born[u]
                        /\ born'[u] = born[u] => thread'[u].process = thread[u].process
      BY DEF Ages
    <2>1. u \in Slots
      BY Basics
    <2> QED
      BY <1>4, <1>6, <1>9, <2>1
  <1>13. StaysEnded
    BY <1>6, <1>9 DEF StaysEnded, Ended
  <1>14. ListsGrow
    <2>1. \A q \in Processes : process[q].threads \in Seq(Slots)
      BY DEF TypeOK, ProcessType
    <2>2. \A q \in Processes : Len(process[q].threads) \in Nat
      BY <2>1
    <2>3. /\ Len(Append(process[p].threads, t)) = Len(process[p].threads) + 1
          /\ \A i \in 1..Len(process[p].threads) :
                Append(process[p].threads, t)[i] = process[p].threads[i]
      BY <2>1, OneMore
    <2>4. process'[KernelProcess].activeThreads = process[KernelProcess].activeThreads
      BY <1>10, ProcessAssumption
    <2>5. \A q \in Processes :
             /\ Len(process[q].threads) <= Len(process'[q].threads)
             /\ \A i \in 1..Len(process[q].threads) : process'[q].threads[i] = process[q].threads[i]
      <3> SUFFICES ASSUME NEW q \in Processes
                   PROVE  /\ Len(process[q].threads) <= Len(process'[q].threads)
                          /\ \A i \in 1..Len(process[q].threads) :
                                process'[q].threads[i] = process[q].threads[i]
        OBVIOUS
      <3>1. CASE q = p
        BY <1>10, <2>2, <2>3, <3>1
      <3>2. CASE q # p
        <4>1. process'[q].threads = process[q].threads
          BY <1>10, <3>2
        <4> QED
          BY <2>2, <4>1
      <3> QED
        BY <3>1, <3>2
    <2> QED
      BY <2>4, <2>5 DEF ListsGrow
  <1>15. SlotsInv'
    <2>1. ASSUME NEW q \in Processes, process[q].threads # <<>> \/ q = p
          PROVE  process'[q].threads # <<>>
      <3>1. process[q].threads \in Seq(Slots)
        BY DEF TypeOK, ProcessType
      <3> QED
        BY <1>10, <2>1, <3>1
    <2>2. ASSUME NEW u \in Slots PROVE SlotOK(u)'
      <3>1. SlotOK(u) /\ thread[u].process \in Processes
        BY DEF SlotsInv, TypeOK, ThreadType
      <3>2. CASE u = t
        <4>1. u \in Listed' /\ born'[u] # 0 /\ born'[u] <= seen'.created
          BY <1>4, <1>6, <1>8, <1>9, <3>2
        <4>2. process'[thread'[u].process].threads # <<>>
          BY <1>6, <1>7, <2>1, <3>2
        <4> QED
          BY <4>1, <4>2 DEF SlotOK
      <3>3. CASE u # t
        <4>1. process'[thread'[u].process].threads # <<>>
          BY <1>6, <2>1, <3>1, <3>3 DEF SlotOK
        <4>2. born'[u] <= seen'.created
          BY <1>6, <1>8, <1>9, <3>1, <3>3 DEF SlotOK
        <4> QED
          BY <1>4, <1>6, <3>1, <3>3, <4>1, <4>2 DEF SlotOK
      <3> QED
        BY <3>2, <3>3
    <2>3. process'[KernelProcess].activeThreads \in {0, Wrapped} /\ process'[KernelProcess].threads # <<>>
      BY <1>10, <2>1, ProcessAssumption DEF SlotsInv
    <2> QED
      BY <2>2, <2>3 DEF SlotsInv
  <1>16. EntriesInv'
    <2>1. ASSUME NEW q \in Processes, NEW i \in DOMAIN process'[q].threads
          PROVE  LET u == process'[q].threads[i]
                 IN  u \in Listed' /\ (born'[u] = 1 => thread'[u].process = q)
      <3>1. process[q].threads \in Seq(Slots)
        BY DEF TypeOK, ProcessType
      <3>2. CASE i \in DOMAIN process[q].threads
        <4>1. process'[q].threads[i] = process[q].threads[i]
          BY <1>10, <3>1, <3>2, OneMore
        <4>2. EntryOf(q, process[q].threads[i])
          BY <3>2 DEF EntriesInv
        <4> QED
          BY <1>12, <4>1, <4>2, EntryKept
      <3>3. CASE i \notin DOMAIN process[q].threads
        <4>1. q = p /\ process'[q].threads[i] = t
          BY <1>10, <2>1, <3>1, <3>3, OneMore
        <4> QED
          BY <1>4, <1>6, <1>7, <4>1
      <3> QED
        BY <3>2, <3>3
    <2>2. ASSUME NEW s \in Slots, NEW i \in DOMAIN thread'[s].waitThreads
          PROVE  LET u == thread'[s].waitThreads[i].thread
                 IN  u \in Listed' /\ (born'[u] = 1 => thread'[u].process = KernelProcess)
      <3>1. s # t
        BY <1>6, <1>7, <2>2
      <3>2. EntryOf(KernelProcess, thread[s].waitThreads[i].thread)
        BY <1>6, <2>2, <3>1 DEF EntriesInv
      <3> QED
        BY <1>6, <1>12, <3>1, <3>2, EntryKept
    <2> QED
      BY <2>1, <2>2 DEF EntriesInv, EntryOf
  <1>17. CallsInv'
    <2>1. ASSUME NEW u \in Slots PROVE CallOK(u)' /\ CountOK(u)'
      <3>1. CASE u # t
        BY <1>2, <1>6, <1>12, <1>13, <1>14, <3>1, CallKept, CountKept DEF GoesOn
      <3>2. CASE u = t
        BY <1>6, <1>14, <3>2, NewCall, CallBegins DEF InWait
      <3> QED
        BY <3>1, <3>2
    <2> QED
      BY <2>1 DEF CallsInv
  <1>18. WaitersInv'
    <2> SUFFICES ASSUME NEW u \in Slots, InWait(u)' PROVE WaiterOK(u, call[u].thread)'
      BY DEF WaitersInv
    <2>1. u # t
      BY <1>6 DEF InWait
    <2>2. InWait(u) /\ pc'[u] = pc[u] /\ call'[u] = call[u] /\ due'[u] = due[u] /\ thread'[u] = thread[u]
      BY <1>6, <2>1 DEF InWait
    <2>3. PICK s \in Slots : s = call[u].thread
      BY <2>2, Basics DEF CallsInv, CallOK, InWait
    <2>4. /\ WaiterOK(u, s) /\ s \in Listed
          /\ call[u].born \in 1..born[s] /\ born[s] \in Nat
      BY <1>9, <2>2, <2>3 DEF CallsInv, CallOK, WaitersInv, InWait
    <2>5. CASE s # t
      BY <1>6, <1>8, <2>2, <2>3, <2>4, <2>5 DEF WaiterOK, Ended, IsListed
    <2>6. CASE s = t
      <3>1. born'[s] # call[u].born /\ born'[s] # 1
        BY <1>6, <2>4, <2>6
      <3>2. seen'.stray = 0 /\ pc'[u] = "joining" /\ thread'[u].state = "RUN" => due'[u] # 0
        BY <1>8, <2>2, <2>4 DEF WaiterOK
      <3> QED
        BY <2>2, <2>3, <3>1, <3>2 DEF WaiterOK
    <2> QED
      BY <2>5, <2>6
  <1>19. NodesInv'
    <2> SUFFICES ASSUME Sound, seen.misused = 0, NEW s \in Slots,
                        thread'[s].state # "TERMINATED" \/ s = current,
                        NEW i \in DOMAIN thread'[s].waitThreads
                 PROVE  NodeOK(thread[s].waitThreads[i], s)'
      BY <1>2, <1>8 DEF NodesInv, Sound, Ended
    <2>1. s # t
      BY <1>6, <1>7
    <2>2. thread'[s] = thread[s] /\ NodeOK(thread[s].waitThreads[i], s)
      BY <1>6, <2>1 DEF NodesInv, Ended
    <2>3. PICK u \in Slots : u = thread[s].waitThreads[i].thread
      BY <2>2, NodeThreads
    <2>4. InWait(u) /\ ~Ended(u)
      BY <2>2, <2>3 DEF NodeOK, Joins
    <2>5. u # t
      <3>1. t \notin Listed => pc[t] = "run"
        BY DEF SlotsInv, SlotOK
      <3>2. count + 1 \notin Listed
        BY Basics DEF Listed
      <3> QED
        BY <1>3, <2>4, <3>1, <3>2 DEF InWait
    <2> QED
      BY <1>6, <2>1, <2>2, <2>3, <2>5 DEF NodeOK, Joins, InWait, Ended
  <1>20. FreedInv' /\ FreedThreadsEnded'
    BY <1>2, <1>4, <1>10, <1>11, NothingFreed DEF TypeOK
  <1>21. WakesItsWaiters'
    BY <1>8, <1>10 DEF WakesItsWaiters
  <1> QED
    BY <1>11, <1>15, <1>16, <1>17, <1>18, <1>19, <1>20, <1>21

-----------------------------------------------------------------------------
(* Sleeping and waking: t changes its state only, and does not end; and a   *)
(* waiter releases its lock.                                                *)
LEMMA StateStep ==
    ASSUME ProcessInv, Sound, NEW t \in Listed,
           NEW x \in ThreadType, x.state = "TERMINATED" <=> Ended(t), x.result = thread[t].result,
           x.waitThreads = thread[t].waitThreads, x.process = thread[t].process,
           thread' = [thread EXCEPT ![t] = x],
           UNCHANGED <<count, process, current, call, born, due, seen>>,
           \/ pc[t] = "run" /\ pc' = pc
           \/ pc[t] = "listed" /\ pc' = [pc EXCEPT ![t] = "joining"] /\ x.state = "SLEEP"
           \/ pc[t] = "locked" /\ pc' = [pc EXCEPT ![t] = "listed"]
    PROVE  ProcessInv'
  <1> USE DEF ProcessInv
  <1>1. t \in Slots
    BY Basics
  <1>2. /\ pc' \in [Slots -> Places]
        /\ \A u \in Slots \ {t} : pc'[u] = pc[u]
        /\ \A u \in Slots : InWait(u)' <=> InWait(u)
        /\ ~InWait(t) => pc'[t] = "run" /\ pc[t] = "run"
        /\ pc'[t] = "joining" => x.state = "SLEEP"
        /\ GoesOn(t) \/ (InWait(t) /\ pc'[t] \in {"listed", "joining"})
    BY <1>1 DEF TypeOK, InWait, Places, GoesOn
  <1>3. /\ thread' \in [Slots -> ThreadType]
        /\ \A u \in Slots : /\ thread'[u].process = thread[u].process
                            /\ thread'[u].waitThreads = thread[u].waitThreads
                            /\ thread'[u].result = thread[u].result
                            /\ thread'[u].state = "TERMINATED" <=> Ended(u)
        /\ \A u \in Slots \ {t} : thread'[u] = thread[u]
        /\ thread'[t].state = x.state
    BY <1>1 DEF TypeOK, Ended
  <1>4. TypeOK'
    BY <1>2, <1>3 DEF TypeOK, Listed
  <1>5. Ages /\ StaysEnded
    BY <1>3, NobodyReturns
  <1>6. SameLists /\ ListsGrow
    <2>1. \A p \in Processes : Len(process[p].threads) \in Nat
      BY DEF TypeOK, ProcessType
    <2> QED
      BY <2>1 DEF SameLists, ListsGrow
  <1>7. SlotsInv'
    <2>1. process' \in [Processes -> ProcessType] /\ process'[KernelProcess].activeThreads \in {0, Wrapped}
      BY DEF TypeOK, SlotsInv
    <2> QED
      BY <1>2, <1>3, <1>6, <2>1, SlotsKept
  <1>8. EntriesInv'
    BY <1>3, <1>5, <1>6, EntriesKept
  <1>9. CallsInv'
    <2>1. ASSUME NEW u \in Slots PROVE CallOK(u)'
      <3>1. CASE GoesOn(u)
        BY <1>5, <1>6, <3>1, CallKept
      <3>2. CASE ~GoesOn(u)
        <4>1. u = t /\ InWait(t) /\ pc'[t] \in {"listed", "joining"}
          BY <1>2, <3>2 DEF GoesOn
        <4>2. pc[t] # "run" /\ InWait(t)' /\ pc'[t] # "run"
          BY <4>1 DEF InWait
        <4> QED
          BY <1>3, <4>1, <4>2 DEF CallsInv, CallOK, OwnThreads, Passed, Ended, Listed
      <3> QED
        BY <3>1, <3>2
    <2>2. ASSUME NEW u \in Slots \ {t} PROVE CountOK(u)'
      BY <1>2, <1>5, <1>6, CountKept
    <2>3. CountOK(t)'
      BY <1>1, <1>2 DEF CallsInv, CountOK, InWait
    <2> QED
      BY <2>1, <2>2, <2>3 DEF CallsInv
  <1>10. WaitersInv'
    <2> SUFFICES ASSUME NEW u \in Slots, InWait(u)' PROVE WaiterOK(u, call[u].thread)'
      BY DEF WaitersInv
    <2>1. PICK s \in Slots : s = call[u].thread
      BY <1>2, Basics DEF CallsInv, CallOK, InWait
    <2>2. WaiterOK(u, s)
      BY <1>2, <2>1 DEF WaitersInv
    <2>3. seen.stray = 0 /\ pc'[u] = "joining" /\ thread'[u].state = "RUN" => due[u] # 0
      <3>1. CASE u = t
        BY <1>2, <1>3, <3>1
      <3>2. CASE u # t
        BY <1>2, <1>3, <2>2, <3>2 DEF WaiterOK
      <3> QED
        BY <3>1, <3>2
    <2> QED
      BY <1>3, <2>1, <2>2, <2>3 DEF WaiterOK, Ended, IsListed
  <1>11. NodesInv'
    <2> SUFFICES ASSUME Sound, seen.misused = 0, NEW s \in Slots, ~Ended(s) \/ s = current,
                        NEW i \in DOMAIN thread[s].waitThreads
                 PROVE  NodeOK(thread[s].waitThreads[i], s)'
      BY <1>3 DEF NodesInv, Sound, Ended
    <2>1. NodeOK(thread[s].waitThreads[i], s)
      BY DEF NodesInv
    <2>2. PICK u \in Slots : u = thread[s].waitThreads[i].thread
      BY NodeThreads
    <2>3. InWait(u)'
      BY <1>2, <2>1, <2>2 DEF NodeOK, Joins
    <2> QED
      BY <1>3, <2>1, <2>2, <2>3 DEF NodeOK, Joins, InWait, Ended
  <1>12. FreedInv' /\ FreedThreadsEnded'
    BY <1>4, Basics, NothingFreed DEF TypeOK, Listed
  <1>13. WakesItsWaiters'
    BY DEF WakesItsWaiters
  <1> QED
    BY <1>4, <1>7, <1>8, <1>9, <1>10, <1>11, <1>12, <1>13

(* The four steps of this kind. *)
LEMMA SleepAndWakeStep ==
    ASSUME ProcessInv, NEW c \in Slots,
           SleepElsewhere(c) \/ xtWakeUpThread(c) \/ xtSleepThread(c) \/ xtUnlockSpinlock(c)
    PROVE  ProcessInv'
  <1> USE DEF ProcessInv
  <1>1. thread[c] \in ThreadType
    BY DEF TypeOK
  <1>2. PICK asleep \in ThreadType :
            /\ asleep = Sleeping(c) /\ asleep.state = "SLEEP" /\ asleep.result = thread[c].result
            /\ asleep.waitThreads = thread[c].waitThreads /\ asleep.process = thread[c].process
    <2>1. /\ Sleeping(c) \in ThreadType
          /\ Sleeping(c).state = "SLEEP" /\ Sleeping(c).result = thread[c].result
          /\ Sleeping(c).waitThreads = thread[c].waitThreads /\ Sleeping(c).process = thread[c].process
      BY <1>1 DEF Sleeping, ThreadType
    <2> QED
      BY <2>1
  <1>3. c = current => c \in Listed
    BY Basics DEF TypeOK
  <1>4. CASE SleepElsewhere(c)
    <2>1. /\ Sound /\ c \in Listed /\ ~Ended(c) /\ pc[c] = "run" /\ pc' = pc
          /\ thread' = [thread EXCEPT ![c] = asleep]
          /\ UNCHANGED <<count, process, current, call, born, due, seen>>
      BY <1>2, <1>3, <1>4 DEF SleepElsewhere, Runs, OnProcessor, Ended
    <2> QED
      BY <1>2, <2>1, StateStep DEF Ended
  <1>5. CASE xtSleepThread(c)
    <2>1. /\ Sound /\ c \in Listed /\ ~Ended(c) /\ pc[c] = "listed" /\ pc' = [pc EXCEPT ![c] = "joining"]
          /\ thread' = [thread EXCEPT ![c] = asleep]
          /\ UNCHANGED <<count, process, current, call, born, due, seen>>
      BY <1>2, <1>3, <1>5 DEF xtSleepThread, OnProcessor, Ended
    <2> QED
      BY <1>2, <2>1, StateStep DEF Ended
  <1>6. CASE xtWakeUpThread(c)
    <2>1. PICK awake \in ThreadType :
              /\ awake = [thread[c] EXCEPT !.state = "RUN"] /\ awake.state = "RUN"
              /\ awake.result = thread[c].result
              /\ awake.waitThreads = thread[c].waitThreads /\ awake.process = thread[c].process
      <3> DEFINE aw == [thread[c] EXCEPT !.state = "RUN"]
      <3>1. /\ aw \in ThreadType /\ aw.state = "RUN" /\ aw.result = thread[c].result
            /\ aw.waitThreads = thread[c].waitThreads /\ aw.process = thread[c].process
        BY <1>1 DEF ThreadType
      <3> HIDE DEF aw
      <3>2. \E a : /\ a = aw /\ a \in ThreadType /\ a.state = "RUN" /\ a.result = thread[c].result
                   /\ a.waitThreads = thread[c].waitThreads /\ a.process = thread[c].process
        BY <3>1
      <3> QED
        BY <3>2 DEF aw
    <2>2. /\ Sound /\ c \in Listed /\ ~Ended(c) /\ pc[c] = "run" /\ pc' = pc
          /\ thread' = [thread EXCEPT ![c] = awake]
          /\ UNCHANGED <<count, process, current, call, born, due, seen>>
      BY <1>6, <2>1 DEF xtWakeUpThread, Ended, TypeOK
    <2> QED
      BY <2>1, <2>2, StateStep DEF Ended
  <1>7. CASE xtUnlockSpinlock(c)
    <2>1. /\ Sound /\ c \in Listed /\ pc[c] = "locked" /\ pc' = [pc EXCEPT ![c] = "listed"]
          /\ thread' = [thread EXCEPT ![c] = thread[c]]
          /\ UNCHANGED <<count, process, current, call, born, due, seen>>
      BY <1>3, <1>7 DEF xtUnlockSpinlock, OnProcessor, TypeOK
    <2> QED
      BY <1>1, <2>1, StateStep DEF Ended
  <1> QED
    BY <1>4, <1>5, <1>6, <1>7

-----------------------------------------------------------------------------
(* The waiter puts itself on the list of a thread that has not ended. *)
LEMMA WaitStep ==
    ASSUME ProcessInv, NEW c \in Slots, NEW t \in Slots, xtWaitForThread(c, t)
    PROVE  ProcessInv'
  <1> USE DEF ProcessInv
  <1>1. /\ Sound /\ c = current /\ pc[c] = "run" /\ ~Ended(c) /\ IsKernel(c)
        /\ t \in Listed /\ t # c /\ ~Ended(t)
        /\ thread' = [thread EXCEPT ![t].waitThreads = Append(@, Node(c))]
        /\ pc' = [pc EXCEPT ![c] = "locked"]
        /\ call' = [call EXCEPT ![c] = Waiting(t, born[t])]
        /\ due' = [due EXCEPT ![c] = 0]
        /\ UNCHANGED <<count, process, current, born, seen>>
    BY DEF xtWaitForThread, WithNode, Runs, OnProcessor, Ended, Waiting
  <1>2. c \in Listed
    BY <1>1, Basics DEF TypeOK
  <1>3. born[t] \in Codes /\ born[t] \in Nat \ {0}
    BY <1>1, Basics DEF SlotsInv, SlotOK, TypeOK
  <1>4. PICK r \in CallType : /\ r = Waiting(t, born[t])
                              /\ r.thread = t /\ r.born = born[t] /\ r.pos = 1 /\ r.over = 0
                              /\ r.process = KernelProcess /\ r.inside = 0
    BY <1>3, NewCall
  <1>5. /\ pc' \in [Slots -> Places]
        /\ call' \in [Slots -> CallType] /\ due' \in [Slots -> Codes \cup {0}]
        /\ pc'[c] = "locked" /\ call'[c] = r /\ due'[c] = 0
        /\ \A u \in Slots \ {c} : pc'[u] = pc[u] /\ call'[u] = call[u] /\ due'[u] = due[u]
    BY <1>1, <1>4 DEF TypeOK, Places
  <1>6. PICK old \in Seq(NodeType) : old = thread[t].waitThreads
    BY DEF TypeOK, ThreadType
  <1>7. Node(c) \in NodeType /\ Node(c).freed = 0 /\ Node(c).thread = c
    BY DEF Node, NodeType
  <1>8. /\ Append(old, Node(c)) \in Seq(NodeType)
        /\ DOMAIN old = 1..Len(old) /\ Len(old) \in Nat
        /\ DOMAIN Append(old, Node(c)) = 1..(Len(old) + 1)
        /\ \A i \in 1..Len(old) : Append(old, Node(c))[i] = old[i]
        /\ Append(old, Node(c))[Len(old) + 1] = Node(c)
    BY <1>7, OneMore
  <1>9. /\ thread' \in [Slots -> ThreadType]
        /\ thread'[t].waitThreads = Append(old, Node(c))
        /\ \A u \in Slots : /\ thread'[u].process = thread[u].process
                            /\ thread'[u].result = thread[u].result
                            /\ thread'[u].state = thread[u].state
                            /\ u # t => thread'[u].waitThreads = thread[u].waitThreads
    <2>1. thread' = [thread EXCEPT ![t].waitThreads = Append(old, Node(c))]
      BY <1>1, <1>6
    <2>2. \A u \in Slots : thread[u] \in ThreadType
      BY DEF TypeOK
    <2> QED
      BY <1>8, <2>1, <2>2 DEF TypeOK, ThreadType
  <1>10. \A s \in Slots : \A i \in DOMAIN thread'[s].waitThreads :
             \/ i \in DOMAIN thread[s].waitThreads /\ thread'[s].waitThreads[i] = thread[s].waitThreads[i]
             \/ s = t /\ thread'[s].waitThreads[i] = Node(c)
    <2>1. \A i \in 1..(Len(old) + 1) : i \in 1..Len(old) \/ i = Len(old) + 1
      BY <1>8
    <2> QED
      BY <1>6, <1>8, <1>9, <2>1
  <1>11. TypeOK'
    BY <1>1, <1>5, <1>9 DEF TypeOK, Listed
  <1>12. Ages /\ StaysEnded
    BY <1>1, <1>9, NobodyReturns DEF Ended
  <1>13. SameLists /\ ListsGrow
    <2>1. \A p \in Processes : Len(process[p].threads) \in Nat
      BY DEF TypeOK, ProcessType
    <2> QED
      BY <1>1, <2>1 DEF SameLists, ListsGrow
  <1>14. SlotsInv'
    <2>1. process' \in [Processes -> ProcessType] /\ process'[KernelProcess].activeThreads \in {0, Wrapped}
      BY <1>1 DEF TypeOK, SlotsInv
    <2> QED
      BY <1>1, <1>2, <1>5, <1>9, <1>13, <2>1, SlotsKept
  <1>15. EntriesInv'
    <2>1. \A p \in Processes : \A i \in DOMAIN process'[p].threads :
              LET u == process'[p].threads[i] IN u \in Listed' /\ (born'[u] = 1 => thread'[u].process = p)
      BY <1>12, <1>13, EntryKept DEF EntriesInv, SameLists
    <2>2. ASSUME NEW s \in Slots, NEW i \in DOMAIN thread'[s].waitThreads
          PROVE  LET u == thread'[s].waitThreads[i].thread
                 IN  u \in Listed' /\ (born'[u] = 1 => thread'[u].process = KernelProcess)
      <3>1. EntryOf(KernelProcess, thread'[s].waitThreads[i].thread)
        BY <1>1, <1>2, <1>7, <1>10, <2>2 DEF EntriesInv, EntryOf, IsKernel
      <3> QED
        BY <1>12, <3>1, EntryKept
    <2> QED
      BY <2>1, <2>2 DEF EntriesInv, EntryOf
  <1>16. CallsInv'
    <2>1. ASSUME NEW u \in Slots \ {c} PROVE CallOK(u)' /\ CountOK(u)'
      BY <1>1, <1>5, <1>12, <1>13, CallKept, CountKept DEF GoesOn
    <2>2. CallOK(c)' /\ CountOK(c)'
      <3>1. call'[c].thread \in Listed' /\ call'[c].thread # c /\ call'[c].born \in 1..born'[call'[c].thread]
        BY <1>1, <1>3, <1>4, <1>5 DEF Listed
      <3> QED
        BY <1>4, <1>5, <1>13, <3>1, CallBegins
    <2> QED
      BY <2>1, <2>2 DEF CallsInv
  <1>17. WaitersInv'
    <2> SUFFICES ASSUME NEW u \in Slots, InWait(u)' PROVE WaiterOK(u, call[u].thread)'
      BY DEF WaitersInv
    <2>1. CASE u = c
      <3>1. \E i \in DOMAIN thread'[t].waitThreads : thread'[t].waitThreads[i] = Node(c)
        BY <1>8, <1>9
      <3>2. thread'[t].state # "TERMINATED"
        BY <1>1, <1>9 DEF Ended
      <3> QED
        <4>1. call'[u].thread = t /\ due'[u] = 0 /\ pc'[u] # "joining"
          BY <1>4, <1>5, <2>1
        <4> QED
          BY <2>1, <3>1, <3>2, <4>1 DEF WaiterOK, IsListed, Ended
    <2>2. CASE u # c
      <3>1. InWait(u) /\ pc'[u] = pc[u] /\ call'[u] = call[u] /\ due'[u] = due[u]
        BY <1>5, <2>2 DEF InWait
      <3>2. PICK s \in Slots : s = call[u].thread
        BY <3>1, Basics DEF CallsInv, CallOK, InWait
      <3>3. WaiterOK(u, s)
        BY <3>1, <3>2 DEF WaitersInv
      <3>4. IsListed(u, s) => \E i \in DOMAIN thread'[s].waitThreads : thread'[s].waitThreads[i] = Node(u)
        <4>1. \A i \in DOMAIN thread[s].waitThreads :
                  /\ i \in DOMAIN thread'[s].waitThreads
                  /\ thread'[s].waitThreads[i] = thread[s].waitThreads[i]
          BY <1>6, <1>8, <1>9
        <4> QED
          BY <4>1 DEF IsListed
      <3> QED
        <4>1. /\ thread'[s].result = thread[s].result /\ thread'[s].state = thread[s].state
              /\ thread'[u].state = thread[u].state /\ call'[u].thread = s
              /\ born' = born /\ seen' = seen
          BY <1>1, <1>9, <3>1, <3>2
        <4> QED
          BY <3>1, <3>2, <3>3, <3>4, <4>1 DEF WaiterOK, Ended, IsListed
    <2> QED
      BY <2>1, <2>2
  <1>18. NodesInv'
    <2> SUFFICES ASSUME Sound, seen.misused = 0, NEW s \in Slots, ~Ended(s) \/ s = current,
                        NEW i \in DOMAIN thread'[s].waitThreads
                 PROVE  NodeOK(thread[s].waitThreads[i], s)'
      BY <1>1, <1>9 DEF NodesInv, Sound, Ended
    <2>1. CASE s = t /\ thread'[s].waitThreads[i] = Node(c)
      BY <1>1, <1>4, <1>5, <1>7, <1>9, <2>1 DEF NodeOK, Joins, InWait, Ended
    <2>2. CASE /\ i \in DOMAIN thread[s].waitThreads
               /\ thread'[s].waitThreads[i] = thread[s].waitThreads[i]
      <3>1. NodeOK(thread[s].waitThreads[i], s)
        BY <2>2 DEF NodesInv
      <3>2. PICK u \in Slots : u = thread[s].waitThreads[i].thread
        BY <2>2, NodeThreads
      <3>3. u # c
        BY <1>1, <3>1, <3>2 DEF NodeOK, Joins, InWait
      <3> QED
        BY <1>1, <1>5, <1>9, <2>2, <3>1, <3>2, <3>3 DEF NodeOK, Joins, InWait, Ended
    <2> QED
      BY <1>10, <2>1, <2>2
  <1>19. FreedInv' /\ FreedThreadsEnded'
    BY <1>1, <1>5, Basics, NothingFreed DEF Listed
  <1>20. WakesItsWaiters'
    BY <1>1 DEF WakesItsWaiters
  <1> QED
    BY <1>11, <1>14, <1>15, <1>16, <1>17, <1>18, <1>19, <1>20

(* The waiter that runs again takes its node off: unless somebody was woken *)
(* by mistake, the thread it has waited for has ended by then, so that no   *)
(* live thread loses a node.                                                *)
LEMMA ReturnStep ==
    ASSUME ProcessInv, NEW c \in Slots, ReturnWaiter(c)
    PROVE  ProcessInv'
  <1> USE DEF ProcessInv
  <1>1. Sound /\ c = current /\ pc[c] = "joining" /\ thread[c].state = "RUN" /\ InWait(c)
    BY DEF ReturnWaiter, OnProcessor, InWait
  <1>2. PICK t \in Slots : t = call[c].thread
    BY <1>1, Basics DEF CallsInv, CallOK
  <1>3. /\ t \in Listed /\ t # c /\ c \in Listed /\ WaiterOK(c, t)
        /\ call[c].born \in 1..born[t] /\ born[t] \in Nat
    BY <1>1, <1>2, Basics DEF CallsInv, CallOK, WaitersInv, TypeOK
  <1>4. PICK old \in Seq(NodeType) : old = thread[t].waitThreads
    BY DEF TypeOK, ThreadType
  <1>5. PICK new \in Seq(NodeType) :
            /\ new = TakeOff(old, c)
            /\ \A i \in DOMAIN new : \E j \in DOMAIN old :
                  new[i].thread = old[j].thread /\ (old[j] # Node(c) => new[i] = old[j])
    <2>1. /\ TakeOff(old, c) \in Seq(NodeType)
          /\ \A i \in DOMAIN TakeOff(old, c) : \E j \in DOMAIN old :
                 /\ TakeOff(old, c)[i].thread = old[j].thread
                 /\ old[j] # Node(c) => TakeOff(old, c)[i] = old[j]
      BY TakenOff
    <2> QED
      BY <2>1
  <1>6. /\ thread' = [thread EXCEPT ![t].waitThreads = new]
        /\ pc' = [pc EXCEPT ![c] = "run"]
        /\ call' = [call EXCEPT ![c] = NoCall]
        /\ due' = [due EXCEPT ![c] = 0]
        /\ UNCHANGED <<count, process, current, born, seen>>
    BY <1>2, <1>4, <1>5 DEF ReturnWaiter
  <1>7. /\ pc' \in [Slots -> Places]
        /\ call' \in [Slots -> CallType] /\ due' \in [Slots -> Codes \cup {0}]
        /\ pc'[c] = "run"
        /\ \A u \in Slots \ {c} : pc'[u] = pc[u] /\ call'[u] = call[u] /\ due'[u] = due[u]
    BY <1>6, NewCall DEF TypeOK, Places
  <1>8. /\ thread' \in [Slots -> ThreadType]
        /\ thread'[t].waitThreads = new
        /\ \A u \in Slots : /\ thread'[u].process = thread[u].process
                            /\ thread'[u].result = thread[u].result
                            /\ thread'[u].state = thread[u].state
                            /\ u # t => thread'[u].waitThreads = thread[u].waitThreads
    <2>1. \A u \in Slots : thread[u] \in ThreadType
      BY DEF TypeOK
    <2> QED
      BY <1>6, <2>1 DEF TypeOK, ThreadType
  <1>9. TypeOK'
    BY <1>6, <1>7, <1>8 DEF TypeOK, Listed
  <1>10. Ages /\ StaysEnded
    BY <1>6, <1>8, NobodyReturns DEF Ended
  <1>11. SameLists /\ ListsGrow
    <2>1. \A p \in Processes : Len(process[p].threads) \in Nat
      BY DEF TypeOK, ProcessType
    <2> QED
      BY <1>6, <2>1 DEF SameLists, ListsGrow
  <1>12. SlotsInv'
    <2>1. process' \in [Processes -> ProcessType] /\ process'[KernelProcess].activeThreads \in {0, Wrapped}
      BY <1>6 DEF TypeOK, SlotsInv
    <2> QED
      BY <1>3, <1>6, <1>7, <1>8, <1>11, <2>1, SlotsKept
  <1>13. EntriesInv'
    <2>1. \A p \in Processes : \A i \in DOMAIN process'[p].threads :
              LET u == process'[p].threads[i] IN u \in Listed' /\ (born'[u] = 1 => thread'[u].process = p)
      BY <1>10, <1>11, EntryKept DEF EntriesInv, SameLists
    <2>2. ASSUME NEW s \in Slots, NEW i \in DOMAIN thread'[s].waitThreads
          PROVE  LET u == thread'[s].waitThreads[i].thread
                 IN  u \in Listed' /\ (born'[u] = 1 => thread'[u].process = KernelProcess)
      <3>1. PICK j \in DOMAIN thread[s].waitThreads :
                thread'[s].waitThreads[i].thread = thread[s].waitThreads[j].thread
        <4>1. CASE s = t
          <5>1. i \in DOMAIN new
            BY <1>8, <2>2, <4>1
          <5>2. PICK j \in DOMAIN old : new[i].thread = old[j].thread
            BY <1>5, <5>1
          <5> QED
            BY <1>4, <1>8, <4>1, <5>2
        <4>2. CASE s # t
          <5>1. thread'[s].waitThreads = thread[s].waitThreads
            BY <1>8, <4>2
          <5> QED
            BY <2>2, <5>1
        <4> QED
          BY <4>1, <4>2
      <3>2. EntryOf(KernelProcess, thread[s].waitThreads[j].thread)
        BY <3>1 DEF EntriesInv
      <3> QED
        BY <1>10, <3>1, <3>2, EntryKept
    <2> QED
      BY <2>1, <2>2 DEF EntriesInv, EntryOf
  <1>14. CallsInv'
    <2>1. ASSUME NEW u \in Slots \ {c} PROVE CallOK(u)' /\ CountOK(u)'
      BY <1>1, <1>7, <1>10, <1>11, CallKept, CountKept DEF GoesOn
    <2>2. CallOK(c)' /\ CountOK(c)'
      <3>1. call'[c] = NoCall /\ pc'[c] = "run" /\ ~InWait(c)'
        BY <1>6, <1>7 DEF InWait, TypeOK
      <3> QED
        BY <1>11, <3>1, NewCall, CallBegins
    <2> QED
      BY <2>1, <2>2 DEF CallsInv
  <1>15. seen.stray = 0 => Ended(t) \/ born[t] # call[c].born
    BY <1>1, <1>3 DEF WaiterOK
  <1>16. WaitersInv'
    <2> SUFFICES ASSUME NEW u \in Slots, InWait(u)' PROVE WaiterOK(u, call[u].thread)'
      BY DEF WaitersInv
    <2>1. u # c
      BY <1>7 DEF InWait
    <2>2. InWait(u) /\ pc'[u] = pc[u] /\ call'[u] = call[u] /\ due'[u] = due[u]
      BY <1>7, <2>1 DEF InWait
    <2>3. PICK s \in Slots : s = call[u].thread
      BY <2>2, Basics DEF CallsInv, CallOK, InWait
    <2>4. WaiterOK(u, s)
      BY <2>2, <2>3 DEF WaitersInv
    <2>5. /\ thread'[s].result = thread[s].result /\ thread'[s].state = thread[s].state
          /\ thread'[u].state = thread[u].state /\ call'[u].thread = s
          /\ born' = born /\ seen' = seen
      BY <1>6, <1>8, <2>2, <2>3
    <2>6. seen.stray = 0 /\ due[u] = 0 /\ born[s] = 1 =>
              \E i \in DOMAIN thread'[s].waitThreads : thread'[s].waitThreads[i] = Node(u)
      <3> SUFFICES ASSUME seen.stray = 0, due[u] = 0, born[s] = 1
                   PROVE  \E i \in DOMAIN thread'[s].waitThreads : thread'[s].waitThreads[i] = Node(u)
        OBVIOUS
      <3>1. ~Ended(s) /\ IsListed(u, s)
        BY <2>4 DEF WaiterOK
      <3>2. s # t
        BY <1>3, <1>15, <3>1
      <3> QED
        BY <1>8, <3>1, <3>2 DEF IsListed
    <2> QED
      BY <2>2, <2>4, <2>5, <2>6 DEF WaiterOK, Ended, IsListed
  <1>17. NodesInv'
    <2> SUFFICES ASSUME Sound, seen.misused = 0, NEW s \in Slots, ~Ended(s) \/ s = current,
                        NEW i \in DOMAIN thread'[s].waitThreads
                 PROVE  NodeOK(thread[s].waitThreads[i], s)'
      BY <1>6, <1>8 DEF NodesInv, Sound, Ended
    <2>1. \A j \in DOMAIN thread[s].waitThreads : NodeOK(thread[s].waitThreads[j], s)
      BY DEF NodesInv
    <2>2. ~Joins(c, s)
      <3>1. CASE s = t
        <4>1. ~Ended(t) /\ seen.stray = 0
          BY <1>1, <1>3, <3>1 DEF WakesItsWaiters
        <4> QED
          BY <1>15, <3>1, <4>1 DEF Joins
      <3>2. CASE s # t
        BY <1>2, <3>2 DEF Joins
      <3> QED
        BY <3>1, <3>2
    <2>3. PICK j \in DOMAIN thread[s].waitThreads :
              \/ thread'[s].waitThreads[i] = thread[s].waitThreads[j]
              \/ thread[s].waitThreads[j] = Node(c)
      BY <1>4, <1>5, <1>8
    <2>4. PICK u \in Slots : u = thread[s].waitThreads[j].thread
      BY <2>3, NodeThreads
    <2>5. u # c /\ thread[s].waitThreads[j] # Node(c)
      BY <2>1, <2>2, <2>3, <2>4 DEF NodeOK, Node
    <2>6. thread'[s].waitThreads[i] = thread[s].waitThreads[j] /\ NodeOK(thread[s].waitThreads[j], s)
      BY <2>1, <2>3, <2>5
    <2> QED
      BY <1>6, <1>7, <1>8, <2>4, <2>5, <2>6 DEF NodeOK, Joins, InWait, Ended
  <1>18. FreedInv' /\ FreedThreadsEnded'
    BY <1>1, <1>6, <1>7, Basics, NothingFreed DEF Listed
  <1>19. WakesItsWaiters'
    BY <1>6 DEF WakesItsWaiters
  <1> QED
    BY <1>9, <1>12, <1>13, <1>14, <1>16, <1>17, <1>18, <1>19

-----------------------------------------------------------------------------
(* The processor goes to a thread that has not ended, or idles. *)
LEMMA SwitchStep ==
    ASSUME ProcessInv, Switch
    PROVE  ProcessInv'
  <1> USE DEF ProcessInv
  <1>1. /\ Sound /\ UNCHANGED <<count, thread, process, pc, call, born, due, seen>>
        /\ \/ current' = NoThread
           \/ current' \in Listed /\ thread[current'].state = "RUN"
    <2> DEFINE runnable == {t \in Listed : thread[t].state = "RUN"}
    <2>1. current' \in IF runnable = {} THEN {NoThread} ELSE runnable
      BY DEF Switch
    <2>2. current' = NoThread \/ current' \in runnable
      <3>1. CASE runnable = {}
        BY <2>1, <3>1
      <3>2. CASE runnable # {}
        BY <2>1, <3>2
      <3> QED
        BY <3>1, <3>2
    <2> QED
      BY <2>2 DEF Switch
  <1>2. TypeOK'
    BY <1>1 DEF TypeOK, Listed
  <1>3. SlotsInv' /\ EntriesInv'
    BY <1>1 DEF SlotsInv, SlotOK, EntriesInv, EntryOf, Listed
  <1>4. CallsInv'
    BY <1>1 DEF CallsInv, CallOK, CountOK, SameThread, KernelThread, ProcessOf, InWait, OwnThreads,
        Passed, Ended, Listed, Sound
  <1>5. WaitersInv'
    BY <1>1 DEF WaitersInv, WaiterOK, InWait, Ended, IsListed
  <1>6. NodesInv'
    <2>1. \A s \in Slots : ~Ended(s) \/ s = current' => ~Ended(s)
      BY <1>1, Basics DEF Ended
    <2> QED
      BY <1>1, <2>1 DEF NodesInv, NodeOK, Sound, Joins, InWait, Ended
  <1>7. FreedInv' /\ FreedThreadsEnded' /\ WakesItsWaiters'
    <2>1. FreedInv' /\ WakesItsWaiters'
      BY <1>1 DEF FreedInv, WakesItsWaiters, Sound
    <2>2. FreedThreadsEnded'
      BY <1>1, Basics, NothingFreed DEF TypeOK, Listed
    <2> QED
      BY <2>1, <2>2
  <1> QED
    BY <1>2, <1>3, <1>4, <1>5, <1>6, <1>7

(* One kernel thread; nobody waits. *)
LEMMA Initially == Init => ProcessInv
  <1> SUFFICES ASSUME Init PROVE ProcessInv
    OBVIOUS
  <1>1. /\ MaxThreads \in Nat \ {0} /\ MaxBorn \in Nat \ {0} /\ KernelProcess \in Processes
        /\ 1 \in Slots /\ 1 \in Codes /\ Listed = {1}
    BY ProcessAssumption DEF Slots, Codes, Listed, Init
  <1>2. PICK garbage \in [Processes -> HeapContents], flag \in [Processes -> {0, 1}] :
            process = [p \in Processes |-> xtCreateProcess(p, garbage[p], flag[p])]
    BY DEF Init
  <1>3. \A t \in Slots : /\ thread[t] = Fresh(KernelProcess, 0) /\ pc[t] = "run" /\ call[t] = NoCall
                         /\ born[t] = (IF t = 1 THEN 1 ELSE 0) /\ due[t] = 0
    BY DEF Init
  <1>4. /\ Fresh(KernelProcess, 0) \in ThreadType
        /\ Fresh(KernelProcess, 0).waitThreads = <<>> /\ Fresh(KernelProcess, 0).process = KernelProcess
    BY <1>1 DEF Fresh, ThreadType
  <1>5. ASSUME NEW p \in Processes
        PROVE  /\ process[p] \in ProcessType /\ process[p].freed = 0
               /\ p = KernelProcess => process[p].threads = <<1>> /\ process[p].activeThreads = 0
               /\ p # KernelProcess => process[p].threads = <<>>
    <2>1. garbage[p] \in Nat
      BY ProcessAssumption
    <2>2. <<1>> \in Seq(Slots) /\ <<>> \in Seq(Slots)
      BY <1>1
    <2> QED
      BY <1>2, <2>1, <2>2 DEF xtCreateProcess, ProcessType
  <1>6. seen \in SeenType /\ seen.created = 1 /\ seen.misused = 0 /\ seen.stray = 0 /\ seen.fault = 0
    BY <1>1 DEF Init, SeenType
  <1>7. TypeOK
    <2>1. thread \in [Slots -> ThreadType]
      BY <1>4 DEF Init
    <2>2. process \in [Processes -> ProcessType]
      BY <1>2, <1>5
    <2>3. call \in [Slots -> CallType]
      BY NewCall DEF Init
    <2>4. born \in [Slots -> Codes \cup {0}] /\ due \in [Slots -> Codes \cup {0}]
      BY <1>1 DEF Init
    <2>5. /\ count \in Slots /\ current \in Listed \cup {NoThread}
          /\ pc \in [Slots -> Places]
      BY <1>1 DEF Init, Places
    <2> QED
      BY <1>6, <2>1, <2>2, <2>3, <2>4, <2>5 DEF TypeOK
  <1>8. SlotsInv
    <2>1. process[KernelProcess].threads # <<>> /\ process[KernelProcess].activeThreads = 0
      <3>1. process[KernelProcess].threads = <<1>> /\ process[KernelProcess].activeThreads = 0
        BY <1>1, <1>5
      <3> QED
        BY <3>1
    <2>2. \A t \in Slots : SlotOK(t)
      BY <1>1, <1>3, <1>4, <1>6, <2>1 DEF SlotOK
    <2> QED
      BY <2>1, <2>2 DEF SlotsInv
  <1>9. EntriesInv
    <2>1. \A p \in Processes : \A i \in DOMAIN process[p].threads : p = KernelProcess /\ process[p].threads[i] = 1
      BY <1>5
    <2>2. \A t \in Slots : \A i \in DOMAIN thread[t].waitThreads : FALSE
      BY <1>3, <1>4
    <2> QED
      BY <1>1, <1>3, <1>4, <2>1, <2>2 DEF EntriesInv, EntryOf
  <1>10. CallsInv
    <2>1. PICK n \in Nat : n = Len(process[KernelProcess].threads) /\ n = 1
      <3>1. process[KernelProcess].threads = <<1>>
        BY <1>1, <1>5
      <3>2. Len(<<1>>) = 1
        OBVIOUS
      <3> QED
        BY <3>1, <3>2
    <2> SUFFICES ASSUME NEW c \in Slots PROVE CallOK(c) /\ CountOK(c)
      BY DEF CallsInv
    <2>2. /\ pc[c] = "run" /\ ~InWait(c)
          /\ call[c].process = KernelProcess /\ call[c].pos = 1 /\ call[c].over = 0 /\ call[c].inside = 0
      BY <1>3, NewCall DEF InWait
    <2>3. CallOK(c)
      <3>1. OwnThreads(c) = process[KernelProcess].threads
        BY <2>2 DEF OwnThreads
      <3>2. call[c].pos <= Len(OwnThreads(c)) + 1 /\ call[c].pos <= Len(OwnThreads(c))
        <4>1. 1 <= n + 1 /\ 1 <= n
          BY <2>1
        <4>2. Len(OwnThreads(c)) = n /\ call[c].pos = 1
          BY <2>1, <2>2, <3>1
        <4> QED
          BY <4>1, <4>2
      <3> QED
        BY <2>2, <3>2 DEF CallOK
    <2>4. CountOK(c)
      BY <2>2 DEF CountOK
    <2> QED
      BY <2>3, <2>4
  <1>11. WaitersInv
    BY <1>3 DEF WaitersInv, InWait
  <1>12. NodesInv
    <2>1. \A t \in Slots : \A i \in DOMAIN thread[t].waitThreads : FALSE
      BY <1>3, <1>4
    <2> QED
      BY <2>1 DEF NodesInv
  <1>13. FreedInv /\ WakesItsWaiters
    BY <1>5, <1>6 DEF FreedInv, WakesItsWaiters
  <1>14. FreedThreadsEnded
    BY <1>1, <1>3 DEF FreedThreadsEnded
  <1> QED
    BY <1>7, <1>8, <1>9, <1>10, <1>11, <1>12, <1>13, <1>14 DEF ProcessInv

(* A step of Next is one of the steps above. *)
LEMMA Stepwise == ProcessInv /\ [Next]_vars => ProcessInv'
  <1> SUFFICES ASSUME ProcessInv, [Next]_vars PROVE ProcessInv'
    OBVIOUS
  <1>1. CASE Switch
    BY <1>1, SwitchStep
  <1>2. ASSUME NEW c \in Slots, NEW p \in Processes, NEW user \in {0, 1}, xtCreateThread(c, p, user)
        PROVE  ProcessInv'
    BY <1>2, CreateStep
  <1>3. ASSUME NEW c \in Slots, NEW t \in Slots, xtTerminateThread(c, t, ExitCode(t))
        PROVE  ProcessInv'
    BY <1>3, TerminateStep
  <1>4. ASSUME NEW c \in Slots, Load(c) \/ Store(c) \/ TestCount(c) \/ TestFlag(c) \/ Enter(c)
        PROVE  ProcessInv'
    BY <1>4, LoadStep, StoreStep, TestCountStep, TestFlagStep, EnterStep
  <1>5. ASSUME NEW c \in Slots, PassThread(c) \/ EndEachThread(c) \/ Spin(c) PROVE ProcessInv'
    BY <1>5, PassStep, EndEachStep, SpinStep
  <1>6. ASSUME NEW c \in Slots, EndItself(c) PROVE ProcessInv'
    BY <1>6, EndItselfStep
  <1>7. ASSUME NEW c \in Slots, FreeProcess(c) PROVE ProcessInv'
    BY <1>7, FreeStep
  <1>8. ASSUME NEW c \in Slots, NEW t \in Slots, xtWaitForThread(c, t) PROVE ProcessInv'
    BY <1>8, WaitStep
  <1>9. ASSUME NEW c \in Slots,
               SleepElsewhere(c) \/ xtWakeUpThread(c) \/ xtSleepThread(c) \/ xtUnlockSpinlock(c)
        PROVE  ProcessInv'
    BY <1>9, SleepAndWakeStep
  <1>10. ASSUME NEW c \in Slots, ReturnWaiter(c) PROVE ProcessInv'
    BY <1>10, ReturnStep
  <1>11. CASE UNCHANGED vars
    BY <1>11 DEF vars, ProcessInv, TypeOK, SlotsInv, SlotOK, EntriesInv, EntryOf, CallsInv, CallOK,
        CountOK, SameThread, KernelThread, ProcessOf, InWait, OwnThreads, Passed, Ended, Listed,
        WaitersInv, WaiterOK, IsListed, NodesInv, NodeOK, Joins, Sound, FreedInv, WakesItsWaiters, FreedThreadsEnded
  <1> QED
    BY <1>1, <1>2, <1>3, <1>4, <1>5, <1>6, <1>7, <1>8, <1>9, <1>10, <1>11 DEF Next

(* The inductive invariant of process.c holds for all its constants. *)
THEOREM ProcessInvHolds == Spec => []ProcessInv
  BY Initially, Stepwise, PTL DEF Spec

-----------------------------------------------------------------------------
(* Who waits for a thread in its first life is on the list of that thread,  *)
(* which lives, or its end has been missed (process.c:420); and the memory  *)
(* of a process is released only when the threads its loop has passed have  *)
(* ended (process.c:249).                                                   *)
THEOREM ThreadStructuresAreSound == Spec => []ThreadsInv
  <1>1. ASSUME ProcessInv PROVE SleeperIsListed
    <2> SUFFICES ASSUME NEW c \in Listed, Waits(c), born[call[c].thread] = 1, seen.stray = 0, due[c] = 0
                 PROVE  Lives(c) /\ IsListed(c, call[c].thread)
      BY DEF SleeperIsListed, IsListed
    <2>1. c \in Slots /\ InWait(c)
      BY <1>1, Basics DEF ProcessInv, Waits, InWait
    <2>2. call[c].born \in 1..born[call[c].thread]
      BY <1>1, <2>1 DEF ProcessInv, CallsInv, CallOK, InWait
    <2>3. WaiterOK(c, call[c].thread)
      BY <1>1, <2>1 DEF ProcessInv, WaitersInv
    <2> QED
      BY <2>2, <2>3 DEF WaiterOK, Lives
  <1>2. ProcessInv => ThreadsInv
    BY <1>1 DEF ProcessInv, ThreadsInv
  <1> QED
    BY ProcessInvHolds, <1>2, PTL

(* Unless a thread is ended while it waits or a second time, an end makes   *)
(* runnable only who waits for it, and walks no freed node (process.c:186). *)
THEOREM EndsWakeOnlyWaiters == Spec => []WakesItsWaiters
  <1>1. ProcessInv => WakesItsWaiters
    BY DEF ProcessInv
  <1> QED
    BY ProcessInvHolds, <1>1, PTL

(* xtWaitForThread returns the code of the thread it was called for, unless *)
(* the structure has been reused or a stray wake-up has ended the wait      *)
(* (process.c:421-431).                                                     *)
THEOREM JoinReturnsExitCode == Spec => JoinGetsExitCode
  <1> DEFINE Right == \A c \in Slots : JoinReturns(c) => RightResult(c, call[c].thread)
  <1>1. ASSUME ProcessInv, Next PROVE Right
    <2> SUFFICES ASSUME NEW c \in Slots, JoinReturns(c) PROVE RightResult(c, call[c].thread)
      OBVIOUS
    <2>1. pc[c] = "joining" /\ pc'[c] = "run" /\ born'[c] = born[c] /\ InWait(c)
      BY DEF JoinReturns, InWait
    <2>2. pc \in [Slots -> Places]
          /\ born \in [Slots -> Codes \cup {0}] /\ seen.stray \in {0, 1}
      BY <1>1 DEF ProcessInv, TypeOK, SeenType
    <2>3. WaiterOK(c, call[c].thread)
      BY <1>1, <2>1 DEF ProcessInv, WaitersInv
    <2>4. ASSUME NEW d \in Slots, NEW p \in Processes, NEW user \in {0, 1}, xtCreateThread(d, p, user)
          PROVE  FALSE
      <3>1. PICK t \in Slots : t = SlotFor
        BY <2>4 DEF xtCreateThread
      <3>2. pc' = [pc EXCEPT ![t] = "run"] /\ born' = [born EXCEPT ![t] = @ + 1]
        BY <2>4, <3>1 DEF xtCreateThread
      <3>3. \A k \in Codes \cup {0} : k + 1 # k
        BY <1>1, Basics DEF ProcessInv
      <3> QED
        BY <2>1, <2>2, <3>2, <3>3
    <2>5. ASSUME NEW d \in Slots, ReturnWaiter(d) PROVE thread[c].state = "RUN"
      <3>1. d = c
        BY <2>1, <2>2, <2>5 DEF ReturnWaiter
      <3> QED
        BY <2>5, <3>1 DEF ReturnWaiter
    <2>6. ASSUME NEW d \in Slots, TestCount(d) \/ TestFlag(d) PROVE FALSE
      <3>1. pc[d] \in {"stored", "testing"} /\ \A u \in Slots \ {d} : pc'[u] = pc[u]
        BY <2>2, <2>6 DEF TestCount, TestFlag, Return, OnProcessor
      <3> QED
        BY <2>1, <3>1
    <2>7. ASSUME NEW d \in Slots, NEW t \in Slots, xtTerminateThread(d, t, ExitCode(t)) PROVE FALSE
      BY <2>1, <2>2, <2>7 DEF xtTerminateThread
    <2>8. ASSUME NEW d \in Slots, NEW t \in Slots, xtWaitForThread(d, t) PROVE FALSE
      BY <2>1, <2>2, <2>8 DEF xtWaitForThread
    <2>9. ASSUME NEW d \in Slots,
                 \/ xtSleepThread(d) \/ xtUnlockSpinlock(d) \/ EndEachThread(d) \/ EndItself(d)
                 \/ Load(d) \/ Store(d) \/ Enter(d)
          PROVE  FALSE
      <3>1. \E at \in Places \ {"run"} : pc' = [pc EXCEPT ![d] = at]
        BY <2>9 DEF xtSleepThread, xtUnlockSpinlock, EndEachThread, EndItself, Load, Store, Enter, Places
      <3> QED
        BY <2>1, <2>2, <3>1
    <2>10. ASSUME NEW d \in Slots,
                  \/ Switch \/ PassThread(d) \/ FreeProcess(d) \/ Spin(d)
                  \/ SleepElsewhere(d) \/ xtWakeUpThread(d)
           PROVE  FALSE
      <3>1. pc' = pc
        BY <2>10 DEF Switch, PassThread, FreeProcess, Spin, SleepElsewhere, xtWakeUpThread
      <3> QED
        BY <2>1, <3>1
    <2>11. thread[c].state = "RUN"
      BY <1>1, <2>4, <2>5, <2>6, <2>7, <2>8, <2>9, <2>10 DEF Next
    <2> QED
      BY <2>1, <2>2, <2>3, <2>11 DEF WaiterOK, RightResult
  <1>2. ProcessInv /\ [Next]_vars => [Right]_vars
    BY <1>1
  <1> QED
    BY ProcessInvHolds, <1>2, PTL DEF Spec, JoinGetsExitCode

(* The process of the kernel is ended only by the end of a structure that   *)
(* xtCreateThread has given away meanwhile (process.c:200-205).             *)
THEOREM KernelNotEnded == Spec => []KernelOutlivesPrograms
  <1>1. ProcessInv => KernelOutlivesPrograms
    BY DEF ProcessInv, CallsInv, CountOK, SameThread, KernelOutlivesPrograms
  <1> QED
    BY ProcessInvHolds, <1>1, PTL
=============================================================================
