--------------------------- MODULE RWLock_proofs ---------------------------
(***************************************************************************)
(* The readers-writer lock, for every finite set of threads: IndInv is     *)
(* inductive, so the count matches the holders, every sleeper is queued,   *)
(* no wake-up is lost, and the lock implements RWLockSpec.                 *)
(***************************************************************************)
EXTENDS RWLock, FiniteSetTheorems, TLAPS

-----------------------------------------------------------------------------
(* What Append and Tail do to a queue of threads, in the form the queue
   invariants need: an appended thread is last, the others keep their place. *)
LEMMA AppendToQueue ==
    ASSUME NEW q \in Seq(Threads), NEW t \in Threads
    PROVE  /\ Append(q, t) \in Seq(Threads)
           /\ Append(q, t) # <<>>
           /\ Len(q) \in Nat
           /\ Len(Append(q, t)) = Len(q) + 1
           /\ \A i \in 1..Len(q) : Append(q, t)[i] = q[i]
           /\ Append(q, t)[Len(q) + 1] = t
  OBVIOUS

(* Taking the head off a queue (rwWakeOne) shifts the others forward. *)
LEMMA TailOfQueue ==
    ASSUME NEW q \in Seq(Threads), q # <<>>
    PROVE  /\ Head(q) \in Threads
           /\ Tail(q) \in Seq(Threads)
           /\ Len(q) \in Nat \ {0}
           /\ Head(q) = q[1]
           /\ Len(Tail(q)) = Len(q) - 1
           /\ \A i \in 1..Len(q) - 1 : Tail(q)[i] = q[i + 1]
  OBVIOUS

(* An empty queue has no positions. *)
LEMMA EmptyQueue ==
    /\ <<>> \in Seq(Threads)
    /\ Len(<<>>) = 0
  OBVIOUS

(* Entering or leaving the set of readers changes its size by one. *)
LEMMA ReadingIsFinite == IsFiniteSet(Reading) /\ Cardinality(Reading) \in Nat
  BY RWLockAssumption, FS_Subset, FS_CardinalityType DEF Reading

(* A thread that begins to read adds one to the readers inside. *)
LEMMA ReadingGrows ==
    ASSUME NEW t \in Threads, pc \in [Threads -> Location], pc[t] # "reading",
           pc' = [pc EXCEPT ![t] = "reading"]
    PROVE  Cardinality(Reading') = Cardinality(Reading) + 1
  <1>1. Reading' = Reading \cup {t} /\ t \notin Reading
    BY DEF Reading
  <1> QED
    BY <1>1, ReadingIsFinite, FS_AddElement

(* A thread that stops reading takes one away. *)
LEMMA ReadingShrinks ==
    ASSUME NEW t \in Threads, NEW l \in Location \ {"reading"},
           pc \in [Threads -> Location], pc[t] = "reading",
           pc' = [pc EXCEPT ![t] = l]
    PROVE  Cardinality(Reading') = Cardinality(Reading) - 1
  <1>1. Reading' = Reading \ {t} /\ t \in Reading
    BY DEF Reading
  <1> QED
    BY <1>1, ReadingIsFinite, FS_RemoveElement

(* A thread that neither begins nor stops reading leaves the readers alone. *)
LEMMA ReadingStays ==
    ASSUME NEW t \in Threads, NEW l \in Location \ {"reading"},
           pc \in [Threads -> Location], pc[t] # "reading",
           pc' = [pc EXCEPT ![t] = l]
    PROVE  Reading' = Reading
  BY DEF Reading

(* Without readers inside their number is 0. *)
LEMMA NobodyReading == Reading = {} => Cardinality(Reading) = 0
  BY FS_EmptySet

(* What the two wake-up helpers do, with the queue read as a function. *)
LEMMA WakeOneEffect ==
    ASSUME TypeOK, rwWakeOne
    PROVE  /\ waitWriters' \in Seq(Threads)
           /\ state' \in [Threads -> {"RUN", "WAIT"}]
           /\ waitWriters = <<>> => waitWriters' = waitWriters /\ state' = state
           /\ waitWriters # <<>> =>
                 /\ 1 \in 1..Len(waitWriters)
                 /\ waitWriters[1] \in Threads
                 /\ state' = [state EXCEPT ![waitWriters[1]] = "RUN"]
                 /\ Len(waitWriters) \in Nat
                 /\ Len(waitWriters') = Len(waitWriters) - 1
                 /\ \A i \in 1..Len(waitWriters) - 1 : waitWriters'[i] = waitWriters[i + 1]
  <1>1. CASE waitWriters = <<>>
    BY <1>1 DEF rwWakeOne, TypeOK
  <1>2. CASE waitWriters # <<>>
    <2>1. /\ state' = [state EXCEPT ![Head(waitWriters)] = "RUN"]
          /\ waitWriters' = Tail(waitWriters)
      BY <1>2 DEF rwWakeOne
    <2>2. waitWriters \in Seq(Threads) /\ state \in [Threads -> {"RUN", "WAIT"}]
      BY DEF TypeOK
    <2>3. /\ Head(waitWriters) \in Threads
          /\ Tail(waitWriters) \in Seq(Threads)
          /\ Len(waitWriters) \in Nat \ {0}
          /\ Head(waitWriters) = waitWriters[1]
          /\ Len(Tail(waitWriters)) = Len(waitWriters) - 1
          /\ \A i \in 1..Len(waitWriters) - 1 : Tail(waitWriters)[i] = waitWriters[i + 1]
      BY <1>2, <2>2, TailOfQueue
    <2>4. state' \in [Threads -> {"RUN", "WAIT"}]
      BY <2>1, <2>2, <2>3
    <2>5. 1 \in 1..Len(waitWriters) /\ Len(waitWriters) \in Nat
      BY <2>3
    <2>6. waitWriters' \in Seq(Threads) /\ Len(waitWriters') = Len(waitWriters) - 1
      BY <2>1, <2>3
    <2>7. \A i \in 1..Len(waitWriters) - 1 : waitWriters'[i] = waitWriters[i + 1]
      BY <2>1, <2>3
    <2>8. waitWriters[1] \in Threads /\ state' = [state EXCEPT ![waitWriters[1]] = "RUN"]
      BY <2>1, <2>3
    <2> QED
      BY <1>2, <2>4, <2>5, <2>6, <2>7, <2>8
  <1> QED
    BY <1>1, <1>2

(* rwWakeAll makes exactly the queued readers runnable. *)
LEMMA WakeAllEffect ==
    ASSUME TypeOK, rwWakeAll
    PROVE  /\ waitReaders' = <<>>
           /\ waitReaders' \in Seq(Threads)
           /\ Len(waitReaders') = 0
           /\ state' \in [Threads -> {"RUN", "WAIT"}]
           /\ \A t \in Threads : state'[t] = IF InQueue(waitReaders, t) THEN "RUN" ELSE state[t]
  BY EmptyQueue DEF TypeOK, rwWakeAll, InQueue

-----------------------------------------------------------------------------
(* Every step of the lock preserves the type invariant. *)
LEMMA TypeStep == TypeOK /\ HoldersMatchCount /\ [Next]_vars => TypeOK'
  <1> SUFFICES ASSUME TypeOK, HoldersMatchCount, [Next]_vars PROVE TypeOK'
    OBVIOUS
  <1>0. ASSUME NEW t \in Threads, NEW l \in Location, Goto(t, l)
        PROVE  pc' \in [Threads -> Location]
    BY <1>0 DEF TypeOK, Goto
  <1>1. ASSUME NEW t \in Threads, NEW type \in {"read", "write"}, xtLockFile(t, type)
        PROVE  TypeOK'
    <2>1. pc' \in [Threads -> Location]
      BY <1>0, <1>1 DEF xtLockFile, Location
    <2> QED
      BY <1>1, <2>1 DEF TypeOK, xtLockFile
  <1>2. ASSUME NEW t \in Threads, xtAcquireRead(t) PROVE TypeOK'
    <2>1. pc' \in [Threads -> Location]
      BY <1>0, <1>2 DEF xtAcquireRead, rwSleepFails, Location
    <2>2. state' \in [Threads -> {"RUN", "WAIT"}]
      BY <1>2 DEF TypeOK, xtAcquireRead, rwSleep, rwSleepFails
    <2>3. waitReaders' \in Seq(Threads)
      <3>1. Append(waitReaders, t) \in Seq(Threads)
        BY DEF TypeOK
      <3> QED
        BY <1>2, <3>1 DEF TypeOK, xtAcquireRead, rwSleepFails
    <2>4. readers' \in Nat \cup {-1} /\ spinlock' \in {0, 1} /\ waitWriters' = waitWriters
      BY <1>2 DEF TypeOK, xtAcquireRead, CanRead, rwSleepFails
    <2> QED
      BY <2>1, <2>2, <2>3, <2>4 DEF TypeOK
  <1>3. ASSUME NEW t \in Threads, xtAcquireWrite(t) PROVE TypeOK'
    <2>1. pc' \in [Threads -> Location]
      BY <1>0, <1>3 DEF xtAcquireWrite, rwSleepFails, Location
    <2>2. state' \in [Threads -> {"RUN", "WAIT"}]
      BY <1>3 DEF TypeOK, xtAcquireWrite, rwSleep, rwSleepFails
    <2>3. waitWriters' \in Seq(Threads)
      <3>1. Append(waitWriters, t) \in Seq(Threads)
        BY DEF TypeOK
      <3> QED
        BY <1>3, <3>1 DEF TypeOK, xtAcquireWrite, rwSleepFails
    <2>4. readers' \in Nat \cup {-1} /\ spinlock' \in {0, 1} /\ waitReaders' = waitReaders
      BY <1>3 DEF TypeOK, xtAcquireWrite, rwSleepFails
    <2> QED
      BY <2>1, <2>2, <2>3, <2>4 DEF TypeOK
  <1>4. ASSUME NEW t \in Threads, xtReleaseRead(t) PROVE TypeOK'
    <2>1. pc' \in [Threads -> Location]
      BY <1>0, <1>4 DEF xtReleaseRead, Location
    <2>2. waitWriters' \in Seq(Threads) /\ state' \in [Threads -> {"RUN", "WAIT"}]
      <3>1. CASE rwWakeOne
        BY <3>1, WakeOneEffect
      <3>2. CASE UNCHANGED <<waitWriters, state>>
        BY <3>2 DEF TypeOK
      <3> QED
        BY <1>4, <3>1, <3>2 DEF xtReleaseRead
    <2>3. readers' \in Nat
      <3>1. t \in Reading
        BY <1>4 DEF xtReleaseRead, Reading
      <3>2. readers \in Nat /\ readers # 0
        BY <3>1, ReadingIsFinite, FS_EmptySet DEF HoldersMatchCount
      <3> QED
        BY <1>4, <3>2 DEF xtReleaseRead
    <2> QED
      BY <1>4, <2>1, <2>2, <2>3 DEF TypeOK, xtReleaseRead
  <1>5. ASSUME NEW t \in Threads, xtReleaseWrite(t) PROVE TypeOK'
    <2>1. pc' \in [Threads -> Location]
      BY <1>0, <1>5 DEF xtReleaseWrite, Location
    <2>2. /\ waitReaders' \in Seq(Threads)
          /\ waitWriters' \in Seq(Threads)
          /\ state' \in [Threads -> {"RUN", "WAIT"}]
      <3>1. CASE rwWakeOne /\ UNCHANGED waitReaders
        BY <3>1, WakeOneEffect DEF TypeOK
      <3>2. CASE rwWakeAll /\ UNCHANGED waitWriters
        BY <3>2, WakeAllEffect DEF TypeOK
      <3> QED
        BY <1>5, <3>1, <3>2 DEF xtReleaseWrite
    <2> QED
      BY <1>5, <2>1, <2>2 DEF TypeOK, xtReleaseWrite
  <1>6. CASE UNCHANGED vars
    BY <1>6 DEF vars, TypeOK
  <1> QED
    BY <1>1, <1>2, <1>3, <1>4, <1>5, <1>6 DEF Next, WouldBlock

(* A thread enters or leaves a holding location only in the step that
   changes the count to match. *)
LEMMA HoldersStep == IndInv /\ [Next]_vars => HoldersMatchCount'
  <1> SUFFICES ASSUME IndInv, [Next]_vars PROVE HoldersMatchCount'
    OBVIOUS
  <1> USE DEF IndInv, TypeOK, Goto
  <1>0. ASSUME NEW t \in Threads, NEW l \in Location \ {"reading", "writing"},
               pc[t] \notin {"reading", "writing"}, Goto(t, l), readers' = readers
        PROVE  HoldersMatchCount'
    <2>1. Reading' = Reading
      BY <1>0, ReadingStays
    <2> QED
      BY <1>0, <2>1 DEF HoldersMatchCount
  <1>1. ASSUME NEW t \in Threads, NEW type \in {"read", "write"}, xtLockFile(t, type)
        PROVE  HoldersMatchCount'
    BY <1>0, <1>1 DEF xtLockFile, Location
  <1>2. ASSUME NEW t \in Threads, xtAcquireRead(t) PROVE HoldersMatchCount'
    <2>1. CASE CanRead /\ readers' = readers + 1 /\ Goto(t, "reading")
      <3>1. Cardinality(Reading') = Cardinality(Reading) + 1
        BY <1>2, <2>1, ReadingGrows DEF xtAcquireRead
      <3> QED
        BY <1>2, <2>1, <3>1 DEF HoldersMatchCount, CanRead
    <2> QED
      BY <1>0, <1>2, <2>1 DEF xtAcquireRead, rwSleepFails, Location
  <1>3. ASSUME NEW t \in Threads, xtAcquireWrite(t) PROVE HoldersMatchCount'
    <2>1. CASE CanWrite /\ readers' = -1 /\ Goto(t, "writing")
      <3>1. Reading' = Reading
        BY <1>3, <2>1, ReadingStays DEF xtAcquireWrite, Location
      <3>2. Reading = {} /\ \A u \in Threads : pc[u] # "writing"
        <4>1. Cardinality(Reading) = 0
          BY <2>1 DEF CanWrite, HoldersMatchCount
        <4> QED
          BY <2>1, <4>1, ReadingIsFinite, FS_EmptySet DEF CanWrite, HoldersMatchCount
      <3> QED
        BY <1>3, <2>1, <3>1, <3>2 DEF HoldersMatchCount
    <2> QED
      BY <1>0, <1>3, <2>1 DEF xtAcquireWrite, rwSleepFails, Location
  <1>4. ASSUME NEW t \in Threads, xtReleaseRead(t) PROVE HoldersMatchCount'
    <2>1. pc[t] = "reading" /\ readers' = readers - 1 /\ Goto(t, "idle")
      BY <1>4 DEF xtReleaseRead
    <2>2. t \in Reading
      BY <2>1 DEF Reading
    <2>3. Cardinality(Reading') = Cardinality(Reading) - 1
      BY <2>1, ReadingShrinks DEF Location
    <2> QED
      BY <2>1, <2>2, <2>3 DEF HoldersMatchCount
  <1>5. ASSUME NEW t \in Threads, xtReleaseWrite(t) PROVE HoldersMatchCount'
    <2>1. pc[t] = "writing" /\ readers' = 0 /\ Goto(t, "idle")
      BY <1>5 DEF xtReleaseWrite
    <2>2. Reading' = Reading
      BY <2>1, ReadingStays DEF Location
    <2>3. Reading = {} /\ \A u \in Threads : pc[u] = "writing" => u = t
      BY <2>1 DEF HoldersMatchCount
    <2> QED
      BY <2>1, <2>2, <2>3, NobodyReading DEF HoldersMatchCount
  <1>6. CASE UNCHANGED vars
    BY <1>6 DEF vars, HoldersMatchCount, Reading
  <1> QED
    BY <1>1, <1>2, <1>3, <1>4, <1>5, <1>6 DEF Next, WouldBlock

(* A queue stays well formed when the step touches none of its members. *)
LEMMA ReadQueueKept ==
    ASSUME TypeOK, QueueOf(waitReaders, "sleepRead"), waitReaders' = waitReaders,
           \A i \in 1..Len(waitReaders) :
               pc'[waitReaders[i]] = pc[waitReaders[i]] /\ state'[waitReaders[i]] = state[waitReaders[i]]
    PROVE  QueueOf(waitReaders, "sleepRead")'
  BY DEF QueueOf

(* The same for the writers' queue. *)
LEMMA WriteQueueKept ==
    ASSUME TypeOK, QueueOf(waitWriters, "sleepWrite"), waitWriters' = waitWriters,
           \A i \in 1..Len(waitWriters) :
               pc'[waitWriters[i]] = pc[waitWriters[i]] /\ state'[waitWriters[i]] = state[waitWriters[i]]
    PROVE  QueueOf(waitWriters, "sleepWrite")'
  BY DEF QueueOf

(* Only a sleeping thread is queued, so a thread that takes a step is not,
   and the members of the two queues differ. *)
LEMMA RunningIsNotQueued ==
    ASSUME TypeOK, SleepersAreQueued, NEW t \in Threads,
           state[t] = "RUN" \/ pc[t] \notin {"sleepRead", "sleepWrite"}
    PROVE  /\ \A i \in 1..Len(waitReaders) : waitReaders[i] \in Threads /\ waitReaders[i] # t
           /\ \A i \in 1..Len(waitWriters) : waitWriters[i] \in Threads /\ waitWriters[i] # t
  BY DEF SleepersAreQueued, QueueOf, TypeOK

(* No thread is in both queues. *)
LEMMA QueuesAreDisjoint ==
    ASSUME TypeOK, SleepersAreQueued,
           NEW i \in 1..Len(waitReaders), NEW j \in 1..Len(waitWriters)
    PROVE  waitReaders[i] # waitWriters[j]
  BY DEF SleepersAreQueued, QueueOf

(* Every step keeps the sleepers and the two queues in agreement. *)
LEMMA SleepersStep == IndInv /\ [Next]_vars => SleepersAreQueued'
  <1> SUFFICES ASSUME IndInv, [Next]_vars PROVE SleepersAreQueued'
    OBVIOUS
  <1> USE DEF IndInv
  <1>0. ASSUME NEW t \in Threads, NEW l \in Location, Goto(t, l),
               state[t] = "RUN" \/ pc[t] \notin {"sleepRead", "sleepWrite"},
               waitReaders' = waitReaders, waitWriters' = waitWriters, state' = state
        PROVE  SleepersAreQueued'
    <2>1. \A u \in Threads : u # t => pc'[u] = pc[u]
      BY <1>0 DEF Goto, TypeOK
    <2>2. QueueOf(waitReaders, "sleepRead")'
      BY <1>0, <2>1, RunningIsNotQueued, ReadQueueKept DEF SleepersAreQueued
    <2>3. QueueOf(waitWriters, "sleepWrite")'
      BY <1>0, <2>1, RunningIsNotQueued, WriteQueueKept DEF SleepersAreQueued
    <2> QED
      BY <1>0, <2>2, <2>3 DEF SleepersAreQueued, InQueue
  <1>1. ASSUME NEW t \in Threads, NEW type \in {"read", "write"}, xtLockFile(t, type)
        PROVE  SleepersAreQueued'
    BY <1>0, <1>1 DEF xtLockFile, Location
  <1>2. ASSUME NEW t \in Threads, xtAcquireRead(t) PROVE SleepersAreQueued'
    <2>1. CASE waitReaders' = Append(waitReaders, t) /\ rwSleep(t) /\ Goto(t, "sleepRead")
               /\ waitWriters' = waitWriters
      <3>1. /\ \A i \in 1..Len(waitReaders) : waitReaders[i] \in Threads /\ waitReaders[i] # t
            /\ \A i \in 1..Len(waitWriters) : waitWriters[i] \in Threads /\ waitWriters[i] # t
        BY <1>2, RunningIsNotQueued DEF xtAcquireRead
      <3>2. /\ \A u \in Threads : u # t => pc'[u] = pc[u] /\ state'[u] = state[u]
            /\ pc'[t] = "sleepRead" /\ state'[t] = "WAIT"
        BY <2>1 DEF rwSleep, Goto, TypeOK
      <3>3. /\ Len(waitReaders) \in Nat
            /\ Len(waitReaders') = Len(waitReaders) + 1
            /\ \A i \in 1..Len(waitReaders) : waitReaders'[i] = waitReaders[i]
            /\ waitReaders'[Len(waitReaders) + 1] = t
        BY <2>1, AppendToQueue DEF TypeOK
      <3>4. QueueOf(waitWriters, "sleepWrite")'
        BY <2>1, <3>1, <3>2, WriteQueueKept DEF SleepersAreQueued
      <3>5. QueueOf(waitReaders, "sleepRead")'
        BY <3>1, <3>2, <3>3 DEF SleepersAreQueued, QueueOf
      <3>6. ASSUME NEW u \in Threads, state'[u] = "WAIT"
            PROVE  InQueue(waitReaders, u)' \/ InQueue(waitWriters, u)'
        BY <2>1, <3>2, <3>3, <3>6 DEF SleepersAreQueued, InQueue
      <3> QED
        BY <3>4, <3>5, <3>6 DEF SleepersAreQueued
    <2> QED
      BY <1>0, <1>2, <2>1 DEF xtAcquireRead, rwSleepFails, Location
  <1>3. ASSUME NEW t \in Threads, xtAcquireWrite(t) PROVE SleepersAreQueued'
    <2>1. CASE waitWriters' = Append(waitWriters, t) /\ rwSleep(t) /\ Goto(t, "sleepWrite")
               /\ waitReaders' = waitReaders
      <3>1. /\ \A i \in 1..Len(waitReaders) : waitReaders[i] \in Threads /\ waitReaders[i] # t
            /\ \A i \in 1..Len(waitWriters) : waitWriters[i] \in Threads /\ waitWriters[i] # t
        BY <1>3, RunningIsNotQueued DEF xtAcquireWrite
      <3>2. /\ \A u \in Threads : u # t => pc'[u] = pc[u] /\ state'[u] = state[u]
            /\ pc'[t] = "sleepWrite" /\ state'[t] = "WAIT"
        BY <2>1 DEF rwSleep, Goto, TypeOK
      <3>3. /\ Len(waitWriters) \in Nat
            /\ Len(waitWriters') = Len(waitWriters) + 1
            /\ \A i \in 1..Len(waitWriters) : waitWriters'[i] = waitWriters[i]
            /\ waitWriters'[Len(waitWriters) + 1] = t
        BY <2>1, AppendToQueue DEF TypeOK
      <3>4. QueueOf(waitReaders, "sleepRead")'
        BY <2>1, <3>1, <3>2, ReadQueueKept DEF SleepersAreQueued
      <3>5. QueueOf(waitWriters, "sleepWrite")'
        BY <3>1, <3>2, <3>3 DEF SleepersAreQueued, QueueOf
      <3>6. ASSUME NEW u \in Threads, state'[u] = "WAIT"
            PROVE  InQueue(waitReaders, u)' \/ InQueue(waitWriters, u)'
        BY <2>1, <3>2, <3>3, <3>6 DEF SleepersAreQueued, InQueue
      <3> QED
        BY <3>4, <3>5, <3>6 DEF SleepersAreQueued
    <2> QED
      BY <1>0, <1>3, <2>1 DEF xtAcquireWrite, rwSleepFails, Location
  <1>4. ASSUME NEW t \in Threads, pc[t] \in {"reading", "writing"}, Goto(t, "idle"),
               rwWakeOne, waitReaders' = waitReaders
        PROVE  SleepersAreQueued'
    <2>1. CASE waitWriters = <<>>
      BY <1>0, <1>4, <2>1, WakeOneEffect DEF Location
    <2>2. CASE waitWriters # <<>>
      <3> DEFINE h == waitWriters[1]
      <3>1. /\ 1 \in 1..Len(waitWriters) /\ h \in Threads /\ Len(waitWriters) \in Nat
            /\ state' = [state EXCEPT ![h] = "RUN"]
            /\ Len(waitWriters') = Len(waitWriters) - 1
            /\ \A i \in 1..Len(waitWriters) - 1 : waitWriters'[i] = waitWriters[i + 1]
        BY <1>4, <2>2, WakeOneEffect
      <3>2. /\ \A i \in 1..Len(waitReaders) : waitReaders[i] \in Threads /\ waitReaders[i] # t
            /\ \A i \in 1..Len(waitWriters) : waitWriters[i] \in Threads /\ waitWriters[i] # t
        BY <1>4, RunningIsNotQueued
      <3>3. \A u \in Threads : (u # t => pc'[u] = pc[u]) /\ (u # h => state'[u] = state[u])
        BY <1>4, <3>1 DEF Goto, TypeOK
      <3>4. \A i \in 1..Len(waitReaders) : waitReaders[i] # h
        BY <3>1, QueuesAreDisjoint
      <3>5. \A i \in 1..Len(waitWriters) : i # 1 => waitWriters[i] # h
        BY <3>1 DEF SleepersAreQueued, QueueOf
      <3>6. QueueOf(waitReaders, "sleepRead")'
        BY <1>4, <3>2, <3>3, <3>4, ReadQueueKept DEF SleepersAreQueued
      <3>7. QueueOf(waitWriters, "sleepWrite")'
        <4>1. ASSUME NEW i \in 1..Len(waitWriters')
              PROVE  /\ i + 1 \in 1..Len(waitWriters) /\ i + 1 # 1
                     /\ waitWriters'[i] = waitWriters[i + 1]
          BY <3>1, <4>1
        <4>2. \A i \in 1..Len(waitWriters') :
                 pc'[waitWriters'[i]] = "sleepWrite" /\ state'[waitWriters'[i]] = "WAIT"
          BY <3>2, <3>3, <3>5, <4>1 DEF SleepersAreQueued, QueueOf
        <4>3. ASSUME NEW i \in 1..Len(waitWriters'), NEW j \in 1..Len(waitWriters'),
                     waitWriters'[i] = waitWriters'[j]
              PROVE  i = j
          <5>1. waitWriters[i + 1] = waitWriters[j + 1] => i + 1 = j + 1
            BY <4>1 DEF SleepersAreQueued, QueueOf
          <5> QED
            BY <3>1, <4>1, <4>3, <5>1
        <4> QED
          BY <4>2, <4>3 DEF QueueOf
      <3>8. ASSUME NEW u \in Threads, state'[u] = "WAIT"
            PROVE  InQueue(waitReaders, u)' \/ InQueue(waitWriters, u)'
        <4>1. u # h /\ state[u] = "WAIT"
          BY <3>1, <3>3, <3>8 DEF TypeOK
        <4>2. CASE InQueue(waitReaders, u)
          BY <1>4, <4>2 DEF InQueue
        <4>3. CASE InQueue(waitWriters, u)
          <5>1. PICK i \in 1..Len(waitWriters) : waitWriters[i] = u
            BY <4>3 DEF InQueue
          <5>2. i - 1 \in 1..Len(waitWriters')
            BY <3>1, <4>1, <5>1
          <5>3. waitWriters'[i - 1] = u
            BY <3>1, <4>1, <5>1
          <5> QED
            BY <5>2, <5>3 DEF InQueue
        <4> QED
          BY <4>1, <4>2, <4>3 DEF SleepersAreQueued
      <3> QED
        BY <3>6, <3>7, <3>8 DEF SleepersAreQueued
    <2> QED
      BY <2>1, <2>2
  <1>5. ASSUME NEW t \in Threads, xtReleaseRead(t) PROVE SleepersAreQueued'
    BY <1>0, <1>4, <1>5 DEF xtReleaseRead, Location
  <1>6. ASSUME NEW t \in Threads, xtReleaseWrite(t) PROVE SleepersAreQueued'
    <2>1. CASE rwWakeOne /\ UNCHANGED waitReaders
      BY <1>4, <1>6, <2>1 DEF xtReleaseWrite
    <2>2. CASE rwWakeAll /\ UNCHANGED waitWriters
      <3>1. /\ Len(waitReaders') = 0
            /\ \A u \in Threads : state'[u] = IF InQueue(waitReaders, u) THEN "RUN" ELSE state[u]
        BY <2>2, WakeAllEffect
      <3>2. \A i \in 1..Len(waitWriters) : waitWriters[i] \in Threads /\ waitWriters[i] # t
        BY <1>6, RunningIsNotQueued DEF xtReleaseWrite
      <3>3. \A u \in Threads : u # t => pc'[u] = pc[u]
        BY <1>6 DEF xtReleaseWrite, Goto, TypeOK
      <3>4. \A i \in 1..Len(waitWriters) : ~ InQueue(waitReaders, waitWriters[i])
        BY QueuesAreDisjoint DEF InQueue
      <3>5. QueueOf(waitWriters, "sleepWrite")'
        BY <2>2, <3>1, <3>2, <3>3, <3>4, WriteQueueKept DEF SleepersAreQueued
      <3>6. QueueOf(waitReaders, "sleepRead")'
        BY <3>1 DEF QueueOf
      <3>7. ASSUME NEW u \in Threads, state'[u] = "WAIT"
            PROVE  InQueue(waitWriters, u)'
        <4>1. state[u] = "WAIT" /\ ~ InQueue(waitReaders, u)
          BY <3>1, <3>7
        <4> QED
          BY <2>2, <4>1 DEF SleepersAreQueued, InQueue
      <3> QED
        BY <3>5, <3>6, <3>7 DEF SleepersAreQueued
    <2> QED
      BY <1>6, <2>1, <2>2 DEF xtReleaseWrite
  <1>7. CASE UNCHANGED vars
    BY <1>7 DEF vars, SleepersAreQueued, QueueOf, InQueue
  <1> QED
    BY <1>1, <1>2, <1>3, <1>5, <1>6, <1>7 DEF Next, WouldBlock

(* A writer woken before the step is still on its way after it, unless it
   is the one that took the step. *)
LEMMA WokenWriterStays ==
    ASSUME TypeOK, NEW t \in Threads, NEW l \in Location, Goto(t, l),
           pc[t] # "sleepWrite",
           \A u \in Threads : state[u] = "RUN" => state'[u] = "RUN" \/ u = t
    PROVE  (\E u \in Threads : WokenWriter(u)) => (\E u \in Threads : WokenWriter(u)')
  BY DEF WokenWriter, Goto, TypeOK

(* No step leaves a sleeper without somebody who will wake it. *)
LEMMA NoLostWakeupStep == IndInv /\ [Next]_vars => NoLostWakeup'
  <1> SUFFICES ASSUME IndInv, [Next]_vars, spinlock' = 0 PROVE NoLostWakeup'
    BY DEF NoLostWakeup
  <1> USE DEF IndInv
  <1>0. readers \in Int /\ readers >= -1
    BY ReadingIsFinite DEF HoldersMatchCount, TypeOK
  <1>1. ASSUME NEW t \in Threads, NEW type \in {"read", "write"}, xtLockFile(t, type)
        PROVE  NoLostWakeup'
    <2>1. (\E u \in Threads : WokenWriter(u)) => (\E u \in Threads : WokenWriter(u)')
      BY <1>1, WokenWriterStays DEF xtLockFile, Location
    <2> QED
      BY <1>1, <2>1 DEF xtLockFile, NoLostWakeup
  <1>2. ASSUME NEW t \in Threads, xtAcquireRead(t) PROVE NoLostWakeup'
    <2>1. CASE CanRead /\ readers' = readers + 1 /\ Goto(t, "reading")
               /\ UNCHANGED <<spinlock, waitReaders, waitWriters, state>>
      <3>1. (\E u \in Threads : WokenWriter(u)) => (\E u \in Threads : WokenWriter(u)')
        BY <1>2, <2>1, WokenWriterStays DEF xtAcquireRead, Location
      <3> QED
        BY <1>2, <2>1, <3>1 DEF NoLostWakeup, CanRead, xtAcquireRead
    <2>2. CASE ~CanRead /\ waitReaders' = Append(waitReaders, t) /\ rwSleep(t)
               /\ Goto(t, "sleepRead") /\ UNCHANGED <<spinlock, readers, waitWriters>>
      <3>1. (\E u \in Threads : WokenWriter(u)) => (\E u \in Threads : WokenWriter(u)')
        BY <1>2, <2>2, WokenWriterStays DEF xtAcquireRead, Location, rwSleep, TypeOK
      <3> QED
        BY <1>2, <2>2, <3>1 DEF NoLostWakeup, CanRead, xtAcquireRead
    <2> QED
      BY <1>2, <2>1, <2>2 DEF xtAcquireRead, rwSleepFails
  <1>3. ASSUME NEW t \in Threads, xtAcquireWrite(t) PROVE NoLostWakeup'
    <2>1. CASE readers' = -1
      BY <2>1 DEF NoLostWakeup
    <2>2. CASE ~CanWrite /\ waitWriters' = Append(waitWriters, t) /\ readers' = readers
      <3>1. waitWriters' # <<>>
        BY <2>2, AppendToQueue DEF TypeOK
      <3> QED
        BY <2>2, <3>1 DEF NoLostWakeup, CanWrite
    <2> QED
      BY <1>3, <2>1, <2>2 DEF xtAcquireWrite, rwSleepFails
  <1>4. ASSUME NEW t \in Threads, pc[t] \in {"reading", "writing"}, Goto(t, "idle"),
               rwWakeOne, waitWriters # <<>>
        PROVE  NoLostWakeup'
    <2> DEFINE h == waitWriters[1]
    <2>1. 1 \in 1..Len(waitWriters) /\ h \in Threads /\ state' = [state EXCEPT ![h] = "RUN"]
      BY <1>4, WakeOneEffect
    <2>2. pc[h] = "sleepWrite"
      BY <2>1 DEF SleepersAreQueued, QueueOf
    <2>3. pc'[h] = "sleepWrite" /\ state'[h] = "RUN"
      BY <1>4, <2>1, <2>2 DEF Goto, TypeOK
    <2> QED
      BY <2>1, <2>3 DEF NoLostWakeup, WokenWriter
  <1>5. ASSUME NEW t \in Threads, xtReleaseRead(t) PROVE NoLostWakeup'
    <2>1. CASE rwWakeOne /\ waitWriters # <<>>
      BY <1>4, <1>5, <2>1 DEF xtReleaseRead
    <2>2. CASE waitWriters' = waitWriters /\ state' = state
               /\ (waitWriters = <<>> \/ readers' # 0)
      <3>1. (\E u \in Threads : WokenWriter(u)) => (\E u \in Threads : WokenWriter(u)')
        BY <1>5, <2>2, WokenWriterStays DEF xtReleaseRead, Location
      <3>2. readers # -1
        <4>1. t \in Reading
          BY <1>5 DEF xtReleaseRead, Reading
        <4> QED
          BY <1>0, <4>1, ReadingIsFinite DEF HoldersMatchCount
      <3> QED
        BY <1>5, <2>2, <3>1, <3>2 DEF xtReleaseRead, NoLostWakeup
    <2>3. rwWakeOne /\ waitWriters = <<>> => waitWriters' = waitWriters /\ state' = state
      BY WakeOneEffect
    <2> QED
      BY <1>5, <2>1, <2>2, <2>3 DEF xtReleaseRead
  <1>6. ASSUME NEW t \in Threads, xtReleaseWrite(t) PROVE NoLostWakeup'
    <2>1. CASE waitWriters # <<>>
      BY <1>4, <1>6, <2>1 DEF xtReleaseWrite
    <2>2. CASE waitWriters = <<>>
      <3>1. waitReaders' = <<>> /\ waitWriters' = <<>>
        BY <1>6, <2>2 DEF xtReleaseWrite, rwWakeAll
      <3> QED
        BY <3>1 DEF NoLostWakeup
    <2> QED
      BY <2>1, <2>2
  <1>7. CASE UNCHANGED vars
    BY <1>7 DEF vars, NoLostWakeup, WokenWriter
  <1> QED
    BY <1>1, <1>2, <1>3, <1>5, <1>6, <1>7 DEF Next, WouldBlock

-----------------------------------------------------------------------------
(* A lock set up by xtInitRWLock satisfies the inductive invariant. *)
LEMMA InitIndInv == Init => IndInv
  <1> SUFFICES ASSUME Init PROVE IndInv
    OBVIOUS
  <1>1. TypeOK
    BY EmptyQueue DEF Init, TypeOK, Location
  <1>2. Reading = {}
    BY DEF Init, Reading
  <1>3. HoldersMatchCount
    BY <1>2, NobodyReading DEF Init, HoldersMatchCount
  <1>4. SleepersAreQueued
    BY EmptyQueue DEF Init, SleepersAreQueued, QueueOf
  <1>5. NoLostWakeup
    BY DEF Init, NoLostWakeup
  <1> QED
    BY <1>1, <1>3, <1>4, <1>5 DEF IndInv

(***************************************************************************)
(* IndInv holds throughout: it is inductive.                               *)
(***************************************************************************)
THEOREM IndInvHolds == Spec => []IndInv
  <1>1. IndInv /\ [Next]_vars => IndInv'
    BY TypeStep, HoldersStep, SleepersStep, NoLostWakeupStep DEF IndInv
  <1> QED
    BY <1>1, InitIndInv, PTL DEF Spec

(***************************************************************************)
(* Type correctness of the lock's fields and of the threads' states.       *)
(***************************************************************************)
THEOREM TypeCorrect == Spec => []TypeOK
  <1>1. IndInv => TypeOK
    BY DEF IndInv
  <1> QED
    BY <1>1, IndInvHolds, PTL

(***************************************************************************)
(* lock->readers always tells who holds the lock.                          *)
(***************************************************************************)
THEOREM CountIsRight == Spec => []HoldersMatchCount
  <1>1. IndInv => HoldersMatchCount
    BY DEF IndInv
  <1> QED
    BY <1>1, IndInvHolds, PTL

(***************************************************************************)
(* The queues hold exactly the sleeping threads.                           *)
(***************************************************************************)
THEOREM SleepersQueued == Spec => []SleepersAreQueued
  <1>1. IndInv => SleepersAreQueued
    BY DEF IndInv
  <1> QED
    BY <1>1, IndInvHolds, PTL

(***************************************************************************)
(* Every sleeping thread has someone left to wake it.                      *)
(***************************************************************************)
THEOREM WakeupsAreNotLost == Spec => []NoLostWakeup
  <1>1. IndInv => NoLostWakeup
    BY DEF IndInv
  <1> QED
    BY <1>1, IndInvHolds, PTL

-----------------------------------------------------------------------------
(***************************************************************************)
(* rwlock.c implements the abstract lock: every step of the code is a      *)
(* grant, a release or invisible to RWLockSpec.                            *)
(***************************************************************************)
THEOREM RefinesRWLockSpec == Spec => ImplementsRWLock
  <1>1. Init => Abs!Init
    BY DEF Init, Abs!Init, held
  <1>2. IndInv /\ [Next]_vars => [Abs!Next]_held
    <2> SUFFICES ASSUME IndInv, [Next]_vars PROVE [Abs!Next]_held
      OBVIOUS
    <2> USE DEF IndInv
    <2>0. ASSUME NEW t \in Threads, NEW l \in Location \ {"reading", "writing"}, Goto(t, l),
                 pc[t] \notin {"reading", "writing"}
          PROVE  held' = held
      BY <2>0 DEF held, Goto, TypeOK
    <2>1. ASSUME NEW t \in Threads, NEW type \in {"read", "write"}, xtLockFile(t, type)
          PROVE  held' = held
      BY <2>0, <2>1 DEF xtLockFile, Location
    <2>2. ASSUME NEW t \in Threads, xtAcquireRead(t)
          PROVE  held' = held \/ Abs!GrantRead(t)
      <3>1. CASE CanRead /\ Goto(t, "reading")
        <4>1. held[t] = "none" /\ \A u \in Threads : held[u] # "write"
          BY <2>2, <3>1 DEF xtAcquireRead, CanRead, HoldersMatchCount, held, TypeOK
        <4>2. held' = [held EXCEPT ![t] = "read"]
          BY <3>1 DEF held, Goto, TypeOK
        <4> QED
          BY <4>1, <4>2 DEF Abs!GrantRead
      <3> QED
        BY <2>0, <2>2, <3>1 DEF xtAcquireRead, rwSleepFails, Location
    <2>3. ASSUME NEW t \in Threads, xtAcquireWrite(t)
          PROVE  held' = held \/ Abs!GrantWrite(t)
      <3>1. CASE CanWrite /\ Goto(t, "writing")
        <4>1. Reading = {} /\ \A u \in Threads : pc[u] # "writing"
          BY <3>1, ReadingIsFinite, FS_EmptySet DEF CanWrite, HoldersMatchCount
        <4>2. \A u \in Threads : held[u] = "none"
          BY <4>1 DEF held, Reading, TypeOK
        <4>3. held' = [held EXCEPT ![t] = "write"]
          BY <3>1 DEF held, Goto, TypeOK
        <4> QED
          BY <4>2, <4>3 DEF Abs!GrantWrite
      <3> QED
        BY <2>0, <2>3, <3>1 DEF xtAcquireWrite, rwSleepFails, Location
    <2>4. ASSUME NEW t \in Threads, pc[t] \in {"reading", "writing"}, Goto(t, "idle")
          PROVE  Abs!Release(t)
      <3>1. held[t] # "none"
        BY <2>4 DEF held, TypeOK
      <3>2. held' = [held EXCEPT ![t] = "none"]
        BY <2>4 DEF held, Goto, TypeOK
      <3> QED
        BY <3>1, <3>2 DEF Abs!Release
    <2>5. ASSUME NEW t \in Threads, xtReleaseRead(t) \/ xtReleaseWrite(t)
          PROVE  Abs!Release(t)
      BY <2>4, <2>5 DEF xtReleaseRead, xtReleaseWrite
    <2>6. CASE UNCHANGED vars
      BY <2>6 DEF vars, held
    <2> QED
      BY <2>1, <2>2, <2>3, <2>5, <2>6 DEF Next, WouldBlock, Abs!Next
  <1> QED
    BY <1>1, <1>2, IndInvHolds, PTL DEF Spec, ImplementsRWLock, Abs!Spec
=============================================================================
