---------------------------- MODULE Mutex_proofs ----------------------------
(***************************************************************************)
(* The mutex, for every set of threads: MutexInv is inductive as it        *)
(* stands, so ownership is exclusive, a waiting thread has one node, and   *)
(* the processor hangs only behind a preempted xtUnlockMutex.              *)
(***************************************************************************)
EXTENDS Mutex, TLAPS

-----------------------------------------------------------------------------
(* xtAppendList: an appended thread is last, the others keep their place. *)
LEMMA AppendToList ==
    ASSUME NEW q \in Seq(Threads), NEW t \in Threads
    PROVE  /\ Append(q, t) \in Seq(Threads)
           /\ Len(q) \in Nat
           /\ Len(Append(q, t)) = Len(q) + 1
           /\ \A i \in 1..Len(q) : Append(q, t)[i] = q[i]
           /\ Append(q, t)[Len(q) + 1] = t
           /\ \A i \in 1..Len(q) : q[i] \in Threads
  OBVIOUS

(* Taking the first node off the list shifts the others forward. *)
LEMMA TailOfList ==
    ASSUME NEW q \in Seq(Threads), q # <<>>
    PROVE  /\ Head(q) \in Threads
           /\ Tail(q) \in Seq(Threads)
           /\ Len(q) \in Nat \ {0}
           /\ Head(q) = q[1]
           /\ Len(Tail(q)) = Len(q) - 1
           /\ \A i \in 1..Len(q) - 1 : Tail(q)[i] = q[i + 1]
           /\ \A i \in 1..Len(q) : q[i] \in Threads
  OBVIOUS

(* The nodes of a list of threads are threads. *)
LEMMA NodesAreThreads ==
    ASSUME NEW q \in Seq(Threads)
    PROVE  Len(q) \in Nat /\ \A i \in 1..Len(q) : q[i] \in Threads
  OBVIOUS

-----------------------------------------------------------------------------
(* A thread that runs into m->lock hangs behind the thread that holds it. *)
LEMMA SpinStep ==
    ASSUME MutexInv, NEW t \in Threads, pc[t] # "waking", Spin(t)
    PROVE  MutexInv'
  <1>1. /\ lock # None /\ hung' = t /\ lock' = lock /\ owner' = owner
        /\ waitList' = waitList /\ state' = state /\ pc' = pc
    BY DEF Spin
  <1>2. lock # t /\ t # None
    BY <1>1, MutexAssumption DEF MutexInv, HangsOnlyBehindUnlock
  <1>3. TypeOK'
    BY <1>1 DEF MutexInv, TypeOK
  <1>4. OwnerIsAlone' /\ ListedOnce'
    BY <1>1 DEF MutexInv, OwnerIsAlone, ListedOnce
  <1>5. HangsOnlyBehindUnlock'
    BY <1>1, <1>2 DEF MutexInv, HangsOnlyBehindUnlock
  <1> QED
    BY <1>3, <1>4, <1>5 DEF MutexInv

(* A thread calls xtLockMutex. *)
LEMMA CallStep ==
    ASSUME MutexInv, NEW t \in Threads, Call(t)
    PROVE  MutexInv'
  <1>1. /\ pc[t] = "idle" /\ state[t] = "RUN" /\ pc' = [pc EXCEPT ![t] = "lock"]
        /\ lock' = lock /\ owner' = owner /\ waitList' = waitList
        /\ state' = state /\ hung' = hung
    BY DEF Call, Goto, Scheduled
  <1>2. /\ pc'[t] = "lock" /\ \A u \in Threads : u # t => pc'[u] = pc[u]
    BY <1>1 DEF MutexInv, TypeOK
  <1>3. TypeOK'
    BY <1>1 DEF MutexInv, TypeOK, Location
  <1>4. OwnerIsAlone'
    BY <1>1, <1>2 DEF MutexInv, OwnerIsAlone
  <1>5. HangsOnlyBehindUnlock'
    BY <1>1, <1>2 DEF MutexInv, HangsOnlyBehindUnlock, TypeOK
  <1>6. ListedOnce'
    <2>1. \A i \in 1..Len(waitList) : waitList[i] \in Threads
      BY NodesAreThreads DEF MutexInv, TypeOK
    <2>2. \A i \in 1..Len(waitList) : waitList[i] # t
      BY <1>1 DEF MutexInv, ListedOnce
    <2> QED
      BY <1>1, <1>2, <2>1, <2>2 DEF MutexInv, ListedOnce
  <1> QED
    BY <1>3, <1>4, <1>5, <1>6 DEF MutexInv

(* xtLockMutex spins, takes the mutex, or registers the thread, which has
   no node yet. *)
LEMMA LockStep ==
    ASSUME MutexInv, NEW t \in Threads, xtLockMutex(t)
    PROVE  MutexInv'
  <1>0. pc[t] = "lock" /\ state[t] = "RUN"
    BY DEF xtLockMutex, Scheduled
  <1>a. Len(waitList) \in Nat /\ \A i \in 1..Len(waitList) : waitList[i] \in Threads
    BY NodesAreThreads DEF MutexInv, TypeOK
  <1>b. \A i \in 1..Len(waitList) : waitList[i] # t
    BY <1>0 DEF MutexInv, ListedOnce
  <1>1. CASE Spin(t)
    BY <1>0, <1>1, SpinStep
  <1>2. CASE /\ lock = None /\ MutexFree /\ owner' = t /\ Goto(t, "critical")
             /\ UNCHANGED <<lock, waitList, state, hung>>
    <2>1. /\ lock = None /\ owner = None /\ owner' = t
          /\ pc' = [pc EXCEPT ![t] = "critical"]
          /\ lock' = lock /\ waitList' = waitList /\ state' = state /\ hung' = hung
      BY <1>2 DEF MutexFree, Goto
    <2>2. /\ pc'[t] = "critical" /\ \A u \in Threads : u # t => pc'[u] = pc[u]
      BY <2>1 DEF MutexInv, TypeOK
    <2>3. TypeOK'
      BY <2>1 DEF MutexInv, TypeOK, Location
    <2>4. OwnerIsAlone'
      BY <2>1, <2>2, MutexAssumption DEF MutexInv, OwnerIsAlone
    <2>5. HangsOnlyBehindUnlock'
      BY <2>1 DEF MutexInv, HangsOnlyBehindUnlock
    <2>6. ListedOnce'
      BY <1>a, <1>b, <2>1, <2>2 DEF MutexInv, ListedOnce
    <2> QED
      BY <2>3, <2>4, <2>5, <2>6 DEF MutexInv
  <1>3. CASE /\ lock = None /\ ~MutexFree /\ waitList' = Append(waitList, t)
             /\ Goto(t, "registered") /\ UNCHANGED <<lock, owner, state, hung>>
    <2>1. /\ lock = None /\ waitList' = Append(waitList, t)
          /\ pc' = [pc EXCEPT ![t] = "registered"]
          /\ lock' = lock /\ owner' = owner /\ state' = state /\ hung' = hung
      BY <1>3 DEF Goto
    <2>2. /\ pc'[t] = "registered" /\ \A u \in Threads : u # t => pc'[u] = pc[u]
      BY <2>1 DEF MutexInv, TypeOK
    <2>3. /\ waitList' \in Seq(Threads)
          /\ Len(waitList') = Len(waitList) + 1
          /\ \A i \in 1..Len(waitList) : waitList'[i] = waitList[i]
          /\ waitList'[Len(waitList) + 1] = t
      BY <2>1, AppendToList DEF MutexInv, TypeOK
    <2>4. TypeOK'
      BY <2>1, <2>3 DEF MutexInv, TypeOK, Location
    <2>5. OwnerIsAlone'
      BY <1>0, <2>1, <2>2 DEF MutexInv, OwnerIsAlone
    <2>6. HangsOnlyBehindUnlock'
      BY <2>1 DEF MutexInv, HangsOnlyBehindUnlock
    <2>7. ListedOnce'
      <3>1. ASSUME NEW i \in 1..Len(waitList')
            PROVE  i \in 1..Len(waitList) \/ i = Len(waitList) + 1
        BY <1>a, <2>3
      <3>2. ASSUME NEW i \in 1..Len(waitList'), NEW j \in 1..Len(waitList'),
                   waitList'[i] = waitList'[j]
            PROVE  i = j
        BY <1>b, <2>3, <3>1, <3>2 DEF MutexInv, ListedOnce
      <3>3. ASSUME NEW i \in 1..Len(waitList')
            PROVE  \/ pc'[waitList'[i]] = "registered" /\ state'[waitList'[i]] = "RUN"
                   \/ pc'[waitList'[i]] = "lock" /\ state'[waitList'[i]] = "SLEEP"
        <4>1. CASE i = Len(waitList) + 1
          BY <1>0, <2>1, <2>2, <2>3, <4>1
        <4>2. CASE i \in 1..Len(waitList)
          BY <1>a, <1>b, <2>1, <2>2, <2>3, <4>2 DEF MutexInv, ListedOnce
        <4> QED
          BY <3>1, <4>1, <4>2
      <3> QED
        BY <3>2, <3>3 DEF ListedOnce
    <2> QED
      BY <2>4, <2>5, <2>6, <2>7 DEF MutexInv
  <1> QED
    BY <1>1, <1>2, <1>3 DEF xtLockMutex

(* A registered thread falls asleep, whether it still has its node or not. *)
LEMMA SleepStep ==
    ASSUME MutexInv, NEW t \in Threads, xtSleepThread(t)
    PROVE  MutexInv'
  <1>1. /\ pc[t] = "registered" /\ state[t] = "RUN"
        /\ state' = [state EXCEPT ![t] = "SLEEP"] /\ pc' = [pc EXCEPT ![t] = "lock"]
        /\ lock' = lock /\ owner' = owner /\ waitList' = waitList /\ hung' = hung
    BY DEF xtSleepThread, Scheduled, Goto, Asleep
  <1>2. /\ pc'[t] = "lock" /\ state'[t] = "SLEEP"
        /\ \A u \in Threads : u # t => pc'[u] = pc[u] /\ state'[u] = state[u]
    BY <1>1 DEF MutexInv, TypeOK
  <1>3. TypeOK'
    BY <1>1 DEF MutexInv, TypeOK, Location
  <1>4. OwnerIsAlone'
    BY <1>1, <1>2 DEF MutexInv, OwnerIsAlone
  <1>5. HangsOnlyBehindUnlock'
    BY <1>1, <1>2 DEF MutexInv, HangsOnlyBehindUnlock, TypeOK
  <1>6. ListedOnce'
    <2>1. \A i \in 1..Len(waitList) : waitList[i] \in Threads
      BY NodesAreThreads DEF MutexInv, TypeOK
    <2> QED
      BY <1>1, <1>2, <2>1 DEF MutexInv, ListedOnce
  <1> QED
    BY <1>3, <1>4, <1>5, <1>6 DEF MutexInv

(* xtUnlockMutex spins, frees the mutex, or also wakes the first thread of
   the list, whose node leaves the list. *)
LEMMA UnlockStep ==
    ASSUME MutexInv, NEW t \in Threads, xtUnlockMutex(t)
    PROVE  MutexInv'
  <1>0. pc[t] = "critical" /\ hung = None /\ owner = t /\ t # None
    BY MutexAssumption DEF xtUnlockMutex, Scheduled, MutexInv, OwnerIsAlone
  <1>a. Len(waitList) \in Nat /\ \A i \in 1..Len(waitList) : waitList[i] \in Threads
    BY NodesAreThreads DEF MutexInv, TypeOK
  <1>b. \A i \in 1..Len(waitList) : waitList[i] # t
    BY <1>0 DEF MutexInv, ListedOnce
  <1>1. CASE Spin(t)
    BY <1>0, <1>1, SpinStep
  <1>2. CASE /\ lock = None /\ waitList = <<>> /\ owner' = None /\ Goto(t, "idle")
             /\ UNCHANGED <<lock, waitList, state, hung>>
    <2>1. /\ lock = None /\ owner' = None /\ pc' = [pc EXCEPT ![t] = "idle"]
          /\ lock' = lock /\ waitList' = waitList /\ state' = state /\ hung' = hung
      BY <1>2 DEF Goto
    <2>2. /\ pc'[t] = "idle" /\ \A u \in Threads : u # t => pc'[u] = pc[u]
      BY <2>1 DEF MutexInv, TypeOK
    <2>3. TypeOK'
      BY <2>1 DEF MutexInv, TypeOK, Location
    <2>4. OwnerIsAlone'
      BY <1>0, <2>1, <2>2, MutexAssumption DEF MutexInv, OwnerIsAlone
    <2>5. HangsOnlyBehindUnlock'
      BY <2>1 DEF MutexInv, HangsOnlyBehindUnlock
    <2>6. ListedOnce'
      BY <1>a, <1>b, <2>1, <2>2 DEF MutexInv, ListedOnce
    <2> QED
      BY <2>3, <2>4, <2>5, <2>6 DEF MutexInv
  <1>3. CASE /\ lock = None /\ waitList # <<>> /\ owner' = None /\ waitList' = Rest
             /\ state' = [state EXCEPT ![Head(waitList)] = "RUN"]
             /\ lock' = t /\ Goto(t, "waking") /\ UNCHANGED hung
    <2>1. /\ waitList # <<>> /\ owner' = None /\ waitList' = Tail(waitList)
          /\ state' = [state EXCEPT ![Head(waitList)] = "RUN"]
          /\ lock' = t /\ pc' = [pc EXCEPT ![t] = "waking"] /\ hung' = None
      BY <1>0, <1>3 DEF Goto, Rest
    <2>2. /\ pc'[t] = "waking" /\ \A u \in Threads : u # t => pc'[u] = pc[u]
      BY <2>1 DEF MutexInv, TypeOK
    <2>3. /\ Head(waitList) \in Threads /\ Head(waitList) = waitList[1]
          /\ waitList' \in Seq(Threads)
          /\ Len(waitList) \in Nat \ {0}
          /\ Len(waitList') = Len(waitList) - 1
          /\ \A i \in 1..Len(waitList) - 1 : waitList'[i] = waitList[i + 1]
      BY <2>1, TailOfList DEF MutexInv, TypeOK
    <2>4. \A u \in Threads : u # waitList[1] => state'[u] = state[u]
      BY <2>1, <2>3 DEF MutexInv, TypeOK
    <2>5. TypeOK'
      BY <2>1, <2>3 DEF MutexInv, TypeOK, Location
    <2>6. OwnerIsAlone'
      BY <1>0, <2>1, <2>2, MutexAssumption DEF MutexInv, OwnerIsAlone
    <2>7. HangsOnlyBehindUnlock'
      BY <2>1, <2>2 DEF HangsOnlyBehindUnlock
    <2>8. ListedOnce'
      <3>1. ASSUME NEW i \in 1..Len(waitList')
            PROVE  /\ i + 1 \in 1..Len(waitList) /\ i + 1 # 1 /\ 1 \in 1..Len(waitList)
                   /\ waitList'[i] = waitList[i + 1]
        BY <2>3
      <3>2. ASSUME NEW i \in 1..Len(waitList'), NEW j \in 1..Len(waitList'),
                   waitList'[i] = waitList'[j]
            PROVE  i = j
        <4>1. i + 1 = j + 1
          BY <3>1, <3>2 DEF MutexInv, ListedOnce
        <4> QED
          BY <4>1
      <3>3. ASSUME NEW i \in 1..Len(waitList')
            PROVE  \/ pc'[waitList'[i]] = "registered" /\ state'[waitList'[i]] = "RUN"
                   \/ pc'[waitList'[i]] = "lock" /\ state'[waitList'[i]] = "SLEEP"
        <4>1. waitList[i + 1] \in Threads /\ waitList[i + 1] # t
          BY <1>a, <1>b, <3>1
        <4>2. waitList[i + 1] # waitList[1]
          BY <3>1 DEF MutexInv, ListedOnce
        <4> QED
          BY <2>2, <2>4, <3>1, <4>1, <4>2 DEF MutexInv, ListedOnce
      <3> QED
        BY <3>2, <3>3 DEF ListedOnce
    <2> QED
      BY <2>5, <2>6, <2>7, <2>8 DEF MutexInv
  <1> QED
    BY <1>1, <1>2, <1>3 DEF xtUnlockMutex

(* The preempted xtUnlockMutex runs again and drops m->lock. *)
LEMMA FinishStep ==
    ASSUME MutexInv, NEW t \in Threads, FinishUnlock(t)
    PROVE  MutexInv'
  <1>1. /\ pc[t] = "waking" /\ hung = None /\ lock' = None /\ pc' = [pc EXCEPT ![t] = "idle"]
        /\ owner' = owner /\ waitList' = waitList /\ state' = state /\ hung' = hung
    BY DEF FinishUnlock, Scheduled, Goto
  <1>2. /\ pc'[t] = "idle" /\ \A u \in Threads : u # t => pc'[u] = pc[u]
    BY <1>1 DEF MutexInv, TypeOK
  <1>3. TypeOK'
    BY <1>1 DEF MutexInv, TypeOK, Location
  <1>4. OwnerIsAlone'
    BY <1>1, <1>2 DEF MutexInv, OwnerIsAlone
  <1>5. HangsOnlyBehindUnlock'
    BY <1>1 DEF HangsOnlyBehindUnlock
  <1>6. ListedOnce'
    <2>1. \A i \in 1..Len(waitList) : waitList[i] \in Threads
      BY NodesAreThreads DEF MutexInv, TypeOK
    <2>2. \A i \in 1..Len(waitList) : waitList[i] # t
      BY <1>1 DEF MutexInv, ListedOnce
    <2> QED
      BY <1>1, <1>2, <2>1, <2>2 DEF MutexInv, ListedOnce
  <1> QED
    BY <1>3, <1>4, <1>5, <1>6 DEF MutexInv

-----------------------------------------------------------------------------
(* MutexInv holds in every reachable state, for every set of threads. *)
THEOREM MutexInvHolds == Spec => []MutexInv
  <1>1. Init => MutexInv
    <2> SUFFICES ASSUME Init PROVE MutexInv
      OBVIOUS
    <2>1. TypeOK
      BY DEF Init, TypeOK, Location
    <2>2. OwnerIsAlone /\ HangsOnlyBehindUnlock
      BY MutexAssumption DEF Init, OwnerIsAlone, HangsOnlyBehindUnlock
    <2>3. ListedOnce
      <3>1. 1..Len(waitList) = {}
        BY DEF Init
      <3> QED
        BY <3>1 DEF ListedOnce
    <2> QED
      BY <2>1, <2>2, <2>3 DEF MutexInv
  <1>2. MutexInv /\ [Next]_vars => MutexInv'
    <2> SUFFICES ASSUME MutexInv, [Next]_vars PROVE MutexInv'
      OBVIOUS
    <2>1. CASE UNCHANGED vars
      BY <2>1 DEF vars, MutexInv, TypeOK, OwnerIsAlone, HangsOnlyBehindUnlock, ListedOnce
    <2>2. ASSUME NEW t \in Threads,
                 \/ Call(t) \/ xtLockMutex(t) \/ xtSleepThread(t)
                 \/ xtUnlockMutex(t) \/ FinishUnlock(t)
          PROVE  MutexInv'
      BY <2>2, CallStep, LockStep, SleepStep, UnlockStep, FinishStep
    <2> QED
      BY <2>1, <2>2 DEF Next
  <1> QED
    BY <1>1, <1>2, PTL DEF Spec

(* At most one thread is inside the mutex, and it is m->owner. *)
THEOREM MutexExcludes == Spec => []OwnerIsAlone
  <1>1. MutexInv => OwnerIsAlone
    BY DEF MutexInv
  <1> QED
    BY <1>1, MutexInvHolds, PTL

(* A waiting thread has one node in the list, and only waiting threads do. *)
THEOREM WaitersListedOnce == Spec => []ListedOnce
  <1>1. MutexInv => ListedOnce
    BY DEF MutexInv
  <1> QED
    BY <1>1, MutexInvHolds, PTL

(* The one way to hang on m->lock is behind a preempted xtUnlockMutex. *)
THEOREM OneWayToHang == Spec => []HangsOnlyBehindUnlock
  <1>1. MutexInv => HangsOnlyBehindUnlock
    BY DEF MutexInv
  <1> QED
    BY <1>1, MutexInvHolds, PTL
=============================================================================
