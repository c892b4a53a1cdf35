----------------------------- MODULE Event_proofs ----------------------------
(***************************************************************************)
(* The events, for any threads, any events and any calls: the lists hold   *)
(* only waiters, locks are held only in the known windows, a signal lets   *)
(* at most one wait through, and nobody who waits for one of several       *)
(* events is left behind.  EventInv is the inductive invariant.            *)
(***************************************************************************)
EXTENDS Event, Integers, WellFoundedInduction, TLAPS

-----------------------------------------------------------------------------
(* Sequences, as lists of threads. *)
LEMMA Concatenation ==
    ASSUME NEW S, NEW p \in Seq(S), NEW q \in Seq(S)
    PROVE  /\ p \o q \in Seq(S) /\ Len(p \o q) = Len(p) + Len(q)
           /\ \A k \in 1..Len(p) : (p \o q)[k] = p[k]
           /\ \A k \in (Len(p) + 1)..(Len(p) + Len(q)) : (p \o q)[k] = q[k - Len(p)]
  OBVIOUS

(* A node is taken out of a list. *)
LEMMA RemovedNode ==
    ASSUME NEW S, NEW s \in Seq(S), NEW i \in 1..Len(s)
    PROVE  /\ RemoveAt(s, i) \in Seq(S)
           /\ Len(RemoveAt(s, i)) = Len(s) - 1
           /\ \A k \in 1..(Len(s) - 1) : RemoveAt(s, i)[k] = IF k < i THEN s[k] ELSE s[k + 1]
  <1> DEFINE p == SubSeq(s, 1, i - 1)
             q == SubSeq(s, i + 1, Len(s))
             r == p \o q
             n == Len(s)
  <1>1. p \in Seq(S) /\ Len(p) = i - 1 /\ \A k \in 1..(i - 1) : p[k] = s[k]
    OBVIOUS
  <1>2. q \in Seq(S) /\ Len(q) = n - i /\ \A k \in 1..(n - i) : q[k] = s[i + k]
    OBVIOUS
  <1>3. n \in Nat /\ i \in 1..n
    OBVIOUS
  <1>4. RemoveAt(s, i) = r
    BY DEF RemoveAt
  <1> HIDE DEF p, q, n
  <1>5. /\ r \in Seq(S) /\ Len(r) = Len(p) + Len(q)
        /\ \A k \in 1..Len(p) : r[k] = p[k]
        /\ \A k \in (Len(p) + 1)..(Len(p) + Len(q)) : r[k] = q[k - Len(p)]
    BY <1>1, <1>2, Concatenation
  <1> HIDE DEF r
  <1>6. Len(r) = n - 1
    BY <1>1, <1>2, <1>3, <1>5
  <1>7. ASSUME NEW k \in 1..(n - 1) PROVE r[k] = IF k < i THEN s[k] ELSE s[k + 1]
    <2>1. CASE k < i
      BY <1>1, <1>3, <1>5, <2>1
    <2>2. CASE ~(k < i)
      <3>1. k - (i - 1) \in 1..(n - i) /\ k \in (Len(p) + 1)..(Len(p) + Len(q))
        BY <1>1, <1>2, <1>3, <2>2
      <3>2. r[k] = q[k - (i - 1)] /\ q[k - (i - 1)] = s[i + (k - (i - 1))]
        BY <1>1, <1>2, <1>5, <3>1
      <3> QED
        BY <1>3, <2>2, <3>2
    <2> QED
      BY <2>1, <2>2
  <1> QED
    BY <1>4, <1>5, <1>6, <1>7 DEF n

(* The first node is taken off. *)
LEMMA WithoutHead ==
    ASSUME NEW S, NEW s \in Seq(S), s # <<>>
    PROVE  /\ Len(s) \in Nat \ {0} /\ Head(s) \in S
           /\ Tail(s) \in Seq(S) /\ Len(Tail(s)) = Len(s) - 1
           /\ \A k \in 1..(Len(s) - 1) : Tail(s)[k] = s[k + 1]
  OBVIOUS

(* A node is put behind the others. *)
LEMMA Appended ==
    ASSUME NEW S, NEW s \in Seq(S), NEW x \in S
    PROVE  /\ Append(s, x) \in Seq(S) /\ Len(s) \in Nat /\ Len(Append(s, x)) = Len(s) + 1
           /\ \A k \in 1..Len(s) : Append(s, x)[k] = s[k]
           /\ Append(s, x)[Len(s) + 1] = x
  OBVIOUS

(* A set of indices has a least one. *)
LEMMA LeastIndex ==
    ASSUME NEW D, D \subseteq Nat, D # {}
    PROVE  Min(D) \in D
  <1>1. PICK d \in D : \A m \in D : ~(<<m, d>> \in OpToRel(<, Nat))
    BY NatLessThanWellFounded, WFMin, Zenon
  <1>2. \A m \in D : ~(m < d)
    BY <1>1 DEF OpToRel
  <1>3. \A m \in D : d <= m
    BY <1>2
  <1> QED
    BY <1>3 DEF Min

-----------------------------------------------------------------------------
(* The arguments of a call in progress. *)
LEMMA Arguments ==
    ASSUME NEW t \in Threads, request[t] \in Requests[t]
    PROVE  /\ Count(t) \in Nat \ {0}
           /\ \A i \in 1..Count(t) : EventAt(t, i) \in Events
           /\ \A e \in Waited(t) : e \in Events /\ \E i \in 1..Count(t) : EventAt(t, i) = e
           /\ \A i \in 1..Count(t) : EventAt(t, i) \in Waited(t)
  <1>1. request[t].events \in Seq(Events) /\ Len(request[t].events) > 0
    BY EventAssumption
  <1>2. Count(t) \in Nat \ {0} /\ \A i \in 1..Count(t) : EventAt(t, i) \in Events
    BY <1>1 DEF Count, EventAt
  <1> QED
    BY <1>2 DEF Waited

-----------------------------------------------------------------------------
(***************************************************************************)
(* A step of thread t changes what belongs to t, and of the events only    *)
(* what no other thread has locked.                                        *)
(***************************************************************************)
OnlyOf(t) == \A u \in Threads \ {t} :
    pc'[u] = pc[u] /\ pos'[u] = pos[u] /\ request'[u] = request[u] /\ target'[u] = target[u]

SparesLocked(t) == \A e \in Events :
    /\ lock[e] \notin {None, t} =>
          lock'[e] = lock[e] /\ list'[e] = list[e] /\ isSignaled'[e] = isSignaled[e]
    /\ lock'[e] \notin {None, t} => lock'[e] = lock[e]

(* Where a thread on a list is, and where a thread that holds a lock is. *)
Placed(t, e) ==
    \/ pc[t] \in {"unlock", "sleep"} /\ e \in Waited(t)
    \/ pc[t] = "remove" /\ \E k \in (pos[t] + 1)..Count(t) : EventAt(t, k) = e

InWindow(t, e) ==
    \/ pc[t] = "waking" /\ target[t] = e
    \/ Unlocking(t) /\ \E k \in (pos[t] + 1)..Count(t) : EventAt(t, k) = e

(* The other threads stay where they are. *)
LEMMA OthersStay ==
    ASSUME NEW t, OnlyOf(t), NEW u \in Threads, u # t
    PROVE  /\ pc'[u] = pc[u] /\ pos'[u] = pos[u] /\ request'[u] = request[u] /\ target'[u] = target[u]
           /\ Count(u)' = Count(u) /\ \A k : EventAt(u, k)' = EventAt(u, k)
           /\ Waited(u)' = Waited(u) /\ Twice(u)' = Twice(u) /\ Unlocking(u)' = Unlocking(u)
           /\ \A e : Placed(u, e)' = Placed(u, e) /\ InWindow(u, e)' = InWindow(u, e)
  <1>1. pc'[u] = pc[u] /\ pos'[u] = pos[u] /\ request'[u] = request[u] /\ target'[u] = target[u]
    BY DEF OnlyOf
  <1>2. Count(u)' = Count(u) /\ \A k : EventAt(u, k)' = EventAt(u, k)
    BY <1>1 DEF Count, EventAt
  <1>3. Waited(u)' = Waited(u)
    BY <1>1 DEF Waited, Count, EventAt
  <1>4. Twice(u)' = Twice(u)
    BY <1>1 DEF Twice, Count, EventAt
  <1>5. Unlocking(u)' = Unlocking(u)
    BY <1>1 DEF Unlocking
  <1>6. \A e : Placed(u, e)' = Placed(u, e)
    BY <1>1 DEF Placed, Waited, Count, EventAt
  <1>7. \A e : InWindow(u, e)' = InWindow(u, e)
    BY <1>1 DEF InWindow, Unlocking, Count, EventAt
  <1> QED
    BY <1>1, <1>2, <1>3, <1>4, <1>5, <1>6, <1>7

(* ListedOnlyWhileWaiting and HeldOnlyInWindows in these words. *)
LEMMA ListsInWords ==
    ListedOnlyWhileWaiting <=> (dangling = {} =>
        \A e \in Events : \A i \in 1..Len(list[e]) :
            /\ \A j \in 1..Len(list[e]) : list[e][j] = list[e][i] => i = j
            /\ Placed(list[e][i], e))
  BY DEF ListedOnlyWhileWaiting, Placed

(* The same for the locks. *)
LEMMA LocksInWords ==
    HeldOnlyInWindows <=> \A e \in Events : lock[e] # None => InWindow(lock[e], e)
  BY DEF HeldOnlyInWindows, InWindow, Unlocking

(* The parts of the invariant that speak of one thread. *)
Within(t) ==
    /\ pc[t] \in {"check", "reset", "won", "unlock", "sleep", "remove"} => request[t] \in Requests[t]
    /\ Unlocking(t) => pos[t] \in 1..(Count(t) - 1) /\ ~Twice(t)
    /\ pc[t] = "remove" => pos[t] \in 0..(Count(t) - 1)

Holds(t) ==
    /\ Unlocking(t) => \A k \in (pos[t] + 1)..Count(t) : lock[EventAt(t, k)] = t
    /\ pc[t] = "waking" => target[t] \in Events /\ lock[target[t]] = t /\ list[target[t]] # <<>>

Keeps(t) == pc[t] = "reset" =>
    \A k \in (pos[t] + 1)..Count(t) : isSignaled[EventAt(t, k)] = 1

(* A step of t keeps them for the others. *)
LEMMA ThreadsKept ==
    ASSUME TypeOK, CallsWithinArguments, WindowsHoldTheirLocks, SignalsKept,
           NEW t \in Threads, OnlyOf(t), SparesLocked(t), Within(t)', Holds(t)', Keeps(t)'
    PROVE  CallsWithinArguments' /\ WindowsHoldTheirLocks' /\ SignalsKept'
  <1>1. ASSUME NEW u \in Threads, u # t
        PROVE  Within(u)' /\ Holds(u)' /\ Keeps(u)'
    <2>1. Within(u) /\ Holds(u) /\ Keeps(u)
      BY DEF CallsWithinArguments, WindowsHoldTheirLocks, SignalsKept, Within, Holds, Keeps
    <2>2. /\ pc'[u] = pc[u] /\ pos'[u] = pos[u] /\ request'[u] = request[u] /\ target'[u] = target[u]
          /\ Count(u)' = Count(u) /\ \A k : EventAt(u, k)' = EventAt(u, k)
          /\ Twice(u)' = Twice(u) /\ Unlocking(u)' = Unlocking(u)
      BY <1>1, OthersStay
    <2>3. u # None
      BY EventAssumption
    <2>4. Within(u)'
      BY <2>1, <2>2 DEF Within
    <2>5. ASSUME Unlocking(u), NEW k \in (pos[u] + 1)..Count(u)
          PROVE  EventAt(u, k) \in Events /\ lock[EventAt(u, k)] = u
      <3>1. request[u] \in Requests[u] /\ pos[u] \in 1..(Count(u) - 1)
        BY <2>1, <2>5 DEF Within, Unlocking
      <3>2. Count(u) \in Nat /\ \A i \in 1..Count(u) : EventAt(u, i) \in Events
        BY <3>1, Arguments
      <3>3. k \in 1..Count(u)
        BY <3>1, <3>2
      <3> QED
        BY <2>1, <2>5, <3>2, <3>3 DEF Holds
    <2>6. \A e \in Events : lock[e] = u =>
             lock'[e] = u /\ list'[e] = list[e] /\ isSignaled'[e] = isSignaled[e]
      BY <1>1, <2>3 DEF SparesLocked
    <2>7. Holds(u)'
      <3>1. ASSUME Unlocking(u)', NEW k \in ((pos[u] + 1)..Count(u))'
            PROVE  lock'[EventAt(u, k)'] = u
        BY <2>2, <2>5, <2>6, <3>1
      <3>2. ASSUME pc'[u] = "waking"
            PROVE  target'[u] \in Events /\ lock'[target'[u]] = u /\ list'[target'[u]] # <<>>
        BY <2>1, <2>2, <2>6, <3>2 DEF Holds
      <3> QED
        BY <3>1, <3>2 DEF Holds
    <2>8. Keeps(u)'
      <3>1. ASSUME pc'[u] = "reset", NEW k \in ((pos[u] + 1)..Count(u))'
            PROVE  isSignaled'[EventAt(u, k)'] = 1
        <4>1. Unlocking(u) /\ pc[u] = "reset" /\ k \in (pos[u] + 1)..Count(u)
          BY <2>2, <3>1 DEF Unlocking
        <4>2. isSignaled[EventAt(u, k)] = 1
          BY <2>1, <4>1 DEF Keeps
        <4> QED
          BY <2>2, <2>5, <2>6, <4>1, <4>2
      <3> QED
        BY <3>1 DEF Keeps
    <2> QED
      BY <2>4, <2>7, <2>8
  <1>2. \A u \in Threads : Within(u)' /\ Holds(u)' /\ Keeps(u)'
    BY <1>1
  <1> QED
    BY <1>2 DEF CallsWithinArguments, WindowsHoldTheirLocks, SignalsKept, Within, Holds, Keeps

(* The locks. *)
LEMMA LocksKept ==
    ASSUME TypeOK, TypeOK', HeldOnlyInWindows, NEW t \in Threads, OnlyOf(t), SparesLocked(t),
           \A e \in Events : lock'[e] = t => InWindow(t, e)'
    PROVE  HeldOnlyInWindows'
  <1>1. ASSUME NEW e \in Events, lock'[e] # None
        PROVE  InWindow(lock[e], e)'
    <2>1. CASE lock'[e] = t
      BY <2>1 DEF InWindow, Unlocking, Count, EventAt
    <2>2. CASE lock'[e] # t
      <3> DEFINE u == lock[e]
      <3>1. lock'[e] = u
        BY <1>1, <2>2 DEF SparesLocked
      <3>2. u \in Threads /\ u # t /\ u # None
        BY <1>1, <2>2, <3>1 DEF TypeOK
      <3>3. InWindow(u, e)
        BY <3>2, LocksInWords
      <3> HIDE DEF u
      <3>4. pc'[u] = pc[u] /\ pos'[u] = pos[u] /\ request'[u] = request[u] /\ target'[u] = target[u]
        BY <3>2, OthersStay
      <3> QED
        BY <3>1, <3>3, <3>4 DEF InWindow, Unlocking, Count, EventAt
    <2> QED
      BY <2>1, <2>2
  <1> QED
    BY <1>1 DEF HeldOnlyInWindows, InWindow, Unlocking

(* The lists. *)
LEMMA ListsKept ==
    ASSUME TypeOK, TypeOK', ListedOnlyWhileWaiting, dangling = {}, NEW t \in Threads, OnlyOf(t),
           \A e \in Events : \A i \in 1..Len(list'[e]) :
              /\ \A j \in 1..Len(list'[e]) : list'[e][j] = list'[e][i] => i = j
              /\ \/ list'[e][i] = t /\ Placed(t, e)'
                 \/ list'[e][i] # t /\ \E k \in 1..Len(list[e]) : list[e][k] = list'[e][i]
    PROVE  ListedOnlyWhileWaiting'
  <1>1. ASSUME NEW e \in Events, NEW i \in 1..Len(list'[e])
        PROVE  Placed(list[e][i], e)'
    <2> DEFINE u == list'[e][i]
    <2>1. CASE u = t
      <3>1. Placed(t, e)'
        BY <2>1
      <3>2. \/ pc'[t] \in {"unlock", "sleep"} /\ e \in {request'[t].events[j] : j \in 1..Len(request'[t].events)}
            \/ pc'[t] = "remove" /\ \E j \in (pos'[t] + 1)..Len(request'[t].events) : request'[t].events[j] = e
        BY <3>1 DEF Placed, Waited, Count, EventAt
      <3> QED
        BY <2>1, <3>2 DEF Placed, Waited, Count, EventAt
    <2>2. CASE u # t
      <3>1. PICK k \in 1..Len(list[e]) : list[e][k] = u
        BY <2>2
      <3>2. u \in Threads
        <4>1. list[e] \in Seq(Threads)
          BY DEF TypeOK
        <4> QED
          BY <3>1, <4>1
      <3>3. Placed(u, e)
        BY <3>1, ListsInWords
      <3> HIDE DEF u
      <3>4. pc'[u] = pc[u] /\ pos'[u] = pos[u] /\ request'[u] = request[u]
        BY <2>2, <3>2, OthersStay
      <3>5. \/ pc'[u] \in {"unlock", "sleep"} /\ e \in {request'[u].events[j] : j \in 1..Len(request'[u].events)}
            \/ pc'[u] = "remove" /\ \E j \in (pos'[u] + 1)..Len(request'[u].events) : request'[u].events[j] = e
        BY <3>3, <3>4 DEF Placed, Waited, Count, EventAt
      <3> QED
        BY <3>5 DEF Placed, Waited, Count, EventAt, u
    <2> QED
      BY <2>1, <2>2
  <1> QED
    BY <1>1 DEF ListedOnlyWhileWaiting, Placed

(* Who waits for one of several events. *)
LEMMA BehindKept ==
    ASSUME TypeOK, BehindOnlyWhileSignaling, NEW t \in Threads, OnlyOf(t),
           \A e \in Events : isSignaled'[e] = 1 /\ ~Signaling(t, e)' =>
              \/ \A i \in 1..Len(list'[e]) : request'[list'[e][i]].all
              \/ /\ isSignaled[e] = 1 /\ ~Signaling(t, e)
                 /\ \A i \in 1..Len(list'[e]) :
                       \/ request'[list'[e][i]].all
                       \/ \E k \in 1..Len(list[e]) :
                             list[e][k] = list'[e][i] /\ request'[list[e][k]] = request[list[e][k]]
    PROVE  BehindOnlyWhileSignaling'
  <1> SUFFICES ASSUME NEW e \in Events, isSignaled'[e] = 1, \A u \in Threads : ~Signaling(u, e)',
                      NEW i \in 1..Len(list'[e])
               PROVE  request'[list'[e][i]].all
    BY DEF BehindOnlyWhileSignaling
  <1>1. CASE request'[list'[e][i]].all
    BY <1>1
  <1>2. CASE ~request'[list'[e][i]].all
    <2>1. /\ isSignaled[e] = 1 /\ ~Signaling(t, e)
          /\ \E k \in 1..Len(list[e]) :
                list[e][k] = list'[e][i] /\ request'[list[e][k]] = request[list[e][k]]
      BY <1>2
    <2>2. ASSUME NEW u \in Threads PROVE ~Signaling(u, e)
      <3>1. CASE u = t
        BY <2>1, <3>1
      <3>2. CASE u # t
        BY <3>2 DEF OnlyOf, Signaling
      <3> QED
        BY <3>1, <3>2
    <2>3. PICK k \in 1..Len(list[e]) : list[e][k] = list'[e][i] /\ request'[list[e][k]] = request[list[e][k]]
      BY <2>1
    <2>4. request[list[e][k]].all
      BY <2>1, <2>2 DEF BehindOnlyWhileSignaling
    <2> QED
      BY <2>3, <2>4
  <1> QED
    BY <1>1, <1>2

(* What is left to show of a step of thread t. *)
LEMMA StepKeeps ==
    ASSUME EventInv, NEW t \in Threads, dangling = {}, OnlyOf(t), SparesLocked(t),
           TypeOK', Within(t)', Holds(t)', Keeps(t)', OneWinnerPerSignal',
           \A e \in Events : lock'[e] = t => InWindow(t, e)',
           ListedOnlyWhileWaiting', BehindOnlyWhileSignaling'
    PROVE  EventInv'
  <1>1. HeldOnlyInWindows'
    BY LocksKept DEF EventInv, WaitListInv
  <1>2. CallsWithinArguments' /\ WindowsHoldTheirLocks' /\ SignalsKept'
    BY ThreadsKept DEF EventInv, WaitListInv
  <1> QED
    BY <1>1, <1>2 DEF EventInv, WaitListInv

(* The lists stay as they are, and so does what t has to do with them. *)
LEMMA SameLists ==
    ASSUME TypeOK, TypeOK', ListedOnlyWhileWaiting, dangling = {}, NEW t \in Threads, OnlyOf(t),
           list' = list, \A e \in Events : Placed(t, e) => Placed(t, e)'
    PROVE  ListedOnlyWhileWaiting'
  <1>1. ASSUME NEW e \in Events, NEW i \in 1..Len(list[e])
        PROVE  /\ \A j \in 1..Len(list[e]) : list[e][j] = list[e][i] => i = j
               /\ list[e][i] = t => Placed(t, e)'
    <2>1. /\ \A j \in 1..Len(list[e]) : list[e][j] = list[e][i] => i = j
          /\ Placed(list[e][i], e)
      BY ListsInWords
    <2> QED
      BY <2>1
  <1>2. \A e \in Events : \A i \in 1..Len(list'[e]) :
              /\ \A j \in 1..Len(list'[e]) : list'[e][j] = list'[e][i] => i = j
              /\ \/ list'[e][i] = t /\ Placed(t, e)'
                 \/ list'[e][i] # t /\ \E k \in 1..Len(list[e]) : list[e][k] = list'[e][i]
    BY <1>1
  <1> QED
    BY <1>2, ListsKept

(* The step of a thread that begins to spin. *)
LEMMA SpinStep ==
    ASSUME EventInv, NEW t \in Threads, Spin(t)
    PROVE  EventInv'
  <1>1. UNCHANGED <<isSignaled, list, dangling, lock, state, pc, request, pos, target, signals, wins>>
    BY DEF Spin, threadVars
  <1>2. TypeOK'
    BY <1>1 DEF EventInv, WaitListInv, TypeOK, Spin
  <1>3. ListedOnlyWhileWaiting' /\ HeldOnlyInWindows' /\ OneWinnerPerSignal'
    BY <1>1 DEF EventInv, WaitListInv, ListedOnlyWhileWaiting, HeldOnlyInWindows,
                OneWinnerPerSignal, Waited, EventAt, Count
  <1>4. CallsWithinArguments' /\ WindowsHoldTheirLocks' /\ SignalsKept' /\ BehindOnlyWhileSignaling'
    BY <1>1 DEF EventInv, CallsWithinArguments, WindowsHoldTheirLocks, SignalsKept,
                BehindOnlyWhileSignaling, Waited, EventAt, Count, Twice, Unlocking, Signaling
  <1> QED
    BY <1>2, <1>3, <1>4 DEF EventInv, WaitListInv

-----------------------------------------------------------------------------
(* The invariant of thread t, as a step of t finds it. *)
LEMMA ThreadInv ==
    ASSUME EventInv, NEW t \in Threads
    PROVE  /\ TypeOK /\ ListedOnlyWhileWaiting /\ BehindOnlyWhileSignaling /\ OneWinnerPerSignal
           /\ Within(t) /\ Holds(t) /\ Keeps(t)
           /\ \A e \in Events : lock[e] = t => InWindow(t, e)
           /\ t # None
  <1>1. \A e \in Events : lock[e] = t => InWindow(t, e)
    BY LocksInWords, EventAssumption DEF EventInv, WaitListInv
  <1> QED
    BY <1>1, EventAssumption DEF EventInv, WaitListInv, CallsWithinArguments,
       WindowsHoldTheirLocks, SignalsKept, Within, Holds, Keeps

(* Nobody signals an event whose lock is free, so its waiters need no flag. *)
LEMMA ResetStep ==
    ASSUME EventInv, NEW t \in Threads, NEW e \in Events, xtResetEvent(t, e)
    PROVE  EventInv'
  <1>1. CASE Spin(t)
    BY <1>1, SpinStep
  <1>2. CASE ~Spin(t)
    <2>1. /\ dangling = {} /\ pc[t] = "idle" /\ lock[e] = None
          /\ isSignaled' = [isSignaled EXCEPT ![e] = 0]
          /\ UNCHANGED <<list, dangling, lock, state, pc, request, pos, target, hung, signals, wins>>
      BY <1>2 DEF xtResetEvent, Scheduled, Unheld, threadVars
    <2>2. /\ TypeOK /\ ListedOnlyWhileWaiting /\ BehindOnlyWhileSignaling /\ OneWinnerPerSignal
          /\ \A f \in Events : lock[f] = t => InWindow(t, f)
      BY ThreadInv
    <2>3. OnlyOf(t) /\ SparesLocked(t)
      BY <2>1, <2>2 DEF OnlyOf, SparesLocked, TypeOK
    <2>4. TypeOK'
      BY <2>1, <2>2 DEF TypeOK
    <2>5. Within(t)' /\ Holds(t)' /\ Keeps(t)'
      BY <2>1 DEF Within, Holds, Keeps, Unlocking
    <2>6. OneWinnerPerSignal'
      <3>1. \A f \in Events : isSignaled'[f] \in {0, isSignaled[f]}
        BY <2>1, <2>2 DEF TypeOK
      <3>2. \A f \in Events : wins[f] \in Nat /\ isSignaled[f] \in {0, 1} /\ signals[f] \in Nat
        BY <2>2, EventAssumption DEF TypeOK
      <3> QED
        BY <2>1, <2>2, <3>1, <3>2 DEF OneWinnerPerSignal
    <2>7. \A f \in Events : lock'[f] = t => InWindow(t, f)'
      BY <2>1, <2>2 DEF InWindow, Unlocking
    <2>8. ListedOnlyWhileWaiting'
      <3>1. \A f \in Events : Placed(t, f) => Placed(t, f)'
        BY <2>1 DEF Placed
      <3> QED
        BY <2>1, <2>2, <2>3, <2>4, <3>1, SameLists
    <2>9. BehindOnlyWhileSignaling'
      <3>1. ASSUME NEW f \in Events, isSignaled'[f] = 1
            PROVE  isSignaled[f] = 1 /\ ~Signaling(t, f)
        BY <2>1, <2>2, <3>1 DEF TypeOK, Signaling
      <3> QED
        BY <2>1, <2>2, <2>3, <3>1, BehindKept
    <2> QED
      BY <2>1, <2>3, <2>4, <2>5, <2>6, <2>7, <2>8, <2>9, StepKeeps
  <1> QED
    BY <1>1, <1>2

(* A thread that calls is in no list and holds no lock. *)
LEMMA CallStep ==
    ASSUME EventInv, NEW t \in Threads, NEW r \in Requests[t], Call(t, r)
    PROVE  EventInv'
  <1>1. /\ dangling = {} /\ pc[t] = "idle"
        /\ request' = [request EXCEPT ![t] = r] /\ pc' = [pc EXCEPT ![t] = "check"]
        /\ UNCHANGED <<isSignaled, list, dangling, lock, state, pos, target, hung, signals, wins>>
    BY DEF Call, Scheduled, Goto
  <1>2. /\ TypeOK /\ ListedOnlyWhileWaiting /\ BehindOnlyWhileSignaling /\ OneWinnerPerSignal
        /\ \A f \in Events : lock[f] = t => InWindow(t, f)
    BY ThreadInv
  <1>3. OnlyOf(t) /\ SparesLocked(t)
    BY <1>1, <1>2 DEF OnlyOf, SparesLocked, TypeOK
  <1>4. TypeOK'
    <2>1. r \in AllRequests
      BY DEF AllRequests
    <2> QED
      BY <1>1, <1>2, <2>1 DEF TypeOK, Location
  <1>5. pc'[t] = "check" /\ request'[t] = r
    BY <1>1, <1>2 DEF TypeOK
  <1>6. Within(t)' /\ Holds(t)' /\ Keeps(t)'
    BY <1>5 DEF Within, Holds, Keeps, Unlocking
  <1>7. OneWinnerPerSignal'
    BY <1>1, <1>2 DEF OneWinnerPerSignal
  <1>8. \A f \in Events : lock'[f] = t => InWindow(t, f)'
    BY <1>1, <1>2 DEF InWindow, Unlocking
  <1>9. \A f \in Events : ~Placed(t, f)
    BY <1>1 DEF Placed
  <1>10. ListedOnlyWhileWaiting'
    BY <1>1, <1>2, <1>3, <1>4, <1>9, SameLists
  <1>11. BehindOnlyWhileSignaling'
    <2>1. ASSUME NEW f \in Events, NEW i \in 1..Len(list[f])
          PROVE  request'[list[f][i]] = request[list[f][i]]
      <3>1. Placed(list[f][i], f)
        BY <1>1, <1>2, ListsInWords
      <3>2. list[f][i] # t
        BY <1>9, <3>1
      <3>3. list[f] \in Seq(Threads)
        BY <1>2 DEF TypeOK
      <3>4. list[f][i] \in Threads
        BY <3>3
      <3> QED
        BY <1>3, <3>2, <3>4 DEF OnlyOf
    <2>2. \A f \in Events : ~Signaling(t, f)
      BY <1>1 DEF Signaling
    <2> QED
      BY <1>1, <1>2, <1>3, <2>1, <2>2, BehindKept
  <1> QED
    BY <1>1, <1>3, <1>4, <1>6, <1>7, <1>8, <1>10, <1>11, StepKeeps

(* The end of a sleep changes nothing that the invariant is about. *)
LEMMA ExpireStep ==
    ASSUME EventInv, NEW t \in Threads, Expire(t)
    PROVE  EventInv'
  <1>1. UNCHANGED <<isSignaled, list, dangling, lock, pc, request, pos, target, hung, signals, wins>>
    BY DEF Expire
  <1>2. TypeOK'
    BY <1>1 DEF EventInv, WaitListInv, TypeOK, Expire
  <1>3. ListedOnlyWhileWaiting' /\ HeldOnlyInWindows' /\ OneWinnerPerSignal'
    BY <1>1 DEF EventInv, WaitListInv, ListedOnlyWhileWaiting, HeldOnlyInWindows,
                OneWinnerPerSignal, Waited, EventAt, Count
  <1>4. CallsWithinArguments' /\ WindowsHoldTheirLocks' /\ SignalsKept' /\ BehindOnlyWhileSignaling'
    BY <1>1 DEF EventInv, CallsWithinArguments, WindowsHoldTheirLocks, SignalsKept,
                BehindOnlyWhileSignaling, Waited, EventAt, Count, Twice, Unlocking, Signaling
  <1> QED
    BY <1>2, <1>3, <1>4 DEF EventInv, WaitListInv

(* Its nodes are still there when it comes to remove them. *)
LEMMA SleepStep ==
    ASSUME EventInv, NEW t \in Threads, Sleep(t)
    PROVE  EventInv'
  <1>1. /\ dangling = {} /\ pc[t] = "sleep"
        /\ pc' = [pc EXCEPT ![t] = "remove"] /\ pos' = [pos EXCEPT ![t] = 0]
        /\ UNCHANGED <<isSignaled, list, dangling, lock, request, target, hung, signals, wins>>
    BY DEF Sleep, Scheduled, Goto
  <1>2. /\ TypeOK /\ ListedOnlyWhileWaiting /\ BehindOnlyWhileSignaling /\ OneWinnerPerSignal
        /\ Within(t) /\ \A f \in Events : lock[f] = t => InWindow(t, f)
    BY ThreadInv
  <1>3. OnlyOf(t) /\ SparesLocked(t)
    BY <1>1, <1>2 DEF OnlyOf, SparesLocked, TypeOK
  <1>4. TypeOK'
    BY <1>1, <1>2 DEF TypeOK, Location, Sleep
  <1>5. pc'[t] = "remove" /\ pos'[t] = 0 /\ request'[t] = request[t] /\ request[t] \in Requests[t]
    BY <1>1, <1>2 DEF TypeOK, Within
  <1>6. /\ Count(t) \in Nat \ {0} /\ Count(t)' = Count(t)
        /\ \A e \in Waited(t) : \E i \in 1..Count(t) : EventAt(t, i) = e
        /\ \A i : EventAt(t, i)' = EventAt(t, i)
    <2>1. Count(t)' = Count(t) /\ \A i : EventAt(t, i)' = EventAt(t, i)
      BY <1>5 DEF Count, EventAt
    <2> QED
      BY <1>5, <2>1, Arguments
  <1>7. Within(t)' /\ Holds(t)' /\ Keeps(t)'
    BY <1>5, <1>6 DEF Within, Holds, Keeps, Unlocking
  <1>8. OneWinnerPerSignal'
    BY <1>1, <1>2 DEF OneWinnerPerSignal
  <1>9. \A f \in Events : lock'[f] = t => InWindow(t, f)'
    BY <1>1, <1>2 DEF InWindow, Unlocking
  <1>10. \A f \in Events : Placed(t, f) => Placed(t, f)'
    BY <1>1, <1>5, <1>6 DEF Placed
  <1>11. ListedOnlyWhileWaiting'
    BY <1>1, <1>2, <1>3, <1>4, <1>10, SameLists
  <1>12. BehindOnlyWhileSignaling'
    <2>1. \A f \in Events : ~Signaling(t, f)
      BY <1>1 DEF Signaling
    <2> QED
      BY <1>1, <1>2, <1>3, <2>1, BehindKept
  <1> QED
    BY <1>1, <1>3, <1>4, <1>7, <1>8, <1>9, <1>11, <1>12, StepKeeps

-----------------------------------------------------------------------------
(* One signal more; the lock is kept as long as somebody is left to wake. *)
LEMMA SignalStep ==
    ASSUME EventInv, NEW t \in Threads, NEW e \in Events, xtSignalEvent(t, e)
    PROVE  EventInv'
  <1>1. CASE Spin(t)
    BY <1>1, SpinStep
  <1>2. CASE ~Spin(t)
    <2>1. /\ dangling = {} /\ pc[t] = "idle" /\ lock[e] = None /\ signals[e] < MaxSignals
          /\ isSignaled' = [isSignaled EXCEPT ![e] = 1]
          /\ list' = list /\ WakeHead(t, e) /\ target' = [target EXCEPT ![t] = e]
          /\ signals' = [signals EXCEPT ![e] = signals[e] + 1]
          /\ UNCHANGED <<dangling, request, pos, hung, wins>>
      BY <1>2 DEF xtSignalEvent, Scheduled, Unheld, SetFlag
    <2>2. /\ TypeOK /\ ListedOnlyWhileWaiting /\ BehindOnlyWhileSignaling /\ OneWinnerPerSignal
          /\ \A f \in Events : lock[f] = t => InWindow(t, f)
          /\ t # None
      BY ThreadInv
    <2>3. list[e] \in Seq(Threads)
      BY <2>2 DEF TypeOK
    <2>4. /\ lock' = [lock EXCEPT ![e] = IF list[e] = <<>> THEN None ELSE t]
          /\ pc' = [pc EXCEPT ![t] = IF list[e] = <<>> THEN "idle" ELSE "waking"]
          /\ state' \in [Threads -> {"RUN", "SLEEP"}]
      <3>1. CASE list[e] = <<>>
        BY <2>1, <2>2, <3>1 DEF WakeHead, Drained, Release, Goto, TypeOK
      <3>2. CASE list[e] # <<>>
        <4>1. Head(list[e]) \in Threads
          BY <2>3, <3>2
        <4>2. /\ lock' = [lock EXCEPT ![e] = t] /\ pc' = [pc EXCEPT ![t] = "waking"]
              /\ state' = [state EXCEPT ![Head(list[e])] = "RUN"]
          BY <2>1, <3>2 DEF WakeHead, Drained, Goto
        <4> QED
          BY <2>2, <3>2, <4>1, <4>2 DEF TypeOK
      <3> QED
        BY <3>1, <3>2
    <2>5. OnlyOf(t) /\ SparesLocked(t)
      BY <2>1, <2>2, <2>4 DEF OnlyOf, SparesLocked, TypeOK
    <2>6. TypeOK'
      <3>1. signals' \in [Events -> 0..MaxSignals]
        BY <2>1, <2>2, EventAssumption DEF TypeOK
      <3> QED
        BY <2>1, <2>2, <2>4, <3>1 DEF TypeOK, Location
    <2>7. /\ pc'[t] = IF list[e] = <<>> THEN "idle" ELSE "waking"
          /\ lock'[e] = IF list[e] = <<>> THEN None ELSE t
          /\ target'[t] = e /\ \A f \in Events : f # e => lock'[f] = lock[f]
      BY <2>1, <2>2, <2>4 DEF TypeOK
    <2>8. Within(t)' /\ Holds(t)' /\ Keeps(t)'
      BY <2>1, <2>7 DEF Within, Holds, Keeps, Unlocking
    <2>9. OneWinnerPerSignal'
      <3>1. ASSUME NEW f \in Events PROVE wins'[f] + isSignaled'[f] <= signals'[f]
        <4>1. wins[f] \in Nat /\ isSignaled[f] \in {0, 1} /\ signals[f] \in Nat
          BY <2>2, EventAssumption DEF TypeOK
        <4>2. wins[f] + isSignaled[f] <= signals[f]
          BY <2>2 DEF OneWinnerPerSignal
        <4>3. CASE f = e
          <5>1. isSignaled'[f] = 1 /\ signals'[f] = signals[f] + 1 /\ wins'[f] = wins[f]
            BY <2>1, <2>2, <4>3 DEF TypeOK
          <5> QED
            BY <4>1, <4>2, <5>1
        <4>4. CASE f # e
          BY <2>1, <2>2, <4>2, <4>4 DEF TypeOK
        <4> QED
          BY <4>3, <4>4
      <3> QED
        BY <3>1 DEF OneWinnerPerSignal
    <2>10. \A f \in Events : lock'[f] = t => InWindow(t, f)'
      BY <2>1, <2>2, <2>7 DEF InWindow, Unlocking
    <2>11. ListedOnlyWhileWaiting'
      <3>1. \A f \in Events : ~Placed(t, f)
        BY <2>1 DEF Placed
      <3> QED
        BY <2>1, <2>2, <2>5, <2>6, <3>1, SameLists
    <2>12. BehindOnlyWhileSignaling'
      <3>1. \A f \in Events : ~Signaling(t, f)
        BY <2>1 DEF Signaling
      <3>2. \A f \in Events : f # e => isSignaled'[f] = isSignaled[f]
        BY <2>1, <2>2 DEF TypeOK
      <3>3. list[e] = <<>> \/ Signaling(t, e)'
        BY <2>7 DEF Signaling
      <3>4. list[e] = <<>> => \A i \in 1..Len(list[e]) : FALSE
        OBVIOUS
      <3> QED
        BY <2>1, <2>2, <2>5, <3>1, <3>2, <3>3, <3>4, BehindKept
    <2> QED
      BY <2>1, <2>5, <2>6, <2>8, <2>9, <2>10, <2>11, <2>12, StepKeeps
  <1> QED
    BY <1>1, <1>2

(* A list that loses nodes keeps what is said of it. *)
LEMMA FewerNodes ==
    ASSUME TypeOK, TypeOK', ListedOnlyWhileWaiting, dangling = {}, NEW t \in Threads, OnlyOf(t),
           \A f \in Events : \A i, j \in 1..Len(list'[f]) : list'[f][i] = list'[f][j] => i = j,
           \A f \in Events : \A i \in 1..Len(list'[f]) : \E k \in 1..Len(list[f]) : list[f][k] = list'[f][i],
           \A f \in Events : \A i \in 1..Len(list'[f]) : list'[f][i] = t => Placed(t, f)'
    PROVE  ListedOnlyWhileWaiting'
  BY ListsKept

(* The woken one's node goes, and with the last one the lock. *)
LEMMA WakeNextStep ==
    ASSUME EventInv, NEW t \in Threads, WakeNext(t)
    PROVE  EventInv'
  <1>1. PICK e \in Events : target[t] = e
    BY ThreadInv DEF WakeNext, Holds
  <1>2. /\ dangling = {} /\ pc[t] = "waking"
        /\ list' = [list EXCEPT ![e] = Tail(list[e])] /\ WakeHead(t, e)
        /\ UNCHANGED <<isSignaled, dangling, request, pos, target, hung, signals, wins>>
    BY <1>1 DEF WakeNext, Scheduled
  <1>3. /\ TypeOK /\ ListedOnlyWhileWaiting /\ BehindOnlyWhileSignaling /\ OneWinnerPerSignal
        /\ \A f \in Events : lock[f] = t => InWindow(t, f)
        /\ t # None
    BY ThreadInv
  <1>4. e \in Events /\ lock[e] = t /\ list[e] # <<>>
    BY <1>2, <1>1, ThreadInv DEF Holds
  <1>5. list[e] \in Seq(Threads)
    BY <1>3, <1>4 DEF TypeOK
  <1>6. /\ Len(list[e]) \in Nat \ {0} /\ list'[e] \in Seq(Threads) /\ Len(list'[e]) = Len(list[e]) - 1
        /\ \A k \in 1..(Len(list[e]) - 1) : list'[e][k] = list[e][k + 1]
        /\ \A f \in Events : f # e => list'[f] = list[f]
    <2>1. list'[e] = Tail(list[e]) /\ \A f \in Events : f # e => list'[f] = list[f]
      BY <1>2, <1>3, <1>4 DEF TypeOK
    <2> QED
      BY <1>4, <1>5, <2>1, WithoutHead
  <1>7. /\ lock' = [lock EXCEPT ![e] = IF list'[e] = <<>> THEN None ELSE t]
        /\ pc' = [pc EXCEPT ![t] = IF list'[e] = <<>> THEN "idle" ELSE "waking"]
        /\ state' \in [Threads -> {"RUN", "SLEEP"}]
    <2>1. CASE list'[e] = <<>>
      BY <1>2, <1>3, <2>1 DEF WakeHead, Drained, Release, Goto, TypeOK
    <2>2. CASE list'[e] # <<>>
      <3>1. Head(list'[e]) \in Threads
        BY <1>6, <2>2
      <3>2. /\ lock' = [lock EXCEPT ![e] = t] /\ pc' = [pc EXCEPT ![t] = "waking"]
            /\ state' = [state EXCEPT ![Head(list'[e])] = "RUN"]
        BY <1>2, <2>2 DEF WakeHead, Drained, Goto
      <3> QED
        BY <1>3, <2>2, <3>1, <3>2 DEF TypeOK
    <2> QED
      BY <2>1, <2>2
  <1>8. OnlyOf(t)
    BY <1>2, <1>3, <1>7 DEF OnlyOf, TypeOK
  <1>9. SparesLocked(t)
    BY <1>2, <1>3, <1>4, <1>6, <1>7 DEF SparesLocked, TypeOK
  <1>10. TypeOK'
    <2>1. list' \in [Events -> Seq(Threads)]
      <3>1. Tail(list[e]) \in Seq(Threads)
        BY <1>4, <1>5, WithoutHead
      <3> QED
        BY <1>2, <1>3, <3>1 DEF TypeOK
    <2> QED
      BY <1>2, <1>3, <1>7, <2>1 DEF TypeOK, Location
  <1>11. /\ pc'[t] = IF list'[e] = <<>> THEN "idle" ELSE "waking"
         /\ lock'[e] = IF list'[e] = <<>> THEN None ELSE t
         /\ target'[t] = e /\ \A f \in Events : f # e => lock'[f] = lock[f]
    BY <1>2, <1>3, <1>4, <1>1, <1>7 DEF TypeOK
  <1>12. Within(t)' /\ Holds(t)' /\ Keeps(t)'
    BY <1>4, <1>11 DEF Within, Holds, Keeps, Unlocking
  <1>13. OneWinnerPerSignal'
    BY <1>2, <1>3 DEF OneWinnerPerSignal
  <1>14. \A f \in Events : lock'[f] = t => InWindow(t, f)'
    BY <1>2, <1>3, <1>1, <1>11 DEF InWindow, Unlocking
  <1>15. ListedOnlyWhileWaiting'
    <2>1. \A f \in Events : \A i, j \in 1..Len(list[f]) : list[f][i] = list[f][j] => i = j
      BY <1>2, <1>3, ListsInWords
    <2>2. \A f \in Events : \A i \in 1..Len(list[f]) : list[f][i] # t
      <3>1. \A f \in Events : \A i \in 1..Len(list[f]) : Placed(list[f][i], f)
        BY <1>2, <1>3, ListsInWords
      <3>2. \A f \in Events : ~Placed(t, f)
        BY <1>2 DEF Placed
      <3> QED
        BY <3>1, <3>2
    <2>3. \A i \in 1..Len(list'[e]) : i + 1 \in 1..Len(list[e]) /\ list'[e][i] = list[e][i + 1]
      BY <1>6
    <2>4. \A f \in Events : \A i \in 1..Len(list'[f]) : \E k \in 1..Len(list[f]) : list[f][k] = list'[f][i]
      BY <1>6, <2>3
    <2>5. ASSUME NEW f \in Events, NEW i \in 1..Len(list'[f]), NEW j \in 1..Len(list'[f]),
                 list'[f][i] = list'[f][j]
          PROVE  i = j
      <3>1. CASE f = e
        <4>1. i + 1 = j + 1
          BY <1>4, <2>1, <2>3, <2>5, <3>1
        <4> QED
          BY <1>6, <3>1, <4>1
      <3>2. CASE f # e
        BY <1>6, <2>1, <2>5, <3>2
      <3> QED
        BY <3>1, <3>2
    <2>6. \A f \in Events : \A i \in 1..Len(list'[f]) : list'[f][i] # t
      BY <2>2, <2>4
    <2>7. \A f \in Events : \A i, j \in 1..Len(list'[f]) : list'[f][i] = list'[f][j] => i = j
      BY <2>5
    <2>8. \A f \in Events : \A i \in 1..Len(list'[f]) : list'[f][i] = t => Placed(t, f)'
      BY <2>6
    <2> QED
      BY <1>2, <1>3, <1>8, <1>10, <2>4, <2>7, <2>8, FewerNodes
  <1>16. BehindOnlyWhileSignaling'
    <2>1. \A f \in Events : f # e => ~Signaling(t, f)
      BY <1>1 DEF Signaling
    <2>2. list'[e] = <<>> \/ Signaling(t, e)'
      BY <1>11 DEF Signaling
    <2>3. list'[e] = <<>> => \A i \in 1..Len(list'[e]) : FALSE
      OBVIOUS
    <2> QED
      BY <1>2, <1>3, <1>6, <1>8, <2>1, <2>2, <2>3, BehindKept
  <1> QED
    BY <1>2, <1>8, <1>9, <1>10, <1>12, <1>13, <1>14, <1>15, <1>16, StepKeeps

-----------------------------------------------------------------------------
(* One turn of an unlocking loop (event.c:90, 102, 119). *)
LEMMA UnlockTurn ==
    ASSUME TypeOK, NEW t \in Threads, request[t] \in Requests[t], request' = request,
           NEW l \in {"reset", "won", "unlock"}, NEW i \in 1..Count(t), UnlockedUpTo(t, l, i),
           \A k \in i..Count(t) : lock[EventAt(t, k)] \in {None, t},
           \A e \in Events : lock[e] = t => \E k \in i..Count(t) : EventAt(t, k) = e
    PROVE  /\ pc' \in [Threads -> Location] /\ pos' \in [Threads -> Nat]
           /\ lock' \in [Events -> Threads \cup {None}]
           /\ \A u \in Threads \ {t} : pc'[u] = pc[u] /\ pos'[u] = pos[u]
           /\ pc'[t] = (IF i = Count(t) THEN After(l) ELSE l) /\ pos'[t] = i
           /\ Count(t)' = Count(t) /\ \A k : EventAt(t, k)' = EventAt(t, k)
           /\ Waited(t)' = Waited(t) /\ Twice(t)' = Twice(t)
           /\ \A e \in Events : lock[e] \notin {None, t} => lock'[e] = lock[e]
           /\ \A e \in Events : lock'[e] \notin {None, t} => lock'[e] = lock[e]
           /\ \A k \in (i + 1)..Count(t) : lock'[EventAt(t, k)] = t
           /\ \A e \in Events : lock'[e] = t => \E k \in (i + 1)..Count(t) : EventAt(t, k) = e
  <1>1. /\ Count(t) \in Nat \ {0} /\ \A k \in 1..Count(t) : EventAt(t, k) \in Events
    BY Arguments
  <1>2. /\ pc' = [pc EXCEPT ![t] = IF i = Count(t) THEN After(l) ELSE l]
        /\ pos' = [pos EXCEPT ![t] = i]
        /\ lock' = [e \in Events |->
              IF \E j \in (i + 1)..Count(t) : EventAt(t, j) = e THEN t
              ELSE IF e = EventAt(t, i) THEN None ELSE lock[e]]
    BY DEF UnlockedUpTo, Goto
  <1>3. After(l) \in {"sleep", "idle"}
    BY DEF After
  <1>4. pc' \in [Threads -> Location] /\ pos' \in [Threads -> Nat]
    BY <1>1, <1>2, <1>3 DEF TypeOK, Location
  <1>5. /\ \A u \in Threads \ {t} : pc'[u] = pc[u] /\ pos'[u] = pos[u]
        /\ pc'[t] = (IF i = Count(t) THEN After(l) ELSE l) /\ pos'[t] = i
    BY <1>2 DEF TypeOK
  <1>6. /\ Count(t)' = Count(t) /\ \A k : EventAt(t, k)' = EventAt(t, k)
        /\ Waited(t)' = Waited(t) /\ Twice(t)' = Twice(t)
    BY DEF Count, EventAt, Waited, Twice
  <1>7. lock' \in [Events -> Threads \cup {None}]
    BY <1>2 DEF TypeOK
  <1>8. ASSUME NEW e \in Events
        PROVE  /\ lock[e] \notin {None, t} => lock'[e] = lock[e]
               /\ lock'[e] \notin {None, t} => lock'[e] = lock[e]
               /\ lock'[e] = t => \E k \in (i + 1)..Count(t) : EventAt(t, k) = e
    <2>1. CASE \E j \in (i + 1)..Count(t) : EventAt(t, j) = e
      <3>1. lock'[e] = t
        BY <1>2, <2>1
      <3>2. lock[e] \in {None, t}
        BY <1>1, <2>1
      <3> QED
        BY <2>1, <3>1, <3>2
    <2>2. CASE ~(\E j \in (i + 1)..Count(t) : EventAt(t, j) = e) /\ e = EventAt(t, i)
      <3>1. lock'[e] = None
        BY <1>2, <2>2
      <3>2. lock[e] \in {None, t}
        BY <1>1, <2>2
      <3>3. t # None
        BY EventAssumption
      <3> QED
        BY <3>1, <3>2, <3>3
    <2>3. CASE ~(\E j \in (i + 1)..Count(t) : EventAt(t, j) = e) /\ e # EventAt(t, i)
      <3>1. lock'[e] = lock[e]
        BY <1>2, <2>3
      <3>2. lock[e] # t
        BY <1>1, <2>3
      <3> QED
        BY <3>1, <3>2
    <2> QED
      BY <2>1, <2>2, <2>3
  <1>9. \A k \in (i + 1)..Count(t) : lock'[EventAt(t, k)] = t
    <2>1. \A k \in (i + 1)..Count(t) : EventAt(t, k) \in Events
      BY <1>1
    <2> QED
      BY <1>2, <2>1
  <1> QED
    BY <1>4, <1>5, <1>6, <1>7, <1>8, <1>9

(* A wait takes a signal that is there. *)
LEMMA TakeSignal ==
    ASSUME TypeOK, OneWinnerPerSignal, NEW e \in Events, isSignaled[e] = 1, Take(e), signals' = signals
    PROVE  /\ isSignaled' \in [Events -> {0, 1}] /\ wins' \in [Events -> Nat]
           /\ OneWinnerPerSignal'
           /\ isSignaled'[e] = 0
           /\ \A f \in Events : f # e => isSignaled'[f] = isSignaled[f]
  <1>1. isSignaled' = [isSignaled EXCEPT ![e] = 0] /\ wins' = [wins EXCEPT ![e] = wins[e] + 1]
    BY DEF Take
  <1>2. \A f \in Events : wins[f] \in Nat /\ isSignaled[f] \in {0, 1} /\ signals[f] \in Nat
    BY EventAssumption DEF TypeOK
  <1>3. ASSUME NEW f \in Events PROVE wins'[f] + isSignaled'[f] <= signals'[f]
    <2>1. wins[f] + isSignaled[f] <= signals[f]
      BY DEF OneWinnerPerSignal
    <2>2. CASE f = e
      <3>1. wins'[f] = wins[f] + 1 /\ isSignaled'[f] = 0
        BY <1>1, <2>2 DEF TypeOK
      <3> QED
        BY <1>2, <2>1, <2>2, <3>1
    <2>3. CASE f # e
      BY <1>1, <2>1, <2>3 DEF TypeOK
    <2> QED
      BY <2>2, <2>3
  <1> QED
    BY <1>1, <1>2, <1>3 DEF TypeOK, OneWinnerPerSignal

(* xtWaitForEvents finds what it waits for. *)
LEMMA TakenStep ==
    ASSUME EventInv, NEW t \in Threads, dangling = {}, pc[t] = "check", Lockable(t),
           NEW l \in {"reset", "won"}, NEW e \in Waited(t), isSignaled[e] = 1, Take(e),
           l = "reset" => AllSignaled(t) /\ e = EventAt(t, 1),
           UnlockedUpTo(t, l, 1), UNCHANGED <<list, dangling, state, request, target, hung, signals>>
    PROVE  EventInv'
  <1>1. /\ TypeOK /\ ListedOnlyWhileWaiting /\ BehindOnlyWhileSignaling /\ OneWinnerPerSignal
        /\ Within(t) /\ \A f \in Events : lock[f] = t => InWindow(t, f)
        /\ t # None
    BY ThreadInv
  <1>2. request[t] \in Requests[t]
    BY <1>1 DEF Within
  <1>3. /\ Count(t) \in Nat \ {0}
        /\ \A i \in 1..Count(t) : EventAt(t, i) \in Events /\ EventAt(t, i) \in Waited(t)
        /\ e \in Events
    BY <1>2, Arguments
  <1>4. /\ \A f \in Waited(t) : lock[f] = None
        /\ ~Twice(t)
    BY DEF Lockable, Unheld
  <1>5. \A f \in Events : lock[f] # t
    BY <1>1 DEF InWindow, Unlocking
  <1>6. /\ pc' \in [Threads -> Location] /\ pos' \in [Threads -> Nat]
        /\ lock' \in [Events -> Threads \cup {None}]
        /\ \A u \in Threads \ {t} : pc'[u] = pc[u] /\ pos'[u] = pos[u]
        /\ pc'[t] = (IF 1 = Count(t) THEN After(l) ELSE l) /\ pos'[t] = 1
        /\ Count(t)' = Count(t) /\ \A k : EventAt(t, k)' = EventAt(t, k)
        /\ Twice(t)' = Twice(t)
        /\ \A f \in Events : lock[f] \notin {None, t} => lock'[f] = lock[f]
        /\ \A f \in Events : lock'[f] \notin {None, t} => lock'[f] = lock[f]
        /\ \A k \in (1 + 1)..Count(t) : lock'[EventAt(t, k)] = t
        /\ \A f \in Events : lock'[f] = t => \E k \in (1 + 1)..Count(t) : EventAt(t, k) = f
    <2>1. 1 \in 1..Count(t) /\ \A k \in 1..Count(t) : lock[EventAt(t, k)] \in {None, t}
      BY <1>3, <1>4
    <2>2. request' = request /\ l \in {"reset", "won", "unlock"}
      OBVIOUS
    <2> QED
      BY <1>1, <1>2, <1>5, <2>1, <2>2, UnlockTurn
  <1>7. /\ isSignaled' \in [Events -> {0, 1}] /\ wins' \in [Events -> Nat]
        /\ OneWinnerPerSignal' /\ isSignaled'[e] = 0
        /\ \A f \in Events : f # e => isSignaled'[f] = isSignaled[f]
    BY <1>1, <1>3, TakeSignal
  <1>8. OnlyOf(t)
    BY <1>6 DEF OnlyOf
  <1>9. SparesLocked(t)
    BY <1>4, <1>6, <1>7 DEF SparesLocked
  <1>10. TypeOK'
    BY <1>1, <1>6, <1>7 DEF TypeOK
  <1>11. pc'[t] \in {"idle", l} /\ (pc'[t] = l => Count(t) > 1)
    BY <1>3, <1>6 DEF After
  <1>12. Within(t)'
    BY <1>2, <1>3, <1>4, <1>6, <1>11 DEF Within, Unlocking
  <1>13. Holds(t)'
    BY <1>6, <1>11 DEF Holds, Unlocking
  <1>14. Keeps(t)'
    <2> SUFFICES ASSUME pc'[t] = "reset", NEW k \in (1 + 1)..Count(t)
                 PROVE  isSignaled'[EventAt(t, k)] = 1
      BY <1>6 DEF Keeps
    <2>1. AllSignaled(t) /\ e = EventAt(t, 1)
      BY <1>11
    <2>2. k \in 1..Count(t) /\ 1 \in 1..Count(t) /\ k # 1
      BY <1>3
    <2>3. EventAt(t, k) # EventAt(t, 1)
      BY <1>4, <2>2 DEF Twice
    <2>4. isSignaled[EventAt(t, k)] = 1
      BY <1>3, <2>1, <2>2 DEF AllSignaled
    <2> QED
      BY <1>3, <1>7, <2>1, <2>2, <2>3, <2>4
  <1>15. \A f \in Events : lock'[f] = t => InWindow(t, f)'
    <2> SUFFICES ASSUME NEW f \in Events, lock'[f] = t PROVE InWindow(t, f)'
      OBVIOUS
    <2>1. PICK k \in (1 + 1)..Count(t) : EventAt(t, k) = f
      BY <1>6
    <2>2. pc'[t] = l /\ Unlocking(t)'
      BY <1>3, <1>6, <2>1 DEF Unlocking
    <2> QED
      BY <1>6, <2>1, <2>2 DEF InWindow
  <1>16. ListedOnlyWhileWaiting'
    <2>1. \A f \in Events : ~Placed(t, f)
      BY DEF Placed
    <2> QED
      BY <1>1, <1>8, <1>10, <2>1, SameLists
  <1>17. BehindOnlyWhileSignaling'
    <2>1. \A f \in Events : ~Signaling(t, f)
      BY DEF Signaling
    <2>2. \A f \in Events : isSignaled'[f] = 1 => isSignaled[f] = 1
      BY <1>7
    <2> QED
      BY <1>1, <1>8, <2>1, <2>2, BehindKept
  <1> QED
    BY <1>7, <1>8, <1>9, <1>10, <1>12, <1>13, <1>14, <1>15, <1>16, <1>17, StepKeeps

(* It registers in every event. *)
LEMMA RegisterStep ==
    ASSUME EventInv, NEW t \in Threads, dangling = {}, pc[t] = "check", Lockable(t), ~Satisfied(t),
           Register(t), UnlockedUpTo(t, "unlock", 1),
           UNCHANGED <<isSignaled, dangling, state, request, target, hung, signals, wins>>
    PROVE  EventInv'
  <1>1. /\ TypeOK /\ ListedOnlyWhileWaiting /\ BehindOnlyWhileSignaling /\ OneWinnerPerSignal
        /\ Within(t) /\ \A f \in Events : lock[f] = t => InWindow(t, f)
        /\ t # None
    BY ThreadInv
  <1>2. request[t] \in Requests[t]
    BY <1>1 DEF Within
  <1>3. /\ Count(t) \in Nat \ {0}
        /\ \A i \in 1..Count(t) : EventAt(t, i) \in Events /\ EventAt(t, i) \in Waited(t)
    BY <1>2, Arguments
  <1>4. /\ \A f \in Waited(t) : lock[f] = None
        /\ ~Twice(t)
    BY DEF Lockable, Unheld
  <1>5. \A f \in Events : lock[f] # t
    BY <1>1 DEF InWindow, Unlocking
  <1>6. /\ pc' \in [Threads -> Location] /\ pos' \in [Threads -> Nat]
        /\ lock' \in [Events -> Threads \cup {None}]
        /\ \A u \in Threads \ {t} : pc'[u] = pc[u] /\ pos'[u] = pos[u]
        /\ pc'[t] = (IF 1 = Count(t) THEN After("unlock") ELSE "unlock") /\ pos'[t] = 1
        /\ Count(t)' = Count(t) /\ \A k : EventAt(t, k)' = EventAt(t, k)
        /\ Waited(t)' = Waited(t) /\ Twice(t)' = Twice(t)
        /\ \A f \in Events : lock[f] \notin {None, t} => lock'[f] = lock[f]
        /\ \A f \in Events : lock'[f] \notin {None, t} => lock'[f] = lock[f]
        /\ \A k \in (1 + 1)..Count(t) : lock'[EventAt(t, k)] = t
        /\ \A f \in Events : lock'[f] = t => \E k \in (1 + 1)..Count(t) : EventAt(t, k) = f
    <2>1. 1 \in 1..Count(t) /\ \A k \in 1..Count(t) : lock[EventAt(t, k)] \in {None, t}
      BY <1>3, <1>4
    <2>2. request' = request /\ "unlock" \in {"reset", "won", "unlock"}
      OBVIOUS
    <2> QED
      BY <1>1, <1>2, <1>5, <2>1, <2>2, UnlockTurn
  <1>7. list' = [f \in Events |-> IF f \in Waited(t) THEN Append(list[f], t) ELSE list[f]]
    BY DEF Register
  <1>8. OnlyOf(t)
    BY <1>6 DEF OnlyOf
  <1>9. SparesLocked(t)
    BY <1>4, <1>6, <1>7 DEF SparesLocked
  <1>10. \A f \in Events : list[f] \in Seq(Threads) /\ Append(list[f], t) \in Seq(Threads)
    BY <1>1 DEF TypeOK
  <1>11. TypeOK'
    <2>1. list' \in [Events -> Seq(Threads)]
      BY <1>7, <1>10
    <2> QED
      BY <1>1, <1>6, <2>1 DEF TypeOK
  <1>12. pc'[t] \in {"sleep", "unlock"} /\ (pc'[t] = "unlock" => Count(t) > 1)
    BY <1>3, <1>6 DEF After
  <1>13. Within(t)' /\ Keeps(t)'
    BY <1>2, <1>3, <1>4, <1>6, <1>12 DEF Within, Keeps, Unlocking
  <1>14. Holds(t)'
    BY <1>6, <1>12 DEF Holds, Unlocking
  <1>15. \A f \in Events : lock'[f] = t => InWindow(t, f)'
    <2> SUFFICES ASSUME NEW f \in Events, lock'[f] = t PROVE InWindow(t, f)'
      OBVIOUS
    <2>1. PICK k \in (1 + 1)..Count(t) : EventAt(t, k) = f
      BY <1>6
    <2>2. pc'[t] = "unlock" /\ Unlocking(t)'
      BY <1>3, <1>6, <2>1 DEF Unlocking
    <2> QED
      BY <1>6, <2>1, <2>2 DEF InWindow
  <1>16. OneWinnerPerSignal'
    BY <1>1 DEF OneWinnerPerSignal
  <1>17. \A f \in Events : \A i \in 1..Len(list[f]) : list[f][i] # t
    <2>1. \A f \in Events : \A i \in 1..Len(list[f]) : Placed(list[f][i], f)
      BY <1>1, ListsInWords
    <2>2. \A f \in Events : ~Placed(t, f)
      BY DEF Placed
    <2> QED
      BY <2>1, <2>2
  <1>18. ASSUME NEW f \in Events, f \in Waited(t)
         PROVE  /\ Len(list[f]) \in Nat /\ Len(list'[f]) = Len(list[f]) + 1
                /\ \A k \in 1..Len(list[f]) : list'[f][k] = list[f][k]
                /\ list'[f][Len(list[f]) + 1] = t
    <2>1. list'[f] = Append(list[f], t)
      BY <1>7, <1>18
    <2> QED
      BY <1>10, <2>1, Appended
  <1>19. \A f \in Events : f \notin Waited(t) => list'[f] = list[f]
    BY <1>7
  <1>20. ListedOnlyWhileWaiting'
    <2>1. ASSUME NEW f \in Events, NEW i \in 1..Len(list'[f])
          PROVE  /\ \A j \in 1..Len(list'[f]) : list'[f][j] = list'[f][i] => i = j
                 /\ \/ list'[f][i] = t /\ Placed(t, f)'
                    \/ list'[f][i] # t /\ \E k \in 1..Len(list[f]) : list[f][k] = list'[f][i]
      <3>1. \A k, j \in 1..Len(list[f]) : list[f][j] = list[f][k] => k = j
        BY <1>1, ListsInWords
      <3>2. CASE f \in Waited(t)
        <4>1. Placed(t, f)'
          BY <1>6, <1>12, <3>2 DEF Placed
        <4>2. \A j \in 1..Len(list'[f]) : j \in 1..Len(list[f]) \/ j = Len(list[f]) + 1
          BY <1>18, <3>2
        <4>3. CASE i = Len(list[f]) + 1
          <5>1. list'[f][i] = t
            BY <1>18, <3>2, <4>3
          <5>2. ASSUME NEW j \in 1..Len(list'[f]), list'[f][j] = list'[f][i] PROVE i = j
            <6>1. CASE j = Len(list[f]) + 1
              BY <4>3, <6>1
            <6>2. CASE j \in 1..Len(list[f])
              BY <1>17, <1>18, <3>2, <5>1, <5>2, <6>2
            <6> QED
              BY <4>2, <6>1, <6>2
          <5> QED
            BY <4>1, <5>1, <5>2
        <4>4. CASE i \in 1..Len(list[f])
          <5>1. list'[f][i] = list[f][i] /\ list[f][i] # t
            BY <1>17, <1>18, <3>2, <4>4
          <5>2. ASSUME NEW j \in 1..Len(list'[f]), list'[f][j] = list'[f][i] PROVE i = j
            <6>1. CASE j = Len(list[f]) + 1
              BY <1>18, <3>2, <5>1, <5>2, <6>1
            <6>2. CASE j \in 1..Len(list[f])
              BY <1>18, <3>1, <3>2, <4>4, <5>1, <5>2, <6>2
            <6> QED
              BY <4>2, <6>1, <6>2
          <5> QED
            BY <4>4, <5>1, <5>2
        <4> QED
          BY <4>2, <4>3, <4>4
      <3>3. CASE f \notin Waited(t)
        <4>1. list'[f] = list[f]
          BY <1>19, <3>3
        <4> QED
          BY <1>17, <3>1, <4>1
      <3> QED
        BY <3>2, <3>3
    <2> QED
      BY <1>1, <1>8, <1>11, <2>1, ListsKept
  <1>21. BehindOnlyWhileSignaling'
    <2>1. \A f \in Events : ~Signaling(t, f)
      BY DEF Signaling
    <2>2. \A f \in Events : isSignaled'[f] = isSignaled[f]
      OBVIOUS
    <2>3. ASSUME NEW f \in Events, isSignaled[f] = 1, NEW i \in 1..Len(list'[f])
          PROVE  \/ request'[list'[f][i]].all
                 \/ \E k \in 1..Len(list[f]) :
                       list[f][k] = list'[f][i] /\ request'[list[f][k]] = request[list[f][k]]
      <3>1. CASE f \in Waited(t)
        <4>1. request[t].all
          BY <2>3, <3>1 DEF Satisfied
        <4>2. i \in 1..Len(list[f]) \/ i = Len(list[f]) + 1
          BY <1>18, <3>1
        <4>3. CASE i = Len(list[f]) + 1
          <5>1. list'[f][i] = t
            BY <1>18, <3>1, <4>3
          <5> QED
            BY <4>1, <5>1
        <4>4. CASE i \in 1..Len(list[f])
          BY <1>18, <3>1, <4>4
        <4> QED
          BY <4>2, <4>3, <4>4
      <3>2. CASE f \notin Waited(t)
        <4>1. list'[f] = list[f]
          BY <1>19, <3>2
        <4> QED
          BY <4>1
      <3> QED
        BY <3>1, <3>2
    <2> QED
      BY <1>1, <1>8, <2>1, <2>2, <2>3, BehindKept
  <1> QED
    BY <1>8, <1>9, <1>11, <1>13, <1>14, <1>15, <1>16, <1>20, <1>21, StepKeeps

(* xtWaitForEvents from its locks to the first unlock (event.c:80-120). *)
LEMMA WaitStep ==
    ASSUME EventInv, NEW t \in Threads, xtWaitForEvents(t)
    PROVE  EventInv'
  <1>1. dangling = {} /\ pc[t] = "check"
    BY DEF xtWaitForEvents, Scheduled
  <1>2. request[t] \in Requests[t]
    BY <1>1, ThreadInv DEF Within
  <1>3. /\ Count(t) \in Nat \ {0}
        /\ \A i \in 1..Count(t) : EventAt(t, i) \in Waited(t)
        /\ \A e \in Waited(t) : \E i \in 1..Count(t) : EventAt(t, i) = e
    BY <1>2, Arguments
  <1>4. CASE Spin(t)
    BY <1>4, SpinStep
  <1>5. CASE /\ Lockable(t) /\ Satisfied(t) /\ request[t].all
             /\ Take(EventAt(t, 1))
             /\ UnlockedUpTo(t, "reset", 1)
             /\ UNCHANGED <<list, dangling, state, request, target, hung, signals>>
    <2> DEFINE e == EventAt(t, 1)
    <2>1. AllSignaled(t)
      BY <1>5 DEF Satisfied
    <2>2. e \in Waited(t)
      BY <1>3
    <2>3. isSignaled[e] = 1 /\ Take(e) /\ e = EventAt(t, 1)
      BY <1>5, <2>1, <2>2 DEF AllSignaled
    <2> HIDE DEF e
    <2> QED
      BY <1>1, <1>5, <2>1, <2>2, <2>3, TakenStep
  <1>6. CASE /\ Lockable(t) /\ Satisfied(t) /\ ~request[t].all
             /\ Take(EventAt(t, FirstSignaled(t)))
             /\ UnlockedUpTo(t, "won", 1)
             /\ UNCHANGED <<list, dangling, state, request, target, hung, signals>>
    <2> DEFINE D == {i \in 1..Count(t) : isSignaled[EventAt(t, i)] = 1}
               e == EventAt(t, FirstSignaled(t))
    <2>1. PICK f \in Waited(t) : isSignaled[f] = 1
      BY <1>6 DEF Satisfied
    <2>2. D \subseteq Nat /\ D # {}
      BY <1>3, <2>1
    <2>3. FirstSignaled(t) \in D
      BY <2>2, LeastIndex DEF FirstSignaled
    <2>4. e \in Waited(t) /\ isSignaled[e] = 1 /\ Take(e)
      BY <1>3, <1>6, <2>3
    <2> HIDE DEF e
    <2> QED
      BY <1>1, <1>6, <2>4, TakenStep
  <1>7. CASE /\ Lockable(t) /\ ~Satisfied(t)
             /\ Register(t)
             /\ UnlockedUpTo(t, "unlock", 1)
             /\ UNCHANGED <<isSignaled, dangling, state, request, target, hung, signals, wins>>
    BY <1>1, <1>7, RegisterStep
  <1> QED
    BY <1>4, <1>5, <1>6, <1>7 DEF xtWaitForEvents

(* The next turn of an unlocking loop. *)
LEMMA UnlockStep ==
    ASSUME EventInv, NEW t \in Threads, UnlockNext(t)
    PROVE  EventInv'
  <1>1. /\ dangling = {} /\ pc[t] \in {"reset", "won", "unlock"} /\ Unlocking(t)
        /\ UnlockedUpTo(t, pc[t], pos[t] + 1)
        /\ IF pc[t] = "reset" THEN Take(EventAt(t, pos[t] + 1)) ELSE UNCHANGED <<isSignaled, wins>>
        /\ UNCHANGED <<list, dangling, state, request, target, hung, signals>>
    BY DEF UnlockNext, Scheduled, Unlocking
  <1>2. /\ TypeOK /\ ListedOnlyWhileWaiting /\ BehindOnlyWhileSignaling /\ OneWinnerPerSignal
        /\ Within(t) /\ Holds(t) /\ Keeps(t) /\ \A f \in Events : lock[f] = t => InWindow(t, f)
        /\ t # None
    BY ThreadInv
  <1>3. request[t] \in Requests[t] /\ pos[t] \in 1..(Count(t) - 1) /\ ~Twice(t)
    BY <1>1, <1>2 DEF Within
  <1>4. /\ Count(t) \in Nat \ {0}
        /\ \A i \in 1..Count(t) : EventAt(t, i) \in Events
    BY <1>3, Arguments
  <1>5. PICK l \in {"reset", "won", "unlock"} : l = pc[t]
    BY <1>1
  <1>6. PICK i \in 1..Count(t) : i = pos[t] + 1
    BY <1>3, <1>4
  <1>7. /\ \A k \in i..Count(t) : lock[EventAt(t, k)] = t
        /\ \A f \in Events : lock[f] = t => \E k \in i..Count(t) : EventAt(t, k) = f
        /\ l = "reset" => \A k \in i..Count(t) : isSignaled[EventAt(t, k)] = 1
    BY <1>1, <1>2, <1>5, <1>6 DEF Holds, Keeps, InWindow, Unlocking
  <1>8. /\ pc' \in [Threads -> Location] /\ pos' \in [Threads -> Nat]
        /\ lock' \in [Events -> Threads \cup {None}]
        /\ \A u \in Threads \ {t} : pc'[u] = pc[u] /\ pos'[u] = pos[u]
        /\ pc'[t] = (IF i = Count(t) THEN After(l) ELSE l) /\ pos'[t] = i
        /\ Count(t)' = Count(t) /\ \A k : EventAt(t, k)' = EventAt(t, k)
        /\ Waited(t)' = Waited(t) /\ Twice(t)' = Twice(t)
        /\ \A f \in Events : lock[f] \notin {None, t} => lock'[f] = lock[f]
        /\ \A f \in Events : lock'[f] \notin {None, t} => lock'[f] = lock[f]
        /\ \A k \in (i + 1)..Count(t) : lock'[EventAt(t, k)] = t
        /\ \A f \in Events : lock'[f] = t => \E k \in (i + 1)..Count(t) : EventAt(t, k) = f
    <2>1. UnlockedUpTo(t, l, i) /\ request' = request
      BY <1>1, <1>5, <1>6
    <2>2. \A k \in i..Count(t) : lock[EventAt(t, k)] \in {None, t}
      BY <1>7
    <2> QED
      BY <1>2, <1>3, <1>7, <2>1, <2>2, UnlockTurn
  <1>9. /\ isSignaled' \in [Events -> {0, 1}] /\ wins' \in [Events -> Nat] /\ OneWinnerPerSignal'
        /\ \A f \in Events : f # EventAt(t, i) => isSignaled'[f] = isSignaled[f]
        /\ \A f \in Events : isSignaled'[f] = 1 => isSignaled[f] = 1
        /\ pc[t] # "reset" => isSignaled' = isSignaled
    <2>1. CASE l = "reset"
      <3>1. EventAt(t, i) \in Events /\ Take(EventAt(t, i)) /\ isSignaled[EventAt(t, i)] = 1
        BY <1>1, <1>4, <1>5, <1>6, <1>7, <2>1
      <3>2. signals' = signals
        BY <1>1
      <3>3. /\ isSignaled' \in [Events -> {0, 1}] /\ wins' \in [Events -> Nat]
            /\ OneWinnerPerSignal' /\ isSignaled'[EventAt(t, i)] = 0
            /\ \A f \in Events : f # EventAt(t, i) => isSignaled'[f] = isSignaled[f]
        BY <1>2, <3>1, <3>2, TakeSignal
      <3> QED
        BY <1>5, <2>1, <3>3
    <2>2. CASE l # "reset"
      BY <1>1, <1>2, <1>5, <2>2 DEF TypeOK, OneWinnerPerSignal
    <2> QED
      BY <2>1, <2>2
  <1>10. OnlyOf(t)
    BY <1>1, <1>8 DEF OnlyOf
  <1>11. SparesLocked(t)
    <2>1. \A f \in Events : lock[f] \notin {None, t} => f # EventAt(t, i)
      BY <1>7
    <2> QED
      BY <1>1, <1>8, <1>9, <2>1 DEF SparesLocked
  <1>12. TypeOK'
    BY <1>1, <1>2, <1>8, <1>9 DEF TypeOK
  <1>13. pc'[t] \in {"idle", "sleep", l} /\ (pc'[t] = l => i < Count(t)) /\ (pc'[t] = "sleep" => l = "unlock")
    BY <1>4, <1>8 DEF After
  <1>14. Within(t)'
    BY <1>1, <1>3, <1>4, <1>8, <1>13 DEF Within, Unlocking
  <1>15. Holds(t)'
    BY <1>8, <1>13 DEF Holds, Unlocking
  <1>16. Keeps(t)'
    <2> SUFFICES ASSUME pc'[t] = "reset", NEW k \in (i + 1)..Count(t)
                 PROVE  isSignaled'[EventAt(t, k)] = 1
      BY <1>8 DEF Keeps
    <2>1. l = "reset"
      BY <1>13
    <2>2. k \in i..Count(t) /\ k \in 1..Count(t) /\ k # i
      BY <1>4
    <2>3. EventAt(t, k) # EventAt(t, i)
      BY <1>3, <2>2 DEF Twice
    <2>4. isSignaled[EventAt(t, k)] = 1
      BY <1>7, <2>1, <2>2
    <2> QED
      BY <1>4, <1>9, <2>2, <2>3, <2>4
  <1>17. \A f \in Events : lock'[f] = t => InWindow(t, f)'
    <2> SUFFICES ASSUME NEW f \in Events, lock'[f] = t PROVE InWindow(t, f)'
      OBVIOUS
    <2>1. PICK k \in (i + 1)..Count(t) : EventAt(t, k) = f
      BY <1>8
    <2>2. pc'[t] = l /\ Unlocking(t)'
      BY <1>4, <1>8, <2>1 DEF Unlocking
    <2> QED
      BY <1>8, <2>1, <2>2 DEF InWindow
  <1>18. ListedOnlyWhileWaiting'
    <2>1. \A f \in Events : Placed(t, f) => Placed(t, f)'
      <3>1. CASE l = "unlock"
        <4>1. pc'[t] \in {"unlock", "sleep"}
          BY <1>8, <3>1 DEF After
        <4> QED
          BY <1>5, <1>8, <3>1, <4>1 DEF Placed
      <3>2. CASE l # "unlock"
        BY <1>5, <3>2 DEF Placed
      <3> QED
        BY <3>1, <3>2
    <2> QED
      BY <1>1, <1>2, <1>10, <1>12, <2>1, SameLists
  <1>19. BehindOnlyWhileSignaling'
    <2>1. \A f \in Events : ~Signaling(t, f)
      BY <1>1 DEF Signaling
    <2> QED
      BY <1>1, <1>2, <1>9, <1>10, <2>1, BehindKept
  <1> QED
    BY <1>1, <1>9, <1>10, <1>11, <1>12, <1>14, <1>15, <1>16, <1>17, <1>18, <1>19, StepKeeps

(* What Dequeue does to the lists, unless the node it frees stays linked. *)
LEMMA DequeuedLists ==
    ASSUME EventInv, dangling = {}, NEW t \in Threads, NEW e \in Events, Dequeue(t, e)
    PROVE  /\ list' \in [Events -> Seq(Threads)] /\ dangling' \subseteq Events
           /\ \A f \in Events : f # e => list'[f] = list[f]
           /\ \A f \in Events : \A i \in 1..Len(list'[f]) : \E k \in 1..Len(list[f]) : list[f][k] = list'[f][i]
           /\ dangling' = {} =>
                 /\ \A f \in Events : \A i, j \in 1..Len(list'[f]) : list'[f][i] = list'[f][j] => i = j
                 /\ \A i \in 1..Len(list'[e]) : list'[e][i] # t
  <1> DEFINE mine == {i \in 1..Len(list[e]) : list[e][i] = t}
             m == Min(mine)
  <1>1. list \in [Events -> Seq(Threads)] /\ list[e] \in Seq(Threads) /\ Len(list[e]) \in Nat
    BY DEF EventInv, WaitListInv, TypeOK
  <1>2. \A f \in Events : \A i, j \in 1..Len(list[f]) : list[f][i] = list[f][j] => i = j
    BY ListsInWords DEF EventInv, WaitListInv
  <1>3. CASE mine = {} /\ UNCHANGED <<list, dangling>>
    BY <1>1, <1>2, <1>3
  <1>4. CASE mine # {} /\ list' = [list EXCEPT ![e] = RemoveAt(list[e], m)] /\ UNCHANGED dangling
    <2>1. mine \subseteq Nat
      BY <1>1
    <2>2. m \in mine
      BY <1>4, <2>1, LeastIndex
    <2>3. m \in 1..Len(list[e]) /\ list[e][m] = t
      BY <2>2
    <2> HIDE DEF m, mine
    <2>4. list'[e] = RemoveAt(list[e], m) /\ \A f \in Events : f # e => list'[f] = list[f]
      BY <1>1, <1>4
    <2>5. /\ list'[e] \in Seq(Threads) /\ Len(list'[e]) = Len(list[e]) - 1
          /\ \A k \in 1..(Len(list[e]) - 1) : list'[e][k] = IF k < m THEN list[e][k] ELSE list[e][k + 1]
      BY <1>1, <2>3, <2>4, RemovedNode
    <2>6. list' \in [Events -> Seq(Threads)]
      BY <1>1, <1>4, <2>4, <2>5
    <2>7. ASSUME NEW k \in 1..Len(list'[e])
          PROVE  LET q == IF k < m THEN k ELSE k + 1 IN
                 q \in 1..Len(list[e]) /\ q # m /\ list'[e][k] = list[e][q]
      BY <1>1, <2>3, <2>5
    <2>8. \A i \in 1..Len(list'[e]) : list'[e][i] # t
      BY <1>2, <2>3, <2>7
    <2>9. ASSUME NEW i \in 1..Len(list'[e]), NEW j \in 1..Len(list'[e]), list'[e][i] = list'[e][j]
          PROVE  i = j
      <3>1. (IF i < m THEN i ELSE i + 1) = (IF j < m THEN j ELSE j + 1)
        BY <1>2, <2>7, <2>9
      <3> QED
        BY <1>1, <2>3, <2>5, <3>1
    <2>10. \A i \in 1..Len(list'[e]) : \E k \in 1..Len(list[e]) : list[e][k] = list'[e][i]
      BY <2>7
    <2>11. ASSUME NEW f \in Events
           PROVE  /\ \A i \in 1..Len(list'[f]) : \E k \in 1..Len(list[f]) : list[f][k] = list'[f][i]
                  /\ \A i, j \in 1..Len(list'[f]) : list'[f][i] = list'[f][j] => i = j
      <3>1. CASE f = e
        BY <2>9, <2>10, <3>1
      <3>2. CASE f # e
        BY <1>2, <2>4, <3>2
      <3> QED
        BY <3>1, <3>2
    <2>12. dangling' \subseteq Events
      BY <1>4
    <2> QED
      BY <2>4, <2>6, <2>8, <2>11, <2>12
  <1>5. CASE dangling' = dangling \cup {e} /\ UNCHANGED list
    BY <1>1, <1>5
  <1> QED
    BY <1>3, <1>4, <1>5 DEF Dequeue

(* One turn of removeFromAllEvents (event.c:43-62). *)
LEMMA RemoveStep ==
    ASSUME EventInv, NEW t \in Threads, removeFromAllEvents(t)
    PROVE  EventInv'
  <1>1. CASE Spin(t)
    BY <1>1, SpinStep
  <1>2. CASE ~Spin(t)
    <2>1. /\ TypeOK /\ ListedOnlyWhileWaiting /\ BehindOnlyWhileSignaling /\ OneWinnerPerSignal
          /\ Within(t) /\ \A f \in Events : lock[f] = t => InWindow(t, f)
          /\ t # None
      BY ThreadInv
    <2>2. dangling = {} /\ pc[t] = "remove"
      BY DEF removeFromAllEvents, Scheduled
    <2>3. request[t] \in Requests[t] /\ pos[t] \in 0..(Count(t) - 1)
      BY <2>1, <2>2 DEF Within
    <2>4. Count(t) \in Nat \ {0} /\ \A k \in 1..Count(t) : EventAt(t, k) \in Events
      BY <2>3, Arguments
    <2>5. PICK i \in 1..Count(t) : i = pos[t] + 1
      BY <2>3, <2>4
    <2>6. PICK e \in Events : e = EventAt(t, i)
      BY <2>4
    <2>7. /\ lock[e] = None /\ Dequeue(t, e) /\ pos' = [pos EXCEPT ![t] = i]
          /\ i < Count(t) => pc' = pc
          /\ ~(i < Count(t)) => \E l \in {"timeout", "check"} : pc' = [pc EXCEPT ![t] = l]
          /\ UNCHANGED <<isSignaled, lock, state, request, target, hung, signals, wins>>
      BY <1>2, <2>5, <2>6 DEF removeFromAllEvents, Unheld, LastEvent, Goto
    <2>8. /\ list' \in [Events -> Seq(Threads)] /\ dangling' \subseteq Events
          /\ \A f \in Events : f # e => list'[f] = list[f]
          /\ \A f \in Events : \A j \in 1..Len(list'[f]) : \E k \in 1..Len(list[f]) : list[f][k] = list'[f][j]
          /\ dangling' = {} =>
                /\ \A f \in Events : \A j, k \in 1..Len(list'[f]) : list'[f][j] = list'[f][k] => j = k
                /\ \A j \in 1..Len(list'[e]) : list'[e][j] # t
      BY <2>2, <2>7, DequeuedLists
    <2>9. OnlyOf(t)
      BY <2>1, <2>7 DEF OnlyOf, TypeOK
    <2>10. SparesLocked(t)
      BY <2>7, <2>8 DEF SparesLocked
    <2>11. TypeOK'
      <3>1. pos' \in [Threads -> Nat]
        BY <2>1, <2>4, <2>7 DEF TypeOK
      <3>2. pc' \in [Threads -> Location]
        BY <2>1, <2>7 DEF TypeOK, Location
      <3> QED
        BY <2>1, <2>7, <2>8, <3>1, <3>2 DEF TypeOK
    <2>12. /\ pos'[t] = i /\ (i < Count(t) => pc'[t] = "remove")
           /\ (~(i < Count(t)) => pc'[t] \in {"timeout", "check"})
           /\ Count(t)' = Count(t) /\ \A k : EventAt(t, k)' = EventAt(t, k)
      BY <2>1, <2>2, <2>7 DEF TypeOK, Count, EventAt
    <2>13. Within(t)' /\ Holds(t)' /\ Keeps(t)'
      BY <2>3, <2>4, <2>7, <2>12 DEF Within, Holds, Keeps, Unlocking
    <2>14. OneWinnerPerSignal'
      BY <2>1, <2>7 DEF OneWinnerPerSignal
    <2>15. \A f \in Events : lock'[f] = t => InWindow(t, f)'
      BY <2>1, <2>2, <2>7 DEF InWindow, Unlocking
    <2>16. ListedOnlyWhileWaiting'
      <3>1. CASE dangling' # {}
        BY <3>1 DEF ListedOnlyWhileWaiting
      <3>2. CASE dangling' = {}
        <4>1. ASSUME NEW f \in Events, NEW j \in 1..Len(list'[f]), list'[f][j] = t
              PROVE  Placed(t, f)'
          <5>1. f # e
            BY <2>8, <3>2, <4>1
          <5>2. Placed(t, f)
            <6>1. PICK k \in 1..Len(list[f]) : list[f][k] = t
              BY <2>8, <4>1
            <6> QED
              BY <2>1, <2>2, <6>1, ListsInWords
          <5>3. PICK k \in (pos[t] + 1)..Count(t) : EventAt(t, k) = f
            BY <2>2, <5>2 DEF Placed
          <5>4. k \in (i + 1)..Count(t) /\ i < Count(t)
            BY <2>4, <2>5, <2>6, <5>1, <5>3
          <5> QED
            BY <2>12, <5>3, <5>4 DEF Placed
        <4>2. \A f \in Events : \A j, k \in 1..Len(list'[f]) : list'[f][j] = list'[f][k] => j = k
          BY <2>8, <3>2
        <4>3. \A f \in Events : \A j \in 1..Len(list'[f]) : list'[f][j] = t => Placed(t, f)'
          BY <4>1
        <4>4. \A f \in Events : \A j \in 1..Len(list'[f]) : \E k \in 1..Len(list[f]) : list[f][k] = list'[f][j]
          BY <2>8
        <4> QED
          BY <2>1, <2>2, <2>9, <2>11, <4>2, <4>3, <4>4, FewerNodes
      <3> QED
        BY <3>1, <3>2
    <2>17. BehindOnlyWhileSignaling'
      <3>1. \A f \in Events : ~Signaling(t, f)
        BY <2>2 DEF Signaling
      <3> QED
        BY <2>1, <2>7, <2>8, <2>9, <3>1, BehindKept
    <2> QED
      BY <2>2, <2>9, <2>10, <2>11, <2>13, <2>14, <2>15, <2>16, <2>17, StepKeeps
  <1> QED
    BY <1>1, <1>2

-----------------------------------------------------------------------------
(* Events that have just been created. *)
LEMMA InitEventInv == Init => EventInv
  <1> SUFFICES ASSUME Init PROVE EventInv
    OBVIOUS
  <1>1. TypeOK
    BY EventAssumption DEF Init, TypeOK, Location
  <1>2. \A e \in Events : list[e] = <<>> /\ lock[e] = None /\ isSignaled[e] = 0 /\ wins[e] = 0 /\ signals[e] = 0
    BY DEF Init
  <1>3. \A t \in Threads : pc[t] = "idle"
    BY DEF Init
  <1>4. \A e \in Events : \A i \in 1..Len(list[e]) : FALSE
    BY <1>2
  <1>5. ListedOnlyWhileWaiting /\ BehindOnlyWhileSignaling
    BY <1>4 DEF ListedOnlyWhileWaiting, BehindOnlyWhileSignaling
  <1>6. HeldOnlyInWindows /\ OneWinnerPerSignal
    BY <1>2 DEF HeldOnlyInWindows, OneWinnerPerSignal
  <1>7. CallsWithinArguments /\ WindowsHoldTheirLocks /\ SignalsKept
    BY <1>3 DEF CallsWithinArguments, WindowsHoldTheirLocks, SignalsKept, Unlocking
  <1> QED
    BY <1>1, <1>5, <1>6, <1>7 DEF EventInv, WaitListInv

(* Every step keeps the invariant. *)
LEMMA NextEventInv == EventInv /\ [Next]_vars => EventInv'
  <1> SUFFICES ASSUME EventInv, [Next]_vars PROVE EventInv'
    OBVIOUS
  <1>1. ASSUME NEW t \in Threads, Step(t) PROVE EventInv'
    BY <1>1, WaitStep, UnlockStep, SleepStep, ExpireStep, RemoveStep, WakeNextStep DEF Step
  <1>2. ASSUME NEW t \in Threads, NEW e \in Events, xtSignalEvent(t, e) \/ xtResetEvent(t, e)
        PROVE  EventInv'
    BY <1>2, SignalStep, ResetStep
  <1>3. ASSUME NEW t \in Threads, NEW r \in Requests[t], Call(t, r) PROVE EventInv'
    BY <1>3, CallStep
  <1>4. CASE UNCHANGED vars
    <2>1. UNCHANGED <<isSignaled, list, dangling, lock, state, pc, request, pos, target, hung, signals, wins>>
      BY <1>4 DEF vars, threadVars
    <2>2. TypeOK'
      BY <2>1 DEF EventInv, WaitListInv, TypeOK
    <2>3. ListedOnlyWhileWaiting' /\ HeldOnlyInWindows' /\ OneWinnerPerSignal'
      BY <2>1 DEF EventInv, WaitListInv, ListedOnlyWhileWaiting, HeldOnlyInWindows,
                  OneWinnerPerSignal, Waited, EventAt, Count
    <2>4. CallsWithinArguments' /\ WindowsHoldTheirLocks' /\ SignalsKept' /\ BehindOnlyWhileSignaling'
      BY <2>1 DEF EventInv, CallsWithinArguments, WindowsHoldTheirLocks, SignalsKept,
                  BehindOnlyWhileSignaling, Waited, EventAt, Count, Twice, Unlocking, Signaling
    <2> QED
      BY <2>2, <2>3, <2>4 DEF EventInv, WaitListInv
  <1> QED
    BY <1>1, <1>2, <1>3, <1>4 DEF Next

(***************************************************************************)
(* For any threads, events and calls: the lists of the events hold only    *)
(* threads that wait for them, each once, and an event is locked between   *)
(* two steps only by a thread preempted in one of the four windows.        *)
(***************************************************************************)
THEOREM WaitListsAreSound == Spec => []WaitListInv
  <1>1. EventInv => WaitListInv
    BY DEF EventInv
  <1> QED
    BY <1>1, InitEventInv, NextEventInv, PTL DEF Spec

(***************************************************************************)
(* However many threads poll and however many are woken, a signal lets at  *)
(* most one wait through (event.c:27, 89-101).                             *)
(***************************************************************************)
THEOREM SignalsAreNotDuplicated == Spec => []OneWinnerPerSignal
  <1>1. EventInv => OneWinnerPerSignal
    BY DEF EventInv
  <1> QED
    BY <1>1, InitEventInv, NextEventInv, PTL DEF Spec

(***************************************************************************)
(* Nobody who waits for one of several events stays listed in an event     *)
(* that is signalled and unlocked: there is no window in which a signal    *)
(* misses a thread that registers (event.c:109-120).                       *)
(***************************************************************************)
THEOREM NobodyIsLeftBehind == Spec => []NoWaiterLeftBehind
  <1>1. EventInv => NoWaiterLeftBehind
    <2> SUFFICES ASSUME EventInv, NEW e \in Events, lock[e] = None, isSignaled[e] = 1
                 PROVE  \A i \in 1..Len(list[e]) : request[list[e][i]].all
      BY DEF NoWaiterLeftBehind
    <2>1. \A u \in Threads : ~Signaling(u, e)
      BY EventAssumption DEF EventInv, WindowsHoldTheirLocks, Signaling
    <2> QED
      BY <2>1 DEF EventInv, BehindOnlyWhileSignaling
  <1> QED
    BY <1>1, InitEventInv, NextEventInv, PTL DEF Spec
=============================================================================
