-------------------------- MODULE Scheduler_proofs --------------------------
(***************************************************************************)
(* The scheduler, for every number of threads, every quantum and all sleep *)
(* times: ProcessorInv is inductive, so the processor is always with a     *)
(* thread that can run or is about to leave, the round-robin search starts *)
(* at it, and its ticks count down to zero without wrapping around.        *)
(***************************************************************************)
EXTENDS Scheduler, TLAPS, WellFoundedInduction

-----------------------------------------------------------------------------
(* What the bit operations on thread->state make of its possible values. *)
LEMMA StateBits ==
    ASSUME NEW s \in States
    PROVE  /\ Flag(s) + RUN \in States /\ IsRun(Flag(s) + RUN)
           /\ Flag(s) + WAIT \in States /\ ~IsRun(Flag(s) + WAIT)
           /\ Flag(s) + TERMINATED \in States /\ ~IsRun(Flag(s) + TERMINATED)
           /\ Base(s) # WAIT => OrRun(Base(s)) \in States
           /\ s = SLEEP => OrRun(Base(s)) = RUN
  <1>1. s \in {0, 1, 3, 4, 129, 131, 132}
    BY DEF States, SLEEP, RUN, TERMINATED, WAIT, USER
  <1> QED
    BY <1>1 DEF States, SLEEP, RUN, TERMINATED, WAIT, USER, Base, Flag, OrRun, IsRun

(* The four states a thread is given by name. *)
LEMMA NamedStates ==
    /\ SLEEP \in States /\ ~IsRun(SLEEP)
    /\ RUN \in States /\ IsRun(RUN)
    /\ USER + RUN \in States /\ IsRun(USER + RUN)
    /\ TERMINATED \in States /\ ~IsRun(TERMINATED)
    /\ RUN # SLEEP /\ RUN # TERMINATED /\ SLEEP # TERMINATED
  BY DEF States, SLEEP, RUN, TERMINATED, WAIT, USER, IsRun

(* ticks - 1 stays a tick count, wrap-around included; ticks that are left *)
(* of a quantum stay within it until they are used up.                     *)
LEMMA Ticking ==
    /\ \A n \in Ticks : Decrement(n) \in Ticks
    /\ \A n \in 1..Quantum : Decrement(n) # 0 => Decrement(n) \in 1..Quantum
    /\ Quantum \in 1..Quantum /\ Quantum \in Ticks /\ 0 \in Ticks
  BY SchedulerAssumption DEF Ticks, Decrement

-----------------------------------------------------------------------------
(* xtWakeUpThreads leaves tick counts and states behind, wakes nobody into *)
(* anything but RUN and a full quantum, and touches sleepers only.         *)
LEMMA WakeUp ==
    ASSUME TypeOK
    PROVE  /\ stateAwake \in [Slots -> States]
           /\ ticksAwake \in [Slots -> Ticks]
           /\ \A t \in Slots : state[t] # SLEEP =>
                 stateAwake[t] = state[t] /\ ticksAwake[t] = ticks[t]
           /\ \A t \in Slots : state[t] = SLEEP =>
                 \/ stateAwake[t] = SLEEP
                 \/ stateAwake[t] = RUN /\ ticksAwake[t] = Quantum
  <1>1. \A t \in Slots : Expires(t) => OrRun(Base(state[t])) = RUN
    BY StateBits DEF TypeOK, Expires
  <1>2. \A t \in Slots : state[t] \in States /\ ticks[t] \in Ticks
    BY DEF TypeOK
  <1>3. \A t \in Slots : stateAwake[t] = IF Expires(t) THEN RUN ELSE state[t]
    BY <1>1 DEF stateAwake
  <1>4. \A t \in Slots : ticksAwake[t] \in Ticks
    BY <1>2, Ticking DEF ticksAwake
  <1>5. \A t \in Slots : Expires(t) => ticksAwake[t] = Quantum
    BY DEF ticksAwake
  <1>6. \A t \in Slots : state[t] # SLEEP => ~Expires(t) /\ ticksAwake[t] = ticks[t]
    BY DEF ticksAwake, Expires
  <1>7. stateAwake \in [Slots -> States]
    BY <1>2, <1>3, NamedStates DEF stateAwake
  <1>8. ticksAwake \in [Slots -> Ticks]
    BY <1>4 DEF ticksAwake
  <1> QED
    BY <1>3, <1>5, <1>6, <1>7, <1>8

(* A set of distances has a least one. *)
LEMMA LeastNatural ==
    ASSUME NEW D, D \subseteq Nat, D # {}
    PROVE  \E d \in D : \A m \in D : d <= m
  <1>1. PICK d \in D : \A m \in D : ~(<<m, d>> \in OpToRel(<, Nat))
    BY NatLessThanWellFounded, WFMin, Zenon
  <1>2. \A m \in D : ~(m < d)
    BY <1>1 DEF OpToRel
  <1> QED
    BY <1>2

(* A runnable thread is nearest to the iterator. *)
LEMMA NearestExists ==
    ASSUME TypeOK, NEW S, S \subseteq Live, S # {}
    PROVE  \E t \in S : \A u \in S : Distance(iter, t) <= Distance(iter, u)
  <1> DEFINE D == {Distance(iter, t) : t \in S}
  <1>1. count \in Nat \ {0} /\ iter \in Nat
    BY SchedulerAssumption DEF TypeOK, Live, Slots
  <1>2. \A t \in Live : Distance(iter, t) \in Nat
    BY <1>1 DEF Live, Distance
  <1>3. D \in SUBSET Nat /\ D # {}
    BY <1>2
  <1>4. PICK d \in D : \A m \in D : d <= m
    BY <1>3, LeastNatural
  <1>5. PICK t \in S : d = Distance(iter, t)
    OBVIOUS
  <1> QED
    BY <1>4, <1>5

(* The search of xtSchedule ends at a runnable thread of the list. *)
LEMMA SearchFindsRunnable ==
    ASSUME TypeOK, NEW s, IsRun(s[Idle])
    PROVE  /\ NextThread(s) = NextPosition(s)
           /\ NextPosition(s) \in Live
           /\ IsRun(s[NextPosition(s)])
  <1>1. Idle \in Live
    BY SchedulerAssumption DEF TypeOK, Live, Slots, Idle
  <1>2. Runnable(s) # {} /\ Runnable(s) \subseteq Live
    BY <1>1 DEF Runnable
  <1>3. \E t \in Runnable(s) : \A u \in Runnable(s) : Distance(iter, t) <= Distance(iter, u)
    BY <1>2, NearestExists
  <1>4. NextPosition(s) \in Runnable(s)
    BY <1>2, <1>3 DEF NextPosition
  <1> QED
    BY <1>2, <1>4 DEF NextThread, Runnable

-----------------------------------------------------------------------------
(* The processor with state, ticks and threads as xtSchedule leaves them:  *)
(* everything in ProcessorInv that does not speak of pc.                   *)
LEMMA ScheduleStep ==
    ASSUME ProcessorInv, xtSchedule, pc' \in [Slots -> {"run", "switch"}],
           IsRun(state'[current']) \/ pc'[current'] = "switch"
    PROVE  ProcessorInv'
  <1>1. /\ TypeOK /\ state[Idle] = RUN /\ Idle \in Slots /\ current \in Slots
        /\ iter = current /\ count \in Nat /\ Live \subseteq Slots
    BY SchedulerAssumption DEF ProcessorInv, TypeOK, IdleRuns, IteratorAtCurrent, Live, Slots, Idle
  <1>2. state' = stateAwake /\ count' = count
    BY DEF xtSchedule
  <1>3. stateAwake[Idle] = RUN
    BY <1>1, WakeUp, NamedStates
  <1>4. /\ NextThread(stateAwake) = NextPosition(stateAwake)
        /\ NextPosition(stateAwake) \in Live
        /\ IsRun(stateAwake[NextPosition(stateAwake)])
    BY <1>1, <1>3, NamedStates, SearchFindsRunnable
  <1>5. IsRun(stateAwake[current]) => ticksAwake[current] \in 1..Quantum
    BY <1>1, WakeUp, Ticking, NamedStates DEF ProcessorInv, CurrentHasQuantum
  <1>6. current' \in Live /\ iter' = current'
    BY <1>1, <1>4 DEF xtSchedule, ProcessorInv, TypeOK
  <1>7. ticks' \in [Slots -> Ticks]
    <2>1. CASE GoesOn
      BY <1>1, <2>1, WakeUp, Ticking DEF xtSchedule
    <2>2. CASE ~GoesOn
      BY <1>1, <2>2, WakeUp, Ticking DEF xtSchedule, NewQuantum
    <2> QED
      BY <2>1, <2>2
  <1>8. IsRun(state'[current']) => ticks'[current'] \in 1..Quantum
    <2>1. CASE GoesOn
      <3>1. /\ current' = current /\ IsRun(stateAwake[current])
            /\ ticks'[current] = Decrement(ticksAwake[current])
            /\ Decrement(ticksAwake[current]) # 0
        BY <1>1, <2>1, WakeUp DEF xtSchedule, GoesOn
      <3> QED
        BY <1>5, <3>1, Ticking
    <2>2. CASE ~GoesOn
      <3>1. current' \in Slots /\ ticks'[current'] = Quantum
        BY <1>1, <1>4, <2>2 DEF xtSchedule, NewQuantum
      <3> QED
        BY <3>1, Ticking
    <2> QED
      BY <2>1, <2>2
  <1>9. TypeOK'
    BY <1>1, <1>2, <1>6, <1>7, WakeUp DEF TypeOK, Live
  <1>10. IdleRuns' /\ CurrentCanRun' /\ IteratorAtCurrent' /\ CurrentHasQuantum'
    BY <1>2, <1>3, <1>6, <1>8 DEF IdleRuns, CurrentCanRun, IteratorAtCurrent, CurrentHasQuantum, Idle
  <1> QED
    BY <1>9, <1>10 DEF ProcessorInv

(* Whoever xtSchedule picks can run; who goes on was runnable already. *)
LEMMA PickedCanRun ==
    ASSUME ProcessorInv, xtSchedule
    PROVE  IsRun(state'[current'])
  <1>1. TypeOK /\ state[Idle] = RUN /\ Idle \in Slots
    BY SchedulerAssumption DEF ProcessorInv, IdleRuns, Slots, Idle
  <1>2. IsRun(stateAwake[Idle])
    BY <1>1, WakeUp, NamedStates
  <1>3. /\ NextThread(stateAwake) = NextPosition(stateAwake)
        /\ IsRun(stateAwake[NextPosition(stateAwake)])
    BY <1>1, <1>2, SearchFindsRunnable
  <1> QED
    BY <1>3 DEF xtSchedule, GoesOn

-----------------------------------------------------------------------------
(* What the actions of the current thread rest on: it is not the idle      *)
(* thread, it runs, and it has ticks.                                      *)
LEMMA ActingThread ==
    ASSUME ProcessorInv, Acts
    PROVE  /\ current \in Slots /\ current \in Live /\ current # Idle
           /\ IsRun(state[current]) /\ ticks[current] \in 1..Quantum
  <1>1. current \in Live /\ Live \subseteq Slots
    BY SchedulerAssumption DEF ProcessorInv, TypeOK, Live, Slots
  <1>2. current # Idle /\ pc[current] # "switch"
    BY DEF Acts
  <1> QED
    BY <1>1, <1>2 DEF ProcessorInv, CurrentCanRun, CurrentHasQuantum

(* xtSleepThread: what it puts the thread to sleep with is a tick count. *)
LEMMA SleepStep ==
    ASSUME ProcessorInv, NEW ms \in SleepTimes, xtSleepThread(ms)
    PROVE  ProcessorInv'
  <1>1. /\ current \in Slots /\ current # Idle
        /\ ms \in Ticks
    BY ActingThread, SchedulerAssumption DEF xtSleepThread, Ticks
  <1>2. TypeOK'
    BY <1>1, NamedStates DEF ProcessorInv, TypeOK, xtSleepThread, Live
  <1>3. state'[current] = SLEEP /\ pc'[current] = "switch"
    BY <1>1 DEF ProcessorInv, TypeOK, xtSleepThread
  <1>4. IdleRuns'
    BY <1>1 DEF ProcessorInv, TypeOK, IdleRuns, xtSleepThread, Idle
  <1>5. CurrentCanRun' /\ IteratorAtCurrent' /\ CurrentHasQuantum'
    BY <1>3, NamedStates DEF ProcessorInv, CurrentCanRun, IteratorAtCurrent, CurrentHasQuantum, xtSleepThread
  <1> QED
    BY <1>2, <1>4, <1>5 DEF ProcessorInv

(* A wait without a time limit. *)
LEMMA WaitStep ==
    ASSUME ProcessorInv, Wait
    PROVE  ProcessorInv'
  <1>1. /\ current \in Slots /\ current # Idle /\ state[current] \in States
    BY ActingThread DEF Wait, ProcessorInv, TypeOK
  <1>2. /\ state'[current] = Flag(state[current]) + WAIT
        /\ state'[current] \in States /\ ~IsRun(state'[current])
        /\ pc'[current] = "switch"
    BY <1>1, StateBits DEF ProcessorInv, TypeOK, Wait
  <1>3. TypeOK'
    BY <1>1, <1>2 DEF ProcessorInv, TypeOK, Wait, Live
  <1>4. IdleRuns'
    BY <1>1 DEF ProcessorInv, TypeOK, IdleRuns, Wait, Idle
  <1>5. CurrentCanRun' /\ IteratorAtCurrent' /\ CurrentHasQuantum'
    BY <1>2 DEF ProcessorInv, CurrentCanRun, IteratorAtCurrent, CurrentHasQuantum, Wait
  <1> QED
    BY <1>3, <1>4, <1>5 DEF ProcessorInv

(* Waking or resuming another thread leaves the current one alone. *)
LEMMA WakeStep ==
    ASSUME ProcessorInv, NEW t \in Slots, xtWakeUpThread(t) \/ Resume(t)
    PROVE  ProcessorInv'
  <1>1. /\ t # Idle /\ t # current /\ state[t] \in States /\ current \in Slots /\ Idle \in Slots
    BY SchedulerAssumption DEF xtWakeUpThread, Resume, ProcessorInv, TypeOK, Slots, Live, Idle
  <1>2. /\ state' \in [Slots -> States] /\ ticks' \in [Slots -> Ticks]
        /\ \A u \in Slots \ {t} : state'[u] = state[u] /\ ticks'[u] = ticks[u]
        /\ UNCHANGED <<count, pc, current, iter>>
    BY <1>1, StateBits, Ticking DEF xtWakeUpThread, Resume, ProcessorInv, TypeOK
  <1>3. TypeOK'
    BY <1>2 DEF ProcessorInv, TypeOK, Live
  <1>4. IdleRuns' /\ CurrentCanRun' /\ IteratorAtCurrent' /\ CurrentHasQuantum'
    BY <1>1, <1>2 DEF ProcessorInv, IdleRuns, CurrentCanRun, IteratorAtCurrent, CurrentHasQuantum, Idle
  <1> QED
    BY <1>3, <1>4 DEF ProcessorInv

(* xtTerminateThread: neither the idle thread nor the current one is among *)
(* the joiners it makes runnable.                                          *)
LEMMA TerminateStep ==
    ASSUME ProcessorInv, NEW W \in SUBSET Joiners, xtTerminateThread(W)
    PROVE  ProcessorInv'
  <1>1. /\ current \in Slots /\ current # Idle /\ Idle \in Slots
        /\ \A t \in Slots : state[t] \in States
        /\ Idle \notin W /\ current \notin W
    BY ActingThread, SchedulerAssumption
    DEF xtTerminateThread, Joiners, ProcessorInv, TypeOK, Slots, Idle
  <1>2. state' \in [Slots -> States]
    BY <1>1, StateBits DEF xtTerminateThread
  <1>3. /\ state'[current] = Flag(state[current]) + TERMINATED
        /\ pc'[current] = "switch" /\ state'[Idle] = state[Idle]
    BY <1>1 DEF xtTerminateThread, ProcessorInv, TypeOK
  <1>4. ~IsRun(state'[current])
    BY <1>1, <1>3, StateBits
  <1>5. TypeOK'
    BY <1>1, <1>2 DEF ProcessorInv, TypeOK, xtTerminateThread, Live
  <1>6. IdleRuns' /\ CurrentCanRun' /\ IteratorAtCurrent' /\ CurrentHasQuantum'
    BY <1>3, <1>4
    DEF ProcessorInv, IdleRuns, CurrentCanRun, IteratorAtCurrent, CurrentHasQuantum, xtTerminateThread, Idle
  <1> QED
    BY <1>5, <1>6 DEF ProcessorInv

(* The greatest of the terminated threads is found when there is one. *)
LEMMA SlotIsNotRunning ==
    ASSUME ProcessorInv, NEW s, xtCreateThread(s)
    PROVE  /\ SlotForThread \in Slots /\ SlotForThread # current /\ SlotForThread # Idle
           /\ current \in Slots
  <1>1. /\ count \in Nat /\ SlotForThread \in Slots /\ current \in Live /\ Idle \in Live
        /\ Live \subseteq Slots
    BY SchedulerAssumption DEF xtCreateThread, ProcessorInv, TypeOK, Slots, Live, Idle
  <1>2. current \notin Reusable
    <2>1. CASE Acts
      BY <2>1, ActingThread, NamedStates DEF Reusable
    <2>2. CASE count = 1
      BY <1>1, <2>2, NamedStates DEF ProcessorInv, IdleRuns, Idle, Live, Reusable
    <2> QED
      BY <2>1, <2>2 DEF xtCreateThread
  <1>3. Idle \notin Reusable
    BY NamedStates DEF ProcessorInv, IdleRuns, Reusable
  <1>4. CASE Reusable = {}
    BY <1>1, <1>4 DEF SlotForThread, Live
  <1>5. CASE Reusable # {}
    <2> DEFINE D == {MaxThreads - t : t \in Reusable}
    <2>1. \A t \in Reusable : t \in Slots /\ MaxThreads - t \in Nat
      BY <1>1, SchedulerAssumption DEF Reusable, Slots
    <2>2. D \subseteq Nat /\ D # {}
      BY <1>5, <2>1
    <2>3. PICK d \in D : \A m \in D : d <= m
      BY <2>2, LeastNatural
    <2>4. PICK t \in Reusable : d = MaxThreads - t
      OBVIOUS
    <2>5. \A u \in Reusable : u <= t
      <3> TAKE u \in Reusable
      <3>1. MaxThreads - t <= MaxThreads - u
        BY <2>3, <2>4
      <3> QED
        BY <2>1, <3>1, SchedulerAssumption DEF Slots
    <2>6. SlotForThread \in Reusable
      BY <1>5, <2>5 DEF SlotForThread
    <2> QED
      BY <1>1, <1>2, <1>3, <2>6
  <1> QED
    BY <1>4, <1>5

(* xtCreateThread takes a slot that nobody runs in. *)
LEMMA CreateStep ==
    ASSUME ProcessorInv, NEW s \in {RUN, USER + RUN}, xtCreateThread(s)
    PROVE  ProcessorInv'
  <1>1. /\ SlotForThread \in Slots /\ SlotForThread # current /\ SlotForThread # Idle
        /\ current \in Slots /\ Idle \in Slots
    BY SlotIsNotRunning, SchedulerAssumption DEF Slots, Idle
  <1>2. /\ count \in Nat /\ count' \in Slots /\ count' >= count
    BY SchedulerAssumption DEF xtCreateThread, SlotForThread, ProcessorInv, TypeOK, Slots
  <1>3. /\ state' \in [Slots -> States] /\ ticks' \in [Slots -> Ticks]
        /\ pc' \in [Slots -> {"run", "switch"}]
        /\ \A u \in Slots \ {SlotForThread} :
              state'[u] = state[u] /\ ticks'[u] = ticks[u] /\ pc'[u] = pc[u]
        /\ UNCHANGED <<current, iter>>
    BY <1>1, NamedStates, Ticking DEF xtCreateThread, ProcessorInv, TypeOK
  <1>4. current' \in Live' /\ iter' \in Live'
    BY <1>2, <1>3 DEF ProcessorInv, TypeOK, Live, Slots
  <1>5. TypeOK'
    BY <1>2, <1>3, <1>4 DEF TypeOK
  <1>6. IdleRuns' /\ CurrentCanRun' /\ IteratorAtCurrent' /\ CurrentHasQuantum'
    BY <1>1, <1>3 DEF ProcessorInv, IdleRuns, CurrentCanRun, IteratorAtCurrent, CurrentHasQuantum, Idle
  <1> QED
    BY <1>5, <1>6 DEF ProcessorInv

-----------------------------------------------------------------------------
(* xtSchedulerInit leaves the idle thread running with a full quantum. *)
LEMMA InitProcessorInv == Init => ProcessorInv
  <1> SUFFICES ASSUME Init PROVE ProcessorInv
    OBVIOUS
  <1>1. Idle \in Slots /\ 1 \in Live /\ count = 1
    BY SchedulerAssumption DEF Init, Slots, Live, Idle
  <1>2. TypeOK
    BY <1>1, NamedStates, Ticking DEF Init, TypeOK, Idle, Slots
  <1>3. state[Idle] = RUN /\ ticks[Idle] = Quantum /\ current = Idle /\ iter = Idle
    BY <1>1 DEF Init
  <1> QED
    BY <1>2, <1>3, NamedStates, Ticking
    DEF ProcessorInv, IdleRuns, CurrentCanRun, IteratorAtCurrent, CurrentHasQuantum

(* No step of the timer, of int 0x20 or of a thread leaves the invariant. *)
LEMMA NextProcessorInv == ProcessorInv /\ [Next]_vars => ProcessorInv'
  <1> SUFFICES ASSUME ProcessorInv, [Next]_vars PROVE ProcessorInv'
    OBVIOUS
  <1>1. CASE Timer
    BY <1>1, ScheduleStep, PickedCanRun DEF Timer, ProcessorInv, TypeOK
  <1>2. CASE xtSwitchToThread
    <2>1. pc' \in [Slots -> {"run", "switch"}]
      BY <1>2 DEF xtSwitchToThread, ProcessorInv, TypeOK
    <2> QED
      BY <1>2, <2>1, ScheduleStep, PickedCanRun DEF xtSwitchToThread
  <1>3. ASSUME NEW ms \in SleepTimes, xtSleepThread(ms) PROVE ProcessorInv'
    BY <1>3, SleepStep
  <1>4. CASE Wait
    BY <1>4, WaitStep
  <1>5. CASE Yield
    <2>1. pc' \in [Slots -> {"run", "switch"}] /\ pc'[current] = "switch"
      BY <1>5, ActingThread DEF Yield, ProcessorInv, TypeOK
    <2> QED
      BY <1>5, <2>1 DEF Yield, ProcessorInv, TypeOK, IdleRuns, CurrentCanRun,
                        IteratorAtCurrent, CurrentHasQuantum, Live
  <1>6. ASSUME NEW t \in Slots, xtWakeUpThread(t) \/ Resume(t) PROVE ProcessorInv'
    BY <1>6, WakeStep
  <1>7. ASSUME NEW W \in SUBSET Joiners, xtTerminateThread(W) PROVE ProcessorInv'
    BY <1>7, TerminateStep
  <1>8. ASSUME NEW s \in {RUN, USER + RUN}, xtCreateThread(s) PROVE ProcessorInv'
    BY <1>8, CreateStep
  <1>9. CASE UNCHANGED vars
    BY <1>9 DEF vars, ProcessorInv, TypeOK, IdleRuns, CurrentCanRun, IteratorAtCurrent,
                CurrentHasQuantum, Live
  <1> QED
    BY <1>1, <1>2, <1>3, <1>4, <1>5, <1>6, <1>7, <1>8, <1>9 DEF Next

(***************************************************************************)
(* The processor is always with a thread that can run or is about to leave *)
(* it, never with one that would keep it for good (scheduler.c:61-93).     *)
(***************************************************************************)
THEOREM ProcessorIsSound == Spec => []ProcessorInv
  BY InitProcessorInv, NextProcessorInv, PTL DEF Spec
=============================================================================
