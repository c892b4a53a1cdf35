# Verification of the XT kernel

XT is a small x86_64 kernel in C: a preemptive scheduler on one processor,
kernel threads and user processes, a heap and a page allocator, readers-writer
locks, mutexes, events and pipes, processes with handles, a file layer with a FAT
driver, and a loader.  The modules here model its concurrent core, its memory and the
subsystems above them, TLC checks them on small instances, and TLAPS proves the main
invariants of the readers-writer lock, the mutex, the events, the pipe, the scheduler, the heap, the page
allocator, the loader, the file layer's lists and of threads and processes for every value of the constants.

## How the kernel runs, and what a step is

- One processor.  `xtLockSpinlock` clears the interrupt flag and spins,
  `xtUnlockSpinlock` sets the flag again **without counting**.  So the code between
  a lock and the next unlock is one step, and *any* unlock, also of a different
  spinlock, is a point where the timer may switch threads.
- Functions that unlock a second spinlock while they hold a first one
  (`xtUnlockMutex`, `xtSignalEvent`, `xtWaitForEvents`, `pipeCloseFile`) can
  therefore be preempted with the first one held.  Whoever then wants it spins with
  interrupts disabled on the only processor, for ever: the variable `hung`.
- The timer and `xtSwitchToThread` both enter `xtSchedule` through vector 0x20.

## Inventory

| Component | Source | State | Operations | What makes it correct | Module |
|---|---|---|---|---|---|
| Readers-writer lock, file locking | `xtkernel/rwlock.c`, `fs.c:324-385` | `readers`, two queues, spinlock | `xtLockFile`, `xtAcquireRead/Write`, `xtReleaseRead/Write`, `rwSleep`, `rwWakeOne/All` | exclusion; queue = sleepers; no lost wake-up | `RWLockSpec`, `RWLock` |
| Scheduler, thread states | `xtkernel/scheduler.c`, `process.c:395-529` | list `threads`, iterator, state and ticks of each | `xtSchedule`, `xtSleepThread`, `xtWakeUpThread(s)`, creation, end | processor only with a runnable thread; every runnable one is reached | `Scheduler` |
| Mutex | `xtkernel/mutex.c` | owner, wait list, spinlock | `xtLockMutex`, `xtUnlockMutex` | one owner; sleepers registered | `Mutex` |
| Events | `xtkernel/event.c`, `list.c` | flag, wait list, spinlock | `xtSignalEvent`, `xtResetEvent`, `xtWaitForEvents`, `removeFromAllEvents` | one winner per signal; waits end | `Event` |
| Pipe | `xtkernel/pipe.c` | ring, closed ends, reference count, two events | write, read, close | order of bytes; reads end; freed under no call whose end is open | `Pipe` |
| Kernel heap | `xtkernel/memory.c:30-226` | list of block headers | `xtHeapAlloc`, `xtHeapFree`, growth | blocks tile the region, free ones merged; used ones owned | `Heap` |
| Spinlock | `xtkernel/spinlock.c` | `isBusy`, interrupt flag | lock, unlock | critical sections end | in the step granularity above |
| Page allocator | `xtkernel/memory.c:228-449` | list of regions | allocate, free | disjoint regions, no page lost or owned twice, under either of its addresses | `Pages`, driven by `Loader` |
| Processes, joining | `xtkernel/process.c`, `user.c` | threads, exit codes, wait lists, process | create, terminate, wait | exit code reaches every joiner; only waiters are woken; the kernel's process is not ended with a program | `Process` |
| Handles, system calls | `process.c:30-147`, `user.c`, `arch/x86_64/syscall.c` | tree of descriptor tables | search, install, copy; the calls that make handles | a new object gets a fresh handle | `Handles` |
| File layer, devfs, ram disk | `fs.c`, `devfs.c`, `ramdisk.c`, `list.c` | path nodes, file systems, device list | mount, open, list, register | the deepest mount is used; nothing is skipped in a listing | `Files`, `Devices`, `Lists`; locking in `RWLock` |
| FAT driver | `drivers/vfat/main.c` | FAT, clusters, directories | make, create, open, read, write, list | chains disjoint and finite; what is written reads back | `FAT` |
| Linker, shared pointers | `linker.c`, `sharedptr.c` | modules, reference counts | load for the kernel, for a process; unload | freed after the last user; relocated once, to where it is | `Loader` |
| Virtual memory | `vm.c`, `arch/x86_64/memory.c` | page tables, map of a process | map, unmap, find | mappings as requested | only the order of a map, in `Loader`; planned |
| Block devices, clocks, system calls, boot, strings, printing, vendored code | see PROJECT.json | | | | not modelled: device and CPU I/O, or sequential formatting without state |

How they meet: `xtReadFile`/`xtWriteFile` hold the file's readers-writer lock around the
driver's call; the pipe is such a driver and waits on events inside it; mutex,
events and the lock put threads to sleep through fields the scheduler reads;
all wait lists take their nodes from the heap.  The loader takes images, stacks and
parameters from the page allocator, `xtTerminateProcess` gives them back; system calls reach
pipes, processes and programs through handles.

What is hard: preemption between a registration and the sleep it announces; the
unlock that enables interrupts too early; wake-ups spent on a thread that does not
sleep yet; allocation failing inside a lock; ticks and ring positions at their limits;
lists edited by hand; structures reused while somebody still names them; what two
processes share and one of them gives back; a volume or a table that is full.  Each is a line of `hazards` in PROJECT.json.

## Modules

**RWLockSpec** is the promise: threads hold nothing, read or write; a writer is alone.
**RWLock** is the code.  Each stretch under `lock->spinlock` is an action; `pc` separates
"about to acquire" (the window after a non-blocking test), asleep in the queue, and
inside.  `rwSleep` may fail to allocate: the code then returns with the spinlock taken,
and nothing moves any more; the model keeps this.  `ImplementsRWLock` is the abstract
specification under `INSTANCE RWLockSpec WITH held <- held`, where `held` maps `pc` to what
a thread holds.

**Scheduler** has the whole of `xtSchedule`: wake-ups, the decrement, the circular search.
Thread states are numbers with their flag `XT_THREAD_USER`, since the code computes with
them (`+`, `|`, `& 0x7f`).  A thread that changes its own state switches away in a later
step.  `Forever` stands for tick counts near 2^64.

**Mutex**, **Event**: each stretch with interrupts disabled is an action, including the
windows named above.  In Event a request is a sequence of events, "all" or "any", with or
without a time limit; the three unlocking loops go one event per step.  A request that names an event
twice hangs on its own lock, as in the code.
`dangling` records events whose list keeps a freed node (`xtSetNextList` refuses
NULL).

**Pipe**: bytes are numbers in the order of writing, so order and loss are visible.
Events are flags here.  `xtCloseFile` takes no lock, so an end may be closed under the calls on it: `cut` has
those calls, and the model ends when one of them touches the pipe after it was freed (`fault`).  `passed` has the
waiting readers whose wake-up another reader has taken.

**Heap**: headers are functions of the address; `want` is a history variable,
what callers asked for and have not freed.  Freeing a block twice is refused, as in the code.  One call at a time.

**Process**: one processor runs `current`; between any two stretches under a spinlock the
timer may switch, and so it may between the statements of `xtTerminateThread` and `xtTerminateProcess` that hold none: the load
and the store of `activeThreads--`, its test, the test of TERMINATING and its setting are steps of their own, each of which
follows `thread->process` again.  Two threads may therefore tear one process down, and a structure may change its process
between the count and the test.  A thread is an `XTThread` structure (a slot), and `born` counts the
threads that have lived in it, so that a reference to an earlier one can be told.
`xtCreateThread` reuses slots as the code does, and so does the loss of the USER flag: `xtSleepThread`
assigns the whole state, so a user thread that has slept (`SleepElsewhere`) becomes reusable when it ends.
`activeThreads` and `flags` start as whatever the heap has.  A handle names a structure for ever, whoever lives in it
(`seen.named`).  `xtWaitForThread` is preempted with its own lock held, too (pc "locked"); whoever wants that lock hangs
the processor.  The loop of `xtTerminateProcess` that ends a reused structure
may end another process's last thread: that process is then ended from inside the loop.
`seen.misused` counts the ends of a thread that waits or has ended: properties about wake-ups
speak of histories without them, the others do not.  `Scheduler` has the same
states with the search for the next thread; here that search is left open.

**Handles**: the four tables of 512 entries become `HANDLE_LEVELS` tables of
`HANDLE_ENTRIES`.  Search and installation are separate steps, and `find_free_recursive` is
translated with its two answers that mean something else to the caller (0 and -1).  `sign_ext`
keeps its arithmetic: it accepts every number whose bit 34 is clear.

**Lists**, **Devices**, **Files**: `xtRemoveFromList` by what it does; the device list
with its two critical sections; the tree of path nodes.  `Files` extends `Devices`: opening looks into
the list while drivers change it.  A path is a sequence of names; `behind` is what follows
its terminating zero, since `xtFindPathNode` reads on there.

**FAT**: the driver as `tools/mkimage.c` runs it, on a disk whose unit is a directory entry.
The walk of `vfatWriteFile` steps a cursor from unit to unit, a write takes clusters one by one, the second
copy of the table is kept, and a long name is restored from its entries.  `made` records what
was created and written, for comparison.

**Pages**, **Loader**: `Pages` has the list of free regions as operators; `Loader` extends it and is
the state machine: `xtLoadKernelModule` and `xtExecuteProgram`, cut into steps that several threads
interleave, and `xtTerminateProcess`.  Finding a module and counting the reference are two steps (`found`, then `module`):
a module that was freed in between is counted all the same (`seen.late`), and there the model ends.  A page has two
addresses, p and `High` + p: a kernel stack goes by the second from `xtCreateThread` on, is given back under it, and the
allocator hands such regions out like others.  The properties therefore count physical pages.  The recursion of `xtLoadKernelModule` through imports is the stack `loading` of the
calls in progress: a call finds or reads its image, appends it to the list, makes a call per import and
returns, loaded or failed, to the call below it.  The relocation of an image is the
sequence of bases that were added to its addresses; a process's copy of the data keeps the one the image had when it was
copied.  A module's flags are what the heap held, and a library may refuse its detach.  `owned` and `slack` record what was
handed out and what rounding added.  The model ends where the code reads freed memory.

`MC*` modules hold instances; `*_proofs` modules hold theorems, `Memory_proofs` those of Heap, Pages and Loader
(which is why the specification of Heap has the name `HeapSpec`).

## Runs

Passing, one per component; those of the concurrent core check liveness under fairness too:

| Run | What it shows | Bounds, and why they are enough |
|---|---|---|
| `RWLock` | counter, queues and wake-ups agree, allocation may fail at any time; refinement of `RWLockSpec`; a sleeping writer is woken | 4 threads, all read and write, one non-blocking: a queue can hold two while two are inside |
| `Scheduler` | processor with a runnable thread that has ticks, iterator at it; every runnable thread is reached unless somebody naps for one tick for ever; sleeps of a positive time end | idle and two threads with reuse of their slots; quantum 3, with which a tick leaves a fresh quantum usable; sleeps of 0, 1, 2 and without end |
| `Mutex` | one owner, one node per waiter, a hang only behind a preempted unlock | 4 threads: owner, waker, and two in the list |
| `Event` | one winner per signal, lists hold only waiters, locks held only in known windows, nobody left behind; a wait returns while its events stay signalled | two waiters sharing two events in opposite order, one for all with a time limit and one for any without, a call that names an event twice, a signaller, 2 signals per event |
| `Pipe` | ring contents, order of bytes; freed under no call but those whose own end was closed under them; a read returns when it is due, unless another reader took its wake-up | size 3, calls of 1 to 3 bytes, 5 bytes: fills, wraps, overwrites; a writer and two readers, so that two wait and one is woken |
| `Heap` | the list stays well formed for all sequences of calls | 16 units, requests 1, 2, 3, 5: up to five blocks, splits with and without a rest, all merges; headers off the list are left out of the VIEW |
| `Process` | a sleeping joiner is listed with a live thread or has missed its end; terminations wake waiters only; joins return the exit code and not early; the kernel's process begins to be ended only through a structure reused in a window | 3 slots, 4 threads, so one slot is reused; a kernel and a user process; no thread ended while it waits or twice (`MaxMisused` 0; the proof has any number); `activeThreads` 2, which the ends of two threads bring to zero, and 0 in the kernel's process, which wraps |
| `Handles` | the search finds the lowest free handle; a new object gets a fresh handle; a pipe gets two | 2 levels of 4 entries, of which the standard handles take 3; two threads of one process and one of another, 3 objects, 2 copies: a leaf table fills up, a second one opens |
| `Files` | a path opens in the deepest mount; siblings differ; listings skip nothing; device names clash by race only | paths of up to 3 of 2 names, `.` and `..`; 3 nodes, with one or more names behind the path; 2 drivers |
| `FAT` | chains are disjoint; files read back; sizes; created files are found; the volume is used up before a write is refused; listings | 10 sectors, where the table has as many entries as clusters, and 12; clusters of 3 entries; names of 12, 13 and 14 characters; a file, a directory and a file in it; 2 writes that cross clusters, leave gaps and fill the volume |
| `Loader` | every physical page is free, owned once or lost to rounding; regions disjoint; reference counts cover users; one image per file; relocation of code and data | 24 pages in 2 adjacent regions, higher half at 50; a library that is run as a program too, a driver that imports it and a file that is missing; 2 threads in 2 processes, 2 kernel loads, 3 modules (the kernel, and either both files or two images of one): loads race, fail under a user and between search and count, stacks come back in the higher half and are used again, memory runs out; one base, as no property compares two; 0.4 million states |

One run finds a disagreement with a comment of the source, which `findings` quotes:
`Mutex_lostwakeup`.  An unlock between the registration and the sleep of a waiter removes its
node, and the waiter sleeps for ever; mutex.c:18 says that it falls asleep atomically.

A component's related invariants are checked as one, a conjunction of named parts: `ProcessorInv`,
`WaitListInv`, `RingInv`, `ThreadsInv`, `HandlesInv`, `TreeInv`, `VolumeInv`, `FilesInv`,
`DirectoryInv`, `PagesInv`, `UsersInv` and `RelocationInv`; the comment above each part says what it is
about.  The type invariant is one of the parts, except in `RWLock`, where it is checked by itself,
and in `Mutex` and `Heap`, where it is proved as a part of the inductive invariant.

Every property of a passing run has a mutant in PROJECT.json, a plausible slip in the
code, under which TLC finds the property violated.

The models also show the following, which have no run of their own; where a passing
property has an exception, this is it:

- A woken writer is out of the queue, and readers that arrive before it runs can win
  for ever, against the comment of rwlock.c:52.
- A sleep of 1 ms ends in the `int 0x20` that should switch away, with a new quantum: a thread
  that sleeps so once per quantum keeps the processor (scheduler.c:50), against the comment of
  scheduler.c:71.  `RunnableIsScheduled` has the premise that such naps end (`Naps`).
- `XT_TIMEOUT` is never returned: the ticks of the woken thread are a fresh quantum (event.c:133).
- With two waiters a freed node stays in an event's list (event.c:54).
- A write that fills the pipe's ring makes it look empty: a whole buffer is lost (pipe.c:47).
- A joiner that is preempted between process.c:420 and 421 misses the end of the thread it
  waits for; `SleeperIsListed` names this case.  A thread that is ended while it joins another is
  made runnable again by that one's end (process.c:192).
- `activeThreads` is never set nor counted up: the end of the last thread of a process
  does or does not end the process (process.c:200).
- A thread's structure stays on the list of the process it had, so the end of
  that process ends the thread that lives there now (process.c:232).
- A structure that `xtCreateThread` gives to a kernel thread while the end of its user thread is between process.c:200
  and 205 makes that end tear down the kernel's own process: the exception of `KernelOutlivesPrograms`.
- Two threads can pass the test of TERMINATING before either sets it (process.c:224-227), and both tear the process down.
- `xtWaitForThread` enables interrupts with its own thread's lock held (process.c:419): who ends the thread then hangs.
- A full leaf table makes the search for a handle fail, though other tables are free, and all
  callers but one then overwrite handle 0 (process.c:87, user.c:132, 225).
- A path that ends at a mounted node is followed into the bytes behind it, and after `..` these
  are old names: `/a/b/..` can open below `/a/b` (fs.c:110-116, 159).
- `xtRemoveFromList` unlinks the wrong node (list.c:101): an unregistered device stays listed, freed.
- `vfatOpenDirectory` lists the directory that contains the one asked for (main.c:900 of the driver);
  the dots of a new directory are zeroed after they are written (main.c:827); a name of more than 13
  characters is not found again (main.c:462); the table has entries for clusters
  that do not exist, and the last write to a full volume goes there (main.c:161).
- The image that processes share is relocated for each of them in turn, and the copies of
  its data, made before, lack the last relocation (linker.c:371-373, 406): linker.c:403-404 says that the mapping is
  relocated and the original spared.  `DataLagsBehindCode` is the formula of what the code does.
- A load that fails while a thread is between the search for its module and the count frees that module
  (linker.c:164-168, 425): `seen.late`.
- A kernel stack is given back at its address in the higher half (process.c:262-265, 446): its pages return to the
  allocator under that address and are handed out under it.
- A new module's flags are not set (linker.c:192-195): a kernel module may stay without relocation.
- A library that refuses its detach stays on the list with its XTModule freed (linker.c:131-138, sharedptr.c:50).
- The shared code is freed with the first process that ends, and its module stays in the list
  (process.c:282, linker.c:151).
- An odd number of pages loses one page for good (memory.c:260).
- `xtLockFile` tests and acquires in two steps, so a non-blocking caller can sleep (fs.c:343).
- A sleep of 0 ms wraps around at the first decrement (scheduler.c:49); `SleepEnds`
  therefore speaks of positive times.
- `xtWaitForEvents` has the mutex's window between registration and sleep; a timed
  wait loses at most its time there, since the timer ends that sleep (event.c:119).
- A woken waiter can spin on the lock of the preempted `xtSignalEvent` (event.c:31);
  `HeldOnlyInWindows` says where.
- Two readers of one pipe: a close, or a write larger than the first reader's
  request, sets the auto-reset event once, and the second reader waits on (pipe.c:160, 179): the exception `passed`
  of `ReadReturns`.
- The last close frees the pipe under calls whose end it or an earlier close took away (pipe.c:170-196, fs.c:425-430):
  `cut` in `FreedUnderCutCallsOnly`.
- A full heap takes 1 byte, not 16 KB, from the page allocator, and the new region is not put
  on the list (memory.c:132).
- `xtHeapAlloc` and `xtHeapFree` take no lock: two threads preempted at memory.c:96 get
  the same block.

### Fairness

- Scheduler: weak fairness of the timer interrupt alone; every critical section modelled
  there ends.
- RWLock, Event, Pipe: weak fairness of each thread's steps inside a call.  It is what
  `RunnableIsScheduled` and `SleepEnds` give to a runnable or timed-asleep thread, as long as
  no thread sleeps 1 ms at a time.  Nobody is obliged to
  call anything.  A step of a hung processor is never enabled, so liveness in
  Event and Pipe says "or the processor hangs", and the hang has its own
  property.

`CHECK_DEADLOCK FALSE` appears where the system may stop: after a failed `rwSleep`, after
a hang, when everybody waits for a signal, when the byte bound is used up.

## Proofs

The eight `*_proofs` modules are checked by TLAPS.  Each theorem is about the specification the run
checks, under the assumption on the constants that TLC evaluates in the run.  The inductive
invariants were checked by TLC on the runs' instances first.

**Readers-writer lock**, for every finite set of threads, any subset of which writes or is
non-blocking, with or without allocation failure (`RWLockAssumption`).  `IndInv` is
`TypeOK`, `HoldersMatchCount`, `SleepersAreQueued` and `NoLostWakeup` together.  None but
the type invariant is inductive alone: that a release wakes a sleeper needs the queue
to hold only sleepers, once each; that the counter stays right needs it to be the
number of readers, hence cardinality lemmas for one reader more or less; that a
wake-up is not lost needs a holder behind every nonzero counter.  The proof takes one
step per action and one per conjunct the action can disturb.  `RefinesRWLockSpec` then
maps each step to a step of the abstract lock or to a stutter, using `HoldersMatchCount`
before the step.

**Mutex**, for every set of threads (`MutexAssumption`: `None` is not one).  `MutexInv`, the
conjunction of the type invariant and the checked ones, is inductive as it stands.  `ListedOnce`
carries most of it: a thread that registers is runnable and at `xtLockMutex`, so it has no
node yet; the head that `xtUnlockMutex` wakes has no second node, so the others stay
asleep.  `MutexExcludes` does not need the wait list, and the lost wake-up does not
touch it.

**Scheduler**, for every length of the list, every quantum and all sleep times
(`SchedulerAssumption`).  `ProcessorInv` rests on its part `IdleRuns`: the idle thread is runnable and
nothing ends it or puts it to sleep, so the circular search of `xtSchedule` always ends at a runnable
thread; that the search takes the *next* one rests on the least distance from the iterator.  What the bit
operations do to the seven values of `thread->state` is a lemma.

**Events**, for any threads, events and requests (`EventAssumption`: a request has at least one
event).  `EventInv` adds who holds which lock.  Between two unlocks a thread holds the locks of
all events it has yet to unlock, and the one that signals holds the lock of its event and has somebody left to
wake; so nobody else touches these flags and lists, and a wait for all finds the signals it has
yet to take.  This gives `OneWinnerPerSignal`.  `NoWaiterLeftBehind` follows from
`BehindOnlyWhileSignaling`, since an unlocked event is not being signalled.

**Pipe**, for every size, every number of readers and all lengths of calls (`PipeAssumption`).
`PipeInv` adds that what was read lies before what is in the ring, and the protocol of the two
closes: who holds the lock, what `refCount` counts, that at most one end is the last, and that a call on an end that is
no longer open was cut by its close.  The ring's
part is arithmetic: lemmas on `%` say what the two halves of a copy write.  `WriterNeverWaits` states
what the proof turned up: `pipeFree` is at least 1, so the test at pipe.c:88 never holds, and a writer
overruns the reader instead of waiting.

**Device list**, in `Files_proofs`, for every set of drivers and names (`DevicesAssumption`), whatever the file
layer does at the same time.  `DevInv` adds that the part of the list a driver has searched still lacks its name when it
inserts.  This holds for a surprising reason: `xtRemoveFromList` either leaves the list as it was or
damages it, so nothing undamaged is ever removed.

**Directory listings**, in `Files_proofs`, for all trees of path nodes, paths, mounts and driver directories
(`FilesAssumption`).  `ListingInv` says that what a listing has yet to give is a node at or behind `dir->pos`, or an
entry of the driver that `dir->pos` minus the number of nodes has not passed.  A mount in the middle makes the
list longer, hence that difference smaller: entries come twice and none is skipped.  The proof
needs of the tree only that nodes are made at the end and keep their parents, not where a path leads, which would be
induction over its names.

**Threads and processes**, for every number of structures, of threads, of processes, of
misuses, and any content of `activeThreads` (`ProcessAssumption`).  `ProcessInv` has these parts:
`WaitersInv` relates a waiter to its thread: `due` is the result of that thread until the structure is reused,
a waiter is runnable only with its due, and without one it is on the list of a live thread, unless
there was a stray wake-up.  `NodesInv`: without misuse, the list of a thread that can still be ended
has only live threads that wait for it; so no wake-up is stray.  `EntriesInv` and `CallsInv`: a user
thread in its first life is on no list of waiters, so it stays ended once the loop of
`xtTerminateProcess` has passed it, whoever else tears the same process down.  `CountOK`, a part of `CallsInv`: while the
structure holds the thread that is being ended, the counter of the kernel's process has wrapped before it is tested;
`KernelNotEnded` is read off it.  `JoinReturnsExitCode` is an action property and follows from `ProcessInv` before the
step.

**Heap**, for every region, header size and set of requests (`HeapAssumption`).
`HeapInv` strengthens the checked properties by `Disjoint`: `Tiled` speaks
of list neighbours only, and without an order on all blocks the provers cannot exclude
that a new header lands inside a distant block.

**Page allocator**, for every list of free regions (`PagesAssumption`: in ascending order, adjacent ones allowed, none empty,
none at address 0, all below `High`) and all sizes of requests.  `Whole` is what the list keeps: regions in ascending order and apart, none
empty while no node has been freed in place.  One lemma per case of `xtFreePages` (joined to the left, to
both sides, to the right, put between) and two for `xtAllocatePages` (a region shortened, a region used up) say that
`Whole` is kept and which pages become free or stop being it.  `MemoryOK` adds the pieces that are owned: none
shares an address with another or with a free region, and (`Addressed`) every page is free, slack or in a piece under one
of its two addresses and not under the other.  `TakeStack` moves a piece from one address to the other; no region of the one
half joins one of the other, since address `High` itself is no page's.  A release is
correct of a piece that is owned, or of the front of one, since the code of an image is given back
without its data.

**Loader**, for every set of files, every graph of imports (cycles too), every finite set of runners and any numbers of
pages (`LoaderAssumption`).  `LoaderInv` has five parts.  `Shape`: what a thread has at each step, and that only
the innermost call can be without its module.  `Counted`: a reference for each user and each load,
and no user of a freed module until one is counted late.  `Listed`: until a load fails, every
module is on the list, so a search that misses proves that there is no image of the file.  `Relocated`: a
module without the flag has not been moved for the kernel, and the data of a process is a prefix of its code's relocation,
a strict one once `RelocateImage` is past; no step makes a relocation shorter.  `MemoryInv`: `MemoryOK`, and a function
`role` from first pages to what the piece is for (the image of a module, one just read by a runner or a load, the data,
parameters or stack of a process).  Pieces with different roles are different, so what one process gives back is never
what another has; this is the fact that the releases of `xtTerminateProcess` and `xtFreeModuleInternal` need.  The role of a piece is
existentially quantified, as the state does not record it.  `PagesInv`, `UsersInv` and `RelocationInv`
each follow from `LoaderInv`.  The properties keep their exceptions: after two loads have raced or one has
failed a file may have two images, and shared code that was freed with a process is outside `PagesOwnedOnce`.

Only model-checked: liveness and fairness (not in the provers' reach); where paths lead (`TreeInv`) and FAT, whose
walks along names and chains would need induction over data; Handles, whose search for a free handle is a recursive
operator, as in the code; and the violation.

## What the models leave out

- Saved contexts and nested interrupts: `xtSchedule` switches atomically.  More than one processor.
- Event: after a freed node stays linked, and after a hang, nothing more is modelled.
- RWLock: the event of the file, which `xtReadFile` resets and `xtWriteFile` signals (fs.c:20, 506): it touches no
  variable of the lock.  The FAT driver's calls of `xtReadFile` on the file it holds.
- Pipe: each end is closed once (nothing in the repository closes a pipe yet: `xtUserCloseHandle` does nothing);
  what a call does to the freed pipe; events are flags; no non-blocking ends, which nothing creates.
- Mutex, Event: callers unlock what they hold.  A failing `xtCreateList` (mutex.c:20-22, event.c:112-115), after which the
  thread sleeps without being registered.
- Process: `threads`, `memoryMap` and `descriptorRoot`, which `xtCreateProcess` leaves as the heap had them, are taken as
  empty: anything else is followed into nowhere.  A handle that `xtUserTerminateThread` takes for a thread's is
  one (user.c:54 does not look).  Allocations do not fail (in `xtWaitForThread` that would return with the thread's lock
  held); `xtCreateThread` finds and claims a structure in one step; a turn of the loop of `xtTerminateProcess`
  tests a thread and ends it up to the unlock in one; what follows the release of a process is not
  modelled, since the scheduler then walks freed threads.  Waiting is for kernel threads, as no system
  call waits.
- Handles: one child process; copying to and from user memory; reading and writing through a
  handle.  `HandleBits` exceeds the bits of the small tree, so that no handle a search
  finds is refused, as none is in the code below 2^34.
- Files: contents; one open file or listing at a time; `xtCopyFile`, creation through
  `xtOpenFile`, the list of open files, which nothing fills.
- FAT: `vfatSetFileInfo` for an entry that is there already (main.c:382-392), which nobody calls; the kernel build, where the driver would take the lock of its own file again; times
  and attributes; deletion, which is in no table; a device that fails.
- Pages, Loader: requests for a given address; memory attributes; several calls at a time inside the
  allocator; the page table of a process, taken and given back with it (process.c:308); a heap that is full
  (`xtCreateSharedPtr`); the page-table entries of a process mapped from an address in the higher half; addresses inside images and import tables; two calls of `xtLoadKernelModule` from outside at
  a time.  The instance has no cycle of imports; the theorems allow them.
- Heap: alignment to 16 bytes is the unit of the addresses; the first region only, since
  `heaps` never gets a second one.

## Not modelled

Page tables and the placement of mappings (`arch/x86_64/memory.c`, most of `vm.c`): processor
state, changed by one thread at a time.  Block devices and GPT (`gpt.c`), clocks, interrupts and
ACPI: device registers and offsets.  `queue.c`: nobody calls it.  Boot: a straight line, whose
end is the `Init` of the modules.  Strings, encodings, printing, PE headers: conversions and data layout.

## Plan

Done: models of all the modules above; proofs of RWLock, Scheduler, Mutex, Event, Pipe, Heap, Pages, Loader,
Process, and Files in part.

Next, in this order:

1. `VM`: the walk and creation of page tables against the mapping they stand for.
2. The calendar arithmetic of `time.c` and the offsets of `gpt.c`, over bounded inputs.
