------------------------------- MODULE Loader -------------------------------
(***************************************************************************)
(* The loader of xtkernel/linker.c, with the shared pointers it counts     *)
(* references with, the page allocator below it (module Pages), and what   *)
(* xtTerminateProcess gives back.                                          *)
(*                                                                         *)
(* An image is read once into pages that the list `modules' keeps; every   *)
(* process that runs the file maps those pages, and gets copies of its own *)
(* of the writable sections only.  An image has a section of code and one  *)
(* of data.  Its relocation is the sequence of the bases that have been    *)
(* added to its addresses: <<b>> is right for a process that has it at b,  *)
(* <<Kernel>> for the kernel.  xtExecuteProgram is called by several       *)
(* threads and xtLoadKernelModule by one, with interrupts enabled          *)
(* throughout: a step of one comes between any two steps of another.       *)
(***************************************************************************)
EXTENDS Pages

CONSTANTS
    Files, Present,     \* the names of modules, and those that can be opened
    Imports,            \* [Files -> Seq(Files)], what a kernel module imports
    Bases,              \* the random addresses of xtLoadModuleEx
    Runners,            \* threads that execute programs, each in a process of its own
    CodePages, DataPages,   \* of an image, the data writable
    StackPages,         \* of a kernel stack, 4 in the code
    MaxModules, MaxKernelLoads

Kernel == "kernel"      \* xtkernel.xte, and the base of an image in the kernel
ImagePages == CodePages + DataPages
NoModule == 0

ASSUME LoaderAssumption ==
    /\ Present \subseteq Files /\ Kernel \notin Files \cup Bases
    /\ Imports \in [Files -> Seq(Files)] /\ IsFiniteSet(Runners)
    /\ MaxModules \in Nat /\ MaxKernelLoads \in Nat /\ {CodePages, DataPages, StackPages} \subseteq Nat \ {0}

VARIABLES
    modules,        \* the list: which module each node refers to
    module,         \* every XTModule with its shared pointer: file, image, count,
                    \*   relocated (flag 0x4), relocation, freed
    run,            \* a runner's xtExecuteProgram: pc, file, the module found and then the one
                    \*   counted, the image read, base
    process,        \* its process: memoryMap (pieces of memory), stacks, module, base, the
                    \*   relocation of its copy of the data, ended
    loading,        \* the calls of xtLoadKernelModule in progress, the innermost last: file,
                    \*   found and module or the image read, the imports left, failed (one of them)
    kernelLoads,    \* the number of calls of xtLoadKernelModule from outside
    seen            \* history: raced and failed loads; late, a module counted that had been
                    \*   freed since it was found; torn, the modules whose code has been freed
                    \*   with a process that ran it; fault: the model ends

loaderVars == <<modules, module, run, process, loading, kernelLoads, seen>>
vars == <<pageVars, loaderVars>>

NoRun == [pc |-> "idle", file |-> Kernel, found |-> NoModule, module |-> NoModule, image |-> Nowhere,
          base |-> Kernel]
NoProcess == [memoryMap |-> <<>>, stacks |-> <<>>, module |-> NoModule, base |-> Kernel, data |-> <<>>, ended |-> 0]

TypeOK ==
    /\ \A i \in DOMAIN modules : modules[i] \in DOMAIN module
    /\ \A m \in DOMAIN module : module[m].file \in Files \cup {Kernel} /\ module[m].count \in Nat
    /\ \A l \in Runners : run[l].module \in DOMAIN module \cup {NoModule}
    /\ \A i \in DOMAIN regions : regions[i].start \in Nat /\ regions[i].length \in Nat

(* xtInsertKernelModule: the kernel's own image heads the list. *)
Init ==
    /\ PageInit
    /\ modules = <<1>>
    /\ module = <<[file |-> Kernel, image |-> Nowhere, count |-> 1, relocated |-> 1,
                   relocation |-> <<>>, freed |-> 0]>>
    /\ run = [l \in Runners |-> NoRun]
    /\ process = [l \in Runners |-> NoProcess]
    /\ loading = <<>>
    /\ kernelLoads = 0
    /\ seen = [raced |-> 0, failed |-> 0, late |-> 0, torn |-> {}, fault |-> 0]

Users(m) == {l \in Runners : m \in {run[l].module, process[l].module}}
Loads(m) == {i \in DOMAIN loading : loading[i].module = m}

(* What follows the use of freed memory is not followed: a list node freed  *)
(* in place, a process whose code is free, a freed module found again or    *)
(* counted, an image read to address 0.                                     *)
Sound ==
    /\ seen.fault = 0 /\ seen.late = 0
    /\ AllLinked(regions)
    /\ \A m \in seen.torn : Users(m) = {} /\ Loads(m) = {}

-----------------------------------------------------------------------------
(***************************************************************************)
(* The steps below are functions of the state they change, a record s, so  *)
(* that a handler can go through several.                                  *)
(***************************************************************************)
State == [regions |-> regions, owned |-> owned, slack |-> slack, modules |-> modules,
          module |-> module, torn |-> seen.torn, fault |-> seen.fault]

Becomes(s) ==
    /\ regions' = s.regions /\ owned' = s.owned /\ slack' = s.slack
    /\ modules' = s.modules /\ module' = s.module

Take(s, n) ==
    LET a == xtAllocatePages(s.regions, n) IN
    IF ~AllLinked(s.regions) THEN s
    ELSE IF a.start = Nowhere THEN [s EXCEPT !.fault = 1]
    ELSE [s EXCEPT !.regions = a.regions, !.owned = @ \cup {Piece(a.start, n)},
                   !.slack = @ \cup Padding(a.start, n)]
TakenAt(s, n) == xtAllocatePages(s.regions, n).start

(* A kernel stack, which goes by its address in the higher half from then on. *)
TakeStack(s) ==
    LET t == Take(s, StackPages)
        a == TakenAt(s, StackPages)
    IN  IF ~AllLinked(s.regions) \/ a = Nowhere THEN t
        ELSE [t EXCEPT !.owned = (@ \ {Piece(a, StackPages)}) \cup {Piece(Higher(a), StackPages)}]

(* What is given back may be a part of what was taken, the code of an image. *)
Give(s, piece) ==
    IF ~AllLinked(s.regions) THEN s ELSE
    [s EXCEPT !.regions = xtFreePages(s.regions, piece.start, piece.length),
              !.owned = {IF o.start # piece.start THEN o
                         ELSE Piece(o.start + piece.length, o.length - piece.length) : o \in @} \ {
                        Piece(piece.start + piece.length, 0)}]

(* xtFindModuleList: the first node with the name; it reads every module   *)
(* on the way, and those that have been freed too, and may find one whose  *)
(* code has been freed.                                                    *)
Named(s, f) == {i \in DOMAIN s.modules : s.module[s.modules[i]].file = f}
xtFindModuleList(s, f) == IF Named(s, f) = {} THEN 0 ELSE Min(Named(s, f))
ReadsFreed(s, f) ==
    LET found == xtFindModuleList(s, f)
        read == IF found = 0 THEN DOMAIN s.modules ELSE 1..found
    IN  \/ \E i \in read : s.module[s.modules[i]].freed = 1
        \/ found > 0 /\ s.modules[found] \in s.torn

SameCount(s, m) == s
xtIncrementReference(s, m) == [s EXCEPT !.module[m].count = @ + 1]

(* The image is in memory; the module and its list node are made.  Nobody  *)
(* sets its flags: they are what the heap's block held.  (The flag 0x2 only *)
(* says whether the library's main is to be called, and is left out.)      *)
AppendModule(s, f, image, relocated) ==
    [s EXCEPT !.module = Append(@, [file |-> f, image |-> image, count |-> 1, relocated |-> relocated,
                                    relocation |-> <<>>, freed |-> 0]),
              !.modules = Append(@, Len(s.module) + 1)]

(***************************************************************************)
(* xtFreeModuleInternal, when xtDecrementReference has counted to zero.    *)
(* The node that is found by the name need not be the one that goes.  When *)
(* the library's main refuses the detach, the image and the node stay, and *)
(* xtDecrementReference frees the XTModule all the same.                   *)
(***************************************************************************)
xtFreeModuleInternal(s, m) ==
    LET i == xtFindModuleList(s, s.module[m].file)
    IN  [Give(s, Piece(s.module[m].image, ImagePages))
           EXCEPT !.modules = IF i = 0 THEN @ ELSE xtRemoveFromList(@, i),
                  !.fault = IF Dangles(s.modules, i) THEN 1 ELSE @]

Unused(count) == count = 0

xtDecrementReference(s, m, detached) ==
    LET one == [s EXCEPT !.module[m].count = @ - 1]
        done == IF detached THEN xtFreeModuleInternal(one, m) ELSE one
    IN  IF Unused(one.module[m].count) THEN [done EXCEPT !.module[m].freed = 1] ELSE one

AddBase(relocation, base) == Append(relocation, base)
ApplyRelocations(s, m, base) == [s EXCEPT !.module[m].relocation = AddBase(@, base)]

-----------------------------------------------------------------------------
(***************************************************************************)
(* xtGetOrLoadPhysicalModule finds the module, or opens the file and reads *)
(* its image.  In a step of its own the reference to what was found is     *)
(* counted, and meanwhile the module may have been freed; or the image is  *)
(* put on the list, where another thread may have put one.                 *)
(***************************************************************************)
Get(f) ==
    LET i == xtFindModuleList(State, f) IN
    IF i > 0 THEN [state |-> State, found |-> modules[i], image |-> Nowhere]
    ELSE [state |-> Take(State, ImagePages), found |-> NoModule, image |-> TakenAt(State, ImagePages)]

CanGet(f) == xtFindModuleList(State, f) > 0 \/ f \in Present

Count(m) ==
    /\ Becomes(xtIncrementReference(State, m))
    /\ seen' = [seen EXCEPT !.late = module[m].freed]

Crashes ==
    /\ seen' = [seen EXCEPT !.fault = 1]
    /\ UNCHANGED <<pageVars, modules, module, run, process, loading>>

AppendLoaded(f, image) ==
    /\ Len(module) < MaxModules
    /\ \E relocated \in {0, 1} : Becomes(AppendModule(State, f, image, relocated))
    /\ seen' = [seen EXCEPT !.raced = IF xtFindModuleList(State, f) > 0 THEN 1 ELSE @]

-----------------------------------------------------------------------------
(***************************************************************************)
(* xtLoadKernelModule with xtLoadKernelSubmodules, which calls it for each *)
(* import.  A file is opened under one of the five prefixes or not at all. *)
(***************************************************************************)
Top == loading[Len(loading)]
Loading == Sound /\ loading # <<>>
Failing(calls) == IF calls = <<>> THEN <<>> ELSE [calls EXCEPT ![Len(calls)].failed = 1]

CallFor(f, calls) ==
    \/ ReadsFreed(State, f) /\ Crashes
    \/ /\ ~ReadsFreed(State, f) /\ CanGet(f)
       /\ LET got == Get(f) IN
          /\ Becomes(got.state)
          /\ loading' = Append(calls, [file |-> f, found |-> got.found, module |-> NoModule,
                                       image |-> got.image, imports |-> Imports[f], failed |-> 0])
          /\ seen' = [seen EXCEPT !.fault = got.state.fault]
       /\ UNCHANGED <<run, process>>
    \/ /\ ~ReadsFreed(State, f) /\ ~CanGet(f)
       /\ loading' = Failing(calls)
       /\ UNCHANGED <<pageVars, modules, module, run, process, seen>>

xtLoadKernelModule(f) ==
    /\ Sound /\ loading = <<>> /\ kernelLoads < MaxKernelLoads
    /\ CallFor(f, <<>>)
    /\ kernelLoads' = kernelLoads + 1

CountKernelModule ==
    /\ Loading /\ Top.module = NoModule /\ Top.found # NoModule
    /\ Count(Top.found)
    /\ loading' = [loading EXCEPT ![Len(loading)].module = Top.found]
    /\ UNCHANGED <<run, process, kernelLoads>>

AppendKernelModule ==
    /\ Loading /\ Top.module = NoModule /\ Top.found = NoModule
    /\ AppendLoaded(Top.file, Top.image)
    /\ loading' = [loading EXCEPT ![Len(loading)].module = Len(module) + 1]
    /\ UNCHANGED <<run, process, kernelLoads>>

LoadKernelSubmodule ==
    /\ Loading /\ Top.module # NoModule /\ Top.failed = 0 /\ Top.imports # <<>>
    /\ CallFor(Head(Top.imports), [loading EXCEPT ![Len(loading)].imports = Tail(@)])
    /\ UNCHANGED kernelLoads

(* A module is relocated once, by its flag.                                *)
RelocatesAlways(record) == TRUE
Relocates(record) == record.relocated = 0
Settle(s, m) ==
    LET moved == IF Relocates(s.module[m]) THEN ApplyRelocations(s, m, Kernel) ELSE s
    IN  [moved EXCEPT !.module[m].relocated = 1]

ReturnLoaded ==
    /\ Loading /\ Top.module # NoModule /\ Top.failed = 0 /\ Top.imports = <<>>
    /\ Becomes(Settle(State, Top.module))
    /\ loading' = Front(loading)
    /\ UNCHANGED <<run, process, kernelLoads, seen>>

(* A call that fails gives back its module; the modules that have been      *)
(* imported for it keep the references, and its caller fails too.           *)
ReturnFailed ==
    /\ Loading /\ Top.failed = 1
    /\ \E detached \in BOOLEAN :
          LET s == xtDecrementReference(State, Top.module, detached) IN
          /\ Becomes(s)
          /\ seen' = [seen EXCEPT !.failed = 1, !.fault = s.fault]
    /\ loading' = Failing(Front(loading))
    /\ UNCHANGED <<run, process, kernelLoads>>

-----------------------------------------------------------------------------
(* xtExecuteProgram, step by step.  First its xtGetOrLoadPhysicalModule.   *)
At(l, pc) == Sound /\ run[l].pc = pc

GetProgram(l, f) ==
    /\ At(l, "idle") /\ process[l].ended = 0 /\ process[l].module = NoModule
    /\ \/ ReadsFreed(State, f) /\ Crashes
       \/ /\ ~ReadsFreed(State, f) /\ CanGet(f)
          /\ LET got == Get(f) IN
             /\ Becomes(got.state)
             /\ run' = [run EXCEPT ![l] = [NoRun EXCEPT
                           !.file = f, !.found = got.found, !.image = got.image,
                           !.pc = IF got.found = NoModule THEN "append" ELSE "count"]]
             /\ seen' = [seen EXCEPT !.fault = got.state.fault]
          /\ UNCHANGED <<process, loading>>
    /\ UNCHANGED kernelLoads

CountProgram(l) ==
    /\ At(l, "count")
    /\ Count(run[l].found)
    /\ run' = [run EXCEPT ![l].pc = "map", ![l].module = run[l].found]
    /\ UNCHANGED <<process, loading, kernelLoads>>

AppendProgram(l) ==
    /\ At(l, "append")
    /\ AppendLoaded(run[l].file, run[l].image)
    /\ run' = [run EXCEPT ![l].pc = "map", ![l].module = Len(module) + 1]
    /\ UNCHANGED <<process, loading, kernelLoads>>

(* xtMapModuleToProcess: the code is the image's, the data is copied as it *)
(* is then.                                                                *)
xtMapModuleToProcess(l, base) ==
    LET m == run[l].module
        code == Piece(module[m].image, CodePages)
        s == Take(State, DataPages)
    IN
    /\ At(l, "map")
    /\ Becomes(s)
    /\ process' = [process EXCEPT ![l] = [NoProcess EXCEPT
                      !.memoryMap = <<code, Piece(TakenAt(State, DataPages), DataPages)>>,
                      !.module = m, !.base = base, !.data = module[m].relocation]]
    /\ run' = [run EXCEPT ![l].pc = "relocate", ![l].base = base]
    /\ seen' = [seen EXCEPT !.fault = s.fault]
    /\ UNCHANGED <<loading, kernelLoads>>

(* The rest of xtLoadModuleEx relocates the image, not the mapping.        *)
RelocateImage(l) ==
    /\ At(l, "relocate")
    /\ Becomes(ApplyRelocations(State, run[l].module, run[l].base))
    /\ run' = [run EXCEPT ![l].pc = "start"]
    /\ UNCHANGED <<process, loading, kernelLoads, seen>>

(* xtPassArgs and xtCreateThread: the parameters, which are mapped, the     *)
(* kernel stack, and a page of the user stack, which no map entry names.    *)
StartThread(l) ==
    LET args == Take(State, 1)
        kernelStack == TakeStack(args)
        userStack == Take(kernelStack, 1)
    IN
    /\ At(l, "start")
    /\ Becomes(userStack)
    /\ process' = [process EXCEPT ![l].memoryMap = Append(@, Piece(TakenAt(State, 1), 1)),
                                  ![l].stacks = <<Piece(Higher(TakenAt(args, StackPages)), StackPages)>>]
    /\ run' = [run EXCEPT ![l] = NoRun]
    /\ seen' = [seen EXCEPT !.fault = userStack.fault]
    /\ UNCHANGED <<loading, kernelLoads>>

(***************************************************************************)
(* xtTerminateProcess frees the kernel stacks, at the address in the higher *)
(* half that kernelStack holds (process.c:264), and whatever the map names: *)
(* `~(map->attr & XT_MEM_SHARED)' is never zero, and no entry is SHARED.   *)
(* The map is sorted by virtual address (xtInsertVirtualMap): the random    *)
(* place of the parameters puts them before the image or after it.         *)
(***************************************************************************)
GiveAll(s, p) == Give(Give(Give(s, p[1]), p[2]), p[3])

xtTerminateProcess(l) ==
    LET map == process[l].memoryMap IN
    /\ At(l, "idle") /\ process[l].module # NoModule
    /\ \E sorted \in {map, <<map[3], map[1], map[2]>>} :
          Becomes(GiveAll(Give(State, process[l].stacks[1]), sorted))
    /\ process' = [process EXCEPT ![l] = [NoProcess EXCEPT !.ended = 1]]
    /\ seen' = [seen EXCEPT !.torn = @ \cup {process[l].module}]
    /\ UNCHANGED <<run, loading, kernelLoads>>

-----------------------------------------------------------------------------
Next ==
    \/ \E f \in Files : xtLoadKernelModule(f)
    \/ CountKernelModule
    \/ AppendKernelModule
    \/ LoadKernelSubmodule
    \/ ReturnLoaded
    \/ ReturnFailed
    \/ \E l \in Runners :
          \/ \E f \in Files : GetProgram(l, f)
          \/ CountProgram(l)
          \/ AppendProgram(l)
          \/ \E base \in Bases : xtMapModuleToProcess(l, base)
          \/ RelocateImage(l)
          \/ StartThread(l)
          \/ xtTerminateProcess(l)

Spec == Init /\ [][Next]_vars

-----------------------------------------------------------------------------
Started(l) == process[l].module # NoModule /\ run[l].pc = "idle"

(* No page is handed out twice, and what a process or the list of modules   *)
(* uses is not free, but for the code that process.c:282 frees with one of  *)
(* the processes that share it.                                             *)
PagesOwnedOnce ==
    /\ Sound => OwnedOnce
    /\ \A l \in Runners : process[l].module \notin seen.torn /\ seen.fault = 0 /\ seen.late = 0 =>
          \A i \in DOMAIN process[l].memoryMap :
              PhysicalPages(Span(process[l].memoryMap[i])) \cap PhysicalPages(Free) = {}

(* The references to a module are as many as its users and the loads in     *)
(* progress at least, whatever loads fail in between (linker.c:425): it is  *)
(* not freed under them.                                                    *)
CountCoversUsers ==
    \A m \in DOMAIN module : module[m].count >= Cardinality(Users(m)) + Cardinality(Loads(m))

(* A module in use is not freed by the failure of somebody else's load: it  *)
(* takes a thread that has found the module and not counted it yet          *)
(* (linker.c:164, 168), which then counts what has been freed.              *)
UsedNotFreed ==
    seen.late = 0 => \A m \in DOMAIN module : module[m].freed = 1 => Users(m) = {} /\ Loads(m) = {}

(* The flag of linker.c:432: however often and from wherever a module is    *)
(* imported, it is relocated to its place in the kernel once.               *)
KernelRelocatesOnce ==
    \A m \in DOMAIN module :
        Cardinality({i \in DOMAIN module[m].relocation : module[m].relocation[i] = Kernel}) <= 1

(* A file has one image (linker.c:163-169), unless two threads have missed  *)
(* it in the list at the same time or a load has failed.                    *)
OneImagePerFile == seen.raced = 0 /\ seen.failed = 0 =>
    \A m, n \in DOMAIN module : m # n => module[m].file # module[n].file

(* What linker.c:403-404 says is done, relocating the mapping of the        *)
(* process and sparing the image, is not: the image is relocated, after the *)
(* data has been copied, so the copy lacks the last base of the code that   *)
(* goes with it, and has what the image had from earlier users.             *)
DataLagsBehindCode ==
    \A l \in Runners : Started(l) => IsStrictPrefix(process[l].data, module[process[l].module].relocation)

(* Memory: every page is free, lost to rounding or owned, by one owner and  *)
(* once (memory.c:260, 335), while modules are loaded, fail and are freed.  *)
PagesInv == TypeOK /\ PagesOwnedOnce /\ RegionsDisjoint /\ NoPageVanishes

(* Modules: whoever uses one is counted (sharedptr.c:38), finds it not      *)
(* freed unless it was between the search and the count, and shares it with *)
(* the other users of the file (linker.c:164).                              *)
UsersInv == CountCoversUsers /\ UsedNotFreed /\ OneImagePerFile

(* Relocation: a kernel module is moved once however it is imported         *)
(* (linker.c:432), and a program's data is never moved with its code        *)
(* (linker.c:371-373, 406).                                                 *)
RelocationInv == KernelRelocatesOnce /\ DataLagsBehindCode
=============================================================================
