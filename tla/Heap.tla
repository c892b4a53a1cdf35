-------------------------------- MODULE Heap --------------------------------
(***************************************************************************)
(* The kernel heap of xtkernel/memory.c: a doubly linked list of blocks    *)
(* that tile one region, first-fit allocation with splitting, release with *)
(* merging on both sides.  One call at a time: the calls of several        *)
(* threads, which nothing keeps apart, are not in this module.             *)
(*                                                                         *)
(* Addresses and sizes count units of 16 bytes, to which every size is     *)
(* rounded up; memory pages are counted in bytes.                          *)
(***************************************************************************)
EXTENDS Integers

CONSTANTS
    Units,          \* the size of the region, heap_data
    Header,         \* HEAP_HEADER_SIZE: 2 units
    Requests,       \* the sizes passed to xtHeapAlloc, in units
    GrowUnits,      \* 0x4000 in units
    PageSize,       \* 1 << PAGE_SHIFT
    FreeBytes       \* the memory xtAllocatePages may hand out at the start

MinBlock == Header + 1

ASSUME HeapAssumption ==
    /\ Header \in Nat \ {0}
    /\ Units \in Nat /\ Units >= MinBlock
    /\ Requests \subseteq Nat \ {0}
    /\ GrowUnits \in Nat /\ PageSize \in Nat \ {0} /\ FreeBytes \in Nat

VARIABLES
    size, used, next, prev,     \* the fields of the header at an address
    linked,     \* the addresses of the headers on the list
    want,       \* history: the size a caller asked for and has not freed
    asked,      \* the size of a call that looks for more memory, or 0
    bytes       \* the memory left to xtAllocatePages

header == <<size, used, next, prev, linked>>
heapVars == <<header, want, asked, bytes>>

Addr == 0..(Units - 1)
NULL == -1

HeapTypeOK ==
    /\ size \in [Addr -> Nat]
    /\ used \in [Addr -> {0, 1}]
    /\ next \in [Addr -> Addr \cup {NULL}]
    /\ prev \in [Addr -> Addr \cup {NULL}]
    /\ linked \subseteq Addr
    /\ want \in [Addr -> Nat]
    /\ asked \in Nat
    /\ bytes \in Nat

(* xtHeapInit and xtHeapSetupBlock: one free block. *)
HeapInit ==
    /\ size = [a \in Addr |-> IF a = 0 THEN Units ELSE 0]
    /\ used = [a \in Addr |-> 0]
    /\ next = [a \in Addr |-> NULL]
    /\ prev = [a \in Addr |-> NULL]
    /\ linked = {0}
    /\ want = [a \in Addr |-> 0]
    /\ asked = 0
    /\ bytes = FreeBytes

-----------------------------------------------------------------------------
NeededBare(n) == IF n < MinBlock THEN MinBlock ELSE n
Needed(n) == IF n + Header < MinBlock THEN MinBlock ELSE n + Header

(* The blocks that satisfy a request; the search takes the first. *)
Fits(n) == {b \in linked : used[b] = 0 /\ size[b] >= Needed(n)}
FirstFit(b, n) == b \in Fits(n) /\ \A c \in Fits(n) : b <= c

(***************************************************************************)
(* What xtHeapAlloc does with the block b it found: cut off the rest when  *)
(* that makes a block of its own, and mark b.                              *)
(***************************************************************************)
Splits(b, n) == size[b] >= Needed(n) + MinBlock

Split(b, n) == LET rest == b + Needed(n) IN
    /\ size' = [size EXCEPT ![rest] = size[b] - Needed(n), ![b] = Needed(n)]
    /\ used' = [used EXCEPT ![rest] = 0, ![b] = 1]
    /\ next' = [next EXCEPT ![rest] = next[b], ![b] = rest]
    /\ prev' = [a \in Addr |->
          IF a = rest THEN b ELSE IF a = next[b] THEN rest ELSE prev[a]]
    /\ linked' = linked \cup {rest}

Mark(b) ==
    /\ used' = [used EXCEPT ![b] = 1]
    /\ UNCHANGED <<size, next, prev, linked>>

Place(b, n) ==
    /\ \/ Splits(b, n) /\ Split(b, n)
       \/ ~Splits(b, n) /\ Mark(b)
    /\ want' = [want EXCEPT ![b] = n]

xtHeapAlloc(b, n) ==
    /\ asked = 0
    /\ FirstFit(b, n)
    /\ Place(b, n)
    /\ UNCHANGED <<asked, bytes>>

-----------------------------------------------------------------------------
(***************************************************************************)
(* No block fits.  The conditional of memory.c:132 has the value of        *)
(* `needed_size < 0x4000'; xtAllocatePages adds a page and clears that bit *)
(* of the sum.  The new region is set up and not put on the list `heaps',  *)
(* and the call starts again.                                              *)
(***************************************************************************)
page_needed_size(n) == IF Needed(n) < GrowUnits THEN 1 ELSE 0
RoundedPages(s) ==
    IF ((s + PageSize) \div PageSize) % 2 = 1 THEN s ELSE s + PageSize

Available(s) == bytes >= s

OutOfBlocks(n) ==
    /\ asked = 0
    /\ Fits(n) = {}
    /\ asked' = n
    /\ UNCHANGED <<header, want, bytes>>

Grow ==
    /\ asked # 0
    /\ Available(RoundedPages(page_needed_size(asked)))
    /\ bytes' = bytes - RoundedPages(page_needed_size(asked))
    /\ UNCHANGED <<header, want, asked>>

OutOfMemory ==
    /\ asked # 0
    /\ ~Available(RoundedPages(page_needed_size(asked)))
    /\ asked' = 0
    /\ UNCHANGED <<header, want, bytes>>

-----------------------------------------------------------------------------
(***************************************************************************)
(* xtHeapFree: b joins a free block before it, and the result one after.   *)
(* A pointer that is freed again while its old header still reads as free  *)
(* is refused.                                                             *)
(***************************************************************************)
NeverJoins(b) == FALSE
JoinsPrev(b) == prev[b] # NULL /\ used[prev[b]] = 0
JoinsNext(b) == next[b] # NULL /\ used[next[b]] = 0

Base(b) == IF JoinsPrev(b) THEN prev[b] ELSE b
FollowerStale(b) == next[b]
Follower(b) == IF JoinsNext(b) THEN next[next[b]] ELSE next[b]
JoinedSize(b) ==
    (IF JoinsPrev(b) THEN size[prev[b]] ELSE 0) + size[b]
    + (IF JoinsNext(b) THEN size[next[b]] ELSE 0)

Joined(b) ==
    /\ size' = [size EXCEPT ![Base(b)] = JoinedSize(b)]
    /\ next' = [next EXCEPT ![Base(b)] = Follower(b)]
    /\ prev' = [a \in Addr |-> IF a = next[b] \/ a = Follower(b) THEN Base(b) ELSE prev[a]]
    /\ linked' = {a \in linked :
          /\ JoinsPrev(b) => a # b
          /\ JoinsNext(b) => a # next[b]}

xtHeapFree(b) ==
    /\ asked = 0
    /\ \/ /\ want[b] = 0 /\ used[b] = 0               \* XT_INVALID_PARAMETER
          /\ UNCHANGED heapVars
       \/ /\ want[b] # 0
          /\ used' = [used EXCEPT ![b] = 0]
          /\ Joined(b)
          /\ want' = [want EXCEPT ![b] = 0]
          /\ UNCHANGED <<asked, bytes>>

HeapNext ==
    \/ \E n \in Requests : OutOfBlocks(n) \/ \E b \in Addr : xtHeapAlloc(b, n)
    \/ \E b \in Addr : xtHeapFree(b)
    \/ Grow
    \/ OutOfMemory

HeapSpec == HeapInit /\ [][HeapNext]_heapVars

-----------------------------------------------------------------------------
(***************************************************************************)
(* The list is well formed: its blocks tile the region in address order    *)
(* and next and prev are each other's inverse, so neither the search nor   *)
(* a merge ever leaves the region or misses a block.                       *)
(***************************************************************************)
Tiled ==
    /\ 0 \in linked
    /\ prev[0] = NULL
    /\ \A b \in linked : size[b] >= MinBlock
    /\ \A b \in linked : next[b] = NULL => b + size[b] = Units
    /\ \A b \in linked : next[b] # NULL =>
          next[b] = b + size[b] /\ next[b] \in linked /\ prev[next[b]] = b
    /\ \A b \in linked : b # 0 => prev[b] \in linked /\ next[prev[b]] = b

(***************************************************************************)
(* No two blocks overlap.                                                  *)
(***************************************************************************)
Disjoint == \A b, c \in linked : b < c => b + size[b] <= c

(***************************************************************************)
(* Free memory is never fragmented by xtHeapFree: two free blocks are not  *)
(* neighbours, in whatever order blocks are freed.                         *)
(***************************************************************************)
Coalesced == \A b \in linked : next[b] # NULL => used[b] = 1 \/ used[next[b]] = 1

(***************************************************************************)
(* The used blocks are those somebody owns, and each has room for what was *)
(* asked for: nothing leaks and nothing is handed out twice.               *)
(***************************************************************************)
OwnedExactly == \A b \in Addr :
    /\ want[b] # 0 <=> b \in linked /\ used[b] = 1
    /\ want[b] # 0 => size[b] >= Header + want[b]

HeapInv == HeapTypeOK /\ Tiled /\ Disjoint /\ Coalesced /\ OwnedExactly

=============================================================================
