------------------------------- MODULE Pages --------------------------------
(***************************************************************************)
(* The page allocator of xtkernel/memory.c: the list memoryDescs of free   *)
(* regions, counted in pages and sorted by address.                        *)
(*                                                                         *)
(* xtSetNextList refuses a NULL successor, so the last node of the list is *)
(* never unlinked: it is freed and stays (`dead'), with an empty region or *)
(* with one that has been joined to its neighbour's.                       *)
(*                                                                         *)
(* A page has two addresses, its physical one and HIGHER_HALF_MEM of that. *)
(* The list takes whichever it is given.                                   *)
(***************************************************************************)
EXTENDS Integers, Lists, FiniteSets, FiniteSetsExt

CONSTANTS
    Memory,         \* the free regions after xtMemoryInit
    High            \* HIGH_HALF: what maps page p is at the address High + p too

VARIABLES
    regions,        \* memoryDescs
    owned,          \* history: what has been handed out, in the size asked for
    slack           \* history: the pages that rounding has added to it

pageVars == <<regions, owned, slack>>

Region(start, length) == [start |-> start, length |-> length, dead |-> 0]
Span(r) == r.start..(r.start + r.length - 1)
AllPages == UNION {Span(Memory[i]) : i \in DOMAIN Memory}
Nowhere == 0

ASSUME PagesAssumption ==
    /\ Memory \in Seq([start : Nat \ {Nowhere}, length : Nat \ {0}, dead : {0}])
    /\ \A i, j \in DOMAIN Memory : i < j => Memory[i].start + Memory[i].length <= Memory[j].start
    /\ High \in Nat /\ \A i \in DOMAIN Memory : Memory[i].start + Memory[i].length <= High

PageInit == regions = Memory /\ owned = {} /\ slack = {}

(* Taking a node out of the list, unless it is the last of several.        *)
Unlink(list, i) ==
    IF i = Len(list) /\ i > 1 THEN [list EXCEPT ![i].dead = 1] ELSE RemoveAt(list, i)

(***************************************************************************)
(* xtAllocatePages(NULL, size): first fit.  (size + 0x1000) & ~0x1000 adds *)
(* a page and clears one bit: the size is rounded up to an even number.    *)
(***************************************************************************)
Rounded(n) == 2 * ((n + 1) \div 2)

CutInPlace(region, n) == [region EXCEPT !.length = @ - n]
Cut(region, n) == [region EXCEPT !.start = @ + n, !.length = @ - n]
Fitting(list, n) == {i \in DOMAIN list : list[i].length >= n}

xtAllocatePages(list, size) ==
    LET n == Rounded(size)
        i == Min(Fitting(list, n))
        left == [list EXCEPT ![i] = Cut(@, n)]
    IN  IF Fitting(list, n) = {} THEN [start |-> Nowhere, regions |-> list]
        ELSE [start |-> list[i].start, regions |-> IF left[i].length = 0 THEN Unlink(left, i) ELSE left]

(***************************************************************************)
(* xtFreePages: the region goes between its neighbours by address, joined  *)
(* to the left one (and then the right one too), else to the right one.    *)
(***************************************************************************)
End(r) == r.start + r.length

WithRight(region, right) == [region EXCEPT !.length = @ + right.length]
FromNew(region, start, n) == [region EXCEPT !.start = start, !.length = @ + n]
Placed(list, i, region) == InsertAt(list, i, region)

xtFreePages(list, start, n) ==
    LET left == Cardinality({i \in DOMAIN list : list[i].start <= start})
        right == left + 1
        joinsLeft == left > 0 /\ End(list[left]) = start
        joinsRight == right <= Len(list) /\ start + n = list[right].start
        grown == [list EXCEPT ![left].length = @ + n]
    IN  CASE joinsLeft /\ ~joinsRight -> grown
          [] joinsLeft /\ joinsRight ->
                Unlink([grown EXCEPT ![left] = WithRight(@, list[right])], right)
          [] ~joinsLeft /\ joinsRight ->
                [list EXCEPT ![right] = FromNew(@, start, n)]
          [] OTHER -> Placed(list, right, Region(start, n))

(* HIGHER_HALF_MEM, which ORs the bits of HIGH_HALF to an address.         *)
Higher(p) == IF p < High THEN High + p ELSE p
Physical(p) == IF p < High THEN p ELSE p - High

(* For the properties: the pages of a piece of memory, and its slack.      *)
Piece(start, n) == [start |-> start, length |-> n]
Padding(start, n) == (start + n)..(start + Rounded(n) - 1)

FreeIn(list) == UNION {Span(list[i]) : i \in {j \in DOMAIN list : list[j].dead = 0}}
Free == FreeIn(regions)
Owned == UNION {Span(o) : o \in owned}
PhysicalPages(addresses) == {Physical(p) : p \in addresses}

(* No node of the list has been freed in place. *)
AllLinked(list) == \A i \in DOMAIN list : list[i].dead = 0

-----------------------------------------------------------------------------
(* Of the free regions none overlaps another, as long as the last node of   *)
(* the list has not been freed in place (memory.c:278, 297, 345).           *)
RegionsDisjoint ==
    \A i, j \in DOMAIN regions : i < j /\ regions[j].dead = 0 =>
        End(regions[i]) <= regions[j].start

(* A page belongs to the free regions, under one of its addresses, or to    *)
(* one caller, as long as nobody frees what another still has.              *)
OwnedOnce ==
    /\ \A p \in Free : p < High => Higher(p) \notin Free
    /\ PhysicalPages(Free) \cap PhysicalPages(Owned) = {}
    /\ \A o, q \in owned : o # q => PhysicalPages(Span(o)) \cap PhysicalPages(Span(q)) = {}

(* No page is lost: it is free, in somebody's hands, or one of those that   *)
(* the rounding of xtAllocatePages (memory.c:260) has added, which nobody   *)
(* gives back, as callers free the size they asked for.  The pages of a     *)
(* kernel stack come back under their higher half address (process.c:264)   *)
(* and are handed out under it from then on.                                *)
NoPageVanishes == AllPages = PhysicalPages(Free \cup slack \cup Owned)
=============================================================================
