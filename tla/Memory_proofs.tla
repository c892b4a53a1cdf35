---------------------------- MODULE Memory_proofs ---------------------------
(***************************************************************************)
(* The memory of the kernel.  The heap keeps its list well formed and its  *)
(* owners apart, for every size of the region and every sequence of calls  *)
(* (one at a time).  The page allocator hands no page out twice and loses  *)
(* none, and the loader above it counts whoever uses an image, while       *)
(* loads interleave, fail and race, and processes start and end.           *)
(*                                                                         *)
(* The loader's part goes from the list of free regions (xtAllocatePages,  *)
(* xtFreePages) to the pieces of memory (Take, Give), then to LoaderInv,   *)
(* which every action keeps, and to the properties that follow from it.    *)
(***************************************************************************)
EXTENDS Heap, Loader, WellFoundedInduction, FiniteSetTheorems, SequenceTheorems, TLAPS

-----------------------------------------------------------------------------
(***************************************************************************)
(* A block is as large as a header and the request, and not smaller than   *)
(* the smallest block (memory.c:81-87).                                    *)
(***************************************************************************)
LEMMA NeededEnough ==
    ASSUME NEW n \in Nat \ {0}
    PROVE  Needed(n) \in Nat /\ Needed(n) >= MinBlock /\ Needed(n) >= n + Header
BY HeapAssumption DEF Needed, MinBlock

(***************************************************************************)
(* The single free block that xtHeapInit sets up is a well-formed heap.    *)
(***************************************************************************)
LEMMA InitHeapInv == HeapInit => HeapInv
<1> SUFFICES ASSUME HeapInit PROVE HeapInv
    OBVIOUS
<1> USE HeapAssumption
<1>0. 0 \in Addr /\ Units \in Nat /\ Units > 0
    BY DEF Addr, MinBlock
<1>1. HeapTypeOK
    <2>1. size \in [Addr -> Nat]
        BY <1>0 DEF HeapInit
    <2>2. used \in [Addr -> {0, 1}] /\ want \in [Addr -> Nat]
        BY DEF HeapInit
    <2>3. next \in [Addr -> Addr \cup {NULL}] /\ prev \in [Addr -> Addr \cup {NULL}]
        BY DEF HeapInit
    <2>4. linked \subseteq Addr /\ asked \in Nat /\ bytes \in Nat
        BY <1>0 DEF HeapInit
    <2> QED BY <2>1, <2>2, <2>3, <2>4 DEF HeapTypeOK
<1>2. Tiled
    BY <1>0 DEF HeapInit, Tiled, MinBlock
<1>3. Disjoint
    BY <1>0 DEF HeapInit, Disjoint
<1>4. Coalesced
    BY <1>0 DEF HeapInit, Coalesced
<1>5. OwnedExactly
    BY <1>0 DEF HeapInit, OwnedExactly
<1> QED BY <1>1, <1>2, <1>3, <1>4, <1>5 DEF HeapInv

(***************************************************************************)
(* Cutting a free block in two keeps the list well formed (memory.c:98-    *)
(* 114 and 117).                                                           *)
(***************************************************************************)
LEMMA SplitKeepsHeap ==
    ASSUME HeapInv, NEW n \in Nat \ {0}, NEW b \in linked,
           used[b] = 0, Splits(b, n), Split(b, n), want' = [want EXCEPT ![b] = n],
           asked' = asked, bytes' = bytes
    PROVE  HeapInv'
<1> DEFINE k == Needed(n)
           rest == b + k
<1> USE HeapAssumption
<1>0. k \in Nat /\ k >= MinBlock /\ k >= n + Header
    BY NeededEnough
<1>1. HeapTypeOK /\ Tiled /\ Disjoint /\ Coalesced /\ OwnedExactly
    BY DEF HeapInv
<1>2. /\ b \in Addr /\ b \in Nat
      /\ size[b] \in Nat /\ size[b] >= k + MinBlock
      /\ MinBlock \in Nat /\ MinBlock > 0
    BY <1>1 DEF HeapTypeOK, Addr, Splits, MinBlock
<1>3. /\ b + size[b] <= Units
      /\ next[b] = NULL \/ (next[b] = b + size[b] /\ next[b] \in linked)
    BY <1>1, <1>2 DEF Tiled, HeapTypeOK, Addr
<1>4. /\ rest \in Addr /\ rest \in Nat /\ rest # b /\ b < rest /\ rest < b + size[b]
    BY <1>0, <1>2, <1>3 DEF Addr
<1>5. rest \notin linked
    BY <1>1, <1>2, <1>4 DEF Disjoint
<1>6. /\ \A a \in Addr : size'[a] = IF a = rest THEN size[b] - k ELSE IF a = b THEN k ELSE size[a]
      /\ \A a \in Addr : used'[a] = IF a = rest THEN 0 ELSE IF a = b THEN 1 ELSE used[a]
      /\ \A a \in Addr : next'[a] = IF a = rest THEN next[b] ELSE IF a = b THEN rest ELSE next[a]
      /\ \A a \in Addr : prev'[a] = IF a = rest THEN b ELSE IF a = next[b] THEN rest ELSE prev[a]
      /\ \A a \in Addr : want'[a] = IF a = b THEN n ELSE want[a]
      /\ linked' = linked \cup {rest}
    BY <1>1, <1>2, <1>4 DEF HeapTypeOK, Split
<1>7. HeapTypeOK'
    <2>1. size' \in [Addr -> Nat]
        <3>1. size[b] - k \in Nat
            BY <1>0, <1>2
        <3> QED BY <1>0, <1>1, <1>2, <1>4, <3>1 DEF HeapTypeOK, Split
    <2>2. used' \in [Addr -> {0, 1}]
        BY <1>1, <1>2, <1>4 DEF HeapTypeOK, Split
    <2>3. next' \in [Addr -> Addr \cup {NULL}]
        BY <1>1, <1>2, <1>4 DEF HeapTypeOK, Split
    <2>4. prev' \in [Addr -> Addr \cup {NULL}]
        BY <1>1, <1>2, <1>4 DEF HeapTypeOK, Split
    <2>5. linked' \subseteq Addr
        BY <1>1, <1>4, <1>6 DEF HeapTypeOK
    <2>6. want' \in [Addr -> Nat] /\ asked' \in Nat /\ bytes' \in Nat
        BY <1>1 DEF HeapTypeOK
    <2> QED BY <2>1, <2>2, <2>3, <2>4, <2>5, <2>6 DEF HeapTypeOK
<1>8. Tiled'
    <2>1. 0 \in linked'
        BY <1>1, <1>6 DEF Tiled
    <2>2. prev'[0] = NULL
        <3>1. 0 \in Addr /\ prev[0] = NULL
            BY <1>1 DEF Tiled, HeapTypeOK
        <3>2. 0 # rest /\ 0 # next[b]
            BY <1>2, <1>3, <1>4 DEF NULL
        <3> QED BY <1>6, <3>1, <3>2
    <2>3. ASSUME NEW a \in linked' PROVE size'[a] >= MinBlock
        BY <1>0, <1>1, <1>2, <1>4, <1>6, <2>3 DEF Tiled, HeapTypeOK
    <2>4. ASSUME NEW a \in linked', next'[a] = NULL PROVE a + size'[a] = Units
        <3>1. CASE a = rest
            <4>1. next[b] = NULL /\ size'[a] = size[b] - k
                BY <1>4, <1>6, <2>4, <3>1
            <4>2. b + size[b] = Units
                BY <1>1, <4>1 DEF Tiled
            <4> QED BY <1>0, <1>2, <3>1, <4>1, <4>2
        <3>2. CASE a = b
            BY <1>2, <1>4, <1>6, <2>4, <3>2 DEF NULL
        <3>3. CASE a # rest /\ a # b
            BY <1>1, <1>6, <2>4, <3>3 DEF Tiled, HeapTypeOK
        <3> QED BY <3>1, <3>2, <3>3
    <2>5. ASSUME NEW a \in linked', next'[a] # NULL
          PROVE  next'[a] = a + size'[a] /\ next'[a] \in linked' /\ prev'[next'[a]] = a
        <3>1. CASE a = rest
            <4>1. next'[a] = next[b] /\ size'[a] = size[b] - k
                BY <1>4, <1>6, <3>1
            <4>2. next[b] = b + size[b] /\ next[b] \in linked /\ next[b] \in Addr
                BY <1>1, <2>5, <4>1 DEF Tiled, HeapTypeOK
            <4>3. next[b] = a + size'[a]
                BY <1>0, <1>2, <3>1, <4>1, <4>2
            <4>4. prev'[next[b]] = rest
                BY <1>5, <1>6, <4>2
            <4> QED BY <1>6, <3>1, <4>1, <4>2, <4>3, <4>4
        <3>2. CASE a = b
            <4>1. next'[b] = rest /\ size'[b] = k /\ prev'[rest] = b
                BY <1>2, <1>4, <1>6
            <4> QED BY <1>6, <3>2, <4>1
        <3>3. CASE a # rest /\ a # b
            <4>1. a \in linked /\ a \in Addr /\ next'[a] = next[a] /\ size'[a] = size[a]
                BY <1>1, <1>6, <3>3 DEF HeapTypeOK
            <4>2. next[a] \in linked /\ next[a] \in Addr /\ prev[next[a]] = a /\ next[a] = a + size[a]
                BY <1>1, <2>5, <4>1 DEF Tiled, HeapTypeOK
            <4>3. next[a] # next[b]
                <5>1. CASE next[b] = NULL
                    BY <2>5, <4>1, <5>1
                <5>2. CASE next[b] # NULL
                    BY <1>1, <5>2, <4>2, <3>3 DEF Tiled
                <5> QED BY <5>1, <5>2
            <4>4. prev'[next[a]] = a
                BY <1>5, <1>6, <4>2, <4>3
            <4> QED BY <1>6, <4>1, <4>2, <4>4
        <3> QED BY <3>1, <3>2, <3>3
    <2>6. ASSUME NEW a \in linked', a # 0 PROVE prev'[a] \in linked' /\ next'[prev'[a]] = a
        <3>1. CASE a = rest
            BY <1>2, <1>4, <1>6, <3>1
        <3>2. CASE a = next[b] /\ a # rest
            BY <1>1, <1>2, <1>3, <1>4, <1>5, <1>6, <2>6, <3>2 DEF HeapTypeOK
        <3>3. CASE a # rest /\ a # next[b]
            <4>1. a \in linked /\ a \in Addr /\ prev'[a] = prev[a]
                BY <1>1, <1>6, <3>3 DEF HeapTypeOK
            <4>2. prev[a] \in linked /\ prev[a] \in Addr /\ next[prev[a]] = a
                BY <1>1, <2>6, <4>1 DEF Tiled, HeapTypeOK
            <4>3. prev[a] # b /\ prev[a] # rest
                BY <1>5, <3>3, <4>2
            <4> QED BY <1>6, <4>1, <4>2, <4>3
        <3> QED BY <3>1, <3>2, <3>3
    <2> QED BY <2>1, <2>2, <2>3, <2>4, <2>5, <2>6 DEF Tiled
<1>9. Disjoint'
    <2> SUFFICES ASSUME NEW a \in linked', NEW c \in linked', a < c PROVE a + size'[a] <= c
        BY DEF Disjoint
    <2> USE <1>0, <1>2, <1>3, <1>4, <1>6
    <2>0. a \in Nat /\ c \in Nat /\ a \in Addr /\ c \in Addr
        <3>1. a \in Addr /\ c \in Addr
            BY <1>1 DEF HeapTypeOK
        <3> QED BY <3>1 DEF Addr
    <2>1. \A d \in linked : size[d] \in Nat /\ d \in Nat
        BY <1>1 DEF HeapTypeOK, Addr
    <2>2. CASE a \in linked /\ c \in linked
        BY <1>1, <1>5, <2>0, <2>1, <2>2 DEF Disjoint
    <2>3. CASE a = rest /\ c \in linked
        BY <1>1, <1>5, <2>0, <2>1, <2>3 DEF Disjoint
    <2>4. CASE a \in linked /\ c = rest
        <3>1. CASE a = b
            BY <2>0, <3>1, <2>4
        <3>2. CASE a # b
            BY <1>1, <1>5, <2>0, <2>1, <2>4, <3>2 DEF Disjoint
        <3> QED BY <3>1, <3>2
    <2> QED BY <2>0, <2>2, <2>3, <2>4
<1>10. Coalesced'
    <2> SUFFICES ASSUME NEW a \in linked', next'[a] # NULL
                 PROVE  used'[a] = 1 \/ used'[next'[a]] = 1
        BY DEF Coalesced
    <2>1. CASE a = rest
        BY <1>1, <1>2, <1>3, <1>4, <1>5, <1>6, <2>1 DEF Coalesced, HeapTypeOK
    <2>2. CASE a = b
        BY <1>2, <1>4, <1>6, <2>2
    <2>3. CASE a # rest /\ a # b
        <3>1. a \in linked /\ a \in Addr /\ next'[a] = next[a] /\ used'[a] = used[a]
            BY <1>1, <1>6, <2>3 DEF HeapTypeOK
        <3>2. next[a] \in linked /\ next[a] \in Addr
            BY <1>1, <3>1 DEF Tiled, HeapTypeOK
        <3> QED BY <1>1, <1>5, <1>6, <3>1, <3>2 DEF Coalesced
    <2> QED BY <2>1, <2>2, <2>3
<1>11. OwnedExactly'
    <2> SUFFICES ASSUME NEW a \in Addr
                 PROVE  /\ want'[a] # 0 <=> a \in linked' /\ used'[a] = 1
                        /\ want'[a] # 0 => size'[a] >= Header + want'[a]
        BY DEF OwnedExactly
    <2>1. CASE a = rest
        BY <1>1, <1>4, <1>5, <1>6, <2>1 DEF OwnedExactly
    <2>2. CASE a = b
        BY <1>0, <1>2, <1>4, <1>6, <2>2
    <2>3. CASE a # rest /\ a # b
        BY <1>1, <1>6, <2>3 DEF OwnedExactly
    <2> QED BY <2>1, <2>2, <2>3
<1> QED BY <1>7, <1>8, <1>9, <1>10, <1>11 DEF HeapInv

(***************************************************************************)
(* Handing out a free block whole keeps the list well formed               *)
(* (memory.c:117).                                                         *)
(***************************************************************************)
LEMMA MarkKeepsHeap ==
    ASSUME HeapInv, NEW n \in Nat \ {0}, NEW b \in linked,
           used[b] = 0, size[b] >= Needed(n), Mark(b), want' = [want EXCEPT ![b] = n],
           asked' = asked, bytes' = bytes
    PROVE  HeapInv'
<1> USE HeapAssumption
<1>1. HeapTypeOK /\ Tiled /\ Disjoint /\ Coalesced /\ OwnedExactly
    BY DEF HeapInv
<1>2. /\ size' = size /\ next' = next /\ prev' = prev /\ linked' = linked
      /\ used' = [used EXCEPT ![b] = 1]
    BY DEF Mark
<1>3. b \in Addr /\ size[b] >= n + Header
    BY <1>1, NeededEnough DEF HeapTypeOK
<1>4. HeapTypeOK'
    <2>1. used' \in [Addr -> {0, 1}] /\ want' \in [Addr -> Nat]
        BY <1>1, <1>2 DEF HeapTypeOK
    <2> QED BY <1>1, <1>2, <2>1 DEF HeapTypeOK
<1>5. Tiled' /\ Disjoint'
    BY <1>1, <1>2 DEF Tiled, Disjoint
<1>6. Coalesced'
    <2>1. \A a \in linked : next[a] # NULL => next[a] \in Addr /\ a \in Addr
        BY <1>1 DEF Tiled, HeapTypeOK
    <2> QED BY <1>1, <1>2, <2>1 DEF Coalesced, HeapTypeOK
<1>7. OwnedExactly'
    BY <1>1, <1>2, <1>3 DEF OwnedExactly, HeapTypeOK
<1> QED BY <1>4, <1>5, <1>6, <1>7 DEF HeapInv

(***************************************************************************)
(* Releasing an owned block, merged with its free neighbours, keeps the    *)
(* list well formed (memory.c:171-194).                                    *)
(***************************************************************************)
LEMMA FreeKeepsHeap ==
    ASSUME HeapInv, NEW b \in Addr, xtHeapFree(b), want[b] # 0
    PROVE  HeapInv'
<1> DEFINE m == Base(b)
           f == Follower(b)
           x == next[b]
<1> USE HeapAssumption
<1>1. HeapTypeOK /\ Tiled /\ Disjoint /\ Coalesced /\ OwnedExactly
    BY DEF HeapInv
<1>2. b \in linked /\ used[b] = 1 /\ want[b] # 0
    BY <1>1 DEF OwnedExactly, xtHeapFree
<1>3. \A a \in linked : /\ a \in Addr /\ a \in Nat /\ size[a] \in Nat /\ size[a] > 0
                        /\ next[a] = NULL \/ (next[a] \in linked /\ next[a] = a + size[a] /\ prev[next[a]] = a)
                        /\ a # 0 => prev[a] \in linked /\ next[prev[a]] = a
                        /\ next[a] = NULL => a + size[a] = Units
    <2>1. \A a \in linked : a \in Addr /\ size[a] \in Nat /\ size[a] >= MinBlock
        BY <1>1 DEF HeapTypeOK, Tiled
    <2>2. MinBlock \in Nat /\ MinBlock > 0
        BY DEF MinBlock
    <2> QED BY <1>1, <2>1, <2>2 DEF Tiled, Addr
<1>4. NULL \notin Nat /\ NULL \notin Addr
    BY DEF NULL, Addr
<1>5. JoinsPrev(b) => /\ m = prev[b] /\ m \in linked /\ m + size[m] = b /\ next[m] = b /\ used[m] = 0
    <2>1. JoinsPrev(b) => b # 0
        BY <1>1 DEF JoinsPrev, Tiled
    <2>2. JoinsPrev(b) => prev[b] \in linked /\ next[prev[b]] = b /\ used[prev[b]] = 0
        BY <1>2, <1>3, <2>1 DEF JoinsPrev
    <2> QED BY <1>2, <1>3, <1>4, <2>2 DEF Base
<1>6. ~JoinsPrev(b) => m = b
    BY DEF Base
<1>7. JoinsNext(b) => x \in linked /\ x = b + size[b] /\ prev[x] = b /\ used[x] = 0 /\ f = next[x]
    BY <1>2, <1>3 DEF JoinsNext, Follower
<1>8. ~JoinsNext(b) => f = x
    BY DEF Follower
<1>9. m \in linked /\ m \in Nat /\ m <= b /\ b \in Nat /\ m \in Addr
    BY <1>2, <1>3, <1>5, <1>6
<1>10. /\ linked' = {a \in linked : (JoinsPrev(b) => a # b) /\ (JoinsNext(b) => a # x)}
       /\ \A a \in Addr : size'[a] = IF a = m THEN JoinedSize(b) ELSE size[a]
       /\ \A a \in Addr : used'[a] = IF a = b THEN 0 ELSE used[a]
       /\ \A a \in Addr : next'[a] = IF a = m THEN f ELSE next[a]
       /\ \A a \in Addr : prev'[a] = IF a = x \/ a = f THEN m ELSE prev[a]
       /\ \A a \in Addr : want'[a] = IF a = b THEN 0 ELSE want[a]
       /\ asked' = asked /\ bytes' = bytes
    BY <1>1, <1>9 DEF HeapTypeOK, xtHeapFree, Joined
<1>11. m \in linked'
    <2>1. x # m
        BY <1>2, <1>3, <1>4, <1>9
    <2>2. JoinsPrev(b) => m # b
        BY <1>3, <1>5, <1>9
    <2> QED BY <1>9, <1>10, <2>1, <2>2
<1>12. f # NULL => f \in linked /\ f \in Addr /\ f \in Nat /\ f > b /\ f \in linked'
    <2>1. CASE JoinsNext(b)
        <3>1. f # NULL => f \in linked /\ f = x + size[x]
            BY <1>3, <1>7, <2>1
        <3>2. x \in Nat /\ size[x] \in Nat /\ size[x] > 0 /\ x > b
            BY <1>2, <1>3, <1>7, <2>1
        <3>3. f # NULL => f > x /\ f > b
            BY <1>9, <3>1, <3>2
        <3> QED BY <1>3, <1>9, <1>10, <3>1, <3>2, <3>3
    <2>2. CASE ~JoinsNext(b)
        <3>1. f # NULL => f \in linked /\ f = b + size[b]
            BY <1>2, <1>3, <1>8, <2>2
        <3>2. f # NULL => f > b
            BY <1>2, <1>3, <1>9, <3>1
        <3> QED BY <1>3, <1>9, <1>10, <2>2, <3>1, <3>2
    <2> QED BY <2>1, <2>2
<1>13. /\ JoinedSize(b) \in Nat /\ JoinedSize(b) >= MinBlock
       /\ f = NULL => m + JoinedSize(b) = Units
       /\ f # NULL => f = m + JoinedSize(b)
    <2>0. MinBlock \in Nat /\ size[b] >= MinBlock /\ size[b] \in Nat
        BY <1>1, <1>2, <1>3 DEF Tiled, MinBlock
    <2>1. CASE JoinsPrev(b) /\ JoinsNext(b)
        <3>1. JoinedSize(b) = size[m] + size[b] + size[x]
            BY <2>1, <1>5 DEF JoinedSize
        <3> QED BY <1>2, <1>3, <1>5, <1>7, <1>9, <2>0, <2>1, <3>1
    <2>2. CASE JoinsPrev(b) /\ ~JoinsNext(b)
        <3>1. JoinedSize(b) = size[m] + size[b]
            BY <1>2, <1>3, <1>9, <2>2, <1>5 DEF JoinedSize
        <3> QED BY <1>2, <1>3, <1>5, <1>8, <1>9, <2>0, <2>2, <3>1
    <2>3. CASE ~JoinsPrev(b) /\ JoinsNext(b)
        <3>1. JoinedSize(b) = size[b] + size[x]
            BY <1>2, <1>3, <1>9, <2>3, <1>7 DEF JoinedSize
        <3> QED BY <1>2, <1>3, <1>6, <1>7, <1>9, <2>0, <2>3, <3>1
    <2>4. CASE ~JoinsPrev(b) /\ ~JoinsNext(b)
        <3>1. JoinedSize(b) = size[b]
            BY <1>2, <1>3, <1>9, <2>4 DEF JoinedSize
        <3> QED BY <1>2, <1>3, <1>6, <1>8, <1>9, <2>0, <2>4, <3>1
    <2> QED BY <2>1, <2>2, <2>3, <2>4
<1>14. \A a \in linked' : a # m =>
          /\ a \in linked /\ a # b /\ size'[a] = size[a] /\ next'[a] = next[a] /\ used'[a] = used[a]
    BY <1>3, <1>6, <1>10
<1>15. \A a \in linked' : a # f => a # x /\ prev'[a] = prev[a]
    BY <1>3, <1>8, <1>10
<1>16. HeapTypeOK'
    <2>1. size' \in [Addr -> Nat]
        BY <1>1, <1>13 DEF HeapTypeOK, xtHeapFree, Joined
    <2>2. used' \in [Addr -> {0, 1}]
        BY <1>1 DEF HeapTypeOK, xtHeapFree
    <2>3. next' \in [Addr -> Addr \cup {NULL}]
        BY <1>1, <1>12 DEF HeapTypeOK, xtHeapFree, Joined
    <2>4. prev' \in [Addr -> Addr \cup {NULL}]
        BY <1>1, <1>9 DEF HeapTypeOK, xtHeapFree, Joined
    <2>5. linked' \subseteq Addr /\ asked' \in Nat /\ bytes' \in Nat
        BY <1>1, <1>10 DEF HeapTypeOK
    <2>6. want' \in [Addr -> Nat]
        BY <1>1 DEF HeapTypeOK, xtHeapFree
    <2> QED BY <2>1, <2>2, <2>3, <2>4, <2>5, <2>6 DEF HeapTypeOK
<1>17. Tiled'
    <2>1. 0 \in linked'
        <3>1. 0 \in linked /\ prev[0] = NULL
            BY <1>1 DEF Tiled
        <3>2. JoinsPrev(b) => 0 # b
            BY <3>1 DEF JoinsPrev
        <3>3. JoinsNext(b) => 0 # x
            BY <1>2, <1>3, <1>7, <1>9
        <3> QED BY <1>10, <3>1, <3>2, <3>3
    <2>2. prev'[0] = NULL
        <3>1. 0 # f
            BY <1>9, <1>12, <1>4
        <3> QED BY <1>1, <1>3, <1>15, <2>1, <3>1 DEF Tiled
    <2>3. ASSUME NEW a \in linked' PROVE size'[a] >= MinBlock
        BY <1>1, <1>9, <1>10, <1>13, <1>14 DEF Tiled
    <2>4. ASSUME NEW a \in linked', next'[a] = NULL PROVE a + size'[a] = Units
        <3>1. CASE a = m
            BY <1>9, <1>10, <1>13, <2>4, <3>1
        <3>2. CASE a # m
            BY <1>3, <1>14, <2>4, <3>2
        <3> QED BY <3>1, <3>2
    <2>5. ASSUME NEW a \in linked', next'[a] # NULL
          PROVE  next'[a] = a + size'[a] /\ next'[a] \in linked' /\ prev'[next'[a]] = a
        <3>1. CASE a = m
            <4>1. next'[a] = f /\ size'[a] = JoinedSize(b)
                BY <1>9, <1>10, <3>1
            <4>2. f \in Addr /\ f \in linked' /\ f = m + JoinedSize(b)
                BY <1>12, <1>13, <2>5, <4>1
            <4>3. prev'[f] = m
                BY <1>10, <4>2
            <4> QED BY <3>1, <4>1, <4>2, <4>3
        <3>2. CASE a # m
            <4>1. a \in linked /\ a # b /\ size'[a] = size[a] /\ next'[a] = next[a]
                BY <1>14, <3>2
            <4>2. next[a] \in linked /\ next[a] = a + size[a] /\ prev[next[a]] = a
                BY <1>3, <2>5, <4>1
            <4>3. JoinsPrev(b) => next[a] # b
                BY <1>5, <3>2, <4>2
            <4>4. next[a] # x
                BY <1>2, <1>3, <2>5, <4>1, <4>2
            <4>5. next[a] \in linked'
                BY <1>10, <4>2, <4>3, <4>4
            <4>6. next[a] # f
                <5>1. CASE JoinsNext(b)
                    <6>1. a # x
                        BY <1>10, <5>1
                    <6>2. f # NULL => prev[f] = x
                        BY <1>3, <1>7, <5>1
                    <6> QED BY <2>5, <4>1, <4>2, <6>1, <6>2
                <5>2. CASE ~JoinsNext(b)
                    BY <1>8, <4>4, <5>2
                <5> QED BY <5>1, <5>2
            <4> QED BY <1>15, <4>1, <4>2, <4>5, <4>6
        <3> QED BY <3>1, <3>2
    <2>6. ASSUME NEW a \in linked', a # 0 PROVE prev'[a] \in linked' /\ next'[prev'[a]] = a
        <3>1. CASE a = f
            <4>1. a \in Addr /\ prev'[a] = m
                BY <1>3, <1>10, <3>1
            <4> QED BY <1>9, <1>10, <1>11, <3>1, <4>1
        <3>2. CASE a # f
            <4>1. a \in linked /\ a # x /\ prev'[a] = prev[a]
                BY <1>10, <1>15, <3>2
            <4>2. prev[a] \in linked /\ next[prev[a]] = a
                BY <1>3, <2>6, <4>1
            <4>3. prev[a] # b
                BY <4>1, <4>2
            <4>4. JoinsNext(b) => prev[a] # x
                BY <1>7, <3>2, <4>2
            <4>5. prev[a] \in linked'
                BY <1>10, <4>2, <4>3, <4>4
            <4>6. prev[a] # m
                <5>1. CASE JoinsPrev(b)
                    BY <1>5, <1>10, <4>2, <5>1
                <5>2. CASE ~JoinsPrev(b)
                    BY <1>6, <4>3, <5>2
                <5> QED BY <5>1, <5>2
            <4> QED BY <1>14, <4>1, <4>2, <4>5, <4>6
        <3> QED BY <3>1, <3>2
    <2> QED BY <2>1, <2>2, <2>3, <2>4, <2>5, <2>6 DEF Tiled
<1>18. Disjoint'
    <2> SUFFICES ASSUME NEW a \in linked', NEW c \in linked', a < c PROVE a + size'[a] <= c
        BY DEF Disjoint
    <2>0. a \in linked /\ c \in linked /\ a \in Nat /\ c \in Nat
        BY <1>3, <1>10
    <2>1. CASE a # m
        BY <1>1, <1>14, <2>0, <2>1 DEF Disjoint
    <2>2. CASE a = m
        <3>1. size'[a] = JoinedSize(b)
            BY <1>9, <1>10, <2>2
        <3>2. c > b
            <4>1. CASE JoinsPrev(b)
                <5>1. c >= m + size[m] /\ c # b
                    BY <1>1, <1>10, <2>0, <2>2, <4>1 DEF Disjoint
                <5> QED BY <1>5, <1>9, <2>0, <4>1, <5>1
            <4>2. CASE ~JoinsPrev(b)
                BY <1>6, <2>2, <4>2
            <4> QED BY <4>1, <4>2
        <3>3. c >= b + size[b]
            BY <1>1, <1>2, <1>9, <2>0, <3>2 DEF Disjoint
        <3>4. CASE f # NULL
            <4>1. CASE JoinsNext(b)
                <5>1. c > x
                    BY <1>2, <1>3, <1>7, <1>10, <2>0, <3>3, <4>1
                <5>2. c >= x + size[x]
                    BY <1>1, <1>7, <2>0, <4>1, <5>1 DEF Disjoint
                <5>3. f = x + size[x]
                    BY <1>3, <1>7, <3>4, <4>1
                <5> QED BY <1>13, <2>2, <3>1, <3>4, <5>2, <5>3
            <4>2. CASE ~JoinsNext(b)
                <5>1. f = b + size[b]
                    BY <1>2, <1>3, <1>8, <3>4, <4>2
                <5> QED BY <1>13, <2>2, <3>1, <3>3, <3>4, <5>1
            <4> QED BY <4>1, <4>2
        <3>5. CASE f = NULL
            <4>1. CASE JoinsNext(b)
                <5>1. c > x /\ x \in Nat /\ x + size[x] = Units
                    BY <1>2, <1>3, <1>7, <1>10, <2>0, <3>3, <3>5, <4>1
                <5>2. c >= x + size[x]
                    BY <1>1, <1>7, <2>0, <4>1, <5>1 DEF Disjoint
                <5> QED BY <1>13, <2>2, <3>1, <3>5, <5>1, <5>2
            <4>2. CASE ~JoinsNext(b)
                <5>1. b + size[b] = Units
                    BY <1>2, <1>3, <1>8, <3>5, <4>2
                <5> QED BY <1>13, <2>2, <3>1, <3>3, <3>5, <5>1
            <4> QED BY <4>1, <4>2
        <3> QED BY <3>4, <3>5
    <2> QED BY <2>1, <2>2
<1>19. Coalesced'
    <2> SUFFICES ASSUME NEW a \in linked', next'[a] # NULL
                 PROVE  used'[a] = 1 \/ used'[next'[a]] = 1
        BY DEF Coalesced
    <2>1. CASE a = m
        <3>1. next'[a] = f /\ f \in linked /\ f \in Addr /\ f # b
            BY <1>9, <1>10, <1>12, <2>1
        <3>2. used[f] = 1
            <4>1. CASE JoinsNext(b)
                BY <1>1, <1>7, <3>1, <4>1, <1>4 DEF Coalesced
            <4>2. CASE ~JoinsNext(b)
                BY <1>1, <1>8, <3>1, <1>4, <4>2 DEF JoinsNext, HeapTypeOK
            <4> QED BY <4>1, <4>2
        <3> QED BY <1>10, <3>1, <3>2
    <2>2. CASE a # m
        <3>1. a \in linked /\ a # b /\ next'[a] = next[a] /\ used'[a] = used[a]
            BY <1>14, <2>2
        <3>2. next[a] \in linked /\ next[a] \in Addr /\ prev[next[a]] = a /\ a \in Addr
            BY <1>3, <3>1
        <3>3. CASE next[a] = b
            <4>1. prev[b] = a /\ ~JoinsPrev(b)
                BY <1>5, <2>2, <3>2, <3>3
            <4>2. used[a] # 0
                BY <1>4, <3>2, <4>1 DEF JoinsPrev
            <4> QED BY <1>1, <3>1, <3>2, <4>2 DEF HeapTypeOK
        <3>4. CASE next[a] # b
            BY <1>1, <1>10, <3>1, <3>2, <3>4, <1>4 DEF Coalesced
        <3> QED BY <3>3, <3>4
    <2> QED BY <2>1, <2>2
<1>20. OwnedExactly'
    <2> SUFFICES ASSUME NEW a \in Addr
                 PROVE  /\ want'[a] # 0 <=> a \in linked' /\ used'[a] = 1
                        /\ want'[a] # 0 => size'[a] >= Header + want'[a]
        BY DEF OwnedExactly
    <2>1. CASE a = b
        BY <1>10, <2>1
    <2>2. CASE a # b
        <3>1. want'[a] = want[a] /\ used'[a] = used[a]
            BY <1>10, <2>2
        <3>2. used[a] = 1 => (a \in linked' <=> a \in linked)
            BY <1>7, <1>10, <2>2
        <3>3. used[a] = 1 => a # m
            BY <1>5, <1>6, <2>2
        <3>4. want[a] # 0 <=> a \in linked /\ used[a] = 1
            BY <1>1 DEF OwnedExactly
        <3>5. want[a] # 0 => size[a] >= Header + want[a]
            BY <1>1 DEF OwnedExactly
        <3> QED BY <1>10, <3>1, <3>2, <3>3, <3>4, <3>5
    <2> QED BY <2>1, <2>2
<1> QED BY <1>16, <1>17, <1>18, <1>19, <1>20 DEF HeapInv

(***************************************************************************)
(* HeapInv is an invariant of the heap.                                    *)
(***************************************************************************)
THEOREM HeapIsWellFormed == HeapSpec => []HeapInv
<1>1. ASSUME HeapInv, [HeapNext]_heapVars PROVE HeapInv'
    <2>1. ASSUME NEW n \in Requests, NEW b \in Addr, xtHeapAlloc(b, n) PROVE HeapInv'
        <3>1. n \in Nat \ {0} /\ b \in linked /\ used[b] = 0 /\ size[b] >= Needed(n)
            BY <2>1, HeapAssumption DEF xtHeapAlloc, FirstFit, Fits
        <3>2. want' = [want EXCEPT ![b] = n] /\ asked' = asked /\ bytes' = bytes
            BY <2>1 DEF xtHeapAlloc, Place
        <3>3. (Splits(b, n) /\ Split(b, n)) \/ Mark(b)
            BY <2>1 DEF xtHeapAlloc, Place
        <3> QED BY <1>1, <3>1, <3>2, <3>3, SplitKeepsHeap, MarkKeepsHeap
    <2>2. ASSUME NEW b \in Addr, xtHeapFree(b), want[b] # 0 PROVE HeapInv'
        BY <1>1, <2>2, FreeKeepsHeap
    <2>3. ASSUME header' = header, want' = want, asked' \in Nat, bytes' \in Nat PROVE HeapInv'
        <3>1. /\ size' = size /\ used' = used /\ next' = next /\ prev' = prev
              /\ linked' = linked /\ want' = want
            BY <2>3 DEF header
        <3> QED BY <1>1, <2>3, <3>1
                DEF HeapInv, HeapTypeOK, Tiled, Disjoint, Coalesced, OwnedExactly
    <2>4. ASSUME NEW n \in Requests, OutOfBlocks(n) PROVE HeapInv'
        BY <1>1, <2>3, <2>4, HeapAssumption DEF OutOfBlocks, HeapInv, HeapTypeOK
    <2>5. CASE Grow
        <3>1. RoundedPages(page_needed_size(asked)) \in Nat
            BY HeapAssumption DEF RoundedPages, page_needed_size
        <3>2. bytes' \in Nat /\ asked' \in Nat
            BY <1>1, <2>5, <3>1 DEF Grow, Available, HeapInv, HeapTypeOK
        <3> QED BY <2>3, <2>5, <3>2 DEF Grow
    <2>6. CASE OutOfMemory
        BY <1>1, <2>3, <2>6 DEF OutOfMemory, HeapInv, HeapTypeOK
    <2>7. CASE UNCHANGED heapVars
        BY <1>1, <2>3, <2>7 DEF heapVars, HeapInv, HeapTypeOK
    <2>8. ASSUME NEW b \in Addr, xtHeapFree(b), want[b] = 0 PROVE HeapInv'
        BY <2>7, <2>8 DEF xtHeapFree
    <2> QED BY <1>1, <2>1, <2>2, <2>4, <2>5, <2>6, <2>7, <2>8 DEF HeapNext
<1> QED BY InitHeapInv, <1>1, PTL DEF HeapSpec

(***************************************************************************)
(* The list of blocks is always well formed, for every region and every    *)
(* sequence of requests and releases.                                      *)
(***************************************************************************)
THEOREM ListTilesTheRegion == HeapSpec => []Tiled
<1>1. HeapInv => Tiled
    BY DEF HeapInv
<1> QED BY HeapIsWellFormed, <1>1, PTL

(***************************************************************************)
(* Releases leave no two free blocks side by side.                         *)
(***************************************************************************)
THEOREM FreeBlocksAreMerged == HeapSpec => []Coalesced
<1>1. HeapInv => Coalesced
    BY DEF HeapInv
<1> QED BY HeapIsWellFormed, <1>1, PTL

(***************************************************************************)
(* The used blocks are the owned ones and are large enough.                *)
(***************************************************************************)
THEOREM BlocksAreOwned == HeapSpec => []OwnedExactly
<1>1. HeapInv => OwnedExactly
    BY DEF HeapInv
<1> QED BY HeapIsWellFormed, <1>1, PTL

-----------------------------------------------------------------------------
-----------------------------------------------------------------------------
(* The smallest of some numbers is one of them. *)
LEMMA LeastOfNaturals ==
    ASSUME NEW D, D \subseteq Nat, D # {}
    PROVE  Min(D) \in D /\ \A m \in D : Min(D) <= m
  <1>1. PICK d \in D : \A m \in D : ~(<<m, d>> \in OpToRel(<, Nat))
    BY NatLessThanWellFounded, WFMin, Zenon
  <1>2. \A m \in D : ~(m < d)
    BY <1>1 DEF OpToRel
  <1>3. \A m \in D : d <= m
    BY <1>2
  <1> QED
    BY <1>3 DEF Min

(* Two sequences, one after the other. *)
LEMMA Concatenated ==
    ASSUME NEW S, NEW s \in Seq(S), NEW r \in Seq(S)
    PROVE  /\ s \o r \in Seq(S) /\ Len(s \o r) = Len(s) + Len(r)
           /\ \A k \in 1..Len(s) : (s \o r)[k] = s[k]
           /\ \A k \in (Len(s) + 1)..(Len(s) + Len(r)) : (s \o r)[k] = r[k - Len(s)]
  OBVIOUS

(* A sequence without its i-th element. *)
LEMMA OneLess ==
    ASSUME NEW S, NEW s \in Seq(S), NEW i \in 1..Len(s)
    PROVE  /\ RemoveAt(s, i) \in Seq(S) /\ Len(RemoveAt(s, i)) = Len(s) - 1
           /\ DOMAIN RemoveAt(s, i) = 1..(Len(s) - 1)
           /\ \A k \in 1..(Len(s) - 1) : RemoveAt(s, i)[k] = IF k < i THEN s[k] ELSE s[k + 1]
  <1> DEFINE n == Len(s)
             before == SubSeq(s, 1, i - 1)
             after == SubSeq(s, i + 1, n)
             r == before \o after
  <1>1. n \in Nat /\ i \in 1..n
    OBVIOUS
  <1>2. before \in Seq(S) /\ Len(before) = i - 1 /\ \A k \in 1..(i - 1) : before[k] = s[k]
    OBVIOUS
  <1>3. after \in Seq(S) /\ Len(after) = n - i /\ \A k \in 1..(n - i) : after[k] = s[i + k]
    OBVIOUS
  <1>4. RemoveAt(s, i) = r
    BY DEF RemoveAt
  <1> HIDE DEF before, after, n
  <1>5. /\ r \in Seq(S) /\ Len(r) = Len(before) + Len(after)
        /\ \A k \in 1..Len(before) : r[k] = before[k]
        /\ \A k \in (Len(before) + 1)..(Len(before) + Len(after)) : r[k] = after[k - Len(before)]
    BY <1>2, <1>3, Concatenated
  <1> HIDE DEF r
  <1>6. Len(r) = n - 1 /\ DOMAIN r = 1..(n - 1)
    BY <1>1, <1>2, <1>3, <1>5
  <1>7. ASSUME NEW k \in 1..(n - 1) PROVE r[k] = IF k < i THEN s[k] ELSE s[k + 1]
    <2>1. CASE k < i
      BY <1>1, <1>2, <1>5, <2>1
    <2>2. CASE ~(k < i)
      <3>1. r[k] = after[k - (i - 1)] /\ k - (i - 1) \in 1..(n - i)
        BY <1>1, <1>2, <1>3, <1>5, <2>2
      <3>2. i + (k - (i - 1)) = k + 1
        BY <1>1
      <3> QED
        BY <1>3, <2>2, <3>1, <3>2
    <2> QED
      BY <2>1, <2>2
  <1> QED
    BY <1>4, <1>5, <1>6, <1>7 DEF n

(* A sequence with an element before its i-th. *)
LEMMA OneBetween ==
    ASSUME NEW S, NEW s \in Seq(S), NEW i \in 1..(Len(s) + 1), NEW x \in S
    PROVE  /\ InsertAt(s, i, x) \in Seq(S) /\ Len(InsertAt(s, i, x)) = Len(s) + 1
           /\ DOMAIN InsertAt(s, i, x) = 1..(Len(s) + 1)
           /\ \A k \in 1..(Len(s) + 1) : InsertAt(s, i, x)[k] =
                 IF k < i THEN s[k] ELSE IF k = i THEN x ELSE s[k - 1]
  <1> DEFINE n == Len(s)
             before == SubSeq(s, 1, i - 1)
             one == <<x>>
             after == SubSeq(s, i, n)
             b == before \o one
             r == b \o after
  <1>1. n \in Nat /\ i \in 1..(n + 1)
    OBVIOUS
  <1>2. before \in Seq(S) /\ Len(before) = i - 1 /\ \A k \in 1..(i - 1) : before[k] = s[k]
    OBVIOUS
  <1>3. after \in Seq(S) /\ Len(after) = (n + 1) - i /\ \A k \in 1..((n + 1) - i) : after[k] = s[(i + k) - 1]
    OBVIOUS
  <1>4. InsertAt(s, i, x) = r
    BY DEF InsertAt
  <1>5. one \in Seq(S) /\ Len(one) = 1 /\ one[1] = x
    OBVIOUS
  <1> HIDE DEF before, after, n, one
  <1>6. /\ b \in Seq(S) /\ Len(b) = Len(before) + Len(one)
        /\ \A k \in 1..Len(before) : b[k] = before[k]
        /\ \A k \in (Len(before) + 1)..(Len(before) + Len(one)) : b[k] = one[k - Len(before)]
    BY <1>2, <1>5, Concatenated
  <1> HIDE DEF b
  <1>7. Len(b) = i /\ (\A k \in 1..(i - 1) : b[k] = s[k]) /\ b[i] = x
    BY <1>1, <1>2, <1>5, <1>6
  <1>8. /\ r \in Seq(S) /\ Len(r) = Len(b) + Len(after)
        /\ \A k \in 1..Len(b) : r[k] = b[k]
        /\ \A k \in (Len(b) + 1)..(Len(b) + Len(after)) : r[k] = after[k - Len(b)]
    <2>1. b \in Seq(S) /\ after \in Seq(S)
      BY <1>3, <1>6
    <2> QED
      BY <2>1, Concatenated
  <1> HIDE DEF r
  <1>9. Len(r) = n + 1 /\ DOMAIN r = 1..(n + 1)
    BY <1>1, <1>3, <1>7, <1>8
  <1>10. ASSUME NEW k \in 1..(n + 1)
         PROVE  r[k] = IF k < i THEN s[k] ELSE IF k = i THEN x ELSE s[k - 1]
    <2>1. CASE k <= i
      BY <1>1, <1>7, <1>8, <2>1
    <2>2. CASE ~(k <= i)
      <3>1. r[k] = after[k - i] /\ k - i \in 1..((n + 1) - i)
        BY <1>1, <1>3, <1>7, <1>8, <2>2
      <3>2. (i + (k - i)) - 1 = k - 1
        BY <1>1
      <3> QED
        BY <1>3, <2>2, <3>1, <3>2
    <2> QED
      BY <2>1, <2>2
  <1> QED
    BY <1>4, <1>8, <1>9, <1>10 DEF n

(* A sequence with another i-th element. *)
LEMMA OneChanged ==
    ASSUME NEW S, NEW s \in Seq(S), NEW i \in 1..Len(s), NEW x \in S
    PROVE  /\ [s EXCEPT ![i] = x] \in Seq(S) /\ Len([s EXCEPT ![i] = x]) = Len(s)
           /\ DOMAIN [s EXCEPT ![i] = x] = 1..Len(s) /\ Len(s) \in Nat
           /\ \A k \in 1..Len(s) : [s EXCEPT ![i] = x][k] = IF k = i THEN x ELSE s[k]
  <1>1. Len(s) \in Nat /\ DOMAIN s = 1..Len(s)
    OBVIOUS
  <1> DEFINE r == [s EXCEPT ![i] = x]
  <1>2. r \in [1..Len(s) -> S]
    BY <1>1
  <1>3. r \in Seq(S) /\ Len(r) = Len(s) /\ DOMAIN r = 1..Len(s)
    BY <1>1, <1>2
  <1> QED
    BY <1>1, <1>3

(* How far an initial stretch of a sequence goes. *)
LEMMA Prefix ==
    ASSUME NEW n \in Nat, NEW D, D \subseteq 1..n,
           \A i \in D, j \in 1..n : j < i => j \in D
    PROVE  Cardinality(D) \in 0..n /\ D = 1..Cardinality(D)
  <1> DEFINE E == {k \in 1..(n + 1) : k \notin D}
  <1>1. n + 1 \in E /\ E \subseteq Nat
    OBVIOUS
  <1>2. PICK k \in E : \A m \in E : k <= m
    BY <1>1, LeastOfNaturals
  <1>3. D = 1..(k - 1)
    <2>1. \A m \in 1..(k - 1) : m \in D
      BY <1>2
    <2>2. \A m \in D : m \in 1..n /\ m < k
      BY <1>2
    <2>3. \A m \in D : m \in 1..(k - 1)
      BY <2>2, <1>2
    <2> QED
      BY <2>1, <2>3, Zenon
  <1>4. Cardinality(1..(k - 1)) = k - 1
    BY <1>2, FS_Interval
  <1> QED
    BY <1>2, <1>3, <1>4

-----------------------------------------------------------------------------
(***************************************************************************)
(* The list of free regions.  It is Whole when its regions are in the      *)
(* order of their addresses and apart; as long as no node has been freed   *)
(* in place none of them is empty.                                         *)
(***************************************************************************)
Node == [start : Nat, length : Nat, dead : {0, 1}]
Apart(list) == \A i, j \in DOMAIN list : i < j /\ list[j].dead = 0 => End(list[i]) <= list[j].start
Whole(list) ==
    /\ list \in Seq(Node) /\ Apart(list)
    /\ AllLinked(list) => \A i \in DOMAIN list : list[i].start > 0 /\ list[i].length > 0
Holds(r, p) == r.dead = 0 /\ p \in Nat /\ r.start <= p /\ p < r.start + r.length

(* The fields of a node, and which pages it holds. *)
LEMMA NodeFields ==
    ASSUME NEW list \in Seq(Node)
    PROVE  /\ Len(list) \in Nat /\ DOMAIN list = 1..Len(list)
           /\ \A i \in 1..Len(list) : /\ list[i] \in Node /\ list[i].start \in Nat
                                      /\ list[i].length \in Nat /\ list[i].dead \in {0, 1}
  <1>1. Len(list) \in Nat /\ DOMAIN list = 1..Len(list) /\ \A i \in 1..Len(list) : list[i] \in Node
    OBVIOUS
  <1>2. \A r \in Node : r.start \in Nat /\ r.length \in Nat /\ r.dead \in {0, 1}
    BY DEF Node
  <1> QED
    BY <1>1, <1>2

(* What the assignments to a node change. *)
LEMMA NodeCut ==
    ASSUME NEW r \in Node, NEW k \in Nat, k <= r.length
    PROVE  /\ Cut(r, k) \in Node /\ Cut(r, k).start = r.start + k
           /\ Cut(r, k).length = r.length - k /\ Cut(r, k).dead = r.dead
  <1>1. r.start \in Nat /\ r.length \in Nat /\ r.dead \in {0, 1}
    BY DEF Node
  <1> DEFINE q == [r EXCEPT !.start = @ + k]
  <1>2. q \in Node /\ q.start = r.start + k /\ q.length = r.length /\ q.dead = r.dead
    BY <1>1 DEF Node
  <1>3. Cut(r, k) = [q EXCEPT !.length = r.length - k]
    BY DEF Cut
  <1> HIDE DEF q
  <1> QED
    BY <1>1, <1>2, <1>3 DEF Node

LEMMA NodeMoved ==
    ASSUME NEW r \in Node, NEW a \in Nat, NEW k \in Nat
    PROVE  /\ FromNew(r, a, k) \in Node /\ FromNew(r, a, k).start = a
           /\ FromNew(r, a, k).length = r.length + k /\ FromNew(r, a, k).dead = r.dead
  <1>1. r.start \in Nat /\ r.length \in Nat /\ r.dead \in {0, 1}
    BY DEF Node
  <1> DEFINE q == [r EXCEPT !.start = a]
  <1>2. q \in Node /\ q.start = a /\ q.length = r.length /\ q.dead = r.dead
    BY <1>1 DEF Node
  <1>3. FromNew(r, a, k) = [q EXCEPT !.length = r.length + k]
    BY DEF FromNew
  <1> HIDE DEF q
  <1> QED
    BY <1>1, <1>2, <1>3 DEF Node

LEMMA NodeGrown ==
    ASSUME NEW r \in Node, NEW k \in Nat
    PROVE  /\ [r EXCEPT !.length = @ + k] \in Node /\ [r EXCEPT !.length = @ + k].start = r.start
           /\ [r EXCEPT !.length = @ + k].length = r.length + k /\ [r EXCEPT !.length = @ + k].dead = r.dead
  <1>1. r.start \in Nat /\ r.length \in Nat /\ r.dead \in {0, 1}
    BY DEF Node
  <1> QED
    BY <1>1 DEF Node

LEMMA NodeFreed ==
    ASSUME NEW r \in Node
    PROVE  /\ [r EXCEPT !.dead = 1] \in Node /\ [r EXCEPT !.dead = 1].start = r.start
           /\ [r EXCEPT !.dead = 1].length = r.length /\ [r EXCEPT !.dead = 1].dead = 1
  BY DEF Node

LEMMA NodeMade ==
    ASSUME NEW a \in Nat, NEW k \in Nat
    PROVE  Region(a, k) \in Node /\ Region(a, k).start = a /\ Region(a, k).length = k /\ Region(a, k).dead = 0
  BY DEF Node, Region

(* A page is free when a node of the list holds it. *)
LEMMA FreePage ==
    ASSUME NEW list \in Seq(Node), NEW p
    PROVE  p \in FreeIn(list) <=> \E i \in DOMAIN list : Holds(list[i], p)
  <1>1. \A i \in DOMAIN list : list[i].start \in Nat /\ list[i].length \in Nat
    BY NodeFields
  <1>2. \A i \in DOMAIN list : p \in Span(list[i]) <=> p \in Nat /\ list[i].start <= p /\ p < list[i].start + list[i].length
    BY <1>1 DEF Span
  <1>3. p \in FreeIn(list) <=> \E i \in DOMAIN list : list[i].dead = 0 /\ p \in Span(list[i])
    BY Zenon DEF FreeIn
  <1> QED
    BY <1>2, <1>3, Zenon DEF Holds

(***************************************************************************)
(* xtAllocatePages cuts k pages from the front of a region.  Some are left.*)
(***************************************************************************)
LEMMA CutShorter ==
    ASSUME NEW list, Whole(list), AllLinked(list), NEW i \in 1..Len(list),
           NEW k \in Nat \ {0}, k < list[i].length
    PROVE  /\ Whole([list EXCEPT ![i] = Cut(@, k)])
           /\ \A p : p \in FreeIn([list EXCEPT ![i] = Cut(@, k)]) <=>
                     p \in FreeIn(list) /\ p \notin list[i].start..((list[i].start + k) - 1)
  <1> DEFINE x == Cut(list[i], k)
             r == [list EXCEPT ![i] = x]
             n == Len(list)
  <1>1. list \in Seq(Node) /\ n \in Nat /\ DOMAIN list = 1..n
    BY DEF Whole
  <1>2. \A j \in 1..n : /\ list[j] \in Node /\ list[j].start \in Nat \ {0}
                        /\ list[j].length \in Nat \ {0} /\ list[j].dead = 0
    BY <1>1, NodeFields DEF Whole, AllLinked
  <1>3. x \in Node /\ x.start = list[i].start + k /\ x.length = list[i].length - k /\ x.dead = 0
    BY <1>2, NodeCut
  <1> HIDE DEF x
  <1>4. /\ r \in Seq(Node) /\ Len(r) = n /\ DOMAIN r = 1..n
        /\ \A j \in 1..n : r[j] = IF j = i THEN x ELSE list[j]
    BY <1>1, <1>3, OneChanged
  <1> HIDE DEF r
  <1>5. \A j, m \in 1..n : j < m => list[j].start + list[j].length <= list[m].start
    BY <1>1, <1>2 DEF Whole, Apart, End
  <1>6. Whole(r)
    <2>1. \A j \in 1..n : r[j].start > 0 /\ r[j].length > 0
      BY <1>2, <1>3, <1>4
    <2>2. ASSUME NEW j \in 1..n, NEW m \in 1..n, j < m PROVE r[j].start + r[j].length <= r[m].start
      <3>1. CASE j = i
        BY <1>2, <1>3, <1>4, <1>5, <2>2, <3>1
      <3>2. CASE j # i
        BY <1>2, <1>3, <1>4, <1>5, <2>2, <3>2
      <3> QED
        BY <3>1, <3>2
    <2> QED
      BY <1>4, <2>1, <2>2 DEF Whole, Apart, End
  <1>7. ASSUME NEW p
        PROVE  p \in FreeIn(r) <=> p \in FreeIn(list) /\ p \notin list[i].start..((list[i].start + k) - 1)
    <2>1. \A j \in 1..n : j # i => (Holds(r[j], p) <=> Holds(list[j], p))
      BY <1>4
    <2>2. Holds(r[i], p) <=> Holds(list[i], p) /\ p \notin list[i].start..((list[i].start + k) - 1)
      <3>1. PICK a, b : a = list[i].start /\ b = list[i].length
        OBVIOUS
      <3>2. /\ a \in Nat /\ b \in Nat /\ k < b /\ list[i].dead = 0
            /\ r[i].start = a + k /\ r[i].length = b - k /\ r[i].dead = 0
        BY <1>1, <1>2, <1>3, <1>4, <3>1
      <3>3. Holds(list[i], p) <=> p \in Nat /\ a <= p /\ p < a + b
        BY <3>1, <3>2 DEF Holds
      <3>4. Holds(r[i], p) <=> p \in Nat /\ a + k <= p /\ p < (a + k) + (b - k)
        BY <3>2 DEF Holds
      <3>5. p \in Nat => (p \notin a..((a + k) - 1) <=> p < a \/ a + k <= p)
        BY <3>2
      <3> QED
        BY <3>1, <3>2, <3>3, <3>4, <3>5
    <2>3. \A j \in 1..n : j # i /\ Holds(list[j], p) => p \notin list[i].start..((list[i].start + k) - 1)
      <3> SUFFICES ASSUME NEW j \in 1..n, j # i, Holds(list[j], p),
                          p \in list[i].start..((list[i].start + k) - 1)
                   PROVE  FALSE
        OBVIOUS
      <3>1. j < i \/ i < j
        BY <1>1
      <3> QED
        BY <1>2, <1>5, <3>1 DEF Holds
    <2> QED
      BY <1>1, <1>4, <2>1, <2>2, <2>3, FreePage
  <1> QED
    BY <1>6, <1>7 DEF r, x

(***************************************************************************)
(* Or none is left, and the node goes, or stays as the last of several.    *)
(***************************************************************************)
LEMMA CutAway ==
    ASSUME NEW list, Whole(list), AllLinked(list), NEW i \in 1..Len(list)
    PROVE  LET r == Unlink([list EXCEPT ![i] = Cut(@, list[i].length)], i) IN
           /\ Whole(r)
           /\ \A p : p \in FreeIn(r) <=>
                     p \in FreeIn(list) /\ p \notin list[i].start..((list[i].start + list[i].length) - 1)
  <1> DEFINE k == list[i].length
             x == Cut(list[i], k)
             left == [list EXCEPT ![i] = x]
             r == Unlink(left, i)
             n == Len(list)
  <1>1. list \in Seq(Node) /\ n \in Nat /\ DOMAIN list = 1..n
    BY DEF Whole
  <1>2. \A j \in 1..n : /\ list[j] \in Node /\ list[j].start \in Nat \ {0}
                        /\ list[j].length \in Nat \ {0} /\ list[j].dead = 0
    BY <1>1, NodeFields DEF Whole, AllLinked
  <1>3. x \in Node /\ x.start = list[i].start + k /\ x.length = 0 /\ x.dead = 0
    BY <1>2, NodeCut
  <1> HIDE DEF x
  <1>4. /\ left \in Seq(Node) /\ Len(left) = n /\ DOMAIN left = 1..n
        /\ \A j \in 1..n : left[j] = IF j = i THEN x ELSE list[j]
    BY <1>1, <1>3, OneChanged
  <1> HIDE DEF left
  <1>5. \A j, m \in 1..n : j < m => list[j].start + list[j].length <= list[m].start
    BY <1>1, <1>2 DEF Whole, Apart, End
  <1>6. ASSUME NEW p
        PROVE  /\ Holds(list[i], p) <=> p \in list[i].start..((list[i].start + k) - 1)
               /\ \A j \in 1..n : j # i /\ Holds(list[j], p) => p \notin list[i].start..((list[i].start + k) - 1)
    BY <1>2, <1>5 DEF Holds
  <1>7. CASE i = n /\ i > 1
    <2> DEFINE y == [left[i] EXCEPT !.dead = 1]
    <2>1. y \in Node /\ y.dead = 1
      BY <1>3, <1>4, NodeFreed
    <2>2. r = [left EXCEPT ![i] = y]
      BY <1>4, <1>7 DEF Unlink
    <2> HIDE DEF y, r
    <2>3. /\ r \in Seq(Node) /\ Len(r) = n /\ DOMAIN r = 1..n
          /\ \A j \in 1..n : r[j] = IF j = i THEN y ELSE list[j]
      BY <1>4, <2>1, <2>2, OneChanged
    <2>4. Whole(r)
      <3>1. ~AllLinked(r)
        BY <2>1, <2>3 DEF AllLinked
      <3>2. Apart(r)
        <4> SUFFICES ASSUME NEW j \in 1..n, NEW m \in 1..n, j < m, r[m].dead = 0
                     PROVE  r[j].start + r[j].length <= r[m].start
          BY <2>3 DEF Apart, End
        <4>1. m # i
          BY <2>1, <2>3
        <4>2. j < m /\ m <= i
          BY <1>1, <1>7
        <4> QED
          BY <1>5, <2>3, <4>1, <4>2
      <3> QED
        BY <2>3, <3>1, <3>2 DEF Whole
    <2>5. ASSUME NEW p
          PROVE  p \in FreeIn(r) <=> p \in FreeIn(list) /\ p \notin list[i].start..((list[i].start + k) - 1)
      <3>1. \A j \in 1..n : j # i => (Holds(r[j], p) <=> Holds(list[j], p))
        BY <2>3
      <3>2. ~Holds(r[i], p)
        BY <2>1, <2>3 DEF Holds
      <3> QED
        BY <1>1, <1>6, <2>3, <3>1, <3>2, FreePage
    <2> QED
      BY <2>4, <2>5 DEF r, left, x
  <1>8. CASE ~(i = n /\ i > 1)
    <2>1. r = RemoveAt(left, i)
      BY <1>4, <1>8 DEF Unlink
    <2> HIDE DEF r
    <2>2. /\ r \in Seq(Node) /\ Len(r) = n - 1 /\ DOMAIN r = 1..(n - 1)
          /\ \A j \in 1..(n - 1) : r[j] = IF j < i THEN left[j] ELSE left[j + 1]
      BY <1>4, <2>1, OneLess
    <2>3. \A j \in 1..(n - 1) : r[j] = IF j < i THEN list[j] ELSE list[j + 1]
      BY <1>1, <1>4, <2>2
    <2>4. Whole(r)
      <3>1. \A j \in 1..(n - 1) : r[j].start > 0 /\ r[j].length > 0
        BY <1>1, <1>2, <2>3
      <3>2. Apart(r)
        BY <1>1, <1>2, <1>5, <2>2, <2>3 DEF Apart, End
      <3> QED
        BY <2>2, <3>1, <3>2 DEF Whole
    <2>5. ASSUME NEW p
          PROVE  p \in FreeIn(r) <=> p \in FreeIn(list) /\ p \notin list[i].start..((list[i].start + k) - 1)
      <3>1. ASSUME NEW j \in 1..(n - 1), Holds(r[j], p)
            PROVE  \E m \in 1..n : m # i /\ Holds(list[m], p)
        <4>1. j \in 1..n /\ j + 1 \in 1..n
          BY <1>1
        <4> QED
          BY <1>1, <2>3, <3>1, <4>1
      <3>2. ASSUME NEW m \in 1..n, m # i, Holds(list[m], p)
            PROVE  \E j \in 1..(n - 1) : Holds(r[j], p)
        <4>1. CASE m < i
          BY <1>1, <2>3, <3>2, <4>1
        <4>2. CASE m > i
          <5>1. m - 1 \in 1..(n - 1) /\ r[m - 1] = list[m]
            BY <1>1, <2>3, <4>2
          <5> QED
            BY <3>2, <5>1
        <4> QED
          BY <1>1, <3>2, <4>1, <4>2
      <3> QED
        BY <1>1, <1>6, <2>2, <3>1, <3>2, FreePage
    <2> QED
      BY <2>4, <2>5 DEF r, left, x
  <1> QED
    BY <1>7, <1>8

(***************************************************************************)
(* What xtAllocatePages hands out was free, all of it, and is not free     *)
(* afterwards; nothing else changes (memory.c:256-300).                    *)
(***************************************************************************)
LEMMA AllocatePages ==
    ASSUME NEW list, Whole(list), AllLinked(list), NEW n \in Nat \ {0},
           xtAllocatePages(list, n).start # Nowhere
    PROVE  LET a == xtAllocatePages(list, n) IN
           /\ a.start \in Nat \ {0} /\ Whole(a.regions)
           /\ \A p : p \in FreeIn(a.regions) <=>
                     p \in FreeIn(list) /\ p \notin a.start..((a.start + Rounded(n)) - 1)
           /\ \A p \in a.start..((a.start + Rounded(n)) - 1) : p \in FreeIn(list)
  <1> DEFINE k == Rounded(n)
             F == Fitting(list, k)
             i == Min(F)
             left == [list EXCEPT ![i] = Cut(@, k)]
             a == xtAllocatePages(list, n)
             r == IF left[i].length = 0 THEN Unlink(left, i) ELSE left
  <1>1. k \in Nat \ {0}
    BY DEF Rounded
  <1>2. list \in Seq(Node) /\ Len(list) \in Nat /\ DOMAIN list = 1..Len(list)
    BY DEF Whole
  <1>3. F # {}
    BY DEF xtAllocatePages
  <1>4. i \in 1..Len(list) /\ list[i].length >= k
    <2>1. F \subseteq Nat
      BY <1>2 DEF Fitting
    <2>2. i \in F
      BY <1>3, <2>1, LeastOfNaturals
    <2> QED
      BY <1>2, <2>2 DEF Fitting
  <1>5. a.start = list[i].start /\ a.regions = r
    BY <1>3 DEF xtAllocatePages
  <1> HIDE DEF k, F, i, a
  <1>6. /\ list[i] \in Node /\ list[i].start \in Nat \ {0} /\ list[i].length \in Nat \ {0} /\ list[i].dead = 0
    BY <1>2, <1>4, NodeFields DEF Whole, AllLinked
  <1>7. left[i] = Cut(list[i], k) /\ Cut(list[i], k).length = list[i].length - k
    BY <1>1, <1>2, <1>4, <1>6, NodeCut
  <1>8. /\ Whole(r)
        /\ \A p : p \in FreeIn(r) <=> p \in FreeIn(list) /\ p \notin list[i].start..((list[i].start + k) - 1)
    <2>1. CASE k < list[i].length
      <3>1. r = left
        BY <1>1, <1>6, <1>7, <2>1
      <3>2. /\ Whole(left)
            /\ \A p : p \in FreeIn(left) <=>
                      p \in FreeIn(list) /\ p \notin list[i].start..((list[i].start + k) - 1)
        BY <1>1, <1>4, <2>1, CutShorter
      <3> HIDE DEF r, left
      <3> QED
        BY <3>1, <3>2, Zenon
    <2>2. CASE k = list[i].length
      <3>1. r = Unlink([list EXCEPT ![i] = Cut(@, list[i].length)], i)
        BY <1>1, <1>6, <1>7, <2>2
      <3> HIDE DEF r
      <3> QED
        BY <1>4, <2>2, <3>1, CutAway
    <2>3. k < list[i].length \/ k = list[i].length
      BY <1>1, <1>4, <1>6
    <2> QED
      BY <2>1, <2>2, <2>3, Zenon
  <1>9. \A p \in list[i].start..((list[i].start + k) - 1) : p \in FreeIn(list)
    <2> TAKE p \in list[i].start..((list[i].start + k) - 1)
    <2>1. Holds(list[i], p)
      BY <1>1, <1>4, <1>6 DEF Holds
    <2> QED
      BY <1>2, <1>4, <2>1, FreePage
  <1> HIDE DEF r
  <1> QED
    BY <1>5, <1>6, <1>8, <1>9 DEF a, k

(***************************************************************************)
(* Where xtFreePages puts a piece that is not free: after the regions that *)
(* end before it, and before those that start after it.                    *)
(***************************************************************************)
Gap(list, left, start, n) ==
    /\ left \in 0..Len(list)
    /\ \A i \in 1..left : list[i].start + list[i].length <= start
    /\ \A i \in (left + 1)..Len(list) : start + n <= list[i].start

LEMMA FreePlace ==
    ASSUME NEW list, Whole(list), AllLinked(list), NEW start \in Nat, NEW n \in Nat \ {0},
           \A p \in start..((start + n) - 1) : p \notin FreeIn(list)
    PROVE  Gap(list, Cardinality({i \in DOMAIN list : list[i].start <= start}), start, n)
  <1> DEFINE D == {i \in DOMAIN list : list[i].start <= start}
             left == Cardinality(D)
             m == Len(list)
  <1>1. list \in Seq(Node) /\ m \in Nat /\ DOMAIN list = 1..m
    BY DEF Whole
  <1>2. \A j \in 1..m : /\ list[j].start \in Nat \ {0} /\ list[j].length \in Nat \ {0} /\ list[j].dead = 0
    BY <1>1, NodeFields DEF Whole, AllLinked
  <1>3. \A j, q \in 1..m : j < q => list[j].start + list[j].length <= list[q].start
    BY <1>1, <1>2 DEF Whole, Apart, End
  <1>4. D \subseteq 1..m /\ \A i \in D, j \in 1..m : j < i => j \in D
    <2>1. D \subseteq 1..m
      BY <1>1
    <2>2. ASSUME NEW i \in D, NEW j \in 1..m, j < i PROVE j \in D
      <3>1. i \in 1..m /\ list[i].start <= start /\ list[j].start + list[j].length <= list[i].start
        BY <1>1, <1>3, <2>2
      <3>2. list[j].start <= start
        BY <1>2, <3>1
      <3> QED
        BY <1>1, <3>2
    <2> QED
      BY <2>1, <2>2
  <1> HIDE DEF m
  <1>5. left \in 0..m /\ D = 1..left
    <2> HIDE DEF D
    <2> QED
      BY <1>1, <1>4, Prefix
  <1>6. ASSUME NEW i \in 1..left PROVE list[i].start + list[i].length <= start
    <2>1. i \in 1..m /\ list[i].start <= start
      BY <1>1, <1>5
    <2>2. ~Holds(list[i], start)
      <3>1. start \notin FreeIn(list)
        BY <1>1
      <3> QED
        BY <1>1, <2>1, <3>1, FreePage
    <2> QED
      BY <1>2, <2>1, <2>2 DEF Holds
  <1>7. ASSUME NEW i \in (left + 1)..m PROVE start + n <= list[i].start
    <2>1. i \in 1..m /\ i \notin D
      <3>1. i \in 1..m /\ i \notin 1..left
        <4> HIDE DEF left
        <4> QED
          BY <1>1, <1>5
      <3> HIDE DEF D, left
      <3> QED
        BY <1>5, <3>1
    <2>2. list[i].start \in Nat /\ list[i].start > start
      BY <1>1, <1>2, <2>1
    <2>3. Holds(list[i], list[i].start)
      BY <1>2, <2>1 DEF Holds
    <2>4. list[i].start \in FreeIn(list)
      BY <1>1, <2>1, <2>3, FreePage
    <2>5. list[i].start \notin start..((start + n) - 1)
      BY <2>4
    <2> QED
      BY <2>2, <2>5
  <1> QED
    BY <1>5, <1>6, <1>7 DEF m, Gap

(* The pages of a piece. *)
InPiece(p, start, n) == p \in Nat /\ start <= p /\ p < start + n

(* The piece is joined to the region on its left. *)
LEMMA FreeGrows ==
    ASSUME NEW list, Whole(list), AllLinked(list), NEW start \in Nat, NEW n \in Nat \ {0},
           NEW left, Gap(list, left, start, n), left > 0, list[left].start + list[left].length = start
    PROVE  LET r == [list EXCEPT ![left].length = @ + n] IN
           Whole(r) /\ \A p : p \in FreeIn(r) <=> p \in FreeIn(list) \/ InPiece(p, start, n)
  <1> DEFINE m == Len(list)
             x == [list[left] EXCEPT !.length = @ + n]
             r == [list EXCEPT ![left] = x]
  <1>1. list \in Seq(Node) /\ m \in Nat /\ DOMAIN list = 1..m
    BY DEF Whole
  <1>2. \A j \in 1..m : /\ list[j] \in Node /\ list[j].start \in Nat \ {0}
                        /\ list[j].length \in Nat \ {0} /\ list[j].dead = 0
    BY <1>1, NodeFields DEF Whole, AllLinked
  <1>3. \A j, q \in 1..m : j < q => list[j].start + list[j].length <= list[q].start
    BY <1>1, <1>2 DEF Whole, Apart, End
  <1>4. /\ left \in 0..m /\ \A i \in 1..left : list[i].start + list[i].length <= start
        /\ \A i \in (left + 1)..m : start + n <= list[i].start
    BY DEF Gap
  <1>5. left \in 1..m /\ x \in Node /\ x.start = list[left].start /\ x.length = list[left].length + n /\ x.dead = 0
    BY <1>1, <1>2, <1>4, NodeGrown
  <1> HIDE DEF x
  <1>6. /\ r \in Seq(Node) /\ Len(r) = m /\ DOMAIN r = 1..m
        /\ \A j \in 1..m : r[j] = IF j = left THEN x ELSE list[j]
    BY <1>1, <1>5, OneChanged
  <1>7. [list EXCEPT ![left].length = @ + n] = r
    BY DEF x
  <1> HIDE DEF r
  <1>8. Whole(r)
    <2>1. \A j \in 1..m : r[j].start > 0 /\ r[j].length > 0
      BY <1>2, <1>5, <1>6
    <2>2. ASSUME NEW j \in 1..m, NEW q \in 1..m, j < q PROVE r[j].start + r[j].length <= r[q].start
      <3>1. CASE j = left
        <4>1. q \in (left + 1)..m
          BY <1>1, <1>5, <2>2, <3>1
        <4>2. start + n <= list[q].start /\ r[q] = list[q]
          BY <1>4, <1>5, <1>6, <4>1
        <4> QED
          BY <1>2, <1>5, <1>6, <3>1, <4>2
      <3>2. CASE j # left
        BY <1>2, <1>3, <1>5, <1>6, <2>2, <3>2
      <3> QED
        BY <3>1, <3>2
    <2> QED
      BY <1>6, <2>1, <2>2 DEF Whole, Apart, End
  <1>9. ASSUME NEW p PROVE p \in FreeIn(r) <=> p \in FreeIn(list) \/ InPiece(p, start, n)
    <2>1. \A j \in 1..m : j # left => (Holds(r[j], p) <=> Holds(list[j], p))
      BY <1>6
    <2>2. Holds(r[left], p) <=> Holds(list[left], p) \/ InPiece(p, start, n)
      <3>1. PICK a, b : a = list[left].start /\ b = list[left].length
        OBVIOUS
      <3>2. /\ a \in Nat /\ b \in Nat /\ a + b = start /\ list[left].dead = 0
            /\ r[left].start = a /\ r[left].length = b + n /\ r[left].dead = 0
        BY <1>2, <1>5, <1>6, <3>1
      <3>3. Holds(list[left], p) <=> p \in Nat /\ a <= p /\ p < start
        BY <3>1, <3>2 DEF Holds
      <3>4. Holds(r[left], p) <=> p \in Nat /\ a <= p /\ p < start + n
        BY <3>2 DEF Holds
      <3> QED
        BY <3>2, <3>3, <3>4 DEF InPiece
    <2> QED
      BY <1>1, <1>5, <1>6, <2>1, <2>2, FreePage
  <1> QED
    BY <1>7, <1>8, <1>9

(* The piece is joined to the region on its right. *)
LEMMA FreeMoves ==
    ASSUME NEW list, Whole(list), AllLinked(list), NEW start \in Nat \ {0}, NEW n \in Nat \ {0},
           NEW left, Gap(list, left, start, n), left + 1 <= Len(list), start + n = list[left + 1].start
    PROVE  LET r == [list EXCEPT ![left + 1] = FromNew(@, start, n)] IN
           Whole(r) /\ \A p : p \in FreeIn(r) <=> p \in FreeIn(list) \/ InPiece(p, start, n)
  <1> DEFINE m == Len(list)
             right == left + 1
             x == FromNew(list[right], start, n)
             r == [list EXCEPT ![right] = x]
  <1>1. list \in Seq(Node) /\ m \in Nat /\ DOMAIN list = 1..m
    BY DEF Whole
  <1>2. \A j \in 1..m : /\ list[j] \in Node /\ list[j].start \in Nat \ {0}
                        /\ list[j].length \in Nat \ {0} /\ list[j].dead = 0
    BY <1>1, NodeFields DEF Whole, AllLinked
  <1>3. \A j, q \in 1..m : j < q => list[j].start + list[j].length <= list[q].start
    BY <1>1, <1>2 DEF Whole, Apart, End
  <1>4. /\ left \in 0..m /\ \A i \in 1..left : list[i].start + list[i].length <= start
        /\ \A i \in (left + 1)..m : start + n <= list[i].start
    BY DEF Gap
  <1>5. right \in 1..m /\ x \in Node /\ x.start = start /\ x.length = list[right].length + n /\ x.dead = 0
    <2>1. right \in 1..m
      BY <1>1, <1>4
    <2>2. list[right] \in Node /\ list[right].dead = 0
      BY <1>2, <2>1
    <2> QED
      BY <2>1, <2>2, NodeMoved
  <1> HIDE DEF x
  <1>6. /\ r \in Seq(Node) /\ Len(r) = m /\ DOMAIN r = 1..m
        /\ \A j \in 1..m : r[j] = IF j = right THEN x ELSE list[j]
    BY <1>1, <1>5, OneChanged
  <1>7. [list EXCEPT ![left + 1] = FromNew(@, start, n)] = r
    BY DEF x
  <1> HIDE DEF r
  <1>8. Whole(r)
    <2>1. \A j \in 1..m : r[j].start > 0 /\ r[j].length > 0
      BY <1>2, <1>5, <1>6
    <2>2. ASSUME NEW j \in 1..m, NEW q \in 1..m, j < q PROVE r[j].start + r[j].length <= r[q].start
      <3>1. CASE q = right
        <4>1. j \in 1..left
          BY <1>1, <1>4, <2>2, <3>1
        <4>2. list[j].start + list[j].length <= start /\ r[j] = list[j]
          BY <1>4, <1>6, <2>2, <3>1, <4>1
        <4> QED
          BY <1>2, <1>5, <1>6, <3>1, <4>2
      <3>2. CASE q # right /\ j = right
        <4>1. /\ list[right].start + list[right].length <= list[q].start /\ r[q] = list[q] /\ r[j] = x
              /\ list[right].start = start + n /\ list[right].length \in Nat
          BY <1>2, <1>3, <1>5, <1>6, <2>2, <3>2
        <4> QED
          BY <1>2, <1>5, <4>1
      <3>3. CASE q # right /\ j # right
        BY <1>3, <1>6, <2>2, <3>3
      <3> QED
        BY <3>1, <3>2, <3>3
    <2> QED
      BY <1>6, <2>1, <2>2 DEF Whole, Apart, End
  <1>9. ASSUME NEW p PROVE p \in FreeIn(r) <=> p \in FreeIn(list) \/ InPiece(p, start, n)
    <2>1. \A j \in 1..m : j # right => (Holds(r[j], p) <=> Holds(list[j], p))
      BY <1>6
    <2>2. Holds(r[right], p) <=> Holds(list[right], p) \/ InPiece(p, start, n)
      BY <1>2, <1>5, <1>6 DEF Holds, InPiece
    <2> QED
      BY <1>1, <1>5, <1>6, <2>1, <2>2, FreePage
  <1> QED
    BY <1>7, <1>8, <1>9

(* The piece touches neither and gets a node of its own. *)
LEMMA FreeInserts ==
    ASSUME NEW list, Whole(list), AllLinked(list), NEW start \in Nat \ {0}, NEW n \in Nat \ {0},
           NEW left, Gap(list, left, start, n)
    PROVE  LET r == Placed(list, left + 1, Region(start, n)) IN
           Whole(r) /\ \A p : p \in FreeIn(r) <=> p \in FreeIn(list) \/ InPiece(p, start, n)
  <1> DEFINE m == Len(list)
             right == left + 1
             x == Region(start, n)
             r == InsertAt(list, right, x)
  <1>1. list \in Seq(Node) /\ m \in Nat /\ DOMAIN list = 1..m
    BY DEF Whole
  <1>2. \A j \in 1..m : /\ list[j] \in Node /\ list[j].start \in Nat \ {0}
                        /\ list[j].length \in Nat \ {0} /\ list[j].dead = 0
    BY <1>1, NodeFields DEF Whole, AllLinked
  <1>3. \A j, q \in 1..m : j < q => list[j].start + list[j].length <= list[q].start
    BY <1>1, <1>2 DEF Whole, Apart, End
  <1>4. /\ left \in 0..m /\ \A i \in 1..left : list[i].start + list[i].length <= start
        /\ \A i \in (left + 1)..m : start + n <= list[i].start
    BY DEF Gap
  <1>5. right \in 1..(m + 1) /\ x \in Node /\ x.start = start /\ x.length = n /\ x.dead = 0
    BY <1>1, <1>4, NodeMade
  <1> HIDE DEF x
  <1>6. /\ r \in Seq(Node) /\ Len(r) = m + 1 /\ DOMAIN r = 1..(m + 1)
        /\ \A j \in 1..(m + 1) : r[j] = IF j < right THEN list[j] ELSE IF j = right THEN x ELSE list[j - 1]
    <2>1. right \in 1..(Len(list) + 1)
      BY <1>5
    <2> HIDE DEF right, m
    <2> QED
      BY <1>1, <1>5, <2>1, OneBetween DEF m
  <1>7. Placed(list, left + 1, Region(start, n)) = r
    BY DEF x, Placed
  <1> HIDE DEF r
  <1>8. Whole(r)
    <2>1. \A j \in 1..(m + 1) : r[j].start > 0 /\ r[j].length > 0
      <3> TAKE j \in 1..(m + 1)
      <3>1. j < right => j \in 1..m
        BY <1>1, <1>4
      <3>2. j > right => j - 1 \in 1..m
        BY <1>1, <1>4
      <3> QED
        BY <1>1, <1>2, <1>4, <1>5, <1>6, <3>1, <3>2
    <2>2. ASSUME NEW j \in 1..(m + 1), NEW q \in 1..(m + 1), j < q PROVE r[j].start + r[j].length <= r[q].start
      <3>1. CASE q < right
        <4>1. j \in 1..m /\ q \in 1..m /\ r[j] = list[j] /\ r[q] = list[q]
          <5>1. j < right /\ q \in 1..m /\ j \in 1..m
            BY <1>1, <1>4, <2>2, <3>1
          <5> QED
            BY <1>6, <3>1, <5>1
        <4> QED
          BY <1>3, <2>2, <4>1
      <3>2. CASE q = right
        <4>1. j \in 1..left /\ r[j] = list[j] /\ r[q] = x
          BY <1>1, <1>4, <1>6, <2>2, <3>2
        <4> QED
          BY <1>4, <1>5, <4>1
      <3>3. CASE q > right /\ j = right
        <4>1. q - 1 \in (left + 1)..m /\ r[j] = x /\ r[q] = list[q - 1]
          BY <1>1, <1>4, <1>6, <2>2, <3>3
        <4> QED
          BY <1>4, <1>5, <4>1
      <3>4. CASE q > right /\ j < right
        <4>1. j \in 1..m /\ q - 1 \in 1..m /\ j < q - 1 /\ r[j] = list[j] /\ r[q] = list[q - 1]
          BY <1>1, <1>4, <1>6, <2>2, <3>4
        <4> QED
          BY <1>3, <4>1
      <3>5. CASE q > right /\ j > right
        <4>1. j - 1 \in 1..m /\ q - 1 \in 1..m /\ j - 1 < q - 1 /\ r[j] = list[j - 1] /\ r[q] = list[q - 1]
          BY <1>1, <1>4, <1>6, <2>2, <3>5
        <4> QED
          BY <1>3, <4>1
      <3> QED
        BY <1>1, <1>4, <3>1, <3>2, <3>3, <3>4, <3>5
    <2> QED
      BY <1>6, <2>1, <2>2 DEF Whole, Apart, End
  <1>9. ASSUME NEW p PROVE p \in FreeIn(r) <=> p \in FreeIn(list) \/ InPiece(p, start, n)
    <2>1. ASSUME NEW j \in 1..(m + 1), Holds(r[j], p)
          PROVE  (\E q \in 1..m : Holds(list[q], p)) \/ InPiece(p, start, n)
      <3>1. CASE j < right
        BY <1>1, <1>4, <1>6, <2>1, <3>1
      <3>2. CASE j = right
        BY <1>5, <1>6, <2>1, <3>2 DEF Holds, InPiece
      <3>3. CASE j > right
        <4>1. j - 1 \in 1..m /\ r[j] = list[j - 1]
          BY <1>1, <1>4, <1>6, <3>3
        <4> QED
          BY <2>1, <4>1
      <3> QED
        BY <1>1, <1>4, <3>1, <3>2, <3>3
    <2>2. ASSUME NEW q \in 1..m, Holds(list[q], p) PROVE \E j \in 1..(m + 1) : Holds(r[j], p)
      <3>1. CASE q < right
        <4>1. q \in 1..(m + 1) /\ r[q] = list[q]
          BY <1>1, <1>6, <3>1
        <4> QED
          BY <2>2, <4>1
      <3>2. CASE q >= right
        <4>1. q + 1 \in 1..(m + 1) /\ (q + 1) - 1 = q /\ ~(q + 1 < right) /\ q + 1 # right
          BY <1>1, <1>4, <3>2
        <4>2. r[q + 1] = list[q]
          BY <1>6, <4>1
        <4> QED
          BY <2>2, <4>1, <4>2
      <3> QED
        BY <1>1, <1>4, <3>1, <3>2
    <2>3. InPiece(p, start, n) => Holds(r[right], p)
      BY <1>5, <1>6 DEF Holds, InPiece
    <2> QED
      BY <1>1, <1>5, <1>6, <2>1, <2>2, <2>3, FreePage
  <1> QED
    BY <1>7, <1>8, <1>9

(* The piece fills the gap: its neighbours become one region, and the node *)
(* of the right one goes, or stays as the last of several.                 *)
LEMMA FreeJoins ==
    ASSUME NEW list, Whole(list), AllLinked(list), NEW start \in Nat, NEW n \in Nat \ {0},
           NEW left, Gap(list, left, start, n), left > 0, list[left].start + list[left].length = start,
           left + 1 <= Len(list), start + n = list[left + 1].start
    PROVE  LET grown == [list EXCEPT ![left].length = @ + n]
               r == Unlink([grown EXCEPT ![left] = WithRight(@, list[left + 1])], left + 1) IN
           Whole(r) /\ \A p : p \in FreeIn(r) <=> p \in FreeIn(list) \/ InPiece(p, start, n)
  <1> DEFINE m == Len(list)
             right == left + 1
             x == [list[left] EXCEPT !.length = @ + n]
             k == list[right].length
             y == [x EXCEPT !.length = @ + k]
             g == [list EXCEPT ![left] = y]
             r == Unlink(g, right)
             grown == [list EXCEPT ![left].length = @ + n]
  <1>1. list \in Seq(Node) /\ m \in Nat /\ DOMAIN list = 1..m
    BY DEF Whole
  <1>2. \A j \in 1..m : /\ list[j] \in Node /\ list[j].start \in Nat \ {0}
                        /\ list[j].length \in Nat \ {0} /\ list[j].dead = 0
    BY <1>1, NodeFields DEF Whole, AllLinked
  <1>3. \A j, q \in 1..m : j < q => list[j].start + list[j].length <= list[q].start
    BY <1>1, <1>2 DEF Whole, Apart, End
  <1>4. /\ left \in 0..m /\ \A i \in 1..left : list[i].start + list[i].length <= start
        /\ \A i \in (left + 1)..m : start + n <= list[i].start
    BY DEF Gap
  <1>5. left \in 1..m /\ right \in 1..m /\ right > 1
    BY <1>1, <1>4
  <1>6. x \in Node /\ x.start = list[left].start /\ x.length = list[left].length + n /\ x.dead = 0
    BY <1>2, <1>5, NodeGrown
  <1>7. [grown EXCEPT ![left] = WithRight(@, list[left + 1])] = g
    <2>1. grown = [list EXCEPT ![left] = x] /\ grown[left] = x
      BY <1>1, <1>5
    <2> QED
      BY <2>1 DEF WithRight
  <1> HIDE DEF x, grown
  <1>8. y \in Node /\ y.start = list[left].start /\ y.length = (list[left].length + n) + k /\ y.dead = 0
    <2>1. k \in Nat
      BY <1>2, <1>5
    <2> HIDE DEF k
    <2> QED
      BY <1>6, <2>1, NodeGrown
  <1> HIDE DEF y
  <1>9. /\ g \in Seq(Node) /\ Len(g) = m /\ DOMAIN g = 1..m
        /\ \A j \in 1..m : g[j] = IF j = left THEN y ELSE list[j]
    BY <1>1, <1>5, <1>8, OneChanged
  <1> HIDE DEF g
  <1>10. /\ k \in Nat \ {0} /\ y.start + y.length = list[right].start + k
         /\ y.start > 0 /\ y.length > 0
    <2>1. /\ list[left].start \in Nat \ {0} /\ list[left].length \in Nat \ {0}
          /\ list[right].start = start + n /\ k \in Nat \ {0}
      BY <1>2, <1>5
    <2> QED
      <3>1. y.start = list[left].start /\ y.length = (list[left].length + n) + k
        BY <1>8
      <3>2. \A a, b, c \in Nat : a + b = start => a + ((b + n) + c) = (start + n) + c
        OBVIOUS
      <3>3. list[left].start + ((list[left].length + n) + k) = (start + n) + k
        <4> HIDE DEF k
        <4> QED
          BY <2>1, <3>2
      <3>4. \A b, c \in Nat \ {0} : (b + n) + c > 0
        OBVIOUS
      <3> HIDE DEF k
      <3> QED
        BY <2>1, <3>1, <3>3, <3>4
  <1>11. ASSUME NEW j \in 1..m, NEW q \in 1..m, j < q, q # right, j # right
         PROVE  g[j].start + g[j].length <= g[q].start
    <2>1. CASE j = left
      <3>1. right < q /\ g[j] = y /\ g[q] = list[q]
        BY <1>1, <1>4, <1>5, <1>9, <1>11, <2>1
      <3> QED
        BY <1>3, <1>5, <1>10, <3>1
    <2>2. CASE j # left
      BY <1>2, <1>3, <1>5, <1>8, <1>9, <1>11, <2>2
    <2> QED
      BY <2>1, <2>2
  <1>12. ASSUME NEW p
         PROVE  (\E j \in 1..m : j # right /\ Holds(g[j], p)) <=> p \in FreeIn(list) \/ InPiece(p, start, n)
    <2>1. \A j \in 1..m : j # left => (Holds(g[j], p) <=> Holds(list[j], p))
      BY <1>9
    <2>2. Holds(g[left], p) <=> Holds(list[left], p) \/ InPiece(p, start, n) \/ Holds(list[right], p)
      <3>1. Holds(y, p) <=> Holds(list[left], p) \/ InPiece(p, start, n) \/ Holds(list[right], p)
        <4>1. /\ list[left].dead = 0 /\ list[left].start \in Nat /\ list[left].length \in Nat
              /\ list[right].dead = 0 /\ list[right].start = start + n /\ k \in Nat
          BY <1>2, <1>5
        <4> QED
          <5>1. \A a, b, c \in Nat : a + b = start =>
                   (p \in Nat /\ a <= p /\ p < a + ((b + n) + c) <=>
                      \/ p \in Nat /\ a <= p /\ p < a + b
                      \/ p \in Nat /\ start <= p /\ p < start + n
                      \/ p \in Nat /\ start + n <= p /\ p < (start + n) + c)
            OBVIOUS
          <5> HIDE DEF k
          <5>2. p \in Nat /\ list[left].start <= p /\ p < list[left].start + ((list[left].length + n) + k) <=>
                  \/ p \in Nat /\ list[left].start <= p /\ p < list[left].start + list[left].length
                  \/ p \in Nat /\ start <= p /\ p < start + n
                  \/ p \in Nat /\ start + n <= p /\ p < (start + n) + k
            BY <4>1, <5>1
          <5> QED
            BY <1>8, <4>1, <5>2, Zenon DEF Holds, InPiece, k
      <3> QED
        BY <1>5, <1>9, <3>1
    <2>3. left # right
      BY <1>4
    <2> QED
      BY <1>1, <1>5, <2>1, <2>2, <2>3, FreePage
  <1>13. CASE right = m
    <2> DEFINE z == [g[right] EXCEPT !.dead = 1]
    <2>1. z \in Node /\ z.dead = 1
      BY <1>5, <1>9, <1>2, NodeFreed
    <2>2. r = [g EXCEPT ![right] = z]
      BY <1>5, <1>9, <1>13 DEF Unlink
    <2> HIDE DEF z, r
    <2>3. /\ r \in Seq(Node) /\ Len(r) = m /\ DOMAIN r = 1..m
          /\ \A j \in 1..m : r[j] = IF j = right THEN z ELSE g[j]
      BY <1>5, <1>9, <2>1, <2>2, OneChanged
    <2>4. Whole(r)
      <3>1. ~AllLinked(r)
        BY <1>5, <2>1, <2>3 DEF AllLinked
      <3>2. ASSUME NEW j \in 1..m, NEW q \in 1..m, j < q, r[q].dead = 0
            PROVE  r[j].start + r[j].length <= r[q].start
        <4>1. q # right /\ j # right
          <5>1. q # right
            BY <2>1, <2>3, <3>2
          <5>2. j < q /\ q <= right
            BY <1>1, <1>13, <3>2
          <5> QED
            BY <1>5, <5>1, <5>2
        <4> QED
          BY <1>11, <2>3, <3>2, <4>1
      <3>3. Apart(r)
        BY <2>3, <3>2 DEF Apart, End
      <3> QED
        BY <2>3, <3>1, <3>3 DEF Whole
    <2>5. ASSUME NEW p PROVE p \in FreeIn(r) <=> p \in FreeIn(list) \/ InPiece(p, start, n)
      <3>1. ~Holds(r[right], p)
        BY <1>5, <2>1, <2>3 DEF Holds
      <3>2. (\E j \in 1..m : Holds(r[j], p)) <=> \E j \in 1..m : j # right /\ Holds(g[j], p)
        BY <2>3, <3>1
      <3> QED
        BY <1>12, <2>3, <3>2, FreePage
    <2>6. Unlink([grown EXCEPT ![left] = WithRight(@, list[left + 1])], left + 1) = r
      BY <1>7 DEF r
    <2> QED
      BY <2>4, <2>5, <2>6 DEF grown
  <1>14. CASE right # m
    <2>1. r = RemoveAt(g, right)
      BY <1>9, <1>14 DEF Unlink
    <2> HIDE DEF r
    <2>2. /\ r \in Seq(Node) /\ Len(r) = m - 1 /\ DOMAIN r = 1..(m - 1)
          /\ \A j \in 1..(m - 1) : r[j] = IF j < right THEN g[j] ELSE g[j + 1]
      BY <1>5, <1>9, <2>1, OneLess
    <2>3. Whole(r)
      <3>1. \A j \in 1..(m - 1) : r[j].start > 0 /\ r[j].length > 0
        <4> TAKE j \in 1..(m - 1)
        <4>1. j \in 1..m /\ j + 1 \in 1..m
          BY <1>1
        <4>2. \A q \in 1..m : g[q].start > 0 /\ g[q].length > 0
          BY <1>2, <1>9, <1>10
        <4> QED
          BY <2>2, <4>1, <4>2
      <3>2. ASSUME NEW j \in 1..(m - 1), NEW q \in 1..(m - 1), j < q
            PROVE  r[j].start + r[j].length <= r[q].start
        <4>1. CASE q < right
          <5>1. j \in 1..m /\ q \in 1..m /\ j # right /\ q # right /\ r[j] = g[j] /\ r[q] = g[q]
            BY <1>1, <1>4, <2>2, <3>2, <4>1
          <5> QED
            BY <1>11, <3>2, <5>1
        <4>2. CASE q >= right /\ j < right
          <5>1. /\ j \in 1..m /\ q + 1 \in 1..m /\ j # right /\ q + 1 # right /\ j < q + 1
                /\ r[j] = g[j] /\ r[q] = g[q + 1]
            BY <1>1, <1>4, <2>2, <3>2, <4>2
          <5> QED
            BY <1>11, <5>1
        <4>3. CASE j >= right
          <5>1. /\ j + 1 \in 1..m /\ q + 1 \in 1..m /\ j + 1 # right /\ q + 1 # right /\ j + 1 < q + 1
                /\ r[j] = g[j + 1] /\ r[q] = g[q + 1]
            BY <1>1, <1>4, <2>2, <3>2, <4>3
          <5> QED
            BY <1>11, <5>1
        <4> QED
          BY <1>1, <1>4, <3>2, <4>1, <4>2, <4>3
      <3>3. Apart(r)
        BY <2>2, <3>2 DEF Apart, End
      <3> QED
        BY <2>2, <3>1, <3>3 DEF Whole
    <2>4. ASSUME NEW p PROVE p \in FreeIn(r) <=> p \in FreeIn(list) \/ InPiece(p, start, n)
      <3>1. ASSUME NEW j \in 1..(m - 1), Holds(r[j], p)
            PROVE  \E q \in 1..m : q # right /\ Holds(g[q], p)
        <4>1. j \in 1..m /\ j + 1 \in 1..m /\ (j < right => j # right) /\ (~(j < right) => j + 1 # right)
          BY <1>1, <1>4
        <4> QED
          BY <2>2, <3>1, <4>1
      <3>2. ASSUME NEW q \in 1..m, q # right, Holds(g[q], p)
            PROVE  \E j \in 1..(m - 1) : Holds(r[j], p)
        <4>1. CASE q < right
          <5>1. q \in 1..(m - 1) /\ r[q] = g[q]
            BY <1>1, <1>4, <1>5, <2>2, <4>1
          <5> QED
            BY <3>2, <5>1
        <4>2. CASE q > right
          <5>1. q - 1 \in 1..(m - 1) /\ (q - 1) + 1 = q /\ ~(q - 1 < right)
            BY <1>1, <1>4, <4>2
          <5>2. r[q - 1] = g[q]
            BY <2>2, <5>1
          <5> QED
            BY <3>2, <5>1, <5>2
        <4> QED
          BY <1>1, <1>4, <3>2, <4>1, <4>2
      <3> QED
        BY <1>12, <2>2, <3>1, <3>2, FreePage
    <2>5. Unlink([grown EXCEPT ![left] = WithRight(@, list[left + 1])], left + 1) = r
      BY <1>7 DEF r
    <2> QED
      BY <2>3, <2>4, <2>5 DEF grown
  <1> QED
    BY <1>13, <1>14

(***************************************************************************)
(* What xtFreePages is given is free afterwards, and nothing else changes  *)
(* (memory.c:302-360).                                                     *)
(***************************************************************************)
LEMMA FreePages ==
    ASSUME NEW list, Whole(list), AllLinked(list), NEW start \in Nat \ {0}, NEW n \in Nat \ {0},
           \A p \in start..((start + n) - 1) : p \notin FreeIn(list)
    PROVE  LET r == xtFreePages(list, start, n) IN
           Whole(r) /\ \A p : p \in FreeIn(r) <=> p \in FreeIn(list) \/ InPiece(p, start, n)
  <1> DEFINE left == Cardinality({i \in DOMAIN list : list[i].start <= start})
             joinsLeft == left > 0 /\ End(list[left]) = start
             joinsRight == left + 1 <= Len(list) /\ start + n = list[left + 1].start
             grown == [list EXCEPT ![left].length = @ + n]
             r == xtFreePages(list, start, n)
  <1>1. Gap(list, left, start, n)
    BY FreePlace
  <1>2. /\ joinsLeft /\ ~joinsRight => r = grown
        /\ joinsLeft /\ joinsRight =>
              r = Unlink([grown EXCEPT ![left] = WithRight(@, list[left + 1])], left + 1)
        /\ ~joinsLeft /\ joinsRight => r = [list EXCEPT ![left + 1] = FromNew(@, start, n)]
        /\ ~joinsLeft /\ ~joinsRight => r = Placed(list, left + 1, Region(start, n))
    BY Zenon DEF xtFreePages
  <1> HIDE DEF left, r
  <1> DEFINE Good(x) == Whole(x) /\ \A p : p \in FreeIn(x) <=> p \in FreeIn(list) \/ InPiece(p, start, n)
  <1>3. joinsLeft /\ ~joinsRight => Good(grown)
    BY <1>1, FreeGrows DEF End
  <1>4. joinsLeft /\ joinsRight =>
          Good(Unlink([grown EXCEPT ![left] = WithRight(@, list[left + 1])], left + 1))
    BY <1>1, FreeJoins DEF End
  <1>5. ~joinsLeft /\ joinsRight => Good([list EXCEPT ![left + 1] = FromNew(@, start, n)])
    BY <1>1, FreeMoves
  <1>6. ~joinsLeft /\ ~joinsRight => Good(Placed(list, left + 1, Region(start, n)))
    BY <1>1, FreeInserts
  <1>7. Good(r)
    <2> HIDE DEF Good, joinsLeft, joinsRight, grown
    <2> QED
      BY <1>2, <1>3, <1>4, <1>5, <1>6, Zenon
  <1> QED
    BY <1>7, Zenon DEF r

-----------------------------------------------------------------------------
(***************************************************************************)
(* The memory: every page is free, slack or in one piece that somebody     *)
(* owns.                                                                   *)
(***************************************************************************)
Pieces == [start : Nat \ {0}, length : Nat \ {0}]
Within(o, p) == InPiece(p, o.start, o.length)

(* The address p is in use, and each page is, under one of its addresses. *)
Used(list, own, pad, p) == p \in FreeIn(list) \/ p \in pad \/ \E o \in own : Within(o, p)
Addressed(list, own, pad) ==
    /\ \A p : Used(list, own, pad, p) => p \in AllPages \/ \E q \in AllPages : p = High + q
    /\ \A q \in AllPages : Used(list, own, pad, q) \/ Used(list, own, pad, High + q)
    /\ \A q \in AllPages : ~(Used(list, own, pad, q) /\ Used(list, own, pad, High + q))
MemoryOK(list, own, pad) ==
    /\ Whole(list) /\ own \subseteq Pieces
    /\ \A o \in own : \A p : Within(o, p) => p \notin FreeIn(list)
    /\ \A o, q \in own : \A p : Within(o, p) /\ Within(q, p) => o = q
    /\ \A p \in pad : p \notin FreeIn(list) /\ \A o \in own : ~Within(o, p)
    /\ Addressed(list, own, pad)

(* The addresses in use are all that matters to it. *)
LEMMA SameAddresses ==
    ASSUME NEW list, NEW own, NEW pad, Addressed(list, own, pad), NEW list2, NEW own2, NEW pad2,
           \A p : Used(list2, own2, pad2, p) <=> Used(list, own, pad, p)
    PROVE  Addressed(list2, own2, pad2)
  BY Zenon DEF Addressed

(* The pages are below High, and 0 is none. *)
LEMMA LowPages ==
    ASSUME NEW q \in AllPages
    PROVE  q \in Nat \ {0} /\ q < High /\ High \in Nat
  <1>1. PICK i \in DOMAIN Memory : q \in Span(Memory[i])
    BY DEF AllPages
  <1> DEFINE R == [start : Nat \ {Nowhere}, length : Nat \ {0}, dead : {0}]
  <1>2. Memory[i] \in R
    <2>1. Memory \in Seq(R)
      BY PagesAssumption
    <2> HIDE DEF R
    <2> QED
      BY <2>1
  <1>3. Memory[i].start \in Nat \ {0} /\ Memory[i].length \in Nat /\ Memory[i].start + Memory[i].length <= High
        /\ High \in Nat
    BY <1>2, PagesAssumption DEF Nowhere
  <1> QED
    BY <1>1, <1>3 DEF Span

(* A piece, its pages and its first page. *)
LEMMA PieceFacts ==
    ASSUME NEW a \in Nat \ {0}, NEW k \in Nat \ {0}
    PROVE  /\ Piece(a, k) \in Pieces /\ Piece(a, k).start = a /\ Piece(a, k).length = k
           /\ \A p : Within(Piece(a, k), p) <=> InPiece(p, a, k)
           /\ InPiece(a, a, k)
  BY DEF Pieces, Piece, Within, InPiece

(* Pieces that start at one address are one. *)
LEMMA OneByStart ==
    ASSUME NEW list, NEW own, NEW pad, MemoryOK(list, own, pad), NEW o \in own, NEW q \in own, o.start = q.start
    PROVE  o = q
  <1>1. o \in Pieces /\ q \in Pieces
    BY DEF MemoryOK
  <1>2. Within(o, o.start) /\ Within(q, o.start)
    BY <1>1 DEF Pieces, Within, InPiece
  <1> QED
    BY <1>2 DEF MemoryOK

(* Taking pages. *)
LEMMA TakeMemory ==
    ASSUME NEW list, NEW own, NEW pad, MemoryOK(list, own, pad), AllLinked(list), NEW n \in Nat \ {0},
           xtAllocatePages(list, n).start # Nowhere
    PROVE  LET a == xtAllocatePages(list, n) IN
           /\ MemoryOK(a.regions, own \cup {Piece(a.start, n)}, pad \cup Padding(a.start, n))
           /\ a.start \in Nat \ {0} /\ \A o \in own : o.start # a.start
  <1> DEFINE a == xtAllocatePages(list, n)
             b == a.start
             k == Rounded(n)
             new == Piece(b, n)
  <1>1. Whole(list)
    BY DEF MemoryOK
  <1>2. /\ b \in Nat \ {0} /\ Whole(a.regions)
        /\ \A p : p \in FreeIn(a.regions) <=> p \in FreeIn(list) /\ p \notin b..((b + k) - 1)
        /\ \A p \in b..((b + k) - 1) : p \in FreeIn(list)
    BY <1>1, AllocatePages
  <1>3. k \in Nat /\ k >= n
    BY DEF Rounded
  <1>4. /\ new \in Pieces /\ new.start = b /\ (\A p : Within(new, p) <=> InPiece(p, b, n)) /\ InPiece(b, b, n)
    BY <1>2, PieceFacts
  <1> HIDE DEF a, b, k, new
  <1>5. \A p : p \in b..((b + k) - 1) <=> InPiece(p, b, n) \/ p \in (b + n)..((b + k) - 1)
    BY <1>2, <1>3 DEF InPiece
  <1>6. \A p : InPiece(p, b, n) => p \in FreeIn(list) /\ p \notin FreeIn(a.regions)
    BY <1>2, <1>5
  <1>7. \A o \in own : ~Within(o, b)
    BY <1>4, <1>6 DEF MemoryOK
  <1>8. \A o \in own : o.start # b
    <2> SUFFICES ASSUME NEW o \in own, o.start = b PROVE FALSE
      OBVIOUS
    <2>1. o \in Pieces
      BY DEF MemoryOK
    <2>2. Within(o, b)
      BY <2>1 DEF Pieces, Within, InPiece
    <2> QED
      BY <1>7, <2>2
  <1>9. MemoryOK(a.regions, own \cup {new}, pad \cup ((b + n)..((b + k) - 1)))
    <2>1. own \cup {new} \subseteq Pieces
      BY <1>4 DEF MemoryOK
    <2>2. \A o \in own \cup {new} : \A p : Within(o, p) => p \notin FreeIn(a.regions)
      BY <1>2, <1>4, <1>6 DEF MemoryOK
    <2>3. \A o, q \in own \cup {new} : \A p : Within(o, p) /\ Within(q, p) => o = q
      BY <1>4, <1>6 DEF MemoryOK
    <2>4. ASSUME NEW p
          PROVE  Used(a.regions, own \cup {new}, pad \cup ((b + n)..((b + k) - 1)), p) <=> Used(list, own, pad, p)
      <3>2. p \in FreeIn(list) <=> \/ p \in FreeIn(a.regions) \/ Within(new, p)
                                   \/ p \in (b + n)..((b + k) - 1)
        BY <1>2, <1>4, <1>5
      <3> QED
        BY <3>2 DEF Used
    <2>5. Addressed(list, own, pad)
      BY DEF MemoryOK
    <2>6. Addressed(a.regions, own \cup {new}, pad \cup ((b + n)..((b + k) - 1)))
      BY <2>4, <2>5, SameAddresses
    <2>7. \A p \in pad \cup ((b + n)..((b + k) - 1)) :
            p \notin FreeIn(a.regions) /\ \A o \in own \cup {new} : ~Within(o, p)
      <3>1. ASSUME NEW p \in pad PROVE p \notin FreeIn(a.regions) /\ \A o \in own \cup {new} : ~Within(o, p)
        BY <1>2, <1>4, <1>6 DEF MemoryOK
      <3>2. ASSUME NEW p \in (b + n)..((b + k) - 1)
            PROVE  p \notin FreeIn(a.regions) /\ \A o \in own \cup {new} : ~Within(o, p)
        <4>1. p \in b..((b + k) - 1) /\ ~InPiece(p, b, n)
          BY <1>2, <1>3 DEF InPiece
        <4> QED
          BY <1>2, <1>4, <4>1 DEF MemoryOK
      <3> QED
        BY <3>1, <3>2
    <2> QED
      BY <1>2, <2>1, <2>2, <2>3, <2>6, <2>7 DEF MemoryOK
  <1> QED
    <2>1. Padding(b, n) = (b + n)..((b + k) - 1)
      <3>1. (b + n)..(b + (k - 1)) = (b + n)..((b + k) - 1)
        BY <1>2, <1>3
      <3> QED
        BY <3>1 DEF Padding, k
    <2> QED
      BY <1>2, <1>8, <1>9, <2>1, Zenon DEF a, b, new

(* Giving back the front of a piece, or all of it. *)
Handed(own, piece) ==
    {IF o.start # piece.start THEN o
     ELSE Piece(o.start + piece.length, o.length - piece.length) : o \in own} \ {
       Piece(piece.start + piece.length, 0)}

LEMMA GiveMemory ==
    ASSUME NEW list, NEW own, NEW pad, MemoryOK(list, own, pad), AllLinked(list),
           NEW o \in own, NEW k \in Nat \ {0}, k <= o.length
    PROVE  /\ MemoryOK(xtFreePages(list, o.start, k), Handed(own, Piece(o.start, k)), pad)
           /\ \A q \in own : q.start # o.start => q \in Handed(own, Piece(o.start, k))
  <1> DEFINE a == o.start
             r == xtFreePages(list, a, k)
             rest == Piece(a + k, o.length - k)
             H == Handed(own, Piece(a, k))
  <1>1. Whole(list) /\ own \subseteq Pieces
    BY DEF MemoryOK
  <1>2. a \in Nat \ {0} /\ o.length \in Nat \ {0}
    BY <1>1 DEF Pieces
  <1>3. \A p : InPiece(p, a, k) => Within(o, p)
    BY <1>2 DEF InPiece, Within
  <1>4. \A p \in a..((a + k) - 1) : p \notin FreeIn(list)
    <2>1. \A p \in a..((a + k) - 1) : InPiece(p, a, k)
      BY <1>2 DEF InPiece
    <2> QED
      BY <1>3, <2>1 DEF MemoryOK
  <1>5. Whole(r) /\ \A p : p \in FreeIn(r) <=> p \in FreeIn(list) \/ InPiece(p, a, k)
    BY <1>1, <1>2, <1>4, FreePages
  <1>6. \A q \in own : q.start = a => q = o
    BY OneByStart
  <1>7. \A q : q \in H <=> (q \in own /\ q.start # a) \/ (q = rest /\ k < o.length)
    <2>1. Piece(a, k).start = a /\ Piece(a, k).length = k
      BY DEF Piece
    <2>2. \A q \in own : q # Piece(a + k, 0)
      <3>1. Piece(a + k, 0).length = 0
        BY DEF Piece
      <3>2. \A q \in own : q.length # 0
        BY <1>1 DEF Pieces
      <3> QED
        BY <3>1, <3>2
    <2>3. k < o.length => rest # Piece(a + k, 0)
      <3>1. Piece(a + k, 0).length = 0 /\ rest.length = o.length - k
        BY DEF Piece
      <3> QED
        BY <1>2, <3>1
    <2>4. k = o.length => rest = Piece(a + k, 0)
      BY <1>2
    <2>5. k < o.length \/ k = o.length
      BY <1>2
    <2>6. \A q : q \in H <=> (\E e \in own : q = (IF e.start # a THEN e ELSE Piece(e.start + k, e.length - k)))
                             /\ q # Piece(a + k, 0)
      BY <2>1, Zenon DEF Handed
    <2> HIDE DEF a, H, rest
    <2>7. Piece(o.start + k, o.length - k) = rest
      BY DEF rest, a
    <2> TAKE q
    <2>8. ASSUME q \in H PROVE (q \in own /\ q.start # a) \/ (q = rest /\ k < o.length)
      <3>1. PICK e \in own : q = (IF e.start # a THEN e ELSE Piece(e.start + k, e.length - k))
        BY <2>6, <2>8
      <3>2. CASE e.start # a
        BY <3>1, <3>2
      <3>3. CASE e.start = a
        BY <1>6, <2>4, <2>5, <2>6, <2>7, <2>8, <3>1, <3>3
      <3> QED
        BY <3>2, <3>3
    <2>9. ASSUME q \in own, q.start # a PROVE q \in H
      BY <2>2, <2>6, <2>9
    <2>10. ASSUME q = rest, k < o.length PROVE q \in H
      <3>1. o.start = a
        BY DEF a
      <3> QED
        BY <2>3, <2>6, <2>7, <2>10, <3>1
    <2> QED
      BY <2>8, <2>9, <2>10
  <1>8. k < o.length => rest \in Pieces /\ \A p : Within(rest, p) <=> Within(o, p) /\ ~InPiece(p, a, k)
    <2> SUFFICES ASSUME k < o.length
                 PROVE  rest \in Pieces /\ \A p : Within(rest, p) <=> Within(o, p) /\ ~InPiece(p, a, k)
      OBVIOUS
    <2>1. a + k \in Nat \ {0} /\ o.length - k \in Nat \ {0}
      BY <1>2
    <2>2. rest \in Pieces /\ \A p : Within(rest, p) <=> InPiece(p, a + k, o.length - k)
      BY <2>1, PieceFacts
    <2>3. \A p : InPiece(p, a + k, o.length - k) <=> Within(o, p) /\ ~InPiece(p, a, k)
      BY <1>2 DEF Within, InPiece
    <2> QED
      BY <2>2, <2>3
  <1>9. k = o.length => \A p : Within(o, p) => InPiece(p, a, k)
    BY <1>2 DEF Within, InPiece
  <1>10. k < o.length \/ k = o.length
    BY <1>2
  <1> HIDE DEF a, r, rest, H
  <1>11. MemoryOK(r, H, pad)
    <2>1. H \subseteq Pieces
      BY <1>1, <1>7, <1>8
    <2>2. ASSUME NEW q \in H, NEW p, Within(q, p) PROVE p \notin FreeIn(r)
      <3>1. CASE q \in own /\ q.start # a
        <4>1. ~Within(o, p)
          BY <2>2, <3>1 DEF MemoryOK, a
        <4> QED
          BY <1>3, <1>5, <2>2, <3>1, <4>1 DEF MemoryOK
      <3>2. CASE q = rest /\ k < o.length
        BY <1>5, <1>8, <2>2, <3>2 DEF MemoryOK
      <3> QED
        BY <1>7, <3>1, <3>2
    <2>3. ASSUME NEW q \in H, NEW e \in H, NEW p, Within(q, p), Within(e, p) PROVE q = e
      <3>1. \A x \in H : Within(x, p) => (x \in own /\ x.start # a /\ ~Within(o, p)) \/ (x = rest /\ Within(o, p))
        <4> SUFFICES ASSUME NEW x \in H, Within(x, p)
                     PROVE  (x \in own /\ x.start # a /\ ~Within(o, p)) \/ (x = rest /\ Within(o, p))
          OBVIOUS
        <4>1. CASE x \in own /\ x.start # a
          BY <4>1 DEF MemoryOK, a
        <4>2. CASE x = rest /\ k < o.length
          BY <1>8, <4>2
        <4> QED
          BY <1>7, <4>1, <4>2
      <3> QED
        BY <2>3, <3>1 DEF MemoryOK
    <2>4. ASSUME NEW p
          PROVE  Used(r, H, pad, p) <=> Used(list, own, pad, p)
      <3>2. (\E q \in own : Within(q, p)) <=> (\E q \in H : Within(q, p)) \/ InPiece(p, a, k)
        <4>1. ASSUME NEW q \in own, Within(q, p) PROVE (\E e \in H : Within(e, p)) \/ InPiece(p, a, k)
          BY <1>6, <1>7, <1>8, <1>9, <1>10, <4>1
        <4>2. ASSUME NEW q \in H, Within(q, p) PROVE \E e \in own : Within(e, p)
          BY <1>7, <1>8, <4>2
        <4> QED
          BY <1>3, <4>1, <4>2
      <3> QED
        BY <1>5, <3>2 DEF Used
    <2>5. Addressed(list, own, pad)
      BY DEF MemoryOK
    <2>6. Addressed(r, H, pad)
      BY <2>4, <2>5, SameAddresses
    <2>7. \A p \in pad : p \notin FreeIn(r) /\ \A q \in H : ~Within(q, p)
      BY <1>3, <1>5, <1>7, <1>8 DEF MemoryOK
    <2> QED
      BY <1>5, <2>1, <2>2, <2>3, <2>6, <2>7 DEF MemoryOK
  <1> QED
    BY <1>7, <1>11 DEF a, r, H

(***************************************************************************)
(* A piece that goes by its addresses in the higher half.                  *)
(***************************************************************************)
LEMMA RenameMemory ==
    ASSUME NEW list, NEW own, NEW pad, MemoryOK(list, own, pad), NEW o \in own
    PROVE  LET b == Higher(o.start) IN
           /\ MemoryOK(list, (own \ {o}) \cup {Piece(b, o.length)}, pad)
           /\ b \in Nat \ {0} /\ \A q \in own \ {o} : q.start # b
  <1> DEFINE a == o.start
             n == o.length
             b == Higher(a)
             new == Piece(b, n)
             own2 == (own \ {o}) \cup {new}
  <1>1. own \subseteq Pieces /\ Whole(list) /\ Addressed(list, own, pad)
    BY DEF MemoryOK
  <1>2. a \in Nat \ {0} /\ n \in Nat \ {0} /\ o = Piece(a, n) /\ o.start = a /\ o.length = n
    BY <1>1 DEF Pieces, Piece
  <1>3. High \in Nat
    BY PagesAssumption
  <1> HIDE DEF a, n
  <1>4. CASE ~(a < High)
    <2>1. b = a /\ new = o /\ own2 = own
      BY <1>2, <1>4 DEF Higher
    <2>2. \A q \in own : q.start = a => q = o
      BY <1>2, OneByStart
    <2> QED
      BY <1>2, <2>1, <2>2, Zenon DEF a, n
  <1>5. CASE a < High
    <2>1. b = High + a /\ b \in Nat \ {0}
      BY <1>2, <1>3, <1>5 DEF Higher
    <2> HIDE DEF b
    <2>2. new \in Pieces /\ new.start = b /\ \A p : Within(new, p) <=> InPiece(p, b, n)
      BY <1>2, <2>1, PieceFacts
    <2> HIDE DEF new
    <2>3. \A p : Within(o, p) <=> InPiece(p, a, n)
      BY <1>2, PieceFacts
    <2>4. \A p : Within(o, p) => Used(list, own, pad, p)
      BY DEF Used
    <2>5. ~Used(list, own, pad, High)
      <3>1. \A q \in AllPages : q # High /\ High # High + q
        BY LowPages
      <3> QED
        BY <1>1, <3>1 DEF Addressed
    <2>6. \A p : Within(o, p) => p \in AllPages
      <3> SUFFICES ASSUME NEW p, Within(o, p) PROVE p \in AllPages
        OBVIOUS
      <3>1. p \in Nat /\ a <= p /\ p < a + n
        BY <2>3 DEF InPiece
      <3>2. ~(High <= p)
        <4> SUFFICES ASSUME High <= p PROVE FALSE
          OBVIOUS
        <4>1. InPiece(High, a, n)
          BY <1>2, <1>3, <1>5, <3>1 DEF InPiece
        <4> QED
          BY <2>3, <2>4, <2>5, <4>1
      <3>3. \A q \in AllPages : p # High + q
        BY <1>3, <3>1, <3>2, LowPages
      <3> QED
        BY <1>1, <2>4, <3>3 DEF Addressed
    <2>7. \A p : Within(new, p) <=> \E q : Within(o, q) /\ p = High + q
      <3> TAKE p
      <3>1. ASSUME Within(new, p) PROVE \E q : Within(o, q) /\ p = High + q
        <4>1. p \in Nat /\ b <= p /\ p < b + n
          BY <2>2, <3>1 DEF InPiece
        <4>2. InPiece(p - High, a, n) /\ p = High + (p - High)
          BY <1>2, <1>3, <2>1, <4>1 DEF InPiece
        <4> QED
          BY <2>3, <4>2
      <3>2. ASSUME NEW q, Within(o, q), p = High + q PROVE Within(new, p)
        <4>1. InPiece(q, a, n)
          BY <2>3, <3>2
        <4>2. InPiece(p, b, n)
          BY <1>2, <1>3, <2>1, <3>2, <4>1 DEF InPiece
        <4> QED
          BY <2>2, <4>2
      <3> QED
        BY <3>1, <3>2
    <2>8. \A p : Within(new, p) => ~Used(list, own, pad, p)
      BY <1>1, <2>4, <2>6, <2>7 DEF Addressed
    <2>9. \A p : Used(list, own2, pad, p) <=> (Used(list, own, pad, p) /\ ~Within(o, p)) \/ Within(new, p)
      <3> TAKE p
      <3>1. ASSUME Within(o, p) PROVE ~(p \in FreeIn(list)) /\ \A q \in own \ {o} : ~Within(q, p)
        BY <3>1 DEF MemoryOK
      <3>2. ASSUME Within(o, p) PROVE p \notin pad
        BY <3>2 DEF MemoryOK
      <3> QED
        BY <3>1, <3>2 DEF Used
    <2>10. \A p : Within(new, p) => p \notin FreeIn(list) /\ p \notin pad /\ \A q \in own : ~Within(q, p)
      BY <2>8 DEF Used
    <2> HIDE DEF own2
    <2>11. \A q : q \in own2 <=> (q \in own /\ q # o) \/ q = new
      BY DEF own2
    <2>12. own2 \subseteq Pieces
      BY <1>1, <2>2, <2>11
    <2>13. \A q \in own2 : \A p : Within(q, p) => p \notin FreeIn(list)
      BY <2>10, <2>11 DEF MemoryOK
    <2>14. \A q, e \in own2 : \A p : Within(q, p) /\ Within(e, p) => q = e
      BY <2>10, <2>11 DEF MemoryOK
    <2>15. \A p \in pad : p \notin FreeIn(list) /\ \A q \in own2 : ~Within(q, p)
      BY <2>10, <2>11 DEF MemoryOK
    <2>16. Addressed(list, own2, pad)
      <3> DEFINE U(p) == Used(list, own, pad, p)
                 V(p) == Used(list, own2, pad, p)
      <3>1. /\ \A p : U(p) => p \in AllPages \/ \E q \in AllPages : p = High + q
            /\ \A q \in AllPages : U(q) \/ U(High + q)
            /\ \A q \in AllPages : ~(U(q) /\ U(High + q))
        BY <1>1 DEF Addressed
      <3>2. \A p : V(p) <=> (U(p) /\ ~Within(o, p)) \/ Within(new, p)
        BY <2>9
      <3>3. \A q \in AllPages : Within(new, High + q) <=> Within(o, q)
        <4> TAKE q \in AllPages
        <4>1. \A e : Within(o, e) /\ High + q = High + e => e = q
          BY <1>3, <2>6, LowPages
        <4> QED
          BY <2>7, <4>1
      <3>4. \A q \in AllPages : ~Within(new, q) /\ ~Within(o, High + q)
        <4> TAKE q \in AllPages
        <4>1. \A e \in AllPages : q # High + e /\ High + q # e
          BY <1>3, LowPages
        <4> QED
          BY <2>6, <2>7, <4>1
      <3>5. \A p : Within(new, p) => \E q \in AllPages : p = High + q
        BY <2>6, <2>7
      <3>6. \A p : Within(o, p) => U(p)
        BY <2>4
      <3> HIDE DEF U, V
      <3>7. \A p : V(p) => p \in AllPages \/ \E q \in AllPages : p = High + q
        BY <3>1, <3>2, <3>5
      <3>8. \A q \in AllPages : V(q) \/ V(High + q)
        BY <3>1, <3>2, <3>3, <3>4, <3>6
      <3>9. \A q \in AllPages : ~(V(q) /\ V(High + q))
        BY <3>1, <3>2, <3>3, <3>4, <3>6
      <3> QED
        BY <3>7, <3>8, <3>9 DEF Addressed, V
    <2>17. \A q \in own \ {o} : q.start # b
      <3> SUFFICES ASSUME NEW q \in own, q.start = b PROVE FALSE
        OBVIOUS
      <3>1. q \in Pieces
        BY <1>1
      <3>2. Within(q, b)
        BY <3>1 DEF Pieces, Within, InPiece
      <3>3. Within(new, b)
        BY <1>2, <2>1, <2>2 DEF InPiece
      <3> QED
        BY <2>10, <3>2, <3>3
    <2>18. MemoryOK(list, own2, pad)
      BY <1>1, <2>12, <2>13, <2>14, <2>15, <2>16 DEF MemoryOK
    <2> QED
      BY <2>1, <2>17, <2>18 DEF a, n, b, new, own2
  <1> QED
    BY <1>4, <1>5 DEF a, n

-----------------------------------------------------------------------------
(* The record that the steps of the loader hand on. *)
Shaped(s) ==
    s = [regions |-> s.regions, owned |-> s.owned, slack |-> s.slack, modules |-> s.modules,
         module |-> s.module, torn |-> s.torn, fault |-> s.fault]

LEMMA StateFields ==
    /\ Shaped(State) /\ State.regions = regions /\ State.owned = owned /\ State.slack = slack
    /\ State.modules = modules /\ State.module = module /\ State.torn = seen.torn /\ State.fault = seen.fault
  BY DEF State, Shaped

(* Where xtAllocatePages says the pages are is a number. *)
LEMMA TakenNat ==
    ASSUME NEW s, NEW own, NEW pad, MemoryOK(s.regions, own, pad), NEW n \in Nat \ {0}
    PROVE  TakenAt(s, n) \in Nat
  <1> DEFINE list == s.regions
             k == Rounded(n)
             F == Fitting(list, k)
  <1>1. list \in Seq(Node)
    BY DEF MemoryOK, Whole
  <1>2. CASE F = {}
    BY <1>2 DEF TakenAt, xtAllocatePages, Nowhere
  <1>3. CASE F # {}
    <2>1. TakenAt(s, n) = list[Min(F)].start
      BY <1>3 DEF TakenAt, xtAllocatePages
    <2>2. F \subseteq 1..Len(list) /\ F \subseteq Nat
      BY <1>1 DEF Fitting
    <2> HIDE DEF F
    <2>3. Min(F) \in F
      BY <1>3, <2>2, LeastOfNaturals
    <2> QED
      BY <1>1, <2>1, <2>2, <2>3, NodeFields
  <1> QED
    BY <1>2, <1>3

(* Take: what it hands out is new, and what was owned stays. *)
LEMMA TakeStep ==
    ASSUME NEW s, Shaped(s), MemoryOK(s.regions, s.owned, s.slack), NEW n \in Nat \ {0}, s.fault \in {0, 1}
    PROVE  LET t == Take(s, n)
               a == TakenAt(s, n) IN
           /\ Shaped(t) /\ MemoryOK(t.regions, t.owned, t.slack)
           /\ t.modules = s.modules /\ t.module = s.module /\ t.torn = s.torn
           /\ s.owned \subseteq t.owned /\ t.fault \in {0, 1} /\ (t.fault = 0 => s.fault = 0)
           /\ AllLinked(t.regions) => AllLinked(s.regions)
           /\ AllLinked(s.regions) /\ t.fault = 0 => a # Nowhere
           /\ AllLinked(s.regions) /\ a # Nowhere =>
                 a \in Nat \ {0} /\ Piece(a, n) \in t.owned /\ \A o \in s.owned : o.start # a
  <1> DEFINE t == Take(s, n)
             x == xtAllocatePages(s.regions, n)
             a == TakenAt(s, n)
  <1>0. a = x.start
    BY DEF TakenAt
  <1>1. CASE ~AllLinked(s.regions)
    BY <1>1 DEF Take
  <1>2. CASE AllLinked(s.regions) /\ x.start = Nowhere
    <2>1. t = [s EXCEPT !.fault = 1]
      BY <1>2 DEF Take
    <2>2. t = [regions |-> s.regions, owned |-> s.owned, slack |-> s.slack, modules |-> s.modules,
               module |-> s.module, torn |-> s.torn, fault |-> 1]
      BY <2>1 DEF Shaped
    <2> HIDE DEF t, x, a
    <2> QED
      BY <1>0, <1>2, <2>2 DEF Shaped, t, a
  <1>3. CASE AllLinked(s.regions) /\ x.start # Nowhere
    <2>1. /\ MemoryOK(x.regions, s.owned \cup {Piece(x.start, n)}, s.slack \cup Padding(x.start, n))
          /\ x.start \in Nat \ {0} /\ \A o \in s.owned : o.start # x.start
      BY <1>3, TakeMemory
    <2>2. t = [s EXCEPT !.regions = x.regions, !.owned = @ \cup {Piece(x.start, n)},
                        !.slack = @ \cup Padding(x.start, n)]
      BY <1>3 DEF Take
    <2> HIDE DEF x
    <2>3. t = [regions |-> x.regions, owned |-> s.owned \cup {Piece(x.start, n)},
               slack |-> s.slack \cup Padding(x.start, n), modules |-> s.modules,
               module |-> s.module, torn |-> s.torn, fault |-> s.fault]
      BY <2>2 DEF Shaped
    <2> HIDE DEF t, a
    <2> QED
      BY <1>0, <1>3, <2>1, <2>3 DEF Shaped, t, a
  <1> QED
    BY <1>1, <1>2, <1>3

(* TakeStack: the same, and what it hands out goes by its address in the higher half. *)
LEMMA TakeStackStep ==
    ASSUME NEW s, Shaped(s), MemoryOK(s.regions, s.owned, s.slack), s.fault \in {0, 1}, StackPages \in Nat \ {0}
    PROVE  LET t == TakeStack(s)
               b == Higher(TakenAt(s, StackPages)) IN
           /\ Shaped(t) /\ MemoryOK(t.regions, t.owned, t.slack) /\ b \in Nat
           /\ t.modules = s.modules /\ t.module = s.module /\ t.torn = s.torn
           /\ s.owned \subseteq t.owned /\ t.fault \in {0, 1} /\ (t.fault = 0 => s.fault = 0)
           /\ AllLinked(t.regions) => AllLinked(s.regions)
           /\ AllLinked(s.regions) /\ t.fault = 0 =>
                 b \in Nat \ {0} /\ Piece(b, StackPages) \in t.owned /\ \A o \in s.owned : o.start # b
  <1> DEFINE t == TakeStack(s)
             x == Take(s, StackPages)
             a == TakenAt(s, StackPages)
             b == Higher(a)
  <1>1. /\ Shaped(x) /\ MemoryOK(x.regions, x.owned, x.slack)
        /\ x.modules = s.modules /\ x.module = s.module /\ x.torn = s.torn
        /\ s.owned \subseteq x.owned /\ x.fault \in {0, 1} /\ (x.fault = 0 => s.fault = 0)
        /\ AllLinked(x.regions) => AllLinked(s.regions)
        /\ AllLinked(s.regions) /\ x.fault = 0 => a # Nowhere
        /\ AllLinked(s.regions) /\ a # Nowhere =>
              a \in Nat \ {0} /\ Piece(a, StackPages) \in x.owned /\ \A o \in s.owned : o.start # a
    BY TakeStep
  <1>2. a \in Nat /\ b \in Nat
    <2>1. a \in Nat
      BY TakenNat
    <2> HIDE DEF a
    <2> QED
      BY <2>1, PagesAssumption DEF Higher
  <1>3. t = IF ~AllLinked(s.regions) \/ a = Nowhere THEN x
            ELSE [x EXCEPT !.owned = (x.owned \ {Piece(a, StackPages)}) \cup {Piece(b, StackPages)}]
    BY DEF TakeStack
  <1> HIDE DEF t, x, a
  <1>4. CASE ~AllLinked(s.regions) \/ a = Nowhere
    BY <1>1, <1>2, <1>3, <1>4 DEF t, x, a
  <1>5. CASE AllLinked(s.regions) /\ a # Nowhere
    <2> DEFINE o == Piece(a, StackPages)
               own == (x.owned \ {o}) \cup {Piece(b, StackPages)}
    <2>1. o.start = a /\ o.length = StackPages /\ o \in x.owned
      BY <1>1, <1>5 DEF Piece
    <2>2. t = [x EXCEPT !.owned = own]
      BY <1>3, <1>5
    <2> HIDE DEF o
    <2>3. MemoryOK(x.regions, own, x.slack) /\ b \in Nat \ {0} /\ \A q \in x.owned \ {o} : q.start # b
      BY <1>1, <2>1, RenameMemory
    <2>4. s.owned \subseteq x.owned \ {o}
      BY <1>1, <1>5, <2>1
    <2>5. s.owned \subseteq own /\ Piece(b, StackPages) \in own /\ \A q \in s.owned : q.start # b
      BY <2>3, <2>4
    <2> HIDE DEF own, b
    <2>6. t = [regions |-> x.regions, owned |-> own, slack |-> x.slack, modules |-> x.modules,
               module |-> x.module, torn |-> x.torn, fault |-> x.fault]
      BY <1>1, <2>2 DEF Shaped
    <2>7. Shaped(t) /\ t.owned = own /\ t.regions = x.regions /\ t.slack = x.slack /\ t.modules = x.modules
          /\ t.module = x.module /\ t.torn = x.torn /\ t.fault = x.fault
      BY <2>6 DEF Shaped
    <2> QED
      BY <1>1, <1>2, <2>3, <2>5, <2>7 DEF t, x, a, b
  <1> QED
    BY <1>4, <1>5

(* Give: of what is owned only that piece changes. *)
LEMMA GiveStep ==
    ASSUME NEW s, Shaped(s), MemoryOK(s.regions, s.owned, s.slack), NEW o \in s.owned,
           NEW k \in Nat \ {0}, k <= o.length
    PROVE  LET t == Give(s, Piece(o.start, k)) IN
           /\ Shaped(t) /\ MemoryOK(t.regions, t.owned, t.slack)
           /\ t.modules = s.modules /\ t.module = s.module /\ t.torn = s.torn /\ t.fault = s.fault
           /\ AllLinked(t.regions) => AllLinked(s.regions)
           /\ \A q \in s.owned : q.start # o.start => q \in t.owned
  <1> DEFINE piece == Piece(o.start, k)
             t == Give(s, piece)
  <1>1. CASE ~AllLinked(s.regions)
    BY <1>1 DEF Give
  <1>2. CASE AllLinked(s.regions)
    <2>1. piece.start = o.start /\ piece.length = k
      BY DEF Piece
    <2>2. /\ MemoryOK(xtFreePages(s.regions, o.start, k), Handed(s.owned, piece), s.slack)
          /\ \A q \in s.owned : q.start # o.start => q \in Handed(s.owned, piece)
      BY <1>2, GiveMemory
    <2> HIDE DEF piece
    <2>3. t = [s EXCEPT !.regions = xtFreePages(s.regions, piece.start, piece.length),
                        !.owned = Handed(s.owned, piece)]
      BY <1>2 DEF Give, Handed
    <2>4. t = [regions |-> xtFreePages(s.regions, o.start, k), owned |-> Handed(s.owned, piece),
               slack |-> s.slack, modules |-> s.modules,
               module |-> s.module, torn |-> s.torn, fault |-> s.fault]
      BY <2>1, <2>3 DEF Shaped
    <2> HIDE DEF t
    <2> QED
      BY <1>2, <2>2, <2>4 DEF Shaped, t, piece
  <1> QED
    BY <1>1, <1>2

-----------------------------------------------------------------------------
(***************************************************************************)
(* The loader.  First what the variables hold, and what a thread has at    *)
(* each of its steps.                                                      *)
(***************************************************************************)
ModuleRec == [file : Files \cup {Kernel}, image : Nat, count : Nat, relocated : {0, 1},
              relocation : Seq(Bases \cup {Kernel}), freed : {0, 1}]
RunRec == [pc : {"idle", "count", "append", "map", "relocate", "start"}, file : Files \cup {Kernel}, found : Nat,
           module : Nat, image : Nat, base : Bases \cup {Kernel}]
MapRec == [start : Nat, length : Nat]
ProcessRec == [memoryMap : Seq(MapRec), stacks : Seq(MapRec), module : Nat, base : Bases \cup {Kernel},
               data : Seq(Bases \cup {Kernel}), ended : {0, 1}]
CallRec == [file : Files, found : Nat, module : Nat, image : Nat, imports : Seq(Files), failed : {0, 1}]
SeenRec == [raced : {0, 1}, failed : {0, 1}, late : {0, 1}, torn : SUBSET Nat, fault : {0, 1}]

Known(m) == m = NoModule \/ (m \in DOMAIN module /\ module[m].file \in Files)

Stepping(l) ==
    /\ run[l].pc = "idle" => run[l].module = NoModule
    /\ run[l].pc = "count" => /\ run[l].module = NoModule /\ process[l].module = NoModule
                              /\ run[l].found # NoModule /\ Known(run[l].found)
    /\ run[l].pc = "append" => /\ run[l].module = NoModule /\ process[l].module = NoModule
                               /\ run[l].file \in Files
    /\ run[l].pc = "map" => run[l].module # NoModule /\ process[l].module = NoModule
    /\ run[l].pc \in {"relocate", "start"} => /\ run[l].module # NoModule /\ process[l].module = run[l].module
                                              /\ process[l].base = run[l].base /\ run[l].base \in Bases
    /\ process[l].module = NoModule => process[l].memoryMap = <<>>

Calling(i) == loading[i].module = NoModule =>
    i = Len(loading) /\ loading[i].failed = 0 /\ Known(loading[i].found)

ModulesShape ==
    /\ module \in Seq(ModuleRec) /\ modules \in Seq(1..Len(module))
    /\ seen \in SeenRec /\ seen.torn \subseteq DOMAIN module
RunnersShape ==
    /\ run \in [Runners -> RunRec] /\ process \in [Runners -> ProcessRec]
    /\ \A l \in Runners : Known(run[l].module) /\ Known(process[l].module) /\ Stepping(l)
CallsShape ==
    /\ loading \in Seq(CallRec)
    /\ \A i \in DOMAIN loading : Known(loading[i].module) /\ Calling(i)
Shape == ModulesShape /\ RunnersShape /\ CallsShape

(* The references: the users and the loads in progress have one each. *)
Counted ==
    \A m \in DOMAIN module :
        /\ module[m].count >= Cardinality(Users(m)) + Cardinality(Loads(m))
        /\ seen.late = 0 /\ module[m].freed = 1 => Users(m) = {} /\ Loads(m) = {}

(* The list: until a load fails every module is on it. *)
Listed ==
    /\ seen.failed = 0 => \A m \in DOMAIN module : \E i \in DOMAIN modules : modules[i] = m
    /\ OneImagePerFile

(***************************************************************************)
(* The relocation of an image: for the kernel once, by its flag.  What a   *)
(* process has of the data is where the image's was.                       *)
(***************************************************************************)
Moves(m) == {i \in DOMAIN module[m].relocation : module[m].relocation[i] = Kernel}
Moved(m) == (module[m].relocated = 0 => Moves(m) = {}) /\ Cardinality(Moves(m)) <= 1
Behind(data, code, done) ==
    /\ Len(data) <= Len(code) /\ \A i \in 1..Len(data) : code[i] = data[i]
    /\ done => Len(data) < Len(code)
Lags(l) == process[l].module # NoModule =>
    Behind(process[l].data, module[process[l].module].relocation, run[l].pc # "relocate")
Relocated == (\A m \in DOMAIN module : Moved(m)) /\ \A l \in Runners : Lags(l)

(***************************************************************************)
(* Who has the pieces of memory: a function from their first pages.        *)
(***************************************************************************)
Has(role, a, n, who) == a \in Nat /\ Piece(a, n) \in owned /\ role[a] = who
ModuleHas(role, m) ==
    module[m].file \in Files /\ module[m].freed = 0 /\ m \notin seen.torn =>
        Has(role, module[m].image, ImagePages, <<"module", m>>)
RunHas(role, l) ==
    run[l].pc = "append" => Has(role, run[l].image, ImagePages, <<"run", l>>)
LoadHas(role, i) ==
    loading[i].module = NoModule /\ loading[i].found = NoModule =>
        Has(role, loading[i].image, ImagePages, <<"load", 0>>)
ProcessHas(role, l) ==
    process[l].module # NoModule =>
        LET map == process[l].memoryMap IN
        /\ Len(map) >= 2 /\ map[1] = Piece(module[process[l].module].image, CodePages)
        /\ map[2] = Piece(map[2].start, DataPages) /\ Has(role, map[2].start, DataPages, <<"data", l>>)
        /\ Len(map) = IF run[l].pc = "idle" THEN 3 ELSE 2
        /\ run[l].pc = "idle" => map[3] = Piece(map[3].start, 1) /\ Has(role, map[3].start, 1, <<"args", l>>)
StackHas(role, l) ==
    process[l].module # NoModule /\ run[l].pc = "idle" =>
        /\ process[l].stacks[1] = Piece(process[l].stacks[1].start, StackPages)
        /\ Has(role, process[l].stacks[1].start, StackPages, <<"stack", l>>)
Roles == {"module", "run", "load", "data", "args", "stack"} \X (Nat \cup Runners)
Claims(role) ==
    /\ role \in [Nat -> Roles]
    /\ \A m \in DOMAIN module : ModuleHas(role, m)
    /\ \A i \in DOMAIN loading : LoadHas(role, i)
    /\ \A l \in Runners : RunHas(role, l) /\ ProcessHas(role, l)
    /\ AllLinked(regions) => \A l \in Runners : StackHas(role, l)

MemoryInv ==
    /\ MemoryOK(regions, owned, slack)
    /\ seen.fault = 0 => \E role : Claims(role)

LoaderInv == Shape /\ Counted /\ Listed /\ Relocated /\ MemoryInv

-----------------------------------------------------------------------------
(* The fields of the records. *)
LEMMA ModuleFields ==
    ASSUME NEW r \in ModuleRec
    PROVE  /\ r.file \in Files \cup {Kernel} /\ r.image \in Nat /\ r.count \in Nat /\ r.relocated \in {0, 1}
           /\ r.relocation \in Seq(Bases \cup {Kernel}) /\ r.freed \in {0, 1}
  BY DEF ModuleRec

LEMMA RunFields ==
    ASSUME NEW r \in RunRec
    PROVE  /\ r.pc \in {"idle", "count", "append", "map", "relocate", "start"} /\ r.file \in Files \cup {Kernel}
           /\ r.found \in Nat /\ r.module \in Nat /\ r.image \in Nat /\ r.base \in Bases \cup {Kernel}
  BY DEF RunRec

LEMMA ProcessFields ==
    ASSUME NEW r \in ProcessRec
    PROVE  /\ r.memoryMap \in Seq(MapRec) /\ r.stacks \in Seq(MapRec) /\ r.module \in Nat
           /\ r.base \in Bases \cup {Kernel} /\ r.data \in Seq(Bases \cup {Kernel}) /\ r.ended \in {0, 1}
  BY DEF ProcessRec

LEMMA CallFields ==
    ASSUME NEW r \in CallRec
    PROVE  /\ r.file \in Files /\ r.found \in Nat /\ r.module \in Nat /\ r.image \in Nat
           /\ r.imports \in Seq(Files) /\ r.failed \in {0, 1}
  BY DEF CallRec

LEMMA SeenFields ==
    ASSUME NEW r \in SeenRec
    PROVE  /\ r.raced \in {0, 1} /\ r.failed \in {0, 1} /\ r.late \in {0, 1}
           /\ r.torn \in SUBSET Nat /\ r.fault \in {0, 1}
  BY DEF SeenRec

(* What the assignments to a module's record change. *)
LEMMA CountSet ==
    ASSUME NEW r \in ModuleRec, NEW c \in Nat
    PROVE  LET x == [r EXCEPT !.count = c] IN
           /\ x \in ModuleRec /\ x.count = c /\ x.file = r.file /\ x.image = r.image /\ x.relocated = r.relocated
           /\ x.relocation = r.relocation /\ x.freed = r.freed
  BY DEF ModuleRec

LEMMA RelocationSet ==
    ASSUME NEW r \in ModuleRec, NEW c \in Seq(Bases \cup {Kernel})
    PROVE  LET x == [r EXCEPT !.relocation = c] IN
           /\ x \in ModuleRec /\ x.relocation = c /\ x.file = r.file /\ x.image = r.image /\ x.count = r.count
           /\ x.relocated = r.relocated /\ x.freed = r.freed
  BY DEF ModuleRec

LEMMA RelocatedSet ==
    ASSUME NEW r \in ModuleRec
    PROVE  LET x == [r EXCEPT !.relocated = 1] IN
           /\ x \in ModuleRec /\ x.relocated = 1 /\ x.file = r.file /\ x.image = r.image /\ x.count = r.count
           /\ x.relocation = r.relocation /\ x.freed = r.freed
  BY DEF ModuleRec

LEMMA FreedSet ==
    ASSUME NEW r \in ModuleRec
    PROVE  LET x == [r EXCEPT !.freed = 1] IN
           /\ x \in ModuleRec /\ x.freed = 1 /\ x.file = r.file /\ x.image = r.image /\ x.count = r.count
           /\ x.relocation = r.relocation /\ x.relocated = r.relocated
  BY DEF ModuleRec

(* The constants. *)
LEMMA Sizes ==
    /\ ImagePages \in Nat \ {0} /\ CodePages \in Nat \ {0} /\ DataPages \in Nat \ {0} /\ StackPages \in Nat \ {0}
    /\ CodePages <= ImagePages /\ Kernel \notin Files /\ Kernel \notin Bases
  BY LoaderAssumption DEF ImagePages

(* A record of the loader's state with other modules. *)
LEMMA ModuleSet ==
    ASSUME NEW s, Shaped(s), NEW ms
    PROVE  LET t == [s EXCEPT !.module = ms] IN
           /\ Shaped(t) /\ t.module = ms /\ t.regions = s.regions /\ t.owned = s.owned /\ t.slack = s.slack
           /\ t.modules = s.modules /\ t.torn = s.torn /\ t.fault = s.fault
  <1> DEFINE t == [s EXCEPT !.module = ms]
  <1>1. t = [regions |-> s.regions, owned |-> s.owned, slack |-> s.slack, modules |-> s.modules,
             module |-> ms, torn |-> s.torn, fault |-> s.fault]
    BY DEF Shaped
  <1> HIDE DEF t
  <1> QED
    BY <1>1 DEF Shaped, t

(* xtIncrementReference *)
LEMMA IncrementStep ==
    ASSUME NEW s, Shaped(s), NEW m \in DOMAIN s.module
    PROVE  LET t == xtIncrementReference(s, m) IN
           /\ t.module = [s.module EXCEPT ![m] = [s.module[m] EXCEPT !.count = s.module[m].count + 1]]
           /\ t.regions = s.regions /\ t.owned = s.owned /\ t.slack = s.slack
           /\ t.modules = s.modules /\ t.torn = s.torn /\ t.fault = s.fault
  <1> DEFINE ms == [s.module EXCEPT ![m] = [s.module[m] EXCEPT !.count = s.module[m].count + 1]]
  <1>1. xtIncrementReference(s, m) = [s EXCEPT !.module = ms]
    BY DEF xtIncrementReference
  <1> HIDE DEF ms
  <1> QED
    BY <1>1, ModuleSet DEF ms

(* AppendModule *)
NewRecord(f, image, flag) == [file |-> f, image |-> image, count |-> 1, relocated |-> flag,
                              relocation |-> <<>>, freed |-> 0]

LEMMA AppendStep ==
    ASSUME NEW s, Shaped(s), NEW f, NEW image, NEW flag
    PROVE  LET t == AppendModule(s, f, image, flag) IN
           /\ t.module = Append(s.module, NewRecord(f, image, flag))
           /\ t.modules = Append(s.modules, Len(s.module) + 1)
           /\ t.regions = s.regions /\ t.owned = s.owned /\ t.slack = s.slack
  <1> DEFINE ms == Append(s.module, NewRecord(f, image, flag))
             ns == Append(s.modules, Len(s.module) + 1)
             t == AppendModule(s, f, image, flag)
  <1>1. t = [s EXCEPT !.module = ms, !.modules = ns]
    BY DEF AppendModule, NewRecord
  <1> HIDE DEF ms, ns
  <1>2. t = [regions |-> s.regions, owned |-> s.owned, slack |-> s.slack, modules |-> ns,
             module |-> ms, torn |-> s.torn, fault |-> s.fault]
    BY <1>1 DEF Shaped
  <1> HIDE DEF t
  <1> QED
    BY <1>2 DEF ms, ns, t

(* ApplyRelocations *)
LEMMA RelocationStep ==
    ASSUME NEW s, Shaped(s), NEW m \in DOMAIN s.module, NEW b
    PROVE  LET t == ApplyRelocations(s, m, b) IN
           /\ Shaped(t)
           /\ t.module = [s.module EXCEPT ![m] = [s.module[m] EXCEPT !.relocation = Append(s.module[m].relocation, b)]]
           /\ t.regions = s.regions /\ t.owned = s.owned /\ t.slack = s.slack
           /\ t.modules = s.modules /\ t.torn = s.torn /\ t.fault = s.fault
  <1> DEFINE ms == [s.module EXCEPT ![m] = [s.module[m] EXCEPT !.relocation = Append(s.module[m].relocation, b)]]
             t == ApplyRelocations(s, m, b)
  <1>1. t = [s EXCEPT !.module = ms]
    BY DEF ApplyRelocations, AddBase
  <1> HIDE DEF ms, t
  <1>2. /\ Shaped(t) /\ t.module = ms /\ t.regions = s.regions /\ t.owned = s.owned /\ t.slack = s.slack
        /\ t.modules = s.modules /\ t.torn = s.torn /\ t.fault = s.fault
    BY <1>1, ModuleSet
  <1> QED
    BY <1>2 DEF ms, t

(* Settle: what is not relocated is, and the flags are set. *)
LEMMA SettleStep ==
    ASSUME NEW s, Shaped(s), s.module \in Seq(ModuleRec), NEW m \in DOMAIN s.module
    PROVE  LET t == Settle(s, m)
               r == s.module[m] IN
           /\ t.regions = s.regions /\ t.owned = s.owned /\ t.slack = s.slack
           /\ t.modules = s.modules /\ t.torn = s.torn /\ t.fault = s.fault
           /\ \E x \in ModuleRec :
                 /\ t.module = [s.module EXCEPT ![m] = x]
                 /\ x.file = r.file /\ x.image = r.image /\ x.count = r.count /\ x.freed = r.freed
                 /\ x.relocated = 1
                 /\ x.relocation = IF r.relocated = 0 THEN Append(r.relocation, Kernel) ELSE r.relocation
  <1> DEFINE t == Settle(s, m)
             r == s.module[m]
             moved == IF Relocates(r) THEN ApplyRelocations(s, m, Kernel) ELSE s
             q == IF r.relocated = 0 THEN Append(r.relocation, Kernel) ELSE r.relocation
             y == [r EXCEPT !.relocation = q]
             x == [y EXCEPT !.relocated = 1]
  <1>1. r \in ModuleRec
    OBVIOUS
  <1>2. q \in Seq(Bases \cup {Kernel})
    BY <1>1, ModuleFields
  <1>3. /\ x \in ModuleRec /\ x.relocation = q /\ x.file = r.file /\ x.image = r.image /\ x.count = r.count
        /\ x.relocated = 1 /\ x.freed = r.freed
    <2> HIDE DEF q
    <2>1. /\ y \in ModuleRec /\ y.relocation = q /\ y.file = r.file /\ y.image = r.image /\ y.count = r.count
          /\ y.freed = r.freed
      BY <1>1, <1>2, RelocationSet
    <2> HIDE DEF y
    <2> QED
      BY <2>1, RelocatedSet
  <1>4. /\ Shaped(moved) /\ moved.module = [s.module EXCEPT ![m] = y]
        /\ moved.regions = s.regions /\ moved.owned = s.owned /\ moved.slack = s.slack
        /\ moved.modules = s.modules /\ moved.torn = s.torn /\ moved.fault = s.fault
    <2>1. CASE r.relocated = 0
      <3>1. moved = ApplyRelocations(s, m, Kernel) /\ y = [r EXCEPT !.relocation = Append(r.relocation, Kernel)]
        BY <2>1 DEF Relocates
      <3> HIDE DEF moved, y
      <3> QED
        BY <3>1, RelocationStep
    <2>2. CASE r.relocated # 0
      <3>1. moved = s
        BY <2>2 DEF Relocates
      <3>2. y = r
        BY <1>1, <2>2 DEF ModuleRec
      <3>3. [s.module EXCEPT ![m] = r] = s.module
        OBVIOUS
      <3> HIDE DEF moved, y
      <3> QED
        BY <3>1, <3>2, <3>3
    <2> QED
      BY <2>1, <2>2
  <1>5. t = [moved EXCEPT !.module[m].relocated = 1]
    BY DEF Settle
  <1> HIDE DEF moved, t
  <1> DEFINE ms == [s.module EXCEPT ![m] = x]
  <1>6. t = [moved EXCEPT !.module = ms]
    <2>1. [[s.module EXCEPT ![m] = y] EXCEPT ![m].relocated = 1] = ms
      <3> HIDE DEF y
      <3> QED
        OBVIOUS
    <2>2. t = [moved EXCEPT !.module = [moved.module EXCEPT ![m].relocated = 1]]
      BY <1>5
    <2> HIDE DEF y, x
    <2> QED
      BY <1>4, <2>1, <2>2
  <1> HIDE DEF x, q, ms
  <1>7. /\ t.module = ms /\ t.regions = s.regions /\ t.owned = s.owned /\ t.slack = s.slack
        /\ t.modules = s.modules /\ t.torn = s.torn /\ t.fault = s.fault
    BY <1>4, <1>6, ModuleSet
  <1> QED
    BY <1>3, <1>7 DEF ms, q, t

(* xtFindModuleList gives a node of the list or none. *)
LEMMA FindStep ==
    ASSUME NEW s, NEW n \in Nat, s.modules \in Seq(1..n), NEW f
    PROVE  LET i == xtFindModuleList(s, f) IN
           /\ i = 0 \/ (i \in DOMAIN s.modules /\ s.module[s.modules[i]].file = f)
           /\ i = 0 => \A j \in DOMAIN s.modules : s.module[s.modules[j]].file # f
           /\ DOMAIN s.modules = 1..Len(s.modules) /\ Len(s.modules) \in Nat
  <1> DEFINE N == Named(s, f)
             i == xtFindModuleList(s, f)
  <1>1. DOMAIN s.modules = 1..Len(s.modules) /\ Len(s.modules) \in Nat
    OBVIOUS
  <1>2. N \subseteq DOMAIN s.modules /\ N \subseteq Nat
    BY <1>1 DEF Named
  <1>3. i = IF N = {} THEN 0 ELSE Min(N)
    BY DEF xtFindModuleList
  <1>4. \A j \in DOMAIN s.modules : j \in N <=> s.module[s.modules[j]].file = f
    BY DEF Named
  <1> HIDE DEF N, i
  <1>5. N # {} => i \in N
    BY <1>2, <1>3, LeastOfNaturals
  <1>6. N # {} => i # 0
    BY <1>1, <1>2, <1>5
  <1> QED
    BY <1>1, <1>2, <1>3, <1>4, <1>5, <1>6 DEF i

(* xtDecrementReference: the last reference frees the module and its image. *)
Decremented(s, m, t) ==
    /\ MemoryOK(t.regions, t.owned, t.slack) /\ t.modules \in Seq(1..Len(s.module))
    /\ t.torn = s.torn /\ t.fault \in {0, 1}
    /\ \A q \in s.owned : s.module[m].count # 1 \/ q.start # s.module[m].image => q \in t.owned
    /\ AllLinked(t.regions) => AllLinked(s.regions)
    /\ \E x \in ModuleRec :
          /\ t.module = [s.module EXCEPT ![m] = x]
          /\ x.file = s.module[m].file /\ x.image = s.module[m].image /\ x.relocated = s.module[m].relocated
          /\ x.relocation = s.module[m].relocation /\ x.count = s.module[m].count - 1
          /\ x.freed = IF s.module[m].count = 1 THEN 1 ELSE s.module[m].freed

LEMMA DecrementStep ==
    ASSUME NEW s, Shaped(s), s.module \in Seq(ModuleRec), s.modules \in Seq(1..Len(s.module)),
           NEW m \in DOMAIN s.module, s.module[m].count >= 1, s.fault \in {0, 1},
           MemoryOK(s.regions, s.owned, s.slack),
           s.module[m].count = 1 => Piece(s.module[m].image, ImagePages) \in s.owned, NEW detached \in BOOLEAN
    PROVE  Decremented(s, m, xtDecrementReference(s, m, detached))
  <1> DEFINE t == xtDecrementReference(s, m, detached)
             r == s.module[m]
             y == [r EXCEPT !.count = r.count - 1]
             ms == [s.module EXCEPT ![m] = y]
             one == [s EXCEPT !.module = ms]
             c == r.count - 1
  <1>1. r \in ModuleRec /\ r.count \in Nat \ {0} /\ r.image \in Nat /\ c \in Nat
    BY ModuleFields
  <1>2. /\ y \in ModuleRec /\ y.count = r.count - 1 /\ y.file = r.file /\ y.image = r.image
        /\ y.relocated = r.relocated /\ y.relocation = r.relocation /\ y.freed = r.freed
    <2> HIDE DEF c, r
    <2>1. y = [r EXCEPT !.count = c]
      BY DEF c
    <2> HIDE DEF y
    <2> QED
      BY <1>1, <2>1, CountSet DEF c
  <1>3. [s EXCEPT !.module[m].count = @ - 1] = one
    OBVIOUS
  <1>4. ms[m] = y /\ DOMAIN ms = DOMAIN s.module
    OBVIOUS
  <1> DEFINE done == IF detached THEN xtFreeModuleInternal(one, m) ELSE one
  <1>5. t = IF one.module[m].count = 0 THEN [done EXCEPT !.module[m].freed = 1] ELSE one
    BY <1>3 DEF xtDecrementReference, Unused
  <1> HIDE DEF one
  <1>6. /\ Shaped(one) /\ one.module = ms /\ one.regions = s.regions /\ one.owned = s.owned /\ one.slack = s.slack
        /\ one.modules = s.modules /\ one.torn = s.torn /\ one.fault = s.fault
    <2> HIDE DEF ms
    <2> QED
      BY ModuleSet DEF one
  <1>7. one.module[m].count = r.count - 1
    BY <1>2, <1>4, <1>6
  <1> HIDE DEF t, done
  <1>8. CASE r.count # 1
    <2>1. t = one
      BY <1>1, <1>5, <1>7, <1>8
    <2> HIDE DEF y
    <2>2. y.freed = IF r.count = 1 THEN 1 ELSE r.freed
      BY <1>2, <1>8
    <2> QED
      BY <1>2, <1>6, <1>8, <2>1, <2>2 DEF t, Decremented
  <1>9. CASE r.count = 1
    <2> DEFINE i == xtFindModuleList(one, one.module[m].file)
               piece == Piece(one.module[m].image, ImagePages)
               g == Give(one, piece)
               x == [y EXCEPT !.freed = 1]
               mx == [s.module EXCEPT ![m] = x]
               ns == IF i = 0 THEN s.modules ELSE xtRemoveFromList(s.modules, i)
               e == IF Dangles(s.modules, i) THEN 1 ELSE s.fault
    <2>1. /\ x \in ModuleRec /\ x.count = r.count - 1 /\ x.file = r.file /\ x.image = r.image
          /\ x.relocated = r.relocated /\ x.relocation = r.relocation /\ x.freed = 1
      <3> HIDE DEF y
      <3> QED
        BY <1>2, FreedSet
    <2>2. piece = Piece(r.image, ImagePages) /\ piece \in s.owned /\ piece.start = r.image /\ piece.length = ImagePages
      BY <1>2, <1>4, <1>6, <1>9 DEF Piece
    <2>3. piece = Piece(piece.start, ImagePages)
      BY <2>2
    <2> HIDE DEF piece, x
    <2>4. /\ Shaped(g) /\ MemoryOK(g.regions, g.owned, g.slack)
          /\ g.modules = s.modules /\ g.module = ms /\ g.torn = s.torn /\ g.fault = s.fault
          /\ AllLinked(g.regions) => AllLinked(s.regions)
          /\ \A q \in s.owned : q.start # piece.start => q \in g.owned
      BY <1>6, <2>2, <2>3, GiveStep, Sizes
    <2>5. t = [done EXCEPT !.module = [done.module EXCEPT ![m].freed = 1]]
      BY <1>5, <1>7, <1>9
    <2> HIDE DEF g
    <2>6. [ms EXCEPT ![m].freed = 1] = mx
      BY <1>4 DEF x
    <2>14. CASE ~detached
      <3>1. done = one
        BY <2>14 DEF done
      <3> HIDE DEF mx
      <3>2. t = [one EXCEPT !.module = mx]
        BY <1>6, <2>5, <2>6, <3>1
      <3>3. /\ t.module = mx /\ t.regions = s.regions /\ t.owned = s.owned /\ t.slack = s.slack
            /\ t.modules = s.modules /\ t.torn = s.torn /\ t.fault = s.fault
        BY <1>6, <3>2, ModuleSet
      <3>4. x.freed = IF r.count = 1 THEN 1 ELSE r.freed
        BY <1>9, <2>1
      <3> QED
        BY <2>1, <3>3, <3>4 DEF t, mx, Decremented
    <2> SUFFICES ASSUME detached PROVE Decremented(s, m, t)
      BY <2>14 DEF t
    <2>7. i = 0 \/ i \in 1..Len(s.modules)
      <3>1. one.modules \in Seq(1..Len(s.module)) /\ Len(s.module) \in Nat
        BY <1>6
      <3> QED
        BY <1>6, <3>1, FindStep
    <2> HIDE DEF i, ms, mx
    <2>15. done = [g EXCEPT !.modules = ns, !.fault = e]
      <3>1. done = [g EXCEPT !.modules = IF i = 0 THEN @ ELSE xtRemoveFromList(@, i),
                             !.fault = IF Dangles(one.modules, i) THEN 1 ELSE @]
        BY DEF done, xtFreeModuleInternal, piece, i, g
      <3> QED
        BY <1>6, <2>4, <3>1
    <2>16. done.module = ms
      BY <2>4, <2>15 DEF Shaped
    <2>8. t = [[g EXCEPT !.modules = ns, !.fault = e] EXCEPT !.module = mx]
      BY <2>5, <2>6, <2>15, <2>16
    <2>9. ns \in Seq(1..Len(s.module))
      <3>1. CASE i = 0
        BY <3>1
      <3>2. CASE i # 0 /\ Victim(i) > Len(s.modules)
        BY <3>2 DEF xtRemoveFromList
      <3>3. CASE i # 0 /\ ~(Victim(i) > Len(s.modules))
        <4>1. Victim(i) \in 1..Len(s.modules)
          BY <3>3 DEF Victim
        <4>2. ns = RemoveAt(s.modules, Victim(i))
          BY <3>3 DEF xtRemoveFromList
        <4> HIDE DEF ns
        <4> QED
          BY <4>1, <4>2, OneLess
      <3> QED
        BY <3>1, <3>2, <3>3
    <2>10. e \in {0, 1} /\ (e = 0 => s.fault = 0)
      OBVIOUS
    <2> HIDE DEF ns, e
    <2>11. t = [regions |-> g.regions, owned |-> g.owned, slack |-> g.slack, modules |-> ns,
                module |-> mx, torn |-> g.torn, fault |-> e]
      BY <2>4, <2>8 DEF Shaped
    <2>12. /\ t.module = mx /\ t.regions = g.regions /\ t.owned = g.owned /\ t.slack = g.slack
           /\ t.modules = ns /\ t.torn = s.torn /\ t.fault = e
      BY <2>4, <2>11
    <2>13. x.freed = IF r.count = 1 THEN 1 ELSE r.freed
      BY <1>9, <2>1
    <2> QED
      BY <1>9, <2>1, <2>2, <2>4, <2>9, <2>10, <2>12, <2>13 DEF t, mx, Decremented
  <1> QED
    BY <1>8, <1>9

-----------------------------------------------------------------------------
(* What Shape says of the elements. *)
LEMMA ShapeFacts ==
    ASSUME Shape
    PROVE  /\ Len(module) \in Nat /\ DOMAIN module = 1..Len(module) /\ NoModule \notin DOMAIN module
           /\ \A m \in DOMAIN module : module[m] \in ModuleRec
           /\ Len(modules) \in Nat /\ DOMAIN modules = 1..Len(modules)
           /\ \A i \in DOMAIN modules : modules[i] \in DOMAIN module
           /\ \A l \in Runners : run[l] \in RunRec /\ process[l] \in ProcessRec
           /\ Len(loading) \in Nat /\ DOMAIN loading = 1..Len(loading)
           /\ \A i \in DOMAIN loading : loading[i] \in CallRec
           /\ seen.raced \in {0, 1} /\ seen.failed \in {0, 1} /\ seen.late \in {0, 1} /\ seen.fault \in {0, 1}
  <1>1. module \in Seq(ModuleRec) /\ modules \in Seq(1..Len(module)) /\ loading \in Seq(CallRec)
    BY DEF Shape, ModulesShape, CallsShape, RunnersShape
  <1>2. run \in [Runners -> RunRec] /\ process \in [Runners -> ProcessRec] /\ seen \in SeenRec
    BY DEF Shape, ModulesShape, CallsShape, RunnersShape
  <1> QED
    BY <1>1, <1>2, SeenFields DEF NoModule

(* There are finitely many users and loads. *)
LEMMA UsersFinite ==
    ASSUME Shape, NEW m
    PROVE  /\ IsFiniteSet(Users(m)) /\ IsFiniteSet(Loads(m))
           /\ Cardinality(Users(m)) \in Nat /\ Cardinality(Loads(m)) \in Nat
  <1>1. Users(m) \subseteq Runners /\ IsFiniteSet(Runners)
    BY LoaderAssumption DEF Users
  <1>2. Loads(m) \subseteq 1..Len(loading) /\ IsFiniteSet(1..Len(loading))
    BY ShapeFacts, FS_Interval DEF Loads
  <1>3. IsFiniteSet(Users(m)) /\ IsFiniteSet(Loads(m))
    BY <1>1, <1>2, FS_Subset
  <1> QED
    BY <1>3, FS_CardinalityType

(* One more and one less in a finite set; one is at least 1. *)
LEMMA OneElement ==
    ASSUME NEW S, IsFiniteSet(S), NEW x
    PROVE  /\ x \notin S => Cardinality(S \cup {x}) = Cardinality(S) + 1
           /\ x \in S => Cardinality(S \ {x}) = Cardinality(S) - 1 /\ Cardinality(S) >= 1
           /\ Cardinality(S) \in Nat /\ (Cardinality(S) = 0 => S = {})
           /\ Cardinality(S) = 1 /\ x \in S => S = {x}
  <1>1. Cardinality(S) \in Nat /\ (Cardinality(S) = 0 => S = {})
    BY FS_CardinalityType, FS_EmptySet
  <1>2. x \notin S => Cardinality(S \cup {x}) = Cardinality(S) + 1
    BY FS_AddElement
  <1>3. x \in S => Cardinality(S \ {x}) = Cardinality(S) - 1 /\ IsFiniteSet(S \ {x})
    BY FS_RemoveElement
  <1>4. Cardinality(S \ {x}) = 0 /\ IsFiniteSet(S \ {x}) => S \ {x} = {}
    BY FS_EmptySet
  <1>5. x \in S => Cardinality(S) # 0
    BY FS_EmptySet
  <1> QED
    BY <1>1, <1>2, <1>3, <1>4, <1>5

(* What a search finds is a module of that file. *)
LEMMA Found ==
    ASSUME Shape, NEW f, xtFindModuleList(State, f) > 0
    PROVE  LET m == modules[xtFindModuleList(State, f)] IN
           /\ m \in DOMAIN module /\ module[m].file = f
           /\ Get(f) = [state |-> State, found |-> m, image |-> Nowhere]
  <1> DEFINE i == xtFindModuleList(State, f)
             m == modules[i]
  <1>1. /\ i = 0 \/ (i \in DOMAIN modules /\ module[modules[i]].file = f)
        /\ DOMAIN modules = 1..Len(modules) /\ Len(modules) \in Nat
    <2>1. State.modules \in Seq(1..Len(module)) /\ Len(module) \in Nat
      BY StateFields, ShapeFacts DEF Shape, ModulesShape
    <2> QED
      BY <2>1, FindStep, StateFields
  <1>2. Get(f) = [state |-> State, found |-> m, image |-> Nowhere]
    BY DEF Get
  <1> HIDE DEF i
  <1>3. i \in DOMAIN modules
    BY <1>1 DEF i
  <1>4. m \in DOMAIN module
    BY <1>3, ShapeFacts
  <1> QED
    BY <1>1, <1>2, <1>3, <1>4 DEF i

(* When it finds nothing the list has no module of the file. *)
LEMMA Missed ==
    ASSUME Shape, NEW f, ~(xtFindModuleList(State, f) > 0)
    PROVE  /\ \A i \in DOMAIN modules : module[modules[i]].file # f
           /\ Get(f) = [state |-> Take(State, ImagePages), found |-> NoModule, image |-> TakenAt(State, ImagePages)]
  <1> DEFINE i == xtFindModuleList(State, f)
  <1>1. /\ i = 0 \/ i \in DOMAIN modules
        /\ i = 0 => \A j \in DOMAIN modules : module[modules[j]].file # f
        /\ DOMAIN modules = 1..Len(modules) /\ Len(modules) \in Nat
    <2>1. State.modules \in Seq(1..Len(module)) /\ Len(module) \in Nat
      BY StateFields, ShapeFacts DEF Shape, ModulesShape
    <2> QED
      BY <2>1, FindStep, StateFields
  <1>2. Get(f) = [state |-> Take(State, ImagePages), found |-> NoModule, image |-> TakenAt(State, ImagePages)]
    BY DEF Get
  <1> HIDE DEF i
  <1>3. i = 0
    BY <1>1 DEF i
  <1> QED
    BY <1>1, <1>2, <1>3

(***************************************************************************)
(* xtGetOrLoadPhysicalModule, to where it has the module or the image.     *)
(***************************************************************************)
Hit(f, m) ==
    /\ m \in DOMAIN module /\ module[m].file = f
    /\ Get(f).found = m /\ Get(f).image = 0 /\ Get(f).state.fault = seen.fault
    /\ UNCHANGED <<regions, owned, slack, modules, module>>
Miss(f, a, e) ==
    /\ Get(f).found = NoModule /\ Get(f).image = a /\ Get(f).state.fault = e
    /\ UNCHANGED <<modules, module>> /\ MemoryOK(regions', owned', slack') /\ owned \subseteq owned'
    /\ a \in Nat /\ e \in {0, 1}
    /\ AllLinked(regions') => AllLinked(regions)
    /\ e = 0 => seen.fault = 0 /\ Piece(a, ImagePages) \in owned' /\ \A o \in owned : o.start # a

LEMMA GetStep ==
    ASSUME Shape, MemoryInv, Sound, NEW f, Becomes(Get(f).state)
    PROVE  (\E m \in DOMAIN module : Hit(f, m)) \/ (\E a \in Nat, e \in {0, 1} : Miss(f, a, e))
  <1>1. CASE xtFindModuleList(State, f) > 0
    <2>1. PICK m : /\ m \in DOMAIN module /\ module[m].file = f
                   /\ Get(f) = [state |-> State, found |-> m, image |-> Nowhere]
      BY <1>1, Found
    <2>2. PICK s : s = State
      OBVIOUS
    <2>3. Get(f).state = s /\ Get(f).found = m /\ Get(f).image = 0
      BY <2>1, <2>2 DEF Nowhere
    <2>4. s.regions = regions /\ s.owned = owned /\ s.slack = slack /\ s.modules = modules
          /\ s.module = module /\ s.fault = seen.fault
      BY <2>2, StateFields
    <2> QED
      BY <2>1, <2>3, <2>4 DEF Hit, Becomes
  <1>2. CASE ~(xtFindModuleList(State, f) > 0)
    <2> DEFINE t == Take(State, ImagePages)
               a == TakenAt(State, ImagePages)
    <2>1. Get(f) = [state |-> t, found |-> NoModule, image |-> a]
      BY <1>2, Missed
    <2>2. /\ MemoryOK(State.regions, State.owned, State.slack) /\ State.fault \in {0, 1} /\ Shaped(State)
          /\ AllLinked(State.regions)
      BY StateFields, ShapeFacts DEF MemoryInv, Sound
    <2>3. /\ MemoryOK(t.regions, t.owned, t.slack)
          /\ t.modules = modules /\ t.module = module
          /\ owned \subseteq t.owned /\ t.fault \in {0, 1} /\ (t.fault = 0 => seen.fault = 0)
          /\ AllLinked(t.regions) => AllLinked(regions)
          /\ t.fault = 0 =>
                 a \in Nat \ {0} /\ Piece(a, ImagePages) \in t.owned /\ \A o \in owned : o.start # a
      BY <2>2, Sizes, TakeStep, StateFields
    <2>4. a \in Nat
      BY <2>2, Sizes, TakenNat
    <2> HIDE DEF t, a
    <2>5. Get(f).state = t /\ Get(f).found = NoModule /\ Get(f).image = a
      BY <2>1
    <2>6. Miss(f, a, t.fault)
      BY <2>3, <2>4, <2>5 DEF Miss, Becomes
    <2> QED
      BY <2>3, <2>4, <2>6
  <1> QED
    BY <1>1, <1>2

(* Roles of pieces that stay, when a new piece gets one. *)
LEMMA RoleGiven ==
    ASSUME NEW role \in [Nat -> Roles], NEW a \in Nat, NEW who \in Roles
    PROVE  LET new == [role EXCEPT ![a] = who] IN
           new \in [Nat -> Roles] /\ new[a] = who /\ \A b \in Nat : b # a => new[b] = role[b]
  OBVIOUS

LEMMA RoleKinds ==
    ASSUME NEW k \in Nat \cup Runners
    PROVE  /\ <<"module", k>> \in Roles /\ <<"run", k>> \in Roles /\ <<"load", k>> \in Roles
           /\ <<"data", k>> \in Roles /\ <<"args", k>> \in Roles /\ <<"stack", k>> \in Roles
  BY DEF Roles

(***************************************************************************)
(* A step keeps the claims to pieces of memory but for those that it ends. *)
(***************************************************************************)
Keeps(role, new, gone) ==
    /\ new \in [Nat -> Roles]
    /\ \A b, n, w : Has(role, b, n, w) /\ w \notin gone => Has(new, b, n, w)'

LEMMA KeepsAll ==
    ASSUME NEW role \in [Nat -> Roles], UNCHANGED owned
    PROVE  Keeps(role, role, {})
  BY DEF Keeps, Has

LEMMA KeepsTaken ==
    ASSUME NEW role \in [Nat -> Roles], NEW a \in Nat, NEW who \in Roles,
           owned \subseteq owned', \A o \in owned : o.start # a
    PROVE  Keeps(role, [role EXCEPT ![a] = who], {}) /\ [role EXCEPT ![a] = who][a] = who
  <1> DEFINE new == [role EXCEPT ![a] = who]
  <1>1. new \in [Nat -> Roles] /\ new[a] = who /\ \A b \in Nat : b # a => new[b] = role[b]
    BY RoleGiven
  <1> HIDE DEF new
  <1>2. ASSUME NEW b, NEW n, NEW w, Has(role, b, n, w) PROVE Has(new, b, n, w)'
    <2>1. b \in Nat /\ Piece(b, n) \in owned /\ role[b] = w /\ Piece(b, n).start = b
      BY <1>2 DEF Has, Piece
    <2> QED
      BY <1>1, <2>1 DEF Has
  <1> QED
    BY <1>1, <1>2 DEF Keeps, new

LEMMA ModuleKeeps ==
    ASSUME NEW role, NEW new, NEW gone, Keeps(role, new, gone), NEW m, <<"module", m>> \notin gone,
           module'[m].file = module[m].file, module'[m].image = module[m].image,
           module'[m].freed = module[m].freed, m \in seen.torn => m \in seen'.torn, ModuleHas(role, m)
    PROVE  ModuleHas(new, m)'
  BY DEF ModuleHas, Keeps

LEMMA RunnerKeeps ==
    ASSUME NEW role, NEW new, NEW gone, Keeps(role, new, gone), NEW l,
           {<<"run", l>>, <<"data", l>>, <<"args", l>>, <<"stack", l>>} \cap gone = {},
           UNCHANGED <<run[l], process[l]>>,
           process[l].module # NoModule => module'[process[l].module].image = module[process[l].module].image
    PROVE  /\ RunHas(role, l) => RunHas(new, l)'
           /\ ProcessHas(role, l) => ProcessHas(new, l)'
           /\ StackHas(role, l) => StackHas(new, l)'
  <1>1. ASSUME NEW b, NEW n, NEW w, Has(role, b, n, w), w \in {<<"run", l>>, <<"data", l>>, <<"args", l>>, <<"stack", l>>}
        PROVE  Has(new, b, n, w)'
    BY <1>1 DEF Keeps
  <1>2. RunHas(role, l) => RunHas(new, l)'
    BY <1>1 DEF RunHas
  <1>3. ProcessHas(role, l) => ProcessHas(new, l)'
    BY <1>1 DEF ProcessHas
  <1>4. StackHas(role, l) => StackHas(new, l)'
    BY <1>1 DEF StackHas
  <1> QED
    BY <1>2, <1>3, <1>4

(* A step that leaves the runners alone. *)
LEMMA ClaimsFrame ==
    ASSUME Shape, NEW role, Claims(role), NEW new, Keeps(role, new, {}), UNCHANGED <<run, process>>,
           DOMAIN module' = DOMAIN module, seen.torn \subseteq seen'.torn,
           \A m \in DOMAIN module : /\ module'[m].file = module[m].file /\ module'[m].image = module[m].image
                                    /\ module'[m].freed = module[m].freed,
           AllLinked(regions') => AllLinked(regions),
           \A i \in DOMAIN loading' : LoadHas(new, i)'
    PROVE  Claims(new)'
  <1>1. ASSUME NEW m \in DOMAIN module PROVE ModuleHas(new, m)'
    <2>1. ModuleHas(role, m)
      BY DEF Claims
    <2>2. /\ module'[m].file = module[m].file /\ module'[m].image = module[m].image
          /\ module'[m].freed = module[m].freed /\ (m \in seen.torn => m \in seen'.torn)
      OBVIOUS
    <2> QED
      BY <2>1, <2>2 DEF ModuleHas, Keeps
  <1>2. ASSUME NEW l \in Runners
        PROVE  /\ RunHas(role, l) => RunHas(new, l)'
               /\ ProcessHas(role, l) => ProcessHas(new, l)'
               /\ StackHas(role, l) => StackHas(new, l)'
    <2>1. process[l].module # NoModule => module'[process[l].module].image = module[process[l].module].image
      BY DEF Shape, RunnersShape, Known
    <2> QED
      BY <2>1, RunnerKeeps
  <1> QED
    BY <1>1, <1>2 DEF Claims, Keeps

(* What the assignments to the history change. *)
LEMMA FaultSet ==
    ASSUME NEW r \in SeenRec, NEW e \in {0, 1}
    PROVE  LET x == [r EXCEPT !.fault = e] IN
           /\ x \in SeenRec /\ x.fault = e /\ x.raced = r.raced /\ x.failed = r.failed /\ x.torn = r.torn
           /\ x.late = r.late
  BY DEF SeenRec

LEMMA RacedSet ==
    ASSUME NEW r \in SeenRec, NEW e \in {0, 1}
    PROVE  LET x == [r EXCEPT !.raced = e] IN
           /\ x \in SeenRec /\ x.raced = e /\ x.fault = r.fault /\ x.failed = r.failed /\ x.torn = r.torn
           /\ x.late = r.late
  BY DEF SeenRec

LEMMA FailedSet ==
    ASSUME NEW r \in SeenRec
    PROVE  LET x == [r EXCEPT !.failed = 1] IN
           /\ x \in SeenRec /\ x.failed = 1 /\ x.fault = r.fault /\ x.raced = r.raced /\ x.torn = r.torn
           /\ x.late = r.late
  BY DEF SeenRec

LEMMA TornSet ==
    ASSUME NEW r \in SeenRec, NEW e \in SUBSET Nat
    PROVE  LET x == [r EXCEPT !.torn = e] IN
           /\ x \in SeenRec /\ x.torn = e /\ x.fault = r.fault /\ x.raced = r.raced /\ x.failed = r.failed
           /\ x.late = r.late
  BY DEF SeenRec

LEMMA LateSet ==
    ASSUME NEW r \in SeenRec, NEW e \in {0, 1}
    PROVE  LET x == [r EXCEPT !.late = e] IN
           /\ x \in SeenRec /\ x.late = e /\ x.fault = r.fault /\ x.raced = r.raced /\ x.failed = r.failed
           /\ x.torn = r.torn
  BY DEF SeenRec

(***************************************************************************)
(* The parts of the invariant that a step leaves alone.                    *)
(***************************************************************************)
FilesKept ==
    /\ DOMAIN module \subseteq DOMAIN module'
    /\ \A m \in DOMAIN module : module'[m].file = module[m].file

LEMMA RunnersFrame ==
    ASSUME RunnersShape, FilesKept, UNCHANGED <<run, process>>
    PROVE  RunnersShape'
  BY DEF RunnersShape, FilesKept, Known, Stepping

LEMMA CallsFrame ==
    ASSUME CallsShape, FilesKept, UNCHANGED loading
    PROVE  CallsShape'
  BY DEF CallsShape, FilesKept, Known, Calling

LEMMA UsersFrame ==
    ASSUME UNCHANGED <<run, process>>, NEW m
    PROVE  Users(m)' = Users(m)
  BY DEF Users

LEMMA LoadsFrame ==
    ASSUME UNCHANGED loading, NEW m
    PROVE  Loads(m)' = Loads(m)
  BY DEF Loads

LEMMA CountedFrame ==
    ASSUME Counted, DOMAIN module' = DOMAIN module, seen'.late = seen.late,
           \A m \in DOMAIN module : /\ module'[m].count = module[m].count /\ module'[m].freed = module[m].freed
                                    /\ Users(m)' = Users(m) /\ Loads(m)' = Loads(m)
    PROVE  Counted'
  BY DEF Counted

LEMMA ListedFrame ==
    ASSUME Listed, DOMAIN module' = DOMAIN module, seen'.failed = seen.failed, seen'.raced = seen.raced,
           modules' = modules, \A m \in DOMAIN module : module'[m].file = module[m].file
    PROVE  Listed'
  BY DEF Listed, OneImagePerFile

LEMMA RelocatedFrame ==
    ASSUME Relocated, DOMAIN module' = DOMAIN module, \A l \in Runners : Known(process[l].module),
           \A m \in DOMAIN module : /\ module'[m].relocation = module[m].relocation
                                    /\ module'[m].relocated = module[m].relocated,
           \A l \in Runners : /\ run'[l].pc = "relocate" <=> run[l].pc = "relocate"
                              /\ \/ process'[l].module = NoModule
                                 \/ process'[l].module = process[l].module /\ process'[l].data = process[l].data
    PROVE  Relocated'
  <1>1. ASSUME NEW m \in DOMAIN module PROVE Moved(m)'
    <2>1. Moves(m)' = Moves(m)
      BY DEF Moves
    <2> QED
      BY <2>1 DEF Relocated, Moved
  <1>2. ASSUME NEW l \in Runners PROVE Lags(l)'
    <2>1. CASE process'[l].module = NoModule
      BY <2>1 DEF Lags
    <2>2. CASE process'[l].module # NoModule
      <3> DEFINE k == process[l].module
      <3>1. process'[l].module = k /\ process'[l].data = process[l].data /\ k # NoModule /\ k \in DOMAIN module
        BY <2>2 DEF Known
      <3>2. Behind(process[l].data, module[k].relocation, run[l].pc # "relocate")
        BY <3>1 DEF Relocated, Lags
      <3>3. module'[k].relocation = module[k].relocation /\ (run'[l].pc # "relocate" <=> run[l].pc # "relocate")
        BY <3>1
      <3> HIDE DEF k
      <3>4. Behind(process'[l].data, module'[k].relocation, run'[l].pc # "relocate")
        BY <3>1, <3>2, <3>3 DEF Behind
      <3> QED
        BY <3>1, <3>4 DEF Lags
    <2> QED
      BY <2>1, <2>2
  <1> QED
    BY <1>1, <1>2 DEF Relocated

(* Who has a process has a module that is known. *)
LEMMA KnownModules ==
    ASSUME Shape
    PROVE  \A l \in Runners : Known(process[l].module)
  BY DEF Shape, RunnersShape

(* The model ends at the use of freed memory. *)
LEMMA CrashesInv ==
    ASSUME LoaderInv, Crashes
    PROVE  LoaderInv'
  <1>1. /\ seen' \in SeenRec /\ seen'.fault = 1 /\ seen'.raced = seen.raced
        /\ seen'.failed = seen.failed /\ seen'.torn = seen.torn /\ seen'.late = seen.late
    BY FaultSet DEF LoaderInv, Shape, ModulesShape, Crashes
  <1>2. UNCHANGED <<regions, owned, slack, modules, module, run, process, loading>>
    BY DEF Crashes, pageVars
  <1>3. Shape'
    BY <1>1, <1>2, RunnersFrame, CallsFrame DEF LoaderInv, Shape, ModulesShape, FilesKept
  <1>4. \A m \in DOMAIN module : Users(m)' = Users(m) /\ Loads(m)' = Loads(m)
    BY <1>2, UsersFrame, LoadsFrame
  <1>5. Counted' /\ Listed' /\ Relocated'
    BY <1>1, <1>2, <1>4, CountedFrame, ListedFrame, RelocatedFrame, KnownModules DEF LoaderInv
  <1>6. MemoryInv'
    BY <1>1, <1>2 DEF LoaderInv, MemoryInv
  <1> QED
    BY <1>3, <1>5, <1>6 DEF LoaderInv

-----------------------------------------------------------------------------
(* A reference more to a module changes its count only. *)
LEMMA CountedModule ==
    ASSUME Shape, NEW m \in DOMAIN module, Count(m)
    PROVE  /\ module' \in Seq(ModuleRec) /\ Len(module') = Len(module) /\ DOMAIN module' = DOMAIN module /\ FilesKept
           /\ \A j \in DOMAIN module :
                 /\ module'[j].file = module[j].file /\ module'[j].image = module[j].image
                 /\ module'[j].relocated = module[j].relocated /\ module'[j].relocation = module[j].relocation
                 /\ module'[j].freed = module[j].freed
                 /\ module'[j].count = IF j = m THEN module[m].count + 1 ELSE module[j].count
           /\ UNCHANGED <<regions, owned, slack, modules>>
           /\ seen' \in SeenRec /\ seen'.late = module[m].freed /\ seen'.fault = seen.fault
           /\ seen'.raced = seen.raced /\ seen'.failed = seen.failed /\ seen'.torn = seen.torn
  <1> DEFINE c == module[m].count + 1
             x == [module[m] EXCEPT !.count = c]
             t == xtIncrementReference(State, m)
  <1>1. module \in Seq(ModuleRec) /\ m \in 1..Len(module) /\ module[m] \in ModuleRec /\ DOMAIN module = 1..Len(module)
    BY ShapeFacts DEF Shape, ModulesShape
  <1>2. c \in Nat
    BY <1>1, ModuleFields
  <1>3. /\ t.module = [module EXCEPT ![m] = x] /\ t.regions = regions /\ t.owned = owned /\ t.slack = slack
        /\ t.modules = modules
    BY IncrementStep, StateFields
  <1>4. Becomes(t) /\ seen' = [seen EXCEPT !.late = module[m].freed]
    BY DEF Count
  <1> HIDE DEF c, t
  <1>5. /\ x \in ModuleRec /\ x.count = c /\ x.file = module[m].file /\ x.image = module[m].image
        /\ x.relocated = module[m].relocated /\ x.relocation = module[m].relocation /\ x.freed = module[m].freed
    BY <1>1, <1>2, CountSet
  <1>6. module' = [module EXCEPT ![m] = x] /\ UNCHANGED <<regions, owned, slack, modules>>
    BY <1>3, <1>4 DEF Becomes
  <1> HIDE DEF x
  <1>7. /\ module' \in Seq(ModuleRec) /\ Len(module') = Len(module) /\ DOMAIN module' = 1..Len(module)
        /\ \A j \in 1..Len(module) : module'[j] = IF j = m THEN x ELSE module[j]
    BY <1>1, <1>5, <1>6, OneChanged
  <1>8. /\ seen' \in SeenRec /\ seen'.late = module[m].freed /\ seen'.fault = seen.fault
        /\ seen'.raced = seen.raced /\ seen'.failed = seen.failed /\ seen'.torn = seen.torn
    <2>1. PICK e : e = module[m].freed
      OBVIOUS
    <2>2. e \in {0, 1} /\ seen \in SeenRec /\ seen' = [seen EXCEPT !.late = e]
      BY <1>1, <1>4, <2>1, ModuleFields DEF Shape, ModulesShape
    <2> QED
      BY <2>1, <2>2, LateSet
  <1> QED
    BY <1>1, <1>5, <1>6, <1>7, <1>8 DEF FilesKept, c

(* The calls in progress, of which each has its module. *)
CallsOK(calls) ==
    /\ calls \in Seq(CallRec) /\ Len(calls) = Len(loading)
    /\ \A i \in 1..Len(loading) : /\ calls[i].module = loading[i].module /\ calls[i].failed = loading[i].failed
                                  /\ loading[i].module # NoModule

LEMMA Pushed ==
    ASSUME Shape, NEW calls, CallsOK(calls), NEW c \in CallRec, loading' = Append(calls, c)
    PROVE  /\ loading' \in Seq(CallRec) /\ Len(loading') = Len(loading) + 1
           /\ DOMAIN loading' = 1..(Len(loading) + 1) /\ loading'[Len(loading) + 1] = c
           /\ \A i \in 1..Len(loading) : /\ loading'[i].module = loading[i].module
                                         /\ loading'[i].failed = loading[i].failed
           /\ \A m : Loads(m)' = IF c.module = m THEN Loads(m) \cup {Len(loading) + 1} ELSE Loads(m)
  <1> DEFINE n == Len(loading)
  <1>1. n \in Nat /\ DOMAIN loading = 1..n
    BY ShapeFacts
  <1>2. /\ loading' \in Seq(CallRec) /\ Len(loading') = n + 1 /\ DOMAIN loading' = 1..(n + 1)
        /\ loading'[n + 1] = c /\ \A i \in 1..n : loading'[i] = calls[i]
    BY DEF CallsOK
  <1>3. \A i \in 1..n : loading'[i].module = loading[i].module /\ loading'[i].failed = loading[i].failed
    BY <1>2 DEF CallsOK
  <1> HIDE DEF n
  <1>4. \A i : i \in 1..(n + 1) <=> i \in 1..n \/ i = n + 1
    BY <1>1
  <1>5. n + 1 \notin 1..n
    BY <1>1
  <1>6. ASSUME NEW m PROVE Loads(m)' = IF c.module = m THEN Loads(m) \cup {n + 1} ELSE Loads(m)
    <2>1. \A i : i \in Loads(m)' <=> i \in 1..(n + 1) /\ loading'[i].module = m
      BY <1>2 DEF Loads
    <2>2. \A i : i \in Loads(m) <=> i \in 1..n /\ loading[i].module = m
      BY <1>1 DEF Loads
    <2>3. \A i : i \in Loads(m)' <=> i \in Loads(m) \/ (i = n + 1 /\ c.module = m)
      BY <1>2, <1>3, <1>4, <2>1, <2>2
    <2>4. CASE c.module = m
      BY <2>3, <2>4
    <2>5. CASE c.module # m
      BY <2>3, <2>5
    <2> QED
      BY <2>4, <2>5
  <1> QED
    BY <1>2, <1>3, <1>6 DEF n

(* The shape of the calls with one more. *)
LEMMA PushedShape ==
    ASSUME Shape, FilesKept, NEW calls, CallsOK(calls), NEW c \in CallRec, loading' = Append(calls, c),
           c.failed = 0, c.module = NoModule,
           c.found = NoModule \/ (c.found \in DOMAIN module /\ module[c.found].file \in Files)
    PROVE  CallsShape'
  <1>1. Len(loading) \in Nat /\ DOMAIN loading = 1..Len(loading)
    BY ShapeFacts
  <1>2. /\ loading' \in Seq(CallRec) /\ Len(loading') = Len(loading) + 1
        /\ DOMAIN loading' = 1..(Len(loading) + 1) /\ loading'[Len(loading) + 1] = c
        /\ \A i \in 1..Len(loading) : loading'[i].module = loading[i].module
    BY Pushed
  <1>3. \A i \in 1..Len(loading) : Known(loading[i].module) /\ loading[i].module # NoModule
    BY <1>1 DEF Shape, CallsShape, CallsOK
  <1>4. ASSUME NEW i \in DOMAIN loading' PROVE Known(loading[i].module)' /\ Calling(i)'
    <2>1. CASE i \in 1..Len(loading)
      BY <1>2, <1>3, <2>1 DEF Known, Calling, FilesKept
    <2>2. CASE i = Len(loading) + 1
      BY <1>2, <2>2 DEF Known, Calling, FilesKept
    <2> QED
      BY <1>1, <1>2, <2>1, <2>2
  <1> QED
    BY <1>2, <1>4 DEF CallsShape

(* A call that finds its module on the list. *)
LEMMA CallHit ==
    ASSUME LoaderInv, Sound, NEW f \in Files, NEW calls, CallsOK(calls), NEW m \in DOMAIN module, Hit(f, m),
           loading' = Append(calls, [file |-> f, found |-> Get(f).found, module |-> NoModule,
                                     image |-> Get(f).image, imports |-> Imports[f], failed |-> 0]),
           NEW e, e = Get(f).state.fault, seen' = [seen EXCEPT !.fault = e], UNCHANGED <<run, process>>
    PROVE  LoaderInv'
  <1> USE DEF LoaderInv
  <1> DEFINE c == [file |-> f, found |-> m, module |-> NoModule, image |-> 0, imports |-> Imports[f], failed |-> 0]
             n == Len(loading) + 1
  <1>1. /\ seen' \in SeenRec /\ seen'.fault = seen.fault /\ seen'.raced = seen.raced
        /\ seen'.failed = seen.failed /\ seen'.torn = seen.torn /\ seen'.late = seen.late
    <2>1. e = seen.fault /\ e \in {0, 1} /\ seen \in SeenRec
      BY ShapeFacts DEF Shape, ModulesShape, Hit
    <2> QED
      BY <2>1, FaultSet
  <1>2. /\ c \in CallRec /\ c.module = NoModule /\ c.found = m /\ c.failed = 0 /\ loading' = Append(calls, c)
        /\ m # NoModule
    <2>1. m \in Nat /\ m # NoModule
      BY ShapeFacts DEF NoModule
    <2> QED
      BY <2>1, LoaderAssumption DEF CallRec, Hit, NoModule
  <1> HIDE DEF c
  <1>3. UNCHANGED <<regions, owned, slack, modules, module>> /\ module[m].file \in Files /\ FilesKept
    BY DEF Hit, FilesKept
  <1>5. Shape'
    BY <1>1, <1>2, <1>3, RunnersFrame, PushedShape DEF Shape, ModulesShape
  <1>6. \A j \in DOMAIN module : Users(j)' = Users(j) /\ Loads(j)' = Loads(j)
    BY <1>2, UsersFrame, Pushed, ShapeFacts
  <1>7. Counted' /\ Listed' /\ Relocated'
    BY <1>1, <1>3, <1>6, CountedFrame, ListedFrame, RelocatedFrame, KnownModules
  <1>9. MemoryInv'
    <2>1. \A i \in DOMAIN loading' : loading'[i].module # NoModule \/ loading'[i].found # NoModule
      <3>1. DOMAIN loading' = 1..n /\ loading'[n] = c /\ \A i \in 1..Len(loading) : loading'[i].module = loading[i].module
        BY <1>2, Pushed
      <3>2. Len(loading) \in Nat
        BY ShapeFacts
      <3> QED
        BY <1>2, <3>1, <3>2 DEF CallsOK
    <2>2. ASSUME NEW role, Claims(role) PROVE Claims(role)'
      <3>1. Keeps(role, role, {})
        BY <1>3, <2>2, KeepsAll DEF Claims
      <3>2. \A i \in DOMAIN loading' : LoadHas(role, i)'
        BY <2>1 DEF LoadHas
      <3> QED
        BY <1>1, <1>3, <2>2, <3>1, <3>2, ClaimsFrame
    <2> QED
      BY <1>1, <1>3, <2>2 DEF MemoryInv
  <1> QED
    BY <1>5, <1>7, <1>9

(* A call that reads the image of its module. *)
LEMMA CallMiss ==
    ASSUME LoaderInv, Sound, NEW f \in Files, NEW calls, CallsOK(calls), NEW a \in Nat, NEW e \in {0, 1}, Miss(f, a, e),
           loading' = Append(calls, [file |-> f, found |-> Get(f).found, module |-> NoModule,
                                     image |-> Get(f).image, imports |-> Imports[f], failed |-> 0]),
           seen' = [seen EXCEPT !.fault = e], UNCHANGED <<run, process>>
    PROVE  LoaderInv'
  <1> USE DEF LoaderInv
  <1> DEFINE c == [file |-> f, found |-> NoModule, module |-> NoModule, image |-> a, imports |-> Imports[f],
                   failed |-> 0]
             n == Len(loading) + 1
  <1>1. /\ seen' \in SeenRec /\ seen'.fault = e /\ seen'.raced = seen.raced
        /\ seen'.failed = seen.failed /\ seen'.torn = seen.torn /\ seen'.late = seen.late
    BY FaultSet DEF Shape, ModulesShape
  <1>2. /\ c \in CallRec /\ c.module = NoModule /\ c.found = NoModule /\ c.image = a /\ c.failed = 0
        /\ loading' = Append(calls, c)
    BY LoaderAssumption DEF CallRec, Miss, NoModule
  <1> HIDE DEF c
  <1>3. /\ UNCHANGED <<modules, module>> /\ MemoryOK(regions', owned', slack') /\ owned \subseteq owned'
        /\ AllLinked(regions') => AllLinked(regions)
        /\ e = 0 => seen.fault = 0 /\ Piece(a, ImagePages) \in owned' /\ \A o \in owned : o.start # a
    BY DEF Miss
  <1>4. FilesKept
    BY <1>3 DEF FilesKept
  <1>5. Shape'
    BY <1>1, <1>2, <1>3, <1>4, RunnersFrame, PushedShape DEF Shape, ModulesShape
  <1>6. \A j \in DOMAIN module : Users(j)' = Users(j) /\ Loads(j)' = Loads(j)
    BY <1>2, UsersFrame, Pushed, ShapeFacts
  <1>7. Counted' /\ Listed' /\ Relocated'
    BY <1>1, <1>3, <1>6, CountedFrame, ListedFrame, RelocatedFrame, KnownModules
  <1>8. MemoryInv'
    <2>1. ASSUME e = 0, NEW role, Claims(role) PROVE \E new : Claims(new)'
      <3> DEFINE new == [role EXCEPT ![a] = <<"load", 0>>]
      <3>1. Keeps(role, new, {}) /\ new[a] = <<"load", 0>>
        BY <1>3, <2>1, KeepsTaken, RoleKinds DEF Claims
      <3> HIDE DEF new
      <3>2. \A i \in DOMAIN loading' : LoadHas(new, i)'
        <4>1. DOMAIN loading' = 1..n /\ loading'[n] = c /\ \A i \in 1..Len(loading) : loading'[i].module = loading[i].module
          BY <1>2, Pushed
        <4>2. Len(loading) \in Nat
          BY ShapeFacts
        <4>3. \A i \in 1..Len(loading) : loading[i].module # NoModule
          BY DEF CallsOK
        <4> QED
          BY <1>2, <1>3, <2>1, <3>1, <4>1, <4>2, <4>3 DEF LoadHas, Has
      <3> QED
        BY <1>1, <1>3, <2>1, <3>1, <3>2, ClaimsFrame
    <2> QED
      BY <1>1, <1>3, <2>1 DEF MemoryInv
  <1> QED
    BY <1>5, <1>7, <1>8

(* The failure of a call is its caller's. *)
LEMMA FailingCalls ==
    ASSUME NEW calls \in Seq(CallRec)
    PROVE  LET q == Failing(calls) IN
           /\ q \in Seq(CallRec) /\ Len(q) = Len(calls) /\ DOMAIN q = 1..Len(calls)
           /\ \A i \in 1..Len(calls) : /\ q[i].module = calls[i].module /\ q[i].image = calls[i].image
                                       /\ i # Len(calls) => q[i].failed = calls[i].failed
  <1> DEFINE n == Len(calls)
             x == [calls[n] EXCEPT !.failed = 1]
             q == [calls EXCEPT ![n] = x]
  <1>1. CASE calls = <<>>
    BY <1>1 DEF Failing
  <1>2. CASE calls # <<>>
    <2>1. n \in 1..n /\ n \in Nat /\ calls[n] \in CallRec
      BY <1>2
    <2>2. x \in CallRec /\ x.module = calls[n].module /\ x.image = calls[n].image
      BY <2>1 DEF CallRec
    <2>3. Failing(calls) = q
      BY <1>2 DEF Failing
    <2> HIDE DEF x
    <2>4. q \in Seq(CallRec) /\ Len(q) = n /\ DOMAIN q = 1..n /\ \A k \in 1..n : q[k] = IF k = n THEN x ELSE calls[k]
      BY <2>1, <2>2, OneChanged
    <2> HIDE DEF q
    <2> QED
      BY <2>2, <2>3, <2>4
  <1> QED
    BY <1>1, <1>2

(* A call for a file that cannot be opened. *)
LEMMA CallFail ==
    ASSUME LoaderInv, NEW calls, CallsOK(calls), loading' = Failing(calls),
           UNCHANGED <<pageVars, modules, module, run, process, seen>>
    PROVE  LoaderInv'
  <1> USE DEF LoaderInv
  <1>1. UNCHANGED <<regions, owned, slack, modules, module, run, process, seen>>
    BY DEF pageVars
  <1>2. /\ loading' \in Seq(CallRec) /\ Len(loading') = Len(loading) /\ DOMAIN loading' = DOMAIN loading
        /\ \A i \in DOMAIN loading : loading'[i].module = loading[i].module /\ loading[i].module # NoModule
    <2>1. calls \in Seq(CallRec) /\ DOMAIN loading = 1..Len(loading)
      BY ShapeFacts DEF CallsOK
    <2> QED
      BY <2>1, FailingCalls DEF CallsOK
  <1>3. FilesKept
    BY <1>1 DEF FilesKept
  <1>4. CallsShape'
    BY <1>1, <1>2 DEF Shape, CallsShape, Known, Calling
  <1>5. Shape'
    BY <1>1, <1>3, <1>4, RunnersFrame DEF Shape, ModulesShape
  <1>6. \A j \in DOMAIN module : Users(j)' = Users(j) /\ Loads(j)' = Loads(j)
    <2>1. \A j \in DOMAIN module : Loads(j)' = Loads(j)
      BY <1>2 DEF Loads
    <2> QED
      BY <1>1, <2>1, UsersFrame
  <1>7. Counted' /\ Listed' /\ Relocated'
    BY <1>1, <1>6, CountedFrame, ListedFrame, RelocatedFrame, KnownModules
  <1>8. MemoryInv'
    <2>1. ASSUME NEW role, Claims(role) PROVE Claims(role)'
      <3>1. Keeps(role, role, {})
        BY <1>1, <2>1, KeepsAll DEF Claims
      <3>2. \A i \in DOMAIN loading' : LoadHas(role, i)'
        BY <1>2 DEF LoadHas
      <3> QED
        BY <1>1, <2>1, <3>1, <3>2, ClaimsFrame
    <2> QED
      BY <1>1, <2>1 DEF MemoryInv
  <1> QED
    BY <1>5, <1>7, <1>8

(* A call of xtLoadKernelModule, from outside or for an import. *)
LEMMA CallForInv ==
    ASSUME LoaderInv, Sound, NEW f \in Files, NEW calls, CallsOK(calls), CallFor(f, calls)
    PROVE  LoaderInv'
  <1>1. CASE ReadsFreed(State, f) /\ Crashes
    BY <1>1, CrashesInv
  <1>2. CASE /\ ~ReadsFreed(State, f) /\ CanGet(f)
             /\ Becomes(Get(f).state)
             /\ loading' = Append(calls, [file |-> f, found |-> Get(f).found, module |-> NoModule,
                                          image |-> Get(f).image, imports |-> Imports[f], failed |-> 0])
             /\ seen' = [seen EXCEPT !.fault = Get(f).state.fault]
             /\ UNCHANGED <<run, process>>
    <2>1. PICK e : e = Get(f).state.fault
      OBVIOUS
    <2>2. seen' = [seen EXCEPT !.fault = e]
      BY <1>2, <2>1, Zenon
    <2>3. (\E m \in DOMAIN module : Hit(f, m)) \/ (\E a \in Nat, e2 \in {0, 1} : Miss(f, a, e2))
      BY <1>2, GetStep DEF LoaderInv
    <2>4. CASE \E m \in DOMAIN module : Hit(f, m)
      BY <1>2, <2>1, <2>2, <2>4, CallHit
    <2>5. CASE \E a \in Nat, e2 \in {0, 1} : Miss(f, a, e2)
      <3>1. PICK a \in Nat, e2 \in {0, 1} : Miss(f, a, e2)
        BY <2>5
      <3>2. e2 = e
        BY <2>1, <3>1 DEF Miss
      <3> QED
        BY <1>2, <2>2, <3>1, <3>2, CallMiss
    <2> QED
      BY <2>3, <2>4, <2>5
  <1>3. CASE /\ ~ReadsFreed(State, f) /\ ~CanGet(f)
             /\ loading' = Failing(calls)
             /\ UNCHANGED <<pageVars, modules, module, run, process, seen>>
    BY <1>3, CallFail
  <1> QED
    BY <1>1, <1>2, <1>3 DEF CallFor

LEMMA LoadKernelModuleInv ==
    ASSUME LoaderInv, NEW f \in Files, xtLoadKernelModule(f)
    PROVE  LoaderInv'
  <1>1. CallsOK(<<>>)
    BY DEF CallsOK, xtLoadKernelModule
  <1> QED
    BY <1>1, CallForInv DEF xtLoadKernelModule

(* The innermost call. *)
LEMMA TopCall ==
    ASSUME Shape, Loading
    PROVE  /\ Len(loading) \in DOMAIN loading /\ Top = loading[Len(loading)] /\ Top \in CallRec /\ Sound
           /\ Top.module = NoModule => Top.failed = 0 /\ Known(Top.found)
           /\ Top.module # NoModule => Top.module \in DOMAIN module /\ module[Top.module].file \in Files
           /\ \A i \in DOMAIN loading : i # Len(loading) => loading[i].module # NoModule
  <1>1. Len(loading) \in Nat /\ DOMAIN loading = 1..Len(loading) /\ loading # <<>> /\ loading \in Seq(CallRec)
    BY ShapeFacts DEF Loading, Shape, CallsShape
  <1>2. Len(loading) \in DOMAIN loading
    BY <1>1
  <1>3. \A i \in DOMAIN loading : Known(loading[i].module) /\ Calling(i)
    BY DEF Shape, CallsShape
  <1>4. loading[Len(loading)] \in CallRec
    BY <1>1, <1>2
  <1> QED
    BY <1>1, <1>2, <1>3, <1>4 DEF Known, Calling, Top, Loading

LEMMA LoadKernelSubmoduleInv ==
    ASSUME LoaderInv, LoadKernelSubmodule
    PROVE  LoaderInv'
  <1> DEFINE n == Len(loading)
             x == [Top EXCEPT !.imports = Tail(Top.imports)]
             calls == [loading EXCEPT ![n].imports = Tail(@)]
             f == Head(Top.imports)
  <1>1. /\ Loading /\ Shape /\ Top.module # NoModule /\ Top.failed = 0 /\ Top.imports # <<>> /\ CallFor(f, calls)
    BY DEF LoadKernelSubmodule, LoaderInv
  <1>2. /\ n \in DOMAIN loading /\ Top = loading[n] /\ Top \in CallRec /\ Sound /\ loading \in Seq(CallRec)
        /\ \A i \in DOMAIN loading : i # n => loading[i].module # NoModule
    BY <1>1, TopCall DEF Shape, CallsShape
  <1>3. f \in Files /\ Tail(Top.imports) \in Seq(Files)
    BY <1>1, <1>2, CallFields
  <1>4. x \in CallRec /\ x.module = Top.module /\ x.failed = Top.failed
    BY <1>2, <1>3 DEF CallRec
  <1>5. calls = [loading EXCEPT ![n] = x]
    BY <1>2
  <1> HIDE DEF x, calls
  <1>6. CallsOK(calls)
    <2>1. n \in 1..n /\ DOMAIN loading = 1..n
      BY <1>1, <1>2, ShapeFacts
    <2>2. calls \in Seq(CallRec) /\ Len(calls) = n /\ \A k \in 1..n : calls[k] = IF k = n THEN x ELSE loading[k]
      BY <1>2, <1>4, <1>5, <2>1, OneChanged
    <2> QED
      BY <1>1, <1>2, <1>4, <2>1, <2>2 DEF CallsOK
  <1> HIDE DEF f
  <1> QED
    BY <1>1, <1>2, <1>3, <1>6, CallForInv

-----------------------------------------------------------------------------
(* The reference is that of one more user or load. *)
LEMMA CountedMore ==
    ASSUME Shape, Counted, seen.late = 0, NEW m \in DOMAIN module, Count(m),
           \A j \in DOMAIN module : j # m => Users(j)' = Users(j) /\ Loads(j)' = Loads(j),
           \/ Loads(m)' = Loads(m) /\ \E x : x \notin Users(m) /\ Users(m)' = Users(m) \cup {x}
           \/ Users(m)' = Users(m) /\ \E x : x \notin Loads(m) /\ Loads(m)' = Loads(m) \cup {x}
    PROVE  Counted'
  <1>1. /\ DOMAIN module' = DOMAIN module /\ seen'.late = module[m].freed
        /\ \A j \in DOMAIN module :
              /\ module'[j].freed = module[j].freed
              /\ module'[j].count = IF j = m THEN module[m].count + 1 ELSE module[j].count
    BY CountedModule
  <1> SUFFICES ASSUME NEW j \in DOMAIN module
               PROVE  /\ module'[j].count >= Cardinality(Users(j)') + Cardinality(Loads(j)')
                      /\ seen'.late = 0 /\ module'[j].freed = 1 => Users(j)' = {} /\ Loads(j)' = {}
    BY <1>1 DEF Counted
  <1>2. /\ module[j].count >= Cardinality(Users(j)) + Cardinality(Loads(j))
        /\ module[j].freed = 1 => Users(j) = {} /\ Loads(j) = {}
    BY DEF Counted
  <1>3. CASE j # m
    BY <1>1, <1>2, <1>3
  <1>4. CASE j = m
    <2>1. Cardinality(Users(m)) \in Nat /\ Cardinality(Loads(m)) \in Nat /\ module[m].count \in Nat
      BY UsersFinite, ShapeFacts, ModuleFields
    <2>2. Cardinality(Users(m)') + Cardinality(Loads(m)') = (Cardinality(Users(m)) + Cardinality(Loads(m))) + 1
      <3>1. CASE Loads(m)' = Loads(m) /\ \E x : x \notin Users(m) /\ Users(m)' = Users(m) \cup {x}
        <4>1. PICK x : x \notin Users(m) /\ Users(m)' = Users(m) \cup {x}
          BY <3>1
        <4>2. Cardinality(Users(m)') = Cardinality(Users(m)) + 1
          BY <4>1, UsersFinite, OneElement
        <4>3. Cardinality(Loads(m)') = Cardinality(Loads(m))
          BY <3>1
        <4> QED
          BY <2>1, <4>2, <4>3
      <3>2. CASE Users(m)' = Users(m) /\ \E x : x \notin Loads(m) /\ Loads(m)' = Loads(m) \cup {x}
        <4>1. PICK x : x \notin Loads(m) /\ Loads(m)' = Loads(m) \cup {x}
          BY <3>2
        <4>2. Cardinality(Loads(m)') = Cardinality(Loads(m)) + 1
          BY <4>1, UsersFinite, OneElement
        <4>3. Cardinality(Users(m)') = Cardinality(Users(m))
          BY <3>2
        <4> QED
          BY <2>1, <4>2, <4>3
      <3> QED
        BY <3>1, <3>2
    <2>3. module'[m].count = module[m].count + 1
      BY <1>1
    <2>4. module'[m].count >= Cardinality(Users(m)') + Cardinality(Loads(m)')
      BY <1>2, <1>4, <2>1, <2>2, <2>3
    <2> QED
      BY <1>1, <1>4, <2>4
  <1> QED
    BY <1>3, <1>4

LEMMA CountKernelModuleInv ==
    ASSUME LoaderInv, CountKernelModule
    PROVE  LoaderInv'
  <1> USE DEF LoaderInv
  <1>0. PICK m, k : m = Top.found /\ k = Len(loading)
    OBVIOUS
  <1>1. /\ k \in DOMAIN loading /\ Top = loading[k] /\ Top \in CallRec /\ Sound /\ Top.module = NoModule /\ Top.failed = 0
        /\ \A i \in DOMAIN loading : i # k => loading[i].module # NoModule
        /\ loading \in Seq(CallRec) /\ DOMAIN loading = 1..k /\ k \in Nat
        /\ m # NoModule /\ m \in DOMAIN module /\ module[m].file \in Files /\ m \in Nat
    BY <1>0, TopCall, ShapeFacts DEF CountKernelModule, Shape, CallsShape, Known
  <1>2. Count(m) /\ UNCHANGED <<run, process>>
    BY <1>0 DEF CountKernelModule
  <1>3. /\ module' \in Seq(ModuleRec) /\ Len(module') = Len(module) /\ DOMAIN module' = DOMAIN module /\ FilesKept
        /\ \A j \in DOMAIN module :
              /\ module'[j].file = module[j].file /\ module'[j].image = module[j].image
              /\ module'[j].relocated = module[j].relocated /\ module'[j].relocation = module[j].relocation
              /\ module'[j].freed = module[j].freed
        /\ UNCHANGED <<regions, owned, slack, modules>>
        /\ seen' \in SeenRec /\ seen'.fault = seen.fault
        /\ seen'.raced = seen.raced /\ seen'.failed = seen.failed /\ seen'.torn = seen.torn
    BY <1>1, <1>2, CountedModule
  <1>4. /\ loading' \in Seq(CallRec) /\ Len(loading') = k /\ DOMAIN loading' = 1..k
        /\ loading'[k].module = m /\ loading'[k].failed = 0
        /\ \A i \in 1..k : i # k => loading'[i] = loading[i]
    <2> DEFINE x == [loading[k] EXCEPT !.module = m]
    <2>1. x \in CallRec /\ x.module = m /\ x.failed = 0
      BY <1>1 DEF CallRec
    <2>2. loading' = [loading EXCEPT ![k] = x]
      BY <1>0, <1>1 DEF CountKernelModule
    <2> HIDE DEF x
    <2> QED
      BY <1>0, <1>1, <2>1, <2>2, OneChanged
  <1>5. Shape'
    <2>1. ModulesShape'
      BY <1>3 DEF Shape, ModulesShape
    <2>2. RunnersShape'
      BY <1>2, <1>3, RunnersFrame DEF Shape
    <2>3. ASSUME NEW i \in DOMAIN loading' PROVE Known(loading[i].module)' /\ Calling(i)'
      <3>1. CASE i = k
        BY <1>1, <1>3, <1>4, <3>1 DEF Known, Calling
      <3>2. CASE i # k
        <4>1. i \in DOMAIN loading /\ loading'[i] = loading[i] /\ loading[i].module # NoModule
          BY <1>1, <1>4, <2>3, <3>2
        <4>2. Known(loading[i].module)
          BY <4>1 DEF Shape, CallsShape
        <4> QED
          BY <1>3, <4>1, <4>2 DEF Known, Calling
      <3> QED
        BY <3>1, <3>2
    <2> QED
      BY <1>4, <2>1, <2>2, <2>3 DEF Shape, CallsShape
  <1>6. \A j : Users(j)' = Users(j)
    BY <1>2, UsersFrame
  <1>7. ASSUME NEW j \in DOMAIN module
        PROVE  /\ j # m => Loads(j)' = Loads(j)
               /\ j = m => Loads(j)' = Loads(j) \cup {k}
               /\ k \notin Loads(j)
    <2>1. j # NoModule
      BY ShapeFacts
    <2>2. \A i : i \in Loads(j) <=> i \in 1..k /\ loading[i].module = j
      BY <1>1 DEF Loads
    <2>3. \A i : i \in Loads(j)' <=> i \in 1..k /\ loading'[i].module = j
      BY <1>4 DEF Loads
    <2>4. k \notin Loads(j) /\ (k \in Loads(j)' <=> j = m)
      BY <1>1, <1>4, <2>1, <2>2, <2>3
    <2>5. \A i : i # k => (i \in Loads(j)' <=> i \in Loads(j))
      BY <1>4, <2>2, <2>3
    <2> QED
      BY <2>4, <2>5
  <1>8. Counted'
    <2>1. seen.late = 0
      BY <1>1 DEF Sound
    <2>2. \E x : x \notin Loads(m) /\ Loads(m)' = Loads(m) \cup {x}
      BY <1>1, <1>7
    <2> QED
      BY <1>1, <1>2, <1>6, <1>7, <2>1, <2>2, CountedMore
  <1>9. Listed' /\ Relocated'
    BY <1>2, <1>3, ListedFrame, RelocatedFrame, KnownModules
  <1>10. MemoryInv'
    <2>1. ASSUME NEW role, Claims(role) PROVE Claims(role)'
      <3>1. Keeps(role, role, {})
        BY <1>3, <2>1, KeepsAll DEF Claims
      <3>2. \A i \in DOMAIN loading' : loading'[i].module # NoModule
        BY <1>1, <1>4
      <3>3. \A i \in DOMAIN loading' : LoadHas(role, i)'
        BY <3>2 DEF LoadHas
      <3> QED
        BY <1>2, <1>3, <2>1, <3>1, <3>3, ClaimsFrame
    <2> QED
      BY <1>3, <2>1 DEF MemoryInv
  <1> QED
    BY <1>5, <1>8, <1>9, <1>10

(* The relocation of a module and of the data of a process, step by step. *)
LEMMA MovedFrame ==
    ASSUME NEW j, Moved(j), module'[j].relocation = module[j].relocation, module'[j].relocated = module[j].relocated
    PROVE  Moved(j)'
  <1>1. Moves(j)' = Moves(j)
    BY DEF Moves
  <1> QED
    BY <1>1 DEF Moved

LEMMA BehindAppended ==
    ASSUME NEW S, NEW data \in Seq(S), NEW code \in Seq(S), NEW b, NEW done, Behind(data, code, done)
    PROVE  Behind(data, Append(code, b), TRUE)
  <1> DEFINE q == Append(code, b)
  <1>1. Len(q) = Len(code) + 1 /\ Len(code) \in Nat /\ Len(data) \in Nat /\ \A i \in 1..Len(code) : q[i] = code[i]
    OBVIOUS
  <1> HIDE DEF q
  <1>2. Len(data) <= Len(code) /\ \A i \in 1..Len(data) : code[i] = data[i]
    BY DEF Behind
  <1>3. Len(data) < Len(q) /\ \A i \in 1..Len(data) : i \in 1..Len(code)
    BY <1>1, <1>2
  <1>4. Len(data) <= Len(q)
    BY <1>1, <1>3
  <1>5. Behind(data, q, TRUE)
    BY <1>1, <1>2, <1>3, <1>4 DEF Behind
  <1> QED
    BY <1>5 DEF q

LEMMA LagsAppended ==
    ASSUME Shape, NEW l \in Runners, Lags(l), UNCHANGED process[l], NEW k, k = process[l].module, NEW b,
           k # NoModule => module'[k].relocation = Append(module[k].relocation, b)
    PROVE  Lags(l)'
  <1>1. CASE k = NoModule
    BY <1>1 DEF Lags
  <1>2. CASE k # NoModule
    <2>1. k \in DOMAIN module
      BY <1>2, KnownModules DEF Known
    <2>2. process[l] \in ProcessRec /\ module[k] \in ModuleRec
      BY <2>1, ShapeFacts
    <2>3. process[l].data \in Seq(Bases \cup {Kernel}) /\ module[k].relocation \in Seq(Bases \cup {Kernel})
      BY <2>2, ProcessFields, ModuleFields
    <2>4. Behind(process[l].data, module[k].relocation, run[l].pc # "relocate")
      BY <1>2 DEF Lags
    <2>5. Behind(process[l].data, Append(module[k].relocation, b), TRUE)
      BY <2>3, <2>4, BehindAppended
    <2>6. Behind(process'[l].data, module'[k].relocation, TRUE)
      BY <1>2, <2>5
    <2>7. Behind(process'[l].data, module'[k].relocation, run'[l].pc # "relocate")
      BY <2>6 DEF Behind
    <2> QED
      BY <2>7 DEF Lags
  <1> QED
    BY <1>1, <1>2

LEMMA LagsFrame ==
    ASSUME Shape, NEW l \in Runners, Lags(l), UNCHANGED process[l], run'[l].pc = "relocate" <=> run[l].pc = "relocate",
           NEW k, k = process[l].module, k # NoModule => module'[k].relocation = module[k].relocation
    PROVE  Lags(l)'
  <1>1. CASE k = NoModule
    BY <1>1 DEF Lags
  <1>2. CASE k # NoModule
    <2>1. Behind(process[l].data, module[k].relocation, run[l].pc # "relocate")
      BY <1>2 DEF Lags
    <2>2. Behind(process'[l].data, module'[k].relocation, run'[l].pc # "relocate")
      BY <1>2, <2>1 DEF Behind
    <2> QED
      BY <2>2 DEF Lags
  <1> QED
    BY <1>1, <1>2

-----------------------------------------------------------------------------
(* The module of an image that has been read. *)
LEMMA AppendedModule ==
    ASSUME Shape, NEW f \in Files, NEW a \in Nat, AppendLoaded(f, a)
    PROVE  LET n == Len(module) + 1 IN
           /\ module' \in Seq(ModuleRec) /\ Len(module') = n /\ DOMAIN module' = 1..n /\ FilesKept
           /\ n \notin DOMAIN module /\ n \notin seen.torn /\ n \in Nat \ {0}
           /\ \A j \in DOMAIN module : module'[j] = module[j]
           /\ module'[n].file = f /\ module'[n].image = a /\ module'[n].count = 1 /\ module'[n].relocated \in {0, 1}
           /\ module'[n].relocation = <<>> /\ module'[n].freed = 0
           /\ modules' \in Seq(1..n) /\ (\E i \in DOMAIN modules' : modules'[i] = n)
           /\ \A i \in DOMAIN modules : i \in DOMAIN modules' /\ modules'[i] = modules[i]
           /\ UNCHANGED <<regions, owned, slack>>
           /\ seen' \in SeenRec /\ seen'.fault = seen.fault /\ seen'.failed = seen.failed /\ seen'.torn = seen.torn
           /\ seen'.late = seen.late
           /\ seen'.raced = 0 => seen.raced = 0 /\ \A i \in DOMAIN modules : module[modules[i]].file # f
  <1>0. PICK flag \in {0, 1} : Becomes(AppendModule(State, f, a, flag))
    BY DEF AppendLoaded
  <1> DEFINE n == Len(module) + 1
             x == NewRecord(f, a, flag)
             e == IF xtFindModuleList(State, f) > 0 THEN 1 ELSE seen.raced
  <1>1. /\ module \in Seq(ModuleRec) /\ modules \in Seq(1..Len(module)) /\ Len(module) \in Nat
        /\ DOMAIN module = 1..Len(module) /\ seen.torn \subseteq DOMAIN module /\ seen \in SeenRec
    BY ShapeFacts DEF Shape, ModulesShape
  <1>2. /\ module' = Append(module, x) /\ modules' = Append(modules, n) /\ UNCHANGED <<regions, owned, slack>>
    <2> DEFINE t == AppendModule(State, f, a, flag)
    <2>1. t.module = Append(module, x) /\ t.modules = Append(modules, n) /\ t.regions = regions
          /\ t.owned = owned /\ t.slack = slack
      BY AppendStep, StateFields
    <2> HIDE DEF t
    <2> QED
      BY <1>0, <2>1 DEF Becomes, t
  <1>3. /\ x \in ModuleRec /\ x.file = f /\ x.image = a /\ x.count = 1 /\ x.relocated \in {0, 1}
        /\ x.relocation = <<>> /\ x.freed = 0
    BY DEF ModuleRec, NewRecord
  <1> HIDE DEF x
  <1>4. /\ module' \in Seq(ModuleRec) /\ Len(module') = n /\ DOMAIN module' = 1..n
        /\ module'[n] = x /\ \A j \in 1..Len(module) : module'[j] = module[j]
    BY <1>1, <1>2, <1>3
  <1>5. /\ modules \in Seq(1..n) /\ n \in 1..n
    BY <1>1
  <1>6. /\ modules' \in Seq(1..n) /\ (\E i \in DOMAIN modules' : modules'[i] = n)
        /\ \A i \in DOMAIN modules : i \in DOMAIN modules' /\ modules'[i] = modules[i]
    <2> HIDE DEF n
    <2>1. /\ modules' \in Seq(1..n) /\ Len(modules') = Len(modules) + 1 /\ modules'[Len(modules) + 1] = n
          /\ \A i \in 1..Len(modules) : modules'[i] = modules[i]
      BY <1>2, <1>5
    <2>2. Len(modules) \in Nat /\ DOMAIN modules = 1..Len(modules) /\ DOMAIN modules' = 1..(Len(modules) + 1)
      BY <1>5, <2>1
    <2> QED
      BY <2>1, <2>2
  <1>7. n \notin DOMAIN module /\ n \notin seen.torn /\ n \in Nat \ {0}
    BY <1>1
  <1>8. FilesKept
    BY <1>1, <1>4 DEF FilesKept
  <1>9. /\ seen' \in SeenRec /\ seen'.fault = seen.fault /\ seen'.failed = seen.failed /\ seen'.torn = seen.torn
        /\ seen'.late = seen.late /\ seen'.raced = e
    <2>1. e \in {0, 1}
      BY ShapeFacts
    <2>2. seen' = [seen EXCEPT !.raced = e]
      BY DEF AppendLoaded
    <2> HIDE DEF e
    <2> QED
      BY <1>1, <2>1, <2>2, RacedSet
  <1>10. e = 0 => seen.raced = 0 /\ \A i \in DOMAIN modules : module[modules[i]].file # f
    BY Missed
  <1> HIDE DEF e
  <1> QED
    BY <1>1, <1>2, <1>3, <1>4, <1>6, <1>7, <1>8, <1>9, <1>10

LEMMA AppendedListed ==
    ASSUME Shape, Listed, NEW f \in Files, NEW a \in Nat, AppendLoaded(f, a)
    PROVE  Listed'
  <1> DEFINE n == Len(module) + 1
  <1>1. /\ DOMAIN module' = 1..n /\ \A j \in DOMAIN module : module'[j] = module[j]
        /\ module'[n].file = f /\ (\E i \in DOMAIN modules' : modules'[i] = n)
        /\ \A i \in DOMAIN modules : i \in DOMAIN modules' /\ modules'[i] = modules[i]
        /\ seen'.failed = seen.failed
        /\ seen'.raced = 0 => seen.raced = 0 /\ \A i \in DOMAIN modules : module[modules[i]].file # f
    BY AppendedModule
  <1>2. \A j : j \in 1..n <=> j \in DOMAIN module \/ j = n
    BY ShapeFacts
  <1>3. n \notin DOMAIN module
    BY ShapeFacts
  <1> HIDE DEF n
  <1>4. ASSUME seen'.failed = 0, NEW j \in DOMAIN module' PROVE \E i \in DOMAIN modules' : modules'[i] = j
    <2>1. CASE j = n
      BY <1>1, <2>1
    <2>2. CASE j \in DOMAIN module
      BY <1>1, <1>4, <2>2 DEF Listed
    <2> QED
      BY <1>1, <1>2, <2>1, <2>2
  <1>5. OneImagePerFile'
    <2> SUFFICES ASSUME seen'.raced = 0, seen'.failed = 0, NEW i \in DOMAIN module', NEW j \in DOMAIN module', i # j
                 PROVE  module'[i].file # module'[j].file
      BY DEF OneImagePerFile
    <2>1. \A k \in DOMAIN module : module[k].file # f
      BY <1>1 DEF Listed
    <2>2. \A k, m \in DOMAIN module : k # m => module[k].file # module[m].file
      BY <1>1 DEF Listed, OneImagePerFile
    <2> QED
      BY <1>1, <1>2, <2>1, <2>2
  <1> QED
    BY <1>4, <1>5 DEF Listed

(* Nobody has the module before there is one. *)
LEMMA NewModule ==
    ASSUME Shape, NEW n, n \notin DOMAIN module, n # NoModule
    PROVE  Users(n) = {} /\ Loads(n) = {}
  <1>1. \A l \in Runners : run[l].module # n /\ process[l].module # n
    BY DEF Shape, RunnersShape, Known
  <1>2. \A i \in DOMAIN loading : loading[i].module # n
    BY DEF Shape, CallsShape, Known
  <1> QED
    BY <1>1, <1>2 DEF Users, Loads

LEMMA AppendedCounted ==
    ASSUME Shape, Counted, NEW f \in Files, NEW a \in Nat, AppendLoaded(f, a),
           \A j \in DOMAIN module : Users(j)' = Users(j) /\ Loads(j)' = Loads(j),
           NEW n, n = Len(module) + 1, Cardinality(Users(n)') + Cardinality(Loads(n)') = 1
    PROVE  Counted'
  <1>1. /\ DOMAIN module' = 1..n /\ \A j \in DOMAIN module : module'[j] = module[j]
        /\ module'[n].count = 1 /\ module'[n].freed = 0 /\ seen'.late = seen.late
    BY AppendedModule
  <1>2. \A j : j \in 1..n <=> j \in DOMAIN module \/ j = n
    BY ShapeFacts
  <1> SUFFICES ASSUME NEW j \in DOMAIN module'
               PROVE  /\ module'[j].count >= Cardinality(Users(j)') + Cardinality(Loads(j)')
                      /\ seen'.late = 0 /\ module'[j].freed = 1 => Users(j)' = {} /\ Loads(j)' = {}
    BY DEF Counted
  <1>3. CASE j \in DOMAIN module
    BY <1>1, <1>3 DEF Counted
  <1>4. CASE j = n
    BY <1>1, <1>4
  <1> QED
    BY <1>1, <1>2, <1>3, <1>4

LEMMA AppendedRelocated ==
    ASSUME Shape, Relocated, NEW f \in Files, NEW a \in Nat, AppendLoaded(f, a), UNCHANGED process,
           \A l \in Runners : run'[l].pc = "relocate" <=> run[l].pc = "relocate"
    PROVE  Relocated'
  <1>0. PICK n : n = Len(module) + 1
    OBVIOUS
  <1>1. /\ DOMAIN module' = 1..n /\ \A j \in DOMAIN module : module'[j] = module[j]
        /\ module'[n].relocation = <<>>
    BY <1>0, AppendedModule
  <1>2. \A j : j \in 1..n <=> j \in DOMAIN module \/ j = n
    BY <1>0, ShapeFacts
  <1>3. ASSUME NEW j \in DOMAIN module' PROVE Moved(j)'
    <2>1. CASE j = n
      <3>1. Moves(n)' = {}
        BY <1>1 DEF Moves
      <3>2. Cardinality({}) = 0
        BY FS_EmptySet
      <3>3. Cardinality(Moves(n)') = 0
        BY <3>1, <3>2, Zenon
      <3>4. Cardinality(Moves(n)') <= 1
        BY <3>3
      <3> QED
        BY <2>1, <3>1, <3>4 DEF Moved
    <2>2. CASE j \in DOMAIN module
      <3>1. Moves(j)' = Moves(j) /\ module'[j] = module[j]
        BY <1>1, <2>2 DEF Moves
      <3> QED
        BY <2>2, <3>1 DEF Relocated, Moved
    <2> QED
      BY <1>1, <1>2, <1>3, <2>1, <2>2
  <1>4. ASSUME NEW l \in Runners PROVE Lags(l)'
    <2>1. CASE process[l].module = NoModule
      BY <2>1 DEF Lags
    <2>2. CASE process[l].module # NoModule
      <3>1. PICK k : k = process[l].module
        OBVIOUS
      <3>2. k \in DOMAIN module
        BY <2>2, <3>1, KnownModules DEF Known
      <3>3. Behind(process[l].data, module[k].relocation, run[l].pc # "relocate")
        BY <2>2, <3>1 DEF Relocated, Lags
      <3>4. module'[k] = module[k] /\ (run'[l].pc # "relocate" <=> run[l].pc # "relocate")
        BY <1>1, <3>2
      <3>5. Behind(process'[l].data, module'[k].relocation, run'[l].pc # "relocate")
        BY <3>3, <3>4 DEF Behind
      <3> QED
        BY <3>1, <3>5 DEF Lags
    <2> QED
      BY <2>1, <2>2
  <1> QED
    BY <1>3, <1>4 DEF Relocated

(* The pieces of memory, of which one goes to the module. *)
LEMMA KeepsMoved ==
    ASSUME NEW role \in [Nat -> Roles], NEW a \in Nat, NEW who \in Roles, UNCHANGED owned
    PROVE  Keeps(role, [role EXCEPT ![a] = who], {role[a]}) /\ [role EXCEPT ![a] = who][a] = who
  <1> DEFINE new == [role EXCEPT ![a] = who]
  <1>1. new \in [Nat -> Roles] /\ new[a] = who /\ \A b \in Nat : b # a => new[b] = role[b]
    BY RoleGiven
  <1> HIDE DEF new
  <1>2. ASSUME NEW b, NEW n, NEW w, Has(role, b, n, w), w # role[a] PROVE Has(new, b, n, w)'
    <2>1. b \in Nat /\ Piece(b, n) \in owned /\ role[b] = w /\ b # a
      BY <1>2 DEF Has
    <2> QED
      BY <1>1, <2>1 DEF Has
  <1> QED
    BY <1>1, <1>2 DEF Keeps, new

(* The new module has its image; what the others have stays theirs. *)
LEMMA AppendedHas ==
    ASSUME Shape, NEW f \in Files, NEW a \in Nat, AppendLoaded(f, a), NEW n, n = Len(module) + 1,
           NEW role, Claims(role), NEW who, Has(role, a, ImagePages, who), \A m : who # <<"module", m>>,
           NEW new, new = [role EXCEPT ![a] = <<"module", n>>]
    PROVE  Keeps(role, new, {who}) /\ \A m \in DOMAIN module' : ModuleHas(new, m)'
  <1>1. /\ DOMAIN module' = 1..n /\ n \in Nat /\ \A j \in DOMAIN module : module'[j] = module[j]
        /\ module'[n].image = a /\ seen'.torn = seen.torn /\ UNCHANGED owned
    BY AppendedModule
  <1>2. \A j : j \in 1..n <=> j \in DOMAIN module \/ j = n
    BY ShapeFacts
  <1>3. <<"module", n>> \in Roles /\ role \in [Nat -> Roles] /\ role[a] = who
    BY <1>1, RoleKinds DEF Claims, Has
  <1>4. Keeps(role, new, {who}) /\ new[a] = <<"module", n>>
    BY <1>1, <1>3, KeepsMoved
  <1>5. Has(new, a, ImagePages, <<"module", n>>)'
    BY <1>1, <1>4 DEF Has
  <1>6. ASSUME NEW m \in DOMAIN module' PROVE ModuleHas(new, m)'
    <2>1. CASE m = n
      BY <1>1, <1>5, <2>1 DEF ModuleHas
    <2>2. CASE m \in DOMAIN module
      <3>1. ModuleHas(role, m) /\ module'[m] = module[m] /\ <<"module", m>> \notin {who}
        BY <1>1, <2>2 DEF Claims
      <3> QED
        BY <1>1, <1>4, <3>1 DEF ModuleHas, Keeps
    <2> QED
      BY <1>1, <1>2, <2>1, <2>2
  <1> QED
    BY <1>4, <1>6

LEMMA AppendKernelModuleInv ==
    ASSUME LoaderInv, AppendKernelModule
    PROVE  LoaderInv'
  <1> USE DEF LoaderInv
  <1>0. PICK f, a, n, k : f = Top.file /\ a = Top.image /\ n = Len(module) + 1 /\ k = Len(loading)
    OBVIOUS
  <1>1. /\ k \in DOMAIN loading /\ Top = loading[k] /\ Top \in CallRec /\ Sound /\ Top.module = NoModule /\ Top.failed = 0
        /\ Top.found = NoModule /\ \A i \in DOMAIN loading : i # k => loading[i].module # NoModule
        /\ loading \in Seq(CallRec) /\ DOMAIN loading = 1..k /\ k \in Nat
    BY <1>0, TopCall, ShapeFacts DEF AppendKernelModule, Shape, CallsShape
  <1>2. f \in Files /\ a \in Nat /\ AppendLoaded(f, a)
    BY <1>0, <1>1, CallFields DEF AppendKernelModule
  <1>3. /\ module' \in Seq(ModuleRec) /\ Len(module') = n /\ DOMAIN module' = 1..n /\ FilesKept
        /\ n \notin DOMAIN module /\ n \in Nat \ {0} /\ DOMAIN module \subseteq DOMAIN module'
        /\ module'[n].file = f /\ \A j \in DOMAIN module : module'[j] = module[j]
        /\ modules' \in Seq(1..n) /\ UNCHANGED <<regions, owned, slack>>
        /\ seen' \in SeenRec /\ seen'.fault = seen.fault /\ seen'.torn = seen.torn
    BY <1>0, <1>2, AppendedModule DEF FilesKept
  <1>4. UNCHANGED <<run, process>>
    BY DEF AppendKernelModule
  <1>5. /\ loading' \in Seq(CallRec) /\ Len(loading') = k /\ DOMAIN loading' = 1..k
        /\ loading'[k].module = n /\ loading'[k].failed = 0
        /\ \A i \in 1..k : i # k => loading'[i] = loading[i]
    <2> DEFINE x == [loading[k] EXCEPT !.module = n]
    <2>1. x \in CallRec /\ x.module = n /\ x.failed = 0
      BY <1>1, <1>3 DEF CallRec
    <2>2. loading' = [loading EXCEPT ![k] = x]
      BY <1>0, <1>1 DEF AppendKernelModule
    <2> HIDE DEF x
    <2> QED
      BY <1>0, <1>1, <2>1, <2>2, OneChanged
  <1>6. Shape'
    <2>1. ModulesShape'
      BY <1>3 DEF Shape, ModulesShape
    <2>2. RunnersShape'
      BY <1>3, <1>4, RunnersFrame DEF Shape
    <2>3. CallsShape'
      <3>1. ASSUME NEW i \in DOMAIN loading' PROVE Known(loading[i].module)' /\ Calling(i)'
        <4>1. CASE i = k
          BY <1>2, <1>3, <1>5, <4>1 DEF Known, Calling, NoModule
        <4>2. CASE i # k
          <5>1. i \in DOMAIN loading /\ loading'[i] = loading[i] /\ loading[i].module # NoModule
            BY <1>1, <1>5, <4>2
          <5>2. Known(loading[i].module)
            BY <5>1 DEF Shape, CallsShape
          <5> QED
            BY <1>3, <5>1, <5>2 DEF Known, Calling
        <4> QED
          BY <4>1, <4>2
      <3> QED
        BY <1>5, <3>1 DEF CallsShape
    <2> QED
      BY <2>1, <2>2, <2>3 DEF Shape
  <1>7. \A j : Users(j)' = Users(j)
    BY <1>4, UsersFrame
  <1>8. \A j \in DOMAIN module : Loads(j)' = Loads(j)
    <2> SUFFICES ASSUME NEW j \in DOMAIN module PROVE Loads(j)' = Loads(j)
      OBVIOUS
    <2>1. j # n /\ j # NoModule
      BY <1>3, ShapeFacts
    <2>2. \A i \in 1..k : loading'[i].module = j <=> loading[i].module = j
      BY <1>1, <1>5, <2>1
    <2> QED
      BY <1>1, <1>5, <2>2 DEF Loads
  <1>9. Users(n)' = {} /\ Loads(n)' = {k}
    <2>1. Users(n) = {} /\ Loads(n) = {}
      BY <1>3, NewModule DEF NoModule
    <2>2. \A i \in 1..k : loading'[i].module = n <=> i = k
      BY <1>1, <1>5, <2>1 DEF Loads
    <2> QED
      BY <1>1, <1>5, <1>7, <2>1, <2>2 DEF Loads
  <1>10. Counted'
    <2>1. Cardinality({}) = 0 /\ Cardinality({k}) = 1
      BY FS_EmptySet, FS_Singleton
    <2>2. Cardinality(Users(n)') + Cardinality(Loads(n)') = 1
      BY <1>9, <2>1
    <2> QED
      BY <1>0, <1>2, <1>7, <1>8, <2>2, AppendedCounted
  <1>11. Listed'
    BY <1>2, AppendedListed
  <1>12. Relocated'
    BY <1>2, <1>4, AppendedRelocated
  <1>13. MemoryInv'
    <2>1. ASSUME NEW role, Claims(role) PROVE \E new : Claims(new)'
      <3>1. PICK new : new = [role EXCEPT ![a] = <<"module", n>>]
        OBVIOUS
      <3>2. Has(role, a, ImagePages, <<"load", 0>>) /\ \A m : <<"load", 0>> # <<"module", m>>
        BY <1>0, <1>1, <2>1 DEF Claims, LoadHas
      <3>3. Keeps(role, new, {<<"load", 0>>}) /\ \A m \in DOMAIN module' : ModuleHas(new, m)'
        BY <1>0, <1>2, <2>1, <3>1, <3>2, AppendedHas
      <3>4. \A i \in DOMAIN loading' : LoadHas(new, i)'
        BY <1>1, <1>3, <1>5 DEF LoadHas, NoModule
      <3>5. ASSUME NEW l \in Runners
            PROVE  /\ RunHas(role, l) => RunHas(new, l)'
                   /\ ProcessHas(role, l) => ProcessHas(new, l)'
                   /\ StackHas(role, l) => StackHas(new, l)'
        <4>1. process[l].module # NoModule => module'[process[l].module].image = module[process[l].module].image
          BY <1>3 DEF Shape, RunnersShape, Known
        <4>2. {<<"run", l>>, <<"data", l>>, <<"args", l>>, <<"stack", l>>} \cap {<<"load", 0>>} = {}
          OBVIOUS
        <4> QED
          BY <1>4, <3>3, <4>1, <4>2, RunnerKeeps
      <3>6. Claims(new)'
        BY <1>3, <2>1, <3>3, <3>4, <3>5 DEF Claims, Keeps
      <3> QED
        BY <3>6
    <2> QED
      BY <1>3, <2>1 DEF MemoryInv
  <1> QED
    BY <1>6, <1>10, <1>11, <1>12, <1>13

LEMMA AppendProgramInv ==
    ASSUME LoaderInv, NEW l \in Runners, AppendProgram(l)
    PROVE  LoaderInv'
  <1> USE DEF LoaderInv
  <1>0. PICK f, a, n : f = run[l].file /\ a = run[l].image /\ n = Len(module) + 1
    OBVIOUS
  <1>1. /\ run[l] \in RunRec /\ run[l].pc = "append" /\ run[l].module = NoModule /\ process[l].module = NoModule
        /\ f \in Files /\ a \in Nat /\ AppendLoaded(f, a) /\ process[l].memoryMap = <<>>
    BY <1>0, ShapeFacts, RunFields DEF AppendProgram, At, Shape, RunnersShape, Stepping
  <1>2. /\ module' \in Seq(ModuleRec) /\ Len(module') = n /\ DOMAIN module' = 1..n /\ FilesKept
        /\ n \notin DOMAIN module /\ n \in Nat \ {0} /\ DOMAIN module \subseteq DOMAIN module'
        /\ module'[n].file = f /\ \A j \in DOMAIN module : module'[j] = module[j]
        /\ modules' \in Seq(1..n) /\ UNCHANGED <<regions, owned, slack>>
        /\ seen' \in SeenRec /\ seen'.fault = seen.fault /\ seen'.torn = seen.torn
    BY <1>0, <1>1, AppendedModule DEF FilesKept
  <1>3. UNCHANGED <<process, loading>>
    BY DEF AppendProgram
  <1>4. /\ run' \in [Runners -> RunRec] /\ run'[l].pc = "map" /\ run'[l].module = n
        /\ \A k \in Runners : k # l => run'[k] = run[k]
    <2> DEFINE y == [run[l] EXCEPT !.pc = "map"]
               x == [y EXCEPT !.module = n]
    <2>1. y \in RunRec /\ y.pc = "map"
      BY <1>1 DEF RunRec
    <2>2. x \in RunRec /\ x.pc = "map" /\ x.module = n
      <3> HIDE DEF y
      <3> QED
        BY <1>2, <2>1 DEF RunRec
    <2>3. run \in [Runners -> RunRec]
      BY DEF Shape, RunnersShape
    <2>4. run' = [run EXCEPT ![l] = x]
      BY <1>0, <2>3 DEF AppendProgram
    <2> HIDE DEF x
    <2> QED
      BY <2>2, <2>3, <2>4
  <1>5. Shape'
    <2>1. ModulesShape'
      BY <1>2 DEF Shape, ModulesShape
    <2>2. ASSUME NEW k \in Runners PROVE Known(run[k].module)' /\ Known(process[k].module)' /\ Stepping(k)'
      <3>1. Known(run[k].module) /\ Known(process[k].module) /\ Stepping(k)
        BY DEF Shape, RunnersShape
      <3>2. CASE k = l
        BY <1>1, <1>2, <1>3, <1>4, <3>2 DEF Known, Stepping, NoModule
      <3>3. CASE k # l
        BY <1>2, <1>3, <1>4, <3>1, <3>3 DEF Known, Stepping
      <3> QED
        BY <3>2, <3>3
    <2>3. RunnersShape'
      BY <1>3, <1>4, <2>2 DEF Shape, RunnersShape
    <2>4. CallsShape'
      BY <1>2, <1>3, CallsFrame DEF Shape
    <2> QED
      BY <2>1, <2>3, <2>4 DEF Shape
  <1>6. \A j : Loads(j)' = Loads(j)
    BY <1>3, LoadsFrame
  <1>7. \A j \in DOMAIN module : Users(j)' = Users(j) /\ l \notin Users(j)
    <2> SUFFICES ASSUME NEW j \in DOMAIN module PROVE Users(j)' = Users(j) /\ l \notin Users(j)
      OBVIOUS
    <2>1. j # n /\ j # NoModule
      BY <1>2, ShapeFacts
    <2>2. l \notin Users(j)
      BY <1>1, <2>1 DEF Users
    <2>3. \A k \in Runners : k \in Users(j)' <=> k \in Users(j)
      BY <1>1, <1>3, <1>4, <2>1 DEF Users
    <2>4. Users(j)' \subseteq Runners /\ Users(j) \subseteq Runners
      BY DEF Users
    <2> QED
      BY <2>2, <2>3, <2>4
  <1>8. Users(n)' = {l} /\ Loads(n)' = {}
    <2>1. Users(n) = {} /\ Loads(n) = {}
      BY <1>2, NewModule DEF NoModule
    <2>2. \A k \in Runners : k \in Users(n)' <=> k = l
      BY <1>3, <1>4, <2>1 DEF Users
    <2>3. Users(n)' \subseteq Runners
      BY DEF Users
    <2> QED
      BY <1>6, <2>1, <2>2, <2>3
  <1>9. Counted'
    <2>1. Cardinality({}) = 0 /\ Cardinality({l}) = 1
      BY FS_EmptySet, FS_Singleton
    <2>2. Cardinality(Users(n)') + Cardinality(Loads(n)') = 1
      BY <1>8, <2>1
    <2> QED
      BY <1>0, <1>1, <1>6, <1>7, <2>2, AppendedCounted
  <1>10. Listed'
    BY <1>1, AppendedListed
  <1>11. Relocated'
    <2>1. \A k \in Runners : run'[k].pc = "relocate" <=> run[k].pc = "relocate"
      BY <1>1, <1>4
    <2> QED
      BY <1>1, <1>3, <2>1, AppendedRelocated
  <1>12. MemoryInv'
    <2>1. ASSUME NEW role, Claims(role) PROVE \E new : Claims(new)'
      <3>1. PICK new : new = [role EXCEPT ![a] = <<"module", n>>]
        OBVIOUS
      <3>2. Has(role, a, ImagePages, <<"run", l>>) /\ \A m : <<"run", l>> # <<"module", m>>
        BY <1>0, <1>1, <2>1 DEF Claims, RunHas
      <3>3. Keeps(role, new, {<<"run", l>>}) /\ \A m \in DOMAIN module' : ModuleHas(new, m)'
        BY <1>0, <1>1, <2>1, <3>1, <3>2, AppendedHas
      <3>4. ASSUME NEW i \in DOMAIN loading' PROVE LoadHas(new, i)'
        <4>1. LoadHas(role, i) /\ <<"load", 0>> \notin {<<"run", l>>}
          BY <1>3, <2>1, <3>4 DEF Claims
        <4> QED
          BY <1>3, <3>3, <4>1 DEF LoadHas, Keeps
      <3>5. ASSUME NEW k \in Runners, k # l
            PROVE  /\ RunHas(role, k) => RunHas(new, k)'
                   /\ ProcessHas(role, k) => ProcessHas(new, k)'
                   /\ StackHas(role, k) => StackHas(new, k)'
        <4>1. process[k].module # NoModule => module'[process[k].module].image = module[process[k].module].image
          BY <1>2 DEF Shape, RunnersShape, Known
        <4>2. {<<"run", k>>, <<"data", k>>, <<"args", k>>, <<"stack", k>>} \cap {<<"run", l>>} = {}
          BY <3>5
        <4> QED
          BY <1>3, <1>4, <3>3, <3>5, <4>1, <4>2, RunnerKeeps
      <3>6. RunHas(new, l)' /\ ProcessHas(new, l)' /\ StackHas(new, l)'
        BY <1>1, <1>3, <1>4 DEF RunHas, ProcessHas, StackHas
      <3>7. Claims(new)'
        BY <1>2, <2>1, <3>3, <3>4, <3>5, <3>6 DEF Claims, Keeps
      <3> QED
        BY <3>7
    <2> QED
      BY <1>2, <2>1 DEF MemoryInv
  <1> QED
    BY <1>5, <1>9, <1>10, <1>11, <1>12

-----------------------------------------------------------------------------
LEMMA FrontOf ==
    ASSUME NEW S, NEW s \in Seq(S), NEW n \in Nat \ {0}, Len(s) = n
    PROVE  /\ Front(s) \in Seq(S) /\ Len(Front(s)) = n - 1 /\ DOMAIN Front(s) = 1..(n - 1)
           /\ \A i \in 1..(n - 1) : Front(s)[i] = s[i]
  <1> DEFINE m == n - 1
             q == SubSeq(s, 1, m)
  <1>1. m \in Nat /\ m <= Len(s) /\ Front(s) = q
    BY DEF Front
  <1> HIDE DEF m
  <1>2. q \in Seq(S) /\ Len(q) = m /\ \A i \in 1..m : q[i] = s[i]
    BY <1>1
  <1>3. DOMAIN q = 1..m
    BY <1>2
  <1> HIDE DEF q
  <1> QED
    BY <1>1, <1>2, <1>3 DEF m

(* The innermost call returns. *)
LEMMA Popped ==
    ASSUME Shape, Loading, FilesKept, loading' = Front(loading) \/ loading' = Failing(Front(loading))
    PROVE  /\ CallsShape' /\ \A i \in DOMAIN loading' : loading'[i].module # NoModule
           /\ \A j : Loads(j)' = Loads(j) \ {Len(loading)}
  <1> DEFINE k == Len(loading)
             q == Front(loading)
  <1>1. /\ k \in 1..k /\ k \in Nat /\ DOMAIN loading = 1..k /\ loading \in Seq(CallRec)
        /\ \A i \in 1..k : i # k => loading[i].module # NoModule
    BY TopCall, ShapeFacts DEF Shape, CallsShape
  <1>2. q \in Seq(CallRec) /\ Len(q) = k - 1 /\ DOMAIN q = 1..(k - 1) /\ \A i \in 1..(k - 1) : q[i] = loading[i]
    <2>1. k \in Nat \ {0}
      <3> HIDE DEF k
      <3> QED
        BY <1>1
    <2> QED
      BY <1>1, <2>1, FrontOf
  <1> HIDE DEF q
  <1>3. /\ loading' \in Seq(CallRec) /\ Len(loading') = k - 1 /\ DOMAIN loading' = 1..(k - 1)
        /\ \A i \in 1..(k - 1) : loading'[i].module = loading[i].module
    <2>1. CASE loading' = q
      BY <1>2, <2>1
    <2>2. CASE loading' = Failing(q)
      BY <1>2, <2>2, FailingCalls
    <2> QED
      BY <2>1, <2>2 DEF q
  <1> HIDE DEF k
  <1>4. \A i : i \in 1..(k - 1) <=> i \in 1..k /\ i # k
    BY <1>1
  <1>5. \A i \in DOMAIN loading' : loading'[i].module # NoModule
    BY <1>1, <1>3, <1>4
  <1>6. ASSUME NEW i \in DOMAIN loading' PROVE Known(loading[i].module)' /\ Calling(i)'
    <2>1. i \in DOMAIN loading /\ loading'[i].module = loading[i].module /\ loading'[i].module # NoModule
      BY <1>1, <1>3, <1>4, <1>5, <1>6
    <2>2. Known(loading[i].module)
      BY <2>1 DEF Shape, CallsShape
    <2> QED
      BY <2>1, <2>2 DEF Known, Calling, FilesKept
  <1>7. ASSUME NEW j PROVE Loads(j)' = Loads(j) \ {k}
    <2>1. \A i : i \in Loads(j)' <=> i \in 1..(k - 1) /\ loading'[i].module = j
      BY <1>3 DEF Loads
    <2>2. \A i : i \in Loads(j) <=> i \in 1..k /\ loading[i].module = j
      BY <1>1 DEF Loads
    <2>3. \A i : i \in Loads(j)' <=> i \in Loads(j) /\ i # k
      BY <1>3, <1>4, <2>1, <2>2
    <2> QED
      BY <2>3
  <1> QED
    BY <1>3, <1>5, <1>6, <1>7 DEF CallsShape, k

(* The loads of a module without that one, and of the others. *)
LEMMA LoadsLess ==
    ASSUME Shape, Loading, Top.module # NoModule
    PROVE  /\ \A j \in DOMAIN module : j # Top.module => Loads(j) \ {Len(loading)} = Loads(j)
           /\ Cardinality(Loads(Top.module) \ {Len(loading)}) = Cardinality(Loads(Top.module)) - 1
           /\ Cardinality(Loads(Top.module)) >= 1 /\ Len(loading) \in Loads(Top.module)
  <1> DEFINE k == Len(loading)
             m == Top.module
  <1>1. k \in DOMAIN loading /\ Top = loading[k]
    BY TopCall
  <1>2. k \in Loads(m) /\ \A j : j # m => k \notin Loads(j)
    BY <1>1 DEF Loads
  <1>3. IsFiniteSet(Loads(m))
    BY UsersFinite
  <1> HIDE DEF k, m
  <1>4. Cardinality(Loads(m) \ {k}) = Cardinality(Loads(m)) - 1 /\ Cardinality(Loads(m)) >= 1
    BY <1>2, <1>3, OneElement
  <1>5. \A j : j # m => Loads(j) \ {k} = Loads(j)
    BY <1>2
  <1> QED
    BY <1>2, <1>4, <1>5 DEF k, m

LEMMA ReturnLoadedInv ==
    ASSUME LoaderInv, ReturnLoaded
    PROVE  LoaderInv'
  <1> USE DEF LoaderInv
  <1>0. PICK m, k : m = Top.module /\ k = Len(loading)
    OBVIOUS
  <1>1. /\ Loading /\ m # NoModule /\ m \in DOMAIN module /\ module \in Seq(ModuleRec) /\ module[m] \in ModuleRec
        /\ DOMAIN module = 1..Len(module)
    BY <1>0, TopCall, ShapeFacts DEF ReturnLoaded, Shape, ModulesShape
  <1>2. UNCHANGED <<run, process, seen>> /\ loading' = Front(loading)
    BY DEF ReturnLoaded
  <1>3. /\ UNCHANGED <<regions, owned, slack, modules>>
        /\ \E x \in ModuleRec :
              /\ module' = [module EXCEPT ![m] = x]
              /\ x.file = module[m].file /\ x.image = module[m].image /\ x.count = module[m].count
              /\ x.freed = module[m].freed /\ x.relocated = 1
              /\ x.relocation = IF module[m].relocated = 0 THEN Append(module[m].relocation, Kernel)
                                ELSE module[m].relocation
    <2> DEFINE t == Settle(State, m)
    <2>1. /\ t.regions = regions /\ t.owned = owned /\ t.slack = slack /\ t.modules = modules
          /\ \E x \in ModuleRec :
              /\ t.module = [module EXCEPT ![m] = x]
              /\ x.file = module[m].file /\ x.image = module[m].image /\ x.count = module[m].count
              /\ x.freed = module[m].freed /\ x.relocated = 1
              /\ x.relocation = IF module[m].relocated = 0 THEN Append(module[m].relocation, Kernel)
                                ELSE module[m].relocation
      BY <1>1, SettleStep, StateFields
    <2> HIDE DEF t
    <2>2. Becomes(t)
      BY <1>0 DEF ReturnLoaded, t
    <2> QED
      BY <2>1, <2>2 DEF Becomes
  <1>4. PICK x \in ModuleRec :
              /\ module' = [module EXCEPT ![m] = x]
              /\ x.file = module[m].file /\ x.image = module[m].image /\ x.count = module[m].count
              /\ x.freed = module[m].freed /\ x.relocated = 1
              /\ x.relocation = IF module[m].relocated = 0 THEN Append(module[m].relocation, Kernel)
                                ELSE module[m].relocation
    BY <1>3
  <1>5. /\ module' \in Seq(ModuleRec) /\ Len(module') = Len(module) /\ DOMAIN module' = DOMAIN module
        /\ module'[m] = x /\ \A j \in DOMAIN module : j # m => module'[j] = module[j]
    BY <1>1, <1>4, OneChanged
  <1>6. /\ FilesKept
        /\ \A j \in DOMAIN module : /\ module'[j].file = module[j].file /\ module'[j].image = module[j].image
                                    /\ module'[j].freed = module[j].freed /\ module'[j].count = module[j].count
    BY <1>4, <1>5 DEF FilesKept
  <1>7. /\ CallsShape' /\ \A i \in DOMAIN loading' : loading'[i].module # NoModule
        /\ \A j : Loads(j)' = Loads(j) \ {k}
    BY <1>0, <1>1, <1>2, <1>6, Popped
  <1>8. Shape'
    BY <1>2, <1>3, <1>5, <1>6, <1>7, RunnersFrame DEF Shape, ModulesShape
  <1>9. \A j : Users(j)' = Users(j)
    BY <1>2, UsersFrame
  <1>10. Counted'
    <2> SUFFICES ASSUME NEW j \in DOMAIN module
                 PROVE  /\ module'[j].count >= Cardinality(Users(j)') + Cardinality(Loads(j)')
                        /\ seen'.late = 0 /\ module'[j].freed = 1 => Users(j)' = {} /\ Loads(j)' = {}
      BY <1>5 DEF Counted
    <2>1. /\ module[j].count >= Cardinality(Users(j)) + Cardinality(Loads(j))
          /\ seen.late = 0 /\ module[j].freed = 1 => Users(j) = {} /\ Loads(j) = {}
      BY DEF Counted
    <2>2. CASE j # m
      <3>1. Loads(j)' = Loads(j)
        BY <1>0, <1>1, <1>7, <2>2, LoadsLess
      <3> QED
        BY <1>2, <1>6, <1>9, <2>1, <3>1
    <2>3. CASE j = m
      <3>1. /\ Cardinality(Loads(m)') = Cardinality(Loads(m)) - 1
            /\ Cardinality(Loads(m)) >= 1 /\ k \in Loads(m)
        BY <1>0, <1>1, <1>7, LoadsLess
      <3>2. Cardinality(Users(m)) \in Nat /\ Cardinality(Loads(m)) \in Nat
        BY UsersFinite
      <3>3. module[m].count \in Nat /\ module'[m].count = module[m].count /\ Users(m)' = Users(m)
        BY <1>1, <1>6, <1>9, ModuleFields
      <3>4. Cardinality(Users(m)') = Cardinality(Users(m))
        BY <3>3
      <3>5. module'[m].count >= Cardinality(Users(m)') + Cardinality(Loads(m)')
        BY <2>1, <2>3, <3>1, <3>2, <3>3, <3>4
      <3> QED
        BY <1>2, <1>6, <1>7, <1>9, <2>1, <2>3, <3>1, <3>5
    <2> QED
      BY <2>2, <2>3
  <1>11. Listed'
    BY <1>2, <1>3, <1>5, <1>6, ListedFrame
  <1>12. ASSUME NEW j \in DOMAIN module PROVE Moved(j)'
    <2>1. Moved(j)
      BY DEF Relocated
    <2>2. CASE j # m
      BY <1>5, <2>1, <2>2, MovedFrame
    <2>3. CASE j = m
      <3>1. module'[m].relocated = 1
        BY <1>4, <1>5
      <3>2. Cardinality(Moves(m)') <= 1
        <4> DEFINE r == module[m].relocation
        <4>1. r \in Seq(Bases \cup {Kernel}) /\ Len(r) \in Nat /\ DOMAIN r = 1..Len(r)
          BY <1>1, ModuleFields
        <4>2. Moves(m) = {i \in DOMAIN r : r[i] = Kernel}
              /\ Moves(m)' = {i \in DOMAIN x.relocation : x.relocation[i] = Kernel}
          BY <1>5 DEF Moves
        <4>3. CASE module[m].relocated # 0
          <5>1. x.relocation = r
            BY <1>4, <4>3
          <5> HIDE DEF r
          <5> QED
            BY <2>1, <2>3, <4>2, <5>1 DEF Moved
        <4>4. CASE module[m].relocated = 0
          <5>1. x.relocation = Append(r, Kernel) /\ Moves(m) = {}
            BY <1>4, <2>1, <2>3, <4>4 DEF Moved
          <5> HIDE DEF r
          <5> DEFINE q == Append(r, Kernel)
          <5>2. DOMAIN q = 1..(Len(r) + 1) /\ q[Len(r) + 1] = Kernel /\ \A i \in 1..Len(r) : q[i] = r[i]
            BY <4>1
          <5> HIDE DEF q
          <5>3. \A i \in 1..Len(r) : r[i] # Kernel
            BY <4>1, <4>2, <5>1
          <5>4. {i \in DOMAIN q : q[i] = Kernel} = {Len(r) + 1}
            BY <4>1, <5>2, <5>3
          <5>5. Moves(m)' = {Len(r) + 1}
            BY <4>2, <5>1, <5>4 DEF q
          <5>6. Cardinality({Len(r) + 1}) = 1
            BY FS_Singleton
          <5>7. Cardinality(Moves(m)') = 1
            BY <5>5, <5>6, Zenon
          <5> QED
            BY <5>7
        <4> QED
          BY <4>3, <4>4
      <3> QED
        BY <2>3, <3>1, <3>2 DEF Moved
    <2> QED
      BY <2>2, <2>3
  <1>13. ASSUME NEW l \in Runners PROVE Lags(l)'
    <2>1. Lags(l) /\ UNCHANGED <<run, process>>
      BY <1>2 DEF Relocated
    <2>2. PICK i : i = process[l].module
      OBVIOUS
    <2>3. i # NoModule => i \in DOMAIN module
      BY <2>2, KnownModules DEF Known
    <2>4. CASE i = m /\ module[m].relocated = 0
      <3>1. module'[i].relocation = Append(module[i].relocation, Kernel)
        BY <1>4, <1>5, <2>4
      <3>2. Lags(l) /\ UNCHANGED process[l]
        BY <2>1
      <3> QED
        BY <2>2, <3>1, <3>2, LagsAppended
    <2>5. CASE i # m \/ module[m].relocated # 0
      <3>1. i # NoModule => module'[i].relocation = module[i].relocation
        BY <1>4, <1>5, <2>3, <2>5
      <3> QED
        BY <2>1, <2>2, <3>1, LagsFrame
    <2> QED
      BY <2>4, <2>5
  <1>14. Relocated'
    BY <1>5, <1>12, <1>13 DEF Relocated
  <1>15. MemoryInv'
    <2>1. ASSUME NEW role, Claims(role) PROVE Claims(role)'
      <3>1. Keeps(role, role, {})
        BY <1>3, <2>1, KeepsAll DEF Claims
      <3>2. \A i \in DOMAIN loading' : LoadHas(role, i)'
        BY <1>7 DEF LoadHas
      <3> QED
        BY <1>2, <1>3, <1>5, <1>6, <2>1, <3>1, <3>2, ClaimsFrame
    <2> QED
      BY <1>2, <1>3, <2>1 DEF MemoryInv
  <1> QED
    BY <1>8, <1>10, <1>11, <1>15, <1>14

LEMMA ReturnFailedInv ==
    ASSUME LoaderInv, ReturnFailed
    PROVE  LoaderInv'
  <1> USE DEF LoaderInv
  <1>0. PICK m, k : m = Top.module /\ k = Len(loading)
    OBVIOUS
  <1>1. /\ Loading /\ m # NoModule /\ m \in DOMAIN module /\ module \in Seq(ModuleRec) /\ module[m] \in ModuleRec
        /\ DOMAIN module = 1..Len(module) /\ module[m].file \in Files /\ modules \in Seq(1..Len(module))
    <2>1. Loading /\ Top.failed = 1
      BY DEF ReturnFailed
    <2> QED
      BY <1>0, <2>1, TopCall, ShapeFacts DEF Shape, ModulesShape
  <1>2. /\ Cardinality(Loads(m) \ {k}) = Cardinality(Loads(m)) - 1
        /\ Cardinality(Loads(m)) >= 1 /\ k \in Loads(m)
        /\ \A j \in DOMAIN module : j # m => Loads(j) \ {k} = Loads(j)
    BY <1>0, <1>1, LoadsLess
  <1>3. /\ module[m].count >= Cardinality(Users(m)) + Cardinality(Loads(m)) /\ m \notin seen.torn
        /\ module[m].freed = 1 => Users(m) = {} /\ Loads(m) = {}
    BY <1>1, <1>2 DEF Counted, Loading, Sound
  <1>4. /\ Cardinality(Users(m)) \in Nat /\ Cardinality(Loads(m)) \in Nat
        /\ module[m].count \in Nat /\ module[m].freed = 0 /\ module[m].freed \in {0, 1}
    BY <1>1, <1>2, <1>3, UsersFinite, ModuleFields
  <1>5. module[m].count >= 1
    BY <1>2, <1>3, <1>4
  <1>6. module[m].count = 1 => Users(m) = {} /\ Loads(m) = {k}
    <2> SUFFICES ASSUME module[m].count = 1 PROVE Users(m) = {} /\ Loads(m) = {k}
      OBVIOUS
    <2>1. Cardinality(Users(m)) = 0 /\ Cardinality(Loads(m)) = 1
      BY <1>2, <1>3, <1>4
    <2>2. Users(m) = {}
      BY <2>1, UsersFinite, OneElement
    <2>3. Loads(m) = {k}
      BY <1>2, <2>1, UsersFinite, OneElement
    <2> QED
      BY <2>2, <2>3
  <1>7. seen.fault = 0 /\ MemoryOK(regions, owned, slack)
    BY <1>1 DEF Loading, Sound, MemoryInv
  <1>8. PICK role : Claims(role)
    BY <1>7 DEF MemoryInv
  <1>9. module[m].count = 1 => Has(role, module[m].image, ImagePages, <<"module", m>>)
    BY <1>1, <1>3, <1>4, <1>8 DEF Claims, ModuleHas
  <1>d. PICK detached \in BOOLEAN : \E u :
            /\ u = xtDecrementReference(State, m, detached) /\ Becomes(u)
            /\ seen' = [seen EXCEPT !.failed = 1, !.fault = u.fault]
    BY <1>0, Zenon DEF ReturnFailed
  <1>10. PICK t :
            /\ t = xtDecrementReference(State, m, detached) /\ Becomes(t)
            /\ seen' = [seen EXCEPT !.failed = 1, !.fault = t.fault]
    BY <1>d, Zenon
  <1>11. /\ MemoryOK(t.regions, t.owned, t.slack) /\ t.modules \in Seq(1..Len(module))
         /\ t.torn = seen.torn /\ t.fault \in {0, 1}
         /\ \A q \in owned : module[m].count # 1 \/ q.start # module[m].image => q \in t.owned
         /\ AllLinked(t.regions) => AllLinked(regions)
         /\ \E x \in ModuleRec :
               /\ t.module = [module EXCEPT ![m] = x]
               /\ x.file = module[m].file /\ x.image = module[m].image /\ x.relocated = module[m].relocated
               /\ x.relocation = module[m].relocation /\ x.count = module[m].count - 1
               /\ x.freed = IF module[m].count = 1 THEN 1 ELSE module[m].freed
    <2>1. module[m].count = 1 => Piece(module[m].image, ImagePages) \in owned
      BY <1>9 DEF Has
    <2>2. PICK s : s = State
      OBVIOUS
    <2>3. /\ Shaped(s) /\ s.regions = regions /\ s.owned = owned /\ s.slack = slack /\ s.modules = modules
          /\ s.module = module /\ s.torn = seen.torn /\ s.fault = 0
      BY <1>7, <2>2, StateFields
    <2>4. Decremented(s, m, t)
      <3>1. /\ s.module \in Seq(ModuleRec) /\ s.modules \in Seq(1..Len(s.module)) /\ m \in DOMAIN s.module
            /\ s.module[m].count >= 1 /\ s.fault \in {0, 1} /\ MemoryOK(s.regions, s.owned, s.slack)
            /\ s.module[m].count = 1 => Piece(s.module[m].image, ImagePages) \in s.owned
        BY <1>1, <1>5, <1>7, <2>1, <2>3
      <3>2. t = xtDecrementReference(s, m, detached)
        BY <1>10, <2>2
      <3> QED
        BY <2>3, <3>1, <3>2, DecrementStep
    <2> QED
      BY <2>3, <2>4 DEF Decremented
  <1>12. /\ regions' = t.regions /\ owned' = t.owned /\ slack' = t.slack /\ modules' = t.modules /\ module' = t.module
         /\ UNCHANGED <<run, process>> /\ loading' = Failing(Front(loading))
         /\ seen' = [seen EXCEPT !.failed = 1, !.fault = t.fault]
    BY <1>10 DEF ReturnFailed, Becomes
  <1>13. PICK x \in ModuleRec :
               /\ module' = [module EXCEPT ![m] = x]
               /\ x.file = module[m].file /\ x.image = module[m].image /\ x.relocated = module[m].relocated
               /\ x.relocation = module[m].relocation /\ x.count = module[m].count - 1
               /\ x.freed = IF module[m].count = 1 THEN 1 ELSE module[m].freed
    BY <1>11, <1>12
  <1>14. /\ module' \in Seq(ModuleRec) /\ Len(module') = Len(module) /\ DOMAIN module' = DOMAIN module
         /\ module'[m] = x /\ \A j \in DOMAIN module : j # m => module'[j] = module[j]
    BY <1>1, <1>13, OneChanged
  <1>15. /\ FilesKept
         /\ \A j \in DOMAIN module : /\ module'[j].file = module[j].file /\ module'[j].image = module[j].image
                                     /\ module'[j].relocated = module[j].relocated
                                     /\ module'[j].relocation = module[j].relocation
    BY <1>13, <1>14 DEF FilesKept
  <1>16. /\ seen' \in SeenRec /\ seen'.failed = 1 /\ seen'.fault = t.fault /\ seen'.torn = seen.torn
         /\ seen'.late = seen.late
    <2> DEFINE y == [seen EXCEPT !.failed = 1]
    <2>1. y \in SeenRec /\ y.failed = 1 /\ y.torn = seen.torn /\ y.late = seen.late
      BY FailedSet DEF Shape, ModulesShape
    <2>2. PICK e : e = t.fault
      OBVIOUS
    <2>3. seen' = [y EXCEPT !.fault = e] /\ e \in {0, 1}
      BY <1>11, <1>12, <2>2
    <2> HIDE DEF y
    <2> QED
      BY <2>1, <2>2, <2>3, FaultSet
  <1>17. /\ CallsShape' /\ \A i \in DOMAIN loading' : loading'[i].module # NoModule
         /\ \A j : Loads(j)' = Loads(j) \ {k}
    BY <1>0, <1>1, <1>12, <1>15, Popped
  <1>18. Shape'
    BY <1>11, <1>12, <1>14, <1>15, <1>16, <1>17, RunnersFrame DEF Shape, ModulesShape
  <1>19. \A j : Users(j)' = Users(j)
    BY <1>12, UsersFrame
  <1>20. Counted'
    <2> SUFFICES ASSUME NEW j \in DOMAIN module
                 PROVE  /\ module'[j].count >= Cardinality(Users(j)') + Cardinality(Loads(j)')
                        /\ seen'.late = 0 /\ module'[j].freed = 1 => Users(j)' = {} /\ Loads(j)' = {}
      BY <1>14 DEF Counted
    <2>1. /\ module[j].count >= Cardinality(Users(j)) + Cardinality(Loads(j))
          /\ seen.late = 0 /\ module[j].freed = 1 => Users(j) = {} /\ Loads(j) = {}
      BY DEF Counted
    <2>2. Users(j)' = Users(j)
      BY <1>19
    <2>3. CASE j # m
      <3>1. Loads(j)' = Loads(j) /\ module'[j] = module[j]
        BY <1>2, <1>14, <1>17, <2>3
      <3> QED
        BY <1>16, <2>1, <2>2, <3>1
    <2>4. CASE j = m
      <3>1. Cardinality(Loads(m)') = Cardinality(Loads(m)) - 1 /\ Loads(m)' = Loads(m) \ {k}
        BY <1>2, <1>17
      <3>2. module'[m].count = module[m].count - 1 /\ Cardinality(Users(m)') = Cardinality(Users(m))
        BY <1>13, <1>14, <2>2, <2>4
      <3>3. module'[m].count >= Cardinality(Users(m)') + Cardinality(Loads(m)')
        BY <1>3, <1>4, <3>1, <3>2
      <3>4. module'[m].freed = 1 => module[m].count = 1
        BY <1>4, <1>13, <1>14
      <3>5. module'[m].freed = 1 => Users(m)' = {} /\ Loads(m)' = {}
        BY <1>6, <1>19, <3>1, <3>4
      <3> QED
        BY <2>4, <3>3, <3>5
    <2> QED
      BY <2>3, <2>4
  <1>21. Listed'
    BY <1>16 DEF Listed, OneImagePerFile
  <1>22. Relocated'
    BY <1>12, <1>14, <1>15, RelocatedFrame, KnownModules
  <1>23. MemoryInv'
    <2>1. Keeps(role, role, {<<"module", m>>})
      <3>1. ASSUME NEW b, NEW n, NEW w, Has(role, b, n, w), w # <<"module", m>> PROVE Has(role, b, n, w)'
        <4>1. b \in Nat /\ Piece(b, n) \in owned /\ role[b] = w /\ Piece(b, n).start = b
          BY <3>1 DEF Has, Piece
        <4>2. module[m].count # 1 \/ b # module[m].image
          BY <1>9, <3>1, <4>1 DEF Has
        <4> QED
          BY <1>11, <1>12, <4>1, <4>2 DEF Has
      <3> QED
        BY <1>8, <3>1 DEF Keeps, Claims
    <2>2. ASSUME NEW j \in DOMAIN module PROVE ModuleHas(role, j)'
      <3>1. ModuleHas(role, j)
        BY <1>8 DEF Claims
      <3>2. CASE j # m
        <4>1. <<"module", j>> \notin {<<"module", m>>} /\ module'[j] = module[j]
          BY <1>14, <3>2
        <4> QED
          BY <1>16, <2>1, <3>1, <4>1 DEF ModuleHas, Keeps
      <3>3. CASE j = m /\ module[m].count = 1
        BY <1>13, <1>14, <3>3 DEF ModuleHas
      <3>4. CASE j = m /\ module[m].count # 1
        <4>1. owned \subseteq owned'
          BY <1>11, <1>12, <3>4
        <4> QED
          BY <1>13, <1>14, <1>16, <3>1, <3>4, <4>1 DEF ModuleHas, Has
      <3> QED
        BY <3>2, <3>3, <3>4
    <2>3. ASSUME NEW l \in Runners
          PROVE  /\ RunHas(role, l) => RunHas(role, l)'
                 /\ ProcessHas(role, l) => ProcessHas(role, l)'
                 /\ StackHas(role, l) => StackHas(role, l)'
      <3>1. process[l].module # NoModule => module'[process[l].module].image = module[process[l].module].image
        BY <1>15 DEF Shape, RunnersShape, Known
      <3>2. {<<"run", l>>, <<"data", l>>, <<"args", l>>, <<"stack", l>>} \cap {<<"module", m>>} = {}
        OBVIOUS
      <3>3. UNCHANGED <<run[l], process[l]>>
        BY <1>12
      <3> QED
        BY <2>1, <3>1, <3>2, <3>3, RunnerKeeps
    <2>4. \A i \in DOMAIN loading' : LoadHas(role, i)'
      BY <1>17 DEF LoadHas
    <2>5. Claims(role)'
      BY <1>8, <1>11, <1>12, <1>14, <2>2, <2>3, <2>4 DEF Claims
    <2> QED
      BY <1>11, <1>12, <2>5 DEF MemoryInv
  <1> QED
    BY <1>18, <1>20, <1>21, <1>22, <1>23

-----------------------------------------------------------------------------
(***************************************************************************)
(* A step of one runner.                                                   *)
(***************************************************************************)
OthersStay(l) == \A k \in Runners : k # l => run'[k] = run[k] /\ process'[k] = process[k]

LEMMA OneRunner ==
    ASSUME Shape, FilesKept, NEW l \in Runners, run' \in [Runners -> RunRec], process' \in [Runners -> ProcessRec],
           OthersStay(l), Stepping(l)',
           run'[l].module = NoModule \/ (run'[l].module \in DOMAIN module /\ module[run'[l].module].file \in Files),
           process'[l].module \in {NoModule, run'[l].module, process[l].module}
    PROVE  RunnersShape'
  <1> SUFFICES ASSUME NEW k \in Runners
               PROVE  Known(run[k].module)' /\ Known(process[k].module)' /\ Stepping(k)'
    BY DEF RunnersShape
  <1>1. Known(run[k].module) /\ Known(process[k].module) /\ Stepping(k)
    BY DEF Shape, RunnersShape
  <1>2. CASE k = l
    BY <1>1, <1>2 DEF Known, FilesKept
  <1>3. CASE k # l
    <2>1. run'[k] = run[k] /\ process'[k] = process[k]
      BY <1>3 DEF OthersStay
    <2> QED
      BY <1>1, <2>1 DEF Known, FilesKept, Stepping
  <1> QED
    BY <1>2, <1>3

(* Who uses a module after it. *)
LEMMA UsersChange ==
    ASSUME NEW l \in Runners, OthersStay(l), NEW j
    PROVE  /\ j \in {run'[l].module, process'[l].module} => Users(j)' = Users(j) \cup {l}
           /\ j \notin {run'[l].module, process'[l].module} => Users(j)' = Users(j) \ {l}
           /\ l \in Users(j) <=> j \in {run[l].module, process[l].module}
  <1>1. \A k : k \in Users(j) <=> k \in Runners /\ j \in {run[k].module, process[k].module}
    BY DEF Users
  <1>2. \A k : k \in Users(j)' <=> k \in Runners /\ j \in {run'[k].module, process'[k].module}
    BY DEF Users
  <1>3. \A k : k # l => (k \in Users(j)' <=> k \in Users(j))
    BY <1>1, <1>2 DEF OthersStay
  <1>4. l \in Users(j)' <=> j \in {run'[l].module, process'[l].module}
    BY <1>2
  <1>5. l \in Users(j) <=> j \in {run[l].module, process[l].module}
    BY <1>1
  <1>6. CASE j \in {run'[l].module, process'[l].module}
    BY <1>3, <1>4, <1>5, <1>6
  <1>7. CASE j \notin {run'[l].module, process'[l].module}
    BY <1>3, <1>4, <1>5, <1>7
  <1> QED
    BY <1>5, <1>6, <1>7

(* Its users stay when the runner keeps its module. *)
LEMMA UsersStay ==
    ASSUME NEW l \in Runners, OthersStay(l), NEW j,
           j \in {run'[l].module, process'[l].module} <=> j \in {run[l].module, process[l].module}
    PROVE  Users(j)' = Users(j)
  BY UsersChange

(* The claims: those of the runner, and those of all others. *)
LEMMA ClaimsOne ==
    ASSUME Shape, NEW l \in Runners, NEW role, Claims(role), NEW new, NEW gone, Keeps(role, new, gone), OthersStay(l),
           \A m \in DOMAIN module : module'[m].image = module[m].image,
           \A k \in Runners : k # l => {<<"run", k>>, <<"data", k>>, <<"args", k>>, <<"stack", k>>} \cap gone = {},
           <<"load", 0>> \notin gone, UNCHANGED loading,
           AllLinked(regions') => AllLinked(regions),
           \A m \in DOMAIN module' : ModuleHas(new, m)',
           RunHas(new, l)', ProcessHas(new, l)', AllLinked(regions') => StackHas(new, l)'
    PROVE  Claims(new)'
  <1>1. ASSUME NEW k \in Runners, k # l
        PROVE  /\ RunHas(role, k) => RunHas(new, k)'
               /\ ProcessHas(role, k) => ProcessHas(new, k)'
               /\ StackHas(role, k) => StackHas(new, k)'
    <2>1. process[k].module # NoModule => module'[process[k].module].image = module[process[k].module].image
      BY DEF Shape, RunnersShape, Known
    <2>2. {<<"run", k>>, <<"data", k>>, <<"args", k>>, <<"stack", k>>} \cap gone = {}
      BY <1>1
    <2>3. UNCHANGED <<run[k], process[k]>>
      BY <1>1 DEF OthersStay
    <2> QED
      BY <2>1, <2>2, <2>3, RunnerKeeps
  <1>2. ASSUME NEW i \in DOMAIN loading' PROVE LoadHas(new, i)'
    <2>1. LoadHas(role, i)
      BY <1>2 DEF Claims
    <2> QED
      BY <2>1 DEF LoadHas, Keeps
  <1>3. \A k \in Runners : RunHas(new, k)' /\ ProcessHas(new, k)'
    BY <1>1 DEF Claims
  <1>4. AllLinked(regions') => \A k \in Runners : StackHas(new, k)'
    BY <1>1 DEF Claims
  <1> QED
    BY <1>2, <1>3, <1>4 DEF Claims, Keeps

(* Modules that keep what the claims are about. *)
LEMMA ModulesKeep ==
    ASSUME NEW role, Claims(role), NEW new, NEW gone, Keeps(role, new, gone), DOMAIN module' = DOMAIN module,
           seen.torn \subseteq seen'.torn, \A m \in DOMAIN module : <<"module", m>> \in gone => m \in seen'.torn,
           \A m \in DOMAIN module : /\ module'[m].file = module[m].file /\ module'[m].image = module[m].image
                                    /\ module'[m].freed = module[m].freed
    PROVE  \A m \in DOMAIN module' : ModuleHas(new, m)'
  <1> TAKE m \in DOMAIN module'
  <1>1. /\ module'[m].file = module[m].file /\ module'[m].image = module[m].image
        /\ module'[m].freed = module[m].freed /\ (m \in seen.torn => m \in seen'.torn) /\ ModuleHas(role, m)
    BY DEF Claims
  <1>2. CASE m \in seen'.torn
    BY <1>2 DEF ModuleHas
  <1>3. CASE m \notin seen'.torn
    BY <1>1, <1>3 DEF ModuleHas, Keeps
  <1> QED
    BY <1>2, <1>3

(* The record of a program whose module has been found or read. *)
ProgramRec(f, g, a, p) == [NoRun EXCEPT !.file = f, !.found = g, !.image = a, !.pc = p]

LEMMA ProgramRun ==
    ASSUME NEW f \in Files, NEW g \in Nat, NEW a \in Nat, NEW p \in {"append", "count"}
    PROVE  LET x == ProgramRec(f, g, a, p) IN
           x \in RunRec /\ x.file = f /\ x.found = g /\ x.module = NoModule /\ x.image = a /\ x.pc = p
  <1> DEFINE r == [NoRun EXCEPT !.file = f]
             s == [r EXCEPT !.found = g]
             t == [s EXCEPT !.image = a]
             x == [t EXCEPT !.pc = p]
  <1>1. r \in RunRec /\ r.file = f /\ r.module = NoModule
    BY DEF NoRun, RunRec, NoModule, Nowhere
  <1> HIDE DEF r
  <1>2. s \in RunRec /\ s.file = f /\ s.module = NoModule /\ s.found = g
    BY <1>1 DEF RunRec
  <1> HIDE DEF s
  <1>3. t \in RunRec /\ t.file = f /\ t.module = NoModule /\ t.found = g /\ t.image = a
    BY <1>2 DEF RunRec
  <1> HIDE DEF t
  <1>4. x \in RunRec /\ x.file = f /\ x.module = NoModule /\ x.found = g /\ x.image = a /\ x.pc = p
    BY <1>3 DEF RunRec
  <1> QED
    BY <1>4 DEF r, s, t, ProgramRec

(* xtExecuteProgram finds the module on the list. *)
LEMMA ProgramHit ==
    ASSUME LoaderInv, Sound, NEW l \in Runners, NEW f \in Files, NEW m \in DOMAIN module, Hit(f, m),
           run[l].pc = "idle", process[l].module = NoModule,
           NEW x, x \in RunRec, x.pc = "count", x.module = NoModule, x.found = m, run' = [run EXCEPT ![l] = x],
           NEW e, e = Get(f).state.fault, seen' = [seen EXCEPT !.fault = e], UNCHANGED <<process, loading>>
    PROVE  LoaderInv'
  <1> USE DEF LoaderInv
  <1>1. /\ seen' \in SeenRec /\ seen'.fault = seen.fault /\ seen'.raced = seen.raced
        /\ seen'.failed = seen.failed /\ seen'.torn = seen.torn /\ seen'.late = seen.late
    <2>1. e = seen.fault /\ e \in {0, 1} /\ seen \in SeenRec
      BY ShapeFacts DEF Shape, ModulesShape, Hit
    <2> QED
      BY <2>1, FaultSet
  <1>2. /\ UNCHANGED <<regions, owned, slack, modules, module>> /\ module[m].file \in Files /\ m # NoModule /\ FilesKept
    BY ShapeFacts DEF Hit, FilesKept
  <1>3. run' \in [Runners -> RunRec] /\ run'[l] = x /\ OthersStay(l) /\ process \in [Runners -> ProcessRec]
    BY DEF Shape, RunnersShape, OthersStay
  <1>4. run[l].module = NoModule /\ process[l].memoryMap = <<>>
    BY DEF Shape, RunnersShape, Stepping
  <1>5. Shape'
    <2>1. ModulesShape'
      BY <1>1, <1>2 DEF Shape, ModulesShape
    <2>2. Stepping(l)'
      BY <1>2, <1>3, <1>4 DEF Stepping, Known
    <2>3. RunnersShape'
      BY <1>2, <1>3, <2>2, OneRunner
    <2>4. CallsShape'
      BY <1>2, CallsFrame DEF Shape
    <2> QED
      BY <2>1, <2>3, <2>4 DEF Shape
  <1>6. \A j : Loads(j)' = Loads(j) /\ Users(j)' = Users(j)
    BY <1>3, <1>4, LoadsFrame, UsersStay
  <1>7. Counted' /\ Listed'
    BY <1>1, <1>2, <1>6, CountedFrame, ListedFrame
  <1>8. Relocated'
    <2>1. \A k \in Runners : run'[k].pc = "relocate" <=> run[k].pc = "relocate"
      BY <1>3 DEF OthersStay
    <2> QED
      BY <1>2, <2>1, RelocatedFrame, KnownModules
  <1>9. MemoryInv'
    <2>1. ASSUME NEW role, Claims(role) PROVE Claims(role)'
      <3>1. Keeps(role, role, {})
        BY <1>2, <2>1, KeepsAll DEF Claims
      <3>2. \A j \in DOMAIN module' : ModuleHas(role, j)'
        BY <1>1, <1>2, <2>1, <3>1, ModulesKeep
      <3>3. RunHas(role, l)' /\ ProcessHas(role, l)' /\ StackHas(role, l)'
        BY <1>3 DEF RunHas, ProcessHas, StackHas
      <3> QED
        BY <1>2, <1>3, <2>1, <3>1, <3>2, <3>3, ClaimsOne
    <2> QED
      BY <1>1, <1>2, <2>1 DEF MemoryInv
  <1> QED
    BY <1>5, <1>7, <1>8, <1>9

(* xtExecuteProgram counts its reference to the module that it has found. *)
LEMMA CountProgramInv ==
    ASSUME LoaderInv, NEW l \in Runners, CountProgram(l)
    PROVE  LoaderInv'
  <1> USE DEF LoaderInv
  <1>0. PICK m : m = run[l].found
    OBVIOUS
  <1>1. /\ Sound /\ run[l].pc = "count" /\ run[l] \in RunRec /\ run[l].module = NoModule /\ process[l].module = NoModule
        /\ m # NoModule /\ m \in DOMAIN module /\ module[m].file \in Files /\ m \in Nat /\ process[l].memoryMap = <<>>
    BY <1>0, ShapeFacts DEF CountProgram, At, Shape, RunnersShape, Stepping, Known
  <1>2. Count(m) /\ UNCHANGED <<process, loading>> /\ run' = [run EXCEPT ![l].pc = "map", ![l].module = m]
    BY <1>0 DEF CountProgram
  <1>3. /\ module' \in Seq(ModuleRec) /\ Len(module') = Len(module) /\ DOMAIN module' = DOMAIN module /\ FilesKept
        /\ \A j \in DOMAIN module :
              /\ module'[j].file = module[j].file /\ module'[j].image = module[j].image
              /\ module'[j].relocated = module[j].relocated /\ module'[j].relocation = module[j].relocation
              /\ module'[j].freed = module[j].freed
        /\ UNCHANGED <<regions, owned, slack, modules>>
        /\ seen' \in SeenRec /\ seen'.fault = seen.fault
        /\ seen'.raced = seen.raced /\ seen'.failed = seen.failed /\ seen'.torn = seen.torn
    BY <1>1, <1>2, CountedModule
  <1>4. /\ run' \in [Runners -> RunRec] /\ run'[l].pc = "map" /\ run'[l].module = m /\ OthersStay(l)
        /\ process' \in [Runners -> ProcessRec]
    <2> DEFINE y == [run[l] EXCEPT !.pc = "map"]
               x == [y EXCEPT !.module = m]
    <2>1. y \in RunRec /\ y.pc = "map"
      BY <1>1 DEF RunRec
    <2>2. x \in RunRec /\ x.pc = "map" /\ x.module = m
      <3> HIDE DEF y
      <3> QED
        BY <1>1, <2>1 DEF RunRec
    <2>3. run \in [Runners -> RunRec] /\ process \in [Runners -> ProcessRec]
      BY DEF Shape, RunnersShape
    <2>4. run' = [run EXCEPT ![l] = x]
      BY <1>2, <2>3
    <2> HIDE DEF x
    <2> QED
      BY <1>2, <2>2, <2>3, <2>4 DEF OthersStay
  <1>5. Shape'
    <2>1. ModulesShape'
      BY <1>3 DEF Shape, ModulesShape
    <2>2. Stepping(l)'
      BY <1>1, <1>2, <1>4 DEF Stepping
    <2>3. RunnersShape'
      BY <1>1, <1>2, <1>3, <1>4, <2>2, OneRunner
    <2>4. CallsShape'
      BY <1>2, <1>3, CallsFrame DEF Shape
    <2> QED
      BY <2>1, <2>3, <2>4 DEF Shape
  <1>6. \A j : Loads(j)' = Loads(j)
    BY <1>2, LoadsFrame
  <1>7. ASSUME NEW j \in DOMAIN module
        PROVE  /\ j # m => Users(j)' = Users(j)
               /\ j = m => Users(j)' = Users(j) \cup {l}
               /\ l \notin Users(j)
    <2>1. j # NoModule
      BY ShapeFacts
    <2>2. l \notin Users(j)
      BY <1>1, <1>4, <2>1, UsersChange
    <2>3. CASE j = m
      BY <1>4, <2>2, <2>3, UsersChange
    <2>4. CASE j # m
      <3>1. Users(j)' = Users(j) \ {l}
        BY <1>1, <1>2, <1>4, <2>1, <2>4, UsersChange
      <3> QED
        BY <2>2, <2>4, <3>1
    <2> QED
      BY <2>2, <2>3, <2>4
  <1>8. Counted'
    <2>1. seen.late = 0
      BY <1>1 DEF Sound
    <2>2. \E x : x \notin Users(m) /\ Users(m)' = Users(m) \cup {x}
      BY <1>1, <1>7
    <2> QED
      BY <1>1, <1>2, <1>6, <1>7, <2>1, <2>2, CountedMore
  <1>9. Listed'
    BY <1>3, ListedFrame
  <1>10. Relocated'
    <2>1. \A k \in Runners : run'[k].pc = "relocate" <=> run[k].pc = "relocate"
      BY <1>1, <1>4 DEF OthersStay
    <2> QED
      BY <1>2, <1>3, <2>1, RelocatedFrame, KnownModules
  <1>11. MemoryInv'
    <2>1. ASSUME NEW role, Claims(role) PROVE Claims(role)'
      <3>1. Keeps(role, role, {})
        BY <1>3, <2>1, KeepsAll DEF Claims
      <3>2. \A j \in DOMAIN module' : ModuleHas(role, j)'
        BY <1>3, <2>1, <3>1, ModulesKeep
      <3>3. RunHas(role, l)' /\ ProcessHas(role, l)' /\ StackHas(role, l)'
        BY <1>1, <1>2, <1>4 DEF RunHas, ProcessHas, StackHas
      <3> QED
        BY <1>2, <1>3, <1>4, <2>1, <3>1, <3>2, <3>3, ClaimsOne
    <2> QED
      BY <1>3, <2>1 DEF MemoryInv
  <1> QED
    BY <1>5, <1>8, <1>9, <1>10, <1>11

(* xtExecuteProgram reads the image. *)
LEMMA ProgramMiss ==
    ASSUME LoaderInv, Sound, NEW l \in Runners, NEW f \in Files, NEW a \in Nat, NEW e \in {0, 1}, Miss(f, a, e),
           run[l].pc = "idle", process[l].module = NoModule,
           NEW x, x \in RunRec, x.pc = "append", x.module = NoModule, x.file = f, x.image = a,
           run' = [run EXCEPT ![l] = x],
           seen' = [seen EXCEPT !.fault = e], UNCHANGED <<process, loading>>
    PROVE  LoaderInv'
  <1> USE DEF LoaderInv
  <1>1. /\ seen' \in SeenRec /\ seen'.fault = e /\ seen'.raced = seen.raced
        /\ seen'.failed = seen.failed /\ seen'.torn = seen.torn /\ seen'.late = seen.late
    BY FaultSet DEF Shape, ModulesShape
  <1>2. /\ UNCHANGED <<modules, module>> /\ MemoryOK(regions', owned', slack') /\ owned \subseteq owned'
        /\ AllLinked(regions') => AllLinked(regions)
        /\ e = 0 => seen.fault = 0 /\ Piece(a, ImagePages) \in owned' /\ \A o \in owned : o.start # a
    BY DEF Miss
  <1>3. FilesKept
    BY <1>2 DEF FilesKept
  <1>4. run' \in [Runners -> RunRec] /\ run'[l] = x /\ OthersStay(l) /\ process \in [Runners -> ProcessRec]
    BY DEF Shape, RunnersShape, OthersStay
  <1>5. run[l].module = NoModule /\ process[l].memoryMap = <<>>
    BY DEF Shape, RunnersShape, Stepping
  <1>6. Shape'
    <2>1. ModulesShape'
      BY <1>1, <1>2 DEF Shape, ModulesShape
    <2>2. Stepping(l)'
      BY <1>4, <1>5 DEF Stepping
    <2>3. RunnersShape'
      BY <1>3, <1>4, <2>2, OneRunner
    <2>4. CallsShape'
      BY <1>3, CallsFrame DEF Shape
    <2> QED
      BY <2>1, <2>3, <2>4 DEF Shape
  <1>7. \A j : Loads(j)' = Loads(j) /\ Users(j)' = Users(j)
    BY <1>4, <1>5, LoadsFrame, UsersStay
  <1>8. Counted' /\ Listed'
    BY <1>1, <1>2, <1>7, CountedFrame, ListedFrame
  <1>9. Relocated'
    <2>1. \A k \in Runners : run'[k].pc = "relocate" <=> run[k].pc = "relocate"
      BY <1>4 DEF OthersStay
    <2> QED
      BY <1>2, <2>1, RelocatedFrame, KnownModules
  <1>10. MemoryInv'
    <2>1. ASSUME e = 0, NEW role, Claims(role) PROVE \E new : Claims(new)'
      <3> DEFINE new == [role EXCEPT ![a] = <<"run", l>>]
      <3>1. Keeps(role, new, {}) /\ new[a] = <<"run", l>>
        BY <1>2, <2>1, KeepsTaken, RoleKinds DEF Claims
      <3> HIDE DEF new
      <3>2. \A j \in DOMAIN module' : ModuleHas(new, j)'
        BY <1>1, <1>2, <2>1, <3>1, ModulesKeep
      <3>3. RunHas(new, l)' /\ ProcessHas(new, l)' /\ StackHas(new, l)'
        BY <1>2, <1>4, <2>1, <3>1 DEF RunHas, ProcessHas, StackHas, Has
      <3>4. Claims(new)'
        BY <1>2, <1>4, <2>1, <3>1, <3>2, <3>3, ClaimsOne
      <3> QED
        BY <3>4
    <2> QED
      BY <1>1, <1>2, <2>1 DEF MemoryInv
  <1> QED
    BY <1>6, <1>8, <1>9, <1>10

LEMMA GetProgramInv ==
    ASSUME LoaderInv, NEW l \in Runners, NEW f \in Files, GetProgram(l, f)
    PROVE  LoaderInv'
  <1>1. Sound /\ run[l].pc = "idle" /\ process[l].module = NoModule
    BY DEF GetProgram, At
  <1>2. CASE ReadsFreed(State, f) /\ Crashes
    BY <1>2, CrashesInv
  <1>3. CASE ~(ReadsFreed(State, f) /\ Crashes)
    <2>1. PICK e, x : /\ e = Get(f).state.fault
                      /\ x = [NoRun EXCEPT
                        !.file = f, !.found = Get(f).found, !.image = Get(f).image,
                        !.pc = IF Get(f).found = NoModule THEN "append" ELSE "count"]
      OBVIOUS
    <2>2. /\ ~ReadsFreed(State, f) /\ Becomes(Get(f).state) /\ run' = [run EXCEPT ![l] = x]
          /\ seen' = [seen EXCEPT !.fault = e] /\ UNCHANGED <<process, loading>>
      BY <1>3, <2>1, Zenon DEF GetProgram
    <2>3. (\E m \in DOMAIN module : Hit(f, m)) \/ (\E a \in Nat, e2 \in {0, 1} : Miss(f, a, e2))
      BY <1>1, <2>2, GetStep DEF LoaderInv
    <2>4. ASSUME NEW m \in DOMAIN module, Hit(f, m) PROVE LoaderInv'
      <3>1. m \in Nat /\ m # NoModule /\ 0 \in Nat /\ "count" \in {"append", "count"}
        BY ShapeFacts DEF LoaderInv, NoModule
      <3>2. Get(f).found = m /\ Get(f).image = 0
        BY <2>4 DEF Hit
      <3>3. x = ProgramRec(f, m, 0, "count")
        BY <2>1, <3>1, <3>2, Zenon DEF ProgramRec
      <3>4. x \in RunRec /\ x.pc = "count" /\ x.found = m /\ x.module = NoModule
        BY <3>1, <3>3, ProgramRun
      <3> QED
        BY <1>1, <2>1, <2>2, <2>4, <3>4, ProgramHit
    <2>5. ASSUME NEW a \in Nat, NEW e2 \in {0, 1}, Miss(f, a, e2) PROVE LoaderInv'
      <3>1. Get(f).found = NoModule /\ Get(f).image = a /\ e2 = e /\ NoModule \in Nat /\ "append" \in {"append", "count"}
        BY <2>1, <2>5 DEF Miss, NoModule
      <3>2. x = ProgramRec(f, NoModule, a, "append")
        BY <2>1, <3>1, Zenon DEF ProgramRec
      <3>3. x \in RunRec /\ x.pc = "append" /\ x.module = NoModule /\ x.file = f /\ x.image = a
        BY <3>1, <3>2, ProgramRun
      <3> QED
        BY <1>1, <2>2, <2>5, <3>1, <3>3, ProgramMiss
    <2> QED
      BY <2>3, <2>4, <2>5
  <1> QED
    BY <1>2, <1>3

(* Taking pages from the memory as it is. *)
LEMMA TakeNow ==
    ASSUME Shape, MemoryInv, Sound, NEW n \in Nat \ {0}, NEW t, t = Take(State, n), NEW a, a = TakenAt(State, n)
    PROVE  /\ Shaped(t) /\ MemoryOK(t.regions, t.owned, t.slack) /\ t.modules = modules /\ t.module = module
           /\ owned \subseteq t.owned /\ t.fault \in {0, 1} /\ a \in Nat
           /\ AllLinked(t.regions) => AllLinked(regions)
           /\ t.fault = 0 => a \in Nat \ {0} /\ Piece(a, n) \in t.owned /\ \A o \in owned : o.start # a
  <1>1. PICK s : s = State
    OBVIOUS
  <1>2. /\ Shaped(s) /\ s.regions = regions /\ s.owned = owned /\ s.slack = slack /\ s.modules = modules
        /\ s.module = module /\ s.fault = 0 /\ MemoryOK(s.regions, s.owned, s.slack) /\ AllLinked(s.regions)
    BY <1>1, StateFields DEF MemoryInv, Sound
  <1>3. t = Take(s, n) /\ a = TakenAt(s, n)
    BY <1>1
  <1>4. a \in Nat
    BY <1>2, <1>3, TakenNat
  <1> QED
    BY <1>2, <1>3, <1>4, TakeStep

(* A piece of memory as an entry of a map. *)
LEMMA MapPiece ==
    ASSUME NEW a \in Nat, NEW k \in Nat
    PROVE  Piece(a, k) \in MapRec /\ Piece(a, k).start = a /\ Piece(a, k).length = k
  BY DEF Piece, MapRec

(* A process without a program. *)
LEMMA EmptyProcess ==
    /\ NoProcess \in ProcessRec /\ NoProcess.module = NoModule /\ NoProcess.memoryMap = <<>>
    /\ NoRun \in RunRec /\ NoRun.pc = "idle" /\ NoRun.module = NoModule
  <1>1. <<>> \in Seq(MapRec) /\ <<>> \in Seq(Bases \cup {Kernel})
    OBVIOUS
  <1>2. NoProcess \in ProcessRec /\ NoProcess.module = NoModule /\ NoProcess.memoryMap = <<>>
    BY <1>1 DEF NoProcess, ProcessRec, NoModule
  <1>3. NoRun \in RunRec /\ NoRun.pc = "idle" /\ NoRun.module = NoModule
    BY DEF NoRun, RunRec, NoModule, Nowhere
  <1> QED
    BY <1>2, <1>3

(* A process that has just been mapped. *)
MapProcess(c, d, m, b, code) == [NoProcess EXCEPT !.memoryMap = <<c, d>>, !.module = m, !.base = b, !.data = code]

LEMMA MappedProcess ==
    ASSUME NEW c \in MapRec, NEW d \in MapRec, NEW m \in Nat, NEW b \in Bases, NEW code \in Seq(Bases \cup {Kernel})
    PROVE  LET x == MapProcess(c, d, m, b, code) IN
           /\ x \in ProcessRec /\ x.module = m /\ x.base = b /\ x.data = code
           /\ Len(x.memoryMap) = 2 /\ x.memoryMap[1] = c /\ x.memoryMap[2] = d
  <1> DEFINE map == <<c, d>>
             r == [NoProcess EXCEPT !.memoryMap = map]
             s == [r EXCEPT !.module = m]
             t == [s EXCEPT !.base = b]
             x == [t EXCEPT !.data = code]
  <1>1. map \in Seq(MapRec) /\ Len(map) = 2 /\ map[1] = c /\ map[2] = d
    OBVIOUS
  <1> HIDE DEF map
  <1>2. r \in ProcessRec /\ r.memoryMap = map
    BY <1>1, EmptyProcess DEF ProcessRec
  <1> HIDE DEF r
  <1>3. s \in ProcessRec /\ s.memoryMap = map /\ s.module = m
    BY <1>2 DEF ProcessRec
  <1> HIDE DEF s
  <1>4. t \in ProcessRec /\ t.memoryMap = map /\ t.module = m /\ t.base = b
    BY <1>3 DEF ProcessRec
  <1> HIDE DEF t
  <1>5. x \in ProcessRec /\ x.memoryMap = map /\ x.module = m /\ x.base = b /\ x.data = code
    BY <1>4 DEF ProcessRec
  <1>6. MapProcess(c, d, m, b, code) = x
    BY DEF MapProcess, r, s, t, map
  <1> HIDE DEF x
  <1> QED
    BY <1>1, <1>5, <1>6

LEMMA MapModuleToProcessInv ==
    ASSUME LoaderInv, NEW l \in Runners, NEW base \in Bases, xtMapModuleToProcess(l, base)
    PROVE  LoaderInv'
  <1> USE DEF LoaderInv
  <1>0. PICK m, c, t, a, x : /\ m = run[l].module /\ c = Piece(module[m].image, CodePages)
                             /\ t = Take(State, DataPages) /\ a = TakenAt(State, DataPages)
                             /\ x = MapProcess(c, Piece(a, DataPages), m, base, module[m].relocation)
    OBVIOUS
  <1>1. /\ Sound /\ run[l].pc = "map" /\ run[l] \in RunRec /\ m # NoModule /\ process[l].module = NoModule
        /\ m \in DOMAIN module /\ module[m].file \in Files /\ module[m] \in ModuleRec /\ m \in Nat
    BY <1>0, ShapeFacts, RunFields DEF xtMapModuleToProcess, At, Shape, RunnersShape, Stepping, Known
  <1>2. /\ Becomes(t) /\ process' = [process EXCEPT ![l] = x]
        /\ run' = [run EXCEPT ![l].pc = "relocate", ![l].base = base]
        /\ seen' = [seen EXCEPT !.fault = t.fault] /\ UNCHANGED loading
    BY <1>0, Zenon DEF xtMapModuleToProcess, MapProcess
  <1>3. /\ MemoryOK(t.regions, t.owned, t.slack) /\ t.modules = modules /\ t.module = module
        /\ owned \subseteq t.owned /\ t.fault \in {0, 1} /\ a \in Nat
        /\ AllLinked(t.regions) => AllLinked(regions)
        /\ t.fault = 0 => Piece(a, DataPages) \in t.owned /\ \A o \in owned : o.start # a
    BY <1>0, <1>1, Sizes, TakeNow
  <1>4. /\ c \in MapRec /\ Piece(a, DataPages) \in MapRec /\ Piece(a, DataPages).start = a
    BY <1>0, <1>1, <1>3, Sizes, MapPiece, ModuleFields
  <1>5. /\ x \in ProcessRec /\ x.module = m /\ x.base = base /\ x.data = module[m].relocation
        /\ Len(x.memoryMap) = 2 /\ x.memoryMap[1] = c /\ x.memoryMap[2] = Piece(a, DataPages)
    <2>1. module[m].relocation \in Seq(Bases \cup {Kernel})
      BY <1>1, ModuleFields
    <2> QED
      BY <1>0, <1>1, <1>4, <2>1, MappedProcess
  <1>6. /\ seen' \in SeenRec /\ seen'.fault = t.fault /\ seen'.raced = seen.raced
        /\ seen'.failed = seen.failed /\ seen'.torn = seen.torn /\ seen'.late = seen.late
    <2>1. PICK e : e = t.fault
      OBVIOUS
    <2> QED
      BY <1>2, <1>3, <2>1, FaultSet DEF Shape, ModulesShape
  <1>7. /\ regions' = t.regions /\ owned' = t.owned /\ slack' = t.slack /\ UNCHANGED <<modules, module>>
    BY <1>2, <1>3 DEF Becomes
  <1>8. /\ run' \in [Runners -> RunRec] /\ process' \in [Runners -> ProcessRec] /\ OthersStay(l) /\ process'[l] = x
        /\ run'[l].pc = "relocate" /\ run'[l].base = base /\ run'[l].module = m
    <2> DEFINE y == [run[l] EXCEPT !.pc = "relocate"]
               z == [y EXCEPT !.base = base]
    <2>1. y \in RunRec /\ y.pc = "relocate" /\ y.module = m
      BY <1>0, <1>1 DEF RunRec
    <2>2. z \in RunRec /\ z.pc = "relocate" /\ z.module = m /\ z.base = base
      <3> HIDE DEF y
      <3> QED
        BY <2>1 DEF RunRec
    <2>3. run \in [Runners -> RunRec] /\ process \in [Runners -> ProcessRec]
      BY DEF Shape, RunnersShape
    <2>4. run' = [run EXCEPT ![l] = z]
      BY <1>2, <2>3
    <2> HIDE DEF z
    <2> QED
      BY <1>2, <1>5, <2>2, <2>3, <2>4 DEF OthersStay
  <1>9. FilesKept
    BY <1>7 DEF FilesKept
  <1>10. Shape'
    <2>1. ModulesShape'
      BY <1>6, <1>7 DEF Shape, ModulesShape
    <2>2. Stepping(l)'
      BY <1>1, <1>5, <1>8 DEF Stepping
    <2>3. RunnersShape'
      BY <1>1, <1>5, <1>8, <1>9, <2>2, OneRunner
    <2>4. CallsShape'
      BY <1>2, <1>9, CallsFrame DEF Shape
    <2> QED
      BY <2>1, <2>3, <2>4 DEF Shape
  <1>11. \A j \in DOMAIN module : Loads(j)' = Loads(j) /\ Users(j)' = Users(j)
    <2>1. \A j \in DOMAIN module : j # NoModule
      BY ShapeFacts
    <2> QED
      BY <1>0, <1>1, <1>2, <1>5, <1>8, <2>1, LoadsFrame, UsersStay
  <1>12. Counted' /\ Listed'
    BY <1>6, <1>7, <1>11, CountedFrame, ListedFrame
  <1>13. Relocated'
    <2>1. ASSUME NEW j \in DOMAIN module PROVE Moved(j)'
      BY <1>7, MovedFrame DEF Relocated
    <2>2. ASSUME NEW k \in Runners, k # l PROVE Lags(k)'
      <3>1. run'[k] = run[k] /\ process'[k] = process[k] /\ Lags(k) /\ module' = module
        BY <1>7, <1>8, <2>2 DEF OthersStay, Relocated
      <3> QED
        BY <3>1, LagsFrame
    <2>3. Lags(l)'
      <3>1. module[m].relocation \in Seq(Bases \cup {Kernel}) /\ Len(module[m].relocation) \in Nat
        BY <1>1, ModuleFields
      <3>2. Behind(module[m].relocation, module[m].relocation, FALSE)
        BY <3>1 DEF Behind
      <3>3. process'[l].data = module[m].relocation /\ process'[l].module = m /\ module' = module /\ run'[l].pc = "relocate"
        BY <1>5, <1>7, <1>8
      <3> QED
        BY <3>2, <3>3 DEF Lags
    <2> QED
      BY <1>7, <2>1, <2>2, <2>3 DEF Relocated
  <1>14. MemoryInv'
    <2>1. ASSUME t.fault = 0, NEW role, Claims(role) PROVE \E new : Claims(new)'
      <3> DEFINE new == [role EXCEPT ![a] = <<"data", l>>]
      <3>1. Keeps(role, new, {}) /\ new[a] = <<"data", l>>
        BY <1>3, <1>7, <2>1, KeepsTaken, RoleKinds DEF Claims
      <3> HIDE DEF new
      <3>2. \A j \in DOMAIN module' : ModuleHas(new, j)'
        BY <1>6, <1>7, <2>1, <3>1, ModulesKeep
      <3>3. Has(new, a, DataPages, <<"data", l>>)'
        BY <1>3, <1>7, <2>1, <3>1 DEF Has
      <3>4. ProcessHas(new, l)'
        BY <1>0, <1>1, <1>4, <1>5, <1>7, <1>8, <3>3 DEF ProcessHas
      <3>5. RunHas(new, l)' /\ StackHas(new, l)'
        BY <1>8 DEF RunHas, StackHas
      <3>6. Claims(new)'
        BY <1>2, <1>3, <1>7, <1>8, <2>1, <3>1, <3>2, <3>4, <3>5, ClaimsOne
      <3> QED
        BY <3>6
    <2> QED
      BY <1>1, <1>3, <1>6, <1>7, <2>1 DEF MemoryInv, Sound
  <1> QED
    BY <1>10, <1>12, <1>13, <1>14

LEMMA RelocateImageInv ==
    ASSUME LoaderInv, NEW l \in Runners, RelocateImage(l)
    PROVE  LoaderInv'
  <1> USE DEF LoaderInv
  <1>0. PICK m, b, q, x : /\ m = run[l].module /\ b = run[l].base /\ q = Append(module[m].relocation, b)
                          /\ x = [module[m] EXCEPT !.relocation = q]
    OBVIOUS
  <1>1. /\ run[l].pc = "relocate" /\ run[l] \in RunRec /\ m # NoModule /\ process[l].module = m
        /\ process[l].base = b /\ b \in Bases
        /\ m \in DOMAIN module /\ module[m].file \in Files /\ module[m] \in ModuleRec /\ m \in Nat
    BY <1>0, ShapeFacts, RunFields DEF RelocateImage, At, Shape, RunnersShape, Stepping, Known
  <1>2. /\ module[m].relocation \in Seq(Bases \cup {Kernel}) /\ q \in Seq(Bases \cup {Kernel})
    BY <1>0, <1>1, ModuleFields
  <1>3. /\ x \in ModuleRec /\ x.relocation = q /\ x.file = module[m].file /\ x.image = module[m].image
        /\ x.count = module[m].count /\ x.relocated = module[m].relocated /\ x.freed = module[m].freed
    BY <1>0, <1>1, <1>2, RelocationSet
  <1>4. /\ module' = [module EXCEPT ![m] = x] /\ UNCHANGED <<regions, owned, slack, modules, process, loading, seen>>
    <2>1. PICK t : t = ApplyRelocations(State, m, b)
      OBVIOUS
    <2>2. /\ t.module = [module EXCEPT ![m] = x] /\ t.regions = regions /\ t.owned = owned /\ t.slack = slack
          /\ t.modules = modules
      BY <1>0, <1>1, <2>1, RelocationStep, StateFields
    <2>3. Becomes(t) /\ UNCHANGED <<process, loading, seen>>
      BY <1>0, <2>1 DEF RelocateImage
    <2> QED
      BY <2>2, <2>3 DEF Becomes
  <1>5. /\ module' \in Seq(ModuleRec) /\ Len(module') = Len(module) /\ DOMAIN module' = DOMAIN module
        /\ module'[m] = x /\ \A j \in DOMAIN module : j # m => module'[j] = module[j]
    <2>1. module \in Seq(ModuleRec) /\ DOMAIN module = 1..Len(module)
      BY ShapeFacts DEF Shape, ModulesShape
    <2> QED
      BY <1>1, <1>3, <1>4, <2>1, OneChanged
  <1>6. /\ FilesKept
        /\ \A j \in DOMAIN module :
              /\ module'[j].file = module[j].file /\ module'[j].image = module[j].image
              /\ module'[j].relocated = module[j].relocated /\ module'[j].count = module[j].count
              /\ module'[j].freed = module[j].freed
    BY <1>3, <1>5 DEF FilesKept
  <1>7. /\ run' \in [Runners -> RunRec] /\ process' \in [Runners -> ProcessRec] /\ OthersStay(l)
        /\ run'[l].pc = "start" /\ run'[l].base = b /\ run'[l].module = m
    <2> DEFINE y == [run[l] EXCEPT !.pc = "start"]
    <2>1. y \in RunRec /\ y.pc = "start" /\ y.module = m /\ y.base = b
      BY <1>0, <1>1 DEF RunRec
    <2>2. run \in [Runners -> RunRec] /\ process \in [Runners -> ProcessRec]
      BY DEF Shape, RunnersShape
    <2>3. run' = [run EXCEPT ![l] = y]
      BY <2>2 DEF RelocateImage
    <2> HIDE DEF y
    <2> QED
      BY <1>4, <2>1, <2>2, <2>3 DEF OthersStay
  <1>8. Shape'
    <2>1. ModulesShape'
      BY <1>4, <1>5 DEF Shape, ModulesShape
    <2>2. Stepping(l)'
      BY <1>1, <1>4, <1>7 DEF Stepping
    <2>3. RunnersShape'
      BY <1>1, <1>4, <1>6, <1>7, <2>2, OneRunner
    <2>4. CallsShape'
      BY <1>4, <1>6, CallsFrame DEF Shape
    <2> QED
      BY <2>1, <2>3, <2>4 DEF Shape
  <1>9. \A j : Loads(j)' = Loads(j) /\ Users(j)' = Users(j)
    BY <1>0, <1>1, <1>4, <1>7, LoadsFrame, UsersStay
  <1>10. Counted' /\ Listed'
    BY <1>4, <1>5, <1>6, <1>9, CountedFrame, ListedFrame
  <1>11. Relocated'
    <2>1. ASSUME NEW j \in DOMAIN module PROVE Moved(j)'
      <3>1. Moved(j)
        BY DEF Relocated
      <3>2. CASE j # m
        BY <1>5, <3>1, <3>2, MovedFrame
      <3>3. CASE j = m
        <4>1. Moves(m)' = Moves(m)
          <5> DEFINE r == module[m].relocation
          <5>1. b # Kernel
            BY <1>1, Sizes
          <5>2. DOMAIN q = 1..(Len(r) + 1) /\ q[Len(r) + 1] = b /\ DOMAIN r = 1..Len(r) /\ Len(r) \in Nat
                /\ \A i \in 1..Len(r) : q[i] = r[i]
            BY <1>0, <1>2
          <5>3. \A i : i \in {e \in DOMAIN q : q[e] = Kernel} <=> i \in {e \in DOMAIN r : r[e] = Kernel}
            <6> HIDE DEF r
            <6> QED
              BY <5>1, <5>2
          <5>4. Moves(m)' = {e \in DOMAIN q : q[e] = Kernel} /\ Moves(m) = {e \in DOMAIN r : r[e] = Kernel}
            BY <1>3, <1>5 DEF Moves
          <5> HIDE DEF r
          <5> QED
            BY <5>3, <5>4
        <4>2. module'[m].relocated = module[m].relocated
          BY <1>3, <1>5
        <4> QED
          BY <3>1, <3>3, <4>1, <4>2 DEF Moved
      <3> QED
        BY <3>2, <3>3
    <2>2. ASSUME NEW k \in Runners PROVE Lags(k)'
      <3>1. Lags(k) /\ UNCHANGED process[k]
        BY <1>4 DEF Relocated
      <3>2. PICK i : i = process[k].module
        OBVIOUS
      <3>3. i # NoModule => i \in DOMAIN module
        BY <3>2, KnownModules DEF Known
      <3>4. CASE i = m
        <4>1. module'[i].relocation = Append(module[i].relocation, b)
          BY <1>0, <1>3, <1>5, <3>4
        <4> QED
          BY <3>1, <3>2, <4>1, LagsAppended
      <3>5. CASE i # m
        <4>1. i # NoModule => module'[i].relocation = module[i].relocation
          BY <1>5, <3>3, <3>5
        <4>2. k # l
          BY <1>1, <3>2, <3>5
        <4>3. run'[k] = run[k]
          BY <1>7, <4>2 DEF OthersStay
        <4> QED
          BY <3>1, <3>2, <4>1, <4>3, LagsFrame
      <3> QED
        BY <3>4, <3>5
    <2> QED
      BY <1>5, <2>1, <2>2 DEF Relocated
  <1>12. MemoryInv'
    <2>1. ASSUME NEW role, Claims(role) PROVE Claims(role)'
      <3>1. Keeps(role, role, {})
        BY <1>4, <2>1, KeepsAll DEF Claims
      <3>2. \A j \in DOMAIN module' : ModuleHas(role, j)'
        BY <1>4, <1>5, <1>6, <2>1, <3>1, ModulesKeep
      <3>3. ProcessHas(role, l)'
        <4>1. ProcessHas(role, l) /\ run'[l].pc # "idle" /\ run[l].pc # "idle" /\ UNCHANGED <<process, owned>>
              /\ module'[process[l].module].image = module[process[l].module].image
          BY <1>1, <1>4, <1>6, <1>7, <2>1 DEF Claims
        <4> QED
          BY <4>1 DEF ProcessHas, Has
      <3>4. RunHas(role, l)' /\ StackHas(role, l)'
        BY <1>7 DEF RunHas, StackHas
      <3> QED
        BY <1>4, <1>6, <1>7, <2>1, <3>1, <3>2, <3>3, <3>4, ClaimsOne
    <2> QED
      BY <1>4, <2>1 DEF MemoryInv
  <1> QED
    BY <1>8, <1>10, <1>11, <1>12

(* A third entry in a map of two. *)
LEMMA ThirdEntry ==
    ASSUME NEW S, NEW s \in Seq(S), Len(s) = 2, NEW d \in S
    PROVE  LET map == Append(s, d) IN
           map \in Seq(S) /\ Len(map) = 3 /\ map[1] = s[1] /\ map[2] = s[2] /\ map[3] = d
  <1> DEFINE map == Append(s, d)
  <1>1. map \in Seq(S) /\ Len(map) = Len(s) + 1
    BY AppendProperties
  <1>2. Len(map) = 3 /\ 1 \in 1..Len(s) /\ 2 \in 1..Len(s) /\ Len(s) + 1 = 3
    BY <1>1
  <1>3. map[1] = s[1] /\ map[2] = s[2] /\ map[Len(s) + 1] = d
    BY <1>2, AppendProperties
  <1> QED
    BY <1>1, <1>2, <1>3

(* A process whose thread has been started. *)
StartProcess(r, d, q) == [[r EXCEPT !.memoryMap = Append(r.memoryMap, d)] EXCEPT !.stacks = <<q>>]

LEMMA StartedProcess ==
    ASSUME NEW r \in ProcessRec, NEW d \in MapRec, NEW q \in MapRec, Len(r.memoryMap) = 2,
           NEW x, x = StartProcess(r, d, q)
    PROVE  /\ x \in ProcessRec /\ x.module = r.module /\ x.base = r.base /\ x.data = r.data /\ x.stacks[1] = q
           /\ Len(x.memoryMap) = 3 /\ x.memoryMap[1] = r.memoryMap[1] /\ x.memoryMap[2] = r.memoryMap[2]
           /\ x.memoryMap[3] = d
  <1>1. r.memoryMap \in Seq(MapRec)
    BY ProcessFields
  <1>2. PICK map : map = Append(r.memoryMap, d)
    OBVIOUS
  <1>3. /\ map \in Seq(MapRec) /\ Len(map) = 3 /\ map[1] = r.memoryMap[1] /\ map[2] = r.memoryMap[2] /\ map[3] = d
    BY <1>1, <1>2, ThirdEntry
  <1>4. PICK st : st = <<q>>
    OBVIOUS
  <1>5. st \in Seq(MapRec) /\ st[1] = q
    BY <1>4
  <1>6. PICK s : s = [r EXCEPT !.memoryMap = map]
    OBVIOUS
  <1>7. s \in ProcessRec /\ s.memoryMap = map /\ s.module = r.module /\ s.base = r.base /\ s.data = r.data
    BY <1>3, <1>6 DEF ProcessRec
  <1>8. x = [s EXCEPT !.stacks = st]
    BY <1>2, <1>4, <1>6, Zenon DEF StartProcess
  <1>9. /\ x \in ProcessRec /\ x.memoryMap = map /\ x.module = r.module /\ x.base = r.base /\ x.data = r.data
        /\ x.stacks = st
    BY <1>5, <1>7, <1>8 DEF ProcessRec
  <1> QED
    BY <1>3, <1>5, <1>9

(* Its three pieces of memory: the third has no claim. *)
LEMMA TakeThree ==
    ASSUME Shape, MemoryInv, Sound, NEW s, s = Take(State, 1), NEW t, t = TakeStack(s), NEW u, u = Take(t, 1),
           NEW a, a = TakenAt(State, 1), NEW b, b = Higher(TakenAt(s, StackPages))
    PROVE  /\ MemoryOK(u.regions, u.owned, u.slack) /\ u.modules = modules /\ u.module = module
           /\ owned \subseteq u.owned /\ u.fault \in {0, 1} /\ a \in Nat /\ b \in Nat
           /\ AllLinked(u.regions) => AllLinked(regions) /\ AllLinked(s.regions)
           /\ u.fault = 0 => /\ Piece(a, 1) \in u.owned /\ \A o \in owned : o.start # a
                             /\ AllLinked(s.regions) => /\ Piece(b, StackPages) \in u.owned /\ a # b
                                                        /\ \A o \in owned : o.start # b
  <1>1. /\ Shaped(s) /\ MemoryOK(s.regions, s.owned, s.slack) /\ s.modules = modules /\ s.module = module
        /\ owned \subseteq s.owned /\ s.fault \in {0, 1} /\ a \in Nat
        /\ AllLinked(s.regions) => AllLinked(regions)
        /\ s.fault = 0 => a \in Nat \ {0} /\ Piece(a, 1) \in s.owned /\ \A o \in owned : o.start # a
    BY TakeNow
  <1>2. StackPages \in Nat \ {0} /\ 1 \in Nat \ {0}
    BY Sizes
  <1>3. /\ Shaped(t) /\ MemoryOK(t.regions, t.owned, t.slack) /\ b \in Nat
        /\ t.modules = s.modules /\ t.module = s.module
        /\ s.owned \subseteq t.owned /\ t.fault \in {0, 1} /\ (t.fault = 0 => s.fault = 0)
        /\ AllLinked(t.regions) => AllLinked(s.regions)
        /\ AllLinked(s.regions) /\ t.fault = 0 =>
              Piece(b, StackPages) \in t.owned /\ \A o \in s.owned : o.start # b
    BY <1>1, <1>2, TakeStackStep
  <1>4. /\ MemoryOK(u.regions, u.owned, u.slack)
        /\ u.modules = t.modules /\ u.module = t.module
        /\ t.owned \subseteq u.owned /\ u.fault \in {0, 1} /\ (u.fault = 0 => t.fault = 0)
        /\ AllLinked(u.regions) => AllLinked(t.regions)
    BY <1>2, <1>3, TakeStep
  <1>5. Piece(a, 1).start = a
    BY DEF Piece
  <1>6. u.fault = 0 /\ AllLinked(s.regions) => /\ Piece(b, StackPages) \in u.owned /\ a # b
                                               /\ \A o \in owned : o.start # b
    BY <1>1, <1>3, <1>4, <1>5
  <1> QED
    BY <1>1, <1>3, <1>4, <1>6

LEMMA StartThreadInv ==
    ASSUME LoaderInv, NEW l \in Runners, StartThread(l)
    PROVE  LoaderInv'
  <1> USE DEF LoaderInv
  <1>0. PICK m, s, t, u, a, b : /\ m = run[l].module /\ s = Take(State, 1) /\ t = TakeStack(s) /\ u = Take(t, 1)
                                /\ a = TakenAt(State, 1) /\ b = Higher(TakenAt(s, StackPages))
    OBVIOUS
  <1>1. /\ Sound /\ run[l].pc = "start" /\ run[l] \in RunRec /\ m # NoModule /\ process[l].module = m
        /\ process[l] \in ProcessRec /\ m \in DOMAIN module /\ module[m].file \in Files
    BY <1>0, ShapeFacts, RunFields DEF StartThread, At, Shape, RunnersShape, Stepping, Known
  <1>2. /\ MemoryOK(u.regions, u.owned, u.slack) /\ u.modules = modules /\ u.module = module
        /\ owned \subseteq u.owned /\ u.fault \in {0, 1} /\ a \in Nat /\ b \in Nat
        /\ AllLinked(u.regions) => AllLinked(regions) /\ AllLinked(s.regions)
        /\ u.fault = 0 => /\ Piece(a, 1) \in u.owned /\ \A o \in owned : o.start # a
                          /\ AllLinked(s.regions) => /\ Piece(b, StackPages) \in u.owned /\ a # b
                                                     /\ \A o \in owned : o.start # b
    BY <1>0, <1>1, TakeThree
  <1>3. seen.fault = 0 /\ \E role : Claims(role)
    BY <1>1 DEF Sound, MemoryInv
  <1>4. PICK role : Claims(role)
    BY <1>3
  <1>5. Len(process[l].memoryMap) = 2
    BY <1>1, <1>4 DEF Claims, ProcessHas
  <1>6. PICK x : x = StartProcess(process[l], Piece(a, 1), Piece(b, StackPages))
    OBVIOUS
  <1>7. /\ Piece(a, 1) \in MapRec /\ Piece(b, StackPages) \in MapRec
        /\ Piece(a, 1).start = a /\ Piece(b, StackPages).start = b
    BY <1>2, Sizes, MapPiece
  <1>8. /\ x \in ProcessRec /\ x.module = m /\ x.base = process[l].base /\ x.data = process[l].data
        /\ x.stacks[1] = Piece(b, StackPages)
        /\ Len(x.memoryMap) = 3 /\ x.memoryMap[1] = process[l].memoryMap[1]
        /\ x.memoryMap[2] = process[l].memoryMap[2] /\ x.memoryMap[3] = Piece(a, 1)
    BY <1>1, <1>5, <1>6, <1>7, StartedProcess
  <1>9. /\ Becomes(u) /\ seen' = [seen EXCEPT !.fault = u.fault] /\ UNCHANGED loading
        /\ run' = [run EXCEPT ![l] = NoRun]
        /\ process' = [process EXCEPT ![l].memoryMap = Append(@, Piece(a, 1)),
                                      ![l].stacks = <<Piece(b, StackPages)>>]
    BY <1>0, Zenon DEF StartThread
  <1>10. /\ run' \in [Runners -> RunRec] /\ process' \in [Runners -> ProcessRec] /\ OthersStay(l)
         /\ run'[l].pc = "idle" /\ run'[l].module = NoModule /\ process'[l] = x
    <2>1. run \in [Runners -> RunRec] /\ process \in [Runners -> ProcessRec]
      BY DEF Shape, RunnersShape
    <2>2. process' = [process EXCEPT ![l] = x]
      BY <1>6, <1>9, <2>1 DEF StartProcess
    <2> QED
      BY <1>8, <1>9, <2>1, <2>2, EmptyProcess DEF OthersStay
  <1>11. /\ regions' = u.regions /\ owned' = u.owned /\ slack' = u.slack /\ UNCHANGED <<modules, module>>
    BY <1>2, <1>9 DEF Becomes
  <1>12. /\ seen' \in SeenRec /\ seen'.fault = u.fault /\ seen'.raced = seen.raced
         /\ seen'.failed = seen.failed /\ seen'.torn = seen.torn /\ seen'.late = seen.late
    <2>1. PICK e : e = u.fault
      OBVIOUS
    <2> QED
      BY <1>2, <1>9, <2>1, FaultSet DEF Shape, ModulesShape
  <1>13. FilesKept
    BY <1>11 DEF FilesKept
  <1>14. Shape'
    <2>1. ModulesShape'
      BY <1>11, <1>12 DEF Shape, ModulesShape
    <2>2. Stepping(l)'
      BY <1>1, <1>8, <1>10 DEF Stepping
    <2>3. RunnersShape'
      BY <1>1, <1>8, <1>10, <1>13, <2>2, OneRunner
    <2>4. CallsShape'
      BY <1>9, <1>13, CallsFrame DEF Shape
    <2> QED
      BY <2>1, <2>3, <2>4 DEF Shape
  <1>15. \A j \in DOMAIN module : Loads(j)' = Loads(j) /\ Users(j)' = Users(j)
    <2>1. \A j \in DOMAIN module : j # NoModule
      BY ShapeFacts
    <2> QED
      BY <1>0, <1>1, <1>8, <1>9, <1>10, <2>1, LoadsFrame, UsersStay
  <1>16. Counted' /\ Listed'
    BY <1>11, <1>12, <1>15, CountedFrame, ListedFrame
  <1>17. Relocated'
    <2>1. \A k \in Runners : /\ run'[k].pc = "relocate" <=> run[k].pc = "relocate"
                             /\ process'[k].module = process[k].module /\ process'[k].data = process[k].data
      BY <1>1, <1>8, <1>10 DEF OthersStay
    <2> QED
      BY <1>11, <2>1, RelocatedFrame, KnownModules
  <1>18. MemoryInv'
    <2>1. ASSUME u.fault = 0 PROVE \E new : Claims(new)'
      <3>1. PICK new : /\ new \in [Nat -> Roles] /\ new[a] = <<"args", l>>
                       /\ AllLinked(s.regions) => new[b] = <<"stack", l>>
                       /\ \A c \in Nat : c # a /\ (AllLinked(s.regions) => c # b) => new[c] = role[c]
        <4> DEFINE one == [role EXCEPT ![a] = <<"args", l>>]
                   two == [one EXCEPT ![b] = <<"stack", l>>]
        <4>1. role \in [Nat -> Roles] /\ <<"args", l>> \in Roles /\ <<"stack", l>> \in Roles
          BY <1>4, RoleKinds DEF Claims
        <4>2. one \in [Nat -> Roles] /\ one[a] = <<"args", l>> /\ \A c \in Nat : c # a => one[c] = role[c]
          BY <1>2, <4>1
        <4> HIDE DEF one
        <4>3. two \in [Nat -> Roles] /\ two[b] = <<"stack", l>> /\ \A c \in Nat : c # b => two[c] = one[c]
          BY <1>2, <4>1, <4>2
        <4> HIDE DEF two
        <4>4. CASE AllLinked(s.regions)
          BY <1>2, <2>1, <4>2, <4>3, <4>4
        <4>5. CASE ~AllLinked(s.regions)
          BY <4>2, <4>5
        <4> QED
          BY <4>4, <4>5
      <3>2. Keeps(role, new, {})
        <4>1. ASSUME NEW c, NEW n, NEW w, Has(role, c, n, w) PROVE Has(new, c, n, w)'
          <5>1. c \in Nat /\ Piece(c, n) \in owned /\ role[c] = w /\ Piece(c, n).start = c
            BY <4>1 DEF Has, Piece
          <5>2. c # a /\ (AllLinked(s.regions) => c # b)
            BY <1>2, <2>1, <5>1
          <5> QED
            BY <1>2, <1>11, <3>1, <5>1, <5>2 DEF Has
        <4> QED
          BY <3>1, <4>1 DEF Keeps
      <3>3. \A j \in DOMAIN module' : ModuleHas(new, j)'
        BY <1>4, <1>11, <1>12, <3>2, ModulesKeep
      <3>4. Has(new, a, 1, <<"args", l>>)' /\ (AllLinked(s.regions) => Has(new, b, StackPages, <<"stack", l>>)')
        BY <1>2, <1>11, <2>1, <3>1 DEF Has
      <3>5. ProcessHas(new, l)'
        <4>1. ProcessHas(role, l) /\ run[l].pc # "idle" /\ process[l].module # NoModule
          BY <1>1, <1>4 DEF Claims
        <4>2. /\ process[l].memoryMap[1] = Piece(module[m].image, CodePages)
              /\ process[l].memoryMap[2] = Piece(process[l].memoryMap[2].start, DataPages)
              /\ Has(role, process[l].memoryMap[2].start, DataPages, <<"data", l>>)
          BY <1>1, <4>1 DEF ProcessHas
        <4>3. PICK d : d = process[l].memoryMap[2].start
          OBVIOUS
        <4>4. Has(new, d, DataPages, <<"data", l>>)'
          BY <3>2, <4>2, <4>3 DEF Keeps
        <4>5. /\ x.memoryMap[1] = Piece(module'[m].image, CodePages) /\ x.memoryMap[2] = Piece(d, DataPages)
              /\ x.memoryMap[2].start = d /\ x.memoryMap[3].start = a
          BY <1>7, <1>8, <1>11, <4>2, <4>3
        <4> QED
          BY <1>8, <1>10, <3>4, <4>4, <4>5 DEF ProcessHas
      <3>6. RunHas(new, l)' /\ (AllLinked(regions') => StackHas(new, l)')
        BY <1>2, <1>7, <1>8, <1>10, <1>11, <3>4 DEF RunHas, StackHas
      <3>7. Claims(new)'
        BY <1>2, <1>4, <1>9, <1>10, <1>11, <3>2, <3>3, <3>5, <3>6, ClaimsOne
      <3> QED
        BY <3>7
    <2> QED
      BY <1>2, <1>11, <1>12, <2>1 DEF MemoryInv
  <1> QED
    BY <1>14, <1>16, <1>17, <1>18

-----------------------------------------------------------------------------
(* Four pieces are given back one after another. *)
Remains(s, t) ==
    /\ Shaped(t) /\ MemoryOK(t.regions, t.owned, t.slack)
    /\ t.modules = s.modules /\ t.module = s.module
    /\ AllLinked(t.regions) => AllLinked(s.regions)

LEMMA GiveTwo ==
    ASSUME NEW s, Shaped(s), MemoryOK(s.regions, s.owned, s.slack),
           NEW o \in s.owned, NEW p \in s.owned, o.start # p.start,
           NEW j \in Nat \ {0}, j <= o.length, NEW k \in Nat \ {0}, k <= p.length,
           NEW t, t = Give(Give(s, Piece(o.start, j)), Piece(p.start, k))
    PROVE  Remains(s, t) /\ \A q \in s.owned : q.start # o.start /\ q.start # p.start => q \in t.owned
  <1>1. PICK r : r = Give(s, Piece(o.start, j))
    OBVIOUS
  <1>2. /\ Shaped(r) /\ MemoryOK(r.regions, r.owned, r.slack)
        /\ r.modules = s.modules /\ r.module = s.module
        /\ AllLinked(r.regions) => AllLinked(s.regions)
        /\ \A q \in s.owned : q.start # o.start => q \in r.owned
    BY <1>1, GiveStep
  <1>3. p \in r.owned /\ t = Give(r, Piece(p.start, k))
    BY <1>1, <1>2
  <1>4. /\ Shaped(t) /\ MemoryOK(t.regions, t.owned, t.slack)
        /\ t.modules = r.modules /\ t.module = r.module
        /\ AllLinked(t.regions) => AllLinked(r.regions)
        /\ \A q \in r.owned : q.start # p.start => q \in t.owned
    BY <1>2, <1>3, GiveStep
  <1> QED
    BY <1>2, <1>4 DEF Remains

Gives(s, a, b, c, d) == Give(Give(Give(Give(s, a), b), c), d)

Part(s, o, k) == o \in s.owned /\ k \in Nat \ {0} /\ k <= o.length
Distinct(o, p, x, y) ==
    /\ o.start # p.start /\ o.start # x.start /\ o.start # y.start
    /\ p.start # x.start /\ p.start # y.start /\ x.start # y.start
OthersRemain(s, t, o, p, x, y) ==
    \A q \in s.owned : q.start \notin {o.start, p.start, x.start, y.start} => q \in t.owned

LEMMA GiveFour ==
    ASSUME NEW s, Shaped(s), MemoryOK(s.regions, s.owned, s.slack),
           NEW o, NEW p, NEW x, NEW y, NEW j, NEW k, NEW m, NEW n,
           Distinct(o, p, x, y), Part(s, o, j), Part(s, p, k), Part(s, x, m), Part(s, y, n),
           NEW t, t = Gives(s, Piece(o.start, j), Piece(p.start, k), Piece(x.start, m), Piece(y.start, n))
    PROVE  Remains(s, t) /\ OthersRemain(s, t, o, p, x, y)
  <1> USE DEF Part, Distinct, OthersRemain
  <1>1. PICK r : r = Give(Give(s, Piece(o.start, j)), Piece(p.start, k))
    OBVIOUS
  <1>2. Remains(s, r) /\ \A q \in s.owned : q.start # o.start /\ q.start # p.start => q \in r.owned
    BY <1>1, GiveTwo
  <1>3. /\ x \in r.owned /\ y \in r.owned /\ Shaped(r) /\ MemoryOK(r.regions, r.owned, r.slack)
        /\ t = Give(Give(r, Piece(x.start, m)), Piece(y.start, n))
    BY <1>1, <1>2 DEF Gives, Remains
  <1>4. Remains(r, t) /\ \A q \in r.owned : q.start # x.start /\ q.start # y.start => q \in t.owned
    BY <1>3, GiveTwo
  <1> QED
    BY <1>2, <1>4 DEF Remains

(* A process that has ended. *)
LEMMA EndedProcess ==
    ASSUME NEW x, x = [NoProcess EXCEPT !.ended = 1]
    PROVE  x \in ProcessRec /\ x.module = NoModule /\ x.memoryMap = <<>>
  <1>1. NoProcess \in ProcessRec /\ NoProcess.module = NoModule /\ NoProcess.memoryMap = <<>>
    BY EmptyProcess
  <1> QED
    BY <1>1 DEF ProcessRec

(* What a process that ends gives back, in either order: afterwards only its pieces and its code are gone. *)
LEMMA TerminateMemory ==
    ASSUME Shape, Counted, MemoryInv, NEW l \in Runners, xtTerminateProcess(l), NEW role, Claims(role)
    PROVE  /\ MemoryOK(regions', owned', slack') /\ UNCHANGED <<modules, module>>
           /\ AllLinked(regions') => AllLinked(regions)
           /\ Keeps(role, role, {<<"stack", l>>, <<"data", l>>, <<"args", l>>, <<"module", process[l].module>>})
  <1>0. PICK m, map, st : m = process[l].module /\ map = process[l].memoryMap /\ st = process[l].stacks[1]
    OBVIOUS
  <1>1. Sound /\ run[l].pc = "idle" /\ m # NoModule /\ AllLinked(regions)
    BY <1>0 DEF xtTerminateProcess, At, Sound
  <1>2. m \in DOMAIN module /\ module[m].file \in Files /\ module[m] \in ModuleRec
    BY <1>0, <1>1, ShapeFacts DEF Shape, RunnersShape, Known
  <1>3. m \notin seen.torn /\ module[m].freed = 0
    <2>1. l \in Users(m)
      BY <1>0 DEF Users
    <2>2. Users(m) # {}
      BY <2>1
    <2> QED
      BY <1>1, <1>2, <2>2, ModuleFields DEF Sound, Counted
  <1>4. Has(role, module[m].image, ImagePages, <<"module", m>>)
    BY <1>2, <1>3 DEF Claims, ModuleHas
  <1>5. /\ map[1] = Piece(module[m].image, CodePages)
        /\ map[2] = Piece(map[2].start, DataPages) /\ Has(role, map[2].start, DataPages, <<"data", l>>)
        /\ map[3] = Piece(map[3].start, 1) /\ Has(role, map[3].start, 1, <<"args", l>>)
    BY <1>0, <1>1 DEF Claims, ProcessHas
  <1>6. st = Piece(st.start, StackPages) /\ Has(role, st.start, StackPages, <<"stack", l>>)
    BY <1>0, <1>1 DEF Claims, StackHas
  <1>7. PICK a, b, c, d : a = st.start /\ b = module[m].image /\ c = map[2].start /\ d = map[3].start
    OBVIOUS
  <1>8. /\ role[a] = <<"stack", l>> /\ role[b] = <<"module", m>> /\ role[c] = <<"data", l>> /\ role[d] = <<"args", l>>
        /\ Piece(a, StackPages) \in owned /\ Piece(b, ImagePages) \in owned /\ Piece(c, DataPages) \in owned
        /\ Piece(d, 1) \in owned
    BY <1>4, <1>5, <1>6, <1>7 DEF Has
  <1>9. a # b /\ a # c /\ a # d /\ b # c /\ b # d /\ c # d
    <2>1. <<"stack", l>> # <<"module", m>> /\ <<"stack", l>> # <<"data", l>> /\ <<"stack", l>> # <<"args", l>>
          /\ <<"module", m>> # <<"data", l>> /\ <<"module", m>> # <<"args", l>> /\ <<"data", l>> # <<"args", l>>
      OBVIOUS
    <2> QED
      BY <1>8, <2>1, Zenon
  <1>10. /\ StackPages \in Nat \ {0} /\ CodePages \in Nat \ {0} /\ DataPages \in Nat \ {0} /\ 1 \in Nat \ {0}
         /\ CodePages <= ImagePages
    BY LoaderAssumption DEF ImagePages
  <1>11. PICK o, p, x, y : o = Piece(a, StackPages) /\ p = Piece(b, ImagePages) /\ x = Piece(c, DataPages) /\ y = Piece(d, 1)
    OBVIOUS
  <1>12. /\ o.start = a /\ o.length = StackPages /\ p.start = b /\ p.length = ImagePages
         /\ x.start = c /\ x.length = DataPages /\ y.start = d /\ y.length = 1
    BY <1>11 DEF Piece
  <1>13. PICK s : s = State
    OBVIOUS
  <1>14. /\ Shaped(s) /\ s.regions = regions /\ s.owned = owned /\ s.slack = slack /\ s.modules = modules
         /\ s.module = module /\ MemoryOK(s.regions, s.owned, s.slack)
    BY <1>13, StateFields DEF MemoryInv
  <1>15. PICK t : /\ Becomes(t)
                  /\ \/ t = Gives(s, Piece(a, StackPages), Piece(b, CodePages), Piece(c, DataPages), Piece(d, 1))
                     \/ t = Gives(s, Piece(a, StackPages), Piece(d, 1), Piece(b, CodePages), Piece(c, DataPages))
    <2>1. PICK sorted \in {map, <<map[3], map[1], map[2]>>} : Becomes(GiveAll(Give(s, st), sorted))
      BY <1>0, <1>13, Zenon DEF xtTerminateProcess
    <2>2. PICK t : t = GiveAll(Give(s, st), sorted)
      OBVIOUS
    <2>3. /\ st = Piece(a, StackPages) /\ map[1] = Piece(b, CodePages) /\ map[2] = Piece(c, DataPages)
          /\ map[3] = Piece(d, 1)
      BY <1>5, <1>6, <1>7
    <2>4. CASE sorted = map
      BY <2>1, <2>2, <2>3, <2>4, Zenon DEF GiveAll, Gives
    <2>5. CASE sorted = <<map[3], map[1], map[2]>>
      <3>1. sorted[1] = map[3] /\ sorted[2] = map[1] /\ sorted[3] = map[2]
        BY <2>5
      <3> QED
        BY <2>1, <2>2, <2>3, <3>1, Zenon DEF GiveAll, Gives
    <2> QED
      BY <2>1, <2>4, <2>5
  <1>16. /\ Remains(s, t)
         /\ \A q \in s.owned : q.start \notin {a, b, c, d} => q \in t.owned
    <2>1. /\ Part(s, o, StackPages) /\ Part(s, p, CodePages) /\ Part(s, x, DataPages) /\ Part(s, y, 1)
      BY <1>8, <1>10, <1>11, <1>12, <1>14 DEF Part
    <2>2. Distinct(o, p, x, y) /\ Distinct(o, y, p, x)
      BY <1>9, <1>12 DEF Distinct
    <2>3. CASE t = Gives(s, Piece(a, StackPages), Piece(b, CodePages), Piece(c, DataPages), Piece(d, 1))
      <3>1. t = Gives(s, Piece(o.start, StackPages), Piece(p.start, CodePages), Piece(x.start, DataPages), Piece(y.start, 1))
        BY <1>12, <2>3
      <3>2. Remains(s, t) /\ OthersRemain(s, t, o, p, x, y)
        BY <1>14, <2>1, <2>2, <3>1, GiveFour
      <3> QED
        BY <1>12, <3>2 DEF OthersRemain
    <2>4. CASE t = Gives(s, Piece(a, StackPages), Piece(d, 1), Piece(b, CodePages), Piece(c, DataPages))
      <3>1. t = Gives(s, Piece(o.start, StackPages), Piece(y.start, 1), Piece(p.start, CodePages), Piece(x.start, DataPages))
        BY <1>12, <2>4
      <3>2. Remains(s, t) /\ OthersRemain(s, t, o, y, p, x)
        BY <1>14, <2>1, <2>2, <3>1, GiveFour
      <3> QED
        BY <1>12, <3>2 DEF OthersRemain
    <2> QED
      BY <1>15, <2>3, <2>4
  <1>17. /\ MemoryOK(regions', owned', slack') /\ UNCHANGED <<modules, module>>
         /\ AllLinked(regions') => AllLinked(regions)
         /\ \A q \in owned : q.start \notin {a, b, c, d} => q \in owned'
    BY <1>14, <1>15, <1>16 DEF Becomes, Remains
  <1>18. ASSUME NEW e, NEW n, NEW w, Has(role, e, n, w),
                w \notin {<<"stack", l>>, <<"data", l>>, <<"args", l>>, <<"module", m>>}
         PROVE  Has(role, e, n, w)'
    <2>1. e \in Nat /\ Piece(e, n) \in owned /\ role[e] = w /\ Piece(e, n).start = e
      BY <1>18 DEF Has, Piece
    <2>2. e \notin {a, b, c, d}
      BY <1>8, <1>18, <2>1, Zenon
    <2> QED
      BY <1>17, <2>1, <2>2 DEF Has
  <1>19. role \in [Nat -> Roles]
    BY DEF Claims
  <1> QED
    BY <1>0, <1>17, <1>18, <1>19 DEF Keeps

LEMMA TerminateProcessInv ==
    ASSUME LoaderInv, NEW l \in Runners, xtTerminateProcess(l)
    PROVE  LoaderInv'
  <1> USE DEF LoaderInv
  <1>0. PICK m : m = process[l].module
    OBVIOUS
  <1>1. /\ Sound /\ run[l].pc = "idle" /\ m # NoModule /\ run[l].module = NoModule
        /\ m \in DOMAIN module /\ module[m].file \in Files
    BY <1>0 DEF xtTerminateProcess, At, Shape, RunnersShape, Stepping, Known
  <1>2. seen.fault = 0 /\ \E role : Claims(role)
    BY <1>1 DEF Sound, MemoryInv
  <1>3. PICK role : Claims(role)
    BY <1>2
  <1>4. /\ MemoryOK(regions', owned', slack') /\ UNCHANGED <<modules, module>>
        /\ AllLinked(regions') => AllLinked(regions)
        /\ Keeps(role, role, {<<"stack", l>>, <<"data", l>>, <<"args", l>>, <<"module", m>>})
    BY <1>0, <1>3, TerminateMemory
  <1>5. /\ UNCHANGED <<run, loading>> /\ process' = [process EXCEPT ![l] = [NoProcess EXCEPT !.ended = 1]]
        /\ seen' = [seen EXCEPT !.torn = seen.torn \cup {m}]
    BY <1>0 DEF xtTerminateProcess
  <1>6. PICK x : x = [NoProcess EXCEPT !.ended = 1]
    OBVIOUS
  <1>7. x \in ProcessRec /\ x.module = NoModule /\ x.memoryMap = <<>>
    BY <1>6, EndedProcess
  <1>8. process' \in [Runners -> ProcessRec] /\ process'[l] = x /\ OthersStay(l) /\ run' \in [Runners -> RunRec]
    <2>1. run \in [Runners -> RunRec] /\ process \in [Runners -> ProcessRec] /\ process' = [process EXCEPT ![l] = x]
      BY <1>5, <1>6 DEF Shape, RunnersShape
    <2> QED
      BY <1>5, <1>7, <2>1 DEF OthersStay
  <1>9. /\ seen' \in SeenRec /\ seen'.fault = seen.fault /\ seen'.raced = seen.raced
        /\ seen'.failed = seen.failed /\ seen'.torn = seen.torn \cup {m} /\ seen'.late = seen.late
    <2>1. seen \in SeenRec /\ seen.torn \subseteq DOMAIN module
      BY DEF Shape, ModulesShape
    <2>2. PICK e : e = seen.torn \cup {m}
      OBVIOUS
    <2>3. e \in SUBSET Nat
      BY <1>1, <2>1, <2>2, ShapeFacts
    <2> QED
      BY <1>5, <2>1, <2>2, <2>3, TornSet
  <1>10. FilesKept
    BY <1>4 DEF FilesKept
  <1>11. Shape'
    <2>1. ModulesShape'
      BY <1>1, <1>4, <1>9 DEF Shape, ModulesShape
    <2>2. Stepping(l)'
      BY <1>1, <1>5, <1>7, <1>8 DEF Stepping
    <2>3. RunnersShape'
      BY <1>1, <1>5, <1>7, <1>8, <1>10, <2>2, OneRunner
    <2>4. CallsShape'
      BY <1>5, <1>10, CallsFrame DEF Shape
    <2> QED
      BY <2>1, <2>3, <2>4 DEF Shape
  <1>12. \A j \in DOMAIN module : j # NoModule /\ Loads(j)' = Loads(j)
    BY <1>4, <1>5, ShapeFacts, LoadsFrame
  <1>13. \A j \in DOMAIN module : j # m => Users(j)' = Users(j)
    BY <1>0, <1>1, <1>5, <1>7, <1>8, <1>12, UsersStay
  <1>14. Users(m)' = Users(m) \ {l} /\ l \in Users(m)
    BY <1>0, <1>1, <1>5, <1>7, <1>8, UsersChange
  <1>15. Counted'
    <2>1. ASSUME NEW j \in DOMAIN module
          PROVE  /\ module[j].count >= Cardinality(Users(j)') + Cardinality(Loads(j))
                 /\ seen.late = 0 /\ module[j].freed = 1 => Users(j)' = {} /\ Loads(j) = {}
      <3>1. /\ module[j].count >= Cardinality(Users(j)) + Cardinality(Loads(j))
            /\ seen.late = 0 /\ module[j].freed = 1 => Users(j) = {} /\ Loads(j) = {}
            /\ module[j].count \in Nat
        BY <2>1, ShapeFacts, ModuleFields DEF Counted
      <3>2. CASE j # m
        BY <1>13, <2>1, <3>1, <3>2
      <3>3. CASE j = m
        <4>1. /\ Cardinality(Users(m) \ {l}) = Cardinality(Users(m)) - 1
              /\ Cardinality(Users(m)) \in Nat /\ Cardinality(Loads(m)) \in Nat
          BY <1>14, UsersFinite, OneElement
        <4>2. PICK u, v : u = Cardinality(Users(m)) /\ v = Cardinality(Loads(m))
          OBVIOUS
        <4>3. Cardinality(Users(m)') = u - 1
          BY <1>14, <4>1, <4>2, Zenon
        <4>4. u \in Nat /\ v \in Nat /\ module[m].count >= u + v
          BY <3>1, <3>3, <4>1, <4>2
        <4>5. module[m].count >= (u - 1) + v
          BY <3>1, <3>3, <4>4
        <4>6. module[m].count >= Cardinality(Users(m)') + Cardinality(Loads(m))
          BY <4>2, <4>3, <4>5
        <4>7. seen.late = 0 => module[m].freed # 1
          BY <1>14, <3>1, <3>3
        <4> QED
          BY <3>3, <4>6, <4>7
      <3> QED
        BY <3>2, <3>3
    <2> QED
      BY <1>4, <1>9, <1>12, <2>1 DEF Counted
  <1>16. Listed'
    BY <1>4, <1>9, ListedFrame
  <1>17. Relocated'
    <2>1. \A k \in Runners : \/ process'[k].module = NoModule
                             \/ process'[k].module = process[k].module /\ process'[k].data = process[k].data
      BY <1>7, <1>8 DEF OthersStay
    <2> QED
      BY <1>4, <1>5, <2>1, RelocatedFrame, KnownModules
  <1>18. Claims(role)'
    <2> DEFINE gone == {<<"stack", l>>, <<"data", l>>, <<"args", l>>, <<"module", m>>}
    <2>1. \A k \in Runners : k # l => {<<"run", k>>, <<"data", k>>, <<"args", k>>, <<"stack", k>>} \cap gone = {}
      OBVIOUS
    <2>2. <<"load", 0>> \notin gone /\ \A j : <<"module", j>> \in gone => j = m
      OBVIOUS
    <2>3. Keeps(role, role, gone)
      BY <1>4
    <2> HIDE DEF gone
    <2>4. \A j \in DOMAIN module' : ModuleHas(role, j)'
      <3>1. seen.torn \subseteq seen'.torn /\ \A j \in DOMAIN module : <<"module", j>> \in gone => j \in seen'.torn
        BY <1>9, <2>2
      <3> QED
        BY <1>3, <1>4, <2>3, <3>1, ModulesKeep
    <2>5. RunHas(role, l)' /\ ProcessHas(role, l)' /\ StackHas(role, l)'
      BY <1>1, <1>5, <1>7, <1>8 DEF RunHas, ProcessHas, StackHas
    <2> QED
      BY <1>3, <1>4, <1>5, <1>8, <2>1, <2>2, <2>3, <2>4, <2>5, ClaimsOne
  <1>19. MemoryInv'
    BY <1>4, <1>18 DEF MemoryInv
  <1> QED
    BY <1>11, <1>15, <1>16, <1>17, <1>19

-----------------------------------------------------------------------------
(* Memory as it is after xtMemoryInit. *)
LEMMA InitMemory ==
    MemoryOK(Memory, {}, {})
  <1>1. /\ Memory \in Seq([start : Nat \ {0}, length : Nat \ {0}, dead : {0}])
        /\ \A i, j \in DOMAIN Memory : i < j => Memory[i].start + Memory[i].length <= Memory[j].start
    BY PagesAssumption DEF Nowhere
  <1>2. Len(Memory) \in Nat /\ DOMAIN Memory = 1..Len(Memory)
        /\ \A i \in DOMAIN Memory : Memory[i] \in [start : Nat \ {0}, length : Nat \ {0}, dead : {0}]
    <2>1. PICK S : S = [start : Nat \ {0}, length : Nat \ {0}, dead : {0}]
      OBVIOUS
    <2>2. Memory \in Seq(S)
      BY <1>1, <2>1
    <2>3. Len(Memory) \in Nat /\ DOMAIN Memory = 1..Len(Memory) /\ \A i \in DOMAIN Memory : Memory[i] \in S
      BY <2>2
    <2> QED
      BY <2>1, <2>3
  <1>3. \A i \in DOMAIN Memory : /\ Memory[i].start \in Nat \ {0} /\ Memory[i].length \in Nat \ {0}
                                 /\ Memory[i].dead = 0 /\ Memory[i] \in Node
    BY <1>2 DEF Node
  <1>4. Memory \in Seq(Node)
    BY <1>1, <1>3
  <1>5. Apart(Memory)
    BY <1>1, <1>2, <1>3 DEF Apart, End
  <1>6. Whole(Memory)
    BY <1>2, <1>3, <1>4, <1>5 DEF Whole
  <1>7. \A p : p \in AllPages <=> p \in FreeIn(Memory)
    BY <1>3 DEF AllPages, FreeIn
  <1>8. \A p : Used(Memory, {}, {}, p) <=> p \in AllPages
    BY <1>7 DEF Used
  <1>9. \A q \in AllPages : High + q \notin AllPages
    <2> SUFFICES ASSUME NEW q \in AllPages, High + q \in AllPages PROVE FALSE
      OBVIOUS
    <2>1. q \in Nat \ {0} /\ High \in Nat /\ High + q < High
      BY LowPages
    <2> QED
      BY <2>1
  <1>10. Addressed(Memory, {}, {})
    BY <1>8, <1>9, Zenon DEF Addressed
  <1> QED
    BY <1>6, <1>10 DEF MemoryOK

(* The kernel's own module. *)
LEMMA InitModule ==
    ASSUME NEW x, x = [file |-> Kernel, image |-> Nowhere, count |-> 1, relocated |-> 1,
                       relocation |-> <<>>, freed |-> 0]
    PROVE  /\ x \in ModuleRec /\ x.file = Kernel /\ x.count = 1 /\ x.relocated = 1 /\ x.freed = 0
           /\ x.relocation = <<>>
  <1>1. <<>> \in Seq(Bases \cup {Kernel})
    OBVIOUS
  <1> QED
    BY <1>1 DEF ModuleRec, Nowhere

LEMMA InitLoaderInv ==
    Init => LoaderInv
  <1> SUFFICES ASSUME Init PROVE LoaderInv
    OBVIOUS
  <1>1. PICK x : x = [file |-> Kernel, image |-> Nowhere, count |-> 1, relocated |-> 1,
                      relocation |-> <<>>, freed |-> 0]
    OBVIOUS
  <1>2. /\ x \in ModuleRec /\ x.file = Kernel /\ x.count = 1 /\ x.relocated = 1 /\ x.freed = 0
        /\ x.relocation = <<>> /\ Kernel \notin Files
    BY <1>1, InitModule, LoaderAssumption
  <1>3. /\ module = <<x>> /\ modules = <<1>> /\ loading = <<>> /\ run = [l \in Runners |-> NoRun]
        /\ process = [l \in Runners |-> NoProcess]
        /\ seen = [raced |-> 0, failed |-> 0, late |-> 0, torn |-> {}, fault |-> 0]
        /\ regions = Memory /\ owned = {} /\ slack = {}
    BY <1>1, Zenon DEF Init, PageInit
  <1>4. /\ module \in Seq(ModuleRec) /\ Len(module) = 1 /\ module[1] = x /\ DOMAIN module = {1}
        /\ modules \in Seq(1..Len(module)) /\ DOMAIN modules = {1} /\ modules[1] = 1
        /\ loading \in Seq(CallRec) /\ DOMAIN loading = {} /\ NoModule = 0
    BY <1>2, <1>3 DEF NoModule
  <1>5. /\ seen \in SeenRec /\ seen.raced = 0 /\ seen.failed = 0 /\ seen.late = 0 /\ seen.torn = {} /\ seen.fault = 0
    BY <1>3 DEF SeenRec
  <1>6. /\ run \in [Runners -> RunRec] /\ process \in [Runners -> ProcessRec]
        /\ \A l \in Runners : /\ run[l].module = NoModule /\ run[l].pc = "idle" /\ process[l].module = NoModule
                              /\ process[l].memoryMap = <<>>
    BY <1>3, EmptyProcess
  <1>7. Shape
    <2>1. ModulesShape
      BY <1>4, <1>5 DEF ModulesShape
    <2>2. RunnersShape
      BY <1>6 DEF RunnersShape, Known, Stepping
    <2>3. CallsShape
      BY <1>4 DEF CallsShape
    <2> QED
      BY <2>1, <2>2, <2>3 DEF Shape
  <1>8. Users(1) = {} /\ Loads(1) = {}
    BY <1>4, <1>6 DEF Users, Loads
  <1>9. Counted
    <2>1. Cardinality(Users(1)) = 0 /\ Cardinality(Loads(1)) = 0
      BY <1>8, FS_EmptySet, Zenon
    <2> QED
      BY <1>2, <1>4, <1>8, <2>1 DEF Counted
  <1>10. Listed
    BY <1>4 DEF Listed, OneImagePerFile
  <1>11. Relocated
    <2>1. Moves(1) = {}
      BY <1>2, <1>4 DEF Moves
    <2>2. Cardinality(Moves(1)) = 0
      BY <2>1, FS_EmptySet, Zenon
    <2>3. Moved(1)
      BY <1>2, <1>4, <2>1, <2>2 DEF Moved
    <2>4. \A l \in Runners : Lags(l)
      BY <1>6 DEF Lags
    <2> QED
      BY <1>4, <2>3, <2>4 DEF Relocated
  <1>12. MemoryInv
    <2>1. <<"load", 0>> \in Roles
      BY RoleKinds
    <2>2. PICK role : role = [a \in Nat |-> <<"load", 0>>]
      OBVIOUS
    <2>3. role \in [Nat -> Roles]
      BY <2>1, <2>2
    <2>4. ModuleHas(role, 1)
      BY <1>2, <1>4 DEF ModuleHas
    <2>5. \A l \in Runners : RunHas(role, l) /\ ProcessHas(role, l) /\ StackHas(role, l)
      BY <1>6 DEF RunHas, ProcessHas, StackHas
    <2>6. Claims(role)
      BY <1>4, <2>3, <2>4, <2>5 DEF Claims
    <2> QED
      BY <1>3, <2>6, InitMemory DEF MemoryInv
  <1> QED
    BY <1>7, <1>9, <1>10, <1>11, <1>12 DEF LoaderInv

(* Nothing happens. *)
LEMMA StutterLoaderInv ==
    ASSUME LoaderInv, UNCHANGED vars
    PROVE  LoaderInv'
  <1>1. /\ UNCHANGED <<regions, owned, slack>> /\ UNCHANGED <<modules, module, run, process, loading, seen>>
    BY DEF vars, pageVars, loaderVars
  <1>2. Shape'
    BY <1>1 DEF LoaderInv, Shape, ModulesShape, RunnersShape, CallsShape, Known, Stepping, Calling
  <1>3. \A m : Users(m)' = Users(m) /\ Loads(m)' = Loads(m) /\ Moves(m)' = Moves(m)
    BY <1>1 DEF Users, Loads, Moves
  <1>4. Counted' /\ Listed' /\ Relocated'
    BY <1>1, <1>3 DEF LoaderInv, Counted, Listed, OneImagePerFile, Relocated, Moved, Lags
  <1>5. ASSUME NEW role, Claims(role) PROVE Claims(role)'
    BY <1>1, <1>5 DEF Claims, ModuleHas, LoadHas, RunHas, ProcessHas, StackHas, Has
  <1>6. MemoryInv'
    BY <1>1, <1>5 DEF LoaderInv, MemoryInv
  <1> QED
    BY <1>2, <1>4, <1>6 DEF LoaderInv

LEMMA NextLoaderInv ==
    LoaderInv /\ [Next]_vars => LoaderInv'
  <1> SUFFICES ASSUME LoaderInv, [Next]_vars PROVE LoaderInv'
    OBVIOUS
  <1>1. ASSUME NEW f \in Files, xtLoadKernelModule(f) PROVE LoaderInv'
    BY <1>1, LoadKernelModuleInv
  <1>2. CASE AppendKernelModule
    BY <1>2, AppendKernelModuleInv
  <1>3. CASE LoadKernelSubmodule
    BY <1>3, LoadKernelSubmoduleInv
  <1>4. CASE ReturnLoaded
    BY <1>4, ReturnLoadedInv
  <1>5. CASE ReturnFailed
    BY <1>5, ReturnFailedInv
  <1>6. ASSUME NEW l \in Runners, NEW f \in Files, GetProgram(l, f) PROVE LoaderInv'
    BY <1>6, GetProgramInv
  <1>7. ASSUME NEW l \in Runners, AppendProgram(l) PROVE LoaderInv'
    BY <1>7, AppendProgramInv
  <1>8. ASSUME NEW l \in Runners, NEW base \in Bases, xtMapModuleToProcess(l, base) PROVE LoaderInv'
    BY <1>8, MapModuleToProcessInv
  <1>9. ASSUME NEW l \in Runners, RelocateImage(l) PROVE LoaderInv'
    BY <1>9, RelocateImageInv
  <1>10. ASSUME NEW l \in Runners, StartThread(l) PROVE LoaderInv'
    BY <1>10, StartThreadInv
  <1>11. ASSUME NEW l \in Runners, xtTerminateProcess(l) PROVE LoaderInv'
    BY <1>11, TerminateProcessInv
  <1>12. CASE CountKernelModule
    BY <1>12, CountKernelModuleInv
  <1>13. ASSUME NEW l \in Runners, CountProgram(l) PROVE LoaderInv'
    BY <1>13, CountProgramInv
  <1>14. CASE UNCHANGED vars
    BY <1>14, StutterLoaderInv
  <1> QED
    BY <1>1, <1>2, <1>3, <1>4, <1>5, <1>6, <1>7, <1>8, <1>9, <1>10, <1>11, <1>12, <1>13, <1>14, Zenon DEF Next

(* Every state that the loader reaches satisfies the inductive invariant. *)
THEOREM LoaderInvariant ==
    Spec => []LoaderInv
  BY InitLoaderInv, NextLoaderInv, PTL DEF Spec

-----------------------------------------------------------------------------
(* The pages of a piece, as the properties count them. *)
LEMMA SpanOfPiece ==
    ASSUME NEW a \in Nat, NEW n \in Nat, NEW o, o.start = a, o.length = n, NEW p
    PROVE  p \in Span(o) <=> InPiece(p, a, n)
  BY DEF Span, InPiece

LEMMA SpanOfOwned ==
    ASSUME NEW list, NEW own, NEW pad, MemoryOK(list, own, pad), NEW o \in own, NEW p
    PROVE  p \in Span(o) <=> Within(o, p)
  <1>1. o \in Pieces
    BY DEF MemoryOK
  <1>2. o.start \in Nat /\ o.length \in Nat
    BY <1>1 DEF Pieces
  <1> QED
    BY <1>2, SpanOfPiece DEF Within

(* An address in use has a page, and the page has no other. *)
LEMMA PageOfAddress ==
    ASSUME NEW list, NEW own, NEW pad, MemoryOK(list, own, pad), NEW p, Used(list, own, pad, p)
    PROVE  Physical(p) \in AllPages /\ (p = Physical(p) \/ p = High + Physical(p))
  <1>1. CASE p \in AllPages
    BY <1>1, LowPages DEF Physical
  <1>2. ASSUME NEW q \in AllPages, p = High + q PROVE Physical(p) = q
    <2>1. q \in Nat /\ High \in Nat
      BY LowPages
    <2>2. ~(p < High) /\ p - High = q
      BY <1>2, <2>1
    <2> QED
      BY <2>2 DEF Physical
  <1> QED
    BY <1>1, <1>2 DEF MemoryOK, Addressed

LEMMA OneAddress ==
    ASSUME NEW list, NEW own, NEW pad, MemoryOK(list, own, pad), NEW p, NEW q,
           Used(list, own, pad, p), Used(list, own, pad, q), Physical(p) = Physical(q)
    PROVE  p = q
  <1>1. PICK x : x = Physical(p)
    OBVIOUS
  <1>2. x \in AllPages /\ (p = x \/ p = High + x) /\ (q = x \/ q = High + x)
    BY <1>1, PageOfAddress
  <1>3. ~(Used(list, own, pad, x) /\ Used(list, own, pad, High + x))
    BY <1>2 DEF MemoryOK, Addressed
  <1> QED
    BY <1>2, <1>3

(* A part of what is owned is not free, under either address. *)
LEMMA PartNotFree ==
    ASSUME MemoryOK(regions, owned, slack), NEW a \in Nat, NEW n \in Nat, NEW k \in Nat, k <= n, Piece(a, n) \in owned
    PROVE  PhysicalPages(Span(Piece(a, k))) \cap PhysicalPages(Free) = {}
  <1>1. /\ Piece(a, n).start = a /\ Piece(a, n).length = n /\ Piece(a, k).start = a /\ Piece(a, k).length = k
    BY DEF Piece
  <1>2. ASSUME NEW p, p \in Span(Piece(a, k)), NEW q, q \in Free, Physical(p) = Physical(q) PROVE FALSE
    <2>1. InPiece(p, a, k)
      BY <1>1, <1>2, SpanOfPiece
    <2>2. InPiece(p, a, n)
      BY <2>1 DEF InPiece
    <2>3. Within(Piece(a, n), p)
      BY <1>1, <2>2 DEF Within
    <2>4. p \notin Free
      BY <2>3 DEF MemoryOK, Free
    <2>5. Used(regions, owned, slack, p) /\ Used(regions, owned, slack, q)
      BY <1>2, <2>3 DEF Used, Free
    <2> QED
      BY <1>2, <2>4, <2>5, OneAddress
  <1> QED
    BY <1>2 DEF PhysicalPages

(* What a process has mapped is not free. *)
LEMMA MappedNotFree ==
    ASSUME LoaderInv, NEW l \in Runners, process[l].module \notin seen.torn, seen.fault = 0, seen.late = 0,
           NEW i \in DOMAIN process[l].memoryMap
    PROVE  PhysicalPages(Span(process[l].memoryMap[i])) \cap PhysicalPages(Free) = {}
  <1> USE DEF LoaderInv
  <1>0. PICK m, map : m = process[l].module /\ map = process[l].memoryMap
    OBVIOUS
  <1>1. process[l] \in ProcessRec /\ map \in Seq(MapRec) /\ i \in DOMAIN map
    BY <1>0, ShapeFacts, ProcessFields
  <1>2. m # NoModule
    <2>1. ASSUME m = NoModule PROVE FALSE
      <3>1. map = <<>>
        BY <1>0, <2>1 DEF Shape, RunnersShape, Stepping
      <3> QED
        BY <1>1, <3>1
    <2> QED
      BY <2>1
  <1>3. m \in DOMAIN module /\ module[m].file \in Files /\ module[m] \in ModuleRec
    BY <1>0, <1>2, ShapeFacts DEF Shape, RunnersShape, Known
  <1>4. module[m].freed = 0
    <2>1. l \in Users(m)
      BY <1>0 DEF Users
    <2>2. Users(m) # {}
      BY <2>1
    <2> QED
      BY <1>3, <2>2, ModuleFields DEF Counted
  <1>5. PICK role : Claims(role)
    BY DEF MemoryInv
  <1>6. Has(role, module[m].image, ImagePages, <<"module", m>>)
    BY <1>0, <1>3, <1>4, <1>5 DEF Claims, ModuleHas
  <1>7. /\ map[1] = Piece(module[m].image, CodePages)
        /\ map[2] = Piece(map[2].start, DataPages) /\ Has(role, map[2].start, DataPages, <<"data", l>>)
        /\ Len(map) = IF run[l].pc = "idle" THEN 3 ELSE 2
        /\ run[l].pc = "idle" => map[3] = Piece(map[3].start, 1) /\ Has(role, map[3].start, 1, <<"args", l>>)
    BY <1>0, <1>2, <1>5 DEF Claims, ProcessHas
  <1>8. MemoryOK(regions, owned, slack)
    BY DEF MemoryInv
  <1>9. /\ CodePages \in Nat /\ DataPages \in Nat /\ ImagePages \in Nat /\ CodePages <= ImagePages
    BY LoaderAssumption DEF ImagePages
  <1>10. PhysicalPages(Span(map[1])) \cap PhysicalPages(Free) = {}
    BY <1>6, <1>7, <1>8, <1>9, PartNotFree DEF Has
  <1>11. PhysicalPages(Span(map[2])) \cap PhysicalPages(Free) = {}
    <2>1. PICK d : d = map[2].start
      OBVIOUS
    <2>2. d \in Nat /\ Piece(d, DataPages) \in owned /\ map[2] = Piece(d, DataPages)
      BY <1>7, <2>1 DEF Has
    <2>3. DataPages <= DataPages
      BY <1>9
    <2>4. PhysicalPages(Span(Piece(d, DataPages))) \cap PhysicalPages(Free) = {}
      BY <1>8, <1>9, <2>2, <2>3, PartNotFree
    <2> QED
      BY <2>2, <2>4
  <1>12. run[l].pc = "idle" => PhysicalPages(Span(map[3])) \cap PhysicalPages(Free) = {}
    <2>1. PICK d : d = map[3].start
      OBVIOUS
    <2>2. run[l].pc = "idle" => d \in Nat /\ Piece(d, 1) \in owned /\ map[3] = Piece(d, 1)
      BY <1>7, <2>1 DEF Has
    <2>3. 1 <= 1 /\ 1 \in Nat
      OBVIOUS
    <2>4. run[l].pc = "idle" => PhysicalPages(Span(Piece(d, 1))) \cap PhysicalPages(Free) = {}
      BY <1>8, <2>2, <2>3, PartNotFree
    <2> QED
      BY <2>2, <2>4
  <1>13. i = 1 \/ i = 2 \/ (i = 3 /\ run[l].pc = "idle")
    BY <1>1, <1>7
  <1> QED
    BY <1>0, <1>10, <1>11, <1>12, <1>13

LEMMA LoaderPages ==
    LoaderInv => PagesInv
  <1> SUFFICES ASSUME LoaderInv PROVE PagesInv
    OBVIOUS
  <1>1. Shape /\ MemoryOK(regions, owned, slack)
    BY DEF LoaderInv, MemoryInv
  <1>2. TypeOK
    <2>1. \A m \in DOMAIN module : module[m].file \in Files \cup {Kernel} /\ module[m].count \in Nat
      BY <1>1, ShapeFacts, ModuleFields
    <2>2. \A l \in Runners : run[l].module \in DOMAIN module \cup {NoModule}
      BY <1>1 DEF Shape, RunnersShape, Known
    <2>3. \A i \in DOMAIN regions : regions[i].start \in Nat /\ regions[i].length \in Nat
      BY <1>1, NodeFields DEF MemoryOK, Whole
    <2> QED
      BY <1>1, <2>1, <2>2, <2>3, ShapeFacts DEF TypeOK
  <1>3. \A o \in owned : \A p : p \in Span(o) <=> Within(o, p)
    BY <1>1, SpanOfOwned
  <1>4. OwnedOnce
    <2>1. \A p \in Free : Used(regions, owned, slack, p)
      BY DEF Used, Free
    <2>2. \A o \in owned : \A p \in Span(o) : Used(regions, owned, slack, p) /\ p \notin Free
      BY <1>1, <1>3 DEF Used, MemoryOK, Free
    <2>3. \A o, q \in owned : \A p : p \in Span(o) /\ p \in Span(q) => o = q
      BY <1>1, <1>3 DEF MemoryOK
    <2>4. ASSUME NEW p \in Free, p < High PROVE Higher(p) \notin Free
      <3>1. Physical(p) = p /\ p \in AllPages /\ Higher(p) = High + p
        BY <1>1, <2>1, <2>4, PageOfAddress DEF Physical, Higher
      <3>2. ~Used(regions, owned, slack, High + p)
        BY <1>1, <2>1, <3>1 DEF MemoryOK, Addressed
      <3> QED
        BY <2>1, <3>1, <3>2
    <2>5. PhysicalPages(Free) \cap PhysicalPages(Owned) = {}
      <3>1. ASSUME NEW p \in Free, NEW q \in Owned, Physical(p) = Physical(q) PROVE FALSE
        <4>1. PICK o \in owned : q \in Span(o)
          BY DEF Owned
        <4> QED
          BY <1>1, <2>1, <2>2, <3>1, <4>1, OneAddress
      <3> QED
        BY <3>1 DEF PhysicalPages
    <2>6. ASSUME NEW o \in owned, NEW q \in owned, o # q
          PROVE  PhysicalPages(Span(o)) \cap PhysicalPages(Span(q)) = {}
      <3>1. ASSUME NEW p \in Span(o), NEW r \in Span(q), Physical(p) = Physical(r) PROVE FALSE
        <4>1. p = r
          BY <1>1, <2>2, <3>1, OneAddress
        <4> QED
          BY <2>3, <2>6, <4>1
      <3> QED
        BY <3>1 DEF PhysicalPages
    <2> QED
      BY <2>4, <2>5, <2>6 DEF OwnedOnce
  <1>5. PagesOwnedOnce
    BY <1>4, MappedNotFree DEF PagesOwnedOnce
  <1>6. RegionsDisjoint
    BY <1>1 DEF MemoryOK, Whole, Apart, RegionsDisjoint
  <1>7. NoPageVanishes
    <2>1. \A p : p \in Owned <=> \E o \in owned : Within(o, p)
      BY <1>3 DEF Owned
    <2>2. \A p : p \in Free \cup slack \cup Owned <=> Used(regions, owned, slack, p)
      BY <2>1 DEF Used, Free
    <2>3. ASSUME NEW q \in AllPages PROVE \E p \in Free \cup slack \cup Owned : q = Physical(p)
      <3>1. PICK p : Used(regions, owned, slack, p) /\ (p = q \/ p = High + q)
        BY <1>1 DEF MemoryOK, Addressed
      <3>2. q \in Nat /\ q < High /\ High \in Nat
        BY LowPages
      <3>3. Physical(p) = q
        BY <3>1, <3>2 DEF Physical
      <3> QED
        BY <2>2, <3>1, <3>3
    <2>4. \A p \in Free \cup slack \cup Owned : Physical(p) \in AllPages
      BY <1>1, <2>2, PageOfAddress
    <2> QED
      BY <2>3, <2>4 DEF NoPageVanishes, PhysicalPages
  <1> QED
    BY <1>2, <1>5, <1>6, <1>7 DEF PagesInv

LEMMA LoaderUsers ==
    LoaderInv => UsersInv
  BY DEF LoaderInv, Counted, Listed, UsersInv, CountCoversUsers, UsedNotFreed

(* What is behind is a strict prefix. *)
LEMMA BehindIsPrefix ==
    ASSUME NEW R, NEW s \in Seq(R), NEW t \in Seq(R), Behind(s, t, TRUE)
    PROVE  IsStrictPrefix(s, t)
  <1>1. /\ Len(s) \in Nat /\ Len(t) \in Nat /\ Len(s) <= Len(t) /\ Len(s) < Len(t)
        /\ \A i \in 1..Len(s) : t[i] = s[i]
    BY DEF Behind
  <1>2. SubSeq(s, 1, Len(s)) = [i \in 1..Len(s) |-> s[i]] /\ SubSeq(t, 1, Len(s)) = [i \in 1..Len(s) |-> t[i]]
    BY <1>1
  <1>3. s # t
    BY <1>1
  <1> QED
    BY <1>1, <1>2, <1>3 DEF IsStrictPrefix, IsPrefix

LEMMA LoaderRelocation ==
    LoaderInv => RelocationInv
  <1> SUFFICES ASSUME LoaderInv PROVE RelocationInv
    OBVIOUS
  <1> USE DEF LoaderInv
  <1>1. KernelRelocatesOnce
    BY DEF Relocated, Moved, Moves, KernelRelocatesOnce
  <1>2. ASSUME NEW l \in Runners, Started(l)
        PROVE  IsStrictPrefix(process[l].data, module[process[l].module].relocation)
    <2>1. PICK m, s, t : m = process[l].module /\ s = process[l].data /\ t = module[m].relocation
      OBVIOUS
    <2>2. m # NoModule /\ run[l].pc = "idle" /\ m \in DOMAIN module /\ module[m] \in ModuleRec
          /\ process[l] \in ProcessRec
      BY <1>2, <2>1, ShapeFacts DEF Started, Shape, RunnersShape, Known
    <2>3. s \in Seq(Bases \cup {Kernel}) /\ t \in Seq(Bases \cup {Kernel})
      BY <2>1, <2>2, ModuleFields, ProcessFields
    <2>4. Behind(s, t, run[l].pc # "relocate")
      BY <2>1, <2>2 DEF Relocated, Lags
    <2>5. Behind(s, t, TRUE)
      BY <2>2, <2>4 DEF Behind
    <2> QED
      BY <2>1, <2>3, <2>5, BehindIsPrefix, Zenon
  <1> QED
    BY <1>1, <1>2 DEF DataLagsBehindCode, RelocationInv

(* For every size and place of the free memory, number of runners, set of  *)
(* files and graph of imports: a physical page is free, lost to rounding   *)
(* or owned once, whether the allocator knows it by its own address or by  *)
(* the one in the higher half, at which kernel stacks are given back       *)
(* (process.c:264); and what a process has mapped is not free, but for the *)
(* code that process.c:282 frees under the processes that share it.        *)
THEOREM PagesOwned ==
    Spec => []PagesInv
  BY LoaderInvariant, LoaderPages, PTL

(* The references of sharedptr.c cover the users and the loads in progress *)
(* whatever loads race or fail; a module in use is freed only if a thread  *)
(* was between finding it and counting its reference (linker.c:164, 168)   *)
(* when another's load failed; and a file has one image as long as no two  *)
(* loads of it race and none fails.                                        *)
THEOREM UsersCounted ==
    Spec => []UsersInv
  BY LoaderInvariant, LoaderUsers, PTL

(* However often it is imported, a module is relocated to the kernel once  *)
(* (linker.c:432), whatever its flags hold at first.  A process that has   *)
(* started runs code that has been moved at least once more than its copy  *)
(* of the data (linker.c:371-373, 406): not what linker.c:403-404 says.    *)
THEOREM RelocatedOnce ==
    Spec => []RelocationInv
  BY LoaderInvariant, LoaderRelocation, PTL
=============================================================================
