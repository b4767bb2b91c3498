------------------------------- MODULE Heap -------------------------------
(***************************************************************************)
(* The kernel heap, Kernel/MemoryManager/memory_manager.c: a first-fit     *)
(* allocator over one region, with a free list in address order and        *)
(* coalescing of neighbours.  Stacks, process nodes, semaphores, queue     *)
(* nodes, pipes and the blocks of user programs all come from it.          *)
(*                                                                         *)
(* A block is the header (freeNode) with the payload behind it: addr is    *)
(* the address of the header, size the number of bytes of both.            *)
(***************************************************************************)
EXTENDS SequencesExt, Integers

CONSTANTS
    START_MM,   \* address of the region
    MAX_SIZE,   \* its bytes
    Word,       \* number of values of a size_t
    Wanted      \* the sizes asked for

VARIABLES
    initialised,          \* endNode # NULL
    freeList,             \* the blocks from startNode.next up to endNode
    freeBytesRemaining,
    used                  \* allocated blocks, with the size that was wanted

heapVars == <<initialised, freeList, freeBytesRemaining, used>>

BYTE_ALIGNMENT     == 8
nodeSize           == 16
MINIMUM_BLOCK_SIZE == 2 * nodeSize

AlignUp(n)   == IF n % BYTE_ALIGNMENT = 0 THEN n ELSE n + (BYTE_ALIGNMENT - (n % BYTE_ALIGNMENT))
AlignDown(n) == n - (n % BYTE_ALIGNMENT)

(* The address of the first block, of endNode, and the bytes between.      *)
alignedHeap == AlignUp(START_MM)
endNode     == AlignDown(START_MM + MAX_SIZE - nodeSize)
HeapBytes   == endNode - alignedHeap

ASSUME HeapAssumption ==
    /\ START_MM \in Nat /\ START_MM > 0
    /\ MAX_SIZE \in Nat /\ Word \in Nat
    /\ HeapBytes > nodeSize
    /\ START_MM + MAX_SIZE < Word /\ Word % BYTE_ALIGNMENT = 0
    /\ Wanted \subseteq 0..(Word - 1)

Blocks == [addr : alignedHeap..endNode, size : 1..HeapBytes]
UsedBlocks == [addr : alignedHeap..endNode, size : 1..HeapBytes, wanted : Wanted]

---------------------------------------------------------------------------
(* listInit leaves one free block from the aligned start to endNode.       *)
listInit == <<[addr |-> alignedHeap, size |-> HeapBytes]>>

(* Mutant: the size is not checked for overflow.                           *)
AdjustedUnchecked(w) == IF w = 0 THEN 0 ELSE AlignUp((w + nodeSize) % Word) % Word

(* The bytes a request takes, header and padding included; 0 when it is    *)
(* refused: for size 0 and where the unsigned sum wraps around.            *)
Adjusted(w) ==
    LET sum == (w + nodeSize) % Word
    IN  IF w > 0 /\ sum > w THEN AlignUp(sum) % Word ELSE 0

(* The number of blocks in front of address a.                             *)
Position(list, a) ==
    CHOOSE i \in 0..Len(list) : /\ \A j \in 1..i : list[j].addr < a
                                /\ i < Len(list) => list[i + 1].addr >= a

(* The block ends where the next one begins.                               *)
Adjacent(b, c) == b.addr + b.size = c.addr

(* Mutant: the block is not merged with the one in front of it.            *)
addNodeToFreeListNoMerge(list, toAdd) ==
    LET i == Position(list, toAdd.addr)
        mergeNext == i < Len(list) /\ Adjacent(toAdd, list[i + 1])
        merged == IF mergeNext THEN [toAdd EXCEPT !.size = @ + list[i + 1].size] ELSE toAdd
    IN  SubSeq(list, 1, i) \o <<merged>>
        \o SubSeq(list, IF mergeNext THEN i + 2 ELSE i + 1, Len(list))

(* Mutant: after a merge with the block in front the old neighbour stays.  *)
addNodeToFreeListKeepsNext(list, toAdd) ==
    LET i == Position(list, toAdd.addr)
        mergePrev == i > 0 /\ Adjacent(list[i], toAdd)
        mergeNext == i < Len(list) /\ Adjacent(toAdd, list[i + 1])
        withPrev == IF mergePrev
                    THEN [list[i] EXCEPT !.size = @ + toAdd.size] ELSE toAdd
        merged == IF mergeNext
                  THEN [withPrev EXCEPT !.size = @ + list[i + 1].size] ELSE withPrev
    IN  SubSeq(list, 1, IF mergePrev THEN i - 1 ELSE i) \o <<merged>>
        \o SubSeq(list, IF mergeNext /\ ~mergePrev THEN i + 2 ELSE i + 1, Len(list))

(* The block is linked at its address and merged with the free neighbour   *)
(* in front of it and with the one behind it.                              *)
addNodeToFreeList(list, toAdd) ==
    LET i == Position(list, toAdd.addr)
        mergePrev == i > 0 /\ Adjacent(list[i], toAdd)
        mergeNext == i < Len(list) /\ Adjacent(toAdd, list[i + 1])
        withPrev == IF mergePrev
                    THEN [list[i] EXCEPT !.size = @ + toAdd.size] ELSE toAdd
        merged == IF mergeNext
                  THEN [withPrev EXCEPT !.size = @ + list[i + 1].size] ELSE withPrev
    IN  SubSeq(list, 1, IF mergePrev THEN i - 1 ELSE i) \o <<merged>>
        \o SubSeq(list, IF mergeNext THEN i + 2 ELSE i + 1, Len(list))

(* First fit: the index of the first block of at least n bytes.            *)
Fits(list, n) == {i \in DOMAIN list : list[i].size >= n}
FirstFit(list, n) == CHOOSE i \in Fits(list, n) : \A j \in Fits(list, n) : i <= j

(* The bytes taken from a block: all of it unless the rest can stand as a  *)
(* block of its own.                                                       *)
Taken(block, n) == IF block.size - n > MINIMUM_BLOCK_SIZE THEN n ELSE block.size

---------------------------------------------------------------------------
HeapInit ==
    /\ initialised = FALSE
    /\ freeList = <<>>
    /\ freeBytesRemaining = 0
    /\ used = {}

List  == IF initialised THEN freeList ELSE listInit
Bytes == IF initialised THEN freeBytesRemaining ELSE HeapBytes

(* alloc that returns a block.                                             *)
alloc(w) ==
    LET n == Adjusted(w)
        i == FirstFit(List, n)
        block == List[i]
        size == Taken(block, n)
        rest == RemoveAt(List, i)
    IN  /\ n # 0 /\ n <= Bytes /\ Fits(List, n) # {}
        /\ freeList' = IF size = block.size THEN rest
                       ELSE addNodeToFreeList(rest, [addr |-> block.addr + size,
                                                     size |-> block.size - size])
        /\ freeBytesRemaining' = Bytes - size
        /\ used' = used \cup {[addr |-> block.addr, size |-> size, wanted |-> w]}
        /\ initialised' = TRUE

(* alloc that returns NULL: it still initialises the list.                 *)
allocFails(w) ==
    LET n == Adjusted(w)
    IN  /\ n = 0 \/ n > Bytes \/ Fits(List, n) = {}
        /\ initialised' = TRUE
        /\ freeList' = List
        /\ freeBytesRemaining' = Bytes
        /\ UNCHANGED used

(* free of a block that is in use.                                         *)
free(b) ==
    /\ freeList' = addNodeToFreeList(freeList, [addr |-> b.addr, size |-> b.size])
    /\ freeBytesRemaining' = freeBytesRemaining + b.size
    /\ used' = used \ {b}
    /\ UNCHANGED initialised

HeapNext ==
    \/ \E w \in Wanted : alloc(w)
    \/ \E w \in Wanted : allocFails(w)
    \/ \E b \in used : free(b)

HeapSpec == HeapInit /\ [][HeapNext]_heapVars

---------------------------------------------------------------------------
HeapTypeOK ==
    /\ initialised \in BOOLEAN
    /\ freeList \in Seq(Blocks)
    /\ freeBytesRemaining \in 0..HeapBytes
    /\ used \subseteq UsedBlocks

Disjoint(b, c) == b.addr + b.size <= c.addr \/ c.addr + c.size <= b.addr

(* No byte belongs to two blocks: blocks in use overlap neither each other *)
(* nor a free block, and all lie between the aligned start and endNode, on *)
(* the alignment boundary.                                                 *)
NoOverlap ==
    /\ \A b, c \in used : b # c => Disjoint(b, c)
    /\ \A b \in used, i \in DOMAIN freeList : Disjoint(b, freeList[i])
    /\ \A b \in used \cup ToSet(freeList) :
            /\ b.addr >= alignedHeap /\ b.addr + b.size <= endNode
            /\ b.addr % BYTE_ALIGNMENT = 0

(* The free list is in address order and no two of its blocks touch: each  *)
(* free and each split merged all that could be merged.                    *)
Coalesced ==
    \A i, j \in DOMAIN freeList :
        i < j => freeList[i].addr + freeList[i].size < freeList[j].addr

(* freeBytesRemaining, which alloc trusts to refuse a request before it    *)
(* looks at the list, is what the list holds, and no byte is lost.         *)
Accounted ==
    initialised =>
        /\ freeBytesRemaining = FoldSeq(LAMBDA b, sum : b.size + sum, 0, freeList)
        /\ freeBytesRemaining + MapThenSumSet(LAMBDA b : b.size, used) = HeapBytes

(* A caller gets at least the bytes it asked for, whatever the size.       *)
PayloadFits == \A b \in used : b.size - nodeSize >= b.wanted
============================================================================
