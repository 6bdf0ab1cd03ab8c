--------------------------------- MODULE Heap ---------------------------------
(***************************************************************************)
(* The heap of kernel/heap.c, as operators on the list of its blocks in    *)
(* the order of their addresses (next and prev of the headers), which the  *)
(* allocator splits, marks and merges inside critical sections.  Addresses *)
(* and sizes are in units of HEAP_ALIGN bytes.                             *)
(***************************************************************************)
EXTENDS Integers, Sequences, SequencesExt

CONSTANTS
    HeapUnits,   \* size of the heap
    HeaderUnits, \* HEAP_HEADER_SIZE
    MaxCopy      \* AIXOS_CFG_MAX_IPC_COPY_BYTES, the longest aixos_malloc

ASSUME HeapAssumption ==
    HeaderUnits \in Nat \ {0} /\ HeapUnits \in Nat /\ HeapUnits > HeaderUnits + 1

Null == -1

\* Bytes and a canary of 4 bytes, rounded up to the alignment of 8; nothing
\* is allocated as one byte.
UnitsFor(bytes) == ((IF bytes = 0 THEN 1 ELSE bytes) + 4 + 7) \div 8

\* The address of a block is that of its header, and its size does not count
\* the header.
FreeBlock(at, size) == [at |-> at, size |-> size, used |-> FALSE]

UsedBlock(at, size) == [at |-> at, size |-> size, used |-> TRUE]

\* aixos_heap_init: one free block.
FreshHeap == <<FreeBlock(0, HeapUnits - HeaderUnits)>>

BlockEnd(b) == b.at + HeaderUnits + b.size

Fits(blocks, units) ==
    {i \in DOMAIN blocks : ~blocks[i].used /\ blocks[i].size >= units}

\* Best fit, and the first of the best.
BestFit(blocks, units) ==
    CHOOSE i \in Fits(blocks, units) :
        \A j \in Fits(blocks, units) :
            \/ blocks[i].size < blocks[j].size
            \/ blocks[i].size = blocks[j].size /\ i <= j

\* What becomes of a free block b: what is left is a block of its own if it is
\* worth a header.
Split(b, units) ==
    IF b.size - units > HeaderUnits + 1
    THEN <<UsedBlock(b.at, units),
           FreeBlock(b.at + HeaderUnits + units, b.size - units - HeaderUnits)>>
    ELSE <<UsedBlock(b.at, b.size)>>

Allocated(blocks, i, units) ==
    SubSeq(blocks, 1, i - 1) \o Split(blocks[i], units)
        \o SubSeq(blocks, i + 1, Len(blocks))

\* The block i takes the one behind it in, header and all, if both are free.
Merged(blocks, i) ==
    IF i \in DOMAIN blocks /\ i + 1 \in DOMAIN blocks
       /\ ~blocks[i].used /\ ~blocks[i + 1].used
    THEN SubSeq(blocks, 1, i - 1)
         \o <<FreeBlock(blocks[i].at,
                        blocks[i].size + HeaderUnits + blocks[i + 1].size)>>
         \o SubSeq(blocks, i + 2, Len(blocks))
    ELSE blocks

Marked(blocks, i) ==
    [blocks EXCEPT ![i] = FreeBlock(blocks[i].at, blocks[i].size)]

\* Faulty: a block is merged with the one behind it only.
FreedForward(blocks, i) == Merged(Marked(blocks, i), i)

\* aixos_free: merge with the block behind, then with the block before.
Freed(blocks, i) == Merged(Merged(Marked(blocks, i), i), i - 1)

UsedBlocks(blocks) == {i \in DOMAIN blocks : blocks[i].used}

\* What the blocks in use take, with their headers.
UsedUnits(blocks) ==
    LET sum[n \in 0 .. Len(blocks)] ==
            IF n = 0 THEN 0
            ELSE IF blocks[n].used THEN sum[n - 1] + blocks[n].size + HeaderUnits
            ELSE sum[n - 1]
    IN  sum[Len(blocks)]

\* The addresses of the blocks that are in use.
UsedAddresses(blocks) == {blocks[i].at : i \in UsedBlocks(blocks)}

BlockAt(blocks, address) == CHOOSE i \in DOMAIN blocks : blocks[i].at = address

\* The blocks cover the heap without a gap or an overlap, and no two free
\* blocks are neighbours.
Tiled(blocks) ==
    /\ blocks[1].at = 0
    /\ BlockEnd(blocks[Len(blocks)]) = HeapUnits
    /\ \A i \in DOMAIN blocks : blocks[i].size > 0
    /\ \A i \in 1 .. Len(blocks) - 1 :
          /\ BlockEnd(blocks[i]) = blocks[i + 1].at
          /\ blocks[i].used \/ blocks[i + 1].used
=============================================================================
