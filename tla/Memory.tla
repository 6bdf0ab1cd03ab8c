-------------------------------- MODULE Memory --------------------------------
(***************************************************************************)
(* Who owns which memory: tasks that allocate, resize and free blocks of   *)
(* the heap, create and delete objects that keep their buffers there       *)
(* (message queues, pipes, tasks), and lock the heap, in any interleaving; *)
(* and fixed-block pools.  A call is a sequence of critical sections, each *)
(* of which may fail.  Tasks that delete themselves are in module Reaper.  *)
(* Sources: kernel/heap.c, kernel/object.c, kernel/mempool.c, and the      *)
(* creation and deletion of objects.                                       *)
(***************************************************************************)
EXTENDS Heap, Reaper

CONSTANTS
    Clients,   \* tasks that call
    Requests,  \* sizes in bytes that are asked for
    Kinds,     \* kinds of objects: see Kind below
    Kind,      \* [Kinds -> [sizes, kernel, early, slots, page, lives]]
    GenModulus,\* 2^24: generations wrap, and skip 0
    MaxMine,   \* bound on the blocks the application owns
    PoolBlocks, BlockSize  \* a fixed-block pool, sizes in words

ASSUME MemoryAssumption ==
    /\ GenModulus \in Nat /\ GenModulus >= 2
    /\ Requests \subseteq Nat /\ MaxCopy \in Nat
    /\ \A k \in Kinds : /\ Kind[k].sizes \in Seq(Nat) /\ Kind[k].slots \in Nat
                        /\ Kind[k].page \in Nat
    /\ PoolBlocks \in Nat /\ BlockSize \in Nat \ {0}

(***************************************************************************)
(* Kind[k].sizes are the buffers of an object, in the order in which they  *)
(* are allocated; kernel, whether by aixos_kernel_malloc; early, whether   *)
(* the first failure ends the sequence; slots, the number of slots; page,  *)
(* the size of a page of slots that is allocated on demand, or 0; lives, a *)
(* bound on the generation of an object that is created.                   *)
(***************************************************************************)

VARIABLES
    subject,  \* what it is about: "heap", "slots", "pool" or "reaper"
    heap,     \* the blocks
    usedUnits,\* current_used
    locked,   \* runtime_locked
    slot,     \* the slots of the objects, with the buffers of the object
    page,     \* the addresses of the pages, Null before they are allocated
    mine,     \* blocks that the application owns
    client,   \* where each task is in its call
    retired,  \* per slot, the generations whose objects are gone, latest last
    pool      \* a fixed-block pool, and the blocks the application owns

heapVars == <<heap, usedUnits, locked>>
vars == <<subject, heapVars, slot, page, mine, client, retired, pool, reapVars>>

Outside == [at |-> "outside"]

Slots(k) == 0 .. Kind[k].slots - 1

Init ==
    /\ subject \in {"heap", "slots", "pool", "reaper"}
    /\ heap = FreshHeap /\ usedUnits = 0 /\ locked = FALSE
    /\ slot = [k \in Kinds |-> [i \in Slots(k) |->
                  [used |-> FALSE, gen |-> 0, blocks |-> <<>>]]]
    /\ page = [k \in Kinds |-> Null]
    /\ mine = {}
    /\ client = [c \in Clients |-> Outside]
    /\ retired = [k \in Kinds |-> [i \in Slots(k) |-> <<>>]]
    /\ pool = [free |-> 0 .. PoolBlocks - 1, allocated |-> 0, owned |-> {}]
    /\ ReaperInit

Goes(c, place) == client' = [client EXCEPT ![c] = place]

\* Where there are blocks, of which some may not have been allocated.
Present(blocks) == {n \in DOMAIN blocks : blocks[n] # Null}

\* The blocks are freed, if there are any, and the call returns.
ThenFree(c, blocks) ==
    Goes(c, IF Present(blocks) = {} THEN Outside
            ELSE [at |-> "freeing", blocks |-> blocks])

-----------------------------------------------------------------------------
(* The critical sections of the allocator.                                 *)

\* heap_allocate finds a block: large and runtime requests are the kernel's.
CanAllocate(bytes, kernel) ==
    /\ kernel \/ (bytes <= MaxCopy /\ ~locked)
    /\ Fits(heap, UnitsFor(bytes)) # {}

\* The address that it returns.
Found(bytes, kernel) ==
    IF CanAllocate(bytes, kernel)
    THEN heap[BestFit(heap, UnitsFor(bytes))].at ELSE Null

HeapAllocate(bytes, kernel) ==
    IF ~CanAllocate(bytes, kernel) THEN UNCHANGED heapVars
    ELSE LET i == BestFit(heap, UnitsFor(bytes))
         IN  /\ heap' = Allocated(heap, i, UnitsFor(bytes))
             /\ usedUnits' = usedUnits + heap'[i].size + HeaderUnits
             /\ UNCHANGED locked

HeapFree(address) ==
    LET i == BlockAt(heap, address)
    IN  /\ heap' = Freed(heap, i)
        /\ usedUnits' = usedUnits - heap[i].size - HeaderUnits
        /\ UNCHANGED locked

-----------------------------------------------------------------------------
(* Calls of the application.                                               *)

Malloc(c, bytes) ==
    /\ client[c] = Outside /\ Cardinality(mine) < MaxMine
    /\ HeapAllocate(bytes, FALSE)
    /\ mine' = mine \union ({Found(bytes, FALSE)} \ {Null})
    /\ UNCHANGED <<slot, page, client, retired>>

Free(c, address) ==
    /\ client[c] = Outside /\ address \in mine
    /\ HeapFree(address)
    /\ mine' = mine \ {address}
    /\ UNCHANGED <<slot, page, client, retired>>

\* aixos_heap_lockdown.
Lockdown ==
    /\ ~locked /\ locked' = TRUE
    /\ UNCHANGED <<heap, usedUnits, slot, page, mine, client, retired>>

\* aixos_realloc looks at the block, allocates, and frees the block: three
\* critical sections.
ReallocCheck(c, address) ==
    /\ client[c] = Outside /\ address \in mine /\ ~locked
    /\ \E bytes \in Requests :
          Goes(c, [at |-> "resizing", blocks |-> <<address>>, bytes |-> bytes])
    /\ mine' = mine \ {address}
    /\ UNCHANGED <<heapVars, slot, page, retired>>

Realloc(c) ==
    /\ client[c].at = "resizing"
    /\ HeapAllocate(client[c].bytes, FALSE)
    /\ IF CanAllocate(client[c].bytes, FALSE)
       THEN /\ mine' = mine \union {Found(client[c].bytes, FALSE)}
            /\ ThenFree(c, client[c].blocks)
       ELSE mine' = mine \union {client[c].blocks[1]} /\ Goes(c, Outside)
    /\ UNCHANGED <<slot, page, retired>>

-----------------------------------------------------------------------------
(* Creation and deletion of objects.                                       *)

\* An object without buffers is registered at once.
Create(c, k) ==
    /\ client[c] = Outside
    /\ \E i \in Slots(k) : slot[k][i].used \/ slot[k][i].gen < Kind[k].lives
    /\ Goes(c, [at |-> IF Kind[k].sizes = <<>> THEN "registering" ELSE "allocating",
               kind |-> k, blocks |-> <<>>])
    /\ UNCHANGED <<heapVars, slot, page, mine, retired>>

\* Faulty: the buffers allocated before and after a failure are forgotten.
AfterFailureForgetful(c, blocks) == Goes(c, Outside)

AfterFailure(c, blocks) == ThenFree(c, blocks)

\* One buffer is allocated.  The creation of a queue goes on when one fails.
AllocateBuffer(c) ==
    /\ client[c].at = "allocating"
    /\ LET k == Kind[client[c].kind]
           got == Append(client[c].blocks,
                         Found(k.sizes[Len(client[c].blocks) + 1], k.kernel))
           failed == Null \in {got[i] : i \in DOMAIN got}
       IN  /\ HeapAllocate(k.sizes[Len(got)], k.kernel)
           /\ IF failed /\ (k.early \/ Len(got) = Len(k.sizes))
              THEN AfterFailure(c, got)
              ELSE Goes(c, [at |-> IF Len(got) = Len(k.sizes)
                                   THEN "registering" ELSE "allocating",
                            kind |-> client[c].kind, blocks |-> got])
    /\ UNCHANGED <<slot, page, mine, retired>>

\* Faulty: a slot starts again from the first generation.
NextGenRestarted(gen) == 1

NextGen(gen) == IF (gen + 1) % GenModulus = 0 THEN 1 ELSE (gen + 1) % GenModulus

FreeSlots(k) == {i \in Slots(k) : ~slot[k][i].used}

\* A handle is the index of a slot and its generation, and nothing else.
Handle(i, gen) == [index |-> i, gen |-> gen]

\* aixos_obj_from_handle finds an object of the kind k: the kind says in which
\* pool to look.
FromHandle(k, h) ==
    /\ h.index \in Slots(k)
    /\ slot[k][h.index].used /\ slot[k][h.index].gen = h.gen

\* aixos_slot_alloc and what the creation does with its result, in one
\* critical section.  The first task that finds no page allocates it.
Register(c) ==
    /\ client[c].at = "registering"
    /\ LET k == client[c].kind
           needsPage == Kind[k].page # 0 /\ page[k] = Null
           newPage == Found(Kind[k].page, TRUE)
           i == CHOOSE i \in FreeSlots(k) : \A j \in FreeSlots(k) : i <= j
       IN  /\ IF needsPage
              THEN HeapAllocate(Kind[k].page, TRUE) /\ page' = [page EXCEPT ![k] = newPage]
              ELSE UNCHANGED <<heapVars, page>>
           /\ IF FreeSlots(k) = {} \/ (needsPage /\ newPage = Null)
              THEN AfterFailure(c, client[c].blocks) /\ UNCHANGED slot
              ELSE /\ slot' = [slot EXCEPT ![k][i] =
                                 [used |-> TRUE, gen |-> NextGen(@.gen),
                                  blocks |-> client[c].blocks]]
                   /\ Goes(c, Outside)
    /\ UNCHANGED <<mine, retired>>

\* A deletion frees the slot, in a critical section, and then the buffers.
Delete(c, k, i) ==
    /\ client[c] = Outside
    /\ FromHandle(k, Handle(i, slot[k][i].gen))
    /\ slot' = [slot EXCEPT ![k][i] = [used |-> FALSE, gen |-> @.gen, blocks |-> <<>>]]
    /\ LET gens == Append(retired[k][i], slot[k][i].gen)
       IN  retired' = [retired EXCEPT ![k][i] =
                         IF Len(gens) > GenModulus - 2 THEN Tail(gens) ELSE gens]
    /\ ThenFree(c, slot[k][i].blocks)
    /\ UNCHANGED <<heapVars, page, mine>>

FreeBuffer(c) ==
    /\ client[c].at = "freeing"
    /\ LET left == Present(client[c].blocks)
           n == CHOOSE n \in left : \A m \in left : n <= m
       IN  /\ HeapFree(client[c].blocks[n])
           /\ ThenFree(c, [client[c].blocks EXCEPT ![n] = Null])
    /\ UNCHANGED <<slot, page, mine, retired>>

-----------------------------------------------------------------------------
(* Fixed-block pools: kernel/mempool.c.                                    *)

PoolAlloc ==
    /\ pool.free # {}
    /\ LET i == CHOOSE i \in pool.free : \A j \in pool.free : i <= j
       IN  pool' = [free |-> pool.free \ {i}, allocated |-> pool.allocated + 1,
                    owned |-> pool.owned \union {i * BlockSize}]

\* aixos_mempool_owns, of an address relative to the storage.
PoolOwns(offset) ==
    offset \in 0 .. PoolBlocks * BlockSize - 1 /\ offset % BlockSize = 0

\* aixos_mempool_free: the application frees whatever address it likes.
PoolFree(offset) ==
    /\ PoolOwns(offset) /\ offset \div BlockSize \notin pool.free
    /\ pool' = [free |-> pool.free \union {offset \div BlockSize},
                allocated |-> pool.allocated - 1,
                owned |-> pool.owned \ {offset}]

PoolCalls ==
    PoolAlloc \/ \E offset \in -1 .. PoolBlocks * BlockSize : PoolFree(offset)

-----------------------------------------------------------------------------

HeapCalls ==
    \/ Lockdown
    \/ \E c \in Clients :
          \/ \E bytes \in Requests : Malloc(c, bytes)
          \/ \E address \in mine : Free(c, address) \/ ReallocCheck(c, address)
          \/ Realloc(c) \/ AllocateBuffer(c) \/ FreeBuffer(c)

\* Objects with buffers are created beside the calls of the heap, and those
\* without on their own.
ObjectCalls(kinds) ==
    \E c \in Clients :
        \/ \E k \in kinds : Create(c, k) \/ \E i \in Slots(k) : Delete(c, k, i)
        \/ Register(c)

Buffered == {k \in Kinds : Kind[k].sizes # <<>>}

Next ==
    /\ \/ /\ \/ subject = "heap" /\ (HeapCalls \/ ObjectCalls(Buffered))
             \/ subject = "slots" /\ ObjectCalls(Kinds \ Buffered)
          /\ UNCHANGED <<pool, reapVars>>
       \/ /\ subject = "pool" /\ PoolCalls
          /\ UNCHANGED <<heapVars, slot, page, mine, client, retired, reapVars>>
       \/ /\ subject = "reaper" /\ ReaperNext
          /\ UNCHANGED <<heapVars, slot, page, mine, client, retired, pool>>
    /\ UNCHANGED subject

Spec == Init /\ [][Next]_vars

-----------------------------------------------------------------------------
(* Properties.                                                             *)

\* The blocks tile the heap, free neighbours are merged, and current_used is
\* what the blocks in use take.
HeapExact == Tiled(heap) /\ usedUnits = UsedUnits(heap)

\* The blocks that a call has in its hands.
BlocksOf(c) == IF client[c] = Outside THEN <<>> ELSE client[c].blocks

\* Who may own blocks: the application, a page of slots, a call that is under
\* way, an object.  A holding is an owner and which of its blocks it is.
OfApplication(address) == <<"application", address, 1>>
OfPage(k) == <<"page", k, 1>>
OfCall(c, n) == <<"call", c, n>>
OfObject(k, i, n) == <<"object", <<k, i>>, n>>

HeldByCalls ==
    UNION {{OfCall(c, n) : n \in Present(BlocksOf(c))} : c \in Clients}

HeldByObjects ==
    UNION {UNION {{OfObject(k, i, n) : n \in DOMAIN slot[k][i].blocks} :
                    i \in Slots(k)} : k \in Kinds}

Holdings ==
    {OfApplication(address) : address \in mine}
    \union {OfPage(k) : k \in {k \in Kinds : page[k] # Null}}
    \union HeldByCalls \union HeldByObjects

\* The block that is held.
BlockHeld(h) ==
    CASE h[1] = "application" -> h[2]
      [] h[1] = "page" -> page[h[2]]
      [] h[1] = "call" -> BlocksOf(h[2])[h[3]]
      [] h[1] = "object" -> slot[h[2][1]][h[2][2]].blocks[h[3]]

\* The blocks in use are exactly those that somebody owns, and nobody owns a
\* block of somebody else: no call that fails half way, and no lock of the heap
\* in the middle of one, leaks a block or frees one that is still in use.
NothingLeaked ==
    /\ LET holdings == Holdings
           used == UsedAddresses(heap)
       IN  {BlockHeld(h) : h \in holdings} = used /\ Cardinality(holdings) = Cardinality(used)
    /\ pool.owned = {i * BlockSize : i \in 0 .. PoolBlocks - 1 \ pool.free}
    /\ pool.allocated = Cardinality(pool.owned)

\* A handle whose object is gone stays invalid while its slot is used again,
\* for as many times as there are generations.
StaleHandlesRefused ==
    \A k \in Kinds : \A i \in Slots(k) : \A n \in DOMAIN retired[k][i] :
        ~FromHandle(k, Handle(i, retired[k][i][n]))
=============================================================================
