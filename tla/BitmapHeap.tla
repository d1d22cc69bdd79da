----------------------------- MODULE BitmapHeap -----------------------------
(***************************************************************************)
(* The kernel heap of heap/BitmapHeap.cpp: one region of block_count       *)
(* blocks, a bitmap with a 2-bit id per block, and allocations that are    *)
(* runs of blocks with one id that differs from the ids of both            *)
(* neighbours.                                                             *)
(*                                                                         *)
(* alloc() and free() hold the heap lock, so there is one of them at a     *)
(* time (variable op), but they write the bitmap block by block.  size()   *)
(* takes no lock: it counts along the bitmap while others write it.        *)
(*                                                                         *)
(* A client stands for one allocation at a time; kmalloc() panics when     *)
(* alloc() finds nothing, which is modelled by the call not happening.     *)
(***************************************************************************)
EXTENDS Integers, FiniteSets

CONSTANTS
    block_count,  \* blocks of the region
    Meta,         \* bitmap_size_in_blocks, the blocks the bitmap occupies
    block_size,   \* bytes of a block
    Base,         \* address of the bitmap
    HeapClients,
    ByteSizes,    \* sizes that are requested
    Aligns,       \* alignments that are requested
    Null

(* The region of kcmalloc() has 2 MiB in blocks of 16 bytes, so that its    *)
(* bitmap takes 2048 of them; nobody asks for 0 bytes or an alignment of 0. *)
ASSUME HeapAssumption ==
    /\ block_count \in Nat /\ Meta \in Nat /\ 1 < Meta /\ Meta < block_count
    /\ block_size \in Nat \ {0} /\ Base \in Nat
    /\ ByteSizes \subseteq Nat \ {0} /\ Aligns \subseteq Nat \ {0}
    /\ Null \notin [ptr : Nat, align : Nat, size : Nat, first : Nat, count : Nat]

Blocks == 0 .. block_count - 1
Ids == 0 .. 3

VARIABLES
    ids,          \* getID() of each block
    heap_last_alloc,
    used_blocks,
    stats,        \* m_stats.used and m_stats.free
    live,         \* the allocation each client owns
    op,           \* the alloc() or free() that holds the heap lock
    query         \* the size() each client is in

heapVars == <<ids, heap_last_alloc, used_blocks, stats, live, op, query>>

Allocation == [ptr : Nat, align : Aligns, size : ByteSizes, first : Blocks, count : Nat]
Idle == [kind |-> "none", client |-> Null, first |-> 0, count |-> 0, id |-> 0,
         i |-> 0, alloc |-> Null]

HeapTypeOK ==
    /\ ids \in [Blocks -> Ids]
    /\ heap_last_alloc \in Blocks /\ used_blocks \in 0 .. block_count
    /\ stats \in [used : Nat, free : Nat]
    /\ live \in [HeapClients -> Allocation \cup {Null}]
    /\ op \in [kind : {"none", "alloc", "free", "spin"}, client : HeapClients \cup {Null},
               first : Nat, count : Nat, id : Ids, i : Nat, alloc : Allocation \cup {Null}]
    /\ query \in [HeapClients -> [at : {"no", "count", "done"}, index : Nat, id : Ids,
                                  count : Nat, result : Int]]

NoQuery == [at |-> "no", index |-> 0, id |-> 0, count |-> 0, result |-> 0]

(* The state expand() leaves behind.                                       *)
HeapInit ==
    /\ ids = [b \in Blocks |-> IF b < Meta THEN 1 ELSE 0]
    /\ heap_last_alloc = Meta - 1
    /\ used_blocks = Meta
    /\ stats = [used |-> 0, free |-> (block_count - Meta) * block_size]
    /\ live = [c \in HeapClients |-> Null]
    /\ op = Idle
    /\ query = [c \in HeapClients |-> NoQuery]

----------------------------------------------------------------------------
(* An id that differs from the adjacent ones.                              *)
getFreeID_right(left, right) == IF right # 1 THEN 1 ELSE 2
getFreeID(left, right) ==
    IF left # 1 /\ right # 1 THEN 1 ELSE IF left # 2 /\ right # 2 THEN 2 ELSE 3

Address(b) == Base + b * block_size

can_align(b, align) == align <= block_size \/ (Address(b) % align) + block_size > align

get_aligment_offset(address, align) == IF align = 1 THEN 0 ELSE align - (address % align)

(* Blocks that an allocation starting in block b takes.                    *)
Needed(b, size, align) ==
    (size + get_aligment_offset(Address(b), align) + block_size - 1) \div block_size

(* The first n blocks from b on exist and are free.                        *)
Free(b, n) == \A k \in b .. b + n - 1 : k \in Blocks /\ ids[k] = 0

(* How many free blocks, up to n, the inner loop counts from b on.         *)
FreeRun(b, n) ==
    CHOOSE k \in 0 .. n : Free(b, k) /\ (k = n \/ ~Free(b, k + 1))

NotFound == -1
Endless == -2

(* Block b is not the start of n free blocks; the search goes on behind    *)
(* it, or behind the run of free blocks that is too short.                 *)
Unfit(b, n, align) == ~can_align(b, align) \/ ids[b] # 0 \/ FreeRun(b, n) < n
Skip(b, n, align) ==
    IF ~can_align(b, align) \/ ids[b] # 0 THEN b + 1 ELSE b + FreeRun(b, n)

Wrapped(s) == IF s >= block_count THEN 0 ELSE s

(* The search of alloc(): from last_alloc + 1 on, wrapping around, until   *)
(* the counter s equals last_alloc.  After 2 * block_count iterations it   *)
(* repeats itself.                                                         *)
Search(size, align) ==
    LET fuel == 2 * block_count
        visit[f \in 0 .. fuel] ==
            [s \in 0 .. fuel |->
                LET b == Wrapped(s)
                    n == Needed(b, size, align)
                IN  IF s = heap_last_alloc THEN NotFound
                    ELSE IF ~Unfit(b, n, align) THEN b
                    ELSE IF f = 0 THEN Endless ELSE visit[f - 1][Skip(b, n, align)]]
    IN  visit[fuel][(heap_last_alloc + 1) % block_count]

IdAt(b) == IF b \in Blocks THEN ids[b] ELSE 0

EnoughSpace(size) == (block_count - used_blocks) * block_size >= size

(* alloc(): lock, find a run of free blocks and choose its id ...          *)
heap_alloc(c, size, align) ==
    /\ op = Idle /\ live[c] = Null /\ EnoughSpace(size)
    /\ \E b \in Blocks :
         LET n == Needed(b, size, align)
             p == Address(b) + get_aligment_offset(Address(b), align)
         IN  /\ Search(size, align) = b /\ Free(b, n)
             /\ op' = [kind |-> "alloc", client |-> c, first |-> b, count |-> n,
                       id |-> getFreeID(IdAt(b - 1), IdAt(b + n)), i |-> b,
                       alloc |-> [ptr |-> p, align |-> align, size |-> size,
                                  first |-> b, count |-> n]]
    /\ UNCHANGED <<ids, heap_last_alloc, used_blocks, stats, live, query>>

(* ... or never leave the search, with the lock held ...                   *)
alloc_spin(c, size, align) ==
    /\ op = Idle /\ live[c] = Null /\ EnoughSpace(size)
    /\ Search(size, align) = Endless
    /\ op' = [Idle EXCEPT !.kind = "spin", !.client = c]
    /\ UNCHANGED <<ids, heap_last_alloc, used_blocks, stats, live, query>>

(* ... set the ids block by block ...                                      *)
alloc_set ==
    /\ op.kind = "alloc" /\ op.i < op.first + op.count
    /\ ids' = [ids EXCEPT ![op.i] = op.id]
    /\ op' = [op EXCEPT !.i = @ + 1]
    /\ UNCHANGED <<heap_last_alloc, used_blocks, stats, live, query>>

(* ... update the counters, unlock and return the address.                 *)
alloc_return ==
    /\ op.kind = "alloc" /\ op.i = op.first + op.count
    /\ heap_last_alloc' = op.first + op.count - 1
    /\ used_blocks' = used_blocks + op.count
    /\ stats' = [used |-> stats.used + op.count * block_size,
                 free |-> stats.free - op.count * block_size]
    /\ live' = [live EXCEPT ![op.client] = op.alloc]
    /\ op' = Idle
    /\ UNCHANGED <<ids, query>>

----------------------------------------------------------------------------
BlockOf(ptr) == (ptr - Base) \div block_size

(* The walk to the left over blocks with the id of block b.                *)
WalkBack(b) ==
    CHOOSE k \in 0 .. b :
        /\ \A j \in k .. b : ids[j] = ids[b]
        /\ k = 0 \/ ids[k - 1] # ids[b]

(* free(): lock, find the start of the run ...                             *)
heap_free(c) ==
    /\ op = Idle /\ live[c] # Null /\ query[c].at = "no"
    /\ LET b == BlockOf(live[c].ptr)
       IN  op' = [kind |-> "free", client |-> c, first |-> WalkBack(b), count |-> 0,
                  id |-> ids[b], i |-> WalkBack(b), alloc |-> live[c]]
    /\ live' = [live EXCEPT ![c] = Null]
    /\ UNCHANGED <<ids, heap_last_alloc, used_blocks, stats, query>>

(* Block b continues a run of blocks with that id.                         *)
Continues(b, id) == b \in Blocks /\ ids[b] = id

(* ... clear it block by block ...                                         *)
free_clear ==
    /\ op.kind = "free" /\ Continues(op.i, op.id)
    /\ ids' = [ids EXCEPT ![op.i] = 0]
    /\ op' = [op EXCEPT !.i = @ + 1]
    /\ UNCHANGED <<heap_last_alloc, used_blocks, stats, live, query>>

(* ... update the counters and unlock.                                     *)
free_return ==
    /\ op.kind = "free" /\ ~Continues(op.i, op.id)
    /\ LET n == op.i - op.first IN
       /\ used_blocks' = used_blocks - n
       /\ stats' = [used |-> stats.used - n * block_size, free |-> stats.free + n * block_size]
    /\ op' = Idle
    /\ UNCHANGED <<ids, heap_last_alloc, live, query>>

----------------------------------------------------------------------------
(* size() of an own allocation, without the lock: read the id ...          *)
size(c) ==
    /\ live[c] # Null /\ query[c].at = "no"
    /\ LET b == BlockOf(live[c].ptr)
       IN  query' = [query EXCEPT ![c] =
                       [at |-> "count", index |-> b, id |-> ids[b], count |-> 0, result |-> 0]]
    /\ UNCHANGED <<ids, heap_last_alloc, used_blocks, stats, live, op>>

(* ... count the blocks that have it, one read at a time ...               *)
size_count(c) ==
    /\ query[c].at = "count"
    /\ LET q == query[c]
           rest == q.count * block_size - ((live[c].ptr - Base) % block_size)
       IN  query' = [query EXCEPT ![c] =
             IF Continues(q.index + q.count, q.id)
             THEN [q EXCEPT !.count = q.count + 1]
             ELSE [q EXCEPT !.at = "done", !.result = rest]]
    /\ UNCHANGED <<ids, heap_last_alloc, used_blocks, stats, live, op>>

(* ... and return.                                                         *)
size_return(c) ==
    /\ query[c].at = "done"
    /\ query' = [query EXCEPT ![c] = NoQuery]
    /\ UNCHANGED <<ids, heap_last_alloc, used_blocks, stats, live, op>>

HeapNext ==
    \/ \E c \in HeapClients, s \in ByteSizes, a \in Aligns :
          heap_alloc(c, s, a) \/ alloc_spin(c, s, a)
    \/ alloc_set \/ alloc_return \/ free_clear \/ free_return
    \/ \E c \in HeapClients : heap_free(c) \/ size(c) \/ size_count(c) \/ size_return(c)

HeapSpec == HeapInit /\ [][HeapNext]_heapVars

----------------------------------------------------------------------------
BlocksOf(a) == a.first .. a.first + a.count - 1

(* Allocations overlap neither each other nor the bitmap, and the bytes    *)
(* that were asked for lie inside the blocks that were taken.              *)
Disjoint ==
    /\ \A c \in HeapClients : live[c] # Null =>
         LET a == live[c] IN
         /\ BlocksOf(a) \subseteq Meta .. block_count - 1
         /\ Address(a.first) <= a.ptr /\ a.ptr + a.size <= Address(a.first + a.count)
         /\ a.ptr % a.align = 0
    /\ \A c, d \in HeapClients : c # d /\ live[c] # Null /\ live[d] # Null =>
         BlocksOf(live[c]) \cap BlocksOf(live[d]) = {}

(* The blocks of an owned allocation have one id, not 0, and the blocks    *)
(* next to it have another: this is what free() and size() find it by.     *)
Separate ==
    \A c \in HeapClients : live[c] # Null =>
        LET a == live[c]
            id == ids[a.first]
        IN  /\ id # 0 /\ \A b \in BlocksOf(a) : ids[b] = id
            /\ IdAt(a.first - 1) # id /\ IdAt(a.first + a.count) # id

(* free() releases exactly the blocks that alloc() took (and its assert    *)
(* finds an id other than 0).                                              *)
FreesItsOwn ==
    op.kind = "free" =>
        /\ op.id # 0 /\ op.first = op.alloc.first
        /\ op.i <= op.alloc.first + op.alloc.count
        /\ ~Continues(op.i, op.id) => op.i = op.alloc.first + op.alloc.count

(* When nobody holds the lock the statistics say what is owned: a free()   *)
(* restores what alloc() changed.                                          *)
StatsExact ==
    op = Idle =>
        LET owned == {b \in Blocks : b >= Meta /\ ids[b] # 0} IN
        /\ used_blocks = Meta + Cardinality(owned)
        /\ stats.used = Cardinality(owned) * block_size
        /\ stats.used + stats.free = (block_count - Meta) * block_size
        /\ owned = UNION {BlocksOf(live[c]) : c \in {d \in HeapClients : live[d] # Null}}

(* size() without the lock returns the bytes from the pointer to the end   *)
(* of the allocation, whatever others allocate and free meanwhile.         *)
SizeExact ==
    \A c \in HeapClients : query[c].at = "done" =>
        query[c].result = Address(live[c].first + live[c].count) - live[c].ptr

(* alloc() looks at the blocks "from last_alloc + 1 to last_alloc": its    *)
(* search ends, with a block or with none.                                 *)
SearchEnds == op.kind # "spin"

(* The search only goes on for ever when the last allocation was freed: it *)
(* then steps over block last_alloc together with other free blocks.       *)
SpinsOnlyWhenFreed == op.kind = "spin" => ids[heap_last_alloc] = 0

(* What the kernel heap knows of an allocation is exact.  Allocations      *)
(* overlap neither each other nor the bitmap, and hold the bytes that were *)
(* asked for; free() releases the blocks of one and no others, size()      *)
(* without the lock returns the bytes up to its end, and the statistics    *)
(* say what is owned.  alloc() only searches for ever after free() of the  *)
(* last allocation.                                                        *)
HeapExact ==
    /\ HeapTypeOK /\ Disjoint /\ Separate /\ FreesItsOwn
    /\ SizeExact /\ StatsExact /\ SpinsOnlyWhenFreed
=============================================================================
