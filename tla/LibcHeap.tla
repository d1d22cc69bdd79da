------------------------------ MODULE LibcHeap ------------------------------
(***************************************************************************)
(* The allocator of the C library (userland/libc/__heap.c, __malloc.c):    *)
(* the kernel's bitmap heap carried over without its lock, for one thread. *)
(* malloc(), calloc(), realloc() and free() of one region; the bytes of    *)
(* the region are modelled so that what realloc() moves can be followed.   *)
(***************************************************************************)
EXTENDS Integers, FiniteSets

CONSTANTS block_count, Meta, block_size, Base,   \* as in BitmapHeap
          Rest,       \* bytes of the region past the last whole block
          Clients,    \* the pointers of the program
          Sizes,
          None

VARIABLES ids, last_alloc, used_blocks,
          memory,     \* external: the byte at each address of the region, None where
                      \* nobody has written since it was handed out
          live,       \* the allocation behind each pointer: [ptr, size, filled]
          halted

vars == <<ids, last_alloc, used_blocks, memory, live, halted>>

(* The loops over the bitmap are the kernel's. *)
B == INSTANCE BitmapHeap WITH HeapClients <- Clients, ByteSizes <- Sizes, Aligns <- {4}, Null <- None,
                              heap_last_alloc <- last_alloc, stats <- 0, op <- 0, query <- 0

Blocks == B!Blocks
Bytes == Base .. Base + block_count * block_size - 1
Align == 4      \* sizeof(int)

getFreeID(left, right) == B!getFreeID(left, right)
can_align(b) == B!can_align(b, Align)
get_alignment_offset(address) == B!get_aligment_offset(address, Align)
EnoughSpace(size) == (block_count - used_blocks) * block_size + Rest >= size

(* The block __heap_alloc() settles on, none, or a search without end. *)
Search(size) == IF EnoughSpace(size) THEN B!Search(size, Align) ELSE B!NotFound

(* __heap_alloc(): what it does to the bitmap once block b is found. *)
Taken(b, size) ==
    LET n == B!Needed(b, size, Align)
        id == getFreeID(B!IdAt(b - 1), B!IdAt(b + n))
    IN [ids |-> [k \in Blocks |-> IF k \in b..(b + n - 1) THEN id ELSE ids[k]],
        last |-> b + n - 1, count |-> n,
        ptr |-> B!Address(b) + get_alignment_offset(B!Address(b))]

(* The run of blocks with the id of block b: __heap_free() clears it,      *)
(* __heap_size() counts it from b on.                                      *)
RunEnd(b) == CHOOSE k \in b..(block_count - 1) :
                 /\ \A j \in b..k : ids[j] = ids[b]
                 /\ ~B!Continues(k + 1, ids[b])

(* A defect: the bytes before the pointer in its first block are counted. *)
heap_size_whole(ptr) == (RunEnd(B!BlockOf(ptr)) - B!BlockOf(ptr) + 1) * block_size

heap_size(ptr) ==
    LET b == B!BlockOf(ptr)
    IN (RunEnd(b) - b + 1) * block_size - ((ptr - Base) % block_size)

Cleared(bitmap, ptr) ==
    LET b == B!BlockOf(ptr)
        first == B!WalkBack(b)
    IN [k \in Blocks |-> IF k \in first..RunEnd(b) THEN 0 ELSE bitmap[k]]

(* The bytes m as far as the owners in l have written them. *)
Written(m, l) ==
    [x \in Bytes |-> IF \E c \in Clients : /\ l[c] # None
                                          /\ x \in l[c].ptr..(l[c].ptr + l[c].filled - 1)
                     THEN m[x] ELSE None]

Used(bitmap) == Cardinality({k \in Blocks : bitmap[k] # 0})

-----------------------------------------------------------------------------
(* malloc(); also calloc(), whose memset() writes bytes that nobody here   *)
(* looks at.                                                               *)
malloc(c, size) ==
    /\ halted = "no" /\ live[c] = None
    /\ LET b == Search(size)
       IN IF b = B!Endless
          THEN halted' = "search" /\ UNCHANGED <<ids, last_alloc, used_blocks, memory, live>>
          ELSE IF b = B!NotFound THEN UNCHANGED vars
          ELSE LET t == Taken(b, size)
               IN /\ ids' = t.ids /\ last_alloc' = t.last /\ used_blocks' = used_blocks + t.count
                  /\ memory' = [a \in Bytes |-> IF a \in t.ptr..(t.ptr + size - 1)
                                                THEN None ELSE memory[a]]
                  /\ live' = [live EXCEPT ![c] = [ptr |-> t.ptr, size |-> size, filled |-> 0]]
                  /\ UNCHANGED halted

(* External: the program writes all it asked for. *)
fill(c) ==
    /\ halted = "no" /\ live[c] # None /\ live[c].filled # live[c].size
    /\ LET a == live[c]
       IN /\ memory' = [x \in Bytes |-> IF x \in a.ptr..(a.ptr + a.size - 1) THEN c ELSE memory[x]]
          /\ live' = [live EXCEPT ![c].filled = a.size]
    /\ UNCHANGED <<ids, last_alloc, used_blocks, halted>>

(* __heap_free() of a pointer that is not null. *)
free(c) ==
    /\ halted = "no" /\ live[c] # None
    /\ ids' = Cleared(ids, live[c].ptr)
    /\ used_blocks' = used_blocks - (Used(ids) - Used(ids'))
    /\ live' = [live EXCEPT ![c] = None]
    /\ memory' = Written(memory, live')
    /\ UNCHANGED <<last_alloc, halted>>

(* The bitmap after free(ptr) that follows the allocation t. *)
realloc_bitmap(t, ptr) ==
    [k \in Blocks |-> IF Cleared(ids, ptr)[k] = 0 /\ ids[k] # 0 THEN 0 ELSE t[k]]

(* realloc(): the pointer itself when its blocks suffice, else a new       *)
(* allocation, the old one's bytes to the end of its last block moved to   *)
(* it, the old one freed.  When malloc() fails memmove() gets a null       *)
(* pointer.                                                                *)
realloc(c, size) ==
    /\ halted = "no" /\ live[c] # None
    /\ LET a == live[c]
           current == heap_size(a.ptr)
           b == Search(size)
       IN IF current >= size
          THEN /\ live' = [live EXCEPT ![c].size = size,
                                       ![c].filled = IF @ < size THEN @ ELSE size]
               /\ memory' = Written(memory, live')
               /\ UNCHANGED <<ids, last_alloc, used_blocks, halted>>
          ELSE IF b \in {B!Endless, B!NotFound}
          THEN /\ halted' = IF b = B!Endless THEN "search" ELSE "null"
               /\ UNCHANGED <<ids, last_alloc, used_blocks, memory, live>>
          ELSE LET t == Taken(b, size)
                   moved == [x \in Bytes |-> IF x \in t.ptr..(t.ptr + current - 1)
                                             THEN memory[x - t.ptr + a.ptr] ELSE memory[x]]
               IN /\ ids' = realloc_bitmap(t.ids, a.ptr)
                  /\ last_alloc' = t.last
                  /\ used_blocks' = used_blocks + t.count - (Used(ids) - Used(Cleared(ids, a.ptr)))
                  /\ live' = [live EXCEPT ![c] = [ptr |-> t.ptr, size |-> size, filled |-> a.filled]]
                  /\ memory' = Written(moved, live')
                  /\ UNCHANGED halted

(* __malloc_init() and __heap_expand(). *)
Init ==
    /\ ids = [b \in Blocks |-> IF b < Meta THEN 1 ELSE 0]
    /\ last_alloc = Meta - 1 /\ used_blocks = Meta
    /\ memory = [a \in Bytes |-> None]
    /\ live = [c \in Clients |-> None]
    /\ halted = "no"

Next == \/ \E c \in Clients, s \in Sizes : malloc(c, s) \/ realloc(c, s)
        \/ \E c \in Clients : free(c) \/ fill(c)

Spec == Init /\ [][Next]_vars
-----------------------------------------------------------------------------
TypeOK == /\ ids \in [Blocks -> 0..3] /\ last_alloc \in Blocks
          /\ used_blocks \in 0..block_count
          /\ halted \in {"no", "search", "null"}

(* After any sequence of malloc(), calloc(), realloc() and free(): what a  *)
(* program wrote into an allocation is there as long as it owns it, moved  *)
(* along by realloc(), the bytes it owns are inside the region, aligned    *)
(* and behind the bitmap, and used_blocks counts the blocks in use.        *)
OwnBytesKept ==
    /\ \A c \in Clients : live[c] # None =>
         LET a == live[c]
         IN /\ a.ptr >= Base + Meta * block_size /\ a.ptr + a.size - 1 \in Bytes
            /\ a.ptr % Align = 0
            /\ \A i \in 0..(a.filled - 1) : a.ptr + i \in Bytes /\ memory[a.ptr + i] = c
    /\ used_blocks = Used(ids)
=============================================================================
