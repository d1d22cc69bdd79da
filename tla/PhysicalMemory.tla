--------------------------- MODULE PhysicalMemory ---------------------------
(***************************************************************************)
(* The pages of physical memory (memory/PhysicalMemoryManager.cpp).  Each  *)
(* of up to eight levels has a bitmap; a bit of level k stands for 2^k     *)
(* pages and is set when any of them may be used.  alloc() looks for a     *)
(* clear bit at the level that fits the size, from the last allocation on  *)
(* and once around.                                                        *)
(*                                                                         *)
(* The bitmaps are read and written under m_lock; the place where a search *)
(* starts is read without it, and each iteration of the search takes the   *)
(* lock anew.  free() works on one level after the other.  Sizes are in    *)
(* pages: all callers pass multiples of PAGE_SIZE, no boundary, and up to  *)
(* 2^7 pages (of a larger area alloc() tests the first bit only).  Clients *)
(* free what they own; finalize_smp_boot_environment(), which frees pages  *)
(* that alloc() did not give it, is left out, and so is reserve(), which   *)
(* nobody calls.                                                           *)
(***************************************************************************)
EXTENDS Integers

CONSTANTS
    NumPages,   \* page_count of the lowest level
    NumLevels,  \* size of m_buddies
    Kernel,     \* pages that are not available, or hold the kernel
    Clients,
    Sizes,      \* pages that clients ask for
    SizeMod,    \* size_t wraps around at this number
    None

Size(k) == CASE k = 0 -> 1 [] k = 1 -> 2 [] k = 2 -> 4 [] k = 3 -> 8
             [] k = 4 -> 16 [] k = 5 -> 32 [] k = 6 -> 64 [] k = 7 -> 128

PhysicalMemoryAssumption ==
    /\ NumPages \in Nat \ {0} /\ NumLevels \in 1 .. 8 /\ SizeMod \in Nat /\ SizeMod > NumPages + 1
    /\ Kernel \subseteq 0 .. NumPages - 1
    /\ Sizes \subseteq 1 .. Size(NumLevels - 1)
    /\ None \notin [page : Nat, level : Nat] /\ None \notin [first : Nat, count : Nat]

Levels == 0 .. NumLevels - 1
Pages == 0 .. NumPages - 1
Bits == 0 .. NumPages  \* with the bit behind the last one of a level

VARIABLES
    bitmap,      \* of each level
    last_alloc,  \* of each level
    search,      \* the alloc() that each client is in, or None
    freeing,     \* the free() that holds m_lock: page and level, or None
    owned        \* the pages that each client has, or None

vars == <<bitmap, last_alloc, search, freeing, owned>>

Span(first, count) == first .. first + count - 1

(* page_count of a level.                                                  *)
Count(k) == NumPages \div Size(k)

Searches ==
    [size : Sizes, level : Levels, first : 0 .. SizeMod - 1, i : 0 .. SizeMod - 1]

TypeOK ==
    /\ bitmap \in [Levels -> [Bits -> BOOLEAN]]
    /\ last_alloc \in [Levels -> 0 .. SizeMod - 1]
    /\ search \in [Clients -> Searches \cup {None}]
    /\ freeing \in [page : Pages, level : Levels] \cup {None}
    /\ owned \in [Clients -> [first : Nat, count : Nat] \cup {None}]

(* init(): everything is used but the available regions, without the       *)
(* kernel.                                                                 *)
Init ==
    /\ bitmap = [k \in Levels |-> [j \in Bits |->
                    j >= Count(k) \/ \E p \in Kernel : p \div Size(k) = j]]
    /\ last_alloc = [k \in Levels |-> 0]
    /\ search = [c \in Clients |-> None]
    /\ freeing = None
    /\ owned = [c \in Clients |-> None]

----------------------------------------------------------------------------
(* The level whose pages are large enough.                                 *)
get_buddy(size) == CHOOSE k \in Levels : /\ Size(k) >= size
                                         /\ \A l \in Levels : Size(l) >= size => k <= l

(* A defect: the lowest level only.                                        *)
mark_used_low(first, last) ==
    [k \in Levels |-> [j \in Bits |-> bitmap[k][j] \/ (k = 0 /\ j \in first .. last)]]

mark_used(first, last) ==
    [k \in Levels |-> [j \in Bits |->
        bitmap[k][j] \/ j \in (first \div Size(k)) .. (last \div Size(k))]]

(* alloc(): where the search starts.                                       *)
alloc(c, size) ==
    /\ search[c] = None /\ owned[c] = None
    /\ LET k == get_buddy(size)
       IN  search' = [search EXCEPT ![c] =
             [size |-> size, level |-> k, first |-> last_alloc[k],
              i |-> (last_alloc[k] + 1) % SizeMod]]
    /\ UNCHANGED <<bitmap, last_alloc, freeing, owned>>

(* The bit that an iteration looks at: past the end it is the first one.   *)
Candidate(s) == IF s.i >= Count(s.level) THEN 0 ELSE s.i

(* The search has come round: out of memory, and panic().                  *)
Exhausted(s) == s.i = s.first \/ Candidate(s) = s.first

alloc_next(c) ==
    /\ search[c] # None /\ freeing = None /\ ~Exhausted(search[c])
    /\ LET s == search[c]
       IN  /\ bitmap[s.level][Candidate(s)]
           /\ search' = [search EXCEPT ![c] =
                [size |-> s.size, level |-> s.level, first |-> s.first, i |-> Candidate(s) + 1]]
    /\ UNCHANGED <<bitmap, last_alloc, freeing, owned>>

alloc_take(c) ==
    /\ search[c] # None /\ freeing = None /\ ~Exhausted(search[c])
    /\ LET s == search[c]
           small_page_idx == Candidate(s) * Size(s.level)
       IN  /\ ~bitmap[s.level][Candidate(s)]
           /\ bitmap' = mark_used(small_page_idx, small_page_idx + s.size - 1)
           /\ last_alloc' = [k \in Levels |->
                (small_page_idx \div Size(k) + s.size \div Size(k) - 1) % SizeMod]
           /\ owned' = [owned EXCEPT ![c] = [first |-> small_page_idx, count |-> s.size]]
    /\ search' = [search EXCEPT ![c] = None]
    /\ UNCHANGED freeing

(* free() takes m_lock and clears the bit of the page; callers free single *)
(* pages ...                                                               *)
free(c) ==
    /\ owned[c] # None /\ freeing = None /\ owned[c].count = 1
    /\ bitmap' = [bitmap EXCEPT ![0][owned[c].first] = FALSE]
    /\ freeing' = [page |-> owned[c].first, level |-> 0]
    /\ owned' = [owned EXCEPT ![c] = None]
    /\ UNCHANGED <<last_alloc, search>>

(* Both bits below a bit are clear.  A defect: one of them.                *)
Buddies_first(k, j) == ~bitmap[k][2 * j]
Buddies(k, j) == ~bitmap[k][2 * j] /\ ~bitmap[k][2 * j + 1]

(* ... then, level by level, the bit above when both below it are clear.   *)
mark_free ==
    /\ freeing # None
    /\ LET k == freeing.level
           j == freeing.page \div Size(k + 1)
       IN  IF k + 1 = NumLevels
           THEN freeing' = None /\ UNCHANGED bitmap
           ELSE /\ freeing' = [page |-> freeing.page, level |-> k + 1]
                /\ bitmap' = IF Buddies(k, j)
                             THEN [bitmap EXCEPT ![k + 1][j] = FALSE] ELSE bitmap
    /\ UNCHANGED <<last_alloc, search, owned>>

Next ==
    \/ \E c \in Clients, size \in Sizes : alloc(c, size)
    \/ \E c \in Clients : alloc_next(c) \/ alloc_take(c) \/ free(c)
    \/ mark_free

Spec == Init /\ [][Next]_vars

----------------------------------------------------------------------------
Used == Kernel \cup UNION {Span(owned[c].first, owned[c].count) : c \in {d \in Clients : owned[d] # None}}

(* No page is handed out twice, or out of the kernel or past the end of    *)
(* memory, however searches on several cores interleave with frees.        *)
PagesOwnedOnce ==
    \A c \in Clients : owned[c] # None =>
        LET mine == Span(owned[c].first, owned[c].count)
        IN  /\ mine \subseteq Pages \ Kernel
            /\ \A d \in Clients \ {c} : owned[d] # None =>
                 mine \cap Span(owned[d].first, owned[d].count) = {}

(* While m_lock is free, the levels agree: a bit is set exactly when one   *)
(* of its pages is in use, so that large areas are found again after their *)
(* last page was freed.                                                    *)
LevelsAgree ==
    freeing = None =>
        \A k \in Levels : \A j \in 0 .. Count(k) - 1 :
            bitmap[k][j] <=> \E p \in Used : p \div Size(k) = j
=============================================================================
