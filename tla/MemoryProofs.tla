---------------------------- MODULE MemoryProofs ----------------------------
(***************************************************************************)
(* Proofs about physical memory (PhysicalMemory) and about the kernel heap *)
(* (BitmapHeap).                                                           *)
(*                                                                         *)
(* Pages of physical memory are handed out once, for every number of       *)
(* pages, of levels and of clients.  PagesOwnedOnce is not inductive: that *)
(* alloc() finds an area free rests on what one bit says of all pages      *)
(* below it.  Cover states it for the pages in use, and Padding for the    *)
(* ones past the end of memory; while free() climbs from level to level a  *)
(* bit may be set without need, but none is clear that must be set.  Exact *)
(* says which bits those are, and with Cover it gives LevelsAgree.         *)
(*                                                                         *)
(* What the heap knows of every allocation is exact, for any number of     *)
(* blocks, any block size and any clients.  The allocations are those of   *)
(* the clients and, while alloc() or free() holds the lock, the one it is  *)
(* about.  The invariant says that they lie apart behind the bitmap, that  *)
(* no other block is taken, that the blocks of each have one id that the   *)
(* two blocks next to it do not have, and how far alloc() or free() has    *)
(* got with its own.  So what size() reads without the lock are blocks     *)
(* that nobody writes, and a block that cannot get their id.               *)
(***************************************************************************)
EXTENDS PhysicalMemory, BitmapHeap, FiniteSetTheorems, WellFoundedInduction, TLAPS

(* A page in use is marked at every level.                                 *)
Cover == \A k \in Levels : \A p \in Used : bitmap[k][p \div Size(k)]

(* The bits behind the last full group of a level stay set.                *)
Padding == \A k \in Levels : \A j \in Bits : j >= Count(k) => bitmap[k][j]

(* A search looks at a level whose groups hold what it is for.             *)
SearchesFit == \A c \in Clients : search[c] # None => search[c].size <= Size(search[c].level)

Inductive == TypeOK /\ Cover /\ Padding /\ SearchesFit /\ PagesOwnedOnce

----------------------------------------------------------------------------
(* What the division by the size of a level does.                          *)

(* The eight sizes.                                                        *)
LEMMA SizeValues ==
    /\ Size(0) = 1 /\ Size(1) = 2 /\ Size(2) = 4 /\ Size(3) = 8
    /\ Size(4) = 16 /\ Size(5) = 32 /\ Size(6) = 64 /\ Size(7) = 128
BY DEF Size

(* Each level has groups of one page at least.                             *)
LEMMA SizePositive == \A k \in 0 .. 7 : Size(k) \in Nat /\ Size(k) >= 1
BY SizeValues

(* The group of a page is a number no larger than the page.                *)
LEMMA GroupType ==
    ASSUME NEW k \in 0 .. 7, NEW p \in Nat
    PROVE  p \div Size(k) \in Nat /\ p \div Size(k) <= p
<1>1. \/ k = 0 \/ k = 1 \/ k = 2 \/ k = 3 \/ k = 4 \/ k = 5 \/ k = 6 \/ k = 7
  OBVIOUS
<1> QED BY <1>1, SizeValues

(* The group of a page, one level up, is the half of it.                   *)
LEMMA GroupAbove ==
    ASSUME NEW k \in 0 .. 6, NEW p \in Nat, NEW j \in Nat, p \div Size(k + 1) = j
    PROVE  p \div Size(k) = 2 * j \/ p \div Size(k) = 2 * j + 1
<1>1. \/ k = 0 \/ k = 1 \/ k = 2 \/ k = 3 \/ k = 4 \/ k = 5 \/ k = 6
  OBVIOUS
<1> QED BY <1>1, SizeValues

(* The pages of group i of a level, and only they, have i as their group.  *)
LEMMA GroupOf ==
    ASSUME NEW k \in 0 .. 7, NEW i \in Nat, NEW p \in Nat,
           i * Size(k) <= p, p <= i * Size(k) + Size(k) - 1
    PROVE  p \div Size(k) = i
<1>1. \/ k = 0 \/ k = 1 \/ k = 2 \/ k = 3 \/ k = 4 \/ k = 5 \/ k = 6 \/ k = 7
  OBVIOUS
<1> QED BY <1>1, SizeValues

(* The halves of a page's group start no later than the page.              *)
LEMMA HalvesBelow ==
    ASSUME NEW k \in 0 .. 6, NEW p \in Nat
    PROVE  2 * (p \div Size(k + 1)) \in Nat /\ 2 * (p \div Size(k + 1)) <= p
<1>1. \/ k = 0 \/ k = 1 \/ k = 2 \/ k = 3 \/ k = 4 \/ k = 5 \/ k = 6
  OBVIOUS
<1> QED BY <1>1, SizeValues

(* A full group ends within memory.                                        *)
LEMMA GroupInside ==
    ASSUME NEW k \in 0 .. 7, NEW i \in Nat, NEW n \in Nat, i < n \div Size(k)
    PROVE  i * Size(k) + Size(k) <= n
<1>1. \/ k = 0 \/ k = 1 \/ k = 2 \/ k = 3 \/ k = 4 \/ k = 5 \/ k = 6 \/ k = 7
  OBVIOUS
<1> QED BY <1>1, SizeValues

(* Groups are in the order of their pages.                                 *)
LEMMA GroupMonotone ==
    ASSUME NEW k \in 0 .. 7, NEW p \in Nat, NEW q \in Nat, p <= q
    PROVE  p \div Size(k) <= q \div Size(k)
<1>1. \/ k = 0 \/ k = 1 \/ k = 2 \/ k = 3 \/ k = 4 \/ k = 5 \/ k = 6 \/ k = 7
  OBVIOUS
<1> QED BY <1>1, SizeValues

(* get_buddy() finds a level for each size that is asked for.              *)
LEMMA BuddyFits ==
    ASSUME PhysicalMemoryAssumption, NEW wanted \in Sizes
    PROVE  get_buddy(wanted) \in Levels /\ wanted <= Size(get_buddy(wanted))
<1> DEFINE HoldsIt(k) == Size(k) >= wanted /\ \A l \in Levels : Size(l) >= wanted => k <= l
<1>1. NumLevels \in 1 .. 8 /\ wanted \in Nat /\ wanted >= 1 /\ wanted <= Size(NumLevels - 1)
  <2>1. NumLevels - 1 \in 0 .. 7
    BY DEF PhysicalMemoryAssumption
  <2>2. Size(NumLevels - 1) \in Nat
    BY Zenon, <2>1, SizePositive
  <2> QED BY <2>1, <2>2 DEF PhysicalMemoryAssumption
<1>2. \E k \in Levels : HoldsIt(k)
  <2>1. CASE wanted <= 1
    BY <2>1, <1>1, SizeValues, 0 \in Levels DEF Levels
  <2>2. CASE 1 < wanted /\ wanted <= 2
    <3>1. 1 \in Levels /\ HoldsIt(1)
      BY <2>2, <1>1, SizeValues DEF Levels
    <3> QED BY Zenon, <3>1
  <2>3. CASE 2 < wanted /\ wanted <= 4
    <3>1. 2 \in Levels /\ HoldsIt(2)
      BY <2>3, <1>1, SizeValues DEF Levels
    <3> QED BY Zenon, <3>1
  <2>4. CASE 4 < wanted /\ wanted <= 8
    <3>1. 3 \in Levels /\ HoldsIt(3)
      BY <2>4, <1>1, SizeValues DEF Levels
    <3> QED BY Zenon, <3>1
  <2>5. CASE 8 < wanted /\ wanted <= 16
    <3>1. 4 \in Levels /\ HoldsIt(4)
      BY <2>5, <1>1, SizeValues DEF Levels
    <3> QED BY Zenon, <3>1
  <2>6. CASE 16 < wanted /\ wanted <= 32
    <3>1. 5 \in Levels /\ HoldsIt(5)
      BY <2>6, <1>1, SizeValues DEF Levels
    <3> QED BY Zenon, <3>1
  <2>7. CASE 32 < wanted /\ wanted <= 64
    <3>1. 6 \in Levels /\ HoldsIt(6)
      BY <2>7, <1>1, SizeValues DEF Levels
    <3> QED BY Zenon, <3>1
  <2>8. CASE 64 < wanted
    <3>1. 7 \in Levels /\ HoldsIt(7)
      BY <2>8, <1>1, SizeValues DEF Levels
    <3> QED BY Zenon, <3>1
  <2> QED BY <1>1, <2>1, <2>2, <2>3, <2>4, <2>5, <2>6, <2>7, <2>8
<1> DEFINE b == CHOOSE k \in Levels : HoldsIt(k)
<1>3. b \in Levels /\ HoldsIt(b)
  BY Zenon, <1>2
<1>4. get_buddy(wanted) = b
  BY Zenon DEF get_buddy
<1>5. Size(b) \in Nat
  BY <1>1, <1>3, SizePositive DEF Levels
<1> QED BY Zenon, <1>1, <1>3, <1>4, <1>5

----------------------------------------------------------------------------
(* The levels are among the eight, and a page's group has a bit in each.   *)
LEMMA LevelFacts ==
    ASSUME PhysicalMemoryAssumption
    PROVE  /\ Levels \subseteq 0 .. 7 /\ 0 \in Levels
           /\ \A k \in Levels, p \in Pages : p \div Size(k) \in Bits
           /\ \A k \in Levels : Count(k) \in Nat
<1>1. NumPages \in Nat /\ NumLevels \in 1 .. 8
  BY Zenon DEF PhysicalMemoryAssumption
<1>2. Levels \subseteq 0 .. 7 /\ 0 \in Levels
  BY <1>1 DEF Levels
<1>3. ASSUME NEW k \in Levels, NEW p \in Pages PROVE p \div Size(k) \in Bits
  <2>1. k \in 0 .. 7 /\ p \in Nat /\ p <= NumPages
    BY <1>1, <1>2 DEF Pages
  <2>2. p \div Size(k) \in Nat /\ p \div Size(k) <= p
    BY Zenon, <2>1, GroupType
  <2>3. ASSUME NEW q \in Nat, q <= p PROVE q \in Bits
    BY <1>1, <2>1, <2>3 DEF Bits
  <2> QED BY Zenon, <2>2, <2>3
<1>4. ASSUME NEW k \in Levels PROVE Count(k) \in Nat
  BY Zenon, <1>1, <1>2, GroupType DEF Count
<1> QED BY Zenon, <1>2, <1>3, <1>4

(* The state that init() leaves.                                           *)
LEMMA InitInductive ==
    ASSUME PhysicalMemoryAssumption, Init
    PROVE  Inductive
<1>1. TypeOK
  <2>1. SizeMod \in Nat /\ 0 \in 0 .. SizeMod - 1
    BY DEF PhysicalMemoryAssumption
  <2>2. bitmap \in [Levels -> [Bits -> BOOLEAN]]
    BY Zenon DEF Init
  <2> QED BY Zenon, <2>1, <2>2 DEF Init, TypeOK
<1>2. Used = Kernel
  BY Zenon DEF Init, Used
<1>3. Kernel \subseteq Pages
  BY Zenon DEF PhysicalMemoryAssumption, Pages
<1>4. Cover
  <2> SUFFICES ASSUME NEW k \in Levels, NEW p \in Kernel PROVE bitmap[k][p \div Size(k)]
    BY Zenon, <1>2 DEF Cover
  <2>1. p \div Size(k) \in Bits
    BY Zenon, <1>3, LevelFacts
  <2> QED BY Zenon, <2>1 DEF Init
<1>5. Padding
  BY Zenon DEF Init, Padding
<1>6. SearchesFit /\ PagesOwnedOnce
  BY Zenon DEF Init, SearchesFit, PagesOwnedOnce
<1> QED BY Zenon, <1>1, <1>4, <1>5, <1>6 DEF Inductive

(* What is owned is a part of memory.                                      *)
LEMMA UsedPages ==
    ASSUME PhysicalMemoryAssumption, PagesOwnedOnce
    PROVE  Used \subseteq Pages
BY Zenon DEF PhysicalMemoryAssumption, PagesOwnedOnce, Used, Pages

(* The start of a search changes nothing but the search.                   *)
LEMMA AllocInductive ==
    ASSUME PhysicalMemoryAssumption, Inductive, NEW c \in Clients, NEW wanted \in Sizes, alloc(c, wanted)
    PROVE  Inductive'
<1> USE DEF Inductive
<1> DEFINE k == get_buddy(wanted)
           s == [size |-> wanted, level |-> k, first |-> last_alloc[k],
                 i |-> (last_alloc[k] + 1) % SizeMod]
<1>1. k \in Levels /\ wanted <= Size(k)
  BY Zenon, BuddyFits
<1>2. last_alloc[k] \in 0 .. SizeMod - 1
  BY Zenon, <1>1 DEF TypeOK
<1>3. SizeMod \in Nat /\ SizeMod > 0
  BY DEF PhysicalMemoryAssumption
<1>4. (last_alloc[k] + 1) % SizeMod \in 0 .. SizeMod - 1
  BY <1>2, <1>3
<1>5. s \in Searches
  BY Zenon, <1>1, <1>2, <1>4 DEF Searches
<1>6. search' = [search EXCEPT ![c] = s] /\ UNCHANGED <<bitmap, last_alloc, freeing, owned>>
  BY Zenon DEF alloc
<1> HIDE DEF s
<1>7. TypeOK'
  BY Zenon, <1>5, <1>6 DEF TypeOK
<1>8. Cover' /\ Padding' /\ PagesOwnedOnce'
  BY Zenon, <1>6 DEF Cover, Padding, PagesOwnedOnce, Used
<1>9. SearchesFit'
  <2>1. s.size = wanted /\ s.level = k
    BY Zenon DEF s
  <2> QED BY Zenon, <1>1, <1>6, <2>1 DEF SearchesFit, TypeOK
<1> QED BY Zenon, <1>7, <1>8, <1>9

(* Nor does an iteration that finds its bit set.                           *)
LEMMA NextInductive ==
    ASSUME PhysicalMemoryAssumption, Inductive, NEW c \in Clients, alloc_next(c)
    PROVE  Inductive'
<1> USE DEF Inductive
<1> DEFINE s == search[c]
           n == Candidate(s) + 1
           r == [size |-> s.size, level |-> s.level, first |-> s.first, i |-> n]
<1>1. s \in Searches /\ s # None
  BY Zenon DEF alloc_next, TypeOK
<1>2. n \in 0 .. SizeMod - 1
  <2>1. s.level \in Levels /\ s.i \in Nat
    BY <1>1 DEF Searches
  <2>2. Count(s.level) \in Nat /\ Count(s.level) <= NumPages
    BY Zenon, <2>1, LevelFacts, GroupType DEF Count, PhysicalMemoryAssumption
  <2> QED BY <2>1, <2>2 DEF Candidate, PhysicalMemoryAssumption
<1>3. search' = [search EXCEPT ![c] = r]
  BY Zenon, <1>1 DEF alloc_next
<1>4. UNCHANGED <<bitmap, last_alloc, freeing, owned>>
  BY Zenon DEF alloc_next
<1>5. r \in Searches /\ r.size = s.size /\ r.level = s.level
  BY Zenon, <1>1, <1>2 DEF Searches
<1> HIDE DEF r
<1>6. TypeOK'
  BY Zenon, <1>3, <1>4, <1>5 DEF TypeOK
<1>7. Cover' /\ Padding' /\ PagesOwnedOnce'
  BY Zenon, <1>4 DEF Cover, Padding, PagesOwnedOnce, Used
<1>8. SearchesFit'
  BY Zenon, <1>1, <1>3, <1>5 DEF SearchesFit, TypeOK
<1> QED BY Zenon, <1>6, <1>7, <1>8

(* The first page of a group is a page.                                    *)
LEMMA FirstOfGroup ==
    ASSUME NEW k \in 0 .. 7, NEW i \in Nat
    PROVE  i * Size(k) \in Nat
<1>1. \/ k = 0 \/ k = 1 \/ k = 2 \/ k = 3 \/ k = 4 \/ k = 5 \/ k = 6 \/ k = 7
  OBVIOUS
<1> QED BY <1>1, SizeValues

(* Clients ask for one page or more.                                       *)
LEMMA SizesPositive ==
    ASSUME PhysicalMemoryAssumption
    PROVE  \A wanted \in Sizes : wanted \in Nat /\ wanted >= 1
<1>1. NumLevels - 1 \in 0 .. 7
  BY DEF PhysicalMemoryAssumption
<1>2. Size(NumLevels - 1) \in Nat
  BY Zenon, <1>1, SizePositive
<1> QED BY <1>2 DEF PhysicalMemoryAssumption

(* A clear bit stands for pages of memory that nobody uses, and marking    *)
(* them used covers them at every level.                                   *)
LEMMA TakeInductive ==
    ASSUME PhysicalMemoryAssumption, Inductive, NEW c \in Clients, alloc_take(c)
    PROVE  Inductive'
<1> USE DEF Inductive
<1> DEFINE s == search[c]
           k == s.level
           i == Candidate(s)
           f == i * Size(k)
           last == f + s.size - 1
           mine == Span(f, s.size)
<1>1. s \in Searches /\ s # None /\ k \in Levels /\ k \in 0 .. 7 /\ s.size \in Sizes /\ s.i \in Nat
  BY LevelFacts DEF alloc_take, TypeOK, Searches
<1>2. s.size \in Nat /\ s.size >= 1 /\ s.size <= Size(k) /\ Size(k) \in Nat /\ NumPages \in Nat
  <2>1. NumLevels - 1 \in 0 .. 7 /\ Sizes \subseteq 1 .. Size(NumLevels - 1) /\ NumPages \in Nat
    BY DEF PhysicalMemoryAssumption
  <2>2. Size(NumLevels - 1) \in Nat /\ Size(k) \in Nat
    BY Zenon, <1>1, <2>1, SizePositive
  <2>3. s.size <= Size(k)
    BY Zenon, <1>1 DEF SearchesFit
  <2>4. s.size \in Nat /\ s.size >= 1
    BY Zenon, <1>1, SizesPositive
  <2> QED BY Zenon, <2>1, <2>2, <2>3, <2>4
<1>3. i \in Nat /\ i \in Bits /\ ~bitmap[k][i]
  <2>1. Count(k) \in Nat /\ Count(k) <= NumPages
    BY Zenon, <1>1, <1>2, GroupType DEF Count
  <2> QED BY <1>1, <1>2, <2>1 DEF Candidate, Bits, alloc_take
<1>4. i < NumPages \div Size(k)
  <2>1. Count(k) \in Nat
    BY Zenon, <1>1, LevelFacts
  <2>2. ~(i >= Count(k))
    BY Zenon, <1>1, <1>3 DEF Padding
  <2> QED BY <1>3, <2>1, <2>2 DEF Count
<1>5. f \in Nat /\ last \in Nat /\ f + Size(k) <= NumPages
  <2>1. f \in Nat
    BY Zenon, <1>1, <1>3, FirstOfGroup
  <2>2. f + Size(k) <= NumPages
    BY Zenon, <1>1, <1>2, <1>3, <1>4, GroupInside
  <2> QED BY <1>2, <2>1, <2>2
<1>6. ASSUME NEW p \in mine
      PROVE  /\ p \in Nat /\ p \in Pages /\ f <= p /\ p <= last /\ p \div Size(k) = i
  <2> HIDE DEF f, i, k, s
  <2>1. p \in Nat /\ p \in Pages /\ f <= p /\ p <= last /\ p <= f + Size(k) - 1
    BY <1>2, <1>5 DEF Span, Pages
  <2>2. p \div Size(k) = i
    BY Zenon, <1>1, <1>3, <2>1, GroupOf DEF f
  <2> QED BY Zenon, <2>1, <2>2
<1>7. mine \cap Used = {}
  BY Zenon, <1>1, <1>3, <1>6 DEF Cover
<1>8. /\ bitmap' = mark_used(f, last)
      /\ owned' = [owned EXCEPT ![c] = [first |-> f, count |-> s.size]]
      /\ search' = [search EXCEPT ![c] = None] /\ freeing' = freeing
  BY Zenon DEF alloc_take
<1>9. last_alloc' \in [Levels -> 0 .. SizeMod - 1]
  <2>1. last_alloc' = [l \in Levels |-> (f \div Size(l) + s.size \div Size(l) - 1) % SizeMod]
    BY Zenon DEF alloc_take
  <2>2. ASSUME NEW l \in Levels
        PROVE  (f \div Size(l) + s.size \div Size(l) - 1) % SizeMod \in 0 .. SizeMod - 1
    <3> HIDE DEF f, s
    <3>1. f \div Size(l) \in Nat /\ s.size \div Size(l) \in Nat
      BY Zenon, <1>2, <1>5, LevelFacts, GroupType
    <3>2. SizeMod \in Nat /\ SizeMod > 0
      BY DEF PhysicalMemoryAssumption
    <3> QED BY <3>1, <3>2
  <2> QED BY Zenon, <2>1, <2>2
<1> HIDE DEF s, k, i, f, last, mine
<1>10. bitmap' \in [Levels -> [Bits -> BOOLEAN]]
  BY Zenon, <1>8 DEF mark_used, TypeOK
<1>11. ASSUME NEW l \in Levels, NEW j \in Bits, bitmap[l][j] PROVE bitmap'[l][j]
  BY Zenon, <1>8, <1>11 DEF mark_used
<1>12. TypeOK'
  BY Zenon, <1>2, <1>5, <1>8, <1>9, <1>10 DEF TypeOK
<1>13. Used' \subseteq Used \cup mine
  BY Zenon, <1>8 DEF Used, TypeOK, mine
<1>14. Cover'
  <2> SUFFICES ASSUME NEW l \in Levels, NEW p \in Used' PROVE bitmap'[l][p \div Size(l)]
    BY Zenon DEF Cover
  <2>1. CASE p \in Used
    <3>1. p \div Size(l) \in Bits
      BY Zenon, <2>1, UsedPages, LevelFacts
    <3> QED BY Zenon, <2>1, <3>1, <1>11 DEF Cover
  <2>2. CASE p \in mine
    <3>1. p \in Nat /\ p \in Pages /\ f <= p /\ p <= last
      BY Zenon, <1>6, <2>2
    <3>2. l \in 0 .. 7 /\ p \div Size(l) \in Bits
      BY Zenon, <3>1, LevelFacts
    <3>3. f \div Size(l) <= p \div Size(l) /\ p \div Size(l) <= last \div Size(l)
      BY Zenon, <1>5, <3>1, <3>2, GroupMonotone
    <3>4. f \div Size(l) \in Nat /\ p \div Size(l) \in Nat /\ last \div Size(l) \in Nat
      BY Zenon, <1>5, <3>1, <3>2, GroupType
    <3>5. p \div Size(l) \in (f \div Size(l)) .. (last \div Size(l))
      BY <3>3, <3>4
    <3> QED BY Zenon, <1>8, <3>2, <3>5 DEF mark_used
  <2> QED BY Zenon, <1>13, <2>1, <2>2
<1>15. Padding'
  BY Zenon, <1>11 DEF Padding, Count
<1>16. SearchesFit'
  BY Zenon, <1>8 DEF SearchesFit, TypeOK
<1>17. PagesOwnedOnce'
  <2>1. mine \subseteq Pages \ Kernel
    BY Zenon, <1>6, <1>7 DEF Used
  <2>2. ASSUME NEW d \in Clients \ {c}, owned[d] # None
        PROVE  mine \cap Span(owned[d].first, owned[d].count) = {}
    BY Zenon, <1>7, <2>2 DEF Used
  <2>3. \A d \in Clients \ {c} : owned'[d] = owned[d]
    BY Zenon, <1>8 DEF TypeOK
  <2>4. Span(owned'[c].first, owned'[c].count) = mine
    BY Zenon, <1>8 DEF TypeOK, mine
  <2> QED BY Zenon, <2>1, <2>2, <2>3, <2>4 DEF PagesOwnedOnce
<1> QED BY Zenon, <1>12, <1>14, <1>15, <1>16, <1>17

(* The page that is freed was its owner's alone.                           *)
LEMMA FreeInductive ==
    ASSUME PhysicalMemoryAssumption, Inductive, NEW c \in Clients, free(c)
    PROVE  Inductive'
<1> USE DEF Inductive
<1> DEFINE p == owned[c].first
<1>1. p \in Nat /\ owned[c].count = 1 /\ owned[c] # None
  BY Zenon DEF free, TypeOK
<1>2. Span(p, owned[c].count) = {p}
  BY <1>1 DEF Span
<1>3. p \in Pages /\ p \notin Kernel
  BY Zenon, <1>1, <1>2 DEF PagesOwnedOnce
<1>4. /\ bitmap' = [bitmap EXCEPT ![0] = [bitmap[0] EXCEPT ![p] = FALSE]]
      /\ freeing' = [page |-> p, level |-> 0]
      /\ owned' = [owned EXCEPT ![c] = None]
      /\ UNCHANGED <<last_alloc, search>>
  BY Zenon DEF free
<1> HIDE DEF p
<1>5. 0 \in Levels /\ p \in Bits /\ NumPages \in Nat
  BY <1>3, LevelFacts DEF Pages, Bits, PhysicalMemoryAssumption
<1>6. TypeOK'
  BY Zenon, <1>3, <1>4, <1>5 DEF TypeOK
<1>7. \A k \in Levels, j \in Bits : k # 0 \/ j # p => bitmap'[k][j] = bitmap[k][j]
  BY Zenon, <1>4, <1>5 DEF TypeOK
<1>8. \A d \in Clients \ {c} : owned'[d] = owned[d]
  BY Zenon, <1>4 DEF TypeOK
<1>9. owned'[c] = None
  BY Zenon, <1>4 DEF TypeOK
<1>10. PagesOwnedOnce'
  BY Zenon, <1>8, <1>9 DEF PagesOwnedOnce
<1>11. Used' \subseteq Used
  BY Zenon, <1>8, <1>9 DEF Used
<1>12. p \notin Used'
  <2>1. ASSUME NEW d \in Clients \ {c}, owned[d] # None
        PROVE  p \notin Span(owned[d].first, owned[d].count)
    BY Zenon, <1>1, <1>2, <2>1 DEF PagesOwnedOnce, p
  <2> QED BY Zenon, <1>3, <1>8, <1>9, <2>1 DEF Used
<1>13. Cover'
  <2> SUFFICES ASSUME NEW k \in Levels, NEW q \in Used' PROVE bitmap'[k][q \div Size(k)]
    BY Zenon DEF Cover
  <2>1. q \in Used /\ q # p /\ q \in Pages
    BY Zenon, <1>11, <1>12, UsedPages
  <2>2. q \div Size(k) \in Bits /\ bitmap[k][q \div Size(k)]
    BY Zenon, <2>1, LevelFacts DEF Cover
  <2>3. k = 0 => q \div Size(k) = q
    BY <1>5, <2>1, SizeValues DEF Pages
  <2> QED BY Zenon, <1>7, <2>1, <2>2, <2>3
<1>14. Padding'
  <2>1. Count(0) = NumPages
    BY <1>5, SizeValues DEF Count
  <2>2. p < NumPages
    BY <1>3, <1>5 DEF Pages
  <2>3. ASSUME NEW k \in Levels, NEW j \in Bits, j >= Count(k) PROVE k # 0 \/ j # p
    BY <1>5, <2>1, <2>2, <2>3 DEF Bits
  <2> QED BY Zenon, <1>7, <2>3 DEF Padding, Count
<1>15. SearchesFit'
  BY Zenon, <1>4 DEF SearchesFit
<1> QED BY Zenon, <1>6, <1>10, <1>13, <1>14, <1>15

(* A bit whose two halves are clear has no page in use below it, and no    *)
(* page past the end of memory.                                            *)
LEMMA MarkFreeInductive ==
    ASSUME PhysicalMemoryAssumption, Inductive, mark_free
    PROVE  Inductive'
<1> USE DEF Inductive
<1> DEFINE k == freeing.level
           page == freeing.page
           j == page \div Size(k + 1)
<1>1. k \in Levels /\ page \in Pages /\ k \in Nat /\ NumPages \in Nat
  BY SMTT(30), LevelFacts DEF mark_free, TypeOK, PhysicalMemoryAssumption
<1>2. UNCHANGED <<last_alloc, search, owned>>
  BY Zenon DEF mark_free
<1>3. PagesOwnedOnce' /\ SearchesFit' /\ Used' = Used
  BY Zenon, <1>2 DEF PagesOwnedOnce, SearchesFit, Used
<1>4. CASE UNCHANGED bitmap
  <2>1. freeing' \in [page : Pages, level : Levels] \cup {None}
    <3>1. k + 1 # NumLevels => k + 1 \in Levels
      BY <1>1 DEF Levels, PhysicalMemoryAssumption
    <3> QED BY <1>1, <3>1 DEF mark_free
  <2>2. TypeOK'
    BY Zenon, <1>2, <1>4, <2>1 DEF TypeOK
  <2> QED BY Zenon, <1>3, <1>4, <2>2 DEF Cover, Padding
<1>5. CASE ~UNCHANGED bitmap
  <2>1. /\ k + 1 # NumLevels /\ Buddies(k, j)
        /\ bitmap' = [bitmap EXCEPT ![k + 1] = [bitmap[k + 1] EXCEPT ![j] = FALSE]]
        /\ freeing' = [page |-> page, level |-> k + 1]
    BY Zenon, <1>5 DEF mark_free
  <2>2. k + 1 \in Levels /\ k \in 0 .. 6
    BY <1>1, <2>1 DEF Levels, PhysicalMemoryAssumption
  <2>3. j \in Bits /\ j \in Nat
    BY <1>1, <2>2, LevelFacts DEF Bits
  <2>4. ~bitmap[k][2 * j] /\ ~bitmap[k][2 * j + 1]
    BY Zenon, <2>1 DEF Buddies
  <2> HIDE DEF j, k, page
  <2>5. TypeOK'
    BY Zenon, <1>1, <1>2, <2>1, <2>2, <2>3 DEF TypeOK
  <2>6. \A l \in Levels, i \in Bits : l # k + 1 \/ i # j => bitmap'[l][i] = bitmap[l][i]
    BY Zenon, <2>1, <2>2, <2>3 DEF TypeOK
  <2>7. Cover'
    <3> SUFFICES ASSUME NEW l \in Levels, NEW q \in Used PROVE bitmap'[l][q \div Size(l)]
      BY Zenon, <1>3 DEF Cover
    <3>1. q \in Nat /\ q \in Pages
      BY UsedPages DEF Pages
    <3>2. q \div Size(k + 1) # j
      <4>1. bitmap[k][q \div Size(k)]
        BY Zenon, <1>1 DEF Cover
      <4> QED BY Zenon, <2>2, <2>3, <2>4, <3>1, <4>1, GroupAbove
    <3>3. q \div Size(l) \in Bits /\ bitmap[l][q \div Size(l)]
      BY Zenon, <3>1, LevelFacts DEF Cover
    <3> QED BY Zenon, <2>6, <3>2, <3>3
  <2>8. j < Count(k + 1)
    <3> SUFFICES ASSUME j >= Count(k + 1) PROVE FALSE
      BY <2>2, <2>3, LevelFacts
    <3>1. Count(k + 1) \in Nat /\ Count(k) \in Nat
      BY Zenon, <1>1, <2>2, LevelFacts
    <3>2. Count(k) = 2 * Count(k + 1) \/ Count(k) = 2 * Count(k + 1) + 1
      BY Zenon, <1>1, <2>2, <3>1, GroupAbove DEF Count
    <3>3. 2 * j + 1 >= Count(k)
      BY <2>3, <3>1, <3>2
    <3>4. 2 * j + 1 \in Bits
      <4>1. page \in Nat /\ page < NumPages
        BY <1>1 DEF Pages
      <4>2. 2 * j <= page
        BY Zenon, <2>2, <4>1, HalvesBelow DEF j
      <4> QED BY <1>1, <2>3, <4>1, <4>2 DEF Bits
    <3> QED BY Zenon, <1>1, <2>4, <3>3, <3>4 DEF Padding
  <2>9. Padding'
    <3>1. ASSUME NEW l \in Levels, NEW i \in Bits, i >= Count(l) PROVE l # k + 1 \/ i # j
      <4>1. Count(k + 1) \in Nat
        BY Zenon, <2>2, LevelFacts
      <4> QED BY <1>1, <2>3, <2>8, <3>1, <4>1 DEF Bits
    <3> QED BY Zenon, <2>6, <3>1 DEF Padding, Count
  <2> QED BY Zenon, <1>3, <2>5, <2>7, <2>9
<1> QED BY Zenon, <1>4, <1>5

----------------------------------------------------------------------------
(* The invariant holds of all that alloc() and free() do.                  *)
LEMMA InductiveAlways ==
    ASSUME PhysicalMemoryAssumption
    PROVE  Spec => []Inductive
<1>1. Init => Inductive
  BY Zenon, InitInductive
<1>2. Inductive /\ [Next]_vars => Inductive'
  <2> SUFFICES ASSUME Inductive, [Next]_vars PROVE Inductive'
    BY Zenon
  <2>1. ASSUME NEW c \in Clients, NEW wanted \in Sizes, alloc(c, wanted) PROVE Inductive'
    BY Zenon, <2>1, AllocInductive
  <2>2. ASSUME NEW c \in Clients, alloc_next(c) PROVE Inductive'
    BY Zenon, <2>2, NextInductive
  <2>3. ASSUME NEW c \in Clients, alloc_take(c) PROVE Inductive'
    BY Zenon, <2>3, TakeInductive
  <2>4. ASSUME NEW c \in Clients, free(c) PROVE Inductive'
    BY Zenon, <2>4, FreeInductive
  <2>5. CASE mark_free
    BY Zenon, <2>5, MarkFreeInductive
  <2>6. CASE UNCHANGED vars
    BY Zenon, <2>6 DEF vars, Inductive, TypeOK, Cover, Padding, SearchesFit, PagesOwnedOnce,
       Used, Count
  <2> QED BY <2>1, <2>2, <2>3, <2>4, <2>5, <2>6 DEF Next
<1> QED BY <1>1, <1>2, PTL DEF Spec

(* alloc() hands out each page once: for every amount of memory, number of *)
(* levels and of cores that allocate and free, no page has two owners, and *)
(* none of the kernel or past the end of memory has one.                   *)
THEOREM PagesHandedOutOnce ==
    ASSUME PhysicalMemoryAssumption
    PROVE  Spec => []PagesOwnedOnce
<1>1. Inductive => PagesOwnedOnce
  BY DEF Inductive
<1> QED BY <1>1, InductiveAlways, PTL

----------------------------------------------------------------------------
(* The other direction: no bit stays set without need.  While free()       *)
(* climbs, the bits above the level it has come to may still be set for    *)
(* the page it frees, and for no other reason.                             *)
StillNeeded(k, j) ==
    \/ \E p \in Used : p \div Size(k) = j
    \/ freeing # None /\ freeing.level < k /\ freeing.page \div Size(k) = j
Exact ==
    /\ \A k \in Levels : \A j \in 0 .. Count(k) - 1 : bitmap[k][j] => StillNeeded(k, j)
    /\ \A c \in Clients : search[c] # None => owned[c] = None

(* The group of a page at level k.                                         *)
Group(k, p) == p \div Size(k)

(* A group between those of the first and the last page of an area has a   *)
(* page of the area.                                                       *)
LEMMA GroupMeets ==
    ASSUME NEW k \in 0 .. 7, NEW f \in Nat, NEW last \in Nat, NEW j \in Nat, f <= last,
           Group(k, f) <= j, j <= Group(k, last)
    PROVE  \E p \in f .. last : Group(k, p) = j
<1> USE DEF Group
<1>1. CASE f \div Size(k) = j
  <2>1. f \in f .. last
    OBVIOUS
  <2> QED BY Zenon, <1>1, <2>1
<1>2. CASE f \div Size(k) < j
  <2>1. \/ k = 0 \/ k = 1 \/ k = 2 \/ k = 3 \/ k = 4 \/ k = 5 \/ k = 6 \/ k = 7
    OBVIOUS
  <2>2. j * Size(k) \in f .. last /\ (j * Size(k)) \div Size(k) = j
    BY <1>2, <2>1, SizeValues
  <2> QED BY Zenon, <2>2
<1>3. f \div Size(k) \in Nat
  BY Zenon, GroupType
<1> QED BY <1>1, <1>2, <1>3

(* The pages of the two halves of a group are pages of the group.          *)
LEMMA GroupBelow ==
    ASSUME NEW k \in 0 .. 6, NEW p \in Nat, NEW j \in Nat,
           p \div Size(k) = 2 * j \/ p \div Size(k) = 2 * j + 1
    PROVE  p \div Size(k + 1) = j
<1>1. \/ k = 0 \/ k = 1 \/ k = 2 \/ k = 3 \/ k = 4 \/ k = 5 \/ k = 6
  OBVIOUS
<1> QED BY <1>1, SizeValues

(* alloc() marks the groups that have a page of the area, and no others.   *)
LEMMA TakeExact ==
    ASSUME PhysicalMemoryAssumption, Inductive, Exact, NEW c \in Clients, alloc_take(c)
    PROVE  Exact'
<1> DEFINE s == search[c]
           f == Candidate(s) * Size(s.level)
           last == f + s.size - 1
<1>1. s \in Searches /\ s.level \in 0 .. 7 /\ s.size \in Sizes
  BY Zenon, LevelFacts DEF Inductive, alloc_take, TypeOK, Searches
<1>2. s.size \in Nat /\ s.size >= 1
  BY Zenon, <1>1, SizesPositive
<1>3. f \in Nat
  <2>1. Candidate(s) \in Nat
    BY <1>1 DEF Searches, Candidate
  <2> QED BY Zenon, <1>1, <2>1, FirstOfGroup
<1>4. /\ bitmap' = mark_used(f, last)
      /\ owned' = [owned EXCEPT ![c] = [first |-> f, count |-> s.size]]
      /\ freeing = None
  BY Zenon DEF alloc_take
<1> HIDE DEF s, f
<1>5. last \in Nat /\ f <= last
  BY <1>2, <1>3
<1>6. Used \subseteq Used' /\ f .. last \subseteq Used'
  <2>1. owned[c] = None
    BY Zenon DEF Exact, alloc_take
  <2>2. owned'[c] # None /\ Span(owned'[c].first, owned'[c].count) = f .. last
    BY <1>2, <1>3, <1>4 DEF Inductive, TypeOK, Span, PhysicalMemoryAssumption
  <2>3. \A d \in Clients \ {c} : owned'[d] = owned[d]
    BY Zenon, <1>4 DEF Inductive, TypeOK
  <2>4. \A d \in Clients : owned[d] # None => owned'[d] = owned[d]
    BY Zenon, <2>1, <2>3
  <2>5. Used \subseteq Used'
    BY Zenon, <2>4 DEF Used
  <2>6. f .. last \subseteq Used'
    <3> HIDE DEF last
    <3> QED BY Zenon, <2>2 DEF Used
  <2> QED BY Zenon, <2>5, <2>6
<1>7. ASSUME NEW k \in Levels, NEW j \in 0 .. Count(k) - 1, bitmap'[k][j] PROVE StillNeeded(k, j)'
  <2>1. k \in 0 .. 7 /\ j \in Nat /\ j \in Bits
    <3>1. Count(k) \in Nat /\ Count(k) <= NumPages /\ NumPages \in Nat
      BY Zenon, LevelFacts, GroupType DEF Count, PhysicalMemoryAssumption
    <3> QED BY <3>1, LevelFacts DEF Bits
  <2>2. CASE bitmap[k][j]
    BY Zenon, <1>4, <1>6, <2>2 DEF Exact, StillNeeded
  <2>3. CASE j \in (f \div Size(k)) .. (last \div Size(k))
    <3>1. f \div Size(k) \in Nat /\ last \div Size(k) \in Nat
      BY Zenon, <1>3, <1>5, <2>1, GroupType
    <3> HIDE DEF last
    <3>2. Group(k, f) <= j /\ j <= Group(k, last)
      BY <2>1, <2>3, <3>1 DEF Group
    <3>3. \E p \in f .. last : Group(k, p) = j
      BY <1>3, <1>5, <2>1, <3>2, GroupMeets
    <3> QED BY Zenon, <1>6, <3>3 DEF StillNeeded, Group
  <2>4. bitmap'[k][j] = (bitmap[k][j] \/ j \in (f \div Size(k)) .. (last \div Size(k)))
    BY Zenon, <1>4, <2>1 DEF mark_used
  <2> QED BY Zenon, <1>7, <2>2, <2>3, <2>4
<1>8. ASSUME NEW d \in Clients, search'[d] # None PROVE owned'[d] = None
  <2>1. d # c /\ search'[d] = search[d] /\ owned'[d] = owned[d]
    BY Zenon, <1>4, <1>8 DEF alloc_take, Inductive, TypeOK
  <2> QED BY Zenon, <1>8, <2>1 DEF Exact
<1> QED BY Zenon, <1>7, <1>8 DEF Exact, Count

(* The bit of the page that free() clears, at the lowest level, had no     *)
(* other reason to be set; the bits above it are now its.                  *)
LEMMA FreeExact ==
    ASSUME PhysicalMemoryAssumption, Inductive, Exact, NEW c \in Clients, free(c)
    PROVE  Exact'
<1> DEFINE p == owned[c].first
<1>1. p \in Nat /\ owned[c].count = 1 /\ owned[c] # None
  BY Zenon DEF free, Inductive, TypeOK
<1>2. Span(p, owned[c].count) = {p}
  BY <1>1 DEF Span
<1>3. p \in Pages /\ p \in Bits /\ p \in Used
  <2>1. p \in Pages
    BY Zenon, <1>1, <1>2 DEF Inductive, PagesOwnedOnce
  <2> QED BY <1>1, <1>2, <2>1 DEF Pages, Bits, Used, PhysicalMemoryAssumption
<1>4. /\ bitmap' = [bitmap EXCEPT ![0] = [bitmap[0] EXCEPT ![p] = FALSE]]
      /\ freeing' = [page |-> p, level |-> 0] /\ freeing = None
      /\ owned' = [owned EXCEPT ![c] = None]
      /\ UNCHANGED <<last_alloc, search>>
  BY Zenon DEF free
<1> HIDE DEF p
<1>5. 0 \in Levels /\ Levels \subseteq 0 .. 7
  BY Zenon, LevelFacts
<1>6. freeing' # None /\ freeing'.page = p /\ freeing'.level = 0
  BY <1>1, <1>4 DEF PhysicalMemoryAssumption
<1>7. \A k \in Levels, j \in Bits : bitmap'[k][j] => bitmap[k][j] /\ (k # 0 \/ j # p)
  BY Zenon, <1>3, <1>4, <1>5 DEF Inductive, TypeOK
<1>8. \A d \in Clients \ {c} : owned'[d] = owned[d]
  BY Zenon, <1>4 DEF Inductive, TypeOK
<1>9. Used \ {p} \subseteq Used'
  <2>1. \A q \in Used \ {p} : q \in Kernel \/ \E d \in Clients \ {c} :
          owned[d] # None /\ q \in Span(owned[d].first, owned[d].count)
    BY Zenon, <1>2 DEF Used, p
  <2> QED BY Zenon, <1>8, <2>1 DEF Used
<1>10. ASSUME NEW k \in Levels, NEW j \in 0 .. Count(k) - 1, bitmap'[k][j] PROVE StillNeeded(k, j)'
  <2>1. k \in 0 .. 7 /\ j \in Nat /\ j \in Bits
    <3>1. Count(k) \in Nat /\ Count(k) <= NumPages /\ NumPages \in Nat
      BY Zenon, LevelFacts, GroupType DEF Count, PhysicalMemoryAssumption
    <3> QED BY <1>5, <3>1 DEF Bits
  <2>2. bitmap[k][j] /\ (k # 0 \/ j # p)
    BY Zenon, <1>7, <1>10, <2>1
  <2>3. PICK q \in Used : q \div Size(k) = j
    BY Zenon, <1>4, <2>2 DEF Exact, StillNeeded
  <2>4. q # p \/ k > 0
    <3>1. ASSUME q = p, k = 0 PROVE q \div Size(k) = p
      BY <1>1, <3>1, SizeValues
    <3> QED BY <2>1, <2>2, <2>3, <3>1
  <2>5. CASE q # p
    BY Zenon, <1>9, <2>3, <2>5 DEF StillNeeded
  <2>6. CASE q = p /\ k > 0
    BY Zenon, <1>6, <2>3, <2>6 DEF StillNeeded
  <2> QED BY Zenon, <2>4, <2>5, <2>6
<1>11. ASSUME NEW d \in Clients, search'[d] # None PROVE owned'[d] = None
  BY Zenon, <1>4, <1>8, <1>11 DEF Exact, Inductive, TypeOK
<1> QED BY Zenon, <1>10, <1>11 DEF Exact, Count

(* When free() climbs past a bit that it leaves set, one of its halves has *)
(* a page in use; at the top no bit is left to be cleared.                 *)
LEMMA MarkFreeExact ==
    ASSUME PhysicalMemoryAssumption, Inductive, Exact, mark_free
    PROVE  Exact'
<1> DEFINE k == freeing.level
           page == freeing.page
           j == page \div Size(k + 1)
<1>1. freeing # None /\ k \in Levels /\ page \in Pages /\ k \in Nat /\ NumPages \in Nat
  BY SMTT(30), LevelFacts DEF mark_free, Inductive, TypeOK, PhysicalMemoryAssumption
<1>2. UNCHANGED <<last_alloc, search, owned>> /\ Used' = Used
  BY Zenon DEF mark_free, Used
<1>3. \A d \in Clients : search'[d] # None => owned'[d] = None
  BY Zenon, <1>2 DEF Exact
<1>4. ASSUME NEW l \in Levels, NEW i \in 0 .. Count(l) - 1
      PROVE  l \in 0 .. 7 /\ i \in Nat /\ i \in Bits /\ i < Count(l)
  <2>1. Count(l) \in Nat /\ Count(l) <= NumPages
    BY Zenon, <1>1, LevelFacts, GroupType DEF Count
  <2> QED BY <1>1, <2>1, LevelFacts DEF Bits
<1>5. CASE k + 1 = NumLevels
  <2>1. freeing' = None /\ UNCHANGED bitmap
    BY Zenon, <1>5 DEF mark_free
  <2>2. ASSUME NEW l \in Levels PROVE ~(k < l)
    BY <1>1, <1>5 DEF Levels, PhysicalMemoryAssumption
  <2>3. ASSUME NEW l \in Levels, NEW i \in 0 .. Count(l) - 1, bitmap[l][i]
        PROVE  \E p \in Used : p \div Size(l) = i
    BY Zenon, <2>2, <2>3 DEF Exact, StillNeeded
  <2> QED BY Zenon, <1>2, <1>3, <2>1, <2>3 DEF Exact, StillNeeded, Count
<1>6. CASE k + 1 # NumLevels
  <2>1. /\ freeing' = [page |-> page, level |-> k + 1]
        /\ bitmap' = IF Buddies(k, j)
                     THEN [bitmap EXCEPT ![k + 1] = [bitmap[k + 1] EXCEPT ![j] = FALSE]] ELSE bitmap
    BY Zenon, <1>6 DEF mark_free
  <2>2. k + 1 \in Levels /\ k \in 0 .. 6
    BY <1>1, <1>6 DEF Levels, PhysicalMemoryAssumption
  <2>3. j \in Bits /\ j \in Nat
    BY <1>1, <2>2, LevelFacts DEF Bits
  <2>4. freeing' # None /\ freeing'.page = page /\ freeing'.level = k + 1
    BY <1>1, <2>1 DEF PhysicalMemoryAssumption, Pages
  <2> HIDE DEF j
  <2>5. \A l \in Levels, i \in Bits :
          bitmap'[l][i] => bitmap[l][i] /\ (l = k + 1 /\ i = j => ~Buddies(k, j))
    BY Zenon, <2>1, <2>2, <2>3 DEF Inductive, TypeOK
  <2>6. ASSUME NEW l \in Levels, NEW i \in 0 .. Count(l) - 1, bitmap'[l][i]
        PROVE  StillNeeded(l, i)'
    <3>1. bitmap[l][i] /\ (l = k + 1 /\ i = j => ~Buddies(k, j))
      BY Zenon, <1>4, <2>5, <2>6
    <3>2. CASE \E p \in Used : p \div Size(l) = i
      BY Zenon, <1>2, <3>2 DEF StillNeeded
    <3>3. CASE k < l /\ page \div Size(l) = i /\ l # k + 1
      <4>1. k + 1 < l
        BY <1>1, <1>4, <3>3
      <4> QED BY Zenon, <2>4, <3>3, <4>1 DEF StillNeeded
    <3>4. CASE page \div Size(l) = i /\ l = k + 1
      <4>1. i = j /\ (bitmap[k][2 * j] \/ bitmap[k][2 * j + 1])
        BY Zenon, <3>1, <3>4 DEF j, Buddies
      <4>2. 2 * j \in 0 .. Count(k) - 1 /\ 2 * j + 1 \in 0 .. Count(k) - 1
        <5>1. j < Count(k + 1) /\ Count(k + 1) \in Nat /\ Count(k) \in Nat
          BY Zenon, <1>1, <1>4, <2>2, <3>4, <4>1, LevelFacts
        <5>2. Count(k) = 2 * Count(k + 1) \/ Count(k) = 2 * Count(k + 1) + 1
          BY Zenon, <1>1, <2>2, <5>1, GroupAbove DEF Count
        <5> QED BY <2>3, <5>1, <5>2
      <4>3. PICK q \in Used : q \div Size(k) = 2 * j \/ q \div Size(k) = 2 * j + 1
        BY <1>1, <4>1, <4>2 DEF Exact, StillNeeded
      <4>4. q \in Nat
        BY UsedPages DEF Inductive, Pages
      <4>5. q \div Size(k + 1) = j
        BY Zenon, <2>2, <2>3, <4>3, <4>4, GroupBelow
      <4> QED BY Zenon, <1>2, <3>4, <4>1, <4>5 DEF StillNeeded
    <3> QED BY Zenon, <3>1, <3>2, <3>3, <3>4 DEF Exact, StillNeeded
  <2> QED BY Zenon, <1>3, <2>6 DEF Exact, Count
<1> QED BY Zenon, <1>5, <1>6

(* No bit is set without need, ever.                                       *)
LEMMA ExactAlways ==
    ASSUME PhysicalMemoryAssumption
    PROVE  Spec => []Exact
<1>1. Init => Exact
  <2> SUFFICES ASSUME Init PROVE Exact
    BY Zenon
  <2>1. ASSUME NEW k \in Levels, NEW j \in 0 .. Count(k) - 1, bitmap[k][j] PROVE StillNeeded(k, j)
    <3>1. Count(k) \in Nat /\ Count(k) <= NumPages /\ NumPages \in Nat
      BY Zenon, LevelFacts, GroupType DEF Count, PhysicalMemoryAssumption
    <3>2. j \in Bits /\ ~(j >= Count(k))
      BY <3>1 DEF Bits
    <3>3. \E p \in Kernel : p \div Size(k) = j
      BY Zenon, <2>1, <3>2 DEF Init
    <3> QED BY Zenon, <3>3 DEF StillNeeded, Used
  <2> QED BY Zenon, <2>1 DEF Exact, Init
<1>2. Inductive /\ Exact /\ [Next]_vars => Exact'
  <2> SUFFICES ASSUME Inductive, Exact, [Next]_vars PROVE Exact'
    BY Zenon
  <2> DEFINE Tight == \A k \in Levels : \A j \in 0 .. Count(k) - 1 : bitmap[k][j] => StillNeeded(k, j)
             NotOwning(d) == search[d] # None => owned[d] = None
  <2>0. ASSUME UNCHANGED <<bitmap, freeing, owned>> PROVE Tight'
    <3>1. Used' = Used
      BY Zenon, <2>0 DEF Used
    <3>2. Tight
      BY Zenon DEF Exact
    <3> QED BY Zenon, <2>0, <3>1, <3>2 DEF StillNeeded, Count
  <2>1. ASSUME NEW c \in Clients, NEW wanted \in Sizes, alloc(c, wanted) PROVE Exact'
    <3>1. UNCHANGED <<bitmap, freeing, owned>> /\ owned[c] = None
          /\ \A d \in Clients \ {c} : search'[d] = search[d]
      BY Zenon, <2>1 DEF alloc, Inductive, TypeOK
    <3>2. \A d \in Clients : NotOwning(d)'
      BY Zenon, <3>1 DEF Exact
    <3> QED BY Zenon, <2>0, <3>1, <3>2 DEF Exact
  <2>2. ASSUME NEW c \in Clients, alloc_next(c) PROVE Exact'
    <3>1. UNCHANGED <<bitmap, freeing, owned>> /\ search[c] # None
          /\ \A d \in Clients \ {c} : search'[d] = search[d]
      BY Zenon, <2>2 DEF alloc_next, Inductive, TypeOK
    <3>2. \A d \in Clients : NotOwning(d)'
      BY Zenon, <3>1 DEF Exact
    <3> QED BY Zenon, <2>0, <3>1, <3>2 DEF Exact
  <2>3. ASSUME NEW c \in Clients, alloc_take(c) PROVE Exact'
    BY Zenon, <2>3, TakeExact
  <2>4. ASSUME NEW c \in Clients, free(c) PROVE Exact'
    BY Zenon, <2>4, FreeExact
  <2>5. CASE mark_free
    BY Zenon, <2>5, MarkFreeExact
  <2>6. CASE UNCHANGED vars
    BY Zenon, <2>0, <2>6 DEF vars, Exact
  <2> QED BY <2>1, <2>2, <2>3, <2>4, <2>5, <2>6 DEF Next
<1> QED BY <1>1, <1>2, InductiveAlways, PTL DEF Spec

(* While m_lock is free the levels agree, for every amount of memory and   *)
(* every number of levels and of cores: a bit is set exactly when a page   *)
(* of its group is in use, whatever alloc() and free() have done before.   *)
THEOREM LevelsStayInAgreement ==
    ASSUME PhysicalMemoryAssumption
    PROVE  Spec => []LevelsAgree
<1>1. Inductive /\ Exact => LevelsAgree
  BY Zenon DEF Inductive, Cover, Exact, StillNeeded, LevelsAgree
<1> QED BY <1>1, InductiveAlways, ExactAlways, PTL

----------------------------------------------------------------------------
(* The kernel heap.                                                        *)

(* Behind the bitmap, inside the region, and around what was asked for.    *)
Fits(a) ==
    /\ Meta <= a.first /\ 1 <= a.count /\ a.first + a.count <= block_count
    /\ Address(a.first) <= a.ptr /\ a.ptr + a.size <= Address(a.first + a.count)
    /\ a.ptr % a.align = 0

Apart(a, b) == a.first + a.count <= b.first \/ b.first + b.count <= a.first

(* The blocks next to the allocation have another id.                      *)
Bounded(a, id) == IdAt(a.first - 1) # id /\ IdAt(a.first + a.count) # id

Working == op.kind \in {"alloc", "free"}

(* The operation that holds the lock: what it is about, and how far it is. *)
OpInv ==
    /\ op.kind = "none" => op = Idle
    /\ Working =>
         /\ op.client \in HeapClients /\ op.alloc # Null /\ Fits(op.alloc)
         /\ op.id # 0 /\ op.first = op.alloc.first /\ Bounded(op.alloc, op.id)
         /\ op.i \in op.first .. op.first + op.alloc.count
    /\ op.kind = "alloc" =>
         /\ op.count = op.alloc.count /\ live[op.client] = Null
         /\ \A b \in op.first .. op.i - 1 : ids[b] = op.id
         /\ \A b \in op.i .. op.first + op.count - 1 : ids[b] = 0
    /\ op.kind = "free" =>
         /\ \A b \in op.first .. op.i - 1 : ids[b] = 0
         /\ \A b \in op.i .. op.first + op.alloc.count - 1 : ids[b] = op.id

(* The allocations of the clients.                                         *)
LiveInv ==
    \A c \in HeapClients : live[c] # Null =>
        /\ Fits(live[c])
        /\ ids[live[c].first] # 0 /\ \A b \in BlocksOf(live[c]) : ids[b] = ids[live[c].first]
        /\ Bounded(live[c], ids[live[c].first])
        /\ Working => Apart(live[c], op.alloc)
        /\ \A d \in HeapClients : d # c /\ live[d] # Null => Apart(live[c], live[d])

(* No block is taken but those of the bitmap and of the allocations.       *)
Covered ==
    /\ \A b \in Blocks : b < Meta => ids[b] # 0
    /\ \A b \in Blocks : b >= Meta /\ ids[b] # 0 =>
         \/ \E c \in HeapClients : live[c] # Null /\ b \in BlocksOf(live[c])
         \/ Working /\ b \in BlocksOf(op.alloc)

(* size() counts blocks of the allocation, up to its end.                  *)
QueryInv ==
    \A c \in HeapClients : query[c].at # "no" =>
        /\ live[c] # Null /\ query[c].index = BlockOf(live[c].ptr)
        /\ query[c].id = ids[live[c].first]
        /\ query[c].index + query[c].count <= live[c].first + live[c].count
        /\ query[c].at = "done" =>
             query[c].result = Address(live[c].first + live[c].count) - live[c].ptr

(* The counters, which are behind the bitmap by the blocks that alloc() or *)
(* free() has written.                                                     *)
TakenBlocks == {b \in Blocks : b >= Meta /\ ids[b] # 0}

CountInv ==
    /\ Cardinality(TakenBlocks) = used_blocks - Meta +
         (IF op.kind = "alloc" THEN op.i - op.first
          ELSE IF op.kind = "free" THEN op.first - op.i ELSE 0)
    /\ stats.used = (used_blocks - Meta) * block_size
    /\ stats.free = (block_count - used_blocks) * block_size

HeapInv ==
    /\ HeapTypeOK /\ OpInv /\ LiveInv /\ Covered /\ QueryInv /\ CountInv
    /\ heap_last_alloc >= 1 /\ SpinsOnlyWhenFreed

----------------------------------------------------------------------------
(* The ids of BitmapHeap are told apart: getFreeID() returns an id that is *)
(* neither 0 nor that of a neighbour.                                      *)
LEMMA FreeIdDiffers ==
    ASSUME NEW l \in Ids, NEW r \in Ids
    PROVE  /\ getFreeID(l, r) \in Ids \ {0}
           /\ getFreeID(l, r) # l /\ getFreeID(l, r) # r
BY DEF getFreeID, Ids

(* Rounding up to blocks, as alloc() does, yields at least one block and   *)
(* room for all the bytes.                                                 *)
LEMMA RoundUp ==
    ASSUME NEW x \in Nat \ {0}, NEW d \in Nat \ {0}
    PROVE  /\ (x + d - 1) \div d \in Nat \ {0}
           /\ x <= ((x + d - 1) \div d) * d
OBVIOUS

(* Adding get_aligment_offset() to an address aligns it.                   *)
LEMMA Aligned ==
    ASSUME NEW x \in Nat, NEW d \in Nat \ {0}
    PROVE  /\ get_aligment_offset(x, d) \in Nat
           /\ (x + get_aligment_offset(x, d)) % d = 0
<1>1. CASE d = 1  BY <1>1 DEF get_aligment_offset
<1>2. CASE d # 1
  <2>1. x % d \in 0 .. d - 1  OBVIOUS
  <2>2. (x + (d - (x % d))) % d = 0  OBVIOUS
  <2>3. QED  BY <1>2, <2>1, <2>2 DEF get_aligment_offset
<1>3. QED  BY Zenon, <1>1, <1>2

(* What an allocation consists of.                                         *)
LEMMA AllocationFields ==
    ASSUME NEW a \in Allocation
    PROVE  /\ a.ptr \in Nat /\ a.first \in Nat /\ a.first \in Blocks /\ a.count \in Nat
           /\ a.size \in Nat \ {0} /\ a.align \in Nat \ {0} /\ a # Null
           /\ Base \in Nat /\ block_size \in Nat \ {0} /\ Meta \in Nat /\ 1 < Meta
           /\ block_count \in Nat /\ Meta < block_count
<1>1. /\ a.ptr \in Nat /\ a.first \in Blocks /\ a.count \in Nat
      /\ a.size \in ByteSizes /\ a.align \in Aligns
  BY Zenon DEF Allocation
<1>2. a.size \in Nat \ {0} /\ a.align \in Nat \ {0}  BY <1>1, HeapAssumption, Zenon
<1>3. a.first \in Nat  BY <1>1 DEF Blocks
<1>4. a \in [ptr : Nat, align : Nat, size : Nat, first : Nat, count : Nat]
  BY Zenon, <1>1, <1>2, <1>3 DEF Allocation
<1>5. QED  BY <1>1, <1>2, <1>3, <1>4, HeapAssumption, Zenon

(* The block that free() and size() compute from a pointer is one of the   *)
(* blocks of its allocation, and its remainder is what is missing.         *)
LEMMA BlockOfPointer ==
    ASSUME NEW a \in Allocation, Fits(a)
    PROVE  /\ BlockOf(a.ptr) \in BlocksOf(a) /\ BlockOf(a.ptr) \in Blocks
           /\ a.ptr = Address(BlockOf(a.ptr)) + ((a.ptr - Base) % block_size)
<1> DEFINE x == a.ptr - Base
<1>1. /\ a.ptr \in Nat /\ a.size \in Nat \ {0} /\ a.first \in Nat /\ a.count \in Nat
      /\ Base \in Nat /\ block_size \in Nat \ {0} /\ Meta \in Nat /\ block_count \in Nat
  BY Zenon, AllocationFields
<1>2. /\ Base + a.first * block_size <= a.ptr
      /\ a.ptr + a.size <= Base + (a.first + a.count) * block_size
      /\ a.first + a.count <= block_count /\ Meta <= a.first
  BY Zenon DEF Fits, Address
<1>3. a.first * block_size \in Nat /\ (a.first + a.count) * block_size \in Nat  BY <1>1
<1>4. x \in Nat /\ a.first * block_size <= x /\ x < (a.first + a.count) * block_size
  BY <1>1, <1>2, <1>3
<1> HIDE DEF x
<1>5. x \div block_size \in a.first .. a.first + a.count - 1  BY <1>1, <1>4
<1>6. x = block_size * (x \div block_size) + (x % block_size)  BY <1>1, <1>4
<1>7. a.ptr = Base + x  BY <1>1 DEF x
<1>8. BlockOf(a.ptr) = x \div block_size /\ x % block_size = (a.ptr - Base) % block_size
  BY Zenon DEF BlockOf, x
<1>9. x % block_size \in Nat /\ x \div block_size \in Nat  BY <1>1, <1>4
<1>10. a.ptr = Base + (x \div block_size) * block_size + (x % block_size)
  <2>1. ASSUME NEW q \in Nat, NEW r \in Nat, x = block_size * q + r
        PROVE  Base + x = Base + q * block_size + r
    BY <1>1, <1>4, <2>1
  <2>2. QED  BY Zenon, <1>6, <1>7, <1>9, <2>1
<1>11. QED  BY <1>1, <1>2, <1>5, <1>8, <1>10 DEF BlocksOf, Blocks, Address

(* The walk to the left that free() makes ends at the first block of the   *)
(* allocation.                                                             *)
LEMMA WalkBackFinds ==
    ASSUME HeapTypeOK, NEW a \in Allocation, Fits(a), NEW b \in BlocksOf(a),
           \A j \in BlocksOf(a) : ids[j] = ids[a.first], Bounded(a, ids[a.first])
    PROVE  WalkBack(b) = a.first
<1> DEFINE Ends(k) == /\ \A j \in k .. b : ids[j] = ids[b]
                      /\ k = 0 \/ ids[k - 1] # ids[b]
<1>1. /\ a.first \in Nat \ {0} /\ a.count \in Nat /\ block_count \in Nat /\ b \in Nat
      /\ a.first <= b /\ b < a.first + a.count /\ a.first + a.count <= block_count
      /\ a.first \in Blocks
  BY HeapAssumption DEF Allocation, Blocks, Fits, BlocksOf
<1>2. ids[b] = ids[a.first]  BY Zenon
<1>3. ids[a.first - 1] # ids[b]
  BY <1>1, <1>2 DEF Bounded, IdAt, Blocks
<1>4. Ends(a.first)  BY <1>1, <1>2, <1>3 DEF BlocksOf
<1>5. ASSUME NEW k \in 0 .. b, Ends(k) PROVE k = a.first
  <2>1. k <= a.first
    <3>1. SUFFICES ASSUME a.first < k PROVE FALSE  BY <1>1
    <3>2. k - 1 \in BlocksOf(a)  BY <1>1, <3>1 DEF BlocksOf
    <3>3. QED  BY <1>1, <1>2, <1>5, <3>1, <3>2
  <2>2. a.first <= k
    <3>1. SUFFICES ASSUME k < a.first PROVE FALSE  BY <1>1
    <3>2. a.first - 1 \in k .. b  BY <1>1, <3>1
    <3>3. QED  BY Zenon, <1>3, <1>5, <3>2
  <2>3. QED  BY <1>1, <2>1, <2>2
<1>6. a.first \in 0 .. b  BY <1>1
<1>7. WalkBack(b) = CHOOSE k \in 0 .. b : Ends(k)  BY Zenon DEF WalkBack
<1> HIDE DEF Ends
<1>8. QED  BY Zenon, <1>4, <1>5, <1>6, <1>7

(* What the type invariant says of the operation and of the clients.       *)
LEMMA Fields ==
    ASSUME HeapTypeOK
    PROVE  /\ ids \in [Blocks -> Ids] /\ \A b \in Blocks : ids[b] \in Ids
           /\ \A b \in Int : IdAt(b) \in Ids
           /\ heap_last_alloc \in Blocks /\ used_blocks \in Nat /\ used_blocks <= block_count
           /\ stats.used \in Nat /\ stats.free \in Nat
           /\ \A c \in HeapClients : live[c] # Null => live[c] \in Allocation
           /\ op.kind \in {"none", "alloc", "free", "spin"} /\ op.id \in Ids
           /\ op.first \in Nat /\ op.count \in Nat /\ op.i \in Nat
           /\ op.alloc # Null => op.alloc \in Allocation
           /\ \A c \in HeapClients : /\ query[c].at \in {"no", "count", "done"}
                                     /\ query[c].index \in Nat /\ query[c].id \in Ids
                                     /\ query[c].count \in Nat /\ query[c].result \in Int
<1>1. /\ ids \in [Blocks -> Ids] /\ \A b \in Blocks : ids[b] \in Ids
      /\ stats.used \in Nat /\ stats.free \in Nat
      /\ op.kind \in {"none", "alloc", "free", "spin"} /\ op.id \in Ids
      /\ op.first \in Nat /\ op.count \in Nat /\ op.i \in Nat
      /\ op.alloc \in Allocation \cup {Null}
  BY Zenon DEF HeapTypeOK
<1>2. heap_last_alloc \in Blocks /\ used_blocks \in Nat /\ used_blocks <= block_count
  BY HeapAssumption DEF HeapTypeOK
<1>3. \A c \in HeapClients : live[c] \in Allocation \cup {Null}
  BY Zenon DEF HeapTypeOK
<1>4. \A c \in HeapClients : query[c] \in [at : {"no", "count", "done"}, index : Nat, id : Ids,
                                           count : Nat, result : Int]
  BY Zenon DEF HeapTypeOK
<1>5. \A b \in Int : IdAt(b) \in Ids
  BY <1>1 DEF IdAt, Ids
<1>6. QED  BY Zenon, <1>1, <1>2, <1>3, <1>4, <1>5

(* expand() leaves the heap in a state of the invariant.                   *)
LEMMA HeapInitInv == HeapInit => HeapInv
<1> SUFFICES ASSUME HeapInit PROVE HeapInv  BY Zenon
<1>1. /\ block_count \in Nat /\ Meta \in Nat /\ 1 < Meta /\ Meta < block_count
      /\ block_size \in Nat \ {0} /\ Base \in Nat
  BY Zenon, HeapAssumption
<1>2. op = Idle /\ op.kind = "none" /\ ~Working  BY Zenon DEF HeapInit, Idle, Working
<1>3. Idle \in [kind : {"none", "alloc", "free", "spin"}, client : HeapClients \cup {Null},
                first : Nat, count : Nat, id : Ids, i : Nat, alloc : Allocation \cup {Null}]
  BY DEF Idle, Ids
<1>4. HeapTypeOK
  <2>1. ids \in [Blocks -> Ids]  BY DEF HeapInit, Ids
  <2>2. heap_last_alloc \in Blocks /\ used_blocks \in 0 .. block_count
    BY <1>1 DEF HeapInit, Blocks
  <2>3. (block_count - Meta) * block_size \in Nat  BY <1>1
  <2>4. stats \in [used : Nat, free : Nat]  BY Zenon, <2>3 DEF HeapInit
  <2>5. live \in [HeapClients -> Allocation \cup {Null}]  BY Zenon DEF HeapInit
  <2>6. query \in [HeapClients -> [at : {"no", "count", "done"}, index : Nat, id : Ids,
                                   count : Nat, result : Int]]
    BY DEF HeapInit, NoQuery, Ids
  <2>7. QED  BY <1>2, <1>3, <2>1, <2>2, <2>4, <2>5, <2>6, Zenon DEF HeapTypeOK
<1>5. OpInv  BY <1>2, Zenon DEF OpInv
<1>6. LiveInv  BY Zenon DEF LiveInv, HeapInit
<1>7. Covered  BY <1>1 DEF Covered, HeapInit, Blocks
<1>8. QueryInv  BY Zenon DEF QueryInv, HeapInit, NoQuery
<1>9. CountInv
  <2>1. TakenBlocks = {}  BY <1>1 DEF TakenBlocks, HeapInit, Blocks
  <2>2. Cardinality({}) = 0  BY Zenon, FS_EmptySet
  <2>3. (Meta - Meta) * block_size = 0 /\ Meta - Meta = 0  BY <1>1
  <2>4. QED  BY <1>1, <1>2, <2>1, <2>2, <2>3 DEF CountInv, HeapInit
<1>10. heap_last_alloc >= 1 /\ SpinsOnlyWhenFreed
  BY <1>1, <1>2 DEF HeapInit, SpinsOnlyWhenFreed
<1>11. QED  BY <1>4, <1>5, <1>6, <1>7, <1>8, <1>9, <1>10, Zenon DEF HeapInv

----------------------------------------------------------------------------
(* Where the operation that holds the lock writes next.                    *)
WritesNext(v) ==
    /\ Working /\ op.i < op.first + op.alloc.count
    /\ ids' = [ids EXCEPT ![op.i] = v]
    /\ op' = [op EXCEPT !.i = @ + 1]
    /\ UNCHANGED <<heap_last_alloc, used_blocks, stats, live, query>>

(* What alloc() and free() know of the block they write.                   *)
LEMMA WriteFacts ==
    ASSUME HeapInv, NEW v \in {0, op.id}, WritesNext(v)
    PROVE  /\ op.alloc \in Allocation /\ op.i \in BlocksOf(op.alloc)
           /\ op.i \in Blocks /\ Meta <= op.i /\ op.i \in Nat /\ v \in Ids
           /\ ids' \in [Blocks -> Ids] /\ ids'[op.i] = v
           /\ \A b \in Blocks : b # op.i => ids'[b] = ids[b]
           /\ \A b \in Int : IdAt(b)' = IF b = op.i THEN v ELSE IdAt(b)
           /\ op'.kind = op.kind /\ op'.client = op.client /\ op'.first = op.first
           /\ op'.count = op.count /\ op'.id = op.id /\ op'.i = op.i + 1
           /\ op'.alloc = op.alloc /\ Working'
           /\ HeapTypeOK'
<1>1. /\ HeapTypeOK /\ OpInv /\ Working /\ op.i < op.first + op.alloc.count
      /\ ids' = [ids EXCEPT ![op.i] = v] /\ op' = [op EXCEPT !.i = @ + 1]
      /\ heap_last_alloc' = heap_last_alloc /\ used_blocks' = used_blocks
      /\ stats' = stats /\ live' = live /\ query' = query
  BY Zenon DEF HeapInv, WritesNext
<1>2. /\ op.alloc # Null /\ Fits(op.alloc) /\ op.first = op.alloc.first
      /\ op.i \in op.first .. op.first + op.alloc.count
  BY <1>1, Zenon DEF OpInv
<1>3. /\ op.alloc \in Allocation /\ op.i \in Nat /\ op.first \in Nat /\ op.id \in Ids
      /\ ids \in [Blocks -> Ids]
  BY <1>1, <1>2, Fields, Zenon
<1>4. /\ op.alloc.first \in Nat /\ op.alloc.count \in Nat /\ block_count \in Nat /\ Meta \in Nat
  BY Zenon, <1>3, AllocationFields
<1>5. Meta <= op.alloc.first /\ op.alloc.first + op.alloc.count <= block_count
  BY Zenon, <1>2 DEF Fits
<1>6. op.i \in Blocks /\ Meta <= op.i /\ op.i \in BlocksOf(op.alloc)
  BY <1>1, <1>2, <1>3, <1>4, <1>5 DEF Blocks, BlocksOf
<1>7. v \in Ids  BY <1>3 DEF Ids
<1>8. /\ ids' \in [Blocks -> Ids] /\ ids'[op.i] = v
      /\ \A b \in Blocks : b # op.i => ids'[b] = ids[b]
  BY <1>1, <1>3, <1>6, <1>7, Zenon
<1>9. \A b \in Int : IdAt(b)' = IF b = op.i THEN v ELSE IdAt(b)
  BY Zenon, <1>6, <1>8 DEF IdAt
<1>10. /\ op'.kind = op.kind /\ op'.client = op.client /\ op'.first = op.first
       /\ op'.count = op.count /\ op'.id = op.id /\ op'.i = op.i + 1
       /\ op'.alloc = op.alloc
       /\ op' \in [kind : {"none", "alloc", "free", "spin"}, client : HeapClients \cup {Null},
                   first : Nat, count : Nat, id : Ids, i : Nat, alloc : Allocation \cup {Null}]
  BY <1>1 DEF HeapTypeOK
<1>11. Working'  BY <1>1, <1>10, Zenon DEF Working
<1>12. HeapTypeOK'  BY <1>1, <1>8, <1>10, Zenon DEF HeapTypeOK
<1>13. QED  BY <1>3, <1>6, <1>7, <1>8, <1>9, <1>10, <1>11, <1>12, Zenon

(* A write of alloc() or free() leaves the other allocations as they are,  *)
(* and neither of them gets a block with its own id next to it.            *)
LEMMA WriteKeepsLive ==
    ASSUME HeapInv, NEW v \in {0, op.id}, WritesNext(v)
    PROVE  /\ LiveInv' /\ Bounded(op.alloc, op.id)'
           /\ \A c \in HeapClients :
                live[c] # Null => ids'[live[c].first] = ids[live[c].first]
<1>1. /\ HeapTypeOK /\ OpInv /\ LiveInv /\ Working /\ live' = live
  BY Zenon DEF HeapInv, WritesNext
<1>2. /\ Fits(op.alloc) /\ op.first = op.alloc.first /\ Bounded(op.alloc, op.id)
      /\ op.i \in op.first .. op.first + op.alloc.count /\ op.id # 0
  BY <1>1, Zenon DEF OpInv
<1>3. op.i < op.first + op.alloc.count  BY Zenon DEF WritesNext
<1>4. op.alloc \in Allocation /\ op.i \in Nat /\ Working' /\ op'.alloc = op.alloc /\ op'.id = op.id
  BY WriteFacts, Zenon
<1>5. /\ \A b \in Blocks : b # op.i => ids'[b] = ids[b]
      /\ \A b \in Int : IdAt(b)' = IF b = op.i THEN v ELSE IdAt(b)
  BY WriteFacts, Zenon
<1>6. /\ op.alloc.first \in Nat /\ op.alloc.count \in Nat /\ block_count \in Nat /\ Meta \in Nat
      /\ 1 < Meta
  BY Zenon, <1>4, AllocationFields
<1>7. ASSUME NEW c \in HeapClients, live[c] # Null
      PROVE  /\ Fits(live[c]) /\ ids'[live[c].first] = ids[live[c].first]
             /\ ids'[live[c].first] # 0
             /\ \A b \in BlocksOf(live[c]) : ids'[b] = ids'[live[c].first]
             /\ Bounded(live[c], ids[live[c].first])'
             /\ Apart(live[c], op.alloc)
             /\ \A d \in HeapClients : d # c /\ live[d] # Null => Apart(live[c], live[d])
  <2>1. PICK a : a = live[c]  BY Zenon
  <2>2. /\ Fits(a) /\ ids[a.first] # 0 /\ \A b \in BlocksOf(a) : ids[b] = ids[a.first]
        /\ Bounded(a, ids[a.first]) /\ Apart(a, op.alloc)
        /\ \A d \in HeapClients : d # c /\ live[d] # Null => Apart(a, live[d])
    BY <1>1, <1>7, <2>1, Zenon DEF LiveInv
  <2>3. a \in Allocation  BY <1>1, <1>7, <2>1, Fields, Zenon
  <2>4. a.first \in Nat /\ a.count \in Nat  BY Zenon, <2>3, AllocationFields
  <2>5. Meta <= a.first /\ 1 <= a.count /\ a.first + a.count <= block_count
    BY Zenon, <2>2 DEF Fits
  <2>6. a.first + a.count <= op.alloc.first \/ op.alloc.first + op.alloc.count <= a.first
    BY Zenon, <2>2 DEF Apart
  <2>7. \A b \in BlocksOf(a) : b \in Blocks /\ b # op.i
    BY <1>2, <1>3, <1>4, <1>6, <2>4, <2>5, <2>6 DEF BlocksOf, Blocks
  <2>8. a.first \in BlocksOf(a)  BY <2>4, <2>5 DEF BlocksOf
  <2>9. /\ ids'[a.first] = ids[a.first]
        /\ \A b \in BlocksOf(a) : ids'[b] = ids'[a.first]
    BY <1>5, <2>2, <2>7, <2>8, Zenon
  <2>10. IdAt(a.first - 1)' # ids[a.first]
    <3>1. CASE a.first - 1 # op.i
      BY <1>5, <2>2, <2>4, <3>1 DEF Bounded
    <3>2. CASE a.first - 1 = op.i
      <4>1. op.alloc.first + op.alloc.count = a.first
        BY <1>2, <1>3, <1>4, <1>6, <2>4, <2>5, <2>6, <3>2
      <4>2. IdAt(a.first) # op.id  BY <1>2, <4>1, Zenon DEF Bounded
      <4>3. ids[a.first] # op.id  BY <2>7, <2>8, <4>2, Zenon DEF IdAt
      <4>4. QED  BY <1>4, <1>5, <2>2, <2>4, <3>2, <4>3
    <3>3. QED  BY Zenon, <3>1, <3>2
  <2>11. IdAt(a.first + a.count)' # ids[a.first]
    <3>1. CASE a.first + a.count # op.i
      BY <1>5, <2>2, <2>4, <3>1 DEF Bounded
    <3>2. CASE a.first + a.count = op.i
      <4>1. op.alloc.first - 1 = a.first + a.count - 1 /\ a.first + a.count - 1 \in BlocksOf(a)
        BY <1>2, <1>3, <1>4, <1>6, <2>4, <2>5, <2>6, <3>2 DEF BlocksOf
      <4>2. IdAt(a.first + a.count - 1) # op.id  BY <1>2, <4>1, Zenon DEF Bounded
      <4>3. ids[a.first] # op.id  BY <2>2, <2>7, <4>1, <4>2, Zenon DEF IdAt
      <4>4. QED  BY <1>4, <1>5, <2>2, <2>4, <3>2, <4>3
    <3>3. QED  BY Zenon, <3>1, <3>2
  <2>12. Bounded(a, ids[a.first])'  BY <2>9, <2>10, <2>11, Zenon DEF Bounded
  <2>13. QED  BY <1>1, <2>1, <2>2, <2>9, <2>12, Zenon DEF Bounded
<1>8. LiveInv'
  <2>1. SUFFICES ASSUME NEW c \in HeapClients, live'[c] # Null
        PROVE  /\ Fits(live'[c])
               /\ ids'[live'[c].first] # 0
               /\ \A b \in BlocksOf(live'[c]) : ids'[b] = ids'[live'[c].first]
               /\ Bounded(live[c], ids[live[c].first])'
               /\ Apart(live'[c], op'.alloc)
               /\ \A d \in HeapClients : d # c /\ live'[d] # Null => Apart(live'[c], live'[d])
    BY Zenon DEF LiveInv, Fits, BlocksOf, Apart, Address
  <2>2. QED  BY <1>1, <1>4, <1>7, <2>1, Zenon
<1>9. Bounded(op.alloc, op.id)'
  <2>1. op.alloc.first - 1 # op.i /\ op.alloc.first + op.alloc.count # op.i
    BY <1>2, <1>3, <1>4, <1>6
  <2>2. op.alloc.first - 1 \in Int /\ op.alloc.first + op.alloc.count \in Int  BY <1>6
  <2>3. QED  BY <1>2, <1>4, <1>5, <2>1, <2>2, Zenon DEF Bounded
<1>10. QED  BY <1>7, <1>8, <1>9, Zenon

(* ... and what is said of the bitmap, of size() and of the last           *)
(* allocation.                                                             *)
LEMMA WriteKeepsRest ==
    ASSUME HeapInv, NEW v \in {0, op.id}, WritesNext(v)
    PROVE  Covered' /\ QueryInv' /\ (heap_last_alloc >= 1)' /\ SpinsOnlyWhenFreed'
<1>1. /\ HeapTypeOK /\ Covered /\ QueryInv /\ Working /\ heap_last_alloc >= 1
      /\ live' = live /\ query' = query /\ heap_last_alloc' = heap_last_alloc
  BY Zenon DEF HeapInv, WritesNext
<1>2. /\ op.i \in BlocksOf(op.alloc) /\ op.i \in Blocks /\ Meta <= op.i /\ op.i \in Nat
      /\ \A b \in Blocks : b # op.i => ids'[b] = ids[b]
      /\ Working' /\ op'.alloc = op.alloc /\ op'.kind = op.kind
  BY WriteFacts, Zenon
<1>3. Meta \in Nat /\ block_count \in Nat  BY Zenon, HeapAssumption
<1>4. Covered'
  <2>1. ASSUME NEW b \in Blocks, b < Meta PROVE ids'[b] # 0
    <3>1. b # op.i  BY <1>2, <1>3, <2>1 DEF Blocks
    <3>2. ids[b] # 0  BY <1>1, <2>1, Zenon DEF Covered
    <3>3. QED  BY <1>2, <3>1, <3>2, Zenon
  <2>2. ASSUME NEW b \in Blocks, b >= Meta, ids'[b] # 0
        PROVE  \/ \E c \in HeapClients : live[c] # Null /\ b \in BlocksOf(live[c])
               \/ b \in BlocksOf(op.alloc)
    <3>1. CASE b = op.i  BY <1>2, <3>1, Zenon
    <3>2. CASE b # op.i
      <4>1. ids[b] # 0  BY <1>2, <2>2, <3>2, Zenon
      <4>2. QED  BY <1>1, <2>2, <4>1, Zenon DEF Covered
    <3>3. QED  BY Zenon, <3>1, <3>2
  <2>3. \A b : b \in BlocksOf(op.alloc) => b \in BlocksOf(op.alloc)'
    BY <1>2, Zenon DEF BlocksOf
  <2>4. \A b, c : b \in BlocksOf(live[c]) => b \in BlocksOf(live'[c])
    BY <1>1, Zenon DEF BlocksOf
  <2>5. QED  BY <1>1, <1>2, <2>1, <2>2, <2>3, <2>4, Zenon DEF Covered, BlocksOf
<1>5. QueryInv'
  <2>1. ASSUME NEW c \in HeapClients, query[c].at # "no"
        PROVE  ids'[live[c].first] = ids[live[c].first]
    BY <1>1, <2>1, WriteKeepsLive, Zenon DEF QueryInv
  <2>2. QED  BY <1>1, <2>1, Zenon DEF QueryInv, BlockOf, Address
<1>6. SpinsOnlyWhenFreed'  BY Zenon, <1>2 DEF SpinsOnlyWhenFreed, Working
<1>7. QED  BY <1>1, <1>4, <1>5, <1>6, Zenon

(* The blocks that are taken are finitely many, and fewer than those       *)
(* behind the bitmap.                                                      *)
LEMMA TakenFinite ==
    /\ IsFiniteSet(TakenBlocks) /\ Cardinality(TakenBlocks) \in Nat
    /\ Cardinality(TakenBlocks) <= block_count - Meta
<1>1. block_count \in Nat /\ Meta \in Nat /\ Meta < block_count  BY Zenon, HeapAssumption
<1>2. /\ IsFiniteSet(Meta .. block_count - 1)
      /\ Cardinality(Meta .. block_count - 1) =
           IF Meta > block_count - 1 THEN 0 ELSE block_count - 1 - Meta + 1
  BY <1>1, FS_Interval
<1>3. TakenBlocks \subseteq Meta .. block_count - 1  BY <1>1 DEF TakenBlocks, Blocks
<1>4. /\ IsFiniteSet(TakenBlocks)
      /\ Cardinality(TakenBlocks) <= Cardinality(Meta .. block_count - 1)
  BY <1>2, <1>3, FS_Subset, Zenon
<1>5. Cardinality(TakenBlocks) \in Nat  BY Zenon, <1>4, FS_CardinalityType
<1>6. QED  BY <1>1, <1>2, <1>4, <1>5

(* Writing an id or a 0 changes the number of taken blocks by one.         *)
LEMMA WriteCounts ==
    ASSUME HeapInv, NEW v \in {0, op.id}, WritesNext(v)
    PROVE  /\ v # 0 /\ ids[op.i] = 0 =>
                Cardinality(TakenBlocks') = Cardinality(TakenBlocks) + 1
           /\ v = 0 /\ ids[op.i] # 0 =>
                Cardinality(TakenBlocks') = Cardinality(TakenBlocks) - 1
<1>1. /\ op.i \in Blocks /\ Meta <= op.i /\ op.i \in Nat /\ ids'[op.i] = v
      /\ \A b \in Blocks : b # op.i => ids'[b] = ids[b]
  BY WriteFacts, Zenon
<1>2. IsFiniteSet(TakenBlocks) /\ Cardinality(TakenBlocks) \in Nat  BY Zenon, TakenFinite
<1>3. ASSUME v # 0, ids[op.i] = 0
      PROVE  Cardinality(TakenBlocks') = Cardinality(TakenBlocks) + 1
  <2>1. TakenBlocks' = TakenBlocks \cup {op.i}  BY Zenon, <1>1, <1>3 DEF TakenBlocks
  <2>2. op.i \notin TakenBlocks  BY Zenon, <1>3 DEF TakenBlocks
  <2>3. QED  BY Zenon, <1>2, <2>1, <2>2, FS_AddElement
<1>4. ASSUME v = 0, ids[op.i] # 0
      PROVE  Cardinality(TakenBlocks') = Cardinality(TakenBlocks) - 1
  <2>1. TakenBlocks' = TakenBlocks \ {op.i}  BY Zenon, <1>1, <1>4 DEF TakenBlocks
  <2>2. op.i \in TakenBlocks  BY Zenon, <1>1, <1>4 DEF TakenBlocks
  <2>3. QED  BY Zenon, <1>2, <2>1, <2>2, FS_RemoveElement
<1>5. QED  BY Zenon, <1>3, <1>4

(* alloc() gives its next block the id.                                    *)
LEMMA AllocSetKeeps == HeapInv /\ alloc_set => HeapInv'
<1> SUFFICES ASSUME HeapInv, alloc_set PROVE HeapInv'  BY Zenon
<1>1. /\ HeapTypeOK /\ OpInv /\ CountInv /\ op.kind = "alloc" /\ op.i < op.first + op.count
      /\ used_blocks' = used_blocks /\ stats' = stats /\ live' = live
  BY Zenon DEF HeapInv, alloc_set
<1>2. Working  BY Zenon, <1>1 DEF Working
<1>3. /\ op.client \in HeapClients /\ op.alloc # Null /\ Fits(op.alloc) /\ op.id # 0
      /\ op.first = op.alloc.first /\ op.i \in op.first .. op.first + op.alloc.count
  BY <1>1, <1>2, Zenon DEF OpInv
<1>4. /\ op.count = op.alloc.count /\ live[op.client] = Null
      /\ \A b \in op.first .. op.i - 1 : ids[b] = op.id
      /\ \A b \in op.i .. op.first + op.count - 1 : ids[b] = 0
  BY <1>1, Zenon DEF OpInv
<1>5. WritesNext(op.id)  BY <1>1, <1>2, <1>4, Zenon DEF WritesNext, alloc_set
<1>6. /\ op.i \in Blocks /\ ids'[op.i] = op.id
      /\ \A b \in Blocks : b # op.i => ids'[b] = ids[b]
      /\ op'.kind = op.kind /\ op'.client = op.client /\ op'.first = op.first
      /\ op'.count = op.count /\ op'.id = op.id /\ op'.i = op.i + 1
      /\ op'.alloc = op.alloc /\ Working' /\ HeapTypeOK'
  BY <1>5, WriteFacts, Zenon
<1>7. LiveInv' /\ Bounded(op.alloc, op.id)'  BY <1>5, WriteKeepsLive, Zenon
<1>8. Covered' /\ QueryInv' /\ (heap_last_alloc >= 1)' /\ SpinsOnlyWhenFreed'
  BY <1>5, WriteKeepsRest, Zenon
<1>9. op.i \in Nat /\ op.first \in Nat /\ op.count \in Nat /\ used_blocks \in Nat
  BY Zenon, <1>1, Fields
<1>10. Meta \in Nat /\ block_count \in Nat /\ op.alloc.first + op.alloc.count <= block_count
  BY Zenon, <1>3, HeapAssumption DEF Fits
<1>11. /\ \A b \in op.first .. op.i : ids'[b] = op.id
       /\ \A b \in op.i + 1 .. op.first + op.count - 1 : ids'[b] = 0
       /\ op.i + 1 \in op.first .. op.first + op.count
  BY <1>1, <1>3, <1>4, <1>6, <1>9, <1>10 DEF Blocks
<1>12. OpInv'
  <2>1. Fits(op.alloc)'  BY <1>3, <1>6, Zenon DEF Fits, Address
  <2>2. op'.i - 1 = op.i  BY <1>6, <1>9
  <2>3. op'.kind # "none" /\ op'.kind # "free"  BY Zenon, <1>1, <1>6
  <2>4. QED
    BY <1>1, <1>3, <1>4, <1>6, <1>7, <1>11, <2>1, <2>2, <2>3, Zenon DEF OpInv
<1>13. CountInv'
  <2>1. ids[op.i] = 0  BY <1>1, <1>4, <1>9
  <2>2. Cardinality(TakenBlocks') = Cardinality(TakenBlocks) + 1
    BY <1>3, <1>5, <2>1, WriteCounts, Zenon
  <2>3. Cardinality(TakenBlocks) = used_blocks - Meta + (op.i - op.first)
    BY Zenon, <1>1 DEF CountInv
  <2>4. Cardinality(TakenBlocks') = used_blocks - Meta + ((op.i + 1) - op.first)
    BY <1>9, <1>10, <2>2, <2>3
  <2>5. /\ op'.kind = "alloc" /\ op'.i = op.i + 1 /\ op'.first = op.first
        /\ used_blocks' = used_blocks
    BY <1>1, <1>6, Zenon
  <2>6. /\ stats'.used = (used_blocks' - Meta) * block_size
        /\ stats'.free = (block_count - used_blocks') * block_size
    BY <1>1, Zenon DEF CountInv
  <2>7. Cardinality(TakenBlocks') = used_blocks' - Meta +
          (IF op'.kind = "alloc" THEN op'.i - op'.first
           ELSE IF op'.kind = "free" THEN op'.first - op'.i ELSE 0)
    BY Zenon, <2>4, <2>5
  <2>8. QED  BY <2>6, <2>7, Zenon DEF CountInv
<1>14. QED  BY <1>6, <1>7, <1>8, <1>12, <1>13, Zenon DEF HeapInv

(* free() clears its next block.                                           *)
LEMMA FreeClearKeeps == HeapInv /\ free_clear => HeapInv'
<1> SUFFICES ASSUME HeapInv, free_clear PROVE HeapInv'  BY Zenon
<1>1. /\ HeapTypeOK /\ OpInv /\ CountInv /\ op.kind = "free" /\ Continues(op.i, op.id)
      /\ used_blocks' = used_blocks /\ stats' = stats /\ live' = live
  BY Zenon DEF HeapInv, free_clear
<1>2. Working  BY Zenon, <1>1 DEF Working
<1>3. /\ op.client \in HeapClients /\ op.alloc # Null /\ Fits(op.alloc) /\ op.id # 0
      /\ op.first = op.alloc.first /\ op.i \in op.first .. op.first + op.alloc.count
      /\ Bounded(op.alloc, op.id)
  BY <1>1, <1>2, Zenon DEF OpInv
<1>4. /\ \A b \in op.first .. op.i - 1 : ids[b] = 0
      /\ \A b \in op.i .. op.first + op.alloc.count - 1 : ids[b] = op.id
  BY <1>1, Zenon DEF OpInv
<1>5. op.i \in Nat /\ op.first \in Nat /\ used_blocks \in Nat /\ op.alloc \in Allocation
  BY Zenon, <1>1, <1>3, Fields
<1>6. /\ Meta \in Nat /\ block_count \in Nat /\ op.alloc.first + op.alloc.count <= block_count
      /\ op.alloc.count \in Nat
  BY Zenon, <1>3, <1>5, HeapAssumption, AllocationFields DEF Fits
<1>7. op.i < op.first + op.alloc.count
  <2>1. op.i # op.first + op.alloc.count
    BY <1>1, <1>3, Zenon DEF Bounded, Continues, IdAt
  <2>2. QED  BY <1>3, <1>5, <1>6, <2>1
<1>8. WritesNext(0)  BY <1>1, <1>2, <1>7, Zenon DEF WritesNext, free_clear
<1>9. /\ op.i \in Blocks /\ ids'[op.i] = 0
      /\ \A b \in Blocks : b # op.i => ids'[b] = ids[b]
      /\ op'.kind = op.kind /\ op'.client = op.client /\ op'.first = op.first
      /\ op'.count = op.count /\ op'.id = op.id /\ op'.i = op.i + 1
      /\ op'.alloc = op.alloc /\ Working' /\ HeapTypeOK'
  BY <1>8, WriteFacts, Zenon
<1>10. LiveInv' /\ Bounded(op.alloc, op.id)'  BY <1>8, WriteKeepsLive, Zenon
<1>11. Covered' /\ QueryInv' /\ (heap_last_alloc >= 1)' /\ SpinsOnlyWhenFreed'
  BY <1>8, WriteKeepsRest, Zenon
<1>12. /\ \A b \in op.first .. op.i : ids'[b] = 0
       /\ \A b \in op.i + 1 .. op.first + op.alloc.count - 1 : ids'[b] = op.id
       /\ op.i + 1 \in op.first .. op.first + op.alloc.count
  BY <1>3, <1>4, <1>5, <1>6, <1>7, <1>9 DEF Blocks
<1>13. OpInv'
  <2>1. Fits(op.alloc)'  BY <1>3, <1>9, Zenon DEF Fits, Address
  <2>2. op'.i - 1 = op.i  BY <1>5, <1>9
  <2>3. op'.kind # "none" /\ op'.kind # "alloc"  BY Zenon, <1>1, <1>9
  <2>4. QED
    BY <1>1, <1>3, <1>9, <1>10, <1>12, <2>1, <2>2, <2>3, Zenon DEF OpInv
<1>14. CountInv'
  <2>1. ids[op.i] # 0  BY Zenon, <1>1, <1>3 DEF Continues
  <2>2. Cardinality(TakenBlocks') = Cardinality(TakenBlocks) - 1
    BY <1>8, <2>1, WriteCounts, Zenon
  <2>3. Cardinality(TakenBlocks) = used_blocks - Meta + (op.first - op.i)
    BY Zenon, <1>1 DEF CountInv
  <2>4. Cardinality(TakenBlocks') = used_blocks - Meta + (op.first - (op.i + 1))
    BY <1>5, <1>6, <2>2, <2>3
  <2>5. /\ op'.kind = "free" /\ op'.i = op.i + 1 /\ op'.first = op.first
        /\ used_blocks' = used_blocks
    BY <1>1, <1>9, Zenon
  <2>6. /\ stats'.used = (used_blocks' - Meta) * block_size
        /\ stats'.free = (block_count - used_blocks') * block_size
    BY <1>1, Zenon DEF CountInv
  <2>7. Cardinality(TakenBlocks') = used_blocks' - Meta +
          (IF op'.kind = "alloc" THEN op'.i - op'.first
           ELSE IF op'.kind = "free" THEN op'.first - op'.i ELSE 0)
    BY Zenon, <2>4, <2>5
  <2>8. QED  BY <2>6, <2>7, Zenon DEF CountInv
<1>15. QED  BY <1>9, <1>10, <1>11, <1>13, <1>14, Zenon DEF HeapInv

(* Idle is an operation of the type, and not a working one.                *)
LEMMA IdleOp ==
    /\ Idle \in [kind : {"none", "alloc", "free", "spin"}, client : HeapClients \cup {Null},
                 first : Nat, count : Nat, id : Ids, i : Nat, alloc : Allocation \cup {Null}]
    /\ Idle.kind = "none"
BY DEF Idle, Ids

(* Multiplying by the block size distributes over the counters.            *)
LEMMA Distributes ==
    ASSUME NEW x \in Int, NEW y \in Int, NEW z \in Int
    PROVE  /\ x * z + y * z = (x + y) * z /\ x * z - y * z = (x - y) * z
           /\ x * z \in Int /\ (x \in Nat /\ z \in Nat => x * z \in Nat)
OBVIOUS

(* What is to be shown of the allocations of the clients after a step that *)
(* leaves the bitmap alone.                                                *)
LEMMA LiveInvNext ==
    ASSUME ids' = ids,
           \A c \in HeapClients : \A x : live'[c] = x /\ x # Null =>
               /\ Fits(x) /\ ids[x.first] # 0 /\ \A b \in BlocksOf(x) : ids[b] = ids[x.first]
               /\ Bounded(x, ids[x.first]) /\ (Working' => Apart(x, op'.alloc))
               /\ \A d \in HeapClients : d # c /\ live'[d] # Null => Apart(x, live'[d])
    PROVE  LiveInv'
<1>1. SUFFICES ASSUME NEW c \in HeapClients, live'[c] # Null
      PROVE  /\ Fits(live'[c])
             /\ ids'[live'[c].first] # 0
             /\ \A b \in BlocksOf(live'[c]) : ids'[b] = ids'[live'[c].first]
             /\ Bounded(live[c], ids[live[c].first])'
             /\ Working' => Apart(live'[c], op'.alloc)
             /\ \A d \in HeapClients : d # c /\ live'[d] # Null => Apart(live'[c], live'[d])
  BY Zenon DEF LiveInv, Fits, BlocksOf, Apart, Address
<1>2. PICK x : x = live'[c]  BY Zenon
<1>3. Bounded(x, ids[x.first])  BY <1>1, <1>2, Zenon
<1>4. Bounded(live[c], ids[live[c].first])'  BY <1>2, <1>3, Zenon DEF Bounded, IdAt
<1>5. QED  BY <1>1, <1>4, Zenon

(* Nothing of it changes when the bitmap, the clients and the operation    *)
(* stay as they are.                                                       *)
LEMMA LiveUnchanged ==
    ASSUME LiveInv, ids' = ids, live' = live, op' = op
    PROVE  LiveInv'
<1>1. Working' <=> Working  BY Zenon DEF Working
<1>2. ASSUME NEW c \in HeapClients, NEW x, live'[c] = x, x # Null
      PROVE  /\ Fits(x) /\ ids[x.first] # 0 /\ \A b \in BlocksOf(x) : ids[b] = ids[x.first]
             /\ Bounded(x, ids[x.first]) /\ (Working' => Apart(x, op'.alloc))
             /\ \A d \in HeapClients : d # c /\ live'[d] # Null => Apart(x, live'[d])
  <2>1. live[c] = x  BY <1>2, Zenon
  <2>2. /\ Fits(x) /\ ids[x.first] # 0 /\ \A b \in BlocksOf(x) : ids[b] = ids[x.first]
        /\ Bounded(x, ids[x.first]) /\ (Working => Apart(x, op.alloc))
        /\ \A d \in HeapClients : d # c /\ live[d] # Null => Apart(x, live[d])
    BY <1>2, <2>1, Zenon DEF LiveInv
  <2>3. QED  BY <1>1, <2>2, Zenon
<1>3. QED  BY <1>2, LiveInvNext, Zenon

(* alloc() hands its allocation to the client.                             *)
LEMMA AllocReturnKeeps == HeapInv /\ alloc_return => HeapInv'
<1> SUFFICES ASSUME HeapInv, alloc_return PROVE HeapInv'  BY Zenon
<1> DEFINE a == op.alloc
<1>1. /\ HeapTypeOK /\ OpInv /\ LiveInv /\ Covered /\ QueryInv /\ CountInv
      /\ op.kind = "alloc" /\ op.i = op.first + op.count
      /\ heap_last_alloc' = op.first + op.count - 1 /\ used_blocks' = used_blocks + op.count
      /\ stats' = [used |-> stats.used + op.count * block_size,
                   free |-> stats.free - op.count * block_size]
      /\ live' = [live EXCEPT ![op.client] = a] /\ op' = Idle
      /\ ids' = ids /\ query' = query
  BY Zenon DEF HeapInv, alloc_return
<1>2. Working  BY Zenon, <1>1 DEF Working
<1>3. /\ op.client \in HeapClients /\ a # Null /\ Fits(a) /\ op.id # 0
      /\ op.first = a.first /\ Bounded(a, op.id)
  BY <1>1, <1>2, Zenon DEF OpInv
<1>4. /\ op.count = a.count /\ live[op.client] = Null
      /\ \A b \in op.first .. op.i - 1 : ids[b] = op.id
  BY <1>1, Zenon DEF OpInv
<1>5. /\ a \in Allocation /\ used_blocks \in Nat /\ ids \in [Blocks -> Ids]
      /\ stats.used \in Nat /\ stats.free \in Nat /\ op.first \in Nat
  BY Zenon, <1>1, <1>3, Fields
<1>6. /\ a.first \in Nat /\ a.count \in Nat /\ block_count \in Nat /\ Meta \in Nat /\ 1 < Meta
      /\ block_size \in Nat \ {0}
  BY Zenon, <1>5, AllocationFields
<1>7. Meta <= a.first /\ 1 <= a.count /\ a.first + a.count <= block_count  BY Zenon, <1>3 DEF Fits
<1>8. op'.kind = "none" /\ ~Working'  BY Zenon, <1>1, IdleOp DEF Working
<1>9. /\ live'[op.client] = a
      /\ \A c \in HeapClients : c # op.client => live'[c] = live[c]
      /\ live' \in [HeapClients -> Allocation \cup {Null}]
  BY <1>1, <1>3, <1>5, Zenon DEF HeapTypeOK
<1> HIDE DEF a
<1>10. ids[a.first] = op.id /\ \A b \in BlocksOf(a) : ids[b] = ids[a.first]
  BY <1>1, <1>3, <1>4, <1>6, <1>7 DEF BlocksOf
<1>11. CountInv' /\ HeapTypeOK'
  <2>1. Cardinality(TakenBlocks) = used_blocks - Meta + a.count
    BY <1>1, <1>3, <1>4, <1>6 DEF CountInv
  <2>2. TakenBlocks' = TakenBlocks  BY <1>1, Zenon DEF TakenBlocks
  <2>3. used_blocks' \in 0 .. block_count
    BY <1>1, <1>4, <1>5, <1>6, <2>1, TakenFinite
  <2>4. stats.used = (used_blocks - Meta) * block_size
        /\ stats.free = (block_count - used_blocks) * block_size
    BY Zenon, <1>1 DEF CountInv
  <2>5. /\ stats'.used = (used_blocks - Meta) * block_size + a.count * block_size
        /\ stats'.free = (block_count - used_blocks) * block_size - a.count * block_size
    BY Zenon, <1>1, <1>4, <2>4
  <2>6. /\ stats'.used = (used_blocks - Meta + a.count) * block_size
        /\ stats'.free = (block_count - used_blocks - a.count) * block_size
    BY <1>5, <1>6, <2>5, Distributes
  <2>7. /\ used_blocks' - Meta = used_blocks - Meta + a.count
        /\ block_count - used_blocks' = block_count - used_blocks - a.count
        /\ block_count - used_blocks' \in Nat
    BY <1>1, <1>4, <1>5, <1>6, <2>3
  <2>8. /\ stats'.used = (used_blocks' - Meta) * block_size
        /\ stats'.free = (block_count - used_blocks') * block_size
    BY <2>6, <2>7, Zenon
  <2>9. stats'.free \in Nat  BY <1>6, <2>7, <2>8
  <2>10. stats'.used \in Nat
    BY <1>1, <1>4, <1>5, <1>6
  <2>11. stats' \in [used : Nat, free : Nat]  BY Zenon, <1>1, <2>9, <2>10
  <2>12. heap_last_alloc' \in Blocks  BY <1>1, <1>3, <1>4, <1>6, <1>7 DEF Blocks
  <2>13. HeapTypeOK'
    BY <1>1, <1>9, <2>3, <2>11, <2>12, IdleOp, Zenon DEF HeapTypeOK
  <2>14. Cardinality(TakenBlocks') = used_blocks' - Meta + 0
    BY <1>1, <1>4, <1>5, <1>6, <2>1, <2>2, <2>7
  <2>15. QED  BY Zenon, <1>8, <2>8, <2>13, <2>14 DEF CountInv
<1>12. LiveInv'
  <2>1. ASSUME NEW c \in HeapClients, NEW x, live'[c] = x, x # Null
        PROVE  /\ Fits(x) /\ ids[x.first] # 0 /\ \A b \in BlocksOf(x) : ids[b] = ids[x.first]
               /\ Bounded(x, ids[x.first])
               /\ \A d \in HeapClients : d # c /\ live'[d] # Null => Apart(x, live'[d])
    <3>1. CASE c = op.client
      <4>1. x = a  BY <1>9, <2>1, <3>1, Zenon
      <4>2. ASSUME NEW d \in HeapClients, d # c, live'[d] # Null PROVE Apart(a, live'[d])
        <5>1. live'[d] = live[d]  BY <1>9, <3>1, <4>2, Zenon
        <5>2. Apart(live[d], a)  BY <1>1, <1>2, <4>2, <5>1, Zenon DEF LiveInv, a
        <5>3. QED  BY <5>1, <5>2, Zenon DEF Apart
      <4>3. QED  BY <1>3, <1>10, <4>1, <4>2, Zenon
    <3>2. CASE c # op.client
      <4>1. x = live[c]  BY <1>9, <2>1, <3>2, Zenon
      <4>2. /\ Fits(x) /\ ids[x.first] # 0 /\ \A b \in BlocksOf(x) : ids[b] = ids[x.first]
            /\ Bounded(x, ids[x.first]) /\ Apart(x, a)
            /\ \A d \in HeapClients : d # c /\ live[d] # Null => Apart(x, live[d])
        BY <1>1, <1>2, <2>1, <4>1, Zenon DEF LiveInv, a
      <4>3. QED  BY <1>9, <4>2, Zenon
    <3>3. QED  BY Zenon, <3>1, <3>2
  <2>2. QED  BY <1>1, <1>8, <2>1, LiveInvNext, Zenon
<1>13. Covered'
  <2>1. \A b \in Blocks : b < Meta => ids[b] # 0  BY <1>1, Zenon DEF Covered
  <2>2. ASSUME NEW b \in Blocks, b >= Meta, ids[b] # 0
        PROVE  \E c \in HeapClients : live'[c] # Null /\ b \in BlocksOf(live'[c])
    <3>1. \/ \E c \in HeapClients : live[c] # Null /\ b \in BlocksOf(live[c])
          \/ b \in BlocksOf(a)
      BY <1>1, <2>2, Zenon DEF Covered, a
    <3>2. QED  BY <1>3, <1>4, <1>9, <3>1, Zenon
  <2>3. QED  BY <1>1, <2>1, <2>2, Zenon DEF Covered, BlocksOf
<1>14. QueryInv'
  <2>1. \A c \in HeapClients : query[c].at # "no" => live'[c] = live[c]
    BY <1>1, <1>4, <1>9, Zenon DEF QueryInv
  <2>2. QED  BY <1>1, <2>1, Zenon DEF QueryInv, BlockOf, Address
<1>15. OpInv' /\ SpinsOnlyWhenFreed' /\ (heap_last_alloc >= 1)'
  BY <1>1, <1>3, <1>4, <1>6, <1>7, <1>8 DEF OpInv, SpinsOnlyWhenFreed
<1>16. QED  BY <1>11, <1>12, <1>13, <1>14, <1>15, Zenon DEF HeapInv

(* free() has cleared exactly the blocks of its allocation.                *)
LEMMA FreeEnds ==
    ASSUME HeapInv, op.kind = "free"
    PROVE  /\ op.i <= op.alloc.first + op.alloc.count
           /\ ~Continues(op.i, op.id) => op.i = op.alloc.first + op.alloc.count
<1>1. HeapTypeOK /\ OpInv /\ Working  BY Zenon DEF HeapInv, Working
<1>2. /\ op.alloc # Null /\ Fits(op.alloc)
      /\ op.first = op.alloc.first /\ op.i \in op.first .. op.first + op.alloc.count
      /\ \A b \in op.i .. op.first + op.alloc.count - 1 : ids[b] = op.id
  BY <1>1, Zenon DEF OpInv
<1>3. op.i \in Nat /\ op.alloc \in Allocation  BY <1>1, <1>2, Fields, Zenon
<1>4. op.alloc.first \in Nat /\ op.alloc.count \in Nat /\ block_count \in Nat
  BY Zenon, <1>3, AllocationFields
<1>5. op.alloc.first + op.alloc.count <= block_count  BY Zenon, <1>2 DEF Fits
<1>6. QED  BY <1>2, <1>3, <1>4, <1>5 DEF Continues, Blocks

(* free() lets go of its allocation.                                       *)
LEMMA FreeReturnKeeps == HeapInv /\ free_return => HeapInv'
<1> SUFFICES ASSUME HeapInv, free_return PROVE HeapInv'  BY Zenon
<1> DEFINE n == op.i - op.first
<1>1. /\ HeapTypeOK /\ OpInv /\ LiveInv /\ Covered /\ QueryInv /\ CountInv
      /\ op.kind = "free" /\ ~Continues(op.i, op.id) /\ used_blocks' = used_blocks - n
      /\ stats' = [used |-> stats.used - n * block_size, free |-> stats.free + n * block_size]
      /\ op' = Idle /\ ids' = ids /\ query' = query /\ live' = live
      /\ heap_last_alloc' = heap_last_alloc /\ heap_last_alloc >= 1
  BY Zenon DEF HeapInv, free_return
<1>2. Working  BY Zenon, <1>1 DEF Working
<1>3. op.first = op.alloc.first /\ op.i \in op.first .. op.first + op.alloc.count
      /\ op.alloc # Null /\ \A b \in op.first .. op.i - 1 : ids[b] = 0
  BY <1>1, <1>2, Zenon DEF OpInv
<1>4. op.i = op.alloc.first + op.alloc.count  BY <1>1, FreeEnds, Zenon
<1>5. /\ used_blocks \in Nat /\ stats.used \in Nat /\ stats.free \in Nat
      /\ op.first \in Nat /\ op.i \in Nat
  BY Zenon, <1>1, Fields
<1>6. block_count \in Nat /\ Meta \in Nat /\ block_size \in Nat \ {0}  BY Zenon, HeapAssumption
<1>7. n \in Nat  BY <1>3, <1>5
<1>8. op'.kind = "none" /\ ~Working'  BY Zenon, <1>1, IdleOp DEF Working
<1> HIDE DEF n
<1>9. CountInv' /\ HeapTypeOK'
  <2>1. Cardinality(TakenBlocks) = used_blocks - Meta - n
    BY <1>1, <1>5, <1>6 DEF CountInv, n
  <2>2. TakenBlocks' = TakenBlocks  BY <1>1, Zenon DEF TakenBlocks
  <2>3. used_blocks' \in 0 .. block_count /\ used_blocks' - Meta \in Nat
    BY <1>1, <1>5, <1>6, <1>7, <2>1, TakenFinite
  <2>4. stats.used = (used_blocks - Meta) * block_size
        /\ stats.free = (block_count - used_blocks) * block_size
    BY Zenon, <1>1 DEF CountInv
  <2>5. /\ stats'.used = (used_blocks - Meta) * block_size - n * block_size
        /\ stats'.free = (block_count - used_blocks) * block_size + n * block_size
    BY Zenon, <1>1, <2>4
  <2>6. /\ stats'.used = (used_blocks - Meta - n) * block_size
        /\ stats'.free = (block_count - used_blocks + n) * block_size
    BY <1>5, <1>6, <1>7, <2>5, Distributes
  <2>7. /\ used_blocks' - Meta = used_blocks - Meta - n
        /\ block_count - used_blocks' = block_count - used_blocks + n
        /\ block_count - used_blocks' \in Nat
    BY <1>1, <1>5, <1>6, <1>7, <2>3
  <2>8. /\ stats'.used = (used_blocks' - Meta) * block_size
        /\ stats'.free = (block_count - used_blocks') * block_size
    BY <2>6, <2>7, Zenon
  <2>9. stats'.free \in Nat /\ stats'.used \in Nat
    <3>1. \A x \in Nat : x * block_size \in Nat  BY <1>6
    <3>2. QED  BY <2>3, <2>7, <2>8, <3>1, Zenon
  <2>10. stats' \in [used : Nat, free : Nat]  BY Zenon, <1>1, <2>9
  <2>11. HeapTypeOK'  BY <1>1, <2>3, <2>10, IdleOp, Zenon DEF HeapTypeOK
  <2>12. Cardinality(TakenBlocks') = used_blocks' - Meta + 0
    BY <1>5, <1>6, <2>1, <2>2, <2>3, <2>7
  <2>13. QED  BY Zenon, <1>8, <2>8, <2>11, <2>12 DEF CountInv
<1>10. LiveInv'
  <2>1. ASSUME NEW c \in HeapClients, NEW x, live'[c] = x, x # Null
        PROVE  /\ Fits(x) /\ ids[x.first] # 0 /\ \A b \in BlocksOf(x) : ids[b] = ids[x.first]
               /\ Bounded(x, ids[x.first])
               /\ \A d \in HeapClients : d # c /\ live'[d] # Null => Apart(x, live'[d])
    BY <1>1, <2>1, Zenon DEF LiveInv
  <2>2. QED  BY <1>1, <1>8, <2>1, LiveInvNext, Zenon
<1>11. Covered'
  <2>1. \A b \in BlocksOf(op.alloc) : ids[b] = 0
    <3>1. op.alloc \in Allocation  BY <1>1, <1>3, Fields, Zenon
    <3>2. op.alloc.first \in Nat /\ op.alloc.count \in Nat  BY Zenon, <3>1, AllocationFields
    <3>3. QED  BY <1>3, <1>4, <3>2 DEF BlocksOf
  <2>2. QED  BY <1>1, <2>1, Zenon DEF Covered, BlocksOf
<1>12. QueryInv'  BY <1>1, Zenon DEF QueryInv, BlockOf, Address
<1>13. OpInv' /\ SpinsOnlyWhenFreed' /\ (heap_last_alloc >= 1)'
  BY Zenon, <1>1, <1>8 DEF OpInv, SpinsOnlyWhenFreed
<1>14. QED  BY <1>9, <1>10, <1>11, <1>12, <1>13, Zenon DEF HeapInv

(* alloc() chooses free blocks and an id that neither neighbour has.       *)
LEMMA AllocKeeps ==
    ASSUME HeapInv, NEW c \in HeapClients, NEW s \in ByteSizes, NEW l \in Aligns,
           heap_alloc(c, s, l)
    PROVE  HeapInv'
<1>1. /\ HeapTypeOK /\ OpInv /\ LiveInv /\ Covered /\ QueryInv /\ CountInv /\ op = Idle
      /\ live[c] = Null /\ heap_last_alloc >= 1
      /\ ids' = ids /\ query' = query /\ live' = live /\ used_blocks' = used_blocks
      /\ stats' = stats /\ heap_last_alloc' = heap_last_alloc
  BY Zenon DEF HeapInv, heap_alloc
<1>2. PICK f \in Blocks :
         LET n == Needed(f, s, l)
             p == Address(f) + get_aligment_offset(Address(f), l)
         IN  /\ Search(s, l) = f /\ Free(f, n)
             /\ op' = [kind |-> "alloc", client |-> c, first |-> f, count |-> n,
                       id |-> getFreeID(IdAt(f - 1), IdAt(f + n)), i |-> f,
                       alloc |-> [ptr |-> p, align |-> l, size |-> s,
                                  first |-> f, count |-> n]]
  BY Zenon DEF heap_alloc
<1>3. PICK n : n = Needed(f, s, l)  BY Zenon
<1>4. PICK p : p = Address(f) + get_aligment_offset(Address(f), l)  BY Zenon
<1>5. PICK v : v = getFreeID(IdAt(f - 1), IdAt(f + n))  BY Zenon
<1>6. PICK a : a = [ptr |-> p, align |-> l, size |-> s, first |-> f, count |-> n]  BY Zenon
<1>7. /\ Free(f, n)
      /\ op' = [kind |-> "alloc", client |-> c, first |-> f, count |-> n, id |-> v, i |-> f,
                alloc |-> a]
  BY <1>2, <1>3, <1>4, <1>5, <1>6, Zenon
<1>8. op.kind = "none" /\ ~Working  BY Zenon, <1>1, IdleOp DEF Working
<1>9. /\ block_count \in Nat /\ Meta \in Nat /\ 1 < Meta /\ block_size \in Nat \ {0}
      /\ Base \in Nat /\ s \in Nat \ {0} /\ l \in Nat \ {0}
  BY Zenon, HeapAssumption
<1>10. f \in Nat /\ f < block_count  BY <1>9 DEF Blocks
<1>11. Address(f) \in Nat  BY <1>9, <1>10 DEF Address
<1>12. /\ get_aligment_offset(Address(f), l) \in Nat
       /\ (Address(f) + get_aligment_offset(Address(f), l)) % l = 0
  BY Zenon, <1>9, <1>11, Aligned
<1>13. /\ n \in Nat \ {0} /\ p \in Nat /\ p % l = 0 /\ Address(f) <= p
       /\ p + s <= Address(f + n)
  <2>1. PICK o : o = get_aligment_offset(Address(f), l)  BY Zenon
  <2>2. o \in Nat /\ p = Address(f) + o /\ p % l = 0  BY <1>4, <1>12, <2>1, Zenon
  <2>3. n = (s + o + block_size - 1) \div block_size  BY <1>3, <2>1, Zenon DEF Needed
  <2>4. s + o \in Nat \ {0} /\ (s + o) + block_size - 1 = s + o + block_size - 1
    BY <1>9, <2>2
  <2>5. n \in Nat \ {0} /\ s + o <= n * block_size
    BY Zenon, <1>9, <2>3, <2>4, RoundUp
  <2>6. (f + n) * block_size = f * block_size + n * block_size
        /\ f * block_size \in Nat /\ n * block_size \in Nat
    BY <1>9, <1>10, <2>5
  <2>7. QED  BY <1>9, <1>10, <2>2, <2>5, <2>6 DEF Address
<1>14. \A k \in f .. f + n - 1 : k \in Blocks /\ ids[k] = 0  BY <1>7, Zenon DEF Free
<1>15. Meta <= f /\ f + n <= block_count
  <2>1. f \in f .. f + n - 1 /\ f + n - 1 \in f .. f + n - 1  BY <1>10, <1>13
  <2>2. ids[f] = 0 /\ f + n - 1 \in Blocks  BY <1>14, <2>1, Zenon
  <2>3. ~(f < Meta)  BY <1>1, <2>2, Zenon DEF Covered
  <2>4. QED  BY <1>9, <1>10, <1>13, <2>2, <2>3 DEF Blocks
<1>16. /\ a.ptr = p /\ a.align = l /\ a.size = s /\ a.first = f /\ a.count = n
       /\ a \in Allocation
  BY Zenon, <1>6, <1>13 DEF Allocation
<1>17. a # Null  BY Zenon, <1>16, AllocationFields
<1>18. Fits(a)  BY <1>13, <1>15, <1>16 DEF Fits
<1>19. v \in Ids \ {0} /\ Bounded(a, v)
  <2>1. f - 1 \in Int /\ f + n \in Int  BY <1>10, <1>13
  <2>2. IdAt(f - 1) \in Ids /\ IdAt(f + n) \in Ids  BY <1>1, <2>1, Fields, Zenon
  <2>3. v \in Ids \ {0} /\ v # IdAt(f - 1) /\ v # IdAt(f + n)
    BY <1>5, <2>2, FreeIdDiffers, Zenon
  <2>4. QED  BY <1>16, <2>3, Zenon DEF Bounded
<1>20. /\ op'.kind = "alloc" /\ op'.client = c /\ op'.first = f /\ op'.count = n
       /\ op'.id = v /\ op'.i = f /\ op'.alloc = a
  BY Zenon, <1>7
<1>21. Working'  BY Zenon, <1>20 DEF Working
<1>22. HeapTypeOK'
  <2>1. op' \in [kind : {"none", "alloc", "free", "spin"}, client : HeapClients \cup {Null},
                 first : Nat, count : Nat, id : Ids, i : Nat, alloc : Allocation \cup {Null}]
    BY Zenon, <1>7, <1>10, <1>13, <1>16, <1>19
  <2>2. QED  BY <1>1, <2>1, Zenon DEF HeapTypeOK
<1>23. OpInv'
  <2>1. Fits(op.alloc)'  BY <1>18, <1>20, Zenon DEF Fits, Address
  <2>2. Bounded(op.alloc, op.id)'  BY <1>1, <1>19, <1>20, Zenon DEF Bounded, IdAt
  <2>3. f \in f .. f + n /\ \A b \in f .. f - 1 : ids[b] = v  BY <1>10, <1>13
  <2>4. op'.kind # "none" /\ op'.kind # "free" /\ op'.id # 0  BY Zenon, <1>19, <1>20
  <2>5. QED
    BY <1>1, <1>14, <1>16, <1>17, <1>20, <2>1, <2>2, <2>3, <2>4, Zenon DEF OpInv
<1>24. LiveInv'
  <2>1. ASSUME NEW d \in HeapClients, NEW x, live'[d] = x, x # Null
        PROVE  /\ Fits(x) /\ ids[x.first] # 0 /\ \A b \in BlocksOf(x) : ids[b] = ids[x.first]
               /\ Bounded(x, ids[x.first]) /\ (Working' => Apart(x, op'.alloc))
               /\ \A e \in HeapClients : e # d /\ live'[e] # Null => Apart(x, live'[e])
    <3>1. /\ Fits(x) /\ ids[x.first] # 0 /\ \A b \in BlocksOf(x) : ids[b] = ids[x.first]
          /\ Bounded(x, ids[x.first])
          /\ \A e \in HeapClients : e # d /\ live'[e] # Null => Apart(x, live'[e])
      BY <1>1, <2>1, Zenon DEF LiveInv
    <3>2. x \in Allocation  BY <1>1, <2>1, Fields, Zenon
    <3>3. x.first \in Nat /\ x.count \in Nat  BY Zenon, <3>2, AllocationFields
    <3>4. 1 <= x.count  BY Zenon, <3>1 DEF Fits
    <3>5. ~(x.first \in f .. f + n - 1)  BY <1>14, <3>1, Zenon
    <3>6. ~(f \in x.first .. x.first + x.count - 1)
      <4>1. f \in f .. f + n - 1  BY <1>10, <1>13
      <4>2. ids[f] = 0  BY <1>14, <4>1, Zenon
      <4>3. f \notin BlocksOf(x)  BY <3>1, <4>2, Zenon
      <4>4. QED  BY <4>3, Zenon DEF BlocksOf
    <3>7. x.first + x.count <= f \/ f + n <= x.first
      BY <1>10, <1>13, <3>3, <3>4, <3>5, <3>6
    <3>8. Apart(x, op'.alloc)  BY <1>16, <1>20, <3>7, Zenon DEF Apart
    <3>9. QED  BY <3>1, <3>8, Zenon
  <2>2. QED  BY <1>1, <2>1, LiveInvNext, Zenon
<1>25. Covered'  BY <1>1, <1>8, Zenon DEF Covered, BlocksOf
<1>26. QueryInv'  BY <1>1, Zenon DEF QueryInv, BlockOf, Address
<1>27. CountInv'
  <2>1. /\ Cardinality(TakenBlocks) = used_blocks - Meta + 0
        /\ stats.used = (used_blocks - Meta) * block_size
        /\ stats.free = (block_count - used_blocks) * block_size
    BY Zenon, <1>1, <1>8 DEF CountInv
  <2>2. TakenBlocks' = TakenBlocks  BY <1>1, Zenon DEF TakenBlocks
  <2>3. op'.i - op'.first = 0 /\ op'.kind = "alloc"  BY <1>10, <1>20
  <2>4. QED  BY <1>1, <2>1, <2>2, <2>3, Zenon DEF CountInv
<1>28. SpinsOnlyWhenFreed' /\ (heap_last_alloc >= 1)'
  BY Zenon, <1>1, <1>20 DEF SpinsOnlyWhenFreed
<1>29. QED  BY <1>22, <1>23, <1>24, <1>25, <1>26, <1>27, <1>28, Zenon DEF HeapInv

(* free() finds the blocks of its allocation.                              *)
LEMMA FreeKeeps ==
    ASSUME HeapInv, NEW c \in HeapClients, heap_free(c)
    PROVE  HeapInv'
<1>1. /\ HeapTypeOK /\ OpInv /\ LiveInv /\ Covered /\ QueryInv /\ CountInv /\ op = Idle
      /\ live[c] # Null /\ heap_last_alloc >= 1 /\ query[c].at = "no"
      /\ live' = [live EXCEPT ![c] = Null]
      /\ ids' = ids /\ query' = query /\ used_blocks' = used_blocks
      /\ stats' = stats /\ heap_last_alloc' = heap_last_alloc
  BY Zenon DEF HeapInv, heap_free
<1>2. PICK a : a = live[c]  BY Zenon
<1>3. PICK v : v = ids[BlockOf(a.ptr)]  BY Zenon
<1>4. op' = [kind |-> "free", client |-> c, first |-> WalkBack(BlockOf(a.ptr)), count |-> 0,
             id |-> v, i |-> WalkBack(BlockOf(a.ptr)), alloc |-> a]
  BY <1>2, <1>3, Zenon DEF heap_free
<1>5. /\ a # Null /\ Fits(a) /\ ids[a.first] # 0
      /\ \A b \in BlocksOf(a) : ids[b] = ids[a.first]
      /\ Bounded(a, ids[a.first])
      /\ \A d \in HeapClients : d # c /\ live[d] # Null => Apart(a, live[d])
  BY <1>1, <1>2, Zenon DEF LiveInv
<1>6. a \in Allocation  BY <1>1, <1>2, Fields, Zenon
<1>7. /\ a.first \in Nat /\ a.first \in Blocks /\ a.count \in Nat
      /\ block_count \in Nat /\ Meta \in Nat /\ 1 < Meta
  BY Zenon, <1>6, AllocationFields
<1>8. BlockOf(a.ptr) \in BlocksOf(a) /\ BlockOf(a.ptr) \in Blocks
  BY Zenon, <1>5, <1>6, BlockOfPointer
<1>9. WalkBack(BlockOf(a.ptr)) = a.first
  BY Zenon, <1>1, <1>5, <1>6, <1>8, WalkBackFinds
<1>10. v = ids[a.first] /\ v # 0 /\ v \in Ids
  <2>1. v = ids[a.first]  BY <1>3, <1>5, <1>8, Zenon
  <2>2. ids[a.first] \in Ids  BY <1>1, <1>7, Fields, Zenon
  <2>3. QED  BY <1>5, <2>1, <2>2, Zenon
<1>11. op' = [kind |-> "free", client |-> c, first |-> a.first, count |-> 0, id |-> v,
              i |-> a.first, alloc |-> a]
  BY <1>4, <1>9, Zenon
<1>12. /\ op'.kind = "free" /\ op'.client = c /\ op'.first = a.first
       /\ op'.id = v /\ op'.i = a.first /\ op'.alloc = a
  BY Zenon, <1>11
<1>13. Working' /\ op.kind = "none" /\ ~Working  BY Zenon, <1>1, <1>12, IdleOp DEF Working
<1>14. live'[c] = Null /\ \A d \in HeapClients : d # c => live'[d] = live[d]
  BY <1>1, Zenon DEF HeapTypeOK
<1>15. HeapTypeOK'
  <2>1. op' \in [kind : {"none", "alloc", "free", "spin"}, client : HeapClients \cup {Null},
                 first : Nat, count : Nat, id : Ids, i : Nat, alloc : Allocation \cup {Null}]
    BY Zenon, <1>6, <1>7, <1>10, <1>11
  <2>2. live' \in [HeapClients -> Allocation \cup {Null}]  BY <1>1, Zenon DEF HeapTypeOK
  <2>3. QED  BY <1>1, <2>1, <2>2, Zenon DEF HeapTypeOK
<1>16. OpInv'
  <2>1. Fits(op.alloc)'  BY <1>5, <1>12, Zenon DEF Fits, Address
  <2>2. Bounded(op.alloc, op.id)'  BY <1>1, <1>5, <1>10, <1>12, Zenon DEF Bounded, IdAt
  <2>3. /\ a.first \in a.first .. a.first + a.count
        /\ \A b \in a.first .. a.first - 1 : ids[b] = 0
    BY <1>7
  <2>4. op'.kind # "none" /\ op'.kind # "alloc"  BY Zenon, <1>12
  <2>5. \A b \in a.first .. a.first + a.count - 1 : ids[b] = v
    BY <1>5, <1>10, Zenon DEF BlocksOf
  <2>6. QED
    BY <1>1, <1>5, <1>10, <1>12, <2>1, <2>2, <2>3, <2>4, <2>5, Zenon DEF OpInv
<1>17. LiveInv'
  <2>1. ASSUME NEW d \in HeapClients, NEW x, live'[d] = x, x # Null
        PROVE  /\ Fits(x) /\ ids[x.first] # 0 /\ \A b \in BlocksOf(x) : ids[b] = ids[x.first]
               /\ Bounded(x, ids[x.first]) /\ (Working' => Apart(x, op'.alloc))
               /\ \A e \in HeapClients : e # d /\ live'[e] # Null => Apart(x, live'[e])
    <3>1. d # c /\ x = live[d]  BY <1>14, <2>1, Zenon
    <3>2. /\ Fits(x) /\ ids[x.first] # 0 /\ \A b \in BlocksOf(x) : ids[b] = ids[x.first]
          /\ Bounded(x, ids[x.first])
          /\ \A e \in HeapClients : e # d /\ live[e] # Null => Apart(x, live[e])
      BY <1>1, <2>1, <3>1, Zenon DEF LiveInv
    <3>3. Apart(x, op'.alloc)  BY <1>1, <1>2, <1>12, <3>1, <3>2, Zenon
    <3>4. QED  BY <1>14, <3>2, <3>3, Zenon
  <2>2. QED  BY <1>1, <2>1, LiveInvNext, Zenon
<1>18. Covered'
  <2>1. \A b \in Blocks : b < Meta => ids[b] # 0  BY <1>1, Zenon DEF Covered
  <2>2. ASSUME NEW b \in Blocks, b >= Meta, ids[b] # 0
        PROVE  \/ \E d \in HeapClients : live'[d] # Null /\ b \in BlocksOf(live'[d])
               \/ b \in BlocksOf(a)
    <3>1. PICK d \in HeapClients : live[d] # Null /\ b \in BlocksOf(live[d])
      BY <1>1, <1>13, <2>2, Zenon DEF Covered
    <3>2. QED  BY <1>2, <1>14, <3>1, Zenon
  <2>3. QED  BY <1>1, <1>12, <1>13, <2>1, <2>2, Zenon DEF Covered, BlocksOf
<1>19. QueryInv'
  <2>1. \A d \in HeapClients : query[d].at # "no" => live'[d] = live[d]  BY <1>1, <1>14, Zenon
  <2>2. QED  BY <1>1, <2>1, Zenon DEF QueryInv, BlockOf, Address
<1>20. CountInv'
  <2>1. /\ Cardinality(TakenBlocks) = used_blocks - Meta + 0
        /\ stats.used = (used_blocks - Meta) * block_size
        /\ stats.free = (block_count - used_blocks) * block_size
    BY Zenon, <1>1, <1>13 DEF CountInv
  <2>2. TakenBlocks' = TakenBlocks  BY <1>1, Zenon DEF TakenBlocks
  <2>3. op'.first - op'.i = 0 /\ op'.kind = "free" /\ op'.kind # "alloc"  BY <1>7, <1>12
  <2>4. QED  BY <1>1, <2>1, <2>2, <2>3, Zenon DEF CountInv
<1>21. SpinsOnlyWhenFreed' /\ (heap_last_alloc >= 1)'
  BY Zenon, <1>1, <1>12 DEF SpinsOnlyWhenFreed
<1>22. QED  BY <1>15, <1>16, <1>17, <1>18, <1>19, <1>20, <1>21, Zenon DEF HeapInv

(* A step of size() leaves everything alone but what it knows itself.      *)
LEMMA QueryStepKeeps ==
    ASSUME HeapInv, NEW c \in HeapClients, NEW q,
           UNCHANGED <<ids, heap_last_alloc, used_blocks, stats, live, op>>,
           query' = [query EXCEPT ![c] = q],
           q \in [at : {"no", "count", "done"}, index : Nat, id : Ids, count : Nat, result : Int],
           q.at # "no" =>
               /\ live[c] # Null /\ q.index = BlockOf(live[c].ptr) /\ q.id = ids[live[c].first]
               /\ q.index + q.count <= live[c].first + live[c].count
               /\ q.at = "done" =>
                    q.result = Address(live[c].first + live[c].count) - live[c].ptr
    PROVE  HeapInv'
<1>1. /\ HeapTypeOK /\ OpInv /\ LiveInv /\ Covered /\ QueryInv /\ CountInv
      /\ heap_last_alloc >= 1 /\ SpinsOnlyWhenFreed
  BY Zenon DEF HeapInv
<1>2. /\ ids' = ids /\ heap_last_alloc' = heap_last_alloc /\ used_blocks' = used_blocks
      /\ stats' = stats /\ live' = live /\ op' = op
  BY Zenon
<1>3. HeapTypeOK'  BY <1>1, <1>2, Zenon DEF HeapTypeOK
<1>4. Working' <=> Working  BY <1>2, Zenon DEF Working
<1>5. OpInv'  BY <1>1, <1>2, <1>4, Zenon DEF OpInv, Fits, Address, Bounded, IdAt
<1>6. LiveInv'  BY <1>1, <1>2, LiveUnchanged, Zenon
<1>7. Covered'  BY <1>1, <1>2, <1>4, Zenon DEF Covered, BlocksOf
<1>8. CountInv'  BY <1>1, <1>2, Zenon DEF CountInv, TakenBlocks
<1>9. QueryInv'
  <2>1. query'[c] = q /\ \A d \in HeapClients : d # c => query'[d] = query[d]
    BY <1>1, Zenon DEF HeapTypeOK
  <2>2. SUFFICES ASSUME NEW d \in HeapClients, query'[d].at # "no"
        PROVE  /\ live[d] # Null /\ query'[d].index = BlockOf(live[d].ptr)
               /\ query'[d].id = ids[live[d].first]
               /\ query'[d].index + query'[d].count <= live[d].first + live[d].count
               /\ query'[d].at = "done" =>
                    query'[d].result = Address(live[d].first + live[d].count) - live[d].ptr
    BY <1>2, Zenon DEF QueryInv, BlockOf, Address
  <2>3. CASE d = c  BY <2>1, <2>2, <2>3, Zenon
  <2>4. CASE d # c
    <3>1. query'[d] = query[d]  BY <2>1, <2>4, Zenon
    <3>2. query[d].at # "no"  BY <2>2, <3>1, Zenon
    <3>3. /\ live[d] # Null /\ query[d].index = BlockOf(live[d].ptr)
          /\ query[d].id = ids[live[d].first]
          /\ query[d].index + query[d].count <= live[d].first + live[d].count
          /\ query[d].at = "done" =>
               query[d].result = Address(live[d].first + live[d].count) - live[d].ptr
      BY <1>1, <3>2, Zenon DEF QueryInv
    <3>4. QED  BY <3>1, <3>3, Zenon
  <2>5. QED  BY Zenon, <2>3, <2>4
<1>10. SpinsOnlyWhenFreed' /\ (heap_last_alloc >= 1)'  BY <1>1, <1>2, Zenon DEF SpinsOnlyWhenFreed
<1>11. QED  BY <1>3, <1>5, <1>6, <1>7, <1>8, <1>9, <1>10, Zenon DEF HeapInv

(* What size() may rely on of the allocation it is asked about.            *)
LEMMA OwnAllocation ==
    ASSUME HeapInv, NEW c \in HeapClients, live[c] # Null
    PROVE  /\ live[c] \in Allocation /\ Fits(live[c])
           /\ \A b \in BlocksOf(live[c]) : ids[b] = ids[live[c].first]
           /\ Bounded(live[c], ids[live[c].first])
           /\ live[c].first \in Nat /\ live[c].count \in Nat /\ live[c].first \in Blocks
           /\ live[c].first + live[c].count <= block_count
           /\ BlockOf(live[c].ptr) \in BlocksOf(live[c]) /\ BlockOf(live[c].ptr) \in Blocks
           /\ live[c].ptr = Address(BlockOf(live[c].ptr)) + ((live[c].ptr - Base) % block_size)
           /\ live[c].ptr \in Nat
<1>1. HeapTypeOK /\ LiveInv  BY Zenon DEF HeapInv
<1>2. PICK a : a = live[c]  BY Zenon
<1>3. /\ Fits(a) /\ \A b \in BlocksOf(a) : ids[b] = ids[a.first]
      /\ Bounded(a, ids[a.first])
  BY <1>1, <1>2, Zenon DEF LiveInv
<1>4. a \in Allocation  BY <1>1, <1>2, Fields, Zenon
<1>5. /\ a.first \in Nat /\ a.count \in Nat /\ a.first \in Blocks /\ a.ptr \in Nat
  BY Zenon, <1>4, AllocationFields
<1>6. a.first + a.count <= block_count  BY Zenon, <1>3 DEF Fits
<1>7. /\ BlockOf(a.ptr) \in BlocksOf(a) /\ BlockOf(a.ptr) \in Blocks
      /\ a.ptr = Address(BlockOf(a.ptr)) + ((a.ptr - Base) % block_size)
  BY Zenon, <1>3, <1>4, BlockOfPointer
<1>8. QED  BY <1>2, <1>3, <1>4, <1>5, <1>6, <1>7, Zenon

(* size() reads the id of its allocation.                                  *)
LEMMA SizeKeeps ==
    ASSUME HeapInv, NEW c \in HeapClients, size(c) \/ size_return(c)
    PROVE  HeapInv'
<1>1. CASE size_return(c)
  <2>1. NoQuery \in [at : {"no", "count", "done"}, index : Nat, id : Ids, count : Nat, result : Int]
        /\ NoQuery.at = "no"
    BY DEF NoQuery, Ids
  <2>2. QED  BY <1>1, <2>1, QueryStepKeeps, Zenon DEF size_return
<1>2. CASE size(c)
  <2>1. PICK b : b = BlockOf(live[c].ptr)  BY Zenon
  <2>2. PICK q : q = [at |-> "count", index |-> b, id |-> ids[b], count |-> 0, result |-> 0]
    BY Zenon
  <2>3. /\ live[c] # Null /\ query' = [query EXCEPT ![c] = q]
        /\ UNCHANGED <<ids, heap_last_alloc, used_blocks, stats, live, op>>
    BY <1>2, <2>1, <2>2, Zenon DEF size
  <2>4. /\ b \in BlocksOf(live[c]) /\ b \in Blocks /\ ids[b] = ids[live[c].first]
        /\ live[c].first \in Nat /\ live[c].count \in Nat
    BY <2>1, <2>3, OwnAllocation, Zenon
  <2>5. ids[b] \in Ids  BY <2>4, Fields, Zenon DEF HeapInv
  <2>6. b \in Nat /\ b + 0 <= live[c].first + live[c].count
    BY <2>4, HeapAssumption DEF BlocksOf, Blocks
  <2>7. /\ q.at = "count" /\ q.index = b /\ q.id = ids[b] /\ q.count = 0
        /\ q \in [at : {"no", "count", "done"}, index : Nat, id : Ids, count : Nat, result : Int]
    BY <2>2, <2>5, <2>6
  <2>8. q.at # "done"  BY Zenon, <2>7
  <2>9. QED  BY <2>1, <2>3, <2>4, <2>6, <2>7, <2>8, QueryStepKeeps, Zenon
<1>3. QED  BY Zenon, <1>1, <1>2

(* size() counts on while the block is its own, and stops at the end.      *)
LEMMA SizeCountKeeps ==
    ASSUME HeapInv, NEW c \in HeapClients, size_count(c)
    PROVE  HeapInv'
<1> DEFINE a == live[c]
           p == query[c]
<1>1. /\ p.at = "count" /\ HeapTypeOK /\ QueryInv
      /\ UNCHANGED <<ids, heap_last_alloc, used_blocks, stats, live, op>>
  BY Zenon DEF HeapInv, size_count
<1>2. /\ a # Null /\ p.index = BlockOf(a.ptr) /\ p.id = ids[a.first]
      /\ p.index + p.count <= a.first + a.count
  BY Zenon, <1>1 DEF QueryInv
<1>3. /\ p.index \in Nat /\ p.id \in Ids /\ p.count \in Nat /\ p.result \in Int
      /\ p \in [at : {"no", "count", "done"}, index : Nat, id : Ids, count : Nat, result : Int]
  BY Zenon, <1>1, Fields DEF HeapTypeOK
<1>4. /\ \A b \in BlocksOf(a) : ids[b] = ids[a.first]
      /\ Bounded(a, ids[a.first]) /\ a.first \in Nat /\ a.count \in Nat
      /\ a.first + a.count <= block_count /\ p.index \in BlocksOf(a)
      /\ a.ptr = Address(p.index) + ((a.ptr - Base) % block_size) /\ a.ptr \in Nat
  BY <1>2, OwnAllocation, Zenon
<1>5. block_count \in Nat /\ block_size \in Nat \ {0} /\ Base \in Nat  BY Zenon, HeapAssumption
<1>6. PICK r : r = p.count * block_size - ((a.ptr - Base) % block_size)  BY Zenon
<1>7. query' = [query EXCEPT ![c] = IF Continues(p.index + p.count, p.id)
                                    THEN [p EXCEPT !.count = p.count + 1]
                                    ELSE [p EXCEPT !.at = "done", !.result = r]]
  <2>1. query' = [query EXCEPT ![c] =
             IF Continues(query[c].index + query[c].count, query[c].id)
             THEN [query[c] EXCEPT !.count = query[c].count + 1]
             ELSE [query[c] EXCEPT !.at = "done",
                     !.result = query[c].count * block_size - ((live[c].ptr - Base) % block_size)]]
    BY Zenon DEF size_count
  <2>2. QED  BY <1>6, <2>1, Zenon
<1> HIDE DEF a, p
<1>8. CASE Continues(p.index + p.count, p.id)
  <2>1. PICK q : q = [p EXCEPT !.count = p.count + 1]  BY Zenon
  <2>2. /\ q.at = "count" /\ q.index = p.index /\ q.id = p.id /\ q.count = p.count + 1
        /\ q \in [at : {"no", "count", "done"}, index : Nat, id : Ids, count : Nat, result : Int]
    BY <1>1, <1>3, <2>1
  <2>3. p.index + p.count # a.first + a.count
    BY <1>2, <1>4, <1>8, Zenon DEF Bounded, IdAt, Continues
  <2>4. q.index + q.count <= a.first + a.count  BY <1>2, <1>3, <1>4, <2>2, <2>3
  <2>5. query' = [query EXCEPT ![c] = q]  BY <1>7, <1>8, <2>1, Zenon
  <2>6. q.at # "done"  BY Zenon, <2>2
  <2>7. QED  BY <1>1, <1>2, <2>2, <2>4, <2>5, <2>6, QueryStepKeeps, Zenon DEF a
<1>9. CASE ~Continues(p.index + p.count, p.id)
  <2>1. p.index + p.count = a.first + a.count
    <3>1. SUFFICES ASSUME p.index + p.count < a.first + a.count PROVE FALSE
      BY <1>2, <1>3, <1>4
    <3>2. p.index + p.count \in BlocksOf(a) /\ p.index + p.count \in Blocks
      BY <1>3, <1>4, <1>5, <3>1 DEF BlocksOf, Blocks
    <3>3. QED  BY <1>2, <1>4, <1>9, <3>2, Zenon DEF Continues
  <2>2. (a.ptr - Base) % block_size \in Nat
    <3>1. a.ptr - Base \in Int  BY <1>4, <1>5
    <3>2. QED  BY <1>5, <3>1
  <2>3. r = Address(a.first + a.count) - a.ptr
    <3>1. PICK m \in Nat : m = (a.ptr - Base) % block_size  BY Zenon, <2>2
    <3>2. a.ptr = Base + p.index * block_size + m  BY <1>4, <3>1, Zenon DEF Address
    <3>3. r = p.count * block_size - m  BY <1>6, <3>1, Zenon
    <3>4. (p.index + p.count) * block_size = p.index * block_size + p.count * block_size
          /\ p.index * block_size \in Nat /\ p.count * block_size \in Nat
      BY <1>3, <1>5
    <3>5. Address(a.first + a.count) = Base + (p.index + p.count) * block_size
      BY <2>1, Zenon DEF Address
    <3>6. QED  BY <1>3, <1>5, <3>2, <3>3, <3>4, <3>5
  <2>4. r \in Int  BY <1>3, <1>5, <1>6, <2>2
  <2>5. PICK q : q = [p EXCEPT !.at = "done", !.result = r]  BY Zenon
  <2>6. /\ q.at = "done" /\ q.index = p.index /\ q.id = p.id /\ q.count = p.count /\ q.result = r
        /\ q \in [at : {"no", "count", "done"}, index : Nat, id : Ids, count : Nat, result : Int]
    BY Zenon, <1>3, <2>4, <2>5
  <2>7. query' = [query EXCEPT ![c] = q]  BY <1>7, <1>9, <2>5, Zenon
  <2>8. QED  BY <1>1, <1>2, <2>3, <2>6, <2>7, QueryStepKeeps, Zenon DEF a
<1>10. QED  BY Zenon, <1>8, <1>9

----------------------------------------------------------------------------
(* A set of numbers that is not empty has a least one.                     *)
LEMMA Least ==
    ASSUME NEW S, S \subseteq Nat, S # {}
    PROVE  \E m \in S : \A k \in S : ~(k < m)
<1>1. IsWellFoundedOn(OpToRel(<, Nat), Nat)  BY NatLessThanWellFounded, Zenon
<1>2. \E k \in S : k \in Nat  BY Zenon
<1>3. PICK m \in S : \A k \in S : ~(<<k, m>> \in OpToRel(<, Nat))
  BY <1>1, <1>2, WFMin, Zenon
<1>4. ASSUME NEW k \in S, k < m PROVE FALSE
  <2>1. <<k, m>> \in OpToRel(<, Nat)  BY <1>4, Zenon DEF OpToRel
  <2>2. QED  BY <1>3, <2>1, Zenon
<1>5. QED  BY <1>4, Zenon

(* The inner loop of alloc() counts at least a block that is free, and     *)
(* only free ones.                                                         *)
LEMMA FreeRunCounts ==
    ASSUME NEW b \in Blocks, ids[b] = 0, NEW n \in Nat \ {0}
    PROVE  FreeRun(b, n) \in 1 .. n /\ Free(b, FreeRun(b, n))
<1> DEFINE S == {k \in Nat : k = n \/ ~Free(b, k + 1)}
<1>1. b \in Nat  BY HeapAssumption DEF Blocks
<1>2. n \in S  BY Zenon
<1>3. S \subseteq Nat /\ S # {}  BY <1>2, Zenon
<1> HIDE DEF S
<1>4. PICK m \in S : \A k \in S : ~(k < m)  BY Zenon, <1>3, Least
<1>5. m \in Nat /\ m <= n  BY <1>2, <1>3, <1>4
<1>6. Free(b, m)
  <2>1. CASE m = 0  BY <1>1, <2>1 DEF Free
  <2>2. CASE m # 0
    <3>1. m - 1 \in Nat /\ m - 1 < m /\ (m - 1) + 1 = m  BY <1>5, <2>2
    <3>2. m - 1 \notin S  BY <1>4, <3>1, Zenon
    <3>3. QED  BY Zenon, <3>1, <3>2 DEF S
  <2>3. QED  BY Zenon, <2>1, <2>2
<1>7. m \in 0 .. n /\ Free(b, m) /\ (m = n \/ ~Free(b, m + 1))
  BY <1>4, <1>5, <1>6 DEF S
<1>8. PICK k : k = FreeRun(b, n)  BY Zenon
<1>9. k \in 0 .. n /\ Free(b, k) /\ (k = n \/ ~Free(b, k + 1))
  BY <1>7, <1>8, Zenon DEF FreeRun
<1>10. Free(b, 1)  BY <1>1 DEF Free
<1>11. k # 0  BY <1>9, <1>10
<1>12. QED  BY <1>8, <1>9, <1>11

Counters == 0 .. 2 * block_count

(* One round of Search() with f rounds left, given those with fewer.       *)
Round(g, f, s, l) ==
    [t \in Counters |->
        IF t = heap_last_alloc THEN NotFound
        ELSE IF ~Unfit(Wrapped(t), Needed(Wrapped(t), s, l), l) THEN Wrapped(t)
        ELSE IF f = 0 THEN Endless
        ELSE g[f - 1][Skip(Wrapped(t), Needed(Wrapped(t), s, l), l)]]

(* Search() is defined: its rounds exist, by induction on their number.    *)
LEMMA SearchDefined ==
    ASSUME NEW s, NEW l
    PROVE  \E v : /\ v = [f \in Counters |-> Round(v, f, s, l)]
                  /\ Search(s, l) = v[2 * block_count][(heap_last_alloc + 1) % block_count]
<1> DEFINE Rounds(g, k) == \A f \in 0 .. k : g[f] = Round(g, f, s, l)
           S == {k \in Nat : ~ \E g : Rounds(g, k)}
           v == CHOOSE g : g = [f \in Counters |-> Round(g, f, s, l)]
<1>1. ASSUME NEW g, NEW h, NEW f, f # 0 => g[f - 1] = h[f - 1]
      PROVE  Round(g, f, s, l) = Round(h, f, s, l)
  <2>1. CASE f = 0  BY <2>1, Zenon DEF Round
  <2>2. CASE f # 0  BY <1>1, <2>2, Zenon DEF Round
  <2>3. QED  BY Zenon, <2>1, <2>2
<1>2. ASSUME S # {} PROVE FALSE
  <2>1. PICK m \in S : \A k \in S : ~(k < m)  BY <1>2, Least, Zenon
  <2>2. m \in Nat /\ \A g : ~Rounds(g, m)  BY <2>1, Zenon
  <2> HIDE DEF Rounds, S
  <2>3. CASE m = 0
    <3>1. PICK r : r = Round(<<>>, 0, s, l)  BY Zenon
    <3>2. PICK g : g = [f \in {0} |-> r]  BY Zenon
    <3>3. g[0] = Round(g, 0, s, l)  BY <1>1, <3>1, <3>2, Zenon
    <3>4. \A f \in 0 .. m : f = 0  BY <2>3
    <3>5. Rounds(g, m)  BY <3>3, <3>4, Zenon DEF Rounds
    <3>6. QED  BY <2>2, <3>5, Zenon
  <2>4. CASE m # 0
    <3>1. m - 1 \in Nat /\ m - 1 < m  BY <2>2, <2>4
    <3>2. m - 1 \notin S  BY <2>1, <3>1, Zenon
    <3>3. PICK h : Rounds(h, m - 1)  BY <3>1, <3>2, Zenon DEF S
    <3>4. PICK r : r = Round(h, m, s, l)  BY Zenon
    <3>5. PICK g : g = [f \in 0 .. m |-> IF f = m THEN r ELSE h[f]]  BY Zenon
    <3>6. ASSUME NEW f \in 0 .. m PROVE g[f] = Round(g, f, s, l)
      <4>1. f # 0 => g[f - 1] = h[f - 1]
        <5>1. f # 0 => f - 1 \in 0 .. m /\ f - 1 # m  BY <2>2
        <5>2. QED  BY <3>5, <5>1, Zenon
      <4>2. Round(g, f, s, l) = Round(h, f, s, l)  BY <1>1, <4>1, Zenon
      <4>3. CASE f = m  BY <3>4, <3>5, <4>2, <4>3, Zenon
      <4>4. CASE f # m
        <5>1. f \in 0 .. m - 1  BY <2>2, <4>4
        <5>2. h[f] = Round(h, f, s, l)  BY <3>3, <5>1, Zenon DEF Rounds
        <5>3. QED  BY <3>5, <4>2, <4>4, <5>2, Zenon
      <4>5. QED  BY Zenon, <4>3, <4>4
    <3>7. Rounds(g, m)  BY <3>6, Zenon DEF Rounds
    <3>8. QED  BY <2>2, <3>7, Zenon
  <2>5. QED  BY Zenon, <2>3, <2>4
<1>3. block_count \in Nat  BY Zenon, HeapAssumption
<1>4. 2 * block_count \in Nat  BY <1>3
<1>5. PICK g : Rounds(g, 2 * block_count)  BY <1>2, <1>4, Zenon
<1>6. PICK h : h = [f \in Counters |-> g[f]]  BY Zenon
<1>7. h = [f \in Counters |-> Round(h, f, s, l)]
  <2>1. ASSUME NEW f \in Counters PROVE g[f] = Round(h, f, s, l)
    <3>1. f # 0 => f - 1 \in Counters  BY <1>4 DEF Counters
    <3>2. f # 0 => g[f - 1] = h[f - 1]  BY <1>6, <3>1, Zenon
    <3>3. Round(g, f, s, l) = Round(h, f, s, l)  BY <1>1, <3>2, Zenon
    <3>4. QED  BY <1>5, <3>3, Zenon DEF Counters
  <2>2. QED  BY <1>6, <2>1, Zenon
<1>8. v = [f \in Counters |-> Round(v, f, s, l)]
  BY <1>7, Zenon
<1>9. Search(s, l) = v[2 * block_count][(heap_last_alloc + 1) % block_count]
  BY Zenon DEF Search, Round, Counters
<1>10. QED  BY <1>8, <1>9, Zenon

(* How many steps of one block the counter is away from last_alloc.        *)
Distance(t) == IF t <= heap_last_alloc THEN heap_last_alloc - t
               ELSE (block_count - t) + heap_last_alloc

(* While block last_alloc is taken, every skip brings the counter closer   *)
(* to it and none steps over it.                                           *)
LEMMA SkipApproaches ==
    ASSUME HeapTypeOK, heap_last_alloc >= 1, ids[heap_last_alloc] # 0,
           NEW s \in ByteSizes, NEW l \in Aligns,
           NEW t \in 0 .. block_count, t # heap_last_alloc, NEW x,
           x = Skip(Wrapped(t), Needed(Wrapped(t), s, l), l)
    PROVE  x \in 0 .. block_count /\ Distance(x) < Distance(t) /\ Distance(t) > 0
<1>1. /\ block_count \in Nat /\ Meta \in Nat /\ 1 < Meta /\ Meta < block_count
      /\ block_size \in Nat \ {0} /\ Base \in Nat /\ s \in Nat \ {0} /\ l \in Nat \ {0}
  BY Zenon, HeapAssumption
<1>2. heap_last_alloc \in Nat /\ heap_last_alloc < block_count
  BY <1>1 DEF HeapTypeOK, Blocks
<1>3. PICK b : b = Wrapped(t)  BY Zenon
<1>4. b \in Nat /\ b < block_count /\ b # heap_last_alloc /\ b = IF t = block_count THEN 0 ELSE t
  BY <1>1, <1>2, <1>3 DEF Wrapped
<1>5. PICK n : n = Needed(b, s, l)  BY Zenon
<1>6. n \in Nat \ {0}
  <2>1. Address(b) \in Nat  BY <1>1, <1>4 DEF Address
  <2>2. PICK o \in Nat : o = get_aligment_offset(Address(b), l)
    BY <1>1, <2>1, Aligned, Zenon
  <2>3. n = (s + o + block_size - 1) \div block_size  BY <1>5, <2>2, Zenon DEF Needed
  <2>4. s + o \in Nat \ {0} /\ (s + o) + block_size - 1 = s + o + block_size - 1
    BY <1>1
  <2>5. QED  BY Zenon, <1>1, <2>3, <2>4, RoundUp
<1>7. PICK k \in Nat \ {0} : /\ x = b + k /\ b + k <= block_count
                             /\ b < heap_last_alloc => b + k <= heap_last_alloc
  <2>1. CASE ~can_align(b, l) \/ ids[b] # 0
    <3>1. x = b + 1  BY <1>3, <1>5, <2>1, Zenon DEF Skip
    <3>2. QED  BY <1>1, <1>2, <1>4, <3>1
  <2>2. CASE ~(~can_align(b, l) \/ ids[b] # 0)
    <3>1. x = b + FreeRun(b, n)  BY <1>3, <1>5, <2>2, Zenon DEF Skip
    <3>2. PICK k : k = FreeRun(b, n)  BY Zenon
    <3>3. b \in Blocks  BY <1>1, <1>4 DEF Blocks
    <3>4. k \in 1 .. n /\ Free(b, k)  BY Zenon, <1>6, <2>2, <3>2, <3>3, FreeRunCounts
    <3>5. \A j \in b .. b + k - 1 : j \in Blocks /\ ids[j] = 0  BY <3>4, Zenon DEF Free
    <3>6. k \in Nat \ {0}  BY <1>6, <3>4
    <3>7. b + k - 1 \in b .. b + k - 1  BY <1>4, <3>6
    <3>8. b + k - 1 \in Blocks  BY <3>5, <3>7, Zenon
    <3>9. heap_last_alloc \notin b .. b + k - 1  BY <3>5, Zenon
    <3>10. b + k <= block_count /\ (b < heap_last_alloc => b + k <= heap_last_alloc)
      BY <1>1, <1>2, <1>4, <3>6, <3>8, <3>9 DEF Blocks
    <3>11. QED  BY <3>1, <3>2, <3>6, <3>10, Zenon
  <2>3. QED  BY Zenon, <2>1, <2>2
<1>8. QED  BY <1>1, <1>2, <1>4, <1>7 DEF Distance

(* The search of alloc() ends while block last_alloc is taken.             *)
LEMMA SearchStops ==
    ASSUME HeapTypeOK, heap_last_alloc >= 1, ids[heap_last_alloc] # 0,
           NEW s \in ByteSizes, NEW l \in Aligns
    PROVE  Search(s, l) # Endless
<1>1. /\ block_count \in Nat /\ Meta \in Nat /\ 1 < Meta /\ Meta < block_count
  BY Zenon, HeapAssumption
<1>2. heap_last_alloc \in Nat /\ heap_last_alloc < block_count
  BY <1>1 DEF HeapTypeOK, Blocks
<1>3. PICK v : /\ v = [f \in Counters |-> Round(v, f, s, l)]
               /\ Search(s, l) = v[2 * block_count][(heap_last_alloc + 1) % block_count]
  BY SearchDefined, Zenon
<1> DEFINE S == {f \in Counters : \E t \in 0 .. block_count :
                    Distance(t) <= f /\ v[f][t] = Endless}
<1>4. ASSUME S # {} PROVE FALSE
  <2>1. S \subseteq Nat  BY <1>1 DEF Counters
  <2>2. PICK m \in S : \A k \in S : ~(k < m)  BY Zenon, <1>4, <2>1, Least
  <2>3. m \in Counters /\ m \in Nat  BY <2>1, <2>2, Zenon
  <2>4. PICK t \in 0 .. block_count : Distance(t) <= m /\ v[m][t] = Endless  BY <2>2, Zenon
  <2>5. t \in Counters /\ t \in Nat  BY <1>1 DEF Counters
  <2>6. PICK b : b = Wrapped(t)  BY Zenon
  <2>7. PICK n : n = Needed(b, s, l)  BY Zenon
  <2>8. v[m] = Round(v, m, s, l)  BY <1>3, <2>3, Zenon
  <2>9. v[m][t] = IF t = heap_last_alloc THEN NotFound
                  ELSE IF ~Unfit(b, n, l) THEN b
                  ELSE IF m = 0 THEN Endless ELSE v[m - 1][Skip(b, n, l)]
    BY <2>5, <2>6, <2>7, <2>8, Zenon DEF Round
  <2>10. b \in Nat /\ NotFound # Endless /\ b # Endless
    BY <1>1, <2>5, <2>6 DEF Wrapped, NotFound, Endless
  <2>11. t # heap_last_alloc /\ (m # 0 => v[m - 1][Skip(b, n, l)] = Endless)
    BY <2>4, <2>9, <2>10, Zenon
  <2>12. PICK x : x = Skip(b, n, l)  BY Zenon
  <2>13. x \in 0 .. block_count /\ Distance(x) < Distance(t) /\ Distance(t) > 0
    BY <2>6, <2>7, <2>11, <2>12, SkipApproaches, Zenon
  <2>14. Distance(x) \in Int /\ Distance(t) \in Int
    BY <1>1, <1>2, <2>5, <2>13 DEF Distance
  <2>15. m # 0 /\ m - 1 \in Counters /\ m - 1 < m /\ Distance(x) <= m - 1
    BY <1>1, <2>3, <2>4, <2>13, <2>14 DEF Counters
  <2>16. m - 1 \in S  BY <2>11, <2>12, <2>13, <2>15, Zenon
  <2>17. QED  BY <2>2, <2>15, <2>16, Zenon
<1>5. PICK t : t = (heap_last_alloc + 1) % block_count  BY Zenon
<1>6. t \in 0 .. block_count - 1  BY <1>1, <1>2, <1>5
<1>7. t \in 0 .. block_count /\ 2 * block_count \in Counters /\ Distance(t) <= 2 * block_count
  BY <1>1, <1>2, <1>6 DEF Counters, Distance
<1>8. v[2 * block_count][t] # Endless  BY <1>4, <1>7, Zenon
<1>9. QED  BY <1>3, <1>5, <1>8, Zenon

(* A search without end only starts with block last_alloc free.            *)
LEMMA SpinKeeps ==
    ASSUME HeapInv, NEW c \in HeapClients, NEW s \in ByteSizes, NEW l \in Aligns,
           alloc_spin(c, s, l)
    PROVE  HeapInv'
<1>1. /\ HeapTypeOK /\ OpInv /\ LiveInv /\ Covered /\ QueryInv /\ CountInv
      /\ heap_last_alloc >= 1 /\ op = Idle /\ Search(s, l) = Endless
      /\ op' = [Idle EXCEPT !.kind = "spin", !.client = c]
      /\ ids' = ids /\ query' = query /\ live' = live /\ used_blocks' = used_blocks
      /\ stats' = stats /\ heap_last_alloc' = heap_last_alloc
  BY Zenon DEF HeapInv, alloc_spin
<1>2. ids[heap_last_alloc] = 0  BY <1>1, SearchStops, Zenon
<1>3. /\ op' \in [kind : {"none", "alloc", "free", "spin"}, client : HeapClients \cup {Null},
                  first : Nat, count : Nat, id : Ids, i : Nat, alloc : Allocation \cup {Null}]
      /\ op'.kind = "spin"
  <2>1. op' = [kind |-> "spin", client |-> c, first |-> 0, count |-> 0, id |-> 0,
               i |-> 0, alloc |-> Null]
    BY Zenon, <1>1 DEF Idle
  <2>2. QED  BY <2>1 DEF Ids
<1>4. HeapTypeOK'  BY <1>1, <1>3, Zenon DEF HeapTypeOK
<1>5. ~Working /\ ~Working' /\ op.kind = "none"  BY Zenon, <1>1, <1>3, IdleOp DEF Working
<1>6. OpInv' /\ SpinsOnlyWhenFreed' /\ (heap_last_alloc >= 1)'
  BY Zenon, <1>1, <1>2, <1>3, <1>5 DEF OpInv, SpinsOnlyWhenFreed
<1>7. LiveInv'
  <2>1. ASSUME NEW d \in HeapClients, NEW x, live'[d] = x, x # Null
        PROVE  /\ Fits(x) /\ ids[x.first] # 0 /\ \A b \in BlocksOf(x) : ids[b] = ids[x.first]
               /\ Bounded(x, ids[x.first])
               /\ \A e \in HeapClients : e # d /\ live'[e] # Null => Apart(x, live'[e])
    BY <1>1, <2>1, Zenon DEF LiveInv
  <2>2. QED  BY <1>1, <1>5, <2>1, LiveInvNext, Zenon
<1>8. Covered'  BY <1>1, <1>5, Zenon DEF Covered, BlocksOf
<1>9. QueryInv'  BY <1>1, Zenon DEF QueryInv, BlockOf, Address
<1>10. CountInv'
  <2>1. TakenBlocks' = TakenBlocks  BY <1>1, Zenon DEF TakenBlocks
  <2>2. op.kind # "alloc" /\ op.kind # "free" /\ op'.kind # "alloc" /\ op'.kind # "free"
    BY Zenon, <1>3, <1>5
  <2>3. QED  BY <1>1, <2>1, <2>2, Zenon DEF CountInv
<1>11. QED  BY <1>4, <1>6, <1>7, <1>8, <1>9, <1>10, Zenon DEF HeapInv

----------------------------------------------------------------------------
(* Every step keeps the invariant.                                         *)
LEMMA HeapNextKeeps == HeapInv /\ [HeapNext]_heapVars => HeapInv'
<1> SUFFICES ASSUME HeapInv, [HeapNext]_heapVars PROVE HeapInv'  BY Zenon
<1>1. CASE UNCHANGED heapVars
  <2>1. /\ ids' = ids /\ heap_last_alloc' = heap_last_alloc /\ used_blocks' = used_blocks
        /\ stats' = stats /\ live' = live /\ op' = op /\ query' = query
    BY Zenon, <1>1 DEF heapVars
  <2>2. /\ HeapTypeOK /\ OpInv /\ LiveInv /\ Covered /\ QueryInv /\ CountInv
        /\ heap_last_alloc >= 1 /\ SpinsOnlyWhenFreed
    BY Zenon DEF HeapInv
  <2>3. HeapTypeOK' /\ SpinsOnlyWhenFreed' /\ (heap_last_alloc >= 1)'
    BY <2>1, <2>2, Zenon DEF HeapTypeOK, SpinsOnlyWhenFreed
  <2>4. Working' <=> Working  BY <2>1, Zenon DEF Working
  <2>5. OpInv'  BY <2>1, <2>2, <2>4, Zenon DEF OpInv, Fits, Address, Bounded, IdAt
  <2>6. LiveInv'  BY <2>1, <2>2, LiveUnchanged, Zenon
  <2>7. Covered'  BY <2>1, <2>2, <2>4, Zenon DEF Covered, BlocksOf
  <2>8. CountInv'  BY <2>1, <2>2, Zenon DEF CountInv, TakenBlocks
  <2>9. QueryInv'  BY <2>1, <2>2, Zenon DEF QueryInv, BlockOf, Address
  <2>10. QED  BY <2>3, <2>5, <2>6, <2>7, <2>8, <2>9, Zenon DEF HeapInv
<1>2. CASE HeapNext
  <2>1. ASSUME NEW c \in HeapClients, NEW s \in ByteSizes, NEW l \in Aligns,
               heap_alloc(c, s, l) \/ alloc_spin(c, s, l)
        PROVE  HeapInv'
    BY <2>1, AllocKeeps, SpinKeeps, Zenon
  <2>2. CASE alloc_set \/ alloc_return \/ free_clear \/ free_return
    BY <2>2, AllocSetKeeps, AllocReturnKeeps, FreeClearKeeps, FreeReturnKeeps, Zenon
  <2>3. ASSUME NEW c \in HeapClients, heap_free(c) \/ size(c) \/ size_count(c) \/ size_return(c)
        PROVE  HeapInv'
    BY <2>3, FreeKeeps, SizeKeeps, SizeCountKeeps, Zenon
  <2>4. QED  BY <1>2, <2>1, <2>2, <2>3, Zenon DEF HeapNext
<1>3. QED  BY <1>1, <1>2, Zenon

(* The invariant says what is claimed of the heap.                         *)
LEMMA HeapInvExact == HeapInv => HeapExact
<1> SUFFICES ASSUME HeapInv PROVE HeapExact  BY Zenon
<1>1. /\ HeapTypeOK /\ OpInv /\ LiveInv /\ Covered /\ QueryInv /\ CountInv
      /\ SpinsOnlyWhenFreed
  BY Zenon DEF HeapInv
<1>2. /\ block_count \in Nat /\ Meta \in Nat /\ Meta < block_count /\ block_size \in Nat \ {0}
      /\ used_blocks \in Nat
  BY Zenon, <1>1, HeapAssumption, Fields
<1>3. ASSUME NEW a \in Allocation, Fits(a)
      PROVE  BlocksOf(a) \subseteq Meta .. block_count - 1 /\ a.first \in BlocksOf(a)
  <2>1. a.first \in Nat /\ a.count \in Nat  BY Zenon, AllocationFields
  <2>2. QED  BY <1>2, <1>3, <2>1 DEF Fits, BlocksOf
<1>4. ASSUME NEW a \in Allocation, NEW b \in Allocation, Apart(a, b)
      PROVE  BlocksOf(a) \cap BlocksOf(b) = {}
  <2>1. a.first \in Nat /\ a.count \in Nat /\ b.first \in Nat /\ b.count \in Nat
    BY Zenon, AllocationFields
  <2>2. QED  BY <1>4, <2>1 DEF Apart, BlocksOf
<1>5. \A c \in HeapClients : live[c] # Null => live[c] \in Allocation  BY <1>1, Fields, Zenon
<1>6. Disjoint
  <2>1. ASSUME NEW c \in HeapClients, live[c] # Null
        PROVE  /\ BlocksOf(live[c]) \subseteq Meta .. block_count - 1
               /\ Address(live[c].first) <= live[c].ptr
               /\ live[c].ptr + live[c].size <= Address(live[c].first + live[c].count)
               /\ live[c].ptr % live[c].align = 0
    <3>1. Fits(live[c])  BY <1>1, <2>1, Zenon DEF LiveInv
    <3>2. BlocksOf(live[c]) \subseteq Meta .. block_count - 1  BY <1>3, <1>5, <2>1, <3>1, Zenon
    <3>3. QED  BY <3>1, <3>2, Zenon DEF Fits
  <2>2. ASSUME NEW c \in HeapClients, NEW d \in HeapClients, c # d, live[c] # Null, live[d] # Null
        PROVE  BlocksOf(live[c]) \cap BlocksOf(live[d]) = {}
    <3>1. Apart(live[c], live[d])  BY <1>1, <2>2, Zenon DEF LiveInv
    <3>2. QED  BY <1>4, <1>5, <2>2, <3>1, Zenon
  <2>3. QED  BY <2>1, <2>2, Zenon DEF Disjoint
<1>7. Separate  BY <1>1, Zenon DEF Separate, LiveInv, Bounded
<1>8. FreesItsOwn
  <2>1. ASSUME op.kind = "free"
        PROVE  op.id # 0 /\ op.first = op.alloc.first
    BY Zenon, <1>1, <2>1 DEF OpInv, Working
  <2>2. QED  BY <2>1, FreeEnds, Zenon DEF FreesItsOwn
<1>9. SizeExact
  <2>1. ASSUME NEW c \in HeapClients, query[c].at = "done"
        PROVE  query[c].result = Address(live[c].first + live[c].count) - live[c].ptr
    <3>1. query[c].at # "no"  BY Zenon, <2>1
    <3>2. QED  BY <1>1, <2>1, <3>1, Zenon DEF QueryInv
  <2>2. QED  BY <2>1, Zenon DEF SizeExact
<1>10. StatsExact
  <2>1. SUFFICES ASSUME op = Idle
        PROVE  /\ used_blocks = Meta + Cardinality(TakenBlocks)
               /\ stats.used = Cardinality(TakenBlocks) * block_size
               /\ stats.used + stats.free = (block_count - Meta) * block_size
               /\ TakenBlocks =
                    UNION {BlocksOf(live[c]) : c \in {d \in HeapClients : live[d] # Null}}
    BY Zenon DEF StatsExact, TakenBlocks
  <2>2. op.kind = "none" /\ ~Working  BY Zenon, <2>1, IdleOp DEF Working
  <2>3. /\ Cardinality(TakenBlocks) = used_blocks - Meta + 0
        /\ stats.used = (used_blocks - Meta) * block_size
        /\ stats.free = (block_count - used_blocks) * block_size
    BY Zenon, <1>1, <2>2 DEF CountInv
  <2>4. /\ used_blocks = Meta + Cardinality(TakenBlocks)
        /\ Cardinality(TakenBlocks) = used_blocks - Meta
    BY <1>2, <2>3
  <2>5. stats.used = Cardinality(TakenBlocks) * block_size  BY <2>3, <2>4, Zenon
  <2>6. stats.used + stats.free = (block_count - Meta) * block_size
    <3>1. (used_blocks - Meta) * block_size + (block_count - used_blocks) * block_size
            = ((used_blocks - Meta) + (block_count - used_blocks)) * block_size
      BY <1>2, Distributes
    <3>2. (used_blocks - Meta) + (block_count - used_blocks) = block_count - Meta  BY <1>2
    <3>3. QED  BY <2>3, <3>1, <3>2, Zenon
  <2>7. ASSUME NEW b \in TakenBlocks
        PROVE  \E c \in HeapClients : live[c] # Null /\ b \in BlocksOf(live[c])
    BY <1>1, <2>2, Zenon DEF Covered, TakenBlocks
  <2>8. ASSUME NEW c \in HeapClients, live[c] # Null, NEW b \in BlocksOf(live[c])
        PROVE  b \in TakenBlocks
    <3>1. Fits(live[c]) /\ ids[live[c].first] # 0 /\ ids[b] = ids[live[c].first]
      BY <1>1, <2>8, Zenon DEF LiveInv
    <3>2. b \in Meta .. block_count - 1  BY <1>3, <1>5, <2>8, <3>1, Zenon
    <3>3. b \in Blocks /\ b >= Meta  BY <1>2, <3>2 DEF Blocks
    <3>4. QED  BY <3>1, <3>3, Zenon DEF TakenBlocks
  <2>9. TakenBlocks = UNION {BlocksOf(live[c]) : c \in {d \in HeapClients : live[d] # Null}}
    BY <2>7, <2>8, Zenon
  <2>10. QED  BY <2>4, <2>5, <2>6, <2>9, Zenon
<1>11. QED  BY <1>1, <1>6, <1>7, <1>8, <1>9, <1>10, Zenon DEF HeapExact

(* BitmapHeap.cpp: at every moment, whatever the clients allocate, free    *)
(* and ask for the size of, allocations overlap neither each other nor the *)
(* bitmap, free() releases the blocks of its own and no others, size()     *)
(* without the lock is exact, the statistics are those of the bitmap, and  *)
(* only after free() of the last allocation may a search not end.          *)
THEOREM HeapStaysExact == HeapSpec => []HeapExact
<1>1. HeapSpec => []HeapInv
  BY HeapInitInv, HeapNextKeeps, PTL DEF HeapSpec
<1>2. QED  BY <1>1, HeapInvExact, PTL
=============================================================================
