---------------------------- MODULE MemorySpace ----------------------------
(***************************************************************************)
(* The userland part of a process' memory space: the regions of            *)
(* memory/VirtualMemoryManager.cpp below the kernel, kept in the tree of   *)
(* AVLTree by address, as mmap(), munmap(), exec() and fork() change them. *)
(* A page number plus one is the key of the region that starts there.      *)
(* Userland regions need no lock: only the process' thread changes them.   *)
(*                                                                         *)
(* What a process maps is the image that exec() loads (the signal          *)
(* trampoline, the segments of the program, the dynamic loader, the stack) *)
(* and what mmap() gave it.  The kernel stack of its thread lies at the    *)
(* top of the userland part and belongs to no one's exec(): it is not      *)
(* marked as a userspace region.  Physical pages are left out.             *)
(***************************************************************************)
EXTENDS Integers, Sequences, FiniteSets, SequencesExt

CONSTANTS
    NumKeys,      \* pages below _virtual_addr
    Image,        \* the regions that exec() maps, <<key, pages>>, in its order
    KernelStack,  \* <<key, pages>>
    MmapSizes, MaxRegions,
    MaxForks      \* bound on the calls of fork()

VARIABLES
    userland_map,  \* the tree, a record as in AVLTree
    pages,          \* by key: the pages of the region, 0 when there is none
    doing,         \* what the process is in: "user", "exec", "load", "fork"
    halted,        \* a panic, a failed assertion or a null pointer
    todo,          \* exec(): the regions still to free, or to map
    walk,          \* fork(): the traversal, and the regions copied
    child,         \* fork(): the tree of the new memory space
    forks          \* calls of fork()

vars == <<userland_map, pages, doing, halted, todo, walk, child, forks>>

Tree == INSTANCE AVLTree WITH t <- userland_map, removed <- TRUE, faulted <- FALSE

Keys == Tree!Keys
null == Tree!null
Regions == Tree!Nodes
Pages(k) == k .. k + pages[k] - 1
Ascending(S) == LET InS(k) == k \in S IN SelectSeq([k \in Keys |-> k], InS)
ImageKeys == {KernelStack[1]} \cup {Image[i][1] : i \in DOMAIN Image}
Idle == [node |-> null, nodes |-> <<>>, copied |-> <<>>]
EmptyTree ==
    [child |-> [side \in Tree!Sides |-> [k \in Keys |-> null]],
     parent |-> [k \in Keys |-> null], height |-> [k \in Keys |-> 0], m_tree |-> null]

(* The regions with a size are the ones in the tree, and no traversal is   *)
(* left over.                                                              *)
TypeOK ==
    /\ Tree!TypeOK
    /\ pages \in [Keys -> 0 .. NumKeys] /\ Regions = {k \in Keys : pages[k] # 0}
    /\ doing \in {"user", "exec", "load", "fork"} /\ halted \in BOOLEAN
    /\ doing # "fork" => walk = Idle
    /\ doing = "user" => todo = <<>>

(* A new process' thread has its kernel stack; exec() does the rest.       *)
Init ==
    /\ userland_map = Tree!Inserted(EmptyTree, KernelStack[1])
    /\ pages = [k \in Keys |-> IF k = KernelStack[1] THEN KernelStack[2] ELSE 0]
    /\ doing = "load" /\ todo = Image
    /\ halted = FALSE /\ walk = Idle /\ child = EmptyTree /\ forks = 0

----------------------------------------------------------------------------
(* find_region(): the region that has a page, by the search of the tree.   *)
find_region(page) == {k \in Regions : page \in Pages(k)}

(* traverse_unmapped(): the holes, <<start, pages>>, between the regions,  *)
(* which the traversal meets in the order of their addresses.              *)
traverse_unmapped ==
    LET used == UNION {Pages(k) : k \in Regions}
    IN  {<<a, n>> \in Keys \X Keys :
            /\ a + n - 1 <= NumKeys /\ (a .. a + n - 1) \cap used = {}
            /\ a = 1 \/ a - 1 \in used
            /\ a + n - 1 = NumKeys \/ a + n \in used}

(* The smallest hole that is large enough, the first of those.             *)
Better(g, h) == g[2] < h[2] \/ (g[2] = h[2] /\ g[1] < h[1])
find_free_region(n) ==
    LET fits == {h \in traverse_unmapped : h[2] >= n}
    IN  {h[1] : h \in {h \in fits : \A g \in fits : ~Better(g, h)}}

Map(k, n) ==
    /\ userland_map' = Tree!Inserted(userland_map, k)
    /\ pages' = [pages EXCEPT ![k] = n]

(* Asks for the parent of the root when that has two children.             *)
Unmap(k) ==
    IF Tree!RemoveFaults(userland_map, k)
    THEN halted' = TRUE /\ UNCHANGED <<userland_map, pages>>
    ELSE /\ userland_map' = Tree!Without(userland_map, k)
         /\ pages' = [pages EXCEPT ![k] = 0] /\ UNCHANGED halted

----------------------------------------------------------------------------
(* mmap(): allocate_region(), which panics when nothing fits.              *)
mmap(n) ==
    /\ ~halted /\ doing = "user" /\ Cardinality(Regions) < MaxRegions
    /\ IF find_free_region(n) = {} THEN halted' = TRUE /\ UNCHANGED <<userland_map, pages>>
       ELSE \E k \in find_free_region(n) : Map(k, n) /\ UNCHANGED halted
    /\ UNCHANGED <<doing, todo, walk, child, forks>>

(* munmap() of a region that mmap() gave: free().                          *)
munmap(page) ==
    /\ ~halted /\ doing = "user"
    /\ \E k \in find_region(page) \ ImageKeys : Unmap(k)
    /\ UNCHANGED <<doing, todo, walk, child, forks>>

(* exec(): free_current_userspace() collects the userspace regions and     *)
(* frees them one by one.                                                  *)
exec_all ==
    /\ ~halted /\ doing = "user"
    /\ doing' = "exec" /\ todo' = Ascending(Regions)
    /\ UNCHANGED <<userland_map, pages, halted, walk, child, forks>>

exec ==
    /\ ~halted /\ doing = "user"
    /\ doing' = "exec"
    /\ todo' = Ascending(Regions \ {KernelStack[1]})
    /\ UNCHANGED <<userland_map, pages, halted, walk, child, forks>>

free_next ==
    /\ ~halted /\ doing = "exec"
    /\ IF todo = <<>>
       THEN doing' = "load" /\ todo' = Image /\ UNCHANGED <<userland_map, pages, halted>>
       ELSE Unmap(Head(todo)) /\ todo' = Tail(todo) /\ UNCHANGED doing
    /\ UNCHANGED <<walk, child, forks>>

(* allocate_region_at() of the next region of the image.  It maps nothing  *)
(* when a region has that page; the loaders do not look.                   *)
load_next ==
    /\ ~halted /\ doing = "load"
    /\ todo' = Tail(todo) /\ doing' = IF todo' = <<>> THEN "user" ELSE "load"
    /\ IF find_region(Head(todo)[1]) # {} THEN UNCHANGED <<userland_map, pages>>
       ELSE Map(Head(todo)[1], Head(todo)[2])
    /\ UNCHANGED <<halted, walk, child, forks>>

----------------------------------------------------------------------------
(* fork(): copy_current_memory_space() traverses the tree, with a stack.   *)
fork ==
    /\ ~halted /\ doing = "user"
    /\ forks < MaxForks /\ forks' = forks + 1
    /\ doing' = "fork" /\ child' = EmptyTree
    /\ walk' = [Idle EXCEPT !.node = userland_map.m_tree]
    /\ UNCHANGED <<userland_map, pages, halted, todo>>

push ==
    /\ ~halted /\ doing = "fork" /\ walk.node # null
    /\ walk' = [walk EXCEPT !.node = userland_map.child["left"][walk.node],
                            !.nodes = <<walk.node>> \o walk.nodes]
    /\ UNCHANGED <<userland_map, pages, doing, halted, todo, child, forks>>

(* The callback: the region is mapped in the child, and those pages for    *)
(* the moment of the copying in the parent's own tree too, before the      *)
(* traversal goes on to the right.  The kernel stack is mapped above       *)
(* _virtual_addr for that.                                                 *)
visit ==
    /\ ~halted /\ doing = "fork" /\ walk.node = null /\ walk.nodes # <<>>
    /\ LET n == Head(walk.nodes)
           at == IF n = KernelStack[1] THEN {null} ELSE find_free_region(pages[n])
           with(k) == IF k = null THEN userland_map ELSE Tree!Inserted(userland_map, k)
           without(k) == IF k = null THEN userland_map ELSE Tree!Without(with(k), k)
       IN  IF at = {} \/ \E k \in at : k # null /\ Tree!RemoveFaults(with(k), k)
           THEN halted' = TRUE /\ UNCHANGED <<userland_map, walk, child>>
           ELSE \E k \in at :
                  /\ userland_map' = without(k)
                  /\ walk' = [node |-> without(k).child["right"][n],
                              nodes |-> Tail(walk.nodes), copied |-> Append(walk.copied, n)]
                  /\ child' = IF child.height[n] # 0 THEN child ELSE Tree!Inserted(child, n)
                  /\ UNCHANGED halted
    /\ UNCHANGED <<pages, doing, todo, forks>>

(* The parent goes on, or the child does.  (One without its kernel stack   *)
(* faults when its thread is entered.)                                     *)
forked(in_child) ==
    /\ ~halted /\ doing = "fork" /\ walk.node = null /\ walk.nodes = <<>>
    /\ in_child => child.height[KernelStack[1]] # 0
    /\ doing' = "user" /\ walk' = Idle
    /\ IF in_child
       THEN /\ userland_map' = child
            /\ pages' = [k \in Keys |-> IF child.height[k] = 0 THEN 0 ELSE pages[k]]
       ELSE UNCHANGED <<userland_map, pages>>
    /\ child' = EmptyTree
    /\ UNCHANGED <<halted, todo, forks>>

Next ==
    \/ \E n \in MmapSizes : mmap(n)
    \/ \E page \in Keys : munmap(page)
    \/ exec \/ free_next \/ load_next \/ fork \/ push \/ visit
    \/ \E in_child \in BOOLEAN : forked(in_child)

Spec == Init /\ [][Next]_vars

----------------------------------------------------------------------------
(* The tree that holds the regions is a search tree, with its links and    *)
(* heights in order, after any history of mappings, copies and removals.   *)
TreeSearchable == Tree!Searchable
TreeLinked == Tree!Linked /\ Tree!HeightsExact

(* No page belongs to two regions: mmap() takes a hole, and the image that *)
(* exec() loads meets nothing but the kernel stack.                        *)
NoOverlap == \A k, l \in Regions : k # l => Pages(k) \cap Pages(l) = {}

(* exec() leaves the image and the kernel stack and nothing of the old     *)
(* program, whatever the process had mapped and however the tree lay.      *)
ExecFresh == [][doing = "load" /\ doing' = "user" => Regions' = ImageKeys]_vars

(* exec() always gets there: freeing the regions in the order of their     *)
(* addresses, it never removes a root with two children, nor does any      *)
(* region of the image find its place taken.                               *)
ExecNeverHalts == [][(doing \in {"exec", "load"}) => ~halted']_vars

(* The child of fork() has each region of its parent, copied once.         *)
ForkCopies ==
    doing = "fork" /\ walk.node = null /\ walk.nodes = <<>> => walk.copied = Ascending(Regions)
=============================================================================
