------------------------------ MODULE MCMemory ------------------------------
(***************************************************************************)
(* The memory that programs and the kernel ask for, in seven situations:   *)
(* the kernel heap with three clients; the pages of physical memory; the   *)
(* userland regions of a process; the tree of regions by itself, with any  *)
(* insertions and removals, and with insertions alone; the heap of the C   *)
(* library, with two pointers of a program; and two strings of the kernel. *)
(***************************************************************************)
EXTENDS PhysicalMemory, BitmapHeap, TLC

CONSTANTS NumKeys, Image, KernelStack, MmapSizes, MaxRegions, MaxForks, TreeKeys

VARIABLES situation, t, removed, faulted,
          userland_map, pages, doing, halted, todo, walk, child, forks,
          libc_ids, libc_last_alloc, libc_used_blocks, bytes, pointers, ended,
          blocks, string, asserted, text

spaceVars == <<userland_map, pages, doing, halted, todo, walk, child, forks>>
treeVars == <<t, removed, faulted>>
libcVars == <<libc_ids, libc_last_alloc, libc_used_blocks, bytes, pointers, ended>>
stringVars == <<blocks, string, asserted, text>>
allVars == <<situation, vars, spaceVars, treeVars, heapVars, libcVars, stringVars>>

Space == INSTANCE MemorySpace
Tree == INSTANCE AVLTree WITH NumKeys <- TreeKeys
Libc == INSTANCE LibcHeap
    WITH block_count <- 8, Meta <- 2, block_size <- 6, Base <- 20, Rest <- 5,
         Clients <- {"p", "q"}, Sizes <- {1, 5, 9}, ids <- libc_ids, last_alloc <- libc_last_alloc,
         used_blocks <- libc_used_blocks, memory <- bytes, live <- pointers, halted <- ended
Strings == INSTANCE LibkString
    WITH Objects <- {"s1", "s2"}, Chars <- {"x"}, Literals <- {<<>>, <<"x", "y">>}, MaxSize <- 4,
         Null <- None, Raw <- None, heap <- blocks

ASSUME Assumptions == PhysicalMemoryAssumption

(* The order of the holes by size is that of the real addresses: page 0,   *)
(* then the ones above the stack, above the loader, above the program.     *)
SmallImage == <<<<2, 1>>, <<7, 2>>, <<12, 1>>, <<15, 1>>>>
SmallStack == <<18, 1>>

ClientSymmetry == Permutations(Clients)

MemoryInit ==
    /\ situation \in {"heap", "pages", "space", "tree", "insertions", "libc", "strings"}
    /\ Init /\ Space!Init /\ Tree!Init /\ HeapInit /\ Libc!Init /\ Strings!Init

HeapStep ==
    situation = "heap" /\ HeapNext /\ UNCHANGED <<situation, vars, spaceVars, treeVars, libcVars, stringVars>>
PageStep ==
    situation = "pages" /\ Next /\ UNCHANGED <<situation, spaceVars, treeVars, heapVars, libcVars, stringVars>>
SpaceStep ==
    situation = "space" /\ Space!Next /\ UNCHANGED <<situation, vars, treeVars, heapVars, libcVars, stringVars>>
ForTree(s, A) == situation = s /\ A /\ UNCHANGED <<situation, vars, spaceVars, heapVars, libcVars, stringVars>>
TreeStep == ForTree("tree", Tree!Next)
InsertStep == ForTree("insertions", \E key \in 1 .. TreeKeys : Tree!insert(key))
LibcStep ==
    situation = "libc" /\ Libc!Next /\ UNCHANGED <<situation, vars, spaceVars, treeVars, heapVars, stringVars>>
StringStep ==
    /\ situation = "strings" /\ Strings!Next
    /\ UNCHANGED <<situation, vars, spaceVars, treeVars, heapVars, libcVars>>

MemorySpec ==
    /\ MemoryInit
    /\ [][HeapStep \/ PageStep \/ SpaceStep \/ TreeStep \/ InsertStep \/ LibcStep \/ StringStep]_allVars

----------------------------------------------------------------------------
(* The type invariants of the components.                                 *)
TypesOK ==
    /\ situation = "pages" => TypeOK
    /\ situation = "space" => Space!TypeOK
    /\ situation \in {"tree", "insertions"} => Tree!TypeOK
    /\ situation = "libc" => Libc!TypeOK
    /\ situation = "strings" => Strings!TypeOK

(* What a program wrote into memory of malloc() or realloc() is there as   *)
(* long as it owns it, moved along by realloc(); the memory is aligned,    *)
(* inside the region and behind the bitmap, and used_blocks is exact.      *)
OwnBytesKept == situation = "libc" => Libc!OwnBytesKept

(* A tree is a search tree after any insertions and removals, rotations    *)
(* included: every key in it is found from the root, pointers up and down  *)
(* agree and heights are exact.  As long as nothing was removed the two    *)
(* sides of a node differ by at most one in height.  In the tree of the    *)
(* regions of a process no page belongs to two of them: mmap() takes a     *)
(* hole, and the image that exec() loads meets only the kernel stack.  A   *)
(* string holds its text and a NUL whatever was inserted, erased, copied   *)
(* and moved, in an array that is large enough and nobody else's.          *)
ContainersSound ==
    /\ TypesOK
    /\ situation \in {"tree", "insertions"} => Tree!Searchable /\ Tree!Linked /\ Tree!HeightsExact
    /\ situation = "space" => Space!TreeSearchable /\ Space!TreeLinked /\ Space!NoOverlap
    /\ situation = "insertions" => Tree!AVLBalance
    /\ situation = "strings" => Strings!StringsSound

(* exec() always gets there, and leaves the image and the kernel stack and *)
(* nothing of the old program, whatever the process had mapped: freeing    *)
(* the regions in the order of their addresses, it never removes a root    *)
(* with two children, nor does a region of the image find its place taken. *)
ExecFresh == Space!ExecFresh /\ Space!ExecNeverHalts
=============================================================================
