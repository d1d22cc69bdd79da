-------------------------------- MODULE Ext2 --------------------------------
(***************************************************************************)
(* Files of filesystem/Ext2FileSystem.cpp: Ext2File::write() and read(),   *)
(* the iterator over the blocks of a file, and allocate_blocks(), which    *)
(* several writers run at once under the lock of the superblock and the    *)
(* locks of the block groups.                                              *)
(*                                                                         *)
(* Every thread writes a file of its own.  A block holds BlockSize cells   *)
(* of data or PerBlock pointers.  The locks are taken in one step, as a    *)
(* mutex that excludes; module Mutex is about the mutex itself.            *)
(***************************************************************************)
EXTENDS Integers, Sequences, FiniteSets, SequencesExt

CONSTANTS
    Threads,
    NDirect,     \* direct pointers of an inode, 12
    PerBlock,    \* m_inodes_per_block: pointers in a block
    BlockSize,   \* m_block_size, in cells
    GroupSize,   \* blocks_per_block_group
    BlockCount,  \* block_count of the superblock
    Metadata,    \* the blocks of the superblock, descriptors, bitmaps and inodes
    FileSizes,   \* FileSizes[t]: cells t's file may have when the system starts
    FirstBlock,  \* FirstBlock[t]: first block of that file
    InodeGroup,  \* InodeGroup[t]: block group of its inode
    Writes,      \* Writes[t]: t's writes, pairs of an offset and a number of cells
    MaxWrites    \* bound: number of writes of a thread

Null == -1
ceil_div(a, b) == (a + b - 1) \div b
NGroups == ceil_div(BlockCount, GroupSize)  \* m_number_of_block_groups
Groups == 0 .. NGroups - 1
BlockNumbers == 0 .. BlockCount - 1
GroupOf(b) == b \div GroupSize

VARIABLES
    unallocated,  \* unallocated_blocks of the superblock
    group,        \* of each group: its count unallocated, and its lock
    bitmap,       \* the blocks marked used
    inode,        \* the inode of each thread's file, with m_size
    on_disk,      \* the inode as the table of inodes has it
    pointers,     \* contents of the blocks as indirect blocks
    contents,     \* contents of the blocks as data
    m_lock,       \* the lock of each file
    thread,       \* what each thread is about
    expected,     \* what each file should contain (history)
    halted        \* an assertion has failed or a bad address was used

diskVars == <<unallocated, group, bitmap>>
fileVars == <<inode, on_disk, pointers, contents, m_lock, expected>>
vars == <<diskVars, fileVars, thread, halted>>

----------------------------------------------------------------------------
(* block_pointer_t: the path from the inode to the block of an index.      *)
Pointer(d, s, dd, t) == [direct |-> d, singly |-> s, doubly |-> dd, triply |-> t]

from_linear_index(i) ==
    LET j == i - NDirect
        k == j - PerBlock
        l == k - PerBlock * PerBlock
    IN  IF i < NDirect THEN Pointer(i, 0, 0, 0)
        ELSE IF j < PerBlock THEN Pointer(j, 1, 0, 0)
        ELSE IF k < PerBlock * PerBlock
             THEN Pointer(k % PerBlock, k \div PerBlock, 1, 0)
        ELSE Pointer(l % PerBlock, (l \div PerBlock) % PerBlock, l \div (PerBlock * PerBlock), 1)

(* update_blocks(): the number of indirect blocks that change when the     *)
(* iterator it goes to the pointer new.                                    *)
Invalidated(it, new) ==
    IF new.triply # it.pointer.triply THEN 3
    ELSE IF new.doubly # it.pointer.doubly THEN 2
    ELSE IF new.singly # it.pointer.singly THEN 1 ELSE 0

(* One level of update_blocks(), if the iterator leaves its indirect       *)
(* block: a new block is linked in the block above, if the iterator is at  *)
(* one, or in the inode, and the block that is linked there is kept.       *)
update_level(s, n, level, child, above, entry, new_blocks) ==
    LET parent == IF above = "inode" THEN Null ELSE s.it[above]
        link == new_blocks # <<>>
        ino == IF link /\ parent = Null THEN [s.inode EXCEPT ![child] = new_blocks[level]] ELSE s.inode
        ptrs == IF link /\ parent # Null THEN [s.pointers EXCEPT ![parent][entry] = new_blocks[level]] ELSE s.pointers
    IN  IF n < level THEN s
        ELSE [inode |-> ino, pointers |-> ptrs,
              it |-> [s.it EXCEPT ![child] = IF parent # Null THEN ptrs[parent][entry]
                                             ELSE IF entry # 0 THEN ino[child] ELSE Null]]

(* The iterator at index i, the inode and the pointers after               *)
(* update_blocks(), which links the indirect blocks in new_blocks if there *)
(* are any and keeps the blocks it goes through.                           *)
update_blocks(it, i, ino, ptrs, new_blocks) ==
    LET new == from_linear_index(i)
        n == Invalidated(it, new)
        Levels(s, p, k) ==
            update_level(update_level(update_level(s, k, 3, "triple", "inode", p.triply, new_blocks),
                                      k, 2, "double", "triple", p.doubly, new_blocks),
                         k, 1, "single", "double", p.singly, new_blocks)
    IN  Levels([it |-> [it EXCEPT !.index = i, !.pointer = new], inode |-> ino, pointers |-> ptrs], new, n)

(* The constructor of the iterator, and next().                            *)
Start == [index |-> 0, pointer |-> Pointer(0, 0, 0, 0), single |-> Null, double |-> Null, triple |-> Null]
Iterator(offset, ino, ptrs) == update_blocks(Start, offset \div BlockSize, ino, ptrs, <<>>).it
next(it, ino, ptrs) == update_blocks(it, it.index + 1, ino, ptrs, <<>>).it

get(it, ino, ptrs) == IF it.index < NDirect THEN ino.direct[it.index]
                                            ELSE ptrs[it.single][it.pointer.direct]

----------------------------------------------------------------------------
(* The pieces in which read() and write() go through a range: the block,   *)
(* the cells of the buffer, and the first cell of the block.  A piece is   *)
(* as long as a block even where it does not start at the first cell.      *)
Pieces(offset, bytes, ino, ptrs) ==
    LET its[k \in 0 .. ceil_div(bytes, BlockSize)] ==
            IF k = 0 THEN Iterator(offset, ino, ptrs) ELSE next(its[k - 1], ino, ptrs)
    IN  [k \in 1 .. ceil_div(bytes, BlockSize) |->
            [block |-> get(its[k - 1], ino, ptrs),
             from |-> (k - 1) * BlockSize,
             size |-> IF k * BlockSize <= bytes THEN BlockSize ELSE bytes - (k - 1) * BlockSize,
             at |-> IF k = 1 THEN offset % BlockSize ELSE 0]]

(* Ext2File::read(): the cells it returns; Null is what lies behind a      *)
(* block.                                                                  *)
read(t, offset, count) ==
    LET bytes == IF offset + count > inode[t].size THEN inode[t].size - offset ELSE count
        ps == Pieces(offset, bytes, inode[t], pointers)
    IN  FlattenSeq([k \in DOMAIN ps |-> [c \in 1 .. ps[k].size |->
            IF ps[k].at + c > BlockSize THEN Null ELSE contents[ps[k].block][ps[k].at + c]]])

(* The loop of write(): a piece is copied, and the rest of its block is    *)
(* cleared.                                                                *)
store_buffer(data, ps, buffer) ==
    [b \in BlockNumbers |->
        LET mine == {k \in DOMAIN ps : ps[k].block = b} IN
        IF mine = {} THEN data[b]
        ELSE LET p == ps[CHOOSE k \in mine : TRUE] IN
             [c \in 1 .. BlockSize |-> IF c <= p.at THEN data[b][c]
                                       ELSE IF c <= p.at + p.size THEN buffer[p.from + c - p.at] ELSE 0]]
----------------------------------------------------------------------------
(* The disk that mount() finds: the blocks of a file follow each other,    *)
(* and the direct pointers suffice for them.                               *)
InitialBlocks(t, size) == FirstBlock[t] .. FirstBlock[t] + ceil_div(size, BlockSize) - 1
Free(g) == {b \in BlockNumbers \ bitmap : GroupOf(b) = g}

Ext2Assumption ==
    /\ \A t \in Threads : \A size \in FileSizes[t] :
          size <= NDirect * BlockSize /\ InitialBlocks(t, size) \subseteq BlockNumbers \ Metadata
    /\ \A t, u \in Threads : \A size \in FileSizes[t], size2 \in FileSizes[u] :
          t # u => InitialBlocks(t, size) \cap InitialBlocks(u, size2) = {}

Idle == [pc |-> "idle", offset |-> 0, bytes |-> 0, purpose |-> "data", count |-> 0, group |-> 0,
         allocated |-> 0, wanted |-> 0, got |-> <<>>, data |-> <<>>, it |-> Start, writes |-> 0]

TypeOK ==
    /\ unallocated \in 0 .. BlockCount /\ bitmap \subseteq BlockNumbers /\ halted \in BOOLEAN
    /\ group \in [Groups -> [unallocated : 0 .. GroupSize, locked : BOOLEAN]]
    /\ m_lock \in [Threads -> BOOLEAN]
    /\ \A t \in Threads :
          /\ thread[t].pc \in {"idle", "reserve", "group", "scan", "got", "append", "metadata", "store"}
          /\ DOMAIN thread[t] = DOMAIN Idle

Init ==
    /\ \E size \in [Threads -> UNION Range(FileSizes)] :
          /\ \A t \in Threads : size[t] \in FileSizes[t]
          /\ inode = [t \in Threads |->
                [direct |-> [i \in 0 .. NDirect - 1 |-> IF i < ceil_div(size[t], BlockSize)
                                                        THEN FirstBlock[t] + i ELSE Null],
                 single |-> Null, double |-> Null, triple |-> Null, size |-> size[t]]]
    /\ bitmap = Metadata \cup UNION {InitialBlocks(t, inode[t].size) : t \in Threads}
    /\ unallocated = Cardinality(BlockNumbers \ bitmap)
    /\ group = [g \in Groups |-> [unallocated |-> Cardinality(Free(g)), locked |-> FALSE]]
    /\ on_disk = inode
    /\ pointers = [b \in BlockNumbers |-> [k \in 0 .. PerBlock - 1 |-> Null]]
    /\ contents = [b \in BlockNumbers |-> [c \in 1 .. BlockSize |-> 0]]
    /\ expected = [t \in Threads |-> [cells |-> [c \in 1 .. inode[t].size |-> 0], known |-> TRUE]]
    /\ m_lock = [t \in Threads |-> FALSE] /\ thread = [t \in Threads |-> Idle] /\ halted = FALSE

----------------------------------------------------------------------------
At(t, p) == ~halted /\ thread[t].pc = p
Goto(t, p) == thread' = [thread EXCEPT ![t].pc = p]

(* Ext2File::write() grows the file under its lock: with the blocks that   *)
(* are missing, or without any.                                            *)
write(t, offset, bytes) ==
    LET grows == offset + bytes > inode[t].size
        missing == ceil_div(offset + bytes, BlockSize) - ceil_div(inode[t].size, BlockSize)
    IN  /\ At(t, "idle") /\ thread[t].writes < MaxWrites
        /\ grows => ~m_lock[t]
        /\ m_lock' = [m_lock EXCEPT ![t] = @ \/ grows]
        /\ thread' = [thread EXCEPT ![t] =
              [Idle EXCEPT !.pc = IF ~grows THEN "store" ELSE IF missing > 0 THEN "reserve" ELSE "append",
                           !.offset = offset, !.bytes = bytes, !.count = missing, !.writes = thread[t].writes + 1]]
        /\ UNCHANGED <<diskVars, inode, on_disk, pointers, contents, expected, halted>>

(* allocate_blocks() takes count off the superblock under its lock, or     *)
(* returns no block.                                                       *)
reserve(t) ==
    LET enough == unallocated >= thread[t].count IN
    /\ At(t, "reserve")
    /\ unallocated' = IF enough THEN unallocated - thread[t].count ELSE unallocated
    /\ thread' = [thread EXCEPT ![t].pc = IF enough THEN "group" ELSE "got", ![t].group = 0, ![t].got = <<>>,
                                ![t].wanted = thread[t].count]
    /\ UNCHANGED <<group, bitmap, fileVars, halted>>

(* In one group after the other, under its lock, it takes what the group   *)
(* has off the group's count ...                                           *)
take_group(t) ==
    LET g == thread[t].group
        done == thread[t].count = 0 \/ g = NGroups
        n == IF thread[t].count < group[g].unallocated THEN thread[t].count ELSE group[g].unallocated
    IN  /\ At(t, "group")
        /\ \/ done /\ Goto(t, "got") /\ UNCHANGED group
           \/ /\ ~done /\ ~group[g].locked /\ n = 0
              /\ thread' = [thread EXCEPT ![t].group = g + 1]
              /\ UNCHANGED group
           \/ /\ ~done /\ ~group[g].locked /\ n > 0
              /\ group' = [group EXCEPT ![g] = [unallocated |-> @.unallocated - n, locked |-> TRUE]]
              /\ thread' = [thread EXCEPT ![t].pc = "scan", ![t].allocated = n, ![t].count = @ - n]
        /\ UNCHANGED <<unallocated, bitmap, fileVars, halted>>

blocks_in_group(g) == IF g = NGroups - 1 THEN BlockCount % GroupSize ELSE GroupSize

(* ... and as many of its blocks, the lowest that are free.                *)
Lowest(S, n) == {b \in S : Cardinality({c \in S : c < b}) < n}
Ascending(S) == [i \in 1 .. Cardinality(S) |-> CHOOSE b \in S : Cardinality({c \in S : c < b}) = i - 1]
Take(g, n) == Lowest({b \in Free(g) : b % GroupSize < blocks_in_group(g)}, n)

(* A defect: the bits are not set.                                         *)
scan_unmarked(t) ==
    LET g == thread[t].group
        blocks == Take(g, thread[t].allocated) IN
    /\ At(t, "scan")
    /\ group' = [group EXCEPT ![g].locked = FALSE]
    /\ thread' = [thread EXCEPT ![t].pc = "group", ![t].group = g + 1, ![t].allocated = 0,
                                ![t].got = @ \o Ascending(blocks)]
    /\ UNCHANGED <<unallocated, bitmap, fileVars, halted>>

scan(t) ==
    LET g == thread[t].group
        blocks == Take(g, thread[t].allocated) IN
    /\ At(t, "scan")
    /\ bitmap' = bitmap \cup blocks
    /\ group' = [group EXCEPT ![g].locked = FALSE]
    /\ thread' = [thread EXCEPT ![t].pc = "group", ![t].group = g + 1, ![t].allocated = 0,
                                ![t].got = @ \o Ascending(blocks)]
    /\ UNCHANGED <<unallocated, fileVars, halted>>

----------------------------------------------------------------------------
(* append_blocks(): the iterator goes on, links the indirect blocks that   *)
(* this takes, and the block is entered.                                   *)
enter(t, new_blocks) ==
    LET u == update_blocks(thread[t].it, thread[t].it.index + 1, inode[t], pointers, new_blocks)
        block == Head(thread[t].data)
    IN  /\ thread' = [thread EXCEPT ![t].pc = "append", ![t].it = u.it, ![t].data = Tail(@), ![t].got = <<>>]
        /\ IF u.it.single # Null
           THEN /\ pointers' = [u.pointers EXCEPT ![u.it.single][u.it.pointer.direct] = block]
                /\ inode' = [inode EXCEPT ![t] = u.inode]
           ELSE /\ inode' = [inode EXCEPT ![t] = [u.inode EXCEPT !.direct[u.it.pointer.direct] = block]]
                /\ pointers' = u.pointers

(* The blocks that allocate_blocks() returns to write(): without any it    *)
(* returns and leaves the file locked; an empty file uses an indirect      *)
(* block that it does not have in set().                                   *)
got_data(t) ==
    /\ At(t, "got") /\ thread[t].purpose = "data"
    /\ \/ thread[t].got = <<>> /\ thread' = [thread EXCEPT ![t] = [Idle EXCEPT !.writes = thread[t].writes]]
                                /\ UNCHANGED halted
       \/ thread[t].got # <<>> /\ inode[t].size = 0 /\ halted' = TRUE /\ UNCHANGED thread
       \/ /\ thread[t].got # <<>> /\ inode[t].size > 0
          /\ thread' = [thread EXCEPT ![t].pc = "append", ![t].data = thread[t].got, ![t].got = <<>>,
                                      ![t].it = Iterator(inode[t].size - 1, inode[t], pointers)]
          /\ UNCHANGED halted
    /\ UNCHANGED <<diskVars, fileVars>>

(* update_blocks() asserts that it has got the indirect blocks.            *)
got_indirect(t) ==
    /\ At(t, "got") /\ thread[t].purpose = "indirect"
    /\ IF Len(thread[t].got) = Invalidated(thread[t].it, from_linear_index(thread[t].it.index + 1))
       THEN enter(t, thread[t].got) /\ UNCHANGED halted
       ELSE halted' = TRUE /\ UNCHANGED <<thread, inode, pointers>>
    /\ UNCHANGED <<diskVars, on_disk, contents, m_lock, expected>>

(* The next block: it is entered, after indirect blocks are allocated if   *)
(* they are needed; after the last one the size is set.                    *)
append(t) ==
    LET n == Invalidated(thread[t].it, from_linear_index(thread[t].it.index + 1)) IN
    /\ At(t, "append")
    /\ \/ /\ thread[t].data = <<>>
          /\ inode' = [inode EXCEPT ![t].size = thread[t].offset + thread[t].bytes]
          /\ Goto(t, "metadata")
          /\ UNCHANGED pointers
       \/ thread[t].data # <<>> /\ n = 0 /\ enter(t, <<>>)
       \/ /\ thread[t].data # <<>> /\ n > 0
          /\ thread' = [thread EXCEPT ![t].pc = "reserve", ![t].purpose = "indirect", ![t].count = n]
          /\ UNCHANGED <<inode, pointers>>
    /\ UNCHANGED <<diskVars, on_disk, contents, m_lock, expected, halted>>

(* write_inode_metadata() takes the lock of the inode's group and does not *)
(* release it.                                                             *)
write_inode_metadata(t) ==
    /\ At(t, "metadata") /\ ~group[InodeGroup[t]].locked
    /\ group' = [group EXCEPT ![InodeGroup[t]].locked = TRUE]
    /\ on_disk' = [on_disk EXCEPT ![t] = inode[t]]
    /\ m_lock' = [m_lock EXCEPT ![t] = FALSE]
    /\ Goto(t, "store")
    /\ UNCHANGED <<unallocated, bitmap, inode, pointers, contents, expected, halted>>

(* What a write makes of a file; it is known if the write starts with a    *)
(* block and ends with one or with the file, since the rest of a block is  *)
(* cleared.                                                                *)
Written(t, offset, buffer) ==
    LET old == expected[t].cells
        end == offset + Len(buffer) IN
    [cells |-> [c \in 1 .. inode[t].size |->
                  IF c > offset /\ c <= end THEN buffer[c - offset]
                  ELSE IF c <= Len(old) THEN old[c] ELSE 0],
     known |-> expected[t].known /\ offset % BlockSize = 0 /\ offset <= Len(old)
                                 /\ (end % BlockSize = 0 \/ end = inode[t].size)]

(* The data: the cells are the number of the write.  A write that starts   *)
(* inside a block runs over its end, and the kernel may not survive it.    *)
store(t) ==
    LET buffer == [c \in 1 .. thread[t].bytes |-> thread[t].writes * 10 + c]
        ps == Pieces(thread[t].offset, thread[t].bytes, inode[t], pointers)
    IN  /\ At(t, "store")
        /\ contents' = store_buffer(contents, ps, buffer)
        /\ expected' = [expected EXCEPT ![t] = Written(t, thread[t].offset, buffer)]
        /\ thread' = [thread EXCEPT ![t] = [Idle EXCEPT !.writes = thread[t].writes]]
        /\ halted' \in {FALSE, thread[t].offset % BlockSize # 0}
        /\ UNCHANGED <<diskVars, inode, on_disk, pointers, m_lock>>

Step(t) ==
    \/ \E w \in Writes[t] : write(t, w[1], w[2])
    \/ reserve(t) \/ take_group(t) \/ scan(t)
    \/ got_data(t) \/ got_indirect(t) \/ append(t)
    \/ write_inode_metadata(t) \/ store(t)

Next == \E t \in Threads : Step(t)

Spec == Init /\ [][Next]_vars
----------------------------------------------------------------------------
(* The blocks of t's file, as iterators of their own find them and as one  *)
(* does that goes from block to block.                                     *)
Indexes(t) == 0 .. ceil_div(inode[t].size, BlockSize) - 1
Settled(t) == thread[t].pc \in {"idle", "store", "metadata"}
Iterators(t) == [i \in Indexes(t) |-> Iterator(i * BlockSize, inode[t], pointers)]
Stepping(t) ==
    LET its[i \in Indexes(t)] == IF i = 0 THEN Start ELSE next(its[i - 1], inode[t], pointers)
    IN  [i \in Indexes(t) |-> its[i]]
Found(its, t) == [i \in DOMAIN its |-> get(its[i], inode[t], pointers)]
IndirectBlocks(its) == UNION {{its[i].single, its[i].double, its[i].triple} : i \in DOMAIN its} \ {Null}
FileBlocks(its, t) == Range(Found(its, t)) \cup IndirectBlocks(its)

(* When a write has got its blocks, however the writers' allocations       *)
(* interleave and however deep the files get: no block belongs to the file *)
(* twice, to another file that has its blocks or to the metadata,          *)
(* every block of a file is marked used, and an iterator finds the same    *)
(* block by its index as by going through the file (append_blocks(),       *)
(* update_blocks(), from_linear_index()).                                  *)
FilesDisjoint ==
    LET Sound(t, its) ==
            /\ Found(its, t) = Found(Stepping(t), t)
            /\ Cardinality(Range(Found(its, t))) = Cardinality(Indexes(t))
            /\ Range(Found(its, t)) \cap IndirectBlocks(its) = {}
            /\ FileBlocks(its, t) \subseteq bitmap \ Metadata
            /\ \A u \in Threads \ {t} :
                  Settled(u) => FileBlocks(its, t) \cap FileBlocks(Iterators(u), u) = {}
    IN  \A t \in Threads : At(t, "store") => Sound(t, Iterators(t))

(* The count of the superblock, taken first, agrees with the counts of the *)
(* groups, and these with the bitmaps, up to what the writers are about to *)
(* take; so an allocation that got its share of the superblock's count     *)
(* finds all its blocks, whoever allocates meanwhile (allocate_blocks()).  *)
FreeCountsAgree ==
    LET Owed(t) == IF thread[t].pc \in {"group", "scan"} THEN thread[t].count ELSE 0
        Scanning(g) == {t \in Threads : thread[t].pc = "scan" /\ thread[t].group = g}
        Sum(f, S) == FoldFunctionOnSet(+, 0, f, S)
    IN  /\ Sum([g \in Groups |-> group[g].unallocated], Groups)
              = unallocated + Sum([t \in Threads |-> Owed(t)], Threads)
        /\ \A g \in Groups : Cardinality(Free(g))
              = group[g].unallocated + Sum([t \in Threads |-> thread[t].allocated], Scanning(g))
        /\ \A t \in Threads : thread[t].pc = "got" => Len(thread[t].got) \in {0, thread[t].wanted}

(* A file reads back as it was written, whole and, once nobody writes, from *)
(* any block on, when the writes respect the blocks (Ext2File::read(),     *)
(* write()).                                                               *)
ReadsBack ==
    \A t \in Threads : thread[t].pc = "idle" /\ ~m_lock[t] /\ expected[t].known =>
        \A i \in Indexes(t) : i = 0 \/ (\A u \in Threads : At(u, "idle")) =>
            read(t, i * BlockSize, inode[t].size) = SubSeq(expected[t].cells, i * BlockSize + 1, inode[t].size)
=============================================================================
