----------------------------- MODULE MCStorage -----------------------------
(***************************************************************************)
(* Files and the way of a block to the disk, in five situations: an AHCI   *)
(* port with two clients that take turns, and with two that do not but     *)
(* transfer once each; the cache of blocks, whose two users have a block   *)
(* each and share a third; two threads that write files of an ext2 file    *)
(* system; and the paths and open files of a process and its child.  The   *)
(* device of the port may fail.                                            *)
(***************************************************************************)
EXTENDS AHCIPort, FileSystemCache, TLC

CONSTANTS t1, t2, b1, b2, b3

VARIABLES situation,
          unallocated, group, bitmap, inode, on_disk, pointers, contents, m_lock, writer,
          expected, ext2_halted,
          children, write_contexts, proc, caller, inherited, calls, vfs_halted

ext2Vars == <<unallocated, group, bitmap, inode, on_disk, pointers, contents, m_lock, writer,
              expected, ext2_halted>>
vfsVars == <<children, write_contexts, proc, caller, inherited, calls, vfs_halted>>
allVars == <<vars, situation, cacheVars, ext2Vars, vfsVars>>

(* The blocks of the two users of the cache.                               *)
OneShared == (t1 :> {b1, b2}) @@ (t2 :> {b2, b3})

(* Three groups of 16 blocks, the last one of 12; files whose blocks are   *)
(* reached through all three levels of indirection.                        *)
Ext2 == INSTANCE Ext2
    WITH Threads <- {"a", "b"}, NDirect <- 2, PerBlock <- 2, BlockSize <- 2,
         GroupSize <- 16, BlockCount <- 44, Metadata <- {0, 1, 2, 16, 17, 32},
         FileSizes <- [a |-> {4}, b |-> {0, 2}], FirstBlock <- [a |-> 3, b |-> 20],
         InodeGroup <- [a |-> 1, b |-> 0], MaxWrites <- 2,
         Writes <- [a |-> {<<4, 8>>, <<12, 20>>}, b |-> {<<0, 7>>, <<1, 4>>, <<0, 24>>}],
         thread <- writer, halted <- ext2_halted

(* / holds the directory d and the file f; d a link to itself through its  *)
(* parent, a file and a link to /f.                                        *)
E(i, n) == [inode |-> i, name |-> n]
Directories ==
    2 :> <<E(2, "."), E(2, ".."), E(3, "d"), E(0, "gone"), E(4, "f")>>
    @@ 3 :> <<E(3, "."), E(2, ".."), E(5, "l"), E(6, "g"), E(7, "k")>>
Paths == {<<>>, <<"..", "/", "/", "d", "/">>, <<"/", "d", "/", "l", "/", ".", "/", "g">>,
          <<"f", "/">>, <<"gone">>, <<"l">>, <<"g">>, <<".", "/", "k">>}
Vfs == INSTANCE VirtualFileSystem
    WITH Procs <- {"p", "q"}, First <- "p", Disk <- Directories,
         Type <- (2 :> "directory" @@ 3 :> "directory" @@ 4 :> "file" @@ 5 :> "link"
                  @@ 6 :> "file" @@ 7 :> "link"),
         Target <- (5 :> <<"..", "/", "d">> @@ 7 :> <<"/", "f">>), Size <- (4 :> 1 @@ 6 :> 3),
         Inputs <- Paths, MaxFiles <- 2, MaxCalls <- 4, Serial <- TRUE,
         thread <- caller, halted <- vfs_halted

ASSUME Assumptions == CacheAssumption /\ Ext2!Ext2Assumption

StorageInit ==
    /\ situation \in {"turns", "overlap", "cache", "ext2", "paths"}
    /\ Init /\ CacheInit /\ Vfs!Init
    /\ Ext2!Init /\ (situation # "ext2" => inode["b"].size = 0)

ForPort(s, A) == situation = s /\ A /\ UNCHANGED <<situation, cacheVars, ext2Vars, vfsVars>>

Once == \A c \in Clients : thread[c].ret = "none" \/ UNCHANGED thread[c]

TurnsStep == ForPort("turns", Next /\ alone')
OverlapStep == ForPort("overlap", Next /\ Once)
CacheStep == situation = "cache" /\ CacheNext /\ UNCHANGED <<situation, vars, ext2Vars, vfsVars>>
Ext2Step == situation = "ext2" /\ Ext2!Next /\ UNCHANGED <<situation, vars, cacheVars, vfsVars>>
PathStep == situation = "paths" /\ Vfs!Next /\ UNCHANGED <<situation, vars, cacheVars, ext2Vars>>

(* The fairness of AHCIPort, for the clients that take turns.              *)
StorageSpec ==
    /\ StorageInit
    /\ [][TurnsStep \/ OverlapStep \/ CacheStep \/ Ext2Step \/ PathStep]_allVars
    /\ WF_allVars(ForPort("turns", Watched(handle_interrupt)))
    /\ WF_allVars(ForPort("turns", Watched(adapter)))
    /\ \A c \in Clients : WF_allVars(ForPort("turns", ~At(c, "out") /\ Watched(transfer(c))))

----------------------------------------------------------------------------
(* The type invariants of the four modules.                                *)
TypesOK ==
    /\ TypeOK /\ CacheTypeOK
    /\ situation = "ext2" => Ext2!TypeOK
    /\ situation = "paths" => Vfs!TypeOK

(* However the writers' allocations interleave and however deep the files  *)
(* get, no block of an ext2 file system belongs to a file twice, to two    *)
(* files or to the metadata, and an iterator finds the same block by its   *)
(* index as by going through the file; and the counts of free blocks of    *)
(* the superblock, of the groups and in the bitmaps agree, so that whoever *)
(* got a share of the first finds its blocks.  A file reads back as it was *)
(* written, whole or from any block on, when the writes respect the blocks.*)
FilesSound == TypesOK /\ (situation = "ext2" => Ext2!FilesDisjoint /\ Ext2!FreeCountsAgree /\ Ext2!ReadsBack)

(* A lookup finds the file that the path means and no other, whatever was  *)
(* looked up before and whatever the working directory has become, which   *)
(* stays a directory.                                                      *)
PathsFound == situation = "paths" => Vfs!LookupTrue

(* An open directory lists each of its entries once and in order, in       *)
(* whatever portions it is read, and the count of writers of a file says   *)
(* how many processes have it open (until fork() copies a context).        *)
OpenFilesSound == situation = "paths" => Vfs!OpenFilesSound

(* Every transfer that has been started returns, if the device works.      *)
EveryTransferReturns == (situation = "turns") => TransferReturns
=============================================================================
