-------------------------- MODULE FileSystemCache --------------------------
(***************************************************************************)
(* The cache of disk blocks of filesystem/FileSystemCache.cpp.  A thread   *)
(* acquires a block, uses the cached copy and releases it; the last one to *)
(* release a block writes it back and removes it.                          *)
(*                                                                         *)
(* The lock is a Mutex: lock() waits until it is free and sets it in a     *)
(* later step (see Mutex), and the search tree is used while it is set.    *)
(***************************************************************************)
EXTENDS Integers

CONSTANTS
    Threads,
    Blocks,
    Uses,      \* Uses[t]: blocks that thread t acquires
    MaxWrites  \* bound: number of times a block is written

CacheAssumption == Uses \in [Threads -> SUBSET Blocks] /\ MaxWrites \in Nat

NoData == -1

VARIABLES
    s_fs_cache_lock,
    s_fs_cache,  \* the cached blocks
    refcount,
    region,      \* contents of each cached block
    disk,
    written,     \* contents last written to each block by a thread
    pc, block,   \* where each thread is, and with which block
    halted       \* an assertion has failed

cacheVars == <<s_fs_cache_lock, s_fs_cache, refcount, region, disk, written, pc, block, halted>>

Steps == {"idle", "find", "find_set", "miss", "miss_set", "load", "use", "release", "release_set"}
Holding(t) == pc[t] \in {"load", "use", "release", "release_set"}

(* Only a thread that acquires, uses or releases a block names one of its. *)
CacheTypeOK ==
    /\ s_fs_cache_lock \in BOOLEAN /\ halted \in BOOLEAN
    /\ s_fs_cache \subseteq Blocks
    /\ refcount \in [Blocks -> Nat] /\ \A b \in s_fs_cache : refcount[b] > 0
    /\ region \in [Blocks -> 0 .. MaxWrites \cup {NoData}]
    /\ disk \in [Blocks -> 0 .. MaxWrites \cup {NoData}] /\ written \in [Blocks -> 0 .. MaxWrites]
    /\ pc \in [Threads -> Steps] /\ \A t \in Threads : pc[t] # "idle" => block[t] \in Uses[t]

CacheInit ==
    /\ s_fs_cache_lock = FALSE /\ s_fs_cache = {}
    /\ refcount = [b \in Blocks |-> 0] /\ region = [b \in Blocks |-> NoData]
    /\ disk = [b \in Blocks |-> 0] /\ written = [b \in Blocks |-> 0]
    /\ pc = [t \in Threads |-> "idle"] /\ block = [t \in Threads |-> CHOOSE b \in Blocks : TRUE]
    /\ halted = FALSE

----------------------------------------------------------------------------
Step(t, from, to) == ~halted /\ pc[t] = from /\ pc' = [pc EXCEPT ![t] = to]

(* s_fs_cache_lock.lock(): wait until it is free.                          *)
Lock(t, from, to) ==
    /\ Step(t, from, to) /\ ~s_fs_cache_lock
    /\ UNCHANGED <<s_fs_cache_lock, s_fs_cache, refcount, region, disk, written, block, halted>>

acquire(t, b) ==
    /\ Step(t, "idle", "find") /\ b \in Uses[t]
    /\ block' = [block EXCEPT ![t] = b]
    /\ UNCHANGED <<s_fs_cache_lock, s_fs_cache, refcount, region, disk, written, halted>>

(* A block that is found is returned with the lock still set; otherwise    *)
(* the lock is released ...                                                *)
find(t) ==
    LET hit == block[t] \in s_fs_cache
    IN  /\ Step(t, "find_set", IF hit THEN "use" ELSE "miss")
        /\ s_fs_cache_lock' = hit
        /\ refcount' = [refcount EXCEPT ![block[t]] = IF hit THEN @ + 1 ELSE @]
        /\ UNCHANGED <<s_fs_cache, region, disk, written, block, halted>>

(* ... and taken again to add the block.  AVLTree asserts that it is new.  *)
emplace(t) ==
    /\ Step(t, "miss_set", "load")
    /\ s_fs_cache_lock' = FALSE
    /\ halted' = (block[t] \in s_fs_cache)
    /\ s_fs_cache' = s_fs_cache \cup {block[t]}
    /\ refcount' = [refcount EXCEPT ![block[t]] = 1]
    /\ region' = [region EXCEPT ![block[t]] = NoData]
    /\ UNCHANGED <<disk, written, block>>

(* The block is read into its region once the lock is released.            *)
read_blocks(t) ==
    /\ Step(t, "load", "use")
    /\ region' = [region EXCEPT ![block[t]] = disk[block[t]]]
    /\ UNCHANGED <<s_fs_cache_lock, s_fs_cache, refcount, disk, written, block, halted>>

(* The owner of a block changes it.                                        *)
write(t) ==
    /\ Step(t, "use", "use") /\ written[block[t]] < MaxWrites
    /\ region' = [region EXCEPT ![block[t]] = written[block[t]] + 1]
    /\ written' = [written EXCEPT ![block[t]] = @ + 1]
    /\ UNCHANGED <<s_fs_cache_lock, s_fs_cache, refcount, disk, block, halted>>

sync(b) == disk' = [disk EXCEPT ![b] = region[b]]

SyncThis(t) ==
    /\ Step(t, "use", "use")
    /\ sync(block[t])
    /\ UNCHANGED <<s_fs_cache_lock, s_fs_cache, refcount, region, written, block, halted>>

BeginRelease(t) ==
    /\ Step(t, "use", "release")
    /\ UNCHANGED <<s_fs_cache_lock, s_fs_cache, refcount, region, disk, written, block, halted>>

(* The last reference writes the block back and removes it.                *)
Last(b) == refcount[b] = 1

WriteBack_none(b) == UNCHANGED disk
WriteBack(b) == sync(b)

release(t) ==
    LET b == block[t] IN
    /\ Step(t, "release_set", "idle")
    /\ s_fs_cache_lock' = FALSE
    /\ refcount' = [refcount EXCEPT ![b] = @ - 1]
    /\ IF Last(b)
       THEN /\ WriteBack(b)
            /\ region' = [region EXCEPT ![b] = NoData]
            /\ s_fs_cache' = s_fs_cache \ {b}
            /\ halted' = (b \notin s_fs_cache)
       ELSE UNCHANGED <<disk, region, s_fs_cache, halted>>
    /\ UNCHANGED <<written, block>>

CacheNext ==
    \E t \in Threads :
        \/ \E b \in Blocks : acquire(t, b)
        \/ Lock(t, "find", "find_set") \/ find(t)
        \/ Lock(t, "miss", "miss_set") \/ emplace(t) \/ read_blocks(t)
        \/ write(t) \/ SyncThis(t) \/ BeginRelease(t)
        \/ Lock(t, "release", "release_set") \/ release(t)

CacheSpec == CacheInit /\ [][CacheNext]_cacheVars

----------------------------------------------------------------------------
(* At most one thread uses the block.                                      *)
Own(b) == \A t, u \in Threads : b \in Uses[t] \cap Uses[u] => t = u

(* No write is lost: the last contents written to a block are in the cache *)
(* while it is cached and loaded, and on the disk otherwise.               *)
NoLostWrite(b) ==
    (IF b \in s_fs_cache /\ region[b] # NoData THEN region[b] ELSE disk[b]) = written[b]

(* A block of one thread is counted and cached as long as the thread has   *)
(* it, and no longer.                                                      *)
CachedWhileHeld(b) ==
    /\ refcount[b] = IF \E t \in Threads : Holding(t) /\ block[t] = b THEN 1 ELSE 0
    /\ b \in s_fs_cache <=> refcount[b] > 0

(* The assertions of AVLTree::insert(), that a block is added once, and of *)
(* release(), that it is still there.                                      *)
CacheAsserts == ~halted

(* Of a block that one thread uses no write is lost and it is cached just  *)
(* while that thread has it, whatever happens to the blocks that several   *)
(* threads use; and only over one of those an assertion fails.             *)
CacheSound ==
    /\ \A b \in Blocks : Own(b) => NoLostWrite(b) /\ CachedWhileHeld(b)
    /\ (\A t \in Threads : Own(block[t])) => CacheAsserts
=============================================================================
