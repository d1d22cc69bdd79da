# A TLA+ model of OwOS

OwOS is a small UNIX-like system for i686 multiprocessors. Its kernel runs one
round-robin scheduler per core, shares almost all other state between the
cores, and protects part of it with spinlocks and mutexes. This directory holds
TLA+ modules for the parts in which interleavings, interrupts and long call
sequences decide about correctness, TLC configurations that check them on small
instances, and machine-checked proofs.

Paths below are relative to `src/src/kernel/` unless they start with `userland/`.

## 1. The system and what can go wrong in it

| Part | State | Operations | What is hard about it | What should hold |
|---|---|---|---|---|
| Spinlock, critical sections (`arch/i686/spinlock.cpp`, `Processor.hpp`) | flag, `m_in_critical`, IF | lock, unlock, enter/leave_critical, interrupt, iret | several cores, nested handlers | one owner; no handler polls what its core owns; counts balance |
| Mutex (`locking/Mutex.cpp`) | `m_locked`, `m_lock` | lock, unlock, try_lock by `pick_next()` | polls of several cores, an inverted `try_lock()` of the spinlock | the assertion of unlock; blocked threads go on |
| Queue (`libk/srmw_queue.hpp`) | ring of nodes | put, get, empty | `empty()` without the lock | a FIFO |
| Scheduler (`processes/CoreScheduler.cpp`, `GlobalScheduler.cpp`) | vector, index, current thread, thread states | tick, pick_next, suspend, resume, block, usleep, terminate, start_thread | ticks between any two stores; appends from other cores | freed stacks are unused; no starvation |
| Processes (`processes/Process.cpp`) | tree of processes, status, signals, console owner | fork, exit, adopt, waitpid, Ctrl-C | unlocked steps on several cores; exit in an interrupt | every zombie can be and is reaped |
| Kernel heap (`heap/BitmapHeap.cpp`) | ids of blocks, statistics | alloc, free, size | size without the lock; runs told apart by ids only | allocations are disjoint; free and size are exact |
| Physical memory (`memory/PhysicalMemoryManager.cpp`) | bitmaps of eight page sizes | alloc, free, reserve | levels that must agree | pages are handed out once |
| Regions (`memory/VirtualMemoryManager.cpp`) | trees of regions | allocate, map, free, exec, fork | fork changes the tree it traverses | no overlap; exec replaces everything |
| Search tree (`libk/AVLTree.hpp`) | nodes, heights | insert, remove, find | rotations, cached heights | searchable, linked, balanced |
| Paging (`arch/i686/memory.cpp`) | master directory, copies, versions, one window, TLBs | map, unmap, create_pde, check_page_directory | cores that lag behind; a window without a lock | one table per address; writes reach the right table |
| Messages, panic (`arch/i686/Processor.cpp`, `panic.cpp`) | queues, pending interrupts | smp_broadcast, smp_process_messages, panic | one pending bit per core | every core handles every message; a panic stops all |
| Timer events (`time/EventManager.cpp`, `interrupts/LAPIC.cpp`) | delta queue, one-shot timer | schedule, handler, tick | restarts, unsigned subtraction | a tick always comes; events fire |
| Interrupt controllers and dispatch (`interrupts/`, `arch/i686/interrupts.cpp`) | controllers, redirection entries, handler lists | parse_madt, enable_irq, dispatch, eoi | drivers enabled while devices interrupt; redirected and shared lines | an interrupt reaches its handler and is acknowledged |
| Contexts (`arch/i686/Processor.cpp`, `interrupts.cpp`) | stacks of frames and exit functions of a core | system calls, ticks, fork, exec | the stacks belong to the core, calls return in any order | a thread goes on where it was, with its own result |
| AHCI port (`storage/ata/`) | registers, slots | transfer, handler, adapter | read-or-write of `ci`; errors | results are real; slots come back |
| Block cache (`filesystem/FileSystemCache.cpp`) | tree, reference counts | acquire, sync, release | lock released between search and insertion | no lost write |
| ext2 (`filesystem/Ext2FileSystem.cpp`) | inodes, bitmaps, group and superblock counts | read, write, allocate_blocks, block iterator | several writers under several locks; three levels of indirection | blocks belong to one file; files read back |
| VFS (`filesystem/VirtualFileSystem.cpp`, `File.cpp`, `FileContext.cpp`) | cached tree of nodes, open files, working directories | lookup, open, close, chdir, getdents, fork, exit | cached children, links, copied contexts | a path finds its file; counts of writers |
| Terminal line discipline (`tty/TTY.cpp`) | two buffers, mode | emit, read, ioctl | keys in the middle of a mode switch | text conserved; no key twice |
| Terminal, console (`tty/Terminal.cpp`, `FramebufferConsole.cpp`) | buffers, cells, screen, cursor | write, escape sequences, echo, cursor tick | echo inside a sequence; three copies of the text | the screen shows the buffer; cursor on screen |
| Keyboard (`devices/`) | prefix, modifiers, buffer | interrupt, deferred call, read | prefixes, toggles, deferred delivery | keys decoded, in order |
| Containers, formatting (`include/libk/`, `libk/`) | arrays, sizes, capacities | insert, erase, copy, move; printf | the NUL at the end; widths and precisions | text kept, memory owned once; output as C specifies |
| C library (`userland/libc/`) | bitmap heap; printf buffer | malloc, calloc, realloc, free; snprintf | sizes at block boundaries | bytes kept; buffer not overrun |
| Dynamic loader (`userland/ld-owos/`, `elf/elf.cpp`) | list of objects, bindings | load, relocate, initialise, start | shared and cyclic dependencies | loaded once, nearest symbol, order of initialisers |
| Shell, editor (`userland/sh/`, `userland/editor/`) | line buffer, terminal state; lines, cursor, view | keys, parse, execute; commands | positions kept in several variables | words executed as typed; cursor and text agree |
| Logger (`logging/logger.cpp`) | queue, thread | log, loop | test-then-suspend | messages are printed |
| Boot, discovery, drawing | | | sequential | |

Interactions: a spinlock is a critical section, which keeps ticks away; a mutex
is polled by the scheduler; the deferred calls, the log and the interprocessor
messages travel through the queue; paging announces changes with messages; the
timer drives the scheduler and the cursor; the cache holds its blocks in the
tree and its lock is a mutex; processes end up in the scheduler's queues and
keep their regions in the tree; ext2 reaches the disk through the cache, and
the lookup of paths reads its directories; a key goes from the interrupt line
through the keyboard to the line discipline, which echoes to the terminal and
feeds the shell and the editor.

## 2. Modules

| Module | Models | Correspondence |
|---|---|---|
| `Spinlock` | spinlock, critical sections | a core is a stack of contexts; `flag`, `in_critical`, `iflag` are the fields; `lock`, `test_and_set`, `spin`, `unlock`, `unlock_leave` are the steps of the two functions |
| `SpinlockProofs` | | the proofs, section 6 |
| `Mutex` | `Mutex::lock/unlock/try_lock` | by threads of scheduled cores, by the polls of `pick_next()`, by boot code; `try_lock()` as it is written |
| `SRMWQueue`, `Fifo` | the queue, and what it promises | each pointer store is a step; a history variable `queue` is the contents, appended to by the store that links a node and shortened by the one that unlinks it, and the mapping to `Fifo` reads it |
| `CoreScheduler` | tick, pick_next, start_thread, thread states | one step per iteration of `pick_next()`; `push_back()` and `erase()` in two halves; `exclusive` remembers whether the changes of one vector have overlapped |
| `CoreSchedulerInvariant`, `CoreSchedulerProofs` | | the proofs, section 6 |
| `Process` | fork, exit, adopt, waitpid, signals | a step for each shared field; `exit()` in a thread or in the keyboard interrupt |
| `BitmapHeap` | alloc, free, size | the bitmap is written block by block under the lock; `size` reads it without |
| `PhysicalMemory` | alloc, free of pages | `bitmap` has a function for each level; an iteration of the search is a step, and so is each level that `mark_free()` works on |
| `PhysicalMemoryProofs` | | the proofs, section 6 |
| `AVLTree` | insert, remove, rebalance | operators on the record of pointers `t` |
| `MemorySpace` | mmap, munmap, exec, fork on regions | uses `AVLTree`; the traversal of fork with its stack |
| `PageDirectory` | kernel halves of page directories | `master`, copies, versions, messages, the check in every interrupt; `mapped_in` remembers the spaces that have mapped |
| `PageDirectoryProofs` | | the proofs, section 6 |
| `PageWindow` | the window at `FIXED_PAGE_TABLE_MAP_ADDR` | the shared entry, a TLB entry per core, invalidation messages |
| `SmpMessages` | broadcast and panic | queues, the pending bit of each local APIC, the trace lock |
| `EventManager` | delta queue, APIC timer, cursor | delays in unsigned arithmetic (`% Wrap`) |
| `AHCIPort` | transfer, handlers, adapter | the adapter is modelled from the driver's use of it; `alone` remembers whether transfers have taken turns |
| `FileSystemCache` | acquire, sync, release | the mutex is set in a step after it was seen free |
| `FileSystemCacheProofs` | | the proofs, section 6 |
| `TTY` | line discipline, ring, read, ioctl | a key press runs to its end between two steps of the program |
| `Terminal` | escape sequences, buffers, console | operators from terminal to terminal; echo and cursor tick between two characters |
| `ThreadContext` | system calls, ticks, fork and exec on the stacks of one core | registers are whose they are, where they are, `eax` and the frame; `frames` and `exits` are `m_frame_stack` and `m_exit_function_stack` |
| `InterruptController` | `parse_madt()`, IOAPICs or the PIC, registration, dispatch, eoi | lines and requests are the hardware's, modelled from how the drivers use it |
| `Keyboard` | scan codes, modifiers, deferred events | a stroke puts bytes on the wire; an interrupt takes one |
| `Ext2` | read, write, block iterator, block allocation | the iterator is a record with the cached indirect blocks, as the class; a group's scan is a step of its own under its lock |
| `VirtualFileSystem` | lookup, open files, getdents, chdir, fork, exit | a path is a sequence of tokens; a read of a directory is a step in the middle of a lookup |
| `LibkString` | `LibK::string` on `LibK::vector` | the heap is a function from arrays to their cells |
| `LibcHeap` | malloc, calloc, realloc, free of programs | memory byte by byte, so that moved contents can be followed |
| `Printf` | the printf of the kernel and that of the C library | one format character or conversion per step; a reference definition says what C prints |
| `DynamicLinker` | loading, symbol search, relocation, initialisers; the stack of exec() | recursion is a stack of frames; graphs of dependencies are chosen initially |
| `Shell`, `Editor` | the two interactive programs | one action per key, and per step of executing a line |
| `SmpMessagesProofs`, `AHCIPortProofs` | | the proofs, section 6 |

Operators whose comment calls them a defect are not part of any specification:
each is a plausible mistake in the definition that follows it, kept to show that
a property notices it.

`MC*` modules put the components together. Most are sums: a variable `situation`
is chosen initially and says which component, with which constants, takes all
the steps. They extend the modules that proofs are about and instantiate the
others, so that a run and a theorem speak of the same definition; three modules
therefore prefix their names (`CacheSpec`, `QueueSpec`, `SchedulerSpec`). A
property that begins with a situation is a claim about that situation alone;
where a claim fails outside it the comment says so. Variables such as
`exclusive`, `mapped_in`, `alone` and `queue` record what has happened; no action
reads them, and they let a property say until when it claims something.

## 3. Runs

| Run | Situations and bounds | What it shows |
|---|---|---|
| `threads` | 2 cores, 2 spinlocks, 1 nested interrupt, 1 explicit section; 2 threads of one core on a mutex; 4 boot contexts; 1 core with 3 threads that block, sleep, exit; 2 cores that fork for each other; `size_t` modulo 8 | exclusion, no self-deadlock, exact counts; the mutex's assertion holds and blocked threads go on; queues have no empty slots, no thread on two cores, no starvation; stacks are freed once and unused until two changes of a vector overlap (125,039 states) |
| `processes` | 4 processes that exit; 3 processes, 1 Ctrl-C, handlers | nobody orphaned, the reaper is init, init reaps all (about 621,000 states) |
| `memory` | heap of 6 blocks with 3 clients; 9 physical pages (3 of them the kernel's), 3 levels, 3 clients; 18 pages with up to 8 regions; trees of 9 keys; a program's heap of 8 blocks with 2 pointers; 2 kernel strings of up to 4 cells | disjoint and exact allocations; bytes of programs kept; physical pages have one owner, bitmap levels agree; sound trees, regions and strings; exec() leaves the new image (446,870 states) |
| `paging` | 2 cores, 4 threads, 2 tables; windows with one mapper and with two; 2 processes and the idle thread on one core | one table per address, versions, assertions, own table written, all spaces updated; threads return to where they were (255,873 states) |
| `interrupts` | broadcasts of 2 messages and a panic on 3 cores; a queue with 2 writers, 1 reader, 3 values; timers of a bootstrap and of another core | messages arrive, are announced and handled, panic stops all; the queue implements the FIFO and delivers all; ticks come, events fire (38,353 states) |
| `storage` | a port with 2 slots, a device that may fail and 2 clients that take turns, or transfer once each at any time; cache of 3 blocks, 2 threads with one of their own each and one shared; ext2 with 44 blocks in 3 groups, 2 writers with 2 writes each; 8 paths, 2 processes, 4 calls | awaited commands, real results, returned slots, no lost write to a thread's own block; blocks belong to one file, free counts agree, files read back; paths lead to their files, open files are right (381,350 states) |
| `console` | 4 devices, 5 firmware tables; 7 keys of the keyboard, 4 strokes; 6 typed characters, reads of 2 bytes; 4 and 2 switches; screens of 2x2 and 3x2; editor with 2 lines on 2x3; shell line of 5; graphs of 3 libraries; calls of printf with one conversion | interrupts served, keys decoded, text conserved, screen shows buffer, cursor on screen, lines read; editor, shell, loader and printf as the properties say (1,280,867 states) |
| `mutex_two_cores` | 3 threads on 2 cores | violation of the assertion in `Spinlock::unlock()` |
| `scheduler_fork_race` | 1 core, 3 threads | a stack is freed twice |
| `space_fork` | 25 pages | fork() misses a region |
| `cache_double_miss` | 2 threads, 1 block | the tree's assertion against equal keys fails |
| `heap_search` | 6 blocks, 3 clients | a search for a block that does not fit never comes back to its start |

Why the bounds are enough for the cases aimed at: two cores give every pairwise
race, and the third core of the panic a bystander. One nested interrupt reaches
every pair of owner and handler, since handlers nest alike. Three threads give a
current, a terminated and a third one, so that erasing meets every position
relative to the index; modulo 8 the index wraps below zero as `size_t` does. A
heap of six blocks has room for three allocations next to each other, the case
in which all three ids are needed. Nine pages of physical memory are two full
groups of the third level and a half one behind them, and numbers up to 15 let
`last_alloc` wrap. Nine keys make trees of height four, with double rotations
whose middle node has subtrees. Two messages
from three threads make an interrupt arrive while one is pending and while one is
handled, and the third core is reached after the second. The
ring of four fills up with four keys. Numbers of nanoseconds are scaled so that
both the case with filler events and the one without occur. In ext2 a block
holds two pointers and an inode two direct ones, so that files of 24 cells reach
the triple indirection, and the last group is a short one. A shell line of five
characters fills the buffer; editor lines get wider than the two columns of the
screen. Three libraries give chains, diamonds and cycles. Numbers of printf are
taken modulo 256 and 4096, so that those with and without a length modifier
wrap differently.

Deadlock is checked in `threads`, `mutex_two_cores`, `scheduler_fork_race`,
`cache_double_miss` and `heap_search`. The others may really stop: the
exit of init halts the system, the kernel waits for input when nobody types,
all messages get sent, a port that had an error transfers nothing more, programs
end, and all bounded counters run out.

## 4. Fairness

| Where | Assumption | Why |
|---|---|---|
| scheduler | weak fairness of `Tick` | the local timer is periodic in effect (`TickAlwaysComes`) and its handler runs to its end |
| mutex | weak fairness of the poll and of a thread's own steps, strong fairness of `try_lock` and of the switch | every tick polls; a thread that is Ready again and again is run |
| queue | weak fairness of begun puts and of the reader | spinlock sections end, the reader is a loop |
| processes | weak fairness of begun calls and of init's waitpid | the scheduler starves nobody; init calls waitpid() forever (`userland/init/main.c`) |
| paging | weak fairness of ticks | as above; the check runs in every interrupt |
| messages | weak fairness of a core's handler, strong fairness of a broadcast | interrupts are delivered once enabled; a broadcasting thread is interrupted but resumed |
| timer | weak fairness of counting, of the handler and of the scheduler's start | hardware counts; boot goes on |
| port | weak fairness of the adapter, the handler and a begun transfer | only claimed for a device that does not fail |
| line reader | weak fairness of the program | it is Ready or polls |

Nothing is assumed about when users type, programs call, devices fail or other
interrupts arrive.

## 5. Where the code and a reasonable expectation differ

Five disagreements with an assertion or comment of the code are runs of their
own (the last five of section 3). Others came up while the modules were
written. They are part of the behaviours; properties exclude the situation in
which they appear, and say so.

* Scheduler: `tick()` stores Running or Ready into a state that was set to
  Terminated meanwhile (`CoreScheduler.cpp:33`); `usleep()` queues its wake-up
  before it stores Sleeping (`EventManager.cpp:24`).
* Mutex: with three threads on one core a blocked thread can be passed over
  forever.
* Heap: the search that `heap_search` shows not to end (`BitmapHeap.cpp:141`)
  only happens after the allocation made last was freed, which `HeapExact` says. `userland/libc/__heap.c` has the same search.
* Physical memory: the boot code of the other cores calls `alloc()` for the
  pages at 0x8000, gets others, and later frees the ones at 0x8000
  (`arch/i686/smp.cpp:35`, `:60`); areas above 128 pages are taken when their
  first group is free; with `last_alloc` wrapped, a search in full memory does
  not end; `free()` of several pages frees more than that; the bit behind the
  last one of a level lies outside its bitmap when the level below has an odd
  number of groups and the level itself a multiple of 32. `PhysicalMemory` has
  the third of these; it leaves the others out, and gives every level its bit.
* Paging with several mappers: a space gets the newest version although it
  lacks older tables (`memory.cpp:457`), after which the assertion in `unmap()`
  can fail; two mappers overwrite each other's window.
* Queue: `critical_empty_logger()` (`logger.cpp:62`) is a second reader, with
  which `get()` can take the head for a node.
* Timer: on the bootstrap processor the first tick of the scheduler can make a
  delay wrap (`EventManager.cpp:101`).
* Tree: removing a root with two children follows a null pointer
  (`AVLTree.hpp:253`); after removals, nodes can be out of balance by two.
* Terminal: a typed digit inside a program's cursor address can move the cursor
  off the screen (`Terminal.cpp:569`); scrolling does not move `m_cells`;
  erasing an echoed key does not change the buffer.
* TTY: unread lines change places when the mode becomes non-canonical
  (`TTY.cpp:234`).
* Cache: a hit returns with the lock set (`FileSystemCache.cpp:24`).
* AHCI: with two clients a completed command can be written to `ci` again;
  when no slot is free the lock stays set; after an error transfers spin.
* Contexts: a tick between the store of the exit function of `exec()` and its
  pop gives it to the next system call that returns (`interrupts.cpp:263`).
* ext2: a write that gets no blocks leaves its file locked
  (`Ext2FileSystem.cpp:276`), and `write_inode_metadata()` its group (`:485`),
  so that later writers wait; a write that does not respect the blocks does not
  read back.
* VFS: two lookups that read one directory at the same time run into the
  assertion of `read_directory()` (`VirtualFileSystem.cpp:161`); contexts that
  `fork()` copied are counted once and closed twice (`Process.cpp:305`).
* Interrupts: of two devices on one edge-triggered line, one that interrupts
  while the other's handler has already been asked is not noticed; the lines of
  the second PIC are never opened.
* Keyboard: an extended key outside the table leaves the prefix set
  (`PS2KeyboardDevice.cpp:347`); releasing one of two shift keys clears the
  modifier.
* Editor: splitting a line at column 0 leaves it without a terminator; a line
  twice as wide as the screen takes the cursor off it
  (`userland/editor/main.c:155`).
* printf: the kernel does not count a sign in a width; the library counts `%c`
  twice, and wrongly what it adjusts to the left (`userland/libc/__printf.c`).
* Loader: with cyclic dependencies the calls of the initialisers do not end.
* Processes: a Ctrl-C in the middle of `fork()` leaves an orphan, and in the
  middle of `exit()` runs it twice.

## 6. Proofs

Eight modules hold proofs, all of them of what a run checks on its instance.

| Theorem | States | For every | Proved in |
|---|---|---|---|
| `SpinlockExcludes` | `[]MutualExclusion` | set of cores, number of locks, nesting depth | `SpinlockProofs` |
| `HandlersDoNotSpin` | `[]NoSelfDeadlock` | as above | `SpinlockProofs` |
| `CriticalSectionsBalance` | `[]CriticalBalance` | as above | `SpinlockProofs` |
| `PagesHandedOutOnce` | `[]PagesOwnedOnce` | number of pages, one to eight levels, clients, kernel pages, sizes up to the largest level | `PhysicalMemoryProofs` |
| `LevelsStayInAgreement` | `[]LevelsAgree` | as above | `PhysicalMemoryProofs` |
| `MessagesArrive` | `[]MessagesAnnounced` | number of cores, threads, messages, panicking threads | `SmpMessagesProofs` |
| `QueueImplementsFifo` | `QueueIsFifo` | writers and values, one reader | `SmpMessagesProofs` |
| `TransfersAwaitTheirCommands` | `[]CommandsAwaited` | threads, slots, working or failing device | `AHCIPortProofs` |
| `KernelTablesAreShared` | `[]TablesShared` | cores, threads, spaces, entries, page tables | `PageDirectoryProofs` |
| `OwnBlocksAreKept` | `[]CacheSound` | threads, blocks, whichever blocks are shared | `FileSystemCacheProofs` |
| `QueuesStaySound` | `[]QueuesSound` | cores, threads, initial queues, calls | `CoreSchedulerProofs` |
| `FreedStacksStayUnused` | `[]StackFreedUnused` | as above | `CoreSchedulerProofs` |

The assumptions are those that the component modules name (`SpinlockAssumption`,
`PhysicalMemoryAssumption`, `SmpAssumption`, `QueueAssumption`, `AHCIAssumption`,
`PagingAssumption`, `CacheAssumption`, `SchedulerAssumption`): bounds are natural
numbers, the constants that stand for null are none of the values, and initial
placements name existing threads, each once. Two say more. `size_t` is wide
enough for the number of threads and of pages. And the queue has at most one
reader, as its name says; with two it is not a queue (section 5). TLC evaluates
each of them for the instances of the runs.

Each proof has an inductive invariant (`IInv`, `Inductive` or `RingInductive`),
a lemma that the initial states satisfy it, a lemma per action that the action
preserves it, and a theorem that combines them.

**Spinlock.** A context that finds the flag clear must know that nobody owns the
lock, whatever its core or level. `IInv` adds that the flag of a lock is set
exactly while some context owns the lock (`FlagOwned`), that contexts other than
the running one of a core are quiet (`OthersQuiet`), that a context acquiring a
lock does not own it (`WantSound`), that `m_in_critical` counts the sections of
the running context (`CountSound`), and that interrupts are taken only on cores
that enabled them (`EnabledSound`). The facts about cardinalities of sets of
locks are the lemma `LockCount`.

**Physical memory.** `alloc()` looks at a single bit, so the invariant has to say
what a clear bit means: `Cover` (a page in use is marked at every level),
`Padding` (the bits behind the last full group of a level stay set) and
`SearchesFit` (a search is at a level whose groups hold its size). Marking a
level free preserves `Cover` because a page's group one level up is the half of
its group (`GroupAbove`). The other direction of `LevelsAgree` is false while
`free()` climbs the levels; `Exact` says that in the meantime a bit is set
without need only above the level that `free()` has come to, and only for the
page it frees, so that nothing is left when the lock is released.

**Messages.** One half of `MessagesAnnounced` is about who has a message: a core
that has not handled it has it in hand or in its queue, or a sender has still to
come to that core. The other half is about the interrupt: a local APIC keeps one
pending bit, and the handler may clear it long before it looks at the queue.
Both are inductive together with `Typed`, the type invariant and the fact that a
thread in the middle of a broadcast has a message.

**Queue.** `QueueIsFifo` is a refinement: every pointer store of `put()` and
`get()` is a step of `Fifo` or a stutter, and moreover `get()` never takes the
head for a node and the ring is closed when the lock is free. `RingInductive`
relates the pointers to the history variable: the next pointers lead through the
queue and back to the head unless a writer is between its two stores (`Forward`),
the prev pointers lead back except for the one being changed (`Backward`), and
what each writer and reader has in its local variable is new, last, first, or
already unlinked (`Writing`, `Reading`). That `empty()` takes no lock is the case
of a reader that saw a node: it is still the first when the reader gets the lock,
because nobody else removes one. It justifies that `SmpMessages` treats
`m_queued_messages` as a sequence that is changed at once.

**AHCI port.** That slots do not leak rests on the order of accesses: a thread
sets `m_issued` before it writes `ci`; the adapter raises its interrupt right
after it clears a bit; the controller's status is latched again while the port's
is set; and the pass over the slots starts after the port's status was read. The
mutex is not used: slots do not leak even where it fails to exclude. It ends with
the first error (`NoErrorYet`). The rest of `CommandsAwaited` is claimed until
two transfers overlap (`alone`), and holds for a failing device too: the only
command in `ci` is that of the one transfer in progress, the adapter works on
nothing else, and a command that left `ci` was carried out (`Orderly`).

**Paging.** One table per kernel address needs only that the master directory
and its mapping table never differ and that each table has a page of its own
(`Shared`). What versions say is proved while one space maps (`mapped_in`): that
space then always has the newest version, no version is ahead of the master's,
and the page tables say what the regions say (`Single`).

**Block cache.** `CacheSound` speaks of the blocks that one thread uses, whatever
other blocks are shared. Where the last contents of such a block are depends on
how far its thread has come: in the cache and, before it is loaded, on the disk
(`Held`); on the disk alone otherwise (`Unheld`).

**Scheduler.** `QueuesSound` holds however appends and erasures interleave. A
slot below the size is filled, also below the size that a `push_back()` is about
to store (`Filled`); a thread is known to one core once it was started (`Homes`),
an append is always of a new thread (`Pushes`), and sizes do not exceed the
number of threads that were started, so that vectors have room and `size_t` does
not wrap (`Room`). `StackFreedUnused` needs more and is false without it, which
is the run `scheduler_fork_race`: as long as no two changes of one vector have
overlapped (`exclusive`), the slots that count hold different threads, a freed
one is in none of them, and an append fills the slot behind the last
(`Exclusion`).

Only model-checked: all liveness properties (fairness and ENABLED are outside the
proof system's reach), the modules without theorems, and what recursive
definitions compute (`AVLTree`, `Ext2`, `VirtualFileSystem`, `Printf`,
`DynamicLinker`).

## 7. Not modelled

The list of components in `PROJECT.json` gives the reason for each part.

* Start-up of the other cores (`arch/i686/smp.cpp`): assembly and register
  set-up that runs once. The page it frees and the flag it lets go out of scope
  may still be polled by a core; whether they are depends on instruction timing.
* The frames that deliver a signal (`CoreScheduler.cpp:60`): `Process` says
  which signal is delivered when, `ThreadContext` has no signals. What happens
  after another call took the exit function of `exec()` is not followed either.
* Interrupts that nest in `ThreadContext` other than a tick in a system call.
* Lookups that overlap, more than one mount, and directories longer than a block
  (`VirtualFileSystem`); inode allocation, which the code does not have.
* Lists, functions, shared pointers, and vectors whose elements have
  constructors of their own.
* The loader's relocation of itself, the parsing of ELF headers and the contents
  of segments.
* Buffered files, scanning and the string functions of the C library; the tools
  that make a system call or two.
* Kernel regions of the virtual memory manager, which use the search and the
  tree that `MemorySpace` has for a process.
* Partition tables, firmware tables, the enumeration of devices, register
  layouts, drawing, the text of messages: sequential, run once, or output only.

## 8. What could follow

1. The regions of the kernel on top of `PhysicalMemory`, with the boot code of
   the other cores and the pages it frees.
2. Signal frames in `ThreadContext`, composed with `Process`.
3. The logger's thread on `SRMWQueue`, with its suspension.
4. Proofs: `BitmapHeap` (`Disjoint` from `Separate` and the one lock holder);
   `Mutex` on one core; `Process` (`NobodyOrphaned`); `EventManager`
   (`TickToCome`); `PageWindow` with one mapper.
