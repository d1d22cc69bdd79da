--------------------------- MODULE PageDirectory ---------------------------
(***************************************************************************)
(* How arch/i686/memory.cpp keeps the kernel half of every page directory  *)
(* equal to the master directory.                                          *)
(*                                                                         *)
(* A kernel page table is created once, in the master directory, by map(). *)
(* Every other memory space copies the kernel half from the master when it *)
(* is interrupted and its version differs from the master's.  A memory     *)
(* space has its directory, which the processor walks, and its mapping     *)
(* table, through which the kernel finds the page table to write.          *)
(*                                                                         *)
(* map() and unmap() of kernel addresses run under the spinlock of the     *)
(* virtual memory manager and so with interrupts off; the other cores only *)
(* read the master under s_page_directory_lock.  One such call, for one    *)
(* page, is therefore one step.  Nothing interrupts the timer handler      *)
(* (APIC_TIMER_IRQ and APIC_IPI_INTERRUPT have the same priority class),   *)
(* so the memory space of a core is always the one the processor uses.     *)
(***************************************************************************)
EXTENDS Integers

CONSTANTS
    Cores,
    Threads,   \* a thread of a process stands for the process
    KThreads,  \* threads of the kernel, which use the kernel's memory space
    Home,      \* the core that runs each thread
    First,     \* threads that exist at boot
    Boot,      \* the thread each core runs at boot
    Mappers,   \* threads that allocate and free kernel memory
    Indices,   \* kernel entries of a directory that are empty at boot
    PtIndices, \* entries of a page table
    Kernel,    \* the kernel's memory space
    MaxFrame   \* bound on the physical pages that become page tables

ASSUME PagingAssumption ==
    /\ KThreads \subseteq Threads /\ First \subseteq Threads /\ Mappers \subseteq Threads
    /\ KThreads \subseteq First
    /\ Home \in [Threads -> Cores]
    /\ Boot \in [Cores -> First] /\ \A c \in Cores : Home[Boot[c]] = c
    /\ Kernel \notin Threads
    /\ MaxFrame \in Nat

Processes == Threads \ KThreads
Spaces == Processes \cup {Kernel}
Null == 0
Frames == 0 .. MaxFrame
Pages == Indices \X PtIndices

VARIABLES
    master,   \* s_master_page_directory, which is also the kernel's own
    mmap,     \* s_master_mapping_table, which is also the kernel's own
    s_page_directory_version,
    dir,      \* kernel half of the page directory of each process
    mapping,  \* kernel half of the mapping table of each process
    version,  \* page_directory_version of each memory space
    tables,   \* present entries of the page table in each physical page
    frames,   \* physical pages used up by create_pde()
    regions,  \* m_kernel_memory_map
    running,  \* current thread of each core
    started,  \* threads that exist
    inbox,    \* DirectoryInvalidatedMessages queued for each core
    mapped_in, \* spaces in which map() or unmap() has run (history)
    halted    \* an assertion failed: panic() stops all cores

vars == <<master, mmap, s_page_directory_version, dir, mapping, version, tables,
          frames, regions, running, started, inbox, mapped_in, halted>>

(* Every variable ranges over the values its declaration in memory.cpp     *)
(* allows: directories hold physical pages, versions are numbers.          *)
TypeOK ==
    /\ master \in [Indices -> Frames] /\ mmap \in [Indices -> Frames]
    /\ s_page_directory_version \in Nat
    /\ dir \in [Processes -> [Indices -> Frames]]
    /\ mapping \in [Processes -> [Indices -> Frames]]
    /\ version \in [Spaces -> Nat]
    /\ tables \in [Frames -> SUBSET PtIndices] /\ frames \in Frames
    /\ regions \subseteq Pages
    /\ running \in [Cores -> Threads]
    /\ started \subseteq Threads
    /\ inbox \in [Cores -> Nat]
    /\ mapped_in \subseteq Spaces
    /\ halted \in BOOLEAN

Space(t) == IF t \in KThreads THEN Kernel ELSE t
Current(c) == Space(running[c])
Directory(s) == IF s = Kernel THEN master ELSE dir[s]
MappingTable(s) == IF s = Kernel THEN mmap ELSE mapping[s]

NoTables == [i \in Indices |-> Null]

(* create_kernel_space() and the first processes, before any kernel page   *)
(* table was added.                                                        *)
Init ==
    /\ master = NoTables /\ mmap = NoTables
    /\ s_page_directory_version = 0
    /\ dir = [s \in Processes |-> NoTables]
    /\ mapping = [s \in Processes |-> NoTables]
    /\ version = [s \in Spaces |-> 0]
    /\ tables = [f \in Frames |-> {}] /\ frames = 0
    /\ regions = {}
    /\ running = Boot
    /\ started = First
    /\ inbox = [c \in Cores |-> 0]
    /\ mapped_in = {}
    /\ halted = FALSE

----------------------------------------------------------------------------
(* check_page_directory(): under s_page_directory_lock, the current space  *)
(* of the core copies the kernel half when its version is not the          *)
(* master's.  The kernel's space copies the master onto itself.            *)
check_page_directory_no_mapping(c) ==
    LET s == Current(c) IN
    /\ IF version[s] # s_page_directory_version /\ s # Kernel
       THEN dir' = [dir EXCEPT ![s] = master] /\ mapping' = mapping
       ELSE UNCHANGED <<dir, mapping>>
    /\ version' = [version EXCEPT ![s] = s_page_directory_version]
check_page_directory(c) ==
    LET s == Current(c) IN
    /\ IF version[s] # s_page_directory_version /\ s # Kernel
       THEN /\ dir' = [dir EXCEPT ![s] = master]
            /\ mapping' = [mapping EXCEPT ![s] = mmap]
       ELSE UNCHANGED <<dir, mapping>>
    /\ version' = [version EXCEPT ![s] = s_page_directory_version]

(* A system call or a device interrupt: common_interrupt_handler() checks  *)
(* the directory before it calls any handler.                              *)
interrupt(c) ==
    /\ ~halted
    /\ check_page_directory(c)
    /\ UNCHANGED <<master, mmap, s_page_directory_version, tables, frames, regions,
                   running, started, inbox, mapped_in, halted>>

(* The interprocessor interrupt: the same check, then all queued messages, *)
(* each of which checks again.                                             *)
smp_process_messages(c) ==
    /\ ~halted /\ inbox[c] > 0
    /\ check_page_directory(c)
    /\ inbox' = [inbox EXCEPT ![c] = 0]
    /\ UNCHANGED <<master, mmap, s_page_directory_version, tables, frames, regions,
                   running, started, mapped_in, halted>>

(* The timer interrupt checks the directory of the space it leaves and     *)
(* then switches to the space of the next thread.                          *)
tick_unchecked(c, t) ==
    /\ ~halted /\ t \in started /\ Home[t] = c
    /\ running' = [running EXCEPT ![c] = t]
    /\ UNCHANGED <<master, mmap, s_page_directory_version, dir, mapping, version, tables,
                   frames, regions, started, inbox, mapped_in, halted>>
tick(c, t) ==
    /\ ~halted /\ t \in started /\ Home[t] = c
    /\ check_page_directory(c)
    /\ running' = [running EXCEPT ![c] = t]
    /\ UNCHANGED <<master, mmap, s_page_directory_version, tables, frames, regions,
                   started, inbox, mapped_in, halted>>

(* The entry of a kernel page table in directory and mapping table, as the *)
(* locked part of map() leaves it: created unless the master has it, in    *)
(* which case only the directory of the space is filled in.                *)
MasterHas(i) == master[i] # Null

create_pde(c, s, i) ==
    /\ frames < MaxFrame
    /\ frames' = frames + 1
    /\ master' = [master EXCEPT ![i] = frames']
    /\ mmap' = [mmap EXCEPT ![i] = frames']
    /\ mapping' = IF s = Kernel THEN mapping ELSE [mapping EXCEPT ![s][i] = frames']
    /\ s_page_directory_version' = s_page_directory_version + 1
    /\ version' = [version EXCEPT ![s] = s_page_directory_version']
    /\ inbox' = [d \in Cores |-> IF d = c THEN inbox[d] ELSE inbox[d] + 1]

(* map() of one kernel page that find_free_region() found: the page table  *)
(* is written through the mapping table of the space.                      *)
map(c, i, p) ==
    LET s == Current(c) IN
    /\ ~halted /\ running[c] \in Mappers /\ <<i, p>> \notin regions
    /\ IF Directory(s)[i] # Null
       THEN UNCHANGED <<frames, master, mmap, mapping, s_page_directory_version, version,
                        inbox, dir>>
       ELSE /\ IF MasterHas(i)
               THEN UNCHANGED <<frames, master, mmap, mapping, s_page_directory_version,
                                version, inbox>>
               ELSE create_pde(c, s, i)
            /\ dir' = IF s = Kernel THEN dir ELSE [dir EXCEPT ![s][i] = master'[i]]
    /\ LET table == IF s = Kernel THEN mmap'[i] ELSE mapping'[s][i] IN
       /\ halted' = (p \in tables[table])
       /\ tables' = [tables EXCEPT ![table] = @ \cup {p}]
    /\ regions' = regions \cup {<<i, p>>}
    /\ mapped_in' = mapped_in \cup {s}
    /\ UNCHANGED <<running, started>>

(* unmap() of one kernel page; kernel page tables are never deleted.       *)
unmap(c, i, p) ==
    LET s == Current(c)
        table == MappingTable(s)[i]
    IN
    /\ ~halted /\ running[c] \in Mappers /\ <<i, p>> \in regions
    /\ halted' = (Directory(s)[i] = Null \/ p \notin tables[table])
    /\ tables' = [tables EXCEPT ![table] = @ \ {p}]
    /\ regions' = regions \ {<<i, p>>}
    /\ mapped_in' = mapped_in \cup {s}
    /\ UNCHANGED <<master, mmap, s_page_directory_version, dir, mapping, version, frames,
                   running, started, inbox>>

(* create_memory_space() for a fork(): both kernel halves and the version  *)
(* are copied under s_page_directory_lock.                                 *)
create_memory_space(c, t) ==
    /\ ~halted /\ t \in Processes \ started
    /\ dir' = [dir EXCEPT ![t] = master]
    /\ mapping' = [mapping EXCEPT ![t] = mmap]
    /\ version' = [version EXCEPT ![t] = s_page_directory_version]
    /\ started' = started \cup {t}
    /\ UNCHANGED <<master, mmap, s_page_directory_version, tables, frames, regions,
                   running, inbox, mapped_in, halted>>

Next ==
    \E c \in Cores :
        \/ interrupt(c)
        \/ smp_process_messages(c)
        \/ \E t \in Threads : tick(c, t) \/ create_memory_space(c, t)
        \/ \E i \in Indices, p \in PtIndices : map(c, i, p) \/ unmap(c, i, p)

Spec == Init /\ [][Next]_vars

(* Every core is interrupted by its timer again and again, and the         *)
(* scheduler gives every thread its turn.                                  *)
FairSpec == Spec /\ \A c \in Cores, t \in Threads : WF_vars(tick(c, t))

----------------------------------------------------------------------------
(* There is one page table for each kernel address: a space either lacks   *)
(* an entry of the master or has the master's, in its directory and in its *)
(* mapping table.  map() looks at the master again under the lock for this.*)
OneTable ==
    \A s \in started \cap Processes, i \in Indices :
        dir[s][i] \in {Null, master[i]} /\ mapping[s][i] \in {Null, master[i]}

(* The version of a space tells which entries it has: a space with the     *)
(* master's version has all of the master's entries, in both tables        *)
(* (check_page_directory() does nothing for it any more).                  *)
VersionMatchesData ==
    \A s \in started \cap Processes :
        version[s] = s_page_directory_version => dir[s] = master /\ mapping[s] = mmap

(* The assertions of map() and unmap() hold: the page table of a page to   *)
(* be mapped has a free entry for it, that of a page to be unmapped is     *)
(* present in the current space and has the page.                          *)
PagingAsserts == ~halted

(* The kernel pages were all mapped and unmapped in one memory space.      *)
OneMapper == \A s, u \in mapped_in : s = u

(* All spaces share one page table for a kernel address, whoever creates   *)
(* it.  As long as one space does all the mapping, the version of a space  *)
(* moreover tells which entries it has, so check_page_directory() may skip *)
(* it, and the assertions of map() and unmap() hold.  (With several spaces *)
(* this fails: create_pde() gives the space the newest version although it *)
(* lacks the tables that others created.)                                  *)
TablesShared == TypeOK /\ OneTable /\ (OneMapper => VersionMatchesData /\ PagingAsserts)

(* Every process that exists gets every kernel page table.                 *)
EventuallySynchronized ==
    \A s \in Processes, i \in Indices :
        (s \in started /\ master[i] # Null) ~> (dir[s][i] = master[i])
=============================================================================
