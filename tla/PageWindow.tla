----------------------------- MODULE PageWindow -----------------------------
(***************************************************************************)
(* Page tables are written through one window: get_page_table_for() of     *)
(* arch/i686/memory.cpp points the page table entry of                     *)
(* FIXED_PAGE_TABLE_MAP_ADDR at the wanted table, invalidates the address  *)
(* and returns the window.  The entry lies in a kernel page table that all *)
(* memory spaces share, so there is one window for all cores, and each     *)
(* core may remember in its TLB what the window showed earlier.            *)
(*                                                                         *)
(* The module has map() and unmap() of single pages of userland, which run *)
(* without a lock and with interrupts on.  A thread stands for its process *)
(* with a memory space of its own.                                         *)
(***************************************************************************)
EXTENDS Integers

CONSTANTS
    Cpus,
    Tasks,
    CpuOf,      \* the core that runs each thread
    PdEntries,  \* entries of a page directory
    PtEntries,  \* entries of a page table
    NoTable

ASSUME WindowAssumption ==
    /\ CpuOf \in [Tasks -> Cpus]
    /\ \A c \in Cpus : \E t \in Tasks : CpuOf[t] = c
    /\ PdEntries # {} /\ PtEntries # {}
    /\ NoTable \notin Tasks \X PdEntries

PageTables == Tasks \X PdEntries
UserPages == PdEntries \X PtEntries

VARIABLES
    entry,    \* page table the window's entry points at
    tlb,      \* what each core remembers of the window, or NoTable
    told,     \* whether PageInvalidatedMessages for the window are queued for a core
    on,       \* current thread of each core
    table,    \* present entries of each page table
    present,  \* entries of each page directory that are present
    mapped,   \* userland_map of each thread
    pc,       \* where each thread is in get_page_table_for() and its use
    stage,    \* what the thread is going to do with the page table
    page,     \* page that the thread maps or unmaps
    stopped,  \* an assertion failed: panic() stops all cores
    mappers   \* threads that have called map() or unmap() (history)

windowVars == <<entry, tlb, told, on, table, present, mapped, pc, stage, page, stopped, mappers>>

(* Tables, pages and program counters stay within their sets.              *)
WindowTypeOK ==
    /\ entry \in PageTables \cup {NoTable}
    /\ tlb \in [Cpus -> PageTables \cup {NoTable}]
    /\ told \in [Cpus -> BOOLEAN]
    /\ on \in [Cpus -> Tasks] /\ \A c \in Cpus : CpuOf[on[c]] = c
    /\ table \in [PageTables -> SUBSET PtEntries]
    /\ present \in [Tasks -> SUBSET PdEntries]
    /\ mapped \in [Tasks -> SUBSET UserPages]
    /\ pc \in [Tasks -> {"idle", "set", "invlpg", "send", "use"}]
    /\ stage \in [Tasks -> {"clear", "map", "unmap", "check"}]
    /\ page \in [Tasks -> UserPages]
    /\ stopped \in BOOLEAN
    /\ mappers \subseteq Tasks

WindowInit ==
    /\ entry = NoTable
    /\ tlb = [c \in Cpus |-> NoTable]
    /\ told = [c \in Cpus |-> FALSE]
    /\ on \in {r \in [Cpus -> Tasks] : \A c \in Cpus : CpuOf[r[c]] = c}
    /\ table = [x \in PageTables |-> {}]
    /\ present = [t \in Tasks |-> {}]
    /\ mapped = [t \in Tasks |-> {}]
    /\ pc = [t \in Tasks |-> "idle"]
    /\ stage = [t \in Tasks |-> "map"]
    /\ page = [t \in Tasks |-> CHOOSE v \in UserPages : TRUE]
    /\ stopped = FALSE /\ mappers = {}

----------------------------------------------------------------------------
(* The thread t runs on its core.                                          *)
Runs(t) == ~stopped /\ on[CpuOf[t]] = t

Own(t) == <<t, page[t][1]>>

(* Writing or reading the window goes through the TLB of the core, or      *)
(* through the entry, which the TLB then remembers.                        *)
Shown(c) == IF tlb[c] # NoTable THEN tlb[c] ELSE entry

(* map() and unmap() enter with the table for the page, which map() first  *)
(* creates and clears when the directory has none.                         *)
map_page(t, v) ==
    /\ Runs(t) /\ pc[t] = "idle" /\ v \notin mapped[t]
    /\ mapped' = [mapped EXCEPT ![t] = @ \cup {v}]
    /\ page' = [page EXCEPT ![t] = v]
    /\ stage' = [stage EXCEPT ![t] = IF v[1] \in present[t] THEN "map" ELSE "clear"]
    /\ pc' = [pc EXCEPT ![t] = "set"]
    /\ mappers' = mappers \cup {t}
    /\ UNCHANGED <<entry, tlb, told, on, table, present, stopped>>

unmap_page(t, v) ==
    /\ Runs(t) /\ pc[t] = "idle" /\ v \in mapped[t]
    /\ stopped' = (v[1] \notin present[t])
    /\ page' = [page EXCEPT ![t] = v]
    /\ stage' = [stage EXCEPT ![t] = "unmap"]
    /\ pc' = [pc EXCEPT ![t] = "set"]
    /\ mappers' = mappers \cup {t}
    /\ UNCHANGED <<entry, tlb, told, on, table, present, mapped>>

(* get_page_table_for(): the entry of the window ...                       *)
get_page_table_for(t) ==
    /\ Runs(t) /\ pc[t] = "set"
    /\ entry' = Own(t)
    /\ pc' = [pc EXCEPT ![t] = "invlpg"]
    /\ UNCHANGED <<tlb, told, on, table, present, mapped, stage, page, stopped, mappers>>

(* ... invalidate(), first on this core ...                                *)
invalidate_skipped(t) ==
    /\ Runs(t) /\ pc[t] = "invlpg"
    /\ pc' = [pc EXCEPT ![t] = "send"]
    /\ UNCHANGED <<entry, tlb, told, on, table, present, mapped, stage, page, stopped, mappers>>
invalidate(t) ==
    /\ Runs(t) /\ pc[t] = "invlpg"
    /\ tlb' = [tlb EXCEPT ![CpuOf[t]] = NoTable]
    /\ pc' = [pc EXCEPT ![t] = "send"]
    /\ UNCHANGED <<entry, told, on, table, present, mapped, stage, page, stopped, mappers>>

(* ... and then with a message to all others.                              *)
smp_broadcast(t) ==
    /\ Runs(t) /\ pc[t] = "send"
    /\ told' = [c \in Cpus |-> told[c] \/ c # CpuOf[t]]
    /\ pc' = [pc EXCEPT ![t] = "use"]
    /\ UNCHANGED <<entry, tlb, on, table, present, mapped, stage, page, stopped, mappers>>

(* The use of the window that map(), unmap() or create_pde() asked for.    *)
Uses(t, s) ==
    /\ Runs(t) /\ pc[t] = "use" /\ stage[t] = s
    /\ tlb' = [tlb EXCEPT ![CpuOf[t]] = Shown(CpuOf[t])]
    /\ UNCHANGED <<entry, told, on, page, mappers>>

(* create_pde() clears the new table, and the directory entry is set.      *)
clear_table(t) ==
    /\ Uses(t, "clear")
    /\ table' = [table EXCEPT ![Shown(CpuOf[t])] = {}]
    /\ present' = [present EXCEPT ![t] = @ \cup {page[t][1]}]
    /\ stage' = [stage EXCEPT ![t] = "map"]
    /\ pc' = [pc EXCEPT ![t] = "set"]
    /\ UNCHANGED <<mapped, stopped>>

map_entry(t) ==
    LET x == Shown(CpuOf[t]) IN
    /\ Uses(t, "map")
    /\ stopped' = (page[t][2] \in table[x])
    /\ table' = [table EXCEPT ![x] = @ \cup {page[t][2]}]
    /\ pc' = [pc EXCEPT ![t] = "idle"]
    /\ UNCHANGED <<present, mapped, stage>>

unmap_entry(t) ==
    LET x == Shown(CpuOf[t]) IN
    /\ Uses(t, "unmap")
    /\ stopped' = (page[t][2] \notin table[x])
    /\ table' = [table EXCEPT ![x] = @ \ {page[t][2]}]
    /\ stage' = [stage EXCEPT ![t] = "check"]
    /\ pc' = [pc EXCEPT ![t] = "set"]
    /\ UNCHANGED <<present, mapped>>

(* The second half of unmap(): a table without entries is taken out of the *)
(* directory and freed; then the region leaves the tree.                   *)
unmap_check(t) ==
    /\ Uses(t, "check")
    /\ present' = IF table[Shown(CpuOf[t])] = {}
                  THEN [present EXCEPT ![t] = @ \ {page[t][1]}] ELSE present
    /\ mapped' = [mapped EXCEPT ![t] = @ \ {page[t]}]
    /\ pc' = [pc EXCEPT ![t] = "idle"]
    /\ UNCHANGED <<table, stage, stopped>>

(* The interprocessor interrupt handles all queued messages.               *)
handle_invalidation(c) ==
    /\ ~stopped /\ told[c]
    /\ told' = [told EXCEPT ![c] = FALSE]
    /\ tlb' = [tlb EXCEPT ![c] = NoTable]
    /\ UNCHANGED <<entry, on, table, present, mapped, pc, stage, page, stopped, mappers>>

(* The timer switches the thread; loading its directory empties the TLB.   *)
switch(c, t) ==
    /\ ~stopped /\ CpuOf[t] = c /\ t # on[c]
    /\ on' = [on EXCEPT ![c] = t]
    /\ tlb' = [tlb EXCEPT ![c] = NoTable]
    /\ UNCHANGED <<entry, told, table, present, mapped, pc, stage, page, stopped, mappers>>

(* A processor may drop a TLB entry at any time, and may fill it in        *)
(* without an access of the program.                                       *)
tlb_refill(c) ==
    /\ ~stopped
    /\ tlb' \in {[tlb EXCEPT ![c] = x] : x \in {NoTable, Shown(c)} \ {tlb[c]}}
    /\ UNCHANGED <<entry, told, on, table, present, mapped, pc, stage, page, stopped, mappers>>

WindowNext ==
    \/ \E t \in Tasks :
        \/ \E v \in UserPages : map_page(t, v) \/ unmap_page(t, v)
        \/ get_page_table_for(t) \/ invalidate(t) \/ smp_broadcast(t)
        \/ clear_table(t) \/ map_entry(t) \/ unmap_entry(t) \/ unmap_check(t)
    \/ \E c \in Cpus : handle_invalidation(c) \/ tlb_refill(c) \/ \E t \in Tasks : switch(c, t)

WindowSpec == WindowInit /\ [][WindowNext]_windowVars

----------------------------------------------------------------------------
(* No core keeps an old view of the window unnoticed: where the TLB shows  *)
(* another table than the entry, an invalidation is queued for the core,   *)
(* or its own thread is about to invalidate the window, or a thread of     *)
(* another core is on its way to telling it.                               *)
StaleIsTold ==
    \A c \in Cpus :
        tlb[c] \notin {NoTable, entry} =>
            \/ told[c] \/ pc[on[c]] = "invlpg"
            \/ \E t \in Tasks : CpuOf[t] # c /\ pc[t] \in {"invlpg", "send"}

(* What map() and unmap() wrote through the window went to the page table  *)
(* of their own memory space: between two calls its present entries are    *)
(* those of userland_map.                                                  *)
WindowFaithful ==
    \A t \in Tasks, i \in PdEntries :
        pc[t] = "idle" /\ i \in present[t] =>
            table[<<t, i>>] = {e \in PtEntries : <<i, e>> \in mapped[t]}

(* The assertions of map() and unmap() on the page table entry hold.       *)
WindowAsserts == ~stopped

(* One thread did all the mapping.                                         *)
OneUser == \A t, u \in mappers : t = u

(* No core keeps an old view of the window unnoticed, whoever maps: an     *)
(* invalidation is queued for it or about to be sent.  And while a single  *)
(* process maps, what it writes through the window goes to its own page    *)
(* tables, however its core is interrupted and its TLB refilled, and the   *)
(* assertions of map() and unmap() hold.                                   *)
WritesReachOwnTable ==
    WindowTypeOK /\ StaleIsTold /\ (OneUser => WindowFaithful /\ WindowAsserts)
=============================================================================
