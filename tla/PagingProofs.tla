---------------------------- MODULE PagingProofs ----------------------------
(***************************************************************************)
(* The kernel halves of all page directories agree, for every number of    *)
(* cores, threads, spaces, directory entries and page tables.  That there  *)
(* is one page table for each kernel address needs only that the master    *)
(* and its mapping table never differ.  That versions tell the truth and   *)
(* the assertions hold, while one space does the mapping, needs more: that *)
(* this space has always the newest version, that no version is ahead of   *)
(* the master's, and that the page tables say what the regions say.        *)
(*                                                                         *)
(* The second part is about the window to the page tables of userland.     *)
(* That a core with an old view of it is told needs no more than itself.   *)
(* That one process writes to its own tables needs that the window is its  *)
(* own from the moment it set the entry, that its core sees this once the  *)
(* address is invalidated, and that regions, directory and page tables     *)
(* agree up to the page at hand.                                           *)
(***************************************************************************)
EXTENDS PageDirectory, PageWindow, TLAPS

(* What is so whoever maps: threads run that exist, no space is ahead of   *)
(* the master, and each page table has its own physical page.              *)
Shared ==
    /\ TypeOK
    /\ \A c \in Cores : running[c] \in started
    /\ mmap = master
    /\ \A s \in Spaces : version[s] <= s_page_directory_version
    /\ \A i \in Indices : master[i] <= frames
    /\ \A i, j \in Indices : master[i] # Null /\ master[i] = master[j] => i = j
    /\ OneTable

(* What is so while one space maps.                                        *)
Single ==
    /\ mapped_in = {} => s_page_directory_version = 0 /\ master = NoTables /\ regions = {}
    /\ \A s \in mapped_in : version[s] = s_page_directory_version
    /\ VersionMatchesData
    /\ ~halted
    /\ \A i \in Indices, p \in PtIndices :
         <<i, p>> \in regions <=> master[i] # Null /\ p \in tables[master[i]]
    /\ \A f \in Frames : f > frames => tables[f] = {}

----------------------------------------------------------------------------
(* The space of the thread that a core runs exists.                        *)
LEMMA CurrentExists ==
    ASSUME Shared, NEW c \in Cores
    PROVE  /\ Current(c) \in Spaces
           /\ Current(c) # Kernel => Current(c) \in Processes /\ Current(c) \in started
BY Zenon, PagingAssumption DEF Shared, TypeOK, Current, Space, Spaces, Processes

(* The copy of the kernel half keeps what is so whoever maps ...           *)
LEMMA CheckShared ==
    ASSUME Shared, NEW c \in Cores, check_page_directory(c)
    PROVE  /\ dir' \in [Processes -> [Indices -> Frames]]
           /\ mapping' \in [Processes -> [Indices -> Frames]]
           /\ version' \in [Spaces -> Nat]
           /\ \A s \in Spaces : version'[s] <= s_page_directory_version
           /\ \A s \in started \cap Processes, i \in Indices :
                dir'[s][i] \in {Null, master[i]} /\ mapping'[s][i] \in {Null, master[i]}
<1> DEFINE s == Current(c)
<1>1. s \in Spaces /\ (s # Kernel => s \in Processes)
  BY Zenon, CurrentExists
<1>2. version' = [version EXCEPT ![s] = s_page_directory_version]
  BY Zenon DEF check_page_directory
<1>3. CASE UNCHANGED <<dir, mapping>>
  BY <1>1, <1>2, <1>3 DEF Shared, TypeOK, OneTable
<1>4. CASE /\ s # Kernel
           /\ dir' = [dir EXCEPT ![s] = master] /\ mapping' = [mapping EXCEPT ![s] = mmap]
  BY <1>1, <1>2, <1>4 DEF Shared, TypeOK, OneTable
<1> QED BY Zenon, <1>3, <1>4 DEF check_page_directory

(* ... and makes the version of a space tell the truth.                    *)
LEMMA CheckSingle ==
    ASSUME Shared, Single, NEW c \in Cores, check_page_directory(c)
    PROVE  /\ \A s \in mapped_in : version'[s] = s_page_directory_version
           /\ \A s \in started \cap Processes :
                version'[s] = s_page_directory_version => dir'[s] = master /\ mapping'[s] = mmap
<1> DEFINE s == Current(c)
<1>1. s \in Spaces /\ (s # Kernel => s \in Processes) /\ Kernel \notin Processes /\ mapped_in \subseteq Spaces
  BY Zenon, CurrentExists, PagingAssumption DEF Processes, Shared, TypeOK
<1>2. version' = [version EXCEPT ![s] = s_page_directory_version]
  BY Zenon DEF check_page_directory
<1>3. CASE UNCHANGED <<dir, mapping>> /\ (version[s] = s_page_directory_version \/ s = Kernel)
  BY Zenon, <1>1, <1>2, <1>3 DEF Shared, Single, TypeOK, VersionMatchesData, Spaces
<1>4. CASE /\ s # Kernel
           /\ dir' = [dir EXCEPT ![s] = master] /\ mapping' = [mapping EXCEPT ![s] = mmap]
  BY Zenon, <1>1, <1>2, <1>4 DEF Shared, Single, TypeOK, VersionMatchesData, Spaces
<1> QED BY Zenon, <1>3, <1>4 DEF check_page_directory

----------------------------------------------------------------------------
(* Interrupts of a core copy the kernel half, and change the thread.       *)
LEMMA InterruptShared ==
    ASSUME Shared, NEW c \in Cores,
           interrupt(c) \/ smp_process_messages(c) \/ \E t \in Threads : tick(c, t)
    PROVE  /\ Shared'
           /\ check_page_directory(c)
           /\ UNCHANGED <<master, mmap, s_page_directory_version, tables, frames, regions,
                          started, mapped_in, halted>>
<1>1. /\ check_page_directory(c)
      /\ UNCHANGED <<master, mmap, s_page_directory_version, tables, frames, regions,
                     started, mapped_in, halted>>
  BY Zenon DEF interrupt, smp_process_messages, tick
<1>2. running' \in [Cores -> Threads] /\ \A d \in Cores : running'[d] \in started
  <2>1. ASSUME NEW t \in Threads, tick(c, t)
        PROVE  running' \in [Cores -> Threads] /\ \A d \in Cores : running'[d] \in started
    BY Zenon, <2>1 DEF tick, Shared, TypeOK
  <2> QED BY Zenon, <2>1 DEF interrupt, smp_process_messages, Shared, TypeOK
<1>3. inbox' \in [Cores -> Nat]
  <2>1. ASSUME smp_process_messages(c) PROVE inbox' \in [Cores -> Nat]
    BY Zenon, <2>1 DEF smp_process_messages, Shared, TypeOK
  <2> QED BY Zenon, <2>1 DEF interrupt, tick, Shared, TypeOK
<1>4. TypeOK'
  BY Zenon, <1>1, <1>2, <1>3, CheckShared DEF Shared, TypeOK
<1>5. OneTable'
  BY Zenon, <1>1, CheckShared DEF OneTable
<1> QED BY Zenon, <1>1, <1>2, <1>4, <1>5, CheckShared DEF Shared

(* They keep what is so while one space maps.                              *)
LEMMA InterruptSingle ==
    ASSUME Shared, Single, NEW c \in Cores,
           interrupt(c) \/ smp_process_messages(c) \/ \E t \in Threads : tick(c, t)
    PROVE  Single'
<1>1. /\ check_page_directory(c)
      /\ UNCHANGED <<master, mmap, s_page_directory_version, tables, frames, regions,
                     started, mapped_in, halted>>
  BY Zenon, InterruptShared
<1> QED BY Zenon, <1>1, CheckSingle DEF Single, VersionMatchesData

(* A new space starts with the master's entries and version.               *)
LEMMA CreateShared ==
    ASSUME Shared, NEW c \in Cores, NEW t \in Threads, create_memory_space(c, t)
    PROVE  Shared'
<1>1. t \in Processes /\ t \in Spaces
  BY Zenon DEF create_memory_space, Spaces
<1>2. /\ dir' = [dir EXCEPT ![t] = master] /\ mapping' = [mapping EXCEPT ![t] = mmap]
      /\ version' = [version EXCEPT ![t] = s_page_directory_version]
      /\ started' = started \cup {t}
      /\ UNCHANGED <<master, mmap, s_page_directory_version, tables, frames, regions,
                     running, inbox, mapped_in, halted>>
  BY Zenon DEF create_memory_space
<1>3. TypeOK'
  BY Zenon, <1>1, <1>2 DEF Shared, TypeOK
<1>4. OneTable'
  BY Zenon, <1>1, <1>2 DEF Shared, TypeOK, OneTable
<1>5. \A s \in Spaces : version'[s] <= s_page_directory_version'
  BY <1>1, <1>2 DEF Shared, TypeOK
<1>6. \A d \in Cores : running'[d] \in started'
  BY Zenon, <1>2 DEF Shared
<1> QED BY Zenon, <1>2, <1>3, <1>4, <1>5, <1>6 DEF Shared

(* It keeps what is so while one space maps.                               *)
LEMMA CreateSingle ==
    ASSUME Shared, Single, NEW c \in Cores, NEW t \in Threads, create_memory_space(c, t)
    PROVE  Single'
<1>1. t \in Processes /\ t \in Spaces
  BY Zenon DEF create_memory_space, Spaces
<1>2. /\ dir' = [dir EXCEPT ![t] = master] /\ mapping' = [mapping EXCEPT ![t] = mmap]
      /\ version' = [version EXCEPT ![t] = s_page_directory_version]
      /\ started' = started \cup {t}
      /\ UNCHANGED <<master, mmap, s_page_directory_version, tables, frames, regions,
                     running, inbox, mapped_in, halted>>
  BY Zenon DEF create_memory_space
<1>3. VersionMatchesData'
  BY Zenon, <1>1, <1>2 DEF Shared, Single, TypeOK, VersionMatchesData, Spaces
<1>4. \A s \in mapped_in' : version'[s] = s_page_directory_version'
  BY Zenon, <1>1, <1>2 DEF Shared, Single, TypeOK
<1> QED BY Zenon, <1>2, <1>3, <1>4 DEF Single

----------------------------------------------------------------------------
(* map() adds at most one page table, and to the directory only what the   *)
(* master has.                                                             *)
LEMMA MapShared ==
    ASSUME Shared, NEW c \in Cores, NEW i \in Indices, NEW p \in PtIndices, map(c, i, p)
    PROVE  Shared'
<1> DEFINE s == Current(c)
           shown == IF s = Kernel THEN mmap'[i] ELSE mapping'[s][i]
<1>1. /\ s \in Spaces /\ (s # Kernel => s \in Processes /\ s \in started)
      /\ Kernel \notin Processes /\ Kernel \in Spaces
  BY Zenon, CurrentExists, PagingAssumption DEF Processes, Spaces
<1>2. /\ UNCHANGED <<running, started>> /\ tables' = [tables EXCEPT ![shown] = @ \cup {p}]
      /\ regions' = regions \cup {<<i, p>>} /\ mapped_in' = mapped_in \cup {s}
      /\ halted' = (p \in tables[shown])
  BY Zenon DEF map
<1>3. regions' \subseteq Pages /\ mapped_in' \subseteq Spaces /\ halted' \in BOOLEAN
  <2>1. halted' \in BOOLEAN
    <3> HIDE DEF shown
    <3>1. halted' = (p \in tables[shown])
      BY Zenon, <1>2
    <3>2. CASE p \in tables[shown]
      BY Zenon, <3>1, <3>2
    <3>3. CASE p \notin tables[shown]
      BY <3>1, <3>3
    <3> QED BY Zenon, <3>2, <3>3
  <2> QED BY <1>1, <1>2, <2>1 DEF Shared, TypeOK, Pages
<1>4. tables' \in [Frames -> SUBSET PtIndices]
  BY Zenon, <1>2 DEF Shared, TypeOK
<1>5. CASE UNCHANGED <<frames, master, mmap, mapping, s_page_directory_version, version, inbox, dir>>
  <2>1. TypeOK'
    BY Zenon, <1>2, <1>3, <1>4, <1>5 DEF Shared, TypeOK
  <2>2. OneTable'
    BY Zenon, <1>2, <1>5 DEF Shared, OneTable
  <2> QED BY Zenon, <1>2, <1>5, <2>1, <2>2 DEF Shared
<1>6. CASE /\ UNCHANGED <<frames, master, mmap, mapping, s_page_directory_version, version, inbox>>
           /\ dir' = [dir EXCEPT ![s] = [dir[s] EXCEPT ![i] = master[i]]] /\ s # Kernel
  <2>1. dir' \in [Processes -> [Indices -> Frames]]
    BY Zenon, <1>1, <1>6 DEF Shared, TypeOK
  <2>2. \A u \in Processes, j \in Indices : dir'[u][j] \in {dir[u][j], master[j]}
    BY Zenon, <1>1, <1>6 DEF Shared, TypeOK
  <2>3. TypeOK'
    BY Zenon, <1>2, <1>3, <1>4, <1>6, <2>1 DEF Shared, TypeOK
  <2>4. OneTable'
    BY <1>2, <1>6, <2>2 DEF Shared, OneTable
  <2> QED BY Zenon, <1>2, <1>6, <2>3, <2>4 DEF Shared
<1>7. CASE /\ create_pde(c, s, i) /\ master[i] = Null
           /\ dir' = IF s = Kernel THEN dir ELSE [dir EXCEPT ![s] = [dir[s] EXCEPT ![i] = master'[i]]]
  <2>1. /\ frames' = frames + 1 /\ frames' \in Frames /\ frames' # Null /\ frames \in Nat
        /\ master' = [master EXCEPT ![i] = frames'] /\ mmap' = [mmap EXCEPT ![i] = frames']
        /\ s_page_directory_version' = s_page_directory_version + 1
        /\ version' = [version EXCEPT ![s] = s_page_directory_version']
        /\ inbox' = [d \in Cores |-> IF d = c THEN inbox[d] ELSE inbox[d] + 1]
        /\ mapping' = IF s = Kernel THEN mapping ELSE [mapping EXCEPT ![s] = [mapping[s] EXCEPT ![i] = frames']]
    BY <1>7, PagingAssumption DEF create_pde, Shared, TypeOK, Frames, Null
  <2>2. master' \in [Indices -> Frames] /\ mmap' \in [Indices -> Frames] /\ mmap' = master'
    BY Zenon, <2>1 DEF Shared, TypeOK
  <2>3. master'[i] = frames' /\ \A j \in Indices \ {i} : master'[j] = master[j]
    BY Zenon, <2>1 DEF Shared, TypeOK
  <2>4. dir' \in [Processes -> [Indices -> Frames]] /\ mapping' \in [Processes -> [Indices -> Frames]]
    BY Zenon, <1>1, <1>7, <2>1, <2>3 DEF Shared, TypeOK
  <2>5. version' \in [Spaces -> Nat] /\ s_page_directory_version' \in Nat
    BY <1>1, <2>1 DEF Shared, TypeOK
  <2>6. inbox' \in [Cores -> Nat]
    BY <2>1 DEF Shared, TypeOK
  <2>7. TypeOK'
    BY Zenon, <1>2, <1>3, <1>4, <2>1, <2>2, <2>4, <2>5, <2>6 DEF Shared, TypeOK
  <2>8. \A u \in Spaces : version'[u] <= s_page_directory_version'
    BY <1>1, <2>1 DEF Shared, TypeOK
  <2>9. \A j \in Indices : master'[j] <= frames'
    BY <2>1, <2>3 DEF Shared, TypeOK, Frames
  <2>10. \A j \in Indices \ {i} : master'[j] # frames'
    BY <2>1, <2>3, PagingAssumption DEF Shared, TypeOK, Frames
  <2>11. \A j, l \in Indices : master'[j] # Null /\ master'[j] = master'[l] => j = l
    BY Zenon, <2>3, <2>10 DEF Shared
  <2>12. \A u \in Processes, j \in Indices : dir'[u][j] \in {dir[u][j], master'[j]}
                                             /\ mapping'[u][j] \in {mapping[u][j], master'[j]}
    BY Zenon, <1>1, <1>7, <2>1, <2>3 DEF Shared, TypeOK
  <2>13. ASSUME NEW u \in started \cap Processes, NEW j \in Indices
         PROVE  dir'[u][j] \in {Null, master'[j]} /\ mapping'[u][j] \in {Null, master'[j]}
    <3>1. dir[u][j] \in {Null, master[j]} /\ mapping[u][j] \in {Null, master[j]}
      BY Zenon DEF Shared, OneTable
    <3> QED BY Zenon, <1>7, <2>3, <2>12, <3>1
  <2>14. OneTable'
    BY Zenon, <1>2, <2>13 DEF OneTable
  <2> QED BY Zenon, <1>2, <2>2, <2>7, <2>8, <2>9, <2>11, <2>14 DEF Shared
<1> QED BY Zenon, <1>5, <1>6, <1>7 DEF map, MasterHas

(* A space that does all the mapping has what the master has.              *)
LEMMA MapperIsNewest ==
    ASSUME Shared, Single, NEW c \in Cores, mapped_in \subseteq {Current(c)}
    PROVE  /\ version[Current(c)] = s_page_directory_version
           /\ Directory(Current(c)) = master /\ MappingTable(Current(c)) = master
<1> DEFINE s == Current(c)
<1>1. s \in Spaces /\ (s # Kernel => s \in Processes /\ s \in started)
  BY Zenon, CurrentExists
<1>2. version[s] = s_page_directory_version
  <2>1. CASE mapped_in = {}
    BY <1>1, <2>1 DEF Shared, Single, TypeOK
  <2>2. CASE s \in mapped_in
    BY Zenon, <2>2 DEF Single
  <2> QED BY Zenon, <2>1, <2>2
<1> QED BY Zenon, <1>1, <1>2 DEF Shared, Single, VersionMatchesData, Directory, MappingTable

(* map() finds the entry of the page clear, in the master's page table or  *)
(* in a new one, and leaves the space with the newest version.             *)
LEMMA MapSingle ==
    ASSUME Shared, Single, NEW c \in Cores, NEW i \in Indices, NEW p \in PtIndices, map(c, i, p), OneMapper'
    PROVE  Single'
<1> DEFINE s == Current(c)
           shown == IF s = Kernel THEN mmap'[i] ELSE mapping'[s][i]
<1>1. /\ s \in Spaces /\ (s # Kernel => s \in Processes /\ s \in started)
      /\ Kernel \notin Processes /\ Kernel \in Spaces
  BY Zenon, CurrentExists, PagingAssumption DEF Processes, Spaces
<1>2. /\ UNCHANGED <<running, started>> /\ tables' = [tables EXCEPT ![shown] = @ \cup {p}]
      /\ regions' = regions \cup {<<i, p>>} /\ mapped_in' = mapped_in \cup {s}
      /\ halted' = (p \in tables[shown]) /\ <<i, p>> \notin regions
  BY Zenon DEF map
<1>3. mapped_in' = {s} /\ mapped_in \subseteq {s}
  BY Zenon, <1>2 DEF OneMapper
<1>4. version[s] = s_page_directory_version /\ Directory(s) = master /\ MappingTable(s) = master
  BY Zenon, <1>3, MapperIsNewest
<1>5. mmap = master /\ frames \in Nat /\ master \in [Indices -> Frames] /\ Frames \subseteq Nat
  BY DEF Shared, TypeOK, Frames
<1>6. ASSUME NEW f \in Frames PROVE tables'[f] = IF f = shown THEN tables[f] \cup {p} ELSE tables[f]
  BY Zenon, <1>2 DEF Shared, TypeOK
<1>0. /\ \A f \in Frames : f > frames => tables[f] = {}
      /\ \A j \in Indices : master[j] <= frames /\ master[j] \in Frames
  BY Zenon DEF Shared, Single, TypeOK
<1> HIDE DEF shown
<1>7. CASE master[i] # Null
  <2>1. UNCHANGED <<frames, master, mmap, mapping, s_page_directory_version, version, dir>>
    BY Zenon, <1>4, <1>7 DEF map
  <2>2. shown = master[i] /\ shown \in Frames
    BY Zenon, <1>4, <1>5, <2>1 DEF shown, MappingTable
  <2>3. ~halted'
    BY Zenon, <1>2, <1>7, <2>2 DEF Single
  <2>4. VersionMatchesData'
    BY Zenon, <1>2, <2>1 DEF Single, VersionMatchesData
  <2>5. ASSUME NEW j \in Indices, NEW q \in PtIndices
        PROVE  <<j, q>> \in regions' <=> master'[j] # Null /\ q \in tables'[master'[j]]
    <3>1. master[j] \in Frames /\ (master[j] = shown <=> j = i)
      BY Zenon, <1>5, <1>7, <2>2 DEF Shared
    <3>2. <<j, q>> \in regions <=> master[j] # Null /\ q \in tables[master[j]]
      BY Zenon DEF Single
    <3>3. <<j, q>> \in regions' <=> <<j, q>> \in regions \/ (j = i /\ q = p)
      BY Zenon, <1>2
    <3>4. q \in tables'[master[j]] <=> q \in tables[master[j]] \/ (j = i /\ q = p)
      BY Zenon, <1>6, <3>1
    <3> QED BY Zenon, <1>7, <2>1, <3>2, <3>3, <3>4
  <2>6. ASSUME NEW f \in Frames, f > frames' PROVE tables'[f] = {}
    <3>1. f # shown /\ tables[f] = {}
      BY <1>0, <1>5, <2>1, <2>2, <2>6
    <3> QED BY Zenon, <1>6, <3>1
  <2> QED BY Zenon, <1>3, <1>4, <2>1, <2>3, <2>4, <2>5, <2>6 DEF Single
<1>8. CASE master[i] = Null
  <2>1. /\ create_pde(c, s, i)
        /\ dir' = IF s = Kernel THEN dir ELSE [dir EXCEPT ![s] = [dir[s] EXCEPT ![i] = master'[i]]]
    BY Zenon, <1>4, <1>8 DEF map, MasterHas
  <2>2. /\ frames' = frames + 1 /\ frames' \in Frames /\ frames' # Null
        /\ master' = [master EXCEPT ![i] = frames'] /\ mmap' = [mmap EXCEPT ![i] = frames']
        /\ s_page_directory_version' = s_page_directory_version + 1
        /\ version' = [version EXCEPT ![s] = s_page_directory_version']
        /\ mapping' = IF s = Kernel THEN mapping ELSE [mapping EXCEPT ![s] = [mapping[s] EXCEPT ![i] = frames']]
    BY <2>1, PagingAssumption DEF create_pde, Shared, TypeOK, Frames, Null
  <2>3. master'[i] = frames' /\ (\A j \in Indices \ {i} : master'[j] = master[j]) /\ mmap' = master'
    BY Zenon, <1>5, <2>2
  <2>4. shown = frames'
    BY Zenon, <1>1, <1>5, <2>2, <2>3 DEF shown, Shared, TypeOK
  <2>5. ~halted'
    <3>1. tables[frames'] = {}
      BY <1>0, <1>5, <2>2
    <3> QED BY Zenon, <1>2, <2>4, <3>1
  <2>6. VersionMatchesData'
    <3> SUFFICES ASSUME NEW u \in started \cap Processes, version'[u] = s_page_directory_version'
                 PROVE  dir'[u] = master' /\ mapping'[u] = master'
      BY Zenon, <1>2, <2>3 DEF VersionMatchesData
    <3>1. u = s
      <4>1. u \in Spaces /\ version[u] <= s_page_directory_version /\ version[u] \in Nat
            /\ s_page_directory_version \in Nat
        BY Zenon DEF Shared, TypeOK, Spaces
      <4> QED BY <2>2, <4>1 DEF Shared, TypeOK
    <3>2. s # Kernel /\ dir[s] = master /\ mapping[s] = master
      BY Zenon, <1>1, <1>4, <3>1 DEF Directory, MappingTable
    <3> QED BY Zenon, <2>1, <2>2, <2>3, <3>1, <3>2 DEF Shared, TypeOK
  <2>7. ASSUME NEW j \in Indices, NEW q \in PtIndices
        PROVE  <<j, q>> \in regions' <=> master'[j] # Null /\ q \in tables'[master'[j]]
    <3>1. <<j, q>> \in regions <=> master[j] # Null /\ q \in tables[master[j]]
      BY Zenon DEF Single
    <3>2. <<j, q>> \in regions' <=> <<j, q>> \in regions \/ (j = i /\ q = p)
      BY Zenon, <1>2
    <3>3. CASE j = i
      <4>1. tables'[frames'] = {p}
        <5>1. tables[frames'] = {}
          BY <1>0, <1>5, <2>2
        <5> QED BY Zenon, <1>6, <2>2, <2>4, <5>1
      <4> QED BY <1>8, <2>2, <2>3, <3>1, <3>2, <3>3, <4>1
    <3>4. CASE j # i
      <4>1. master[j] \in Frames /\ master[j] # shown
        BY <1>0, <1>5, <2>2, <2>4
      <4> QED BY Zenon, <1>6, <2>3, <3>1, <3>2, <3>4, <4>1
    <3> QED BY Zenon, <3>3, <3>4
  <2>8. ASSUME NEW f \in Frames, f > frames' PROVE tables'[f] = {}
    <3>1. f # shown /\ tables[f] = {}
      BY <1>0, <1>5, <2>2, <2>4, <2>8
    <3> QED BY Zenon, <1>6, <3>1
  <2>9. version'[s] = s_page_directory_version'
    BY Zenon, <1>1, <2>2 DEF Shared, TypeOK
  <2> QED BY Zenon, <1>3, <2>5, <2>6, <2>7, <2>8, <2>9 DEF Single
<1> QED BY Zenon, <1>7, <1>8

----------------------------------------------------------------------------
(* unmap() changes page tables only.                                       *)
LEMMA UnmapShared ==
    ASSUME Shared, NEW c \in Cores, NEW i \in Indices, NEW p \in PtIndices, unmap(c, i, p)
    PROVE  Shared'
<1> DEFINE s == Current(c)
           shown == MappingTable(s)[i]
<1>1. s \in Spaces
  BY Zenon, CurrentExists
<1>2. /\ UNCHANGED <<master, mmap, s_page_directory_version, dir, mapping, version, frames,
                     running, started, inbox>>
      /\ tables' = [tables EXCEPT ![shown] = @ \ {p}]
      /\ regions' = regions \ {<<i, p>>} /\ mapped_in' = mapped_in \cup {s}
      /\ halted' = (Directory(s)[i] = Null \/ p \notin tables[shown])
  BY Zenon DEF unmap
<1>3. halted' \in BOOLEAN
  BY Zenon, <1>2
<1>4. tables' \in [Frames -> SUBSET PtIndices]
  BY Zenon, <1>2 DEF Shared, TypeOK
<1>5. TypeOK'
  BY Zenon, <1>1, <1>2, <1>3, <1>4 DEF Shared, TypeOK
<1> QED BY Zenon, <1>2, <1>5 DEF Shared, OneTable

(* unmap() finds the page in the master's page table.                      *)
LEMMA UnmapSingle ==
    ASSUME Shared, Single, NEW c \in Cores, NEW i \in Indices, NEW p \in PtIndices, unmap(c, i, p), OneMapper'
    PROVE  Single'
<1> DEFINE s == Current(c)
           shown == MappingTable(s)[i]
<1>1. s \in Spaces
  BY Zenon, CurrentExists
<1>2. /\ UNCHANGED <<master, mmap, s_page_directory_version, dir, mapping, version, frames, started>>
      /\ tables' = [tables EXCEPT ![shown] = @ \ {p}] /\ <<i, p>> \in regions
      /\ regions' = regions \ {<<i, p>>} /\ mapped_in' = mapped_in \cup {s}
      /\ halted' = (Directory(s)[i] = Null \/ p \notin tables[shown])
  BY Zenon DEF unmap
<1>3. mapped_in' = {s} /\ mapped_in \subseteq {s}
  BY Zenon, <1>2 DEF OneMapper
<1>4. version[s] = s_page_directory_version /\ Directory(s) = master /\ MappingTable(s) = master
  BY Zenon, <1>3, MapperIsNewest
<1>5. master[i] # Null /\ p \in tables[master[i]] /\ shown = master[i] /\ master \in [Indices -> Frames]
  BY Zenon, <1>2, <1>4 DEF Shared, Single, TypeOK
<1>6. ~halted'
  BY Zenon, <1>2, <1>4, <1>5
<1>7. ASSUME NEW f \in Frames PROVE tables'[f] = IF f = shown THEN tables[f] \ {p} ELSE tables[f]
  BY Zenon, <1>2 DEF Shared, TypeOK
<1> HIDE DEF shown
<1>8. ASSUME NEW j \in Indices, NEW q \in PtIndices
      PROVE  <<j, q>> \in regions' <=> master'[j] # Null /\ q \in tables'[master'[j]]
  <2>1. master[j] \in Frames /\ (master[j] = shown <=> j = i)
    BY Zenon, <1>5 DEF Shared
  <2>2. <<j, q>> \in regions <=> master[j] # Null /\ q \in tables[master[j]]
    BY Zenon DEF Single
  <2>3. <<j, q>> \in regions' <=> <<j, q>> \in regions /\ ~(j = i /\ q = p)
    BY Zenon, <1>2
  <2>4. q \in tables'[master[j]] <=> q \in tables[master[j]] /\ ~(j = i /\ q = p)
    BY Zenon, <1>7, <2>1
  <2> QED BY Zenon, <1>2, <2>2, <2>3, <2>4
<1>9. \A f \in Frames : f > frames' => tables'[f] = {}
  BY <1>2, <1>7 DEF Single
<1>10. VersionMatchesData'
  BY Zenon, <1>2 DEF Single, VersionMatchesData
<1> QED BY Zenon, <1>2, <1>3, <1>4, <1>6, <1>8, <1>9, <1>10 DEF Single

----------------------------------------------------------------------------
Inductive == Shared /\ (OneMapper => Single)

(* The kernel half is empty at the start, and every step keeps it right.   *)
LEMMA InductiveHolds == Spec => []Inductive
<1>1. Init => Inductive
  <2> SUFFICES ASSUME Init PROVE Inductive
    BY Zenon
  <2>1. 0 \in Frames /\ First \subseteq Threads /\ Boot \in [Cores -> First]
    BY PagingAssumption DEF Frames
  <2>2. TypeOK
    BY Zenon, <2>1 DEF Init, TypeOK, NoTables, Null
  <2>3. Shared
    BY <2>1, <2>2 DEF Init, Shared, OneTable, NoTables, Null
  <2>4. Single
    BY Zenon, <2>1 DEF Init, Single, VersionMatchesData, NoTables, Null
  <2> QED BY Zenon, <2>3, <2>4 DEF Inductive
<1>2. Inductive /\ [Next]_vars => Inductive'
  <2> SUFFICES ASSUME Inductive, [Next]_vars PROVE Inductive'
    BY Zenon
  <2> USE DEF Inductive
  <2>1. ASSUME NEW c \in Cores, interrupt(c) \/ smp_process_messages(c) \/ \E t \in Threads : tick(c, t)
        PROVE  Inductive'
    <3>1. Shared' /\ mapped_in' = mapped_in
      BY Zenon, <2>1, InterruptShared
    <3>2. OneMapper' => OneMapper
      BY Zenon, <3>1 DEF OneMapper
    <3> QED BY Zenon, <2>1, <3>1, <3>2, InterruptSingle
  <2>2. ASSUME NEW c \in Cores, NEW t \in Threads, create_memory_space(c, t) PROVE Inductive'
    <3>1. OneMapper' => OneMapper
      BY Zenon, <2>2 DEF OneMapper, create_memory_space
    <3> QED BY Zenon, <2>2, <3>1, CreateShared, CreateSingle
  <2>3. ASSUME NEW c \in Cores, NEW i \in Indices, NEW p \in PtIndices, map(c, i, p) PROVE Inductive'
    <3>1. OneMapper' => OneMapper
      BY Zenon, <2>3 DEF OneMapper, map
    <3> QED BY Zenon, <2>3, <3>1, MapShared, MapSingle
  <2>4. ASSUME NEW c \in Cores, NEW i \in Indices, NEW p \in PtIndices, unmap(c, i, p) PROVE Inductive'
    <3>1. OneMapper' => OneMapper
      BY Zenon, <2>4 DEF OneMapper, unmap
    <3> QED BY Zenon, <2>4, <3>1, UnmapShared, UnmapSingle
  <2>5. CASE UNCHANGED vars
    BY Zenon, <2>5 DEF vars, Shared, TypeOK, OneTable, OneMapper, Single, VersionMatchesData
  <2> QED BY <2>1, <2>2, <2>3, <2>4, <2>5 DEF Next
<1> QED BY <1>1, <1>2, PTL DEF Spec

(* For every number of cores, threads, spaces and page tables: there is    *)
(* one page table for each kernel address, whichever threads map; and as   *)
(* long as one space maps, the version of a space tells which entries it   *)
(* has and the assertions of map() and unmap() hold.                       *)
THEOREM KernelTablesAreShared == Spec => []TablesShared
<1>1. Inductive => TablesShared
  BY Zenon DEF Inductive, Shared, Single, TablesShared, PagingAsserts
<1> QED BY <1>1, InductiveHolds, PTL

----------------------------------------------------------------------------
(* A page that map() has noted in the regions and not yet in its page      *)
(* table, or that unmap() has taken out of the table alone.                *)
Pending(t, i, e) ==
    pc[t] # "idle" /\ stage[t] \in {"clear", "map", "check"} /\ page[t] = <<i, e>>

(* The page at hand is in the regions, and the page table is created       *)
(* exactly when the directory has none.                                    *)
Prepared(t) ==
    pc[t] # "idle" =>
        /\ t \in mappers /\ page[t] \in mapped[t]
        /\ stage[t] = "clear" <=> page[t][1] \notin present[t]

(* The window is the thread's own from the moment it set the entry, and    *)
(* its core sees that once the address is invalidated.                     *)
OwnWindow(t) ==
    /\ pc[t] \in {"invlpg", "send", "use"} => entry = Own(t)
    /\ pc[t] \in {"send", "use"} => tlb[CpuOf[t]] \in {NoTable, entry}

(* Regions, directory and page table agree up to the page at hand.         *)
Agree(t, i, e) ==
    <<i, e>> \in mapped[t] /\ ~Pending(t, i, e) <=> i \in present[t] /\ e \in table[<<t, i>>]

(* What is so while one thread maps.                                       *)
Solitary ==
    /\ ~stopped
    /\ \A t \in Tasks : Prepared(t) /\ OwnWindow(t)
    /\ \A t \in Tasks, i \in PdEntries, e \in PtEntries : Agree(t, i, e)

WindowInductive == WindowTypeOK /\ StaleIsTold /\ (OneUser => Solitary)

----------------------------------------------------------------------------
(* What the window shows a core is a page table once the entry is set.     *)
LEMMA WindowTypes ==
    ASSUME WindowTypeOK, [WindowNext]_windowVars
    PROVE  WindowTypeOK'
<1> USE WindowAssumption DEF WindowTypeOK
<1>0. \A c \in Cpus : Shown(c) \in PageTables \cup {NoTable}
  BY Zenon DEF Shown
<1>1. ASSUME NEW t \in Tasks, NEW v \in UserPages, map_page(t, v) PROVE WindowTypeOK'
  BY Zenon, <1>1 DEF map_page
<1>2. ASSUME NEW t \in Tasks, NEW v \in UserPages, unmap_page(t, v) PROVE WindowTypeOK'
  BY Zenon, <1>2 DEF unmap_page
<1>3. ASSUME NEW t \in Tasks, get_page_table_for(t) PROVE WindowTypeOK'
  <2>1. Own(t) \in PageTables
    BY Zenon DEF Own, PageTables, UserPages
  <2> QED BY Zenon, <1>3, <2>1 DEF get_page_table_for
<1>4. ASSUME NEW t \in Tasks, invalidate(t) PROVE WindowTypeOK'
  BY Zenon, <1>4 DEF invalidate
<1>5. ASSUME NEW t \in Tasks, smp_broadcast(t) PROVE WindowTypeOK'
  BY Zenon, <1>5 DEF smp_broadcast
<1>6. ASSUME NEW t \in Tasks, NEW s, Uses(t, s) PROVE tlb' \in [Cpus -> PageTables \cup {NoTable}]
  BY Zenon, <1>0, <1>6 DEF Uses
<1>7. ASSUME NEW t \in Tasks PROVE page[t][1] \in PdEntries /\ page[t][2] \in PtEntries
  BY Zenon DEF UserPages
<1>8. ASSUME NEW t \in Tasks, clear_table(t) PROVE WindowTypeOK'
  BY Zenon, <1>6, <1>7, <1>8 DEF clear_table, Uses
<1>9. ASSUME NEW t \in Tasks, map_entry(t) PROVE WindowTypeOK'
  <2>1. table' \in [PageTables -> SUBSET PtEntries]
    <3>1. ASSUME NEW x, NEW e \in PtEntries PROVE [table EXCEPT ![x] = @ \cup {e}] \in [PageTables -> SUBSET PtEntries]
      BY Zenon
    <3> QED BY Zenon, <1>7, <1>9, <3>1 DEF map_entry
  <2>2. pc' \in [Tasks -> {"idle", "set", "invlpg", "send", "use"}] /\ stopped' \in BOOLEAN
    BY <1>9 DEF map_entry
  <2> QED BY Zenon, <1>6, <1>9, <2>1, <2>2 DEF map_entry, Uses
<1>10. ASSUME NEW t \in Tasks, unmap_entry(t) PROVE WindowTypeOK'
  BY Zenon, <1>6, <1>7, <1>10 DEF unmap_entry, Uses
<1>11. ASSUME NEW t \in Tasks, unmap_check(t) PROVE WindowTypeOK'
  BY Zenon, <1>6, <1>7, <1>11 DEF unmap_check, Uses
<1>12. ASSUME NEW c \in Cpus, handle_invalidation(c) PROVE WindowTypeOK'
  BY Zenon, <1>12 DEF handle_invalidation
<1>13. ASSUME NEW c \in Cpus, NEW t \in Tasks, switch(c, t) PROVE WindowTypeOK'
  BY Zenon, <1>13 DEF switch
<1>14. ASSUME NEW c \in Cpus, tlb_refill(c) PROVE WindowTypeOK'
  BY <1>0, <1>14 DEF tlb_refill
<1>15. CASE UNCHANGED windowVars
  BY Zenon, <1>15 DEF windowVars
<1> QED
  BY Zenon, <1>1, <1>2, <1>3, <1>4, <1>5, <1>8, <1>9, <1>10, <1>11, <1>12, <1>13, <1>14, <1>15
  DEF WindowNext

(* Whoever maps, a core whose TLB is out of date is told: the entry is     *)
(* changed only by a thread that then invalidates and sends, and the TLB   *)
(* of a core is empty whenever another thread takes it over.               *)
LEMMA StaleStaysTold ==
    ASSUME WindowTypeOK, StaleIsTold, [WindowNext]_windowVars
    PROVE  StaleIsTold'
<1> USE WindowAssumption DEF WindowTypeOK, StaleIsTold
<1>1. ASSUME NEW t \in Tasks, NEW v \in UserPages, map_page(t, v) \/ unmap_page(t, v) PROVE StaleIsTold'
  BY <1>1 DEF map_page, unmap_page
<1>3. ASSUME NEW t \in Tasks, get_page_table_for(t) PROVE StaleIsTold'
  BY <1>3 DEF get_page_table_for, Runs
<1>4. ASSUME NEW t \in Tasks, invalidate(t) PROVE StaleIsTold'
  BY <1>4 DEF invalidate, Runs
<1>5. ASSUME NEW t \in Tasks, smp_broadcast(t) PROVE StaleIsTold'
  <2> SUFFICES ASSUME NEW c \in Cpus, tlb[c] \notin {NoTable, entry}
               PROVE  \/ told'[c] \/ pc'[on[c]] = "invlpg"
                      \/ \E u \in Tasks : CpuOf[u] # c /\ pc'[u] \in {"invlpg", "send"}
    BY <1>5 DEF smp_broadcast
  <2>1. told'[c] = (told[c] \/ c # CpuOf[t])
    BY Zenon, <1>5 DEF smp_broadcast
  <2>2. CASE c = CpuOf[t]
    <3>1. on[c] = t /\ pc[t] = "send"
      BY Zenon, <1>5, <2>2 DEF smp_broadcast, Runs
    <3>2. \A u \in Tasks : CpuOf[u] # c => pc'[u] = pc[u]
      BY Zenon, <1>5, <2>2 DEF smp_broadcast
    <3> QED BY <2>1, <3>1, <3>2
  <2> QED BY Zenon, <2>1, <2>2
<1>6. ASSUME NEW t \in Tasks, NEW s, Uses(t, s),
             NEW p \in {"set", "idle"}, pc' = [pc EXCEPT ![t] = p]
      PROVE  StaleIsTold'
  BY <1>6 DEF Uses, Shown
<1>7. ASSUME NEW t \in Tasks, clear_table(t) \/ map_entry(t) \/ unmap_entry(t) \/ unmap_check(t)
      PROVE  StaleIsTold'
  BY Zenon, <1>6, <1>7 DEF clear_table, map_entry, unmap_entry, unmap_check
<1>12. ASSUME NEW c \in Cpus, handle_invalidation(c) PROVE StaleIsTold'
  BY <1>12 DEF handle_invalidation
<1>13. ASSUME NEW c \in Cpus, NEW t \in Tasks, switch(c, t) PROVE StaleIsTold'
  BY <1>13 DEF switch
<1>14. ASSUME NEW c \in Cpus, tlb_refill(c) PROVE StaleIsTold'
  BY <1>14 DEF tlb_refill, Shown
<1>15. CASE UNCHANGED windowVars
  BY Zenon, <1>15 DEF windowVars
<1> QED
  BY Zenon, <1>1, <1>3, <1>4, <1>5, <1>7, <1>12, <1>13, <1>14, <1>15 DEF WindowNext

(* While one thread maps, all others are outside of map() and unmap().     *)
LEMMA OthersIdle ==
    ASSUME OneUser, Solitary, NEW t \in Tasks, t \in mappers
    PROVE  \A u \in Tasks : u # t => pc[u] = "idle"
BY Zenon DEF OneUser, Solitary, Prepared

(* The thread's use of the window reaches its own page table.              *)
LEMMA UsesOwn ==
    ASSUME WindowTypeOK, OneUser, Solitary, NEW t \in Tasks, NEW s, Uses(t, s)
    PROVE  /\ Shown(CpuOf[t]) = <<t, page[t][1]>> /\ <<t, page[t][1]>> \in PageTables
           /\ page[t][1] \in PdEntries /\ page[t][2] \in PtEntries
           /\ page[t] = <<page[t][1], page[t][2]>> /\ page[t] \in mapped[t]
           /\ stage[t] = "clear" <=> page[t][1] \notin present[t]
           /\ stage[t] = s
           /\ \A u \in Tasks : u # t => pc[u] = "idle"
<1>1. pc[t] = "use" /\ stage[t] = s
  BY Zenon DEF Uses
<1>2. page[t] \in UserPages
  BY Zenon DEF WindowTypeOK
<1>3. /\ page[t][1] \in PdEntries /\ page[t][2] \in PtEntries /\ page[t] = <<page[t][1], page[t][2]>>
  BY <1>2 DEF UserPages
<1>4. entry = Own(t) /\ tlb[CpuOf[t]] \in {NoTable, entry}
  BY Zenon, <1>1 DEF Solitary, OwnWindow
<1>5. t \in mappers /\ page[t] \in mapped[t] /\ (stage[t] = "clear" <=> page[t][1] \notin present[t])
  BY Zenon, <1>1 DEF Solitary, Prepared
<1>6. <<t, page[t][1]>> \in PageTables
  BY Zenon, <1>3 DEF PageTables
<1> QED BY Zenon, <1>1, <1>3, <1>4, <1>5, <1>6, OthersIdle DEF Shown, Own

(* map() and unmap() are entered.                                          *)
LEMMA EnterSolitary ==
    ASSUME WindowTypeOK, OneUser, Solitary, OneUser', NEW t \in Tasks, NEW v \in UserPages,
           map_page(t, v) \/ unmap_page(t, v)
    PROVE  Solitary'
<1>1. \A u \in Tasks : u # t => pc[u] = "idle"
  BY Zenon DEF OneUser, Solitary, Prepared, map_page, unmap_page
<1>2. pc[t] = "idle" /\ pc' = [pc EXCEPT ![t] = "set"] /\ page' = [page EXCEPT ![t] = v]
  BY Zenon DEF map_page, unmap_page
<1>3. PICK j \in PdEntries, f \in PtEntries : v = <<j, f>>
  BY DEF UserPages
<1>4. t \in mappers'
  BY Zenon DEF map_page, unmap_page
<1>5. \A u \in Tasks : pc'[u] = (IF u = t THEN "set" ELSE "idle") /\ page'[u] = (IF u = t THEN v ELSE page[u])
  BY <1>1, <1>2 DEF WindowTypeOK
<1>6. \A u \in Tasks : OwnWindow(u)'
  BY Zenon, <1>5 DEF OwnWindow
<1>7. \A i \in PdEntries, e \in PtEntries, u \in Tasks : ~Pending(u, i, e)
  BY Zenon, <1>1, <1>2 DEF Pending
<1>8. CASE map_page(t, v)
  <2>1. /\ v \notin mapped[t] /\ mapped' = [mapped EXCEPT ![t] = @ \cup {v}]
        /\ stage'[t] = (IF j \in present[t] THEN "map" ELSE "clear")
        /\ present' = present /\ table' = table /\ stopped' = stopped
    BY Zenon, <1>3, <1>8 DEF map_page, WindowTypeOK
  <2>2. \A u \in Tasks : Prepared(u)'
    BY <1>3, <1>4, <1>5, <2>1 DEF Prepared, WindowTypeOK
  <2>3. ASSUME NEW u \in Tasks, NEW i \in PdEntries, NEW e \in PtEntries PROVE Agree(u, i, e)'
    <3>1. <<i, e>> \in mapped[u] <=> i \in present[u] /\ e \in table[<<u, i>>]
      BY Zenon, <1>7 DEF Solitary, Agree
    <3>2. Pending(u, i, e)' <=> u = t /\ v = <<i, e>>
      BY Zenon, <1>5, <2>1 DEF Pending
    <3>3. <<i, e>> \in mapped'[u] <=> <<i, e>> \in mapped[u] \/ (u = t /\ v = <<i, e>>)
      BY Zenon, <2>1 DEF WindowTypeOK
    <3> QED BY Zenon, <2>1, <3>1, <3>2, <3>3 DEF Agree
  <2> QED BY Zenon, <1>6, <2>1, <2>2, <2>3 DEF Solitary
<1>9. CASE unmap_page(t, v)
  <2>1. /\ v \in mapped[t] /\ mapped' = mapped /\ stage'[t] = "unmap"
        /\ present' = present /\ table' = table /\ stopped' = (j \notin present[t])
    BY Zenon, <1>3, <1>9 DEF unmap_page, WindowTypeOK
  <2>2. j \in present[t]
    BY Zenon, <1>3, <1>7, <2>1 DEF Solitary, Agree
  <2>3. \A u \in Tasks : Prepared(u)'
    BY <1>3, <1>4, <1>5, <2>1, <2>2 DEF Prepared, WindowTypeOK
  <2>4. ASSUME NEW u \in Tasks, NEW i \in PdEntries, NEW e \in PtEntries PROVE Agree(u, i, e)'
    <3>1. <<i, e>> \in mapped[u] <=> i \in present[u] /\ e \in table[<<u, i>>]
      BY Zenon, <1>7 DEF Solitary, Agree
    <3>2. ~Pending(u, i, e)'
      BY Zenon, <1>5, <2>1 DEF Pending
    <3> QED BY Zenon, <2>1, <3>1, <3>2 DEF Agree
  <2> QED BY Zenon, <1>6, <2>1, <2>2, <2>3, <2>4 DEF Solitary
<1> QED BY Zenon, <1>8, <1>9

(* The steps that change neither tables nor regions nor pages.             *)
LEMMA AgreeUntouched ==
    ASSUME Solitary, UNCHANGED <<table, present, mapped, stage, page, stopped, mappers>>,
           \A u \in Tasks : pc'[u] = "idle" <=> pc[u] = "idle"
    PROVE  /\ ~stopped'
           /\ \A u \in Tasks : Prepared(u)'
           /\ \A u \in Tasks, i \in PdEntries, e \in PtEntries : Agree(u, i, e)'
<1>1. ~stopped' /\ \A u \in Tasks : Prepared(u)'
  BY Zenon DEF Solitary, Prepared
<1>2. ASSUME NEW u \in Tasks, NEW i \in PdEntries, NEW e \in PtEntries PROVE Agree(u, i, e)'
  <2>1. Pending(u, i, e)' <=> Pending(u, i, e)
    BY Zenon DEF Pending
  <2>2. Agree(u, i, e)
    BY Zenon DEF Solitary
  <2> QED BY Zenon, <2>1, <2>2 DEF Agree
<1> QED BY Zenon, <1>1, <1>2

(* The entry is set, the address invalidated, the message sent.            *)
LEMMA LookupSolitary ==
    ASSUME WindowTypeOK, OneUser, Solitary, NEW t \in Tasks,
           get_page_table_for(t) \/ invalidate(t) \/ smp_broadcast(t)
    PROVE  Solitary'
<1>1. pc[t] \in {"set", "invlpg", "send"} /\ t \in mappers
  BY Zenon DEF get_page_table_for, invalidate, smp_broadcast, Solitary, Prepared
<1>2. \A u \in Tasks : u # t => pc[u] = "idle"
  BY Zenon, <1>1, OthersIdle
<1>3. /\ UNCHANGED <<table, present, mapped, stage, page, stopped, mappers>>
      /\ \A u \in Tasks : u # t => pc'[u] = "idle"
      /\ pc'[t] \in {"invlpg", "send", "use"}
  BY <1>2 DEF get_page_table_for, invalidate, smp_broadcast, WindowTypeOK
<1>4. \A u \in Tasks : pc'[u] = "idle" <=> pc[u] = "idle"
  BY Zenon, <1>1, <1>2, <1>3
<1>5. \A u \in Tasks : u # t => OwnWindow(u)'
  BY Zenon, <1>3 DEF OwnWindow
<1>6. OwnWindow(t)'
  <2>1. CpuOf[t] \in Cpus /\ Own(t)' = Own(t)
    BY Zenon, <1>3, WindowAssumption DEF Own
  <2>2. CASE get_page_table_for(t)
    BY Zenon, <2>1, <2>2 DEF get_page_table_for, OwnWindow, WindowTypeOK
  <2>3. CASE invalidate(t)
    BY Zenon, <2>1, <2>3 DEF invalidate, OwnWindow, WindowTypeOK, Solitary
  <2>4. CASE smp_broadcast(t)
    BY Zenon, <2>1, <2>4 DEF smp_broadcast, OwnWindow, WindowTypeOK, Solitary
  <2> QED BY Zenon, <2>2, <2>3, <2>4
<1> QED BY Zenon, <1>3, <1>4, <1>5, <1>6, AgreeUntouched DEF Solitary

(* Interrupts and the TLB: it is emptied or takes what the entry says.     *)
LEMMA CoreSolitary ==
    ASSUME WindowTypeOK, OneUser, Solitary, NEW c \in Cpus,
           handle_invalidation(c) \/ tlb_refill(c) \/ \E t \in Tasks : switch(c, t)
    PROVE  Solitary'
<1>1. UNCHANGED <<table, present, mapped, stage, page, stopped, mappers, pc, entry>>
  BY Zenon DEF handle_invalidation, tlb_refill, switch
<1>2. \E x \in {NoTable, Shown(c)} : tlb' = [tlb EXCEPT ![c] = x]
  BY Zenon DEF handle_invalidation, tlb_refill, switch
<1>3. ASSUME NEW u \in Tasks PROVE OwnWindow(u)'
  <2>1. Own(u)' = Own(u) /\ CpuOf[u] \in Cpus
    BY Zenon, <1>1, WindowAssumption DEF Own
  <2>2. tlb[CpuOf[u]] \in {NoTable, entry} => tlb'[CpuOf[u]] \in {NoTable, entry}
    BY Zenon, <1>2, <2>1 DEF Shown, WindowTypeOK
  <2> QED BY Zenon, <1>1, <2>1, <2>2 DEF OwnWindow, Solitary
<1> QED BY Zenon, <1>1, <1>3, AgreeUntouched DEF Solitary

(* A new page table is cleared and entered in the directory.               *)
LEMMA ClearSolitary ==
    ASSUME WindowTypeOK, OneUser, Solitary, NEW t \in Tasks, clear_table(t)
    PROVE  Solitary'
<1>0. Uses(t, "clear") /\ mapped' = mapped /\ stopped' = stopped
  BY Zenon DEF clear_table
<1> DEFINE j == page[t][1]
           f == page[t][2]
<1>1. /\ Shown(CpuOf[t]) = <<t, j>> /\ <<t, j>> \in PageTables /\ j \in PdEntries /\ f \in PtEntries
      /\ page[t] = <<j, f>> /\ page[t] \in mapped[t] /\ stage[t] = "clear" /\ j \notin present[t]
      /\ \A u \in Tasks : u # t => pc[u] = "idle"
  BY Zenon, <1>0, UsesOwn
<1>2. /\ \A u \in Tasks : pc'[u] = IF u = t THEN "set" ELSE "idle"
      /\ page' = page /\ mappers' = mappers /\ stage'[t] = "map"
      /\ \A u \in Tasks : present'[u] = IF u = t THEN present[t] \cup {j} ELSE present[u]
      /\ \A u \in Tasks, i \in PdEntries : table'[<<u, i>>] = IF u = t /\ i = j THEN {} ELSE table[<<u, i>>]
  BY <1>0, <1>1 DEF clear_table, Uses, WindowTypeOK, PageTables
<1>3. t \in mappers
  BY Zenon, <1>0 DEF Uses, Solitary, Prepared
<1>4. \A u \in Tasks : Prepared(u)'
  BY Zenon, <1>0, <1>1, <1>2, <1>3 DEF Prepared
<1>5. \A u \in Tasks : OwnWindow(u)'
  BY Zenon, <1>2 DEF OwnWindow
<1>6. ASSUME NEW u \in Tasks, NEW i \in PdEntries, NEW e \in PtEntries PROVE Agree(u, i, e)'
  <2>1. Agree(u, i, e)
    BY Zenon DEF Solitary
  <2>2. pc[t] = "use"
    BY Zenon, <1>0 DEF Uses
  <2>3. /\ Pending(u, i, e)' <=> u = t /\ i = j /\ e = f
        /\ Pending(u, i, e) <=> u = t /\ i = j /\ e = f
    BY <1>1, <1>2, <2>2 DEF Pending
  <2> QED BY <1>0, <1>1, <1>2, <2>1, <2>3 DEF Agree
<1> QED BY Zenon, <1>0, <1>4, <1>5, <1>6 DEF Solitary

(* The page is entered in its page table: the entry was free.              *)
LEMMA MapEntrySolitary ==
    ASSUME WindowTypeOK, OneUser, Solitary, NEW t \in Tasks, map_entry(t)
    PROVE  Solitary'
<1>0. Uses(t, "map") /\ mapped' = mapped /\ present' = present /\ pc[t] = "use"
  BY Zenon DEF map_entry, Uses
<1> DEFINE j == page[t][1]
           f == page[t][2]
<1>1. /\ Shown(CpuOf[t]) = <<t, j>> /\ <<t, j>> \in PageTables /\ j \in PdEntries /\ f \in PtEntries
      /\ page[t] = <<j, f>> /\ page[t] \in mapped[t] /\ stage[t] = "map" /\ j \in present[t]
      /\ \A u \in Tasks : u # t => pc[u] = "idle"
  BY Zenon, <1>0, UsesOwn
<1>2. /\ \A u \in Tasks : pc'[u] = "idle"
      /\ stopped' = (f \in table[<<t, j>>])
      /\ \A u \in Tasks, i \in PdEntries :
           table'[<<u, i>>] = IF u = t /\ i = j THEN table[<<t, j>>] \cup {f} ELSE table[<<u, i>>]
  BY <1>0, <1>1 DEF map_entry, WindowTypeOK, PageTables
<1>3. Pending(t, j, f)
  BY Zenon, <1>0, <1>1 DEF Pending
<1>4. ~stopped'
  BY Zenon, <1>1, <1>2, <1>3 DEF Solitary, Agree
<1>5. \A u \in Tasks : Prepared(u)' /\ OwnWindow(u)'
  BY Zenon, <1>2 DEF Prepared, OwnWindow
<1>6. ASSUME NEW u \in Tasks, NEW i \in PdEntries, NEW e \in PtEntries PROVE Agree(u, i, e)'
  <2>1. Agree(u, i, e)
    BY Zenon DEF Solitary
  <2>2. /\ ~Pending(u, i, e)'
        /\ Pending(u, i, e) <=> u = t /\ i = j /\ e = f
    BY <1>0, <1>1, <1>2 DEF Pending
  <2> QED BY <1>0, <1>1, <1>2, <2>1, <2>2 DEF Agree
<1> QED BY Zenon, <1>4, <1>5, <1>6 DEF Solitary

(* The page is taken out of its page table: the entry was there.           *)
LEMMA UnmapEntrySolitary ==
    ASSUME WindowTypeOK, OneUser, Solitary, NEW t \in Tasks, unmap_entry(t)
    PROVE  Solitary'
<1>0. /\ Uses(t, "unmap") /\ mapped' = mapped /\ present' = present /\ pc[t] = "use"
      /\ page' = page /\ mappers' = mappers
  BY Zenon DEF unmap_entry, Uses
<1> DEFINE j == page[t][1]
           f == page[t][2]
<1>1. /\ Shown(CpuOf[t]) = <<t, j>> /\ <<t, j>> \in PageTables /\ j \in PdEntries /\ f \in PtEntries
      /\ page[t] = <<j, f>> /\ page[t] \in mapped[t] /\ stage[t] = "unmap" /\ j \in present[t]
      /\ \A u \in Tasks : u # t => pc[u] = "idle"
  BY Zenon, <1>0, UsesOwn
<1>2. /\ \A u \in Tasks : pc'[u] = IF u = t THEN "set" ELSE "idle"
      /\ stage'[t] = "check"
      /\ stopped' = (f \notin table[<<t, j>>])
      /\ \A u \in Tasks, i \in PdEntries :
           table'[<<u, i>>] = IF u = t /\ i = j THEN table[<<t, j>>] \ {f} ELSE table[<<u, i>>]
  BY <1>0, <1>1 DEF unmap_entry, WindowTypeOK, PageTables
<1>3. ~Pending(t, j, f)
  BY Zenon, <1>0, <1>1 DEF Pending
<1>4. ~stopped'
  BY Zenon, <1>1, <1>2, <1>3 DEF Solitary, Agree
<1>5. t \in mappers
  BY Zenon, <1>0 DEF Solitary, Prepared
<1>6. \A u \in Tasks : Prepared(u)'
  BY Zenon, <1>0, <1>1, <1>2, <1>5 DEF Prepared
<1>7. \A u \in Tasks : OwnWindow(u)'
  BY Zenon, <1>2 DEF OwnWindow
<1>8. ASSUME NEW u \in Tasks, NEW i \in PdEntries, NEW e \in PtEntries PROVE Agree(u, i, e)'
  <2>1. Agree(u, i, e)
    BY Zenon DEF Solitary
  <2>2. /\ Pending(u, i, e)' <=> u = t /\ i = j /\ e = f
        /\ ~Pending(u, i, e)
    BY <1>0, <1>1, <1>2 DEF Pending
  <2> QED BY Zenon, <1>0, <1>1, <1>2, <2>1, <2>2 DEF Agree
<1> QED BY Zenon, <1>4, <1>6, <1>7, <1>8 DEF Solitary

(* The region leaves the tree, and an empty page table the directory.      *)
LEMMA UnmapCheckSolitary ==
    ASSUME WindowTypeOK, OneUser, Solitary, NEW t \in Tasks, unmap_check(t)
    PROVE  Solitary'
<1>0. /\ Uses(t, "check") /\ table' = table /\ stopped' = stopped /\ pc[t] = "use"
  BY Zenon DEF unmap_check, Uses
<1> DEFINE j == page[t][1]
           f == page[t][2]
<1>1. /\ Shown(CpuOf[t]) = <<t, j>> /\ <<t, j>> \in PageTables /\ j \in PdEntries /\ f \in PtEntries
      /\ page[t] = <<j, f>> /\ page[t] \in mapped[t] /\ stage[t] = "check" /\ j \in present[t]
      /\ \A u \in Tasks : u # t => pc[u] = "idle"
  BY Zenon, <1>0, UsesOwn
<1>2. /\ \A u \in Tasks : pc'[u] = "idle"
      /\ \A u \in Tasks, i \in PdEntries, e \in PtEntries :
           <<i, e>> \in mapped'[u] <=> <<i, e>> \in mapped[u] /\ ~(u = t /\ i = j /\ e = f)
  BY <1>0, <1>1 DEF unmap_check, WindowTypeOK
<1>3. \A u \in Tasks, i \in PdEntries :
        i \in present'[u] <=> i \in present[u] /\ ~(u = t /\ i = j /\ table[<<t, j>>] = {})
  BY Zenon, <1>0, <1>1 DEF unmap_check, WindowTypeOK
<1>5. \A u \in Tasks : Prepared(u)' /\ OwnWindow(u)'
  BY Zenon, <1>2 DEF Prepared, OwnWindow
<1>6. ASSUME NEW u \in Tasks, NEW i \in PdEntries, NEW e \in PtEntries PROVE Agree(u, i, e)'
  <2>1. Agree(u, i, e)
    BY Zenon DEF Solitary
  <2>2. /\ ~Pending(u, i, e)'
        /\ Pending(u, i, e) <=> u = t /\ i = j /\ e = f
    BY Zenon, <1>0, <1>1, <1>2 DEF Pending
  <2> QED BY Zenon, <1>0, <1>1, <1>2, <1>3, <2>1, <2>2 DEF Agree
<1> QED BY Zenon, <1>0, <1>5, <1>6 DEF Solitary

(* The invariant of the window holds.                                      *)
LEMMA WindowInductiveHolds == WindowSpec => []WindowInductive
<1>1. WindowInit => WindowInductive
  <2> SUFFICES ASSUME WindowInit PROVE WindowInductive
    BY Zenon
  <2>1. (CHOOSE v \in UserPages : TRUE) \in UserPages
    <3>1. PICK i \in PdEntries, e \in PtEntries : TRUE
      BY Zenon, WindowAssumption
    <3>2. <<i, e>> \in UserPages
      BY Zenon DEF UserPages
    <3> QED BY Zenon, <3>2
  <2>2. WindowTypeOK
    BY Zenon, <2>1 DEF WindowInit, WindowTypeOK
  <2>3. StaleIsTold
    BY Zenon DEF WindowInit, StaleIsTold
  <2>4. Solitary
    BY Zenon DEF WindowInit, Solitary, Prepared, OwnWindow, Agree, Pending
  <2> QED BY Zenon, <2>2, <2>3, <2>4 DEF WindowInductive
<1>2. WindowInductive /\ [WindowNext]_windowVars => WindowInductive'
  <2> SUFFICES ASSUME WindowInductive, [WindowNext]_windowVars PROVE WindowInductive'
    BY Zenon
  <2>1. WindowTypeOK' /\ StaleIsTold'
    BY Zenon, WindowTypes, StaleStaysTold DEF WindowInductive
  <2>2. ASSUME OneUser' PROVE Solitary'
    <3>1. mappers \subseteq mappers'
      BY Zenon DEF WindowNext, windowVars, map_page, unmap_page, get_page_table_for, invalidate,
         smp_broadcast, clear_table, map_entry, unmap_entry, unmap_check, Uses,
         handle_invalidation, tlb_refill, switch
    <3>2. OneUser /\ WindowTypeOK /\ Solitary
      BY Zenon, <2>2, <3>1 DEF OneUser, WindowInductive
    <3>3. CASE UNCHANGED windowVars
      <4>1. UNCHANGED <<table, present, mapped, stage, page, stopped, mappers, pc, entry, tlb>>
        BY Zenon, <3>3 DEF windowVars
      <4>2. \A u \in Tasks : OwnWindow(u)'
        BY Zenon, <3>2, <4>1 DEF OwnWindow, Own, Solitary
      <4> QED BY Zenon, <3>2, <4>1, <4>2, AgreeUntouched DEF Solitary
    <3> QED
      BY Zenon, <2>2, <3>2, <3>3, EnterSolitary, LookupSolitary, CoreSolitary, ClearSolitary,
         MapEntrySolitary, UnmapEntrySolitary, UnmapCheckSolitary DEF WindowNext
  <2> QED BY Zenon, <2>1, <2>2 DEF WindowInductive
<1> QED BY <1>1, <1>2, PTL DEF WindowSpec

(* For every number of cores, threads, directory and table entries: no     *)
(* core keeps an old view of the window unnoticed, whoever maps; and while *)
(* one process maps, all it writes through the window goes to its own page *)
(* tables and the assertions of map() and unmap() hold.                    *)
THEOREM WindowWritesAreOwn == WindowSpec => []WritesReachOwnTable
<1>1. WindowInductive => WritesReachOwnTable
  <2> SUFFICES ASSUME WindowInductive, OneUser PROVE WindowFaithful /\ WindowAsserts
    BY Zenon DEF WindowInductive, WritesReachOwnTable
  <2>1. Solitary /\ WindowTypeOK
    BY Zenon DEF WindowInductive
  <2>2. ASSUME NEW t \in Tasks, NEW i \in PdEntries, pc[t] = "idle", i \in present[t]
        PROVE  table[<<t, i>>] = {e \in PtEntries : <<i, e>> \in mapped[t]}
    <3>1. \A e \in PtEntries : <<i, e>> \in mapped[t] <=> e \in table[<<t, i>>]
      BY Zenon, <2>1, <2>2 DEF Solitary, Agree, Pending
    <3>2. table[<<t, i>>] \subseteq PtEntries
      BY Zenon, <2>1 DEF WindowTypeOK, PageTables
    <3> QED BY Zenon, <3>1, <3>2
  <2> QED BY Zenon, <2>1, <2>2 DEF Solitary, WindowFaithful, WindowAsserts
<1> QED BY <1>1, WindowInductiveHolds, PTL
=============================================================================
