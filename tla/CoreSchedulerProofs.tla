------------------------ MODULE CoreSchedulerProofs ------------------------
(***************************************************************************)
(* The run queues of the schedulers, for every number of cores and of      *)
(* threads and every way to grow a vector.  However the appends of fork()  *)
(* and the erasures of pick_next() interleave, pick_next() looks at        *)
(* threads only and no two cores execute the same thread, as long as       *)
(* nobody uses a vector while its array is replaced.  If appends and       *)
(* erasures of one vector exclude each other, a kernel stack is freed once *)
(* and not used afterwards.                                                *)
(***************************************************************************)
EXTENDS CoreScheduler, FiniteSetTheorems, WellFoundedInduction, TLAPS

(* Nobody has started the thread yet.                                      *)
Fresh(t) == tpc[t] = "new" /\ \A f \in Threads : push[f].thread # t
Started == {t \in Threads : ~Fresh(t)}

(* A thread appends while it is in push_back(), and always a new one.      *)
Pushes ==
    \A f \in Threads :
        /\ tpc[f] \in Appends <=> push[f].thread # None
        /\ push[f].thread # None =>
              /\ tpc[push[f].thread] = "new" /\ push[f].count > 0
              /\ \A g \in Threads : push[g].thread = push[f].thread => g = f

(* The vectors have room: their sizes are at most the number of threads    *)
(* that were started.                                                      *)
Room ==
    /\ \A c \in CoreIds : size[c] <= Cardinality(Started)
    /\ \A f \in Threads : push[f].count <= Cardinality(Started)

(* The loop of pick_next() has something to look at, and has not chosen.   *)
Looping ==
    /\ \A c \in CoreIds : spc[c] \in {"pick", "erase"} => size[c] > 0
    /\ \A c \in CoreIds : spc[c] \in {"run", "pick", "erase"} => next[c] = None

(* Slots up to the size are filled, up to the size that an append is about *)
(* to set included, and also in the array that replaces another.           *)
Filled ==
    /\ \A c \in CoreIds, i \in Slots : i < size[c] => arr[c][i] # None
    /\ \A f \in Threads, i \in Slots :
          tpc[f] = "size" /\ i < push[f].count => arr[push[f].core][i] # None
    /\ \A f \in Threads, i \in Slots :
          tpc[f] = "replace" /\ i < size[push[f].core] => push[f].copy[i] # None

Growth == intact => GrowsAlone /\ Filled

(* A thread is known to one core, once it was started.                     *)
Knows(c, t) ==
    \/ t = current[c] \/ t = next[c] \/ \E i \in Slots : arr[c][i] = t
    \/ \E f \in Appenders(c) : push[f].thread = t \/ \E i \in Slots : push[f].copy[i] = t
Homes ==
    \A t \in Threads, c \in CoreIds : Knows(c, t) =>
        ~Fresh(t) /\ \A d \in CoreIds : Knows(d, t) => d = c

(* The slots that count, of which an erasure under way has one less.       *)
Length(c) == IF spc[c] = "erase" THEN size[c] - 1 ELSE size[c]
Live(c, t) == \E i \in Slots : i < Length(c) /\ arr[c][i] = t

Distinct == \A c \in CoreIds, i, j \in Slots : i < j /\ j < Length(c) => arr[c][i] # arr[c][j]

(* A freed thread is known nowhere that counts.                            *)
Gone ==
    \A t \in Threads : freed[t] > 0 =>
        /\ freed[t] = 1 /\ tpc[t] # "new"
        /\ \A c \in CoreIds : t # current[c] /\ t # next[c] /\ ~Live(c, t)

(* A thread that has not begun is in no slot that counts; its append       *)
(* copies the slots that count to a new array and fills the one behind.    *)
Waits == \A t \in Threads, c \in CoreIds : tpc[t] = "new" => ~Live(c, t)
Behind ==
    \A c \in CoreIds : \A f \in Appending(c) :
        /\ push[f].count = size[c] + 1
        /\ tpc[f] = "size" => arr[c][size[c]] = push[f].thread
        /\ tpc[f] = "replace" => \A i \in Slots : i < size[c] => push[f].copy[i] = arr[c][i]

Exclusion == exclusive => OneAtATime /\ Distinct /\ Gone /\ Waits /\ Behind

Inductive ==
    SchedulerTypeOK /\ Pushes /\ Room /\ Looping /\ Growth /\ Homes /\ Exclusion

(* Where a thread is while it appends or has not begun.                    *)
Starts == Appends \cup {"new"}
Keeps(u) == tpc'[u] = tpc[u] \/ (tpc[u] \notin Starts /\ tpc'[u] \notin Starts)

(* What a step records in the history.                                     *)
Recorded ==
    /\ exclusive' \in BOOLEAN /\ (exclusive' => exclusive /\ OneAtATime')
    /\ intact' \in BOOLEAN /\ (intact' => intact /\ GrowsAlone')

----------------------------------------------------------------------------
(* The smallest element of a nonempty set of natural numbers.              *)
LEMMA HasMinimum == ASSUME NEW S \in SUBSET Nat, S # {} PROVE \E m \in S : \A x \in S : m <= x
<1>1. IsWellFoundedOn(OpToRel(<, Nat), Nat)
  BY Zenon, NatLessThanWellFounded
<1>2. PICK m \in S : \A y \in S : ~(<<y, m>> \in OpToRel(<, Nat))
  BY Zenon, <1>1, WFMin
<1>3. \A x \in S : m <= x
  <2> SUFFICES ASSUME NEW x \in S, x < m PROVE FALSE
    BY Zenon, SMT
  <2>1. <<x, m>> \in OpToRel(<, Nat)
    BY Zenon DEF OpToRel
  <2> QED BY Zenon, <1>2, <2>1
<1> QED BY Zenon, <1>3

(* pick_best_core() is one of the cores.                                   *)
LEMMA BestCore == ASSUME SchedulerAssumption, SchedulerTypeOK PROVE pick_best_core \in CoreIds
<1> DEFINE S == {size[c] : c \in CoreIds}
<1>1. S \in SUBSET Nat /\ S # {}
  BY DEF SchedulerTypeOK, CoreIds, SchedulerAssumption, Cap
<1>2. PICK m \in S : \A x \in S : m <= x
  BY Zenon, <1>1, HasMinimum
<1> DEFINE T == {c \in CoreIds : size[c] = m}
<1>3. T \in SUBSET Nat /\ T # {}
  BY DEF CoreIds
<1>4. PICK c \in T : \A e \in T : c <= e
  BY Zenon, <1>3, HasMinimum
<1>5. \A e \in CoreIds : size[c] < size[e] \/ (size[c] = size[e] /\ c <= e)
  <2> TAKE e \in CoreIds
  <2>1. size[c] = m /\ size[e] \in S /\ m \in Nat /\ size[e] \in Nat
    BY Zenon, <1>1
  <2>2. m <= size[e]
    BY Zenon, <1>2, <2>1
  <2>3. size[e] = m => c <= e
    BY Zenon, <1>4
  <2> QED BY <2>1, <2>2, <2>3
<1> QED BY Zenon, <1>5 DEF pick_best_core

(* There are no more started threads than threads, and one slot more.      *)
LEMMA Capacity ==
    ASSUME SchedulerAssumption
    PROVE  /\ IsFiniteSet(Started) /\ Cardinality(Started) \in Nat
           /\ Cardinality(Started) <= Cardinality(Threads) /\ Cardinality(Threads) \in Nat
           /\ Cap \in Nat /\ Cap = Cardinality(Threads) + 1 /\ SizeMod \in Nat /\ Cap < SizeMod
<1>1. IsFiniteSet(Threads) /\ Started \subseteq Threads
  BY Zenon DEF SchedulerAssumption, Started
<1>2. IsFiniteSet(Started) /\ Cardinality(Started) <= Cardinality(Threads)
  BY Zenon, <1>1, FS_Subset
<1>3. Cardinality(Started) \in Nat /\ Cardinality(Threads) \in Nat
  BY Zenon, <1>1, <1>2, FS_CardinalityType
<1> QED BY <1>2, <1>3 DEF SchedulerAssumption, Cap

----------------------------------------------------------------------------
(* Steps that change no vector and free nothing: a core goes on to what it *)
(* chose before, or chooses a thread that counts.                          *)
LEMMA Quiet ==
    ASSUME SchedulerAssumption, Inductive, Recorded, SchedulerTypeOK',
           UNCHANGED <<arr, size, push, freed>>,
           \A t \in Threads : Keeps(t),
           \A c \in CoreIds :
               /\ spc'[c] = "erase" <=> spc[c] = "erase"
               /\ spc'[c] = "pick" => size[c] > 0
               /\ spc'[c] \in {"run", "pick", "erase"} => next'[c] = None
               /\ current'[c] = current[c] \/ current'[c] = next[c]
               /\ next'[c] = next[c] \/ next'[c] \notin Threads
                  \/ \E i \in Slots : i < Length(c) /\ next'[c] = arr[c][i]
    PROVE  Inductive'
<1>0. \A t \in Threads :
          /\ (tpc'[t] = "new" <=> tpc[t] = "new") /\ (tpc'[t] = "size" <=> tpc[t] = "size")
          /\ (tpc'[t] = "replace" <=> tpc[t] = "replace")
          /\ (tpc'[t] \in Appends <=> tpc[t] \in Appends)
  <2>1. \A t \in Threads :
            tpc'[t] = tpc[t] \/ (tpc[t] \notin Starts /\ tpc'[t] \notin Starts)
    BY Zenon DEF Keeps
  <2>2. "new" \in Starts /\ "size" \in Starts /\ "replace" \in Starts /\ Appends \subseteq Starts
    BY Zenon DEF Starts, Appends
  <2> QED BY Zenon, <2>1, <2>2
<1>1. \A t \in Threads : Fresh(t)' <=> Fresh(t)
  BY Zenon, <1>0 DEF Fresh
<1>2. Started' = Started
  BY Zenon, <1>1 DEF Started
<1>3. Pushes'
  <2>1. \A f \in Threads : push[f].thread # None => push[f].thread \in Threads
    BY DEF Inductive, SchedulerTypeOK, PushRecords
  <2> QED BY Zenon, <1>0, <2>1 DEF Inductive, Pushes
<1>4. Room' /\ Looping'
  BY Zenon, <1>2 DEF Inductive, Room, Looping
<1>5. Growth'
  <2> SUFFICES ASSUME intact' PROVE Filled'
    BY Zenon DEF Growth, Recorded
  <2>1. Filled
    BY Zenon DEF Recorded, Inductive, Growth
  <2> QED BY Zenon, <1>0, <2>1 DEF Filled
<1>6. \A c \in CoreIds, t \in Threads : Knows(c, t)' => Knows(c, t)
  <2>1. \A c \in CoreIds : Appenders(c)' = Appenders(c)
    BY Zenon DEF Appenders
  <2> QED BY Zenon, <2>1 DEF Knows
<1>7. Homes'
  BY Zenon, <1>1, <1>6 DEF Inductive, Homes
<1>8. \A c \in CoreIds : Length(c)' = Length(c)
  BY Zenon DEF Length
<1>9. \A c \in CoreIds : Appending(c)' = Appending(c)
  BY Zenon DEF Appending, Appenders
<1>10. ASSUME exclusive' PROVE Distinct' /\ Gone' /\ Waits' /\ Behind'
  <2>1. Distinct /\ Gone /\ Waits /\ Behind
    BY Zenon, <1>10 DEF Recorded, Inductive, Exclusion
  <2>2. Distinct'
    BY <1>8, <2>1 DEF Distinct
  <2>3. \A c \in CoreIds, t \in Threads : Live(c, t)' <=> Live(c, t)
    BY Zenon, <1>8 DEF Live
  <2>4. Gone'
    <3> SUFFICES ASSUME NEW t \in Threads, freed'[t] > 0
                 PROVE  /\ freed'[t] = 1 /\ tpc'[t] # "new"
                        /\ \A c \in CoreIds : t # current'[c] /\ t # next'[c] /\ ~Live(c, t)'
      BY Zenon DEF Gone
    <3>1. /\ freed[t] = 1 /\ tpc[t] # "new"
          /\ \A c \in CoreIds : t # current[c] /\ t # next[c] /\ ~Live(c, t)
      BY Zenon, <2>1 DEF Gone
    <3>2. ASSUME NEW c \in CoreIds PROVE t # next'[c]
      BY Zenon, <3>1 DEF Live
    <3> QED BY Zenon, <1>0, <2>3, <3>1, <3>2
  <2>5. Behind'
    <3>2. \A c \in CoreIds : \A f \in Appending(c) : f \in Threads
      BY Zenon DEF Appending, Appenders
    <3> QED BY <1>0, <1>9, <2>1, <3>2 DEF Behind
  <2>6. Waits'
    BY Zenon, <1>0, <2>1, <2>3 DEF Waits
  <2> QED BY Zenon, <2>2, <2>4, <2>5, <2>6
<1> QED BY Zenon, <1>3, <1>4, <1>5, <1>7, <1>10 DEF Inductive, Exclusion, Recorded

(* What the code of the threads does, but for fork(), and what others do   *)
(* to their states.                                                        *)
LEMMA ThreadStep ==
    ASSUME SchedulerAssumption, Inductive, Recorded, NEW c \in CoreIds, NEW t \in Threads,
           \/ suspend(c, t) \/ block(c, t) \/ terminate_current(c, t)
           \/ usleep(c, t) \/ usleep_state(c, t) \/ usleep_return(c, t)
           \/ resume(t) \/ terminate(t)
    PROVE  Inductive'
<1>0. /\ state \in [Threads -> States] /\ alarm \in [CoreIds -> SUBSET Threads]
      /\ tpc \in [Threads -> Points]
  BY Zenon DEF Inductive, SchedulerTypeOK
<1>1. UNCHANGED <<arr, size, capacity, index, current, start, next, spc, push, freed>>
  BY Zenon DEF suspend, block, terminate_current, usleep, usleep_state, usleep_return,
     resume, terminate
<1>2. \/ UNCHANGED state
      \/ \E s \in States : state' = [state EXCEPT ![t] = s]
  BY Zenon DEF suspend, block, terminate_current, usleep, usleep_state, usleep_return,
     resume, terminate, States
<1>3. \/ UNCHANGED alarm
      \/ alarm' = [alarm EXCEPT ![c] = @ \cup {t}]
  BY Zenon DEF suspend, block, terminate_current, usleep, usleep_state, usleep_return,
     resume, terminate
<1>4. \/ UNCHANGED tpc
      \/ /\ tpc[t] \notin Starts
         /\ \E p \in Points \ Starts : tpc' = [tpc EXCEPT ![t] = p]
  BY Zenon DEF suspend, block, terminate_current, usleep, usleep_state, usleep_return,
     resume, terminate, Starts, Points, Appends
<1>5. /\ state' \in [Threads -> States] /\ alarm' \in [CoreIds -> SUBSET Threads]
      /\ tpc' \in [Threads -> Points]
  BY <1>0, <1>2, <1>3, <1>4
<1>6. SchedulerTypeOK'
  BY Zenon, <1>1, <1>5 DEF Inductive, SchedulerTypeOK, Recorded
<1>7. \A u \in Threads : Keeps(u)
  BY Zenon, <1>0, <1>4 DEF Keeps
<1>8. \A d \in CoreIds : /\ spc[d] = "pick" => size[d] > 0
                         /\ spc[d] \in {"run", "pick", "erase"} => next[d] = None
  BY Zenon DEF Inductive, Looping
<1> QED BY Zenon, <1>1, <1>6, <1>7, <1>8, Quiet

(* The steps of tick() around pick_next(), and other interrupts.           *)
LEMMA TickStep ==
    ASSUME SchedulerAssumption, Inductive, Recorded, NEW c \in CoreIds,
           \/ tick(c) \/ tick_save(c) \/ tick_ready(c) \/ device_interrupt(c)
           \/ \E F \in SUBSET Threads : tick_switch(c, F)
    PROVE  Inductive'
<1>1. \A d \in CoreIds : /\ spc[d] = "pick" => size[d] > 0
                         /\ spc[d] \in {"run", "pick", "erase"} => next[d] = None
  BY Zenon DEF Inductive, Looping
<1>2. ASSUME Unhalt(c) PROVE tpc' \in [Threads -> Points] /\ \A u \in Threads : Keeps(u)
  BY Zenon, <1>2 DEF Unhalt, AfterHalt, Keeps, Starts, Points, Appends, Inductive, SchedulerTypeOK
<1>3. CASE tick(c)
  <2> USE <1>3 DEF tick
  <2>1. UNCHANGED <<arr, size, capacity, index, current, state, alarm, push, freed>>
    BY Zenon
  <2>2. /\ next' \in [CoreIds -> Threads \cup {Idle, None}] /\ start' \in [CoreIds -> Sizes]
        /\ spc' \in [CoreIds -> {"run", "pick", "erase", "save", "ready", "switch"}]
    BY Zenon DEF Inductive, SchedulerTypeOK
  <2>3. SchedulerTypeOK'
    BY Zenon, <1>2, <2>1, <2>2 DEF Inductive, SchedulerTypeOK, Recorded
  <2>4. ASSUME NEW d \in CoreIds
        PROVE  /\ spc'[d] = "erase" <=> spc[d] = "erase"
               /\ spc'[d] = "pick" => size[d] > 0
               /\ spc'[d] \in {"run", "pick", "erase"} => next'[d] = None
               /\ next'[d] = next[d] \/ next'[d] \notin Threads
    <3>1. size[d] \in Nat /\ Idle \notin Threads
      BY Capacity DEF Inductive, SchedulerTypeOK, SchedulerAssumption
    <3>2. /\ spc \in [CoreIds -> {"run", "pick", "erase", "save", "ready", "switch"}]
          /\ next \in [CoreIds -> Threads \cup {Idle, None}]
      BY Zenon DEF Inductive, SchedulerTypeOK
    <3> QED BY <1>1, <3>1, <3>2
  <2> QED BY Zenon, <1>2, <2>1, <2>3, <2>4, Quiet
<1>4. CASE tick_save(c) \/ tick_ready(c) \/ device_interrupt(c)
  <2> USE <1>4 DEF tick_save, tick_ready, device_interrupt
  <2>1. UNCHANGED <<arr, size, capacity, index, current, next, alarm, push, freed>>
    BY Zenon
  <2>2. /\ start' \in [CoreIds -> Sizes] /\ state' \in [Threads -> States]
        /\ spc' \in [CoreIds -> {"run", "pick", "erase", "save", "ready", "switch"}]
    <3>1. 0 \in Sizes /\ "Ready" \in States
      BY Capacity DEF Sizes, States
    <3>2. start \in [CoreIds -> Sizes] /\ state \in [Threads -> States]
          /\ spc \in [CoreIds -> {"run", "pick", "erase", "save", "ready", "switch"}]
      BY Zenon DEF Inductive, SchedulerTypeOK
    <3> QED BY <3>1, <3>2
  <2>3. tpc' \in [Threads -> Points] /\ \A u \in Threads : Keeps(u)
    BY Zenon, <1>2 DEF Inductive, SchedulerTypeOK, Keeps
  <2>4. SchedulerTypeOK'
    BY Zenon, <2>1, <2>2, <2>3 DEF Inductive, SchedulerTypeOK, Recorded
  <2>5. \A d \in CoreIds :
          /\ spc'[d] = "erase" <=> spc[d] = "erase"
          /\ spc'[d] \in {"run", "pick", "erase"} => spc'[d] = spc[d]
    BY DEF Inductive, SchedulerTypeOK
  <2> QED BY SMTT(30), <1>1, <2>1, <2>3, <2>4, <2>5, Quiet
<1>5. ASSUME NEW F \in SUBSET Threads, tick_switch(c, F) PROVE Inductive'
  <2> USE <1>5 DEF tick_switch
  <2>1. UNCHANGED <<arr, size, capacity, index, start, tpc, push, freed>>
    BY Zenon
  <2>2. /\ next' \in [CoreIds -> Threads \cup {Idle, None}]
        /\ current' \in [CoreIds -> Threads \cup {Idle, None}]
        /\ state' \in [Threads -> States] /\ alarm' \in [CoreIds -> SUBSET Threads]
        /\ spc' \in [CoreIds -> {"run", "pick", "erase", "save", "ready", "switch"}]
    BY Zenon DEF Inductive, SchedulerTypeOK, States
  <2>3. SchedulerTypeOK'
    BY Zenon, <2>1, <2>2 DEF Inductive, SchedulerTypeOK, Recorded
  <2>4. ASSUME NEW d \in CoreIds
        PROVE  /\ spc'[d] = "erase" <=> spc[d] = "erase"
               /\ spc'[d] = "pick" => size[d] > 0
               /\ spc'[d] \in {"run", "pick", "erase"} => next'[d] = None
               /\ current'[d] = current[d] \/ current'[d] = next[d]
               /\ next'[d] = next[d] \/ next'[d] \notin Threads
    BY <1>1 DEF Inductive, SchedulerTypeOK, SchedulerAssumption
  <2>5. \A u \in Threads : Keeps(u)
    BY Zenon, <2>1 DEF Keeps
  <2> QED BY Zenon, <2>1, <2>3, <2>4, <2>5, Quiet
<1> QED BY Zenon, <1>3, <1>4, <1>5

----------------------------------------------------------------------------
(* pick_next() looks at a slot that holds a thread.                        *)
LEMMA LooksAtThread ==
    ASSUME SchedulerAssumption, Inductive, NEW c \in CoreIds, pick_next(c)
    PROVE  /\ Advance(c) \in Slots /\ Advance(c) < size[c] /\ Advance(c) \in Sizes
           /\ arr[c][Advance(c)] \in Threads
           /\ size[c] \in 1 .. Cap /\ next[c] = None /\ Length(c) = size[c]
<1>0. spc[c] = "pick" /\ arr[c][Advance(c)] # None
  BY Zenon DEF pick_next
<1>1. size[c] \in 1 .. Cap /\ next[c] = None /\ index[c] \in 0 .. SizeMod - 1
  BY <1>0, Capacity DEF Inductive, SchedulerTypeOK, Looping, Sizes
<1>2. (index[c] + 1) % SizeMod \in Nat
  BY <1>1, Capacity
<1>3. Advance(c) \in 0 .. size[c] - 1
  BY <1>1, <1>2, Capacity DEF Advance
<1>4. Advance(c) \in Slots /\ Advance(c) \in Sizes /\ Advance(c) < size[c]
  BY <1>1, <1>3, Capacity DEF Slots, Sizes
<1>5. arr[c][Advance(c)] \in Threads
  BY <1>0, <1>4 DEF Inductive, SchedulerTypeOK, Arrays
<1> QED BY Zenon, <1>0, <1>1, <1>4, <1>5 DEF Length

(* An iteration of pick_next() that erases nothing.                        *)
LEMMA PickStep ==
    ASSUME SchedulerAssumption, Inductive, Recorded, NEW c \in CoreIds,
           pick_next(c), ~Erasable(c, arr[c][Advance(c)])
    PROVE  Inductive'
<1> DEFINE i == Advance(c)
           t == arr[c][i]
<1>0. /\ i \in Slots /\ i < size[c] /\ i \in Sizes /\ t \in Threads
      /\ size[c] > 0 /\ next[c] = None /\ Length(c) = size[c] /\ spc[c] = "pick"
  <2>1. spc[c] = "pick"
    BY Zenon DEF pick_next
  <2> QED BY <2>1, LooksAtThread
<1> HIDE DEF i
<1>1. UNCHANGED <<arr, size, capacity, push, freed, current, start, state, tpc, alarm>>
      /\ index' = [index EXCEPT ![c] = i]
  BY Zenon DEF pick_next, i
<1>2. \/ spc' = [spc EXCEPT ![c] = "save"] /\ next' = [next EXCEPT ![c] = t]
      \/ spc' = [spc EXCEPT ![c] = "pick"] /\ UNCHANGED next
      \/ spc' = [spc EXCEPT ![c] = "save"] /\ next' = [next EXCEPT ![c] = Idle]
  BY Zenon DEF pick_next, i, Pick, Loop
<1>3. /\ next' \in [CoreIds -> Threads \cup {Idle, None}] /\ index' \in [CoreIds -> Sizes]
      /\ spc' \in [CoreIds -> {"run", "pick", "erase", "save", "ready", "switch"}]
  BY Zenon, <1>0, <1>1, <1>2 DEF Inductive, SchedulerTypeOK
<1>4. SchedulerTypeOK'
  BY Zenon, <1>1, <1>3 DEF Inductive, SchedulerTypeOK, Recorded
<1>5. \A d \in CoreIds : /\ spc[d] = "pick" => size[d] > 0
                         /\ spc[d] \in {"run", "pick", "erase"} => next[d] = None
  BY Zenon DEF Inductive, Looping
<1>6. spc \in [CoreIds -> {"run", "pick", "erase", "save", "ready", "switch"}]
      /\ next \in [CoreIds -> Threads \cup {Idle, None}] /\ Idle \notin Threads
  BY SMTT(30) DEF Inductive, SchedulerTypeOK, SchedulerAssumption
<1>7. ASSUME NEW d \in CoreIds
      PROVE  /\ spc'[d] = "erase" <=> spc[d] = "erase"
             /\ spc'[d] = "pick" => size[d] > 0
             /\ spc'[d] \in {"run", "pick", "erase"} => next'[d] = None
             /\ next'[d] = next[d] \/ next'[d] \notin Threads
                \/ \E k \in Slots : k < Length(d) /\ next'[d] = arr[d][k]
  <2>1. CASE d # c
    BY Zenon, <1>2, <1>5, <1>6, <2>1
  <2>2. CASE d = c
    <3>1. CASE spc' = [spc EXCEPT ![c] = "save"] /\ next' = [next EXCEPT ![c] = t]
      BY Zenon, <1>0, <1>6, <2>2, <3>1
    <3>2. CASE spc' = [spc EXCEPT ![c] = "pick"] /\ UNCHANGED next
      BY Zenon, <1>0, <1>6, <2>2, <3>2
    <3>3. CASE spc' = [spc EXCEPT ![c] = "save"] /\ next' = [next EXCEPT ![c] = Idle]
      BY Zenon, <1>0, <1>6, <2>2, <3>3
    <3> QED BY Zenon, <1>2, <3>1, <3>2, <3>3
  <2> QED BY Zenon, <2>1, <2>2
<1>8. \A u \in Threads : Keeps(u)
  BY Zenon, <1>1 DEF Keeps
<1> QED BY Zenon, <1>1, <1>4, <1>7, <1>8, Quiet

(* The first half of an erasure: the thread is freed, the slots behind it  *)
(* move down.                                                              *)
LEMMA EraseStep ==
    ASSUME SchedulerAssumption, Inductive, Recorded, NEW c \in CoreIds,
           pick_next(c), Erasable(c, arr[c][Advance(c)])
    PROVE  Inductive'
<1> DEFINE i == Advance(c)
           t == arr[c][i]
           n == size[c]
<1>0. /\ i \in Slots /\ i < n /\ i \in Sizes /\ t \in Threads /\ n \in 1 .. Cap
      /\ next[c] = None /\ Length(c) = n /\ spc[c] = "pick"
  BY Zenon, LooksAtThread DEF pick_next
<1> HIDE DEF i
<1>1. /\ UNCHANGED <<size, capacity, push, current, start, next, state, tpc, alarm>>
      /\ index' = [index EXCEPT ![c] = i] /\ spc' = [spc EXCEPT ![c] = "erase"]
      /\ freed' = [freed EXCEPT ![t] = @ + 1] /\ t # current[c]
      /\ arr' = [arr EXCEPT ![c] = [j \in Slots |-> IF i <= j /\ j + 1 < n THEN arr[c][j + 1]
                                                                           ELSE arr[c][j]]]
  BY Zenon DEF pick_next, i, Erasable
<1>2. Slots = 0 .. Cap - 1 /\ Cap \in Nat
  BY Zenon, Capacity DEF Slots
<1>3. /\ \A d \in CoreIds \ {c} : arr'[d] = arr[d]
      /\ \A j \in Slots : arr'[c][j] = IF i <= j /\ j + 1 < n THEN arr[c][j + 1] ELSE arr[c][j]
  BY Zenon, <1>1 DEF Inductive, SchedulerTypeOK, Arrays
<1>4. \A j \in Slots : i <= j /\ j + 1 < n => j + 1 \in Slots
  BY SMTT(30), <1>0, <1>2
<1>5. SchedulerTypeOK'
  <2>1. arr' \in [CoreIds -> Arrays]
    BY <1>1, <1>4 DEF Inductive, SchedulerTypeOK, Arrays
  <2>2. freed' \in [Threads -> Nat] /\ index' \in [CoreIds -> Sizes]
        /\ spc' \in [CoreIds -> {"run", "pick", "erase", "save", "ready", "switch"}]
    BY <1>0, <1>1 DEF Inductive, SchedulerTypeOK
  <2> QED BY Zenon, <1>1, <2>1, <2>2 DEF Inductive, SchedulerTypeOK, Recorded
<1>6. Pushes' /\ Room' /\ \A u \in Threads : Fresh(u)' <=> Fresh(u)
  BY <1>1 DEF Inductive, Pushes, Room, Fresh, Started
<1>7. \A d \in CoreIds : spc'[d] = IF d = c THEN "erase" ELSE spc[d]
  BY Zenon, <1>1 DEF Inductive, SchedulerTypeOK
<1>8. Looping' /\ Growth'
  <2>1. Looping'
    BY <1>0, <1>1, <1>7 DEF Inductive, Looping
  <2>2. ASSUME intact' PROVE Filled'
    <3>0. Filled
      BY Zenon, <2>2 DEF Recorded, Inductive, Growth
    <3>1. \A d \in CoreIds, j \in Slots : j < size[d] => arr'[d][j] # None
      BY <1>0, <1>3, <1>4, <3>0 DEF Filled
    <3>2. ASSUME NEW f \in Threads, NEW j \in Slots, tpc[f] = "size", j < push[f].count
          PROVE  arr'[push[f].core][j] # None
      <4>1. push[f].core \in CoreIds /\ arr[push[f].core][j] # None
        BY <3>0, <3>2 DEF Inductive, SchedulerTypeOK, PushRecords, Filled
      <4>2. push[f].core = c /\ i <= j /\ j + 1 < n => arr[c][j + 1] # None
        BY Zenon, <1>4, <3>0 DEF Filled
      <4> QED BY Zenon, <1>3, <4>1, <4>2
    <3> QED BY Zenon, <1>1, <3>0, <3>1, <3>2 DEF Filled
  <2> QED BY Zenon, <2>1, <2>2 DEF Growth, Recorded
<1>9. \A d \in CoreIds, u \in Threads : Knows(d, u)' => Knows(d, u)
  <2>1. \A d \in CoreIds : Appenders(d)' = Appenders(d)
    BY Zenon, <1>1 DEF Appenders
  <2>2. \A d \in CoreIds, u \in Threads :
            (\E j \in Slots : arr'[d][j] = u) => \E j \in Slots : arr[d][j] = u
    BY <1>3, <1>4
  <2> QED BY Zenon, <1>1, <2>1, <2>2 DEF Knows
<1>10. Homes'
  BY Zenon, <1>6, <1>9 DEF Inductive, Homes
<1>11. ASSUME exclusive' PROVE Distinct' /\ Gone' /\ Waits' /\ Behind'
  <2>0. OneAtATime' /\ Distinct /\ Gone /\ Waits /\ Behind
    BY Zenon, <1>11 DEF Inductive, Exclusion, Recorded
  <2>1. Length(c)' = n - 1 /\ \A d \in CoreIds \ {c} : Length(d)' = Length(d)
    BY Zenon, <1>1, <1>7 DEF Length
  <2>2. \A j, k \in Slots : j < k /\ k < n => arr[c][j] # arr[c][k]
    BY Zenon, <1>0, <2>0 DEF Distinct
  <2>3. Distinct'
    <3> SUFFICES ASSUME NEW d \in CoreIds, NEW j \in Slots, NEW k \in Slots, j < k, k < Length(d)'
                 PROVE  arr'[d][j] # arr'[d][k]
      BY Zenon DEF Distinct
    <3>1. CASE d # c
      BY <1>3, <2>0, <2>1, <3>1 DEF Distinct
    <3>2. CASE d = c
      <4>1. k < n - 1 /\ j \in Nat /\ k \in Nat /\ i \in Nat
        BY <1>0, <1>2, <2>1, <3>2
      <4>2. CASE k < i
        BY <1>0, <1>3, <2>2, <3>2, <4>1, <4>2
      <4>3. CASE j < i /\ i <= k
        BY <1>0, <1>3, <1>4, <2>2, <3>2, <4>1, <4>3
      <4>4. CASE i <= j
        BY <1>0, <1>3, <1>4, <2>2, <3>2, <4>1, <4>4
      <4> QED BY <4>1, <4>2, <4>3, <4>4
    <3> QED BY Zenon, <3>1, <3>2
  <2>4. \A d \in CoreIds, u \in Threads : Live(d, u)' => Live(d, u)
    <3> SUFFICES ASSUME NEW d \in CoreIds, NEW u \in Threads, Live(d, u)' PROVE Live(d, u)
      BY Zenon
    <3>1. PICK j \in Slots : j < Length(d)' /\ arr'[d][j] = u
      BY Zenon DEF Live
    <3>2. CASE d # c
      BY Zenon, <1>3, <2>1, <3>1, <3>2 DEF Live
    <3>3. CASE d = c
      <4>1. j < n - 1 /\ j \in Nat
        BY <1>2, <2>1, <3>1, <3>3
      <4>2. j < n /\ j + 1 < n
        BY <1>0, <4>1
      <4> QED BY Zenon, <1>0, <1>3, <1>4, <3>1, <3>3, <4>2 DEF Live
    <3> QED BY Zenon, <3>2, <3>3
  <2>5. PICK x \in Threads : x = t
    BY Zenon, <1>0
  <2>6. ~Live(c, x)'
    <3> SUFFICES ASSUME NEW j \in Slots, j < n - 1 PROVE arr'[c][j] # t
      BY Zenon, <2>1, <2>5 DEF Live
    <3>1. j \in Nat /\ i \in Nat /\ j + 1 < n
      BY <1>0, <1>2
    <3>2. CASE j < i
      BY <1>0, <1>3, <2>2, <3>1, <3>2
    <3>3. CASE i <= j
      BY <1>0, <1>3, <1>4, <2>2, <3>1, <3>3
    <3> QED BY <3>1, <3>2, <3>3
  <2>7. Knows(c, x) /\ Live(c, x)
    BY Zenon, <1>0, <2>5 DEF Knows, Live
  <2>8. \A d \in CoreIds \ {c} : ~Knows(d, x)
    BY Zenon, <2>7 DEF Inductive, Homes
  <2>9. tpc[x] # "new"
    BY Zenon, <2>0, <2>7 DEF Waits
  <2>10. freed[x] = 0
    <3>1. freed[x] \in Nat
      BY Zenon DEF Inductive, SchedulerTypeOK
    <3>2. ~(freed[x] > 0)
      BY Zenon, <2>0, <2>7 DEF Gone
    <3> QED BY <3>1, <3>2
  <2>11. Waits'
    BY Zenon, <1>1, <2>0, <2>4 DEF Waits
  <2>12. freed'[x] = 1 /\ \A u \in Threads \ {x} : freed'[u] = freed[u]
    BY <1>1, <2>5, <2>10 DEF Inductive, SchedulerTypeOK
  <2>13. Gone'
    <3> SUFFICES ASSUME NEW u \in Threads, freed'[u] > 0
                 PROVE  /\ freed'[u] = 1 /\ tpc[u] # "new"
                        /\ \A d \in CoreIds : u # current[d] /\ u # next[d] /\ ~Live(d, u)'
      BY Zenon, <1>1 DEF Gone
    <3>1. CASE u = x
      <4>1. ASSUME NEW d \in CoreIds PROVE x # current[d] /\ x # next[d] /\ ~Live(d, x)'
        <5>1. CASE d = c
          BY Zenon, <1>0, <1>1, <2>5, <2>6, <5>1 DEF SchedulerAssumption
        <5>2. CASE d # c
          <6>1. ~Live(d, x) /\ x # current[d] /\ x # next[d]
            BY <2>8, <5>2 DEF Knows, Live
          <6> QED BY Zenon, <2>4, <6>1
        <5> QED BY Zenon, <5>1, <5>2
      <4> QED BY Zenon, <2>9, <2>12, <3>1, <4>1
    <3>2. CASE u # x
      BY SMTT(30), <2>0, <2>4, <2>12, <3>2 DEF Gone
    <3> QED BY Zenon, <3>1, <3>2
  <2>14. Behind'
    <3> SUFFICES ASSUME NEW d \in CoreIds, NEW f \in Appending(d)'
                 PROVE  /\ push[f].count = size[d] + 1
                        /\ tpc[f] = "size" => arr'[d][size[d]] = push[f].thread
                        /\ tpc[f] = "replace" => \A j \in Slots : j < size[d] =>
                               push[f].copy[j] = arr'[d][j]
      BY <1>1 DEF Behind
    <3>1. f \in Threads /\ f \in Appending(d)
      BY Zenon, <1>1, <2>12, <2>10 DEF Appending, Appenders
    <3>2. d # c
      BY Zenon, <1>7, <2>0 DEF OneAtATime
    <3> QED BY <1>3, <2>0, <3>1, <3>2 DEF Behind
  <2> QED BY Zenon, <2>3, <2>11, <2>13, <2>14
<1> QED BY Zenon, <1>5, <1>6, <1>8, <1>10, <1>11 DEF Inductive, Exclusion, Recorded

----------------------------------------------------------------------------
(* As many positions as the length of a sequence.                          *)
LEMMA CountedFromOne == ASSUME NEW n \in Nat PROVE Cardinality(1 .. n) = n
<1>1. 1 \in Int /\ n \in Int
  OBVIOUS
<1>2. Cardinality(1 .. n) = IF 1 > n THEN 0 ELSE n - 1 + 1
  BY Zenon, <1>1, FS_Interval
<1> QED BY <1>2

(* The placed threads are different ones and fit.                          *)
LEMMA InitFits ==
    ASSUME SchedulerAssumption, SchedulerInit, NEW c \in CoreIds
    PROVE  /\ Len(Placed[c]) \in 0 .. Cap - 1 /\ Len(Placed[c]) <= Cardinality(Started)
           /\ size[c] = Len(Placed[c])
           /\ \A i \in Slots : i < size[c] =>
                 i + 1 \in DOMAIN Placed[c] /\ arr[c][i] = Placed[c][i + 1] /\ arr[c][i] \in Threads
           /\ \A i \in Slots : ~(i < size[c]) => arr[c][i] = None
<1> DEFINE n == Len(Placed[c])
<1>1. Placed[c] \in Seq(Threads) /\ n \in Nat /\ DOMAIN Placed[c] = 1 .. n
  BY DEF SchedulerAssumption, CoreIds
<1>2. size[c] = n /\ \A i \in Slots : arr[c][i] = IF i < n THEN Placed[c][i + 1] ELSE None
  BY Zenon DEF SchedulerInit
<1>3. n <= Cardinality(Threads)
  <2>1. Placed[c] \in Injection(1 .. n, Threads)
    <3>1. \A i, j \in 1 .. n : Placed[c][i] = Placed[c][j] => i = j
      BY Zenon, <1>1 DEF SchedulerAssumption, CoreIds
    <3> QED BY <1>1, <3>1 DEF Injection, IsInjective
  <2>2. Cardinality(1 .. n) = n
    BY Zenon, <1>1, CountedFromOne
  <2>3. Cardinality(1 .. n) <= Cardinality(Threads)
    BY Zenon, <2>1, FS_Injection DEF SchedulerAssumption
  <2> QED BY Zenon, <2>2, <2>3
<1>4. n \in 0 .. Cap - 1
  BY <1>1, <1>3, Capacity
<1>5. \A i \in Slots : i < n => i + 1 \in 1 .. n /\ Placed[c][i + 1] \in Threads
  BY <1>1 DEF Slots
<1>6. \A k \in 1 .. n : Placed[c][k] \in Started
  <2> SUFFICES ASSUME NEW k \in 1 .. n PROVE Placed[c][k] \in Threads /\ tpc[Placed[c][k]] # "new"
    BY Zenon DEF Started, Fresh
  <2>1. k - 1 \in Slots /\ k - 1 < n /\ Placed[c][k] \in Threads
    BY <1>1, <1>4, Capacity DEF Slots
  <2>2. arr[c][k - 1] = Placed[c][k]
    BY <1>1, <1>2, <2>1
  <2>3. Placed[c][k] \in Queue(c)
    BY <1>2, <2>1, <2>2 DEF Queue, SchedulerAssumption
  <2> QED BY Zenon, <2>1, <2>3 DEF SchedulerInit
<1>7. n <= Cardinality(Started)
  <2>1. Placed[c] \in Injection(1 .. n, Started)
    <3>1. \A i, j \in 1 .. n : Placed[c][i] = Placed[c][j] => i = j
      BY Zenon, <1>1 DEF SchedulerAssumption, CoreIds
    <3> QED BY <1>1, <1>6, <3>1 DEF Injection, IsInjective
  <2>2. Cardinality(1 .. n) = n
    BY Zenon, <1>1, CountedFromOne
  <2>3. Cardinality(1 .. n) <= Cardinality(Started)
    BY Zenon, <2>1, FS_Injection, Capacity
  <2> QED BY Zenon, <2>2, <2>3
<1> QED BY Zenon, <1>1, <1>2, <1>4, <1>5, <1>7

(* An append that is not under way.                                        *)
LEMMA NothingPushed ==
    ASSUME SchedulerAssumption
    PROVE  NoPush \in PushRecords /\ NoPush.thread = None /\ NoPush.count = 0
<1>1. Unwritten \in Arrays
  BY Zenon DEF Unwritten, Arrays
<1> QED BY <1>1, Capacity DEF NoPush, PushRecords, CoreIds, SchedulerAssumption

(* Boot establishes the invariant.                                         *)
LEMMA InitInductive == ASSUME SchedulerAssumption, SchedulerInit PROVE Inductive
<1>1. /\ current = [c \in CoreIds |-> None] /\ next = [c \in CoreIds |-> None]
      /\ spc = [c \in CoreIds |-> "run"] /\ push = [t \in Threads |-> NoPush]
      /\ freed = [t \in Threads |-> 0] /\ exclusive = TRUE /\ intact = TRUE
      /\ \A t \in Threads : tpc[t] \notin Appends
      /\ None \notin Threads
  BY Zenon DEF SchedulerInit, SchedulerAssumption, Appends
<1>2. SchedulerTypeOK
  <2>1. arr \in [CoreIds -> Arrays]
    <3>1. arr = [c \in CoreIds |-> [i \in Slots |->
                   IF i < Len(Placed[c]) THEN Placed[c][i + 1] ELSE None]]
      BY Zenon DEF SchedulerInit
    <3>2. ASSUME NEW c \in CoreIds, NEW i \in Slots PROVE arr[c][i] \in Threads \cup {None}
      BY Zenon, InitFits
    <3> QED BY Zenon, <3>1, <3>2 DEF Arrays
  <2>2. size \in [CoreIds -> 0 .. Cap]
    <3>1. \A c \in CoreIds : Len(Placed[c]) \in 0 .. Cap
      BY InitFits, Capacity
    <3> QED BY Zenon, <3>1 DEF SchedulerInit
  <2>3. index \in [CoreIds -> Sizes] /\ start \in [CoreIds -> Sizes]
    BY Capacity DEF SchedulerInit, Sizes
  <2>4. NoPush \in PushRecords
    BY Zenon, NothingPushed
  <2>5. state \in [Threads -> States] /\ alarm \in [CoreIds -> SUBSET Threads]
        /\ tpc \in [Threads -> Points]
    BY Zenon DEF SchedulerInit, States, Points
  <2>6. capacity \in [CoreIds -> Nat]
    <3>1. \A c \in CoreIds : Len(Placed[c]) \in 0 .. Cardinality(Threads) + 1
      BY InitFits, Capacity
    <3>2. \A c \in CoreIds : GrowTo[Len(Placed[c])] \in Nat
      BY Zenon, <3>1 DEF SchedulerAssumption
    <3> QED BY <3>2 DEF SchedulerInit
  <2> QED BY Zenon, <1>1, <2>1, <2>2, <2>3, <2>4, <2>5, <2>6 DEF SchedulerTypeOK
<1>3. Pushes
  BY Zenon, <1>1, NothingPushed DEF Pushes
<1>4. Room
  BY <1>1, InitFits, Capacity DEF Room, NoPush
<1>5. Looping /\ Growth
  <2>1. \A c \in CoreIds, i \in Slots : i < size[c] => arr[c][i] # None
    BY Zenon, <1>1, InitFits
  <2>2. \A c \in CoreIds : Appenders(c) = {}
    BY Zenon, <1>1, NothingPushed DEF Appenders
  <2>3. \A f \in Threads : tpc[f] # "size" /\ tpc[f] # "replace"
    BY Zenon, <1>1 DEF Appends
  <2> QED BY Zenon, <1>1, <2>1, <2>2, <2>3 DEF Looping, Growth, Filled, GrowsAlone
<1>6. Homes
  <2> SUFFICES ASSUME NEW t \in Threads, NEW c \in CoreIds, Knows(c, t)
               PROVE  ~Fresh(t) /\ \A d \in CoreIds : Knows(d, t) => d = c
    BY SMTT(30) DEF Homes
  <2>1. ASSUME NEW d \in CoreIds, Knows(d, t)
        PROVE  \E i \in Slots : /\ i < size[d] /\ arr[d][i] = t /\ i + 1 \in DOMAIN Placed[d]
                                /\ Placed[d][i + 1] = t
    BY Zenon, <1>1, <2>1, InitFits, NothingPushed DEF Knows, Appenders
  <2>2. \A d \in CoreIds : Knows(d, t) => d = c
    <3> SUFFICES ASSUME NEW d \in CoreIds, Knows(d, t) PROVE d = c
      BY Zenon
    <3>1. PICK i \in Slots : i + 1 \in DOMAIN Placed[d] /\ Placed[d][i + 1] = t
      BY Zenon, <2>1
    <3>2. PICK j \in Slots : j + 1 \in DOMAIN Placed[c] /\ Placed[c][j + 1] = t
      BY Zenon, <2>1
    <3> QED BY <3>1, <3>2 DEF SchedulerAssumption, CoreIds
  <2>3. t \in Queue(c)
    BY Zenon, <1>1, <2>1 DEF Queue
  <2>4. ~Fresh(t)
    BY Zenon, <2>3 DEF Fresh, SchedulerInit
  <2> QED BY Zenon, <2>2, <2>4
<1>7. \A c \in CoreIds : Appending(c) = {} /\ Length(c) = size[c]
  BY Zenon, <1>1, NothingPushed DEF Appending, Appenders, Length
<1>8. OneAtATime /\ Behind /\ Gone
  BY <1>1, <1>7 DEF OneAtATime, Behind, Gone
<1>9. Distinct
  <2> SUFFICES ASSUME NEW c \in CoreIds, NEW i \in Slots, NEW j \in Slots, i < j, j < size[c]
               PROVE  arr[c][i] # arr[c][j]
    BY <1>7 DEF Distinct
  <2>1. i \in Nat /\ j \in Nat /\ size[c] \in Nat
    BY <1>2, Capacity DEF Slots, SchedulerTypeOK
  <2>2. i < size[c]
    BY <2>1
  <2>3. i + 1 \in DOMAIN Placed[c] /\ arr[c][i] = Placed[c][i + 1]
    BY Zenon, <2>2, InitFits
  <2>4. j + 1 \in DOMAIN Placed[c] /\ arr[c][j] = Placed[c][j + 1]
    BY Zenon, InitFits
  <2>5. c \in DOMAIN Placed /\ i + 1 # j + 1
    BY <2>1 DEF CoreIds, SchedulerAssumption
  <2> QED BY <2>3, <2>4, <2>5 DEF SchedulerAssumption
<1>10. Waits
  <2> SUFFICES ASSUME NEW t \in Threads, NEW c \in CoreIds, Live(c, t) PROVE tpc[t] # "new"
    BY Zenon DEF Waits
  <2>1. t \in Queue(c)
    BY Zenon, <1>1, <1>7 DEF Queue, Live
  <2> QED BY Zenon, <2>1 DEF SchedulerInit
<1> QED BY Zenon, <1>2, <1>3, <1>4, <1>5, <1>6, <1>8, <1>9, <1>10 DEF Inductive, Exclusion


(* The second half of an erasure: the size becomes what counts.            *)
LEMMA ErasedStep ==
    ASSUME SchedulerAssumption, Inductive, Recorded, NEW c \in CoreIds, pick_next_erased(c)
    PROVE  Inductive'
<1> DEFINE n == size[c] - 1
<1>0. size[c] \in 1 .. Cap /\ spc[c] = "erase" /\ next[c] = None /\ Cap \in Nat
      /\ n \in 0 .. Cap - 1 /\ n \in Nat
  BY Capacity DEF pick_next_erased, Inductive, SchedulerTypeOK, Looping
<1>1. UNCHANGED <<arr, capacity, current, state, tpc, alarm, push, freed>>
      /\ size' = [size EXCEPT ![c] = n]
  BY Zenon DEF pick_next_erased
<1>2. \/ spc' = [spc EXCEPT ![c] = "pick"] /\ UNCHANGED next /\ n > 1
      \/ spc' = [spc EXCEPT ![c] = "save"] /\ next' = [next EXCEPT ![c] = Idle]
  BY Zenon DEF pick_next_erased, Pick, Loop
<1>3. index' \in [CoreIds -> Sizes] /\ start' \in [CoreIds -> Sizes]
  <2>1. index \in [CoreIds -> 0 .. SizeMod - 1] /\ start \in [CoreIds -> 0 .. SizeMod - 1]
    BY Zenon DEF Inductive, SchedulerTypeOK, Sizes
  <2>2. StepBack(c) \in 0 .. SizeMod - 1
    BY <2>1, Capacity DEF StepBack
  <2>3. n # 0 => (start[c] + 1) % n \in 0 .. SizeMod - 1
    <3> HAVE n # 0
    <3>1. (start[c] + 1) % n \in 0 .. n - 1
      BY <1>0, <2>1
    <3> QED BY <1>0, <3>1, Capacity
  <2> QED BY Zenon, <1>0, <2>1, <2>2, <2>3 DEF pick_next_erased, Sizes
<1>4. /\ next' \in [CoreIds -> Threads \cup {Idle, None}] /\ size' \in [CoreIds -> 0 .. Cap]
      /\ spc' \in [CoreIds -> {"run", "pick", "erase", "save", "ready", "switch"}]
  <2>1. size \in [CoreIds -> 0 .. Cap] /\ next \in [CoreIds -> Threads \cup {Idle, None}]
        /\ spc \in [CoreIds -> {"run", "pick", "erase", "save", "ready", "switch"}]
    BY Zenon DEF Inductive, SchedulerTypeOK
  <2>2. n \in 0 .. Cap
    BY <1>0
  <2> QED BY Zenon, <1>1, <1>2, <2>1, <2>2
<1>5. SchedulerTypeOK'
  BY Zenon, <1>1, <1>3, <1>4 DEF Inductive, SchedulerTypeOK, Recorded
<1>6. \A d \in CoreIds : size'[d] = IF d = c THEN n ELSE size[d]
  BY Zenon, <1>1 DEF Inductive, SchedulerTypeOK
<1>7. Pushes' /\ (\A u \in Threads : Fresh(u)' <=> Fresh(u)) /\ Started' = Started
  BY <1>1 DEF Inductive, Pushes, Fresh, Started
<1>8. Room'
  <2>1. size[c] <= Cardinality(Started)
    BY Zenon DEF Inductive, Room
  <2>2. n <= Cardinality(Started)
    BY <1>0, <2>1, Capacity
  <2> QED BY Zenon, <1>1, <1>6, <1>7, <2>2 DEF Inductive, Room
<1>9. \A d \in CoreIds : /\ spc'[d] # "erase" \/ d # c
                         /\ d # c => spc'[d] = spc[d] /\ next'[d] = next[d]
                         /\ spc'[c] \in {"run", "pick", "erase"} => n > 0 /\ next'[c] = None
                         /\ next'[c] \notin Threads
  BY <1>0, <1>2 DEF Inductive, SchedulerTypeOK, SchedulerAssumption
<1>10. Looping' /\ Growth'
  <2>1. \A j \in Slots : j < n => j < size[c]
    BY <1>0 DEF Slots
  <2>2. Looping'
    BY <1>6, <1>9 DEF Inductive, Looping
  <2>3. ASSUME intact' PROVE Filled'
    <3>1. Filled
      BY Zenon, <2>3 DEF Recorded, Inductive, Growth
    <3>2. \A d \in CoreIds, j \in Slots : j < size'[d] => j < size[d]
      BY Zenon, <1>6, <2>1
    <3>3. \A f \in Threads : push[f].core \in CoreIds
      BY DEF Inductive, SchedulerTypeOK, PushRecords
    <3> QED BY Zenon, <1>1, <3>1, <3>2, <3>3 DEF Filled
  <2> QED BY Zenon, <2>2, <2>3 DEF Growth, Recorded
<1>11. \A d \in CoreIds, u \in Threads : Knows(d, u)' => Knows(d, u)
  BY Zenon, <1>1, <1>9 DEF Knows, Appenders
<1>12. Homes'
  BY Zenon, <1>7, <1>11 DEF Inductive, Homes
<1>13. ASSUME exclusive' PROVE Distinct' /\ Gone' /\ Waits' /\ Behind'
  <2>0. OneAtATime /\ Distinct /\ Gone /\ Waits /\ Behind
    BY Zenon, <1>13 DEF Inductive, Exclusion, Recorded
  <2>1. \A d \in CoreIds : Length(d)' = Length(d)
    BY Zenon, <1>0, <1>6, <1>9 DEF Length
  <2>2. Distinct' /\ \A d \in CoreIds, u \in Threads : Live(d, u)' <=> Live(d, u)
    BY Zenon, <1>1, <2>0, <2>1 DEF Distinct, Live
  <2>3. Waits'
    BY Zenon, <1>1, <2>0, <2>2 DEF Waits
  <2>4. \A d \in CoreIds, u \in Threads : u = next'[d] => u = next[d]
    BY Zenon, <1>9
  <2>5. Gone'
    BY Zenon, <1>1, <2>0, <2>2, <2>4 DEF Gone
  <2>6. \A d \in CoreIds : Appending(d)' = Appending(d)
    BY Zenon, <1>1 DEF Appending, Appenders
  <2>7. \A f \in Appending(c) : FALSE
    BY Zenon, <1>0, <2>0 DEF OneAtATime
  <2>8. Behind'
    BY <1>1, <1>6, <2>0, <2>6, <2>7 DEF Behind
  <2> QED BY Zenon, <2>2, <2>3, <2>5, <2>8
<1> QED BY Zenon, <1>5, <1>7, <1>8, <1>10, <1>12, <1>13 DEF Inductive, Exclusion, Recorded

----------------------------------------------------------------------------
(* fork() begins to append a fresh thread to a vector.                     *)
LEMMA StartStep ==
    ASSUME SchedulerAssumption, Inductive, Recorded,
           NEW c \in CoreIds, NEW f \in Threads, NEW t \in Threads, start_thread(c, f, t)
    PROVE  Inductive'
<1>0. PICK b \in CoreIds : b = pick_best_core
  BY Zenon, BestCore DEF Inductive
<1>1. PICK n \in Nat : n = size[b]
  BY <1>0, Capacity DEF Inductive, SchedulerTypeOK
<1> DEFINE begun == [thread |-> t, core |-> b, count |-> n + 1, copy |-> Unwritten]
<1>2. /\ UNCHANGED <<arr, size, capacity, index, current, start, next, spc, state, alarm, freed>>
      /\ push' = [push EXCEPT ![f] = begun]
      /\ \E p \in {"fill", "reserve"} : tpc' = [tpc EXCEPT ![f] = p]
  BY Zenon, <1>0, <1>1 DEF start_thread
<1>3. current[c] = f /\ tpc[f] = "run" /\ Fresh(t)
  BY Zenon DEF start_thread, Executes, Fresh
<1>4. t # f /\ t # None /\ t # Idle /\ push[f].thread = None
  BY Zenon, <1>3 DEF Fresh, SchedulerAssumption, Inductive, Pushes, Appends
<1>5. /\ tpc'[f] \in {"fill", "reserve"} /\ \A u \in Threads \ {f} : tpc'[u] = tpc[u]
      /\ push'[f] = begun
      /\ \A u \in Threads \ {f} : push'[u] = push[u]
  BY Zenon, <1>2 DEF Inductive, SchedulerTypeOK
<1>6. ~Fresh(t)' /\ ~Fresh(f) /\ ~Fresh(f)' /\ \A u \in Threads \ {t, f} : Fresh(u)' <=> Fresh(u)
  <2>1. push'[f].thread = t /\ t # f
    BY <1>4, <1>5
  <2>2. ~Fresh(t)' /\ ~Fresh(f) /\ ~Fresh(f)'
    BY Zenon, <1>3, <1>5, <2>1 DEF Fresh
  <2>3. ASSUME NEW u \in Threads \ {t, f} PROVE Fresh(u)' <=> Fresh(u)
    <3>1. u # t /\ u # None /\ tpc'[u] = tpc[u]
      BY Zenon, <1>5 DEF SchedulerAssumption
    <3>2. \A g \in Threads : push'[g].thread # u <=> push[g].thread # u
      BY <1>4, <1>5, <2>1, <3>1
    <3> QED BY Zenon, <3>1, <3>2 DEF Fresh
  <2> QED BY Zenon, <2>2, <2>3
<1>7. Started' = Started \cup {t} /\ t \notin Started
  BY Zenon, <1>3, <1>6 DEF Started
<1>8. Cardinality(Started') = Cardinality(Started) + 1
  BY Zenon, <1>7, Capacity, FS_AddElement
<1>9. n <= Cardinality(Started) /\ IsFiniteSet(Started')
  BY Zenon, <1>1, <1>7, Capacity, FS_AddElement DEF Inductive, Room
<1>10. n + 1 <= Cardinality(Started')
  BY <1>8, <1>9, Capacity
<1>11. Cardinality(Started') <= Cardinality(Threads)
  BY Zenon, FS_Subset DEF Started, SchedulerAssumption
<1>12. n + 1 <= Cardinality(Threads) /\ n \in Slots /\ n + 1 \in 0 .. Cap
  BY <1>8, <1>10, <1>11, Capacity DEF Slots
<1>14. SchedulerTypeOK'
  <2>1. begun \in PushRecords
    BY <1>12 DEF PushRecords, Unwritten, Arrays
  <2>2. push' \in [Threads -> PushRecords]
    BY Zenon, <1>2, <2>1 DEF Inductive, SchedulerTypeOK
  <2>3. tpc' \in [Threads -> Points]
    BY Zenon, <1>2 DEF Inductive, SchedulerTypeOK, Points, Appends
  <2> QED BY Zenon, <1>2, <2>2, <2>3 DEF Inductive, SchedulerTypeOK, Recorded
<1>15. ASSUME NEW u \in Threads PROVE push[u].thread # None => push[u].thread \in Threads \ {t}
  BY <1>3 DEF Fresh, Inductive, SchedulerTypeOK, PushRecords
<1>16. Pushes'
  <2> SUFFICES ASSUME NEW u \in Threads
               PROVE  /\ tpc'[u] \in Appends <=> push'[u].thread # None
                      /\ push'[u].thread # None =>
                           /\ tpc'[push'[u].thread] = "new" /\ push'[u].count > 0
                           /\ \A g \in Threads : push'[g].thread = push'[u].thread => g = u
    BY Zenon DEF Pushes
  <2>1. CASE u = f
    <3>1. push'[u].thread = t /\ push'[u].count = n + 1 /\ n + 1 > 0
      BY <1>5, <2>1
    <3>2. tpc'[t] = "new"
      BY Zenon, <1>3, <1>4, <1>5 DEF Fresh
    <3>3. \A g \in Threads : push'[g].thread = t => g = f
      BY <1>3, <1>5 DEF Fresh
    <3> QED BY Zenon, <1>4, <1>5, <2>1, <3>1, <3>2, <3>3 DEF Appends
  <2>2. CASE u # f
    <3>1. push'[u] = push[u] /\ tpc'[u] = tpc[u]
      BY Zenon, <1>5, <2>2
    <3>2. ASSUME push[u].thread # None
          PROVE  /\ tpc'[push[u].thread] = "new" /\ push[u].count > 0
                 /\ \A g \in Threads : push'[g].thread = push[u].thread => g = u
      <4>1. push[u].thread \in Threads /\ push[u].thread # t
        BY Zenon, <1>15, <3>2
      <4>2. tpc[push[u].thread] = "new" /\ push[u].count > 0
            /\ \A g \in Threads : push[g].thread = push[u].thread => g = u
        BY Zenon, <3>2 DEF Inductive, Pushes
      <4>3. push[u].thread # f
        BY Zenon, <1>3, <4>2
      <4>4. tpc'[push[u].thread] = "new"
        BY Zenon, <1>5, <4>1, <4>2, <4>3
      <4>5. \A g \in Threads : push'[g].thread = push[u].thread => g = u
        BY <1>5, <4>1, <4>2
      <4> QED BY Zenon, <4>2, <4>4, <4>5
    <3> QED BY Zenon, <3>1, <3>2 DEF Inductive, Pushes
  <2> QED BY Zenon, <2>1, <2>2
<1>17. Room'
  <2>1. \A d \in CoreIds : size[d] \in Nat /\ size[d] <= Cardinality(Started)
    BY Capacity DEF Inductive, Room, SchedulerTypeOK
  <2>2. \A u \in Threads : push[u].count \in Nat /\ push[u].count <= Cardinality(Started)
    BY Capacity DEF Inductive, Room, SchedulerTypeOK, PushRecords
  <2>3. Cardinality(Started) \in Nat
    BY Zenon, Capacity
  <2>4. \A d \in CoreIds : size'[d] <= Cardinality(Started')
    BY <1>2, <1>8, <2>1, <2>3
  <2>5. \A u \in Threads : push'[u].count <= Cardinality(Started')
    BY <1>5, <1>8, <1>10, <2>2, <2>3
  <2> QED BY Zenon, <2>4, <2>5 DEF Room
<1>18. Looping' /\ Growth'
  <2>1. Looping'
    BY Zenon, <1>2 DEF Inductive, Looping
  <2>2. ASSUME intact' PROVE Filled'
    <3>1. Filled
      BY Zenon, <2>2 DEF Recorded, Inductive, Growth
    <3>2. \A u \in Threads : tpc'[u] \in {"size", "replace"} => push'[u] = push[u] /\ tpc'[u] = tpc[u]
      BY Zenon, <1>5
    <3> QED BY <1>2, <3>1, <3>2 DEF Filled
  <2> QED BY Zenon, <2>1, <2>2 DEF Growth, Recorded
<1>19. Homes'
  <2>0. ASSUME NEW d \in CoreIds, NEW u \in Appenders(d)', u # f
        PROVE  u \in Appenders(d) /\ push'[u] = push[u]
    BY Zenon, <1>5, <2>0 DEF Appenders
  <2>1. /\ push'[f].thread = t /\ push'[f].core = b
        /\ \A j \in Slots : push'[f].copy[j] = None
    <3>1. push'[f].thread = t /\ push'[f].core = b /\ push'[f].copy = Unwritten
      BY <1>5
    <3> QED BY Zenon, <3>1 DEF Unwritten
  <2>5. \A d \in CoreIds : f \in Appenders(d)' => d = b
    BY Zenon, <2>1 DEF Appenders
  <2>6. ASSUME NEW d \in CoreIds, NEW u \in Threads, Knows(d, u)', u # t \/ d # b
        PROVE  Knows(d, u)
    <3>1. ASSUME NEW g \in Appenders(d)',
                 push'[g].thread = u \/ \E j \in Slots : push'[g].copy[j] = u
          PROVE  Knows(d, u)
      <4>1. u # None
        BY Zenon DEF SchedulerAssumption
      <4>2. g # f
        BY Zenon, <2>1, <2>5, <2>6, <3>1, <4>1
      <4> QED BY Zenon, <2>0, <3>1, <4>2 DEF Knows
    <3>2. CASE u = current'[d] \/ u = next'[d] \/ \E j \in Slots : arr'[d][j] = u
      BY Zenon, <1>2, <3>2 DEF Knows
    <3> QED BY Zenon, <2>6, <3>1, <3>2 DEF Knows
  <2>2. \A d \in CoreIds : ~Knows(d, t)
    BY Zenon, <1>3 DEF Inductive, Homes
  <2>3. \A d \in CoreIds : Knows(d, t)' => d = b
    BY Zenon, <2>2, <2>6
  <2>4. \A u \in Threads : Fresh(u)' => Fresh(u)
    BY Zenon, <1>6
  <2> SUFFICES ASSUME NEW u \in Threads, NEW d \in CoreIds, Knows(d, u)'
               PROVE  ~Fresh(u)' /\ \A e \in CoreIds : Knows(e, u)' => e = d
    BY Zenon DEF Homes
  <2>7. CASE u = t
    BY Zenon, <1>6, <2>3, <2>7
  <2>8. CASE u # t
    BY Zenon, <2>4, <2>6, <2>8 DEF Inductive, Homes
  <2> QED BY Zenon, <2>7, <2>8
<1>20. ASSUME exclusive' PROVE Distinct' /\ Gone' /\ Waits' /\ Behind'
  <2>0. OneAtATime' /\ Distinct /\ Gone /\ Waits /\ Behind
    BY Zenon, <1>20 DEF Inductive, Exclusion, Recorded
  <2>1. freed[f] \in Nat /\ ~(freed[f] > 0)
    BY Zenon, <1>3, <2>0 DEF Gone, Inductive, SchedulerTypeOK
  <2>2. f \in Appending(b)'
    BY <1>2, <1>4, <1>5, <2>1 DEF Appending, Appenders
  <2>3. spc[b] # "erase" /\ Appending(b)' = {f}
    BY Zenon, <1>2, <2>0, <2>2 DEF OneAtATime
  <2>6. \A d \in CoreIds : Length(d)' = Length(d) /\ \A u \in Threads : Live(d, u)' <=> Live(d, u)
    BY Zenon, <1>2 DEF Length, Live
  <2>7. Distinct'
    BY <1>2, <2>0, <2>6 DEF Distinct
  <2>8. Waits'
    BY Zenon, <1>5, <2>0, <2>6 DEF Waits
  <2>9. Gone'
    BY Zenon, <1>2, <1>5, <2>0, <2>6 DEF Gone
  <2>10. Behind'
    <3> SUFFICES ASSUME NEW d \in CoreIds, NEW u \in Appending(d)'
                 PROVE  /\ push'[u].count = size[d] + 1
                        /\ tpc'[u] = "size" => arr[d][size[d]] = push'[u].thread
                        /\ tpc'[u] = "replace" => \A i \in Slots : i < size[d] =>
                               push'[u].copy[i] = arr[d][i]
      BY <1>2 DEF Behind
    <3>1. CASE u = f
      <4>1. d = b
        BY <1>5, <3>1 DEF Appending, Appenders
      <4> QED BY <1>1, <1>5, <3>1, <4>1
    <3>2. CASE u # f
      <4>2. push'[u] = push[u] /\ u \in Appending(d) /\ tpc'[u] = tpc[u]
        BY Zenon, <1>2, <1>5, <3>2 DEF Appending, Appenders
      <4> QED BY <2>0, <4>2 DEF Behind
    <3> QED BY Zenon, <3>1, <3>2
  <2> QED BY Zenon, <2>7, <2>8, <2>9, <2>10
<1> QED BY Zenon, <1>14, <1>16, <1>17, <1>18, <1>19, <1>20 DEF Inductive, Exclusion, Recorded

(* A step of push_back() before the last: the size and what is appended    *)
(* stay.                                                                   *)
LEMMA AppendStep ==
    ASSUME SchedulerAssumption, Inductive, Recorded, NEW f \in Threads, NEW q \in Appends,
           tpc[f] \in Appends, tpc' = [tpc EXCEPT ![f] = q],
           UNCHANGED <<size, index, current, start, next, spc, state, alarm, freed>>,
           arr' \in [CoreIds -> Arrays], capacity' \in [CoreIds -> Nat],
           push' \in [Threads -> PushRecords],
           \A u \in Threads : /\ push'[u].thread = push[u].thread
                              /\ push'[u].core = push[u].core /\ push'[u].count = push[u].count
    PROVE  /\ SchedulerTypeOK' /\ Pushes' /\ Room' /\ Looping'
           /\ \A u \in Threads : Fresh(u)' <=> Fresh(u)
           /\ \A d \in CoreIds : /\ Appenders(d)' = Appenders(d)
                                 /\ Appending(d)' = Appending(d) /\ Length(d)' = Length(d)
           /\ exclusive' /\ (\A d \in CoreIds, j \in Slots : j < Length(d) => arr'[d][j] = arr[d][j])
              => Distinct' /\ Gone' /\ Waits'
<1>1. tpc'[f] = q /\ \A u \in Threads \ {f} : tpc'[u] = tpc[u]
  BY Zenon DEF Inductive, SchedulerTypeOK
<1>2. /\ \A u \in Threads : tpc'[u] = "new" <=> tpc[u] = "new"
      /\ \A u \in Threads : tpc'[u] \in Appends <=> tpc[u] \in Appends
  <2>1. "new" \notin Appends
    BY Zenon DEF Appends
  <2> QED BY Zenon, <1>1, <2>1
<1>3. SchedulerTypeOK'
  <2>1. tpc' \in [Threads -> Points]
    BY Zenon DEF Inductive, SchedulerTypeOK, Points
  <2> QED BY Zenon, <2>1 DEF Inductive, SchedulerTypeOK, Recorded
<1>4. Pushes'
  <2>1. \A u \in Threads : push[u].thread # None => push[u].thread \in Threads
    BY DEF Inductive, SchedulerTypeOK, PushRecords
  <2>2. \A u \in Threads : tpc'[u] \in Appends <=> push'[u].thread # None
    BY Zenon, <1>2 DEF Inductive, Pushes
  <2>3. ASSUME NEW u \in Threads, push[u].thread # None
        PROVE  /\ tpc'[push[u].thread] = "new" /\ push[u].count > 0
               /\ \A g \in Threads : push[g].thread = push[u].thread => g = u
    BY Zenon, <1>2, <2>1, <2>3 DEF Inductive, Pushes
  <2> QED BY Zenon, <2>2, <2>3 DEF Pushes
<1>5. \A u \in Threads : Fresh(u)' <=> Fresh(u)
  BY Zenon, <1>2 DEF Fresh
<1>6. Started' = Started
  BY Zenon, <1>5 DEF Started
<1>7. Room' /\ Looping'
  BY Zenon, <1>6 DEF Inductive, Room, Looping
<1>8. \A d \in CoreIds : /\ Appenders(d)' = Appenders(d)
                         /\ Appending(d)' = Appending(d) /\ Length(d)' = Length(d)
  BY Zenon DEF Appenders, Appending, Length
<1>9. ASSUME exclusive', \A d \in CoreIds, j \in Slots : j < Length(d) => arr'[d][j] = arr[d][j]
      PROVE  Distinct' /\ Gone' /\ Waits'
  <2>0. Distinct /\ Gone /\ Waits
    BY Zenon, <1>9 DEF Inductive, Exclusion, Recorded
  <2>1. Distinct'
    <3> SUFFICES ASSUME NEW d \in CoreIds, NEW j \in Slots, NEW k \in Slots, j < k, k < Length(d)
                 PROVE  arr'[d][j] # arr'[d][k]
      BY Zenon, <1>8 DEF Distinct
    <3>1. Length(d) \in Int /\ j \in Int /\ k \in Int
      BY DEF Length, Slots, Inductive, SchedulerTypeOK
    <3>2. j < Length(d)
      BY <3>1
    <3> QED BY <1>9, <2>0, <3>2 DEF Distinct
  <2>2. \A d \in CoreIds, u \in Threads : Live(d, u)' <=> Live(d, u)
    BY Zenon, <1>8, <1>9 DEF Live
  <2>3. Waits'
    BY Zenon, <1>2, <2>0, <2>2 DEF Waits
  <2>4. Gone'
    BY Zenon, <1>2, <2>0, <2>2 DEF Gone
  <2> QED BY Zenon, <2>1, <2>3, <2>4
<1> QED BY Zenon, <1>3, <1>4, <1>5, <1>7, <1>8, <1>9

(* What is known of the append that thread f executes.                     *)
LEMMA Executed ==
    ASSUME SchedulerAssumption, Inductive, Recorded, NEW c \in CoreIds, NEW f \in Threads,
           Executes(c, f), tpc[f] \in Appends
    PROVE  \E t \in Threads, b \in CoreIds, n \in 1 .. Cap :
              /\ push[f].thread = t /\ push[f].core = b /\ push[f].count = n
              /\ f \in Appenders(b) /\ t # None /\ push[f].copy \in Arrays /\ size[b] \in Nat
              /\ exclusive' => /\ OneAtATime /\ Distinct /\ Gone /\ Waits /\ Behind
                               /\ f \in Appending(b) /\ spc[b] # "erase" /\ Appending(b) = {f}
                               /\ n = size[b] + 1 /\ size[b] \in Slots /\ Length(b) = size[b]
<1>1. PICK t \in Threads, b \in CoreIds, n \in 1 .. Cap :
          push[f].thread = t /\ push[f].core = b /\ push[f].count = n /\ push[f].copy \in Arrays
  <2>1. push[f] \in PushRecords
    BY Zenon DEF Inductive, SchedulerTypeOK
  <2>2. push[f].thread # None /\ push[f].count > 0
    BY Zenon DEF Inductive, Pushes
  <2>3. /\ push[f].thread \in Threads /\ push[f].core \in CoreIds /\ push[f].count \in 1 .. Cap
        /\ push[f].copy \in Arrays
    BY <2>1, <2>2, Capacity DEF PushRecords
  <2> QED BY Zenon, <2>3
<1>2. f \in Appenders(b) /\ t # None /\ size[b] \in Nat
  <2>1. size[b] \in Nat
    BY Capacity DEF Inductive, SchedulerTypeOK
  <2> QED BY Zenon, <1>1, <2>1 DEF Appenders, SchedulerAssumption
<1>3. ASSUME exclusive'
      PROVE  /\ OneAtATime /\ Distinct /\ Gone /\ Waits /\ Behind
             /\ f \in Appending(b) /\ spc[b] # "erase" /\ Appending(b) = {f}
             /\ n = size[b] + 1 /\ size[b] \in Slots /\ Length(b) = size[b]
  <2>0. OneAtATime /\ Distinct /\ Gone /\ Waits /\ Behind
    BY Zenon, <1>3 DEF Inductive, Exclusion, Recorded
  <2>1. freed[f] \in Nat /\ ~(freed[f] > 0)
    BY Zenon, <2>0 DEF Executes, Gone, Inductive, SchedulerTypeOK
  <2>2. f \in Appending(b)
    BY <1>2, <2>1 DEF Appending
  <2>3. spc[b] # "erase" /\ Appending(b) = {f}
    BY Zenon, <2>0, <2>2 DEF OneAtATime
  <2>4. n = size[b] + 1
    BY Zenon, <1>1, <2>0, <2>2 DEF Behind
  <2>5. size[b] \in Slots
    BY <1>2, <2>4, Capacity DEF Slots
  <2> QED BY Zenon, <2>0, <2>2, <2>3, <2>4, <2>5 DEF Length
<1> QED BY Zenon, <1>1, <1>2, <1>3

(* reserve() copies the slots that count.                                  *)
LEMMA ReserveStep ==
    ASSUME SchedulerAssumption, Inductive, Recorded, NEW c \in CoreIds, NEW f \in Threads,
           reserve(c, f)
    PROVE  Inductive'
<1>0. Executes(c, f) /\ tpc[f] = "reserve" /\ tpc[f] \in Appends /\ "replace" \in Appends
  BY Zenon DEF reserve, Appends
<1>1. PICK t \in Threads, b \in CoreIds, n \in 1 .. Cap :
          /\ push[f].thread = t /\ push[f].core = b /\ push[f].count = n
          /\ f \in Appenders(b) /\ t # None /\ push[f].copy \in Arrays /\ size[b] \in Nat
          /\ exclusive' => /\ OneAtATime /\ Distinct /\ Gone /\ Waits /\ Behind
                           /\ f \in Appending(b) /\ spc[b] # "erase" /\ Appending(b) = {f}
                           /\ n = size[b] + 1 /\ size[b] \in Slots /\ Length(b) = size[b]
  BY Zenon, <1>0, Executed
<1> DEFINE copy == [i \in Slots |-> IF i < size[b] THEN arr[b][i] ELSE None]
<1>2. /\ UNCHANGED <<arr, size, index, current, start, next, spc, state, alarm, freed>>
      /\ capacity' = [capacity EXCEPT ![b] = GrowTo[n]]
      /\ push' = [push EXCEPT ![f].copy = copy]
      /\ tpc' = [tpc EXCEPT ![f] = "replace"]
  BY Zenon, <1>1 DEF reserve
<1>3. copy \in Arrays /\ capacity' \in [CoreIds -> Nat]
  <2>1. arr[b] \in Arrays /\ capacity \in [CoreIds -> Nat]
    BY Zenon DEF Inductive, SchedulerTypeOK
  <2>2. copy \in Arrays
    BY Zenon, <2>1 DEF Arrays
  <2>3. n \in 0 .. Cardinality(Threads) + 1
    BY Capacity
  <2>4. GrowTo[n] \in Nat
    BY Zenon, <2>3 DEF SchedulerAssumption
  <2> QED BY Zenon, <1>2, <2>1, <2>2, <2>4
<1> HIDE DEF copy
<1>4. /\ push' \in [Threads -> PushRecords] /\ push'[f].copy = copy
      /\ push'[f].thread = push[f].thread /\ push'[f].core = push[f].core
      /\ push'[f].count = push[f].count
      /\ \A u \in Threads \ {f} : push'[u] = push[u]
  <2>1. push \in [Threads -> PushRecords]
    BY Zenon DEF Inductive, SchedulerTypeOK
  <2> QED BY <1>2, <1>3, <2>1 DEF PushRecords
<1>5. \A u \in Threads : /\ push'[u].thread = push[u].thread
                         /\ push'[u].core = push[u].core /\ push'[u].count = push[u].count
  BY Zenon, <1>4
<1>6. tpc'[f] = "replace" /\ \A u \in Threads \ {f} : tpc'[u] = tpc[u]
  BY Zenon, <1>2 DEF Inductive, SchedulerTypeOK
<1>7. arr' \in [CoreIds -> Arrays]
  BY Zenon, <1>2 DEF Inductive, SchedulerTypeOK
<1>8. /\ SchedulerTypeOK' /\ Pushes' /\ Room' /\ Looping'
      /\ \A u \in Threads : Fresh(u)' <=> Fresh(u)
      /\ \A d \in CoreIds : /\ Appenders(d)' = Appenders(d)
                            /\ Appending(d)' = Appending(d) /\ Length(d)' = Length(d)
      /\ exclusive' => Distinct' /\ Gone' /\ Waits'
  BY Zenon, <1>0, <1>2, <1>3, <1>4, <1>5, <1>7, AppendStep
<1>9. \A j \in Slots : (j < size[b] => copy[j] = arr[b][j]) /\ (~(j < size[b]) => copy[j] = None)
  BY Zenon DEF copy
<1>10. Growth'
  <2> SUFFICES ASSUME intact' PROVE Filled'
    BY Zenon DEF Growth, Recorded
  <2>1. Filled
    BY Zenon DEF Recorded, Inductive, Growth
  <2>2. ASSUME NEW u \in Threads, NEW j \in Slots, tpc'[u] = "size", j < push'[u].count
        PROVE  arr'[push'[u].core][j] # None
    <3>1. u # f
      BY <1>6, <2>2
    <3>2. push'[u] = push[u] /\ tpc[u] = "size"
      BY Zenon, <1>4, <1>6, <2>2, <3>1
    <3>3. j < push[u].count => arr[push[u].core][j] # None
      BY Zenon, <2>1, <3>2 DEF Filled
    <3> QED BY Zenon, <1>2, <2>2, <3>2, <3>3
  <2>3. ASSUME NEW u \in Threads, NEW j \in Slots, tpc'[u] = "replace", j < size[push'[u].core]
        PROVE  push'[u].copy[j] # None
    <3>1. CASE u = f
      <4>1. j < size[b]
        BY Zenon, <1>1, <1>4, <2>3, <3>1
      <4>2. arr[b][j] # None
        BY Zenon, <2>1, <4>1 DEF Filled
      <4> QED BY Zenon, <1>4, <1>9, <3>1, <4>1, <4>2
    <3>2. CASE u # f
      BY Zenon, <1>4, <1>6, <2>1, <2>3, <3>2 DEF Filled
    <3> QED BY Zenon, <3>1, <3>2
  <2> QED BY Zenon, <1>2, <2>1, <2>2, <2>3 DEF Filled
<1>11. Homes'
  <2>1. ASSUME NEW d \in CoreIds, NEW u \in Threads, Knows(d, u)' PROVE Knows(d, u)
    <3>1. ASSUME NEW g \in Appenders(d),
                 push'[g].thread = u \/ \E j \in Slots : push'[g].copy[j] = u
          PROVE  Knows(d, u)
      <4>1. g \in Threads /\ push[g].core = d
        BY Zenon DEF Appenders
      <4>2. CASE g = f /\ \E j \in Slots : push'[g].copy[j] = u
        <5>1. PICK j \in Slots : copy[j] = u
          BY Zenon, <1>4, <4>2
        <5>2. arr[b][j] = u /\ d = b
          BY Zenon, <1>1, <1>9, <4>1, <4>2, <5>1 DEF SchedulerAssumption
        <5> QED BY Zenon, <5>2 DEF Knows
      <4>3. CASE g # f \/ push'[g].thread = u
        BY Zenon, <1>4, <3>1, <4>1, <4>3 DEF Knows
      <4> QED BY Zenon, <3>1, <4>2, <4>3
    <3>2. CASE u = current'[d] \/ u = next'[d] \/ \E j \in Slots : arr'[d][j] = u
      BY Zenon, <1>2, <3>2 DEF Knows
    <3> QED BY Zenon, <1>8, <2>1, <3>1, <3>2 DEF Knows
  <2> QED BY Zenon, <1>8, <2>1 DEF Inductive, Homes
<1>12. ASSUME exclusive' PROVE Behind'
  <2> SUFFICES ASSUME NEW d \in CoreIds, NEW u \in Appending(d)
               PROVE  /\ push'[u].count = size[d] + 1
                      /\ tpc'[u] = "size" => arr[d][size[d]] = push'[u].thread
                      /\ tpc'[u] = "replace" => \A i \in Slots : i < size[d] =>
                             push'[u].copy[i] = arr[d][i]
    BY <1>2, <1>8 DEF Behind
  <2>1. CASE u = f
    <3>1. d = b
      BY Zenon, <1>1, <2>1 DEF Appending, Appenders
    <3> QED BY Zenon, <1>1, <1>4, <1>6, <1>9, <1>12, <2>1, <3>1
  <2>2. CASE u # f
    <3>1. push'[u] = push[u] /\ tpc'[u] = tpc[u]
      BY Zenon, <1>4, <1>6, <2>2 DEF Appending, Appenders
    <3> QED BY <1>1, <1>12, <3>1 DEF Behind
  <2> QED BY Zenon, <2>1, <2>2
<1> QED BY Zenon, <1>8, <1>10, <1>11, <1>12 DEF Inductive, Exclusion, Recorded

(* m_array becomes the copy.                                               *)
LEMMA ReplaceStep ==
    ASSUME SchedulerAssumption, Inductive, Recorded, NEW c \in CoreIds, NEW f \in Threads,
           reserve_replace(c, f)
    PROVE  Inductive'
<1>0. Executes(c, f) /\ tpc[f] = "replace" /\ tpc[f] \in Appends /\ "fill" \in Appends
  BY Zenon DEF reserve_replace, Appends
<1>1. PICK t \in Threads, b \in CoreIds, n \in 1 .. Cap :
          /\ push[f].thread = t /\ push[f].core = b /\ push[f].count = n
          /\ f \in Appenders(b) /\ t # None /\ push[f].copy \in Arrays /\ size[b] \in Nat
          /\ exclusive' => /\ OneAtATime /\ Distinct /\ Gone /\ Waits /\ Behind
                           /\ f \in Appending(b) /\ spc[b] # "erase" /\ Appending(b) = {f}
                           /\ n = size[b] + 1 /\ size[b] \in Slots /\ Length(b) = size[b]
  BY Zenon, <1>0, Executed
<1>2. /\ UNCHANGED <<size, capacity, index, current, start, next, spc, state, alarm, push, freed>>
      /\ arr' = [arr EXCEPT ![b] = push[f].copy]
      /\ tpc' = [tpc EXCEPT ![f] = "fill"]
  BY Zenon, <1>1 DEF reserve_replace
<1>3. /\ arr' \in [CoreIds -> Arrays] /\ arr'[b] = push[f].copy
      /\ \A d \in CoreIds \ {b} : arr'[d] = arr[d]
  BY Zenon, <1>1, <1>2 DEF Inductive, SchedulerTypeOK
<1>4. \A u \in Threads : push'[u] = push[u]
  BY Zenon, <1>2
<1>5. push' \in [Threads -> PushRecords] /\ capacity' \in [CoreIds -> Nat]
  BY Zenon, <1>2 DEF Inductive, SchedulerTypeOK
<1>6. tpc'[f] = "fill" /\ \A u \in Threads \ {f} : tpc'[u] = tpc[u]
  BY Zenon, <1>2 DEF Inductive, SchedulerTypeOK
<1>7. exclusive' => \A d \in CoreIds, j \in Slots : j < Length(d) => arr'[d][j] = arr[d][j]
  <2> SUFFICES ASSUME exclusive', NEW j \in Slots, j < Length(b)
               PROVE  push[f].copy[j] = arr[b][j]
    BY Zenon, <1>3
  <2> QED BY Zenon, <1>0, <1>1 DEF Behind
<1>8. /\ SchedulerTypeOK' /\ Pushes' /\ Room' /\ Looping'
      /\ \A u \in Threads : Fresh(u)' <=> Fresh(u)
      /\ \A d \in CoreIds : /\ Appenders(d)' = Appenders(d)
                            /\ Appending(d)' = Appending(d) /\ Length(d)' = Length(d)
      /\ exclusive' => Distinct' /\ Gone' /\ Waits'
  BY Zenon, <1>0, <1>2, <1>3, <1>4, <1>5, <1>7, AppendStep
<1>10. Growth'
  <2> SUFFICES ASSUME intact' PROVE Filled'
    BY Zenon DEF Growth, Recorded
  <2>1. Filled /\ Appenders(b) = {f}
    BY Zenon, <1>0, <1>1 DEF Recorded, Inductive, Growth, GrowsAlone
  <2>2. ASSUME NEW d \in CoreIds, NEW j \in Slots, j < size[d] PROVE arr'[d][j] # None
    <3>1. CASE d = b
      <4>1. push[f].copy[j] # None
        BY Zenon, <1>0, <1>1, <2>1, <2>2, <3>1 DEF Filled
      <4> QED BY Zenon, <1>3, <3>1, <4>1
    <3>2. CASE d # b
      BY Zenon, <1>3, <2>1, <2>2, <3>2 DEF Filled
    <3> QED BY Zenon, <3>1, <3>2
  <2>3. ASSUME NEW u \in Threads, tpc'[u] = "size" \/ tpc'[u] = "replace"
        PROVE  tpc'[u] = tpc[u] /\ push[u].core \in CoreIds \ {b}
    <3>1. u # f /\ tpc'[u] = tpc[u]
      BY <1>6, <2>3
    <3>2. push[u].thread # None
      BY Zenon, <2>3, <3>1 DEF Inductive, Pushes, Appends
    <3>3. push[u].core # b
      BY Zenon, <2>1, <3>1, <3>2 DEF Appenders
    <3>4. push[u].core \in CoreIds
      BY DEF Inductive, SchedulerTypeOK, PushRecords
    <3> QED BY Zenon, <3>1, <3>3, <3>4
  <2>4. ASSUME NEW u \in Threads, NEW j \in Slots, tpc'[u] = "size", j < push[u].count
        PROVE  arr'[push[u].core][j] # None
    <3>1. tpc[u] = "size" /\ arr'[push[u].core] = arr[push[u].core]
      BY Zenon, <1>3, <2>3, <2>4
    <3> QED BY Zenon, <2>1, <2>4, <3>1 DEF Filled
  <2>5. ASSUME NEW u \in Threads, NEW j \in Slots, tpc'[u] = "replace", j < size[push[u].core]
        PROVE  push[u].copy[j] # None
    BY Zenon, <2>1, <2>3, <2>5 DEF Filled
  <2> QED BY Zenon, <1>2, <2>2, <2>4, <2>5 DEF Filled
<1>11. Homes'
  <2>1. ASSUME NEW d \in CoreIds, NEW u \in Threads, Knows(d, u)' PROVE Knows(d, u)
    <3>1. (\E j \in Slots : arr'[d][j] = u) => Knows(d, u)
      <4> SUFFICES ASSUME NEW j \in Slots, arr'[d][j] = u PROVE Knows(d, u)
        BY Zenon
      <4>1. CASE d = b
        <5>1. push[f].copy[j] = u
          BY Zenon, <1>3, <4>1
        <5> QED BY Zenon, <1>1, <4>1, <5>1 DEF Knows
      <4>2. CASE d # b
        BY Zenon, <1>3, <4>2 DEF Knows
      <4> QED BY Zenon, <4>1, <4>2
    <3> QED BY Zenon, <1>2, <1>4, <1>8, <2>1, <3>1 DEF Knows
  <2> QED BY Zenon, <1>8, <2>1 DEF Inductive, Homes
<1>12. ASSUME exclusive' PROVE Behind'
  <2> SUFFICES ASSUME NEW d \in CoreIds, NEW u \in Appending(d)
               PROVE  /\ push[u].count = size[d] + 1
                      /\ tpc'[u] = "size" => arr'[d][size[d]] = push[u].thread
                      /\ tpc'[u] = "replace" => \A i \in Slots : i < size[d] =>
                             push[u].copy[i] = arr'[d][i]
    BY <1>2, <1>8 DEF Behind
  <2>1. CASE u = f
    <3>1. d = b
      BY Zenon, <1>1, <2>1 DEF Appending, Appenders
    <3> QED BY Zenon, <1>1, <1>6, <1>12, <2>1, <3>1
  <2>2. CASE u # f
    <3>1. tpc'[u] = tpc[u] /\ d # b
      BY Zenon, <1>1, <1>6, <1>12, <2>2 DEF Appending, Appenders
    <3> QED BY <1>1, <1>3, <1>12, <3>1 DEF Behind
  <2> QED BY Zenon, <2>1, <2>2
<1> QED BY Zenon, <1>8, <1>10, <1>11, <1>12 DEF Inductive, Exclusion, Recorded

(* The new thread goes behind the last one.                                *)
LEMMA FillStep ==
    ASSUME SchedulerAssumption, Inductive, Recorded, NEW c \in CoreIds, NEW f \in Threads,
           start_thread_fill(c, f)
    PROVE  Inductive'
<1>0. Executes(c, f) /\ tpc[f] = "fill" /\ tpc[f] \in Appends /\ "size" \in Appends
  BY Zenon DEF start_thread_fill, Appends
<1>1. PICK t \in Threads, b \in CoreIds, n \in 1 .. Cap :
          /\ push[f].thread = t /\ push[f].core = b /\ push[f].count = n
          /\ f \in Appenders(b) /\ t # None /\ push[f].copy \in Arrays /\ size[b] \in Nat
          /\ exclusive' => /\ OneAtATime /\ Distinct /\ Gone /\ Waits /\ Behind
                           /\ f \in Appending(b) /\ spc[b] # "erase" /\ Appending(b) = {f}
                           /\ n = size[b] + 1 /\ size[b] \in Slots /\ Length(b) = size[b]
  BY Zenon, <1>0, Executed
<1>2. /\ UNCHANGED <<size, capacity, index, current, start, next, spc, state, alarm, push, freed>>
      /\ arr' = [arr EXCEPT ![b] = Fill(b, n, t)]
      /\ tpc' = [tpc EXCEPT ![f] = "size"]
  BY Zenon, <1>1 DEF start_thread_fill
<1>3. /\ arr' \in [CoreIds -> Arrays] /\ \A d \in CoreIds \ {b} : arr'[d] = arr[d]
      /\ \A j \in Slots : arr'[b][j] = IF size[b] <= j /\ j < n THEN t ELSE arr[b][j]
  <2>1. arr \in [CoreIds -> Arrays] /\ arr[b] \in Arrays
    BY Zenon DEF Inductive, SchedulerTypeOK
  <2>2. /\ Fill(b, n, t) \in Arrays
        /\ \A j \in Slots : Fill(b, n, t)[j] = IF size[b] <= j /\ j < n THEN t ELSE arr[b][j]
    BY Zenon, <2>1 DEF Fill, Arrays
  <2>3. arr' \in [CoreIds -> Arrays] /\ arr'[b] = Fill(b, n, t)
        /\ \A d \in CoreIds \ {b} : arr'[d] = arr[d]
    BY Zenon, <1>2, <2>1, <2>2
  <2> QED BY Zenon, <2>2, <2>3
<1>4. \A u \in Threads : push'[u] = push[u]
  BY Zenon, <1>2
<1>5. push' \in [Threads -> PushRecords] /\ capacity' \in [CoreIds -> Nat]
  BY Zenon, <1>2 DEF Inductive, SchedulerTypeOK
<1>6. tpc'[f] = "size" /\ \A u \in Threads \ {f} : tpc'[u] = tpc[u]
  BY Zenon, <1>2 DEF Inductive, SchedulerTypeOK
<1>7. exclusive' => \A d \in CoreIds, j \in Slots : j < Length(d) => arr'[d][j] = arr[d][j]
  <2> SUFFICES ASSUME exclusive', NEW j \in Slots, j < size[b] PROVE ~(size[b] <= j)
    BY Zenon, <1>1, <1>3
  <2> QED BY <1>1 DEF Slots
<1>8. /\ SchedulerTypeOK' /\ Pushes' /\ Room' /\ Looping'
      /\ \A u \in Threads : Fresh(u)' <=> Fresh(u)
      /\ \A d \in CoreIds : /\ Appenders(d)' = Appenders(d)
                            /\ Appending(d)' = Appending(d) /\ Length(d)' = Length(d)
      /\ exclusive' => Distinct' /\ Gone' /\ Waits'
  BY Zenon, <1>0, <1>2, <1>3, <1>4, <1>5, <1>7, AppendStep
<1>10. Growth'
  <2> SUFFICES ASSUME intact' PROVE Filled'
    BY Zenon DEF Growth, Recorded
  <2>1. Filled
    BY Zenon DEF Recorded, Inductive, Growth
  <2>2. \A d \in CoreIds, j \in Slots : arr[d][j] # None => arr'[d][j] # None
    BY Zenon, <1>1, <1>3
  <2>3. \A j \in Slots : j < n => arr'[b][j] # None
    <3> SUFFICES ASSUME NEW j \in Slots, j < n, ~(size[b] <= j) PROVE arr[b][j] # None
      BY Zenon, <1>1, <1>3
    <3>1. j < size[b]
      BY <1>1 DEF Slots
    <3> QED BY Zenon, <2>1, <3>1 DEF Filled
  <2>4. ASSUME NEW u \in Threads, NEW j \in Slots, tpc'[u] = "size", j < push[u].count
        PROVE  arr'[push[u].core][j] # None
    <3>1. CASE u = f
      BY Zenon, <1>1, <2>3, <2>4, <3>1
    <3>2. CASE u # f
      <4>1. push[u].core \in CoreIds
        BY DEF Inductive, SchedulerTypeOK, PushRecords
      <4>2. arr[push[u].core][j] # None
        BY Zenon, <1>6, <2>1, <2>4, <3>2 DEF Filled
      <4> QED BY Zenon, <2>2, <4>1, <4>2
    <3> QED BY Zenon, <3>1, <3>2
  <2>5. ASSUME NEW u \in Threads, NEW j \in Slots, tpc'[u] = "replace", j < size[push[u].core]
        PROVE  push[u].copy[j] # None
    <3>1. u # f
      BY <1>6, <2>5
    <3> QED BY Zenon, <1>6, <2>1, <2>5, <3>1 DEF Filled
  <2> QED BY Zenon, <1>2, <2>1, <2>2, <2>4, <2>5 DEF Filled
<1>11. Homes'
  <2>1. ASSUME NEW d \in CoreIds, NEW u \in Threads, Knows(d, u)' PROVE Knows(d, u)
    <3>1. (\E j \in Slots : arr'[d][j] = u) => Knows(d, u)
      <4> SUFFICES ASSUME NEW j \in Slots, arr'[d][j] = u PROVE Knows(d, u)
        BY Zenon
      <4>1. arr[d][j] = u \/ (d = b /\ u = t)
        BY Zenon, <1>3
      <4> QED BY Zenon, <1>1, <4>1 DEF Knows
    <3> QED BY Zenon, <1>2, <1>4, <1>8, <2>1, <3>1 DEF Knows
  <2> QED BY Zenon, <1>8, <2>1 DEF Inductive, Homes
<1>12. ASSUME exclusive' PROVE Behind'
  <2> SUFFICES ASSUME NEW d \in CoreIds, NEW u \in Appending(d)
               PROVE  /\ push[u].count = size[d] + 1
                      /\ tpc'[u] = "size" => arr'[d][size[d]] = push[u].thread
                      /\ tpc'[u] = "replace" => \A i \in Slots : i < size[d] =>
                             push[u].copy[i] = arr'[d][i]
    BY <1>2, <1>8 DEF Behind
  <2>1. CASE u = f
    <3>1. d = b
      BY Zenon, <1>1, <2>1 DEF Appending, Appenders
    <3>2. size[b] <= size[b] /\ size[b] < n
      BY <1>1, <1>12
    <3> QED BY Zenon, <1>1, <1>3, <1>6, <1>12, <2>1, <3>1, <3>2
  <2>2. CASE u # f
    <3>1. tpc'[u] = tpc[u] /\ d # b
      BY Zenon, <1>1, <1>6, <1>12, <2>2 DEF Appending, Appenders
    <3>2. arr'[d] = arr[d]
      BY Zenon, <1>3, <3>1
    <3>3. /\ push[u].count = size[d] + 1
          /\ tpc[u] = "size" => arr[d][size[d]] = push[u].thread
          /\ tpc[u] = "replace" => \A i \in Slots : i < size[d] =>
                 push[u].copy[i] = arr[d][i]
      BY Zenon, <1>1, <1>12 DEF Behind
    <3> QED BY Zenon, <3>1, <3>2, <3>3
  <2> QED BY Zenon, <2>1, <2>2
<1> QED BY Zenon, <1>8, <1>10, <1>11, <1>12 DEF Inductive, Exclusion, Recorded

(* The size becomes what fork() computed: the new thread begins.           *)
LEMMA SizeStep ==
    ASSUME SchedulerAssumption, Inductive, Recorded, NEW c \in CoreIds, NEW f \in Threads,
           start_thread_size(c, f)
    PROVE  Inductive'
<1>0. Executes(c, f) /\ tpc[f] = "size" /\ tpc[f] \in Appends /\ tpc[f] # "new"
  BY Zenon DEF start_thread_size, Appends
<1>1. PICK t \in Threads, b \in CoreIds, n \in 1 .. Cap :
          /\ push[f].thread = t /\ push[f].core = b /\ push[f].count = n
          /\ f \in Appenders(b) /\ t # None /\ push[f].copy \in Arrays /\ size[b] \in Nat
          /\ exclusive' => /\ OneAtATime /\ Distinct /\ Gone /\ Waits /\ Behind
                           /\ f \in Appending(b) /\ spc[b] # "erase" /\ Appending(b) = {f}
                           /\ n = size[b] + 1 /\ size[b] \in Slots /\ Length(b) = size[b]
  BY Zenon, <1>0, Executed
<1>2. /\ UNCHANGED <<arr, capacity, index, current, start, next, spc, state, alarm, freed>>
      /\ size' = [size EXCEPT ![b] = n]
      /\ tpc' = [tpc EXCEPT ![f] = "run", ![t] = "run"]
      /\ push' = [push EXCEPT ![f] = NoPush]
  BY Zenon, <1>1 DEF start_thread_size
<1>3. tpc[t] = "new" /\ t # f /\ t # None /\ \A g \in Threads \ {f} : push[g].thread # t
  BY Zenon, <1>0, <1>1 DEF Inductive, Pushes, SchedulerAssumption
<1>4. /\ tpc'[f] = "run" /\ tpc'[t] = "run" /\ \A u \in Threads \ {f, t} : tpc'[u] = tpc[u]
      /\ push'[f] = NoPush /\ \A u \in Threads \ {f} : push'[u] = push[u]
      /\ size'[b] = n /\ \A d \in CoreIds \ {b} : size'[d] = size[d]
  BY Zenon, <1>2 DEF Inductive, SchedulerTypeOK
<1>5. SchedulerTypeOK'
  <2>1. size' \in [CoreIds -> 0 .. Cap]
    BY <1>2, Capacity DEF Inductive, SchedulerTypeOK
  <2>3. push' \in [Threads -> PushRecords]
    BY Zenon, <1>2, NothingPushed DEF Inductive, SchedulerTypeOK
  <2>4. tpc' \in [Threads -> Points]
    BY Zenon, <1>2 DEF Inductive, SchedulerTypeOK, Points
  <2> QED BY Zenon, <1>2, <2>1, <2>3, <2>4 DEF Inductive, SchedulerTypeOK, Recorded
<1>6. \A u \in Threads : Fresh(u)' <=> Fresh(u)
  <2> SUFFICES ASSUME NEW u \in Threads PROVE Fresh(u)' <=> Fresh(u)
    BY Zenon
  <2>1. CASE u = f \/ u = t
    BY Zenon, <1>0, <1>1, <1>4, <2>1 DEF Fresh
  <2>2. CASE u # f /\ u # t
    <3>1. push'[f].thread # u /\ push[f].thread # u
      <4>1. push'[f].thread = None /\ u # None
        BY Zenon, <1>4, NothingPushed DEF SchedulerAssumption
      <4> QED BY Zenon, <1>1, <2>2, <4>1
    <3> QED BY Zenon, <1>4, <2>2, <3>1 DEF Fresh
  <2> QED BY Zenon, <2>1, <2>2
<1>7. Started' = Started
  BY Zenon, <1>6 DEF Started
<1>8. Pushes'
  <2> SUFFICES ASSUME NEW u \in Threads
               PROVE  /\ tpc'[u] \in Appends <=> push'[u].thread # None
                      /\ push'[u].thread # None =>
                           /\ tpc'[push'[u].thread] = "new" /\ push'[u].count > 0
                           /\ \A g \in Threads : push'[g].thread = push'[u].thread => g = u
    BY Zenon DEF Pushes
  <2>0. push'[f].thread = None
    BY Zenon, <1>4, NothingPushed
  <2>1. CASE u = f
    BY Zenon, <1>4, <2>0, <2>1 DEF Appends
  <2>2. CASE u # f
    <3>1. push'[u] = push[u] /\ (tpc'[u] \in Appends <=> tpc[u] \in Appends)
      <4>1. "run" \notin Appends /\ "new" \notin Appends
        BY Zenon DEF Appends
      <4> QED BY Zenon, <1>3, <1>4, <2>2, <4>1
    <3>2. ASSUME push[u].thread # None
          PROVE  /\ tpc'[push[u].thread] = "new" /\ push[u].count > 0
                 /\ \A g \in Threads : push'[g].thread = push[u].thread => g = u
      <4>1. push[u].thread \in Threads /\ push[u].thread # t
        BY <1>3, <2>2, <3>2 DEF Inductive, SchedulerTypeOK, PushRecords
      <4>2. tpc[push[u].thread] = "new" /\ push[u].count > 0
            /\ \A g \in Threads : push[g].thread = push[u].thread => g = u
        BY Zenon, <3>2 DEF Inductive, Pushes
      <4>3. push[u].thread # f
        BY Zenon, <1>0, <4>2
      <4> QED BY Zenon, <1>4, <2>0, <3>2, <4>1, <4>2, <4>3
    <3> QED BY Zenon, <3>1, <3>2 DEF Inductive, Pushes
  <2> QED BY Zenon, <2>1, <2>2
<1>9. Room'
  <2>1. n <= Cardinality(Started) /\ 0 <= Cardinality(Started)
    BY <1>1, Capacity DEF Inductive, Room
  <2>2. \A d \in CoreIds : size'[d] <= Cardinality(Started)
    BY Zenon, <1>4, <2>1 DEF Inductive, Room
  <2>3. \A u \in Threads : push'[u].count <= Cardinality(Started)
    BY Zenon, <1>4, <2>1, NothingPushed DEF Inductive, Room
  <2> QED BY Zenon, <1>7, <2>2, <2>3 DEF Room
<1>10. Looping' /\ Growth'
  <2>1. Looping'
    <3>1. \A d \in CoreIds : spc[d] \in {"pick", "erase"} => size'[d] > 0
      BY <1>4 DEF Inductive, Looping
    <3> QED BY Zenon, <1>2, <3>1 DEF Inductive, Looping
  <2>2. ASSUME intact' PROVE Filled'
    <3>1. GrowsAlone /\ Filled
      BY Zenon, <2>2 DEF Recorded, Inductive, Growth
    <3>2. \A j \in Slots : j < n => arr[b][j] # None
      BY Zenon, <1>0, <1>1, <3>1 DEF Filled
    <3>3. \A d \in CoreIds, j \in Slots : j < size'[d] => arr[d][j] # None
      BY Zenon, <1>4, <3>1, <3>2 DEF Filled
    <3>4. ASSUME NEW u \in Threads, tpc'[u] = "size" \/ tpc'[u] = "replace"
          PROVE  tpc'[u] = tpc[u] /\ push'[u] = push[u] /\ u # f
      BY <1>4, <3>4
    <3>5. ASSUME NEW u \in Threads, NEW j \in Slots, tpc'[u] = "size", j < push'[u].count
          PROVE  arr[push'[u].core][j] # None
      BY Zenon, <3>1, <3>4, <3>5 DEF Filled
    <3>6. ASSUME NEW u \in Threads, NEW j \in Slots, tpc'[u] = "replace", j < size'[push'[u].core]
          PROVE  push'[u].copy[j] # None
      <4>1. tpc[u] = "replace" /\ push'[u] = push[u] /\ u # f
        BY Zenon, <3>4, <3>6
      <4>2. push[u].thread # None
        BY Zenon, <4>1 DEF Inductive, Pushes, Appends
      <4>3. push[u].core \in CoreIds
        BY DEF Inductive, SchedulerTypeOK, PushRecords
      <4>4. u \in Appenders(push[u].core)
        BY Zenon, <4>2 DEF Appenders
      <4>5. Appenders(push[u].core) = {u}
        BY Zenon, <3>1, <4>1, <4>3, <4>4 DEF GrowsAlone
      <4>6. push[u].core # b
        BY Zenon, <1>1, <4>1, <4>5
      <4>7. size'[push[u].core] = size[push[u].core]
        BY Zenon, <1>4, <4>3, <4>6
      <4>8. j < size[push[u].core]
        BY Zenon, <3>6, <4>1, <4>7
      <4>9. push[u].copy[j] # None
        BY Zenon, <3>1, <4>1, <4>8 DEF Filled
      <4> QED BY Zenon, <4>1, <4>9
    <3> QED BY Zenon, <1>2, <3>3, <3>5, <3>6 DEF Filled
  <2> QED BY Zenon, <2>1, <2>2 DEF Growth, Recorded
<1>11. Homes'
  <2>1. ASSUME NEW d \in CoreIds, NEW u \in Threads, Knows(d, u)' PROVE Knows(d, u)
    <3>1. \A g \in Appenders(d)' : g \in Appenders(d) /\ push'[g] = push[g]
      BY Zenon, <1>4, NothingPushed DEF Appenders
    <3> QED BY Zenon, <1>2, <2>1, <3>1 DEF Knows
  <2> QED BY Zenon, <1>6, <2>1 DEF Inductive, Homes
<1>12. ASSUME exclusive' PROVE Distinct' /\ Gone' /\ Waits' /\ Behind'
  <2>0. OneAtATime /\ Distinct /\ Gone /\ Waits /\ Behind
    BY Zenon, <1>1, <1>12
  <2>3. spc[b] # "erase" /\ Appending(b) = {f} /\ size[b] \in Slots /\ Length(b) = size[b]
    BY Zenon, <1>1, <1>12
  <2>4. n = size[b] + 1 /\ arr[b][size[b]] = t /\ size[b] \in Nat
    BY Zenon, <1>0, <1>1, <1>12 DEF Behind
  <2>5. Length(b) = size[b] /\ Length(b)' = size[b] + 1
        /\ \A d \in CoreIds \ {b} : Length(d)' = Length(d)
    <3>1. size'[b] = size[b] + 1 /\ spc' = spc
      BY Zenon, <1>2, <1>4, <2>4
    <3> QED BY Zenon, <1>4, <2>3, <3>1 DEF Length
  <2>6. size[b] \in Slots /\ \A j \in Slots : j < size[b] + 1 <=> j < size[b] \/ j = size[b]
    BY <2>3, <2>4 DEF Slots
  <2>7. \A u \in Threads : Live(b, u)' <=> Live(b, u) \/ u = t
    BY Zenon, <1>2, <2>4, <2>5, <2>6 DEF Live
  <2>8. \A d \in CoreIds \ {b}, u \in Threads : Live(d, u)' <=> Live(d, u)
    BY Zenon, <1>2, <2>5 DEF Live
  <2>9. ~Live(b, t)
    BY Zenon, <1>3, <2>0 DEF Waits
  <2>10. Distinct'
    <3> SUFFICES ASSUME NEW d \in CoreIds, NEW j \in Slots, NEW k \in Slots, j < k, k < Length(d)'
                 PROVE  arr[d][j] # arr[d][k]
      BY Zenon, <1>2 DEF Distinct
    <3>1. CASE d # b
      BY Zenon, <2>0, <2>5, <3>1 DEF Distinct
    <3>2. CASE d = b /\ k < size[b]
      BY Zenon, <2>0, <2>5, <3>2 DEF Distinct
    <3>3. CASE d = b /\ k = size[b]
      BY Zenon, <2>4, <2>5, <2>9, <3>3 DEF Live
    <3> QED BY Zenon, <2>5, <2>6, <3>1, <3>2, <3>3
  <2>11. freed[t] \in Nat /\ ~(freed[t] > 0)
    BY Zenon, <1>3, <2>0 DEF Gone, Inductive, SchedulerTypeOK
  <2>12. Gone'
    <3> SUFFICES ASSUME NEW u \in Threads, freed[u] > 0
                 PROVE  /\ freed[u] = 1 /\ tpc'[u] # "new"
                        /\ \A d \in CoreIds : u # current[d] /\ u # next[d] /\ ~Live(d, u)'
      BY Zenon, <1>2 DEF Gone
    <3>1. u # t
      BY Zenon, <2>11
    <3>2. \A d \in CoreIds : ~Live(d, u)'
      BY Zenon, <2>0, <2>7, <2>8, <3>1 DEF Gone
    <3> QED BY Zenon, <1>4, <2>0, <3>1, <3>2 DEF Gone
  <2>13. Waits'
    <3> SUFFICES ASSUME NEW u \in Threads, NEW d \in CoreIds, tpc'[u] = "new" PROVE ~Live(d, u)'
      BY Zenon DEF Waits
    <3>1. u # t /\ u # f /\ tpc[u] = "new"
      BY Zenon, <1>4
    <3> QED BY Zenon, <2>0, <2>7, <2>8, <3>1 DEF Waits
  <2>14. Behind'
    <3> SUFFICES ASSUME NEW d \in CoreIds, NEW u \in Appending(d)'
                 PROVE  /\ push'[u].count = size'[d] + 1
                        /\ tpc'[u] = "size" => arr[d][size'[d]] = push'[u].thread
                        /\ tpc'[u] = "replace" => \A i \in Slots : i < size'[d] =>
                               push'[u].copy[i] = arr[d][i]
      <4>1. arr' = arr
        BY Zenon, <1>2
      <4> QED BY Zenon, <4>1 DEF Behind
    <3>1. u # f /\ u \in Threads
      BY Zenon, <1>4, NothingPushed DEF Appending, Appenders
    <3>2. push'[u] = push[u] /\ u \in Appending(d)
      BY Zenon, <1>2, <1>4, <3>1 DEF Appending, Appenders
    <3>3. d # b
      BY Zenon, <2>3, <3>1, <3>2
    <3>4. size'[d] = size[d] /\ tpc[u] \in Appends
      BY Zenon, <1>4, <3>2, <3>3, <3>1 DEF Appending, Appenders, Inductive, Pushes
    <3>5. tpc'[u] = tpc[u]
      BY Zenon, <1>3, <1>4, <3>1, <3>4 DEF Appends
    <3> QED BY <2>0, <3>2, <3>4, <3>5 DEF Behind
  <2> QED BY Zenon, <2>10, <2>12, <2>13, <2>14
<1> QED BY Zenon, <1>5, <1>8, <1>9, <1>10, <1>11, <1>12 DEF Inductive, Exclusion, Recorded

(* Every step keeps it.                                                    *)
LEMMA InductiveHolds == ASSUME SchedulerAssumption PROVE SchedulerSpec => []Inductive
<1>1. Inductive /\ [SchedulerNext]_schedulerVars => Inductive'
  <2> SUFFICES ASSUME Inductive, [SchedulerNext]_schedulerVars PROVE Inductive'
    BY Zenon
  <2>1. CASE SchedulerNext
    <3>1. /\ SchedulerStep /\ exclusive' = (exclusive /\ OneAtATime')
          /\ intact' = (intact /\ GrowsAlone')
      BY Zenon, <2>1 DEF SchedulerNext, Watched
    <3>2. Recorded
      BY Zenon, <3>1 DEF Recorded
    <3>3. ASSUME NEW c \in CoreIds, pick_next(c) PROVE Inductive'
      BY Zenon, <3>2, <3>3, PickStep, EraseStep
    <3>4. ASSUME NEW c \in CoreIds, Tick(c) \/ device_interrupt(c) PROVE Inductive'
      BY Zenon, <3>2, <3>3, <3>4, TickStep, ErasedStep DEF Tick
    <3>5. ASSUME NEW c \in CoreIds, NEW t \in Threads, Thread(c, t) PROVE Inductive'
      BY Zenon, <3>2, <3>5, ThreadStep, StartStep, ReserveStep, ReplaceStep,
         FillStep, SizeStep DEF Thread
    <3>6. ASSUME NEW t \in Threads, resume(t) \/ terminate(t) PROVE Inductive'
      <4>1. 0 \in CoreIds
        BY DEF CoreIds, SchedulerAssumption
      <4> QED BY Zenon, <3>2, <3>6, <4>1, ThreadStep
    <3> QED BY Zenon, <3>1, <3>4, <3>5, <3>6 DEF SchedulerStep
  <2>2. CASE UNCHANGED schedulerVars
    <3>1. /\ \A c \in CoreIds : /\ Appending(c)' = Appending(c) /\ Length(c)' = Length(c)
                                /\ Appenders(c)' = Appenders(c)
          /\ \A t \in Threads : Fresh(t)' <=> Fresh(t)
          /\ \A t \in Threads, c \in CoreIds : /\ Live(c, t)' <=> Live(c, t)
                                               /\ Knows(c, t)' <=> Knows(c, t)
          /\ Started' = Started
      BY Zenon, <2>2 DEF schedulerVars, Appending, Appenders, Length, Fresh, Live, Knows, Started
    <3>2. SchedulerTypeOK' /\ Pushes' /\ Room'
      <4>1. SchedulerTypeOK'
        BY Zenon, <2>2 DEF schedulerVars, Inductive, SchedulerTypeOK
      <4>2. Pushes' /\ Room'
        BY Zenon, <2>2, <3>1 DEF schedulerVars, Inductive, Pushes, Room
      <4> QED BY Zenon, <4>1, <4>2
    <3>3. Looping' /\ Growth' /\ Homes'
      <4>1. Looping' /\ Homes'
        BY Zenon, <2>2, <3>1 DEF schedulerVars, Inductive, Looping, Homes
      <4>2. (GrowsAlone => GrowsAlone') /\ (Filled => Filled')
        BY Zenon, <2>2, <3>1 DEF schedulerVars, GrowsAlone, Filled
      <4> QED BY Zenon, <2>2, <4>1, <4>2 DEF schedulerVars, Inductive, Growth
    <3>4. (OneAtATime => OneAtATime') /\ (Distinct => Distinct')
      <4>1. OneAtATime => OneAtATime'
        BY Zenon, <2>2, <3>1 DEF schedulerVars, OneAtATime
      <4>2. Distinct => Distinct'
        BY Zenon, <2>2, <3>1 DEF schedulerVars, Distinct
      <4> QED BY Zenon, <4>1, <4>2
    <3>5. (Gone => Gone') /\ (Waits => Waits')
      <4>1. Gone => Gone'
        BY Zenon, <2>2, <3>1 DEF schedulerVars, Gone
      <4>2. Waits => Waits'
        BY Zenon, <2>2, <3>1 DEF schedulerVars, Waits
      <4> QED BY Zenon, <4>1, <4>2
    <3>6. Behind => Behind'
      BY Zenon, <2>2, <3>1 DEF schedulerVars, Behind
    <3>7. Exclusion'
      BY Zenon, <2>2, <3>4, <3>5, <3>6 DEF schedulerVars, Inductive, Exclusion
    <3> QED BY Zenon, <3>2, <3>3, <3>7 DEF Inductive
  <2> QED BY <2>1, <2>2
<1> QED BY <1>1, InitInductive, PTL DEF SchedulerSpec

(* On any number of cores, whatever threads are forked, terminated, put to *)
(* sleep and woken, however the changes of the vectors interleave and      *)
(* however a vector grows: as long as nobody appends to, erases from or    *)
(* reads a vector whose array reserve() is replacing, no slot that         *)
(* pick_next() looks at is empty and no two cores execute the same thread  *)
(* (processes/CoreScheduler.cpp, libk/kvector.hpp).                        *)
THEOREM QueuesStaySound == ASSUME SchedulerAssumption PROVE SchedulerSpec => []QueuesSound
<1>1. Inductive => QueuesSound
  <2> SUFFICES ASSUME Inductive PROVE QueuesSound
    BY Zenon
  <2>1. OneCorePerThread
    BY Zenon DEF OneCorePerThread, Inductive, Homes, Knows
  <2> QED BY Zenon, <2>1 DEF QueuesSound, Inductive, Growth, Filled, SlotsFilled
<1> QED BY <1>1, InductiveHolds, PTL

(* If the appends of fork(), the replacement of a full array included, and *)
(* the erasures of pick_next() exclude each other vector by vector, a      *)
(* kernel stack is freed once, and afterwards no core executes on it, is   *)
(* about to or finds its thread in a queue.                                *)
THEOREM FreedStacksStayUnused ==
    ASSUME SchedulerAssumption PROVE SchedulerSpec => []StackFreedUnused
<1>1. Inductive => StackFreedUnused
  <2> SUFFICES ASSUME Inductive, exclusive, NEW t \in Threads, freed[t] > 0
               PROVE  /\ freed[t] = 1
                      /\ \A c \in CoreIds : t # current[c] /\ t # next[c]
                      /\ \A c \in CoreIds : t \in Queue(c) => spc[c] = "erase"
    BY Zenon DEF StackFreedUnused, NoFreedStackInUse
  <2>1. /\ freed[t] = 1
        /\ \A c \in CoreIds : t # current[c] /\ t # next[c] /\ ~Live(c, t)
    BY Zenon DEF Inductive, Exclusion, Gone
  <2>2. ASSUME NEW c \in CoreIds, t \in Queue(c), spc[c] # "erase" PROVE FALSE
    BY Zenon, <2>1, <2>2 DEF Queue, Live, Length
  <2> QED BY <2>1, <2>2
<1> QED BY <1>1, InductiveHolds, PTL
=============================================================================
