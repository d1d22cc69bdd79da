---------------------------- MODULE LockingProofs ----------------------------
(***************************************************************************)
(* Proofs about the modules Spinlock and Mutex.                            *)
(*                                                                         *)
(* Spinlocks, for every set of cores, number of locks and bound on         *)
(* nesting.  The inductive invariant says, besides the type, that the flag *)
(* of a lock is set exactly while one context owns the lock, that only the *)
(* context on top of a core's stack can be in a critical section, and that *)
(* m_in_critical counts that context's sections.                           *)
(*                                                                         *)
(* The spinlock under a mutex, for every set of threads, boot contexts and *)
(* cores.  The invariant ties the section to who has called lock(): among  *)
(* boot contexts no core polls, among the threads of one core no other     *)
(* core does, so that an inverted try_lock() cannot let two in.            *)
(***************************************************************************)
EXTENDS Spinlock, Mutex, FiniteSetTheorems, TLAPS

(* The flag of a lock is set exactly while the lock has an owner ...       *)
FlagOwned ==
    \A l \in Locks : flag[l] <=> \E c \in Cores : \E d \in Levels : l \in held[c][d]

(* ... and it has one owner only.                                          *)
OneOwner ==
    \A c1, c2 \in Cores : \A d1, d2 \in Levels :
        \A l \in held[c1][d1] : l \in held[c2][d2] => c1 = c2 /\ d1 = d2

(* Contexts other than the running one hold nothing.                       *)
OthersQuiet ==
    \A c \in Cores : \A d \in Levels : d # top[c] => Quiet(c, d)

(* A context that acquires a lock names it and does not own it.            *)
WantSound ==
    \A c \in Cores : \A d \in Levels :
        pc[c][d] \in {"tas", "spin"} =>
            want[c][d] \in Locks /\ want[c][d] \notin held[c][d]

(* The critical-section counter, without the clause on idle cores.         *)
CountSound ==
    \A c \in Cores :
        /\ in_critical[c] = Pending(c, top[c])
        /\ iflag[c] => in_critical[c] = 0

(* A core that runs a handler has its interrupts enabled, and a core out   *)
(* of all critical sections takes them.                                    *)
EnabledSound ==
    \A c \in Cores :
        /\ top[c] > 0 => int_enabled[c]
        /\ int_enabled[c] /\ top[c] = 0 /\ in_critical[c] = 0 => iflag[c]
        /\ iflag[c] => int_enabled[c]

IInv ==
    /\ TypeOK /\ FlagOwned /\ OneOwner /\ OthersQuiet
    /\ WantSound /\ CountSound /\ EnabledSound

(* The cardinality of a set of locks: a natural number, zero only for the  *)
(* empty set, one more or less when a lock is acquired or released.        *)
LEMMA LockCount ==
    ASSUME NEW S \in SUBSET Locks
    PROVE  /\ Cardinality(S) \in Nat
           /\ Cardinality(S) = 0 <=> S = {}
           /\ \A l \in Locks : l \notin S => Cardinality(S \cup {l}) = Cardinality(S) + 1
           /\ \A l \in S : Cardinality(S \ {l}) = Cardinality(S) - 1
  <1>1. IsFiniteSet(Locks)
    BY FS_Interval, SpinlockAssumption DEF Locks
  <1>2. IsFiniteSet(S)
    BY Zenon, <1>1, FS_Subset
  <1>3. Cardinality(S) \in Nat /\ (Cardinality(S) = 0 <=> S = {})
    BY Zenon, <1>2, FS_CardinalityType, FS_EmptySet
  <1>4. \A l \in Locks : l \notin S => Cardinality(S \cup {l}) = Cardinality(S) + 1
    BY Zenon, <1>2, FS_AddElement
  <1>5. \A l \in S : Cardinality(S \ {l}) = Cardinality(S) - 1
    BY Zenon, <1>2, FS_RemoveElement
  <1> QED
    BY Zenon, <1>3, <1>4, <1>5

(* Every initial state of the lock model satisfies the invariant.          *)
LEMMA InitIInv == Init => IInv
  <1> SUFFICES ASSUME Init PROVE IInv
    BY Zenon
  <1> USE SpinlockAssumption
  <1>1. TypeOK
    BY DEF Init, TypeOK, Levels, PCs
  <1>2. FlagOwned /\ OneOwner /\ OthersQuiet /\ WantSound /\ EnabledSound
    BY DEF Init, FlagOwned, OneOwner, OthersQuiet, WantSound, EnabledSound, Quiet
  <1>3. CountSound
    BY FS_EmptySet DEF Init, CountSound, Pending, Levels
  <1> QED
    BY Zenon, <1>1, <1>2, <1>3 DEF IInv

(* Every step preserves the invariant, action by action.                   *)
LEMMA NextIInv == IInv /\ [Next]_vars => IInv'
  <1> SUFFICES ASSUME IInv, [Next]_vars PROVE IInv'
    BY Zenon
  <1> USE SpinlockAssumption DEF IInv
  <1>1. CASE UNCHANGED vars
    BY <1>1 DEF vars, TypeOK, FlagOwned, OneOwner, OthersQuiet, WantSound, CountSound,
                EnabledSound, Pending, Quiet
  <1>2. ASSUME NEW c \in Cores, Step(c) PROVE IInv'
    <2> DEFINE d == top[c]
    <2>0. d \in Levels /\ d \in Nat
      BY DEF TypeOK, Levels
    <2>a. \A S \in SUBSET Locks :
              /\ Cardinality(S) \in Nat
              /\ Cardinality(S) = 0 <=> S = {}
              /\ \A l \in Locks : l \notin S => Cardinality(S \cup {l}) = Cardinality(S) + 1
              /\ \A l \in S : Cardinality(S \ {l}) = Cardinality(S) - 1
      BY Zenon, LockCount
    <2>b. /\ held[c][d] \in SUBSET Locks
          /\ Cardinality(held[c][d]) \in Nat
          /\ explicit[c][d] \in 0 .. MaxCritical
          /\ in_critical[c] \in Nat
      <3>a. held[c] \in [Levels -> SUBSET Locks] /\ explicit[c] \in [Levels -> 0 .. MaxCritical]
        BY Zenon DEF TypeOK
      <3>1. held[c][d] \in SUBSET Locks /\ explicit[c][d] \in 0 .. MaxCritical
        BY Zenon, <3>a, <2>0
      <3>2. in_critical[c] \in Nat
        BY Zenon DEF TypeOK
      <3> QED
        BY Zenon, <3>1, <3>2, <2>a
    <2>c. /\ in_critical[c] = Pending(c, d)
          /\ iflag[c] => in_critical[c] = 0
      BY Zenon DEF CountSound
    <2>d. Cardinality({}) = 0
      BY Zenon, FS_EmptySet
    <2>1. CASE enable_interrupts(c)
      <3>1. TypeOK'
        BY Zenon, <2>1, <2>0, <2>b, <2>c DEF enable_interrupts, At, TypeOK, PCs, Pending
      <3>2. FlagOwned'
        BY Zenon, <2>1, <2>0 DEF enable_interrupts, At, FlagOwned, TypeOK
      <3>3. OneOwner'
        BY Zenon, <2>1, <2>0 DEF enable_interrupts, At, OneOwner, FlagOwned, TypeOK
      <3>4. OthersQuiet'
        BY Zenon, <2>1, <2>0 DEF enable_interrupts, At, OthersQuiet, Quiet, TypeOK
      <3>5. WantSound'
        BY Zenon, <2>1, <2>0 DEF enable_interrupts, At, WantSound, TypeOK, OthersQuiet, Quiet
      <3>6. CountSound'
        BY <2>1, <2>0, <2>a, <2>b, <2>c DEF enable_interrupts, At, CountSound, Pending, TypeOK,
           OthersQuiet, Quiet, WantSound
      <3>7. EnabledSound'
        BY Zenon, <2>1, <2>0, <2>a, <2>b, <2>c DEF enable_interrupts, At, EnabledSound,
           CountSound, Pending, TypeOK
      <3> QED
        BY Zenon, <3>1, <3>2, <3>3, <3>4, <3>5, <3>6, <3>7 DEF IInv
    <2>2. CASE enter_critical(c)
      <3>1. TypeOK'
        BY <2>2, <2>0, <2>b, <2>c DEF enter_critical, EnterCritical, At, TypeOK, PCs, Pending
      <3>2. FlagOwned'
        BY Zenon, <2>2, <2>0 DEF enter_critical, EnterCritical, At, FlagOwned, TypeOK
      <3>3. OneOwner'
        BY Zenon, <2>2, <2>0 DEF enter_critical, EnterCritical, At, OneOwner, FlagOwned, TypeOK
      <3>4. OthersQuiet'
        BY Zenon, <2>2, <2>0 DEF enter_critical, EnterCritical, At, OthersQuiet, Quiet, TypeOK
      <3>5. WantSound'
        BY Zenon, <2>2, <2>0
           DEF enter_critical, EnterCritical, At, WantSound, TypeOK, OthersQuiet, Quiet
      <3>6. CountSound'
        BY <2>2, <2>0, <2>a, <2>b, <2>c DEF enter_critical, EnterCritical, At, CountSound,
           Pending, TypeOK, OthersQuiet, Quiet, WantSound
      <3>7. EnabledSound'
        BY <2>2, <2>0, <2>a, <2>b, <2>c DEF enter_critical, EnterCritical, At, EnabledSound,
           CountSound, Pending, TypeOK
      <3> QED
        BY Zenon, <3>1, <3>2, <3>3, <3>4, <3>5, <3>6, <3>7 DEF IInv
    <2>3. CASE leave_critical(c)
      <3>1. TypeOK'
        BY <2>3, <2>0, <2>b, <2>c DEF leave_critical, LeaveCritical, At, TypeOK, PCs, Pending
      <3>2. FlagOwned'
        BY Zenon, <2>3, <2>0 DEF leave_critical, LeaveCritical, At, FlagOwned, TypeOK
      <3>3. OneOwner'
        BY Zenon, <2>3, <2>0 DEF leave_critical, LeaveCritical, At, OneOwner, FlagOwned, TypeOK
      <3>4. OthersQuiet'
        BY Zenon, <2>3, <2>0 DEF leave_critical, LeaveCritical, At, OthersQuiet, Quiet, TypeOK
      <3>5. WantSound'
        BY Zenon, <2>3, <2>0
           DEF leave_critical, LeaveCritical, At, WantSound, TypeOK, OthersQuiet, Quiet
      <3>6. CountSound'
        BY <2>3, <2>0, <2>a, <2>b, <2>c DEF leave_critical, LeaveCritical, At, CountSound,
           Pending, TypeOK, OthersQuiet, Quiet, WantSound
      <3>7. EnabledSound'
        BY <2>3, <2>0, <2>a, <2>b, <2>c DEF leave_critical, LeaveCritical, At, EnabledSound,
           CountSound, Pending, TypeOK
      <3> QED
        BY Zenon, <3>1, <3>2, <3>3, <3>4, <3>5, <3>6, <3>7 DEF IInv
    <2>4. CASE test_and_set(c)
      <3> DEFINE l == want[c][d]
      <3>0. l \in Locks /\ l \notin held[c][d] /\ pc[c][d] = "tas"
        BY Zenon, <2>4, <2>0 DEF test_and_set, At, WantSound
      <3>1. CASE flag[l]
        <4>0. /\ Goto(c, "spin") /\ UNCHANGED <<want, held>>
              /\ flag' = [flag EXCEPT ![l] = TRUE]
              /\ UNCHANGED <<in_critical, int_enabled, iflag, top, explicit>>
          BY Zenon, <2>4, <3>1 DEF test_and_set
        <4>1. TypeOK'
          BY Zenon, <4>0, <3>0, <3>1, <2>0, <2>b, <2>c DEF Goto, TypeOK, PCs, Pending
        <4>2. FlagOwned'
          BY Zenon, <4>0, <3>0, <3>1, <2>0 DEF Goto, FlagOwned, TypeOK
        <4>3. OneOwner'
          BY Zenon, <4>0, <3>0, <3>1, <2>0 DEF Goto, OneOwner, FlagOwned, TypeOK
        <4>4. OthersQuiet'
          BY <4>0, <3>0, <3>1, <2>0 DEF Goto, OthersQuiet, Quiet, TypeOK
        <4>5. WantSound'
          BY <4>0, <3>0, <3>1, <2>0 DEF Goto, WantSound, TypeOK, OthersQuiet, Quiet
        <4>6. CountSound'
          BY <4>0, <3>0, <3>1, <2>0, <2>a, <2>b, <2>c DEF Goto, CountSound, Pending, TypeOK,
             OthersQuiet, Quiet, WantSound
        <4>7. EnabledSound'
          BY Zenon, <4>0, <3>0, <3>1, <2>0, <2>a, <2>b, <2>c
             DEF Goto, EnabledSound, CountSound, Pending, TypeOK
        <4> QED
          BY Zenon, <4>1, <4>2, <4>3, <4>4, <4>5, <4>6, <4>7 DEF IInv
      <3>2. CASE ~flag[l]
        <4>0. /\ Goto(c, "run") /\ want' = [want EXCEPT ![c][d] = 0] /\ held' = [held EXCEPT ![c][d] = @ \cup {l}]
              /\ flag' = [flag EXCEPT ![l] = TRUE]
              /\ UNCHANGED <<in_critical, int_enabled, iflag, top, explicit>>
          BY Zenon, <2>4, <3>2 DEF test_and_set
        <4>1. TypeOK'
          BY Zenon, <4>0, <3>0, <3>2, <2>0, <2>b, <2>c DEF Goto, TypeOK, PCs, Pending
        <4>2. FlagOwned'
          <5>1. \A x \in Cores : \A e \in Levels :
                    held'[x][e] = IF x = c /\ e = d THEN held[c][d] \cup {l} ELSE held[x][e]
            BY Zenon, <4>0, <2>0 DEF TypeOK
          <5>2. \A m \in Locks : flag'[m] <=> m = l \/ flag[m]
            BY Zenon, <4>0, <3>0 DEF TypeOK
          <5>3. \A m \in Locks : \A x \in Cores : \A e \in Levels :
                    m \in held'[x][e] <=> (x = c /\ e = d /\ m = l) \/ m \in held[x][e]
            BY <5>1
          <5> QED
            BY Zenon, <5>2, <5>3, <2>0 DEF FlagOwned
        <4>3. OneOwner'
          BY <4>0, <3>0, <3>2, <2>0 DEF Goto, OneOwner, FlagOwned, TypeOK
        <4>4. OthersQuiet'
          BY <4>0, <3>0, <3>2, <2>0 DEF Goto, OthersQuiet, Quiet, TypeOK
        <4>5. WantSound'
          BY <4>0, <3>0, <3>2, <2>0 DEF Goto, WantSound, TypeOK, OthersQuiet, Quiet
        <4>6. CountSound'
          <5>1. Cardinality(held[c][d] \cup {l}) = Cardinality(held[c][d]) + 1
            BY Zenon, <3>0, <2>a, <2>b
          <5>2. held'[c][d] = held[c][d] \cup {l} /\ pc'[c][d] = "run"
            BY Zenon, <4>0, <2>0 DEF TypeOK, Goto
          <5>3. Pending(c, d)' = Pending(c, d)
            <6>1. top'[c] = d /\ explicit'[c][d] = explicit[c][d]
              BY Zenon, <4>0
            <6>2. Pending(c, d) = Cardinality(held[c][d]) + explicit[c][d] + 1
              BY Zenon, <3>0 DEF Pending
            <6>3. Pending(c, d)' = Cardinality(held[c][d]) + 1 + explicit[c][d] + 0
              BY Zenon, <6>1, <5>1, <5>2 DEF Pending
            <6> QED
              BY <6>2, <6>3, <2>b
          <5>4. \A x \in Cores : x # c => Pending(x, top[x])' = Pending(x, top[x])
            BY Zenon, <4>0 DEF Pending, Goto, TypeOK
          <5> QED
            BY Zenon, <4>0, <5>3, <5>4 DEF CountSound
        <4>7. EnabledSound'
          BY Zenon, <4>0, <3>0, <3>2, <2>0, <2>a, <2>b, <2>c
             DEF Goto, EnabledSound, CountSound, Pending, TypeOK
        <4> QED
          BY Zenon, <4>1, <4>2, <4>3, <4>4, <4>5, <4>6, <4>7 DEF IInv
      <3> QED
        BY Zenon, <3>1, <3>2
    <2>5. CASE spin(c)
      <3>1. TypeOK'
        BY Zenon, <2>5, <2>0, <2>b, <2>c DEF spin, At, Goto, TypeOK, PCs, Pending
      <3>2. FlagOwned'
        BY Zenon, <2>5, <2>0 DEF spin, At, Goto, FlagOwned, TypeOK
      <3>3. OneOwner'
        BY Zenon, <2>5, <2>0 DEF spin, At, Goto, OneOwner, FlagOwned, TypeOK
      <3>4. OthersQuiet'
        BY <2>5, <2>0 DEF spin, At, Goto, OthersQuiet, Quiet, TypeOK
      <3>5. WantSound'
        BY <2>5, <2>0 DEF spin, At, Goto, WantSound, TypeOK, OthersQuiet, Quiet
      <3>6. CountSound'
        BY <2>5, <2>0, <2>a, <2>b, <2>c DEF spin, At, Goto, CountSound, Pending, TypeOK,
           OthersQuiet, Quiet, WantSound
      <3>7. EnabledSound'
        BY Zenon, <2>5, <2>0, <2>a, <2>b, <2>c
           DEF spin, At, Goto, EnabledSound, CountSound, Pending, TypeOK
      <3> QED
        BY Zenon, <3>1, <3>2, <3>3, <3>4, <3>5, <3>6, <3>7 DEF IInv
    <2>6. CASE unlock_leave(c)
      <3>1. TypeOK'
        BY <2>6, <2>0, <2>b, <2>c DEF unlock_leave, LeaveCritical, At, Goto, TypeOK, PCs, Pending
      <3>2. FlagOwned'
        BY Zenon, <2>6, <2>0 DEF unlock_leave, LeaveCritical, At, Goto, FlagOwned, TypeOK
      <3>3. OneOwner'
        BY <2>6, <2>0 DEF unlock_leave, LeaveCritical, At, Goto, OneOwner, FlagOwned, TypeOK
      <3>4. OthersQuiet'
        BY <2>6, <2>0 DEF unlock_leave, LeaveCritical, At, Goto, OthersQuiet, Quiet, TypeOK
      <3>5. WantSound'
        BY SMTT(30), <2>6, <2>0 DEF unlock_leave, LeaveCritical, At, Goto, WantSound, TypeOK,
           OthersQuiet, Quiet
      <3>6. CountSound'
        BY SMTT(30), <2>6, <2>0, <2>a, <2>b, <2>c DEF unlock_leave, LeaveCritical, At, Goto,
           CountSound, Pending, TypeOK, OthersQuiet, Quiet, WantSound
      <3>7. EnabledSound'
        BY SMTT(30), <2>6, <2>0, <2>a, <2>b, <2>c DEF unlock_leave, LeaveCritical, At, Goto,
           EnabledSound, CountSound, Pending, TypeOK
      <3> QED
        BY Zenon, <3>1, <3>2, <3>3, <3>4, <3>5, <3>6, <3>7 DEF IInv
    <2>7. CASE interrupt(c)
      <3>a. in_critical[c] = 0 /\ Quiet(c, d)
        BY <2>7, <2>a, <2>b, <2>c DEF interrupt, Pending, Quiet
      <3>b. d + 1 \in Levels /\ d + 1 # d
        BY <2>7, <2>0 DEF interrupt, Levels
      <3>c. top' = [top EXCEPT ![c] = d + 1] /\ top'[c] = d + 1
        BY Zenon, <2>7 DEF interrupt, TypeOK
      <3>d. Quiet(c, d + 1) /\ Pending(c, d + 1) = 0
        <4>1. Quiet(c, d + 1)
          BY Zenon, <3>b DEF OthersQuiet
        <4> QED
          BY <4>1, <2>d DEF Quiet, Pending
      <3>1. TypeOK'
        BY <2>7, <3>b, <3>c DEF interrupt, TypeOK
      <3>2. FlagOwned'
        BY Zenon, <2>7, <2>0 DEF interrupt, FlagOwned, TypeOK
      <3>3. OneOwner'
        BY Zenon, <2>7, <2>0 DEF interrupt, OneOwner, FlagOwned, TypeOK
      <3>4. OthersQuiet'
        BY <2>7, <3>a, <3>c DEF interrupt, OthersQuiet, Quiet, TypeOK
      <3>5. WantSound'
        BY Zenon, <2>7, <2>0 DEF interrupt, WantSound, TypeOK, OthersQuiet, Quiet
      <3>6. CountSound'
        <4>1. \A x \in Cores : x # c => top'[x] = top[x]
          BY Zenon, <3>c DEF TypeOK
        <4>2. \A x \in Cores : x # c => Pending(x, top[x])' = Pending(x, top[x])
          BY Zenon, <2>7, <4>1 DEF interrupt, Pending
        <4>3. Pending(c, top[c])' = 0
          BY Zenon, <2>7, <3>c, <3>d DEF interrupt, Pending
        <4> QED
          BY Zenon, <2>7, <3>a, <4>2, <4>3 DEF interrupt, CountSound, TypeOK
      <3>7. EnabledSound'
        <4>1. top'[c] # 0 /\ iflag'[c] = FALSE /\ int_enabled[c]
          <5>1. top'[c] # 0
            BY <2>0, <3>c
          <5>2. iflag'[c] = FALSE
            BY Zenon, <2>7 DEF interrupt, TypeOK
          <5>3. int_enabled[c]
            BY <2>7, Zenon DEF interrupt, EnabledSound
          <5> QED
            BY Zenon, <5>1, <5>2, <5>3
        <4>2. \A x \in Cores : x # c => top'[x] = top[x] /\ iflag'[x] = iflag[x]
          BY Zenon, <2>7 DEF interrupt, TypeOK
        <4> QED
          BY Zenon, <2>7, <4>1, <4>2 DEF interrupt, EnabledSound
      <3> QED
        BY Zenon, <3>1, <3>2, <3>3, <3>4, <3>5, <3>6, <3>7 DEF IInv
    <2>8. CASE iret(c)
      <3>a. Quiet(c, d) /\ in_critical[c] = 0
        BY <2>8, <2>c, FS_EmptySet DEF iret, At, Quiet, Pending
      <3>b. d - 1 \in Levels /\ d - 1 # d
        BY <2>8, <2>0 DEF iret, Levels
      <3>c. top' = [top EXCEPT ![c] = d - 1] /\ top'[c] = d - 1
        BY Zenon, <2>8 DEF iret, TypeOK
      <3>d. Quiet(c, d - 1) /\ Pending(c, d - 1) = 0
        <4>1. Quiet(c, d - 1)
          BY Zenon, <3>b DEF OthersQuiet
        <4> QED
          BY <4>1, <2>d DEF Quiet, Pending
      <3>1. TypeOK'
        BY <2>8, <3>b, <3>c DEF iret, TypeOK
      <3>2. FlagOwned'
        BY Zenon, <2>8, <2>0 DEF iret, At, FlagOwned, TypeOK
      <3>3. OneOwner'
        BY Zenon, <2>8, <2>0 DEF iret, At, OneOwner, FlagOwned, TypeOK
      <3>4. OthersQuiet'
        BY <2>8, <3>a, <3>c DEF iret, OthersQuiet, Quiet, TypeOK
      <3>5. WantSound'
        BY Zenon, <2>8, <2>0 DEF iret, At, WantSound, TypeOK, OthersQuiet, Quiet
      <3>6. CountSound'
        <4>1. \A x \in Cores : x # c => top'[x] = top[x]
          BY Zenon, <3>c DEF TypeOK
        <4>2. \A x \in Cores : x # c => Pending(x, top[x])' = Pending(x, top[x])
          BY Zenon, <2>8, <4>1 DEF iret, Pending
        <4>3. Pending(c, top[c])' = 0
          BY Zenon, <2>8, <3>c, <3>d DEF iret, Pending
        <4> QED
          BY Zenon, <2>8, <3>a, <4>2, <4>3 DEF iret, CountSound, TypeOK
      <3>7. EnabledSound'
        BY Zenon, <2>8, <2>0, <3>a, <3>c DEF iret, EnabledSound, TypeOK
      <3> QED
        BY Zenon, <3>1, <3>2, <3>3, <3>4, <3>5, <3>6, <3>7 DEF IInv
    <2>9. ASSUME NEW l \in Locks, lock(c, l) PROVE IInv'
      <3>1. TypeOK'
        BY <2>9, <2>0, <2>b, <2>c DEF lock, EnterCritical, At, Goto, TypeOK, PCs, Pending
      <3>2. FlagOwned'
        BY Zenon, <2>9, <2>0 DEF lock, EnterCritical, At, Goto, FlagOwned, TypeOK
      <3>3. OneOwner'
        BY <2>9, <2>0 DEF lock, EnterCritical, At, Goto, OneOwner, FlagOwned, TypeOK
      <3>4. OthersQuiet'
        BY Zenon, <2>9, <2>0 DEF lock, EnterCritical, At, Goto, OthersQuiet, Quiet, TypeOK
      <3>5. WantSound'
        <4>1. l \notin held[c][d]
          BY <2>9, <2>b DEF lock, Locks
        <4>2. \A x \in Cores : \A e \in Levels :
                  (x # c \/ e # d) => want'[x][e] = want[x][e] /\ pc'[x][e] = pc[x][e]
          BY Zenon, <2>9, <2>0 DEF lock, Goto, TypeOK
        <4>3. want'[c][d] = l
          BY Zenon, <2>9, <2>0 DEF lock, TypeOK
        <4> QED
          BY <2>9, <4>1, <4>2, <4>3 DEF lock, WantSound
      <3>6. CountSound'
        BY <2>9, <2>0, <2>a, <2>b, <2>c DEF lock, EnterCritical, At, Goto, CountSound, Pending,
           TypeOK, OthersQuiet, Quiet, WantSound
      <3>7. EnabledSound'
        BY <2>9, <2>0, <2>a, <2>b, <2>c DEF lock, EnterCritical, At, Goto, EnabledSound,
           CountSound, Pending, TypeOK
      <3> QED
        BY Zenon, <3>1, <3>2, <3>3, <3>4, <3>5, <3>6, <3>7 DEF IInv
    <2>10. ASSUME NEW l \in Locks, unlock(c, l) PROVE IInv'
      <3>1. TypeOK'
        BY Zenon, <2>10, <2>0, <2>b, <2>c DEF unlock, At, Goto, TypeOK, PCs, Pending
      <3>2. FlagOwned'
        <4>1. \A x \in Cores : \A e \in Levels :
                  held'[x][e] = IF x = c /\ e = d THEN held[c][d] \ {l} ELSE held[x][e]
          BY Zenon, <2>10, <2>0 DEF unlock, TypeOK
        <4>2. \A m \in Locks : flag'[m] <=> m # l /\ flag[m]
          BY Zenon, <2>10 DEF unlock, TypeOK
        <4>3. \A x \in Cores : \A e \in Levels : l \in held[x][e] => x = c /\ e = d
          BY Zenon, <2>10, <2>0 DEF unlock, OneOwner
        <4>4. \A m \in Locks : \A x \in Cores : \A e \in Levels :
                  m \in held'[x][e] <=> m # l /\ m \in held[x][e]
          BY <4>1, <4>3
        <4> QED
          BY Zenon, <4>2, <4>4, <2>0 DEF FlagOwned
      <3>3. OneOwner'
        BY <2>10, <2>0 DEF unlock, At, Goto, OneOwner, FlagOwned, TypeOK
      <3>4. OthersQuiet'
        BY <2>10, <2>0 DEF unlock, At, Goto, OthersQuiet, Quiet, TypeOK
      <3>5. WantSound'
        BY <2>10, <2>0 DEF unlock, At, Goto, WantSound, TypeOK, OthersQuiet, Quiet
      <3>6. CountSound'
        <4>1. Cardinality(held[c][d] \ {l}) = Cardinality(held[c][d]) - 1
          BY Zenon, <2>10, <2>a, <2>b DEF unlock
        <4>2. held'[c][d] = held[c][d] \ {l} /\ pc'[c][d] = "leave" /\ pc[c][d] = "run"
          BY Zenon, <2>10, <2>0 DEF unlock, TypeOK, Goto, At
        <4>3. Pending(c, d)' = Pending(c, d)
          <5>1. top'[c] = d /\ explicit'[c][d] = explicit[c][d]
            BY Zenon, <2>10 DEF unlock
          <5>2. Pending(c, d) = Cardinality(held[c][d]) + explicit[c][d] + 0
            BY Zenon, <4>2 DEF Pending
          <5>3. Pending(c, d)' = Cardinality(held[c][d]) - 1 + explicit[c][d] + 1
            BY Zenon, <5>1, <4>1, <4>2 DEF Pending
          <5> QED
            BY <5>2, <5>3, <2>b
        <4>4. \A x \in Cores : x # c => Pending(x, top[x])' = Pending(x, top[x])
          BY Zenon, <2>10 DEF unlock, Pending, Goto, TypeOK
        <4> QED
          BY Zenon, <2>10, <4>3, <4>4 DEF unlock, CountSound
      <3>7. EnabledSound'
        BY Zenon, <2>10, <2>0, <2>a, <2>b, <2>c
           DEF unlock, At, Goto, EnabledSound, CountSound, Pending, TypeOK
      <3> QED
        BY Zenon, <3>1, <3>2, <3>3, <3>4, <3>5, <3>6, <3>7 DEF IInv
    <2> QED
      BY Zenon, <1>2, <2>1, <2>2, <2>3, <2>4, <2>5, <2>6, <2>7, <2>8, <2>9, <2>10 DEF Step
  <1> QED
    BY Zenon, <1>1, <1>2 DEF Next

(* In every reachable state the invariant holds.                           *)
THEOREM Invariance == Spec => []IInv
  <1> QED
    BY InitIInv, NextIInv, PTL DEF Spec

(* Spinlock::lock() and unlock(): two contexts never own the same lock,    *)
(* whichever cores and nested handlers they are, and the flag of an owned  *)
(* lock is set.                                                            *)
THEOREM SpinlockExcludes == Spec => []MutualExclusion
  <1>1. IInv => MutualExclusion
    BY SMTT(30) DEF IInv, FlagOwned, OneOwner, MutualExclusion, TypeOK
  <1> QED
    BY <1>1, Invariance, PTL

(* No handler runs on top of an owner of a spinlock of its own core, and   *)
(* no core polls a lock it owns itself.                                    *)
THEOREM HandlersDoNotSpin == Spec => []NoSelfDeadlock
  <1>1. IInv => NoSelfDeadlock
    <2> SUFFICES ASSUME IInv, NEW c \in Cores, NEW d \in Levels, NEW e \in Levels
                 PROVE  /\ d < top[c] => Quiet(c, d)
                        /\ pc[c][d] \in {"tas", "spin"} => want[c][d] \notin held[c][e]
      BY Zenon DEF NoSelfDeadlock
    <2>1. d < top[c] => Quiet(c, d)
      BY SpinlockAssumption DEF IInv, OthersQuiet, TypeOK, Levels
    <2>2. pc[c][d] \in {"tas", "spin"} => want[c][d] \notin held[c][e]
      BY Zenon DEF IInv, OthersQuiet, WantSound, Quiet, TypeOK
    <2> QED
      BY Zenon, <2>1, <2>2
  <1> QED
    BY <1>1, Invariance, PTL

(* m_in_critical is exact: enter_critical() and leave_critical() pair up   *)
(* on every path, and interrupts are off inside and on outside.            *)
THEOREM CriticalSectionsBalance == Spec => []CriticalBalance
  <1>1. IInv => CriticalBalance
    <2> SUFFICES ASSUME IInv, NEW c \in Cores
                 PROVE  /\ in_critical[c] = Pending(c, top[c])
                        /\ iflag[c] => in_critical[c] = 0
                        /\ int_enabled[c] /\ Quiet(c, 0) /\ top[c] = 0 => iflag[c]
      BY Zenon DEF CriticalBalance, IInv
    <2>1. Cardinality({}) = 0
      BY Zenon, FS_EmptySet
    <2> QED
      <3>1. in_critical[c] = Pending(c, top[c]) /\ (iflag[c] => in_critical[c] = 0)
        BY Zenon DEF IInv, CountSound
      <3>2. Quiet(c, 0) => Pending(c, 0) = 0
        BY <2>1 DEF Quiet, Pending
      <3> QED
        BY Zenon, <3>1, <3>2 DEF IInv, EnabledSound
  <1> QED
    BY <1>1, Invariance, PTL

----------------------------------------------------------------------------
(* Who is beyond "out" has called lock(); a core polls for a thread of its *)
(* own that has.                                                           *)
Known ==
    /\ \A x \in Contexts : mutex_pc[x] # "out" => x \in lockers
    /\ \A c \in Processors : CoreOf[poll[c].thread] = c
    /\ \A c \in Processors : poll[c].at # "no" => poll[c].thread \in lockers

(* Whoever is in the section set the flag.                                 *)
FlagCovers == \A x \in Boot \cup Processors : InSection(x) => m_lock

MutexInductive == MutexTypeOK /\ Known /\ (Together => Guarded /\ FlagCovers)

(* The sets of module Mutex.                                               *)
LEMMA MutexSets ==
    /\ MutexThreads \subseteq Contexts /\ Boot \subseteq Contexts
    /\ \A t \in MutexThreads : CoreOf[t] \in Processors /\ t \notin Boot
BY Zenon, MutexAssumption DEF Contexts, Processors

(* Types and users of the mutex after every step.                          *)
LEMMA MutexTypes ==
    ASSUME MutexTypeOK, Known, [MutexNext]_mutexVars
    PROVE  MutexTypeOK' /\ Known' /\ lockers \subseteq lockers'
<1> DEFINE Goal == MutexTypeOK' /\ Known' /\ lockers \subseteq lockers'
<1> USE MutexSets DEF MutexTypeOK, Known, PollSteps
<1>1. ASSUME NEW t \in MutexThreads, mutex_lock(t) PROVE Goal
  BY <1>1 DEF mutex_lock, Move
<1>2. ASSUME NEW t \in MutexThreads, hlt_ends(t) PROVE Goal
  BY <1>2 DEF hlt_ends, Move
<1>3. ASSUME NEW t \in MutexThreads, lock_set(t) PROVE Goal
  BY <1>3 DEF lock_set, Move
<1>4. ASSUME NEW t \in MutexThreads, mutex_unlock(t) PROVE Goal
  <2>1. /\ mutex_pc' \in [Contexts -> {"out", "blocked", "take", "in", "set", "release",
                                      "clear", "release_out"}]
        /\ \A t1 \in MutexThreads : mutex_pc'[t1] \in {"out", "blocked", "take", "in"}
    BY <1>4 DEF mutex_unlock, Move
  <2>2. \A x \in Contexts : mutex_pc'[x] # "out" => x \in lockers
    BY <1>4 DEF mutex_unlock, Move
  <2> QED BY Zenon, <1>4, <2>1, <2>2 DEF mutex_unlock
<1>5. ASSUME NEW t \in MutexThreads, switch(t) PROVE Goal
  BY <1>5 DEF switch
<1>55. ASSUME NEW c \in Processors, idle(c) PROVE Goal
  BY <1>55 DEF idle
<1>6. ASSUME NEW t \in MutexThreads, try_lock(t) PROVE Goal
  BY <1>6 DEF try_lock
<1>7. ASSUME NEW c \in Processors, try_lock_set(c) PROVE Goal
  BY <1>7 DEF try_lock_set
<1>8. ASSUME NEW c \in Processors, try_lock_unlock(c) PROVE Goal
  <2>1. poll[c].at = "unlock" /\ poll[c].thread \in MutexThreads /\ CoreOf[poll[c].thread] = c
    BY <1>8 DEF try_lock_unlock
  <2>2. poll[c].thread \in lockers
    BY <2>1
  <2>3. /\ poll' \in [Processors -> [at : {"no", "set", "unlock"}, thread : MutexThreads]]
        /\ \A d \in Processors : poll'[d].thread = poll[d].thread
        /\ \A d \in Processors : poll'[d].at # "no" => poll[d].at # "no"
    BY <1>8 DEF try_lock_unlock
  <2>4. running' \in [Processors -> MutexThreads \cup {IdleThread}]
        /\ waiting' \subseteq lockers \cap MutexThreads
    BY <1>8, <2>1 DEF try_lock_unlock
  <2>5. /\ mutex_pc' \in [Contexts -> {"out", "blocked", "take", "in", "set", "release",
                                      "clear", "release_out"}]
        /\ \A t \in MutexThreads : mutex_pc'[t] \in {"out", "blocked", "take", "in"}
        /\ \A x \in Contexts : mutex_pc'[x] # "out" => x \in lockers
    BY <1>8, <2>1, <2>2 DEF try_lock_unlock
  <2>6. m_lock' \in BOOLEAN /\ m_locked' \in BOOLEAN /\ lockers' = lockers
    BY Zenon, <1>8 DEF try_lock_unlock
  <2>7. MutexTypeOK'
    BY Zenon, <2>3, <2>4, <2>5, <2>6
  <2>8. Known'
    BY Zenon, <2>3, <2>5, <2>6
  <2> QED BY Zenon, <2>6, <2>7, <2>8
<1>9. ASSUME NEW b \in Boot, boot_spin(b) PROVE Goal
  BY <1>9 DEF boot_spin, Move
<1>10. ASSUME NEW b \in Boot, boot_set(b) PROVE Goal
  BY <1>10 DEF boot_set, Move
<1>11. ASSUME NEW b \in Boot, boot_release(b) PROVE Goal
  <2>1. /\ mutex_pc' \in [Contexts -> {"out", "blocked", "take", "in", "set", "release",
                                      "clear", "release_out"}]
        /\ \A t1 \in MutexThreads : mutex_pc'[t1] \in {"out", "blocked", "take", "in"}
    BY <1>11 DEF boot_release, Move
  <2>2. \A x \in Contexts : mutex_pc'[x] # "out" => x \in lockers
    BY <1>11 DEF boot_release, Move
  <2> QED BY Zenon, <1>11, <2>1, <2>2 DEF boot_release
<1>12. CASE UNCHANGED mutexVars
  BY Zenon, <1>12 DEF mutexVars
<1> QED
  BY Zenon, <1>1, <1>2, <1>3, <1>4, <1>5, <1>55, <1>6, <1>7, <1>8, <1>9, <1>10, <1>11, <1>12
  DEF MutexNext, Visit, Poll

(* At boot no core polls; among the threads of one core, no boot context   *)
(* takes part and no other core polls.                                     *)
LEMMA OneKind ==
    ASSUME MutexTypeOK, Known, Together
    PROVE  \/ lockers \subseteq Boot /\ \A c \in Processors : poll[c].at = "no"
           \/ \E d \in Processors :
                /\ \A t \in lockers : t \in MutexThreads /\ CoreOf[t] = d
                /\ \A b \in Boot : mutex_pc[b] = "out"
                /\ \A c \in Processors : c # d => poll[c].at = "no"
<1>1. CASE lockers \subseteq Boot
  BY Zenon, <1>1, MutexSets DEF MutexTypeOK, Known
<1>2. ASSUME NEW d \in Processors, \A t \in lockers : t \in MutexThreads /\ CoreOf[t] = d
      PROVE  /\ \A b \in Boot : mutex_pc[b] = "out"
             /\ \A c \in Processors : c # d => poll[c].at = "no"
  BY Zenon, <1>2, MutexSets DEF Known
<1> QED BY Zenon, <1>1, <1>2 DEF Together

(* A step that leaves the boot contexts and the polls where they are with  *)
(* respect to the section leaves the section as it is.                     *)
LEMMA SectionUntouched ==
    ASSUME Guarded, FlagCovers, m_lock' = m_lock,
           \A x \in Boot \cup Processors : InSection(x)' => InSection(x)
    PROVE  Guarded' /\ FlagCovers'
BY Zenon DEF Guarded, FlagCovers

(* The spinlock excludes at boot and for the threads of one core.          *)
LEMMA MutexExcludes ==
    ASSUME MutexTypeOK, Known, Together, Guarded, FlagCovers, [MutexNext]_mutexVars
    PROVE  Guarded' /\ FlagCovers'
<1> DEFINE Goal == Guarded' /\ FlagCovers'
           All == Boot \cup Processors
<1>1. ASSUME NEW t \in MutexThreads, mutex_lock(t) \/ hlt_ends(t) \/ lock_set(t) \/ mutex_unlock(t)
      PROVE  Goal
  <2>1. m_lock' = m_lock /\ poll' = poll
    BY Zenon, <1>1 DEF mutex_lock, hlt_ends, lock_set, mutex_unlock
  <2>2. \A b \in Boot : mutex_pc'[b] = mutex_pc[b]
    BY <1>1, MutexSets DEF mutex_lock, hlt_ends, lock_set, mutex_unlock, Move, MutexTypeOK
  <2>3. \A x \in All : InSection(x)' => InSection(x)
    BY Zenon, <2>1, <2>2 DEF InSection
  <2> QED BY Zenon, <2>1, <2>3, SectionUntouched
<1>2. ASSUME NEW t \in MutexThreads, switch(t) PROVE Goal
  BY Zenon, <1>2, SectionUntouched DEF switch, InSection
<1>22. ASSUME NEW c \in Processors, idle(c) PROVE Goal
  BY Zenon, <1>22, SectionUntouched DEF idle, InSection
<1>3. ASSUME NEW t \in MutexThreads, try_lock(t) PROVE Goal
  <2>1. t \in lockers /\ t \notin Boot
    BY <1>3, MutexSets DEF try_lock, MutexTypeOK
  <2>2. PICK d \in Processors :
          /\ \A b \in Boot : mutex_pc[b] = "out"
          /\ \A c \in Processors : c # d => poll[c].at = "no"
          /\ CoreOf[t] = d
    BY Zenon, <2>1, OneKind
  <2>3. \A c \in Processors : c # d => poll'[c] = poll[c]
    BY Zenon, <1>3, <2>2 DEF try_lock, MutexTypeOK
  <2>4. m_lock' = TRUE /\ mutex_pc' = mutex_pc
    BY Zenon, <1>3 DEF try_lock
  <2>5. \A x \in All : InSection(x)' => x = d
    BY <2>2, <2>3, <2>4 DEF InSection
  <2> QED BY Zenon, <2>4, <2>5 DEF Guarded, FlagCovers
<1>4. ASSUME NEW c \in Processors, try_lock_set(c) PROVE Goal
  <2>1. m_lock' = m_lock /\ mutex_pc' = mutex_pc
    BY Zenon, <1>4 DEF try_lock_set
  <2>2. \A d \in Processors : poll'[d].at # "no" => poll[d].at # "no"
    BY <1>4 DEF try_lock_set, MutexTypeOK
  <2>3. \A x \in All : InSection(x)' => InSection(x)
    BY Zenon, <2>1, <2>2 DEF InSection
  <2> QED BY Zenon, <2>1, <2>3, SectionUntouched
<1>5. ASSUME NEW c \in Processors, try_lock_unlock(c) PROVE Goal
  <2>1. poll[c].at = "unlock" /\ poll'[c].at = "no"
    BY <1>5 DEF try_lock_unlock, MutexTypeOK
  <2>2. \A b \in Boot : mutex_pc[b] = "out"
    BY <2>1, OneKind
  <2>3. \A d \in Processors : poll[d].at = "no" => poll'[d].at = "no"
    BY <1>5, <2>1 DEF try_lock_unlock, MutexTypeOK
  <2>4. \A d \in Processors : d # c => poll[d].at = "no"
    BY <2>1 DEF Guarded, InSection
  <2>5. \A b \in Boot : mutex_pc'[b] = "out"
    BY <1>5, <2>2, MutexSets DEF try_lock_unlock, MutexTypeOK
  <2>6. \A x \in All : ~InSection(x)'
    BY <2>1, <2>3, <2>4, <2>5 DEF InSection
  <2> QED BY Zenon, <2>6 DEF Guarded, FlagCovers
<1>6. ASSUME NEW b \in Boot, boot_spin(b) PROVE Goal
  <2>1. \A x \in All : ~InSection(x)
    BY Zenon, <1>6 DEF boot_spin, FlagCovers
  <2>2. m_lock' = TRUE /\ poll' = poll /\ \A a \in Boot : a # b => mutex_pc'[a] = mutex_pc[a]
    BY Zenon, <1>6, MutexSets DEF boot_spin, Move, MutexTypeOK
  <2>3. \A x \in All : InSection(x)' => x = b
    BY Zenon, <2>1, <2>2 DEF InSection
  <2> QED BY Zenon, <2>2, <2>3 DEF Guarded, FlagCovers
<1>7. ASSUME NEW b \in Boot, boot_set(b) PROVE Goal
  <2>1. m_lock' = m_lock /\ poll' = poll /\ mutex_pc[b] \in {"set", "clear"}
    BY Zenon, <1>7 DEF boot_set
  <2>2. \A a \in Boot : a # b => mutex_pc'[a] = mutex_pc[a]
    BY Zenon, <1>7, MutexSets DEF boot_set, Move, MutexTypeOK
  <2>3. \A x \in All : InSection(x)' => InSection(x)
    BY Zenon, <2>1, <2>2 DEF InSection
  <2> QED BY Zenon, <2>1, <2>3, SectionUntouched
<1>8. ASSUME NEW b \in Boot, boot_release(b) PROVE Goal
  <2>1. mutex_pc[b] \in {"release", "release_out"} /\ mutex_pc'[b] \in {"in", "out"} /\ poll' = poll
    BY <1>8, MutexSets DEF boot_release, Move, MutexTypeOK
  <2>2. \A a \in Boot : a # b => mutex_pc'[a] = mutex_pc[a]
    BY Zenon, <1>8, MutexSets DEF boot_release, Move, MutexTypeOK
  <2>3. \A c \in Processors : poll[c].at = "no"
    BY <2>1, OneKind
  <2>4. \A x \in All : x # b => ~InSection(x)
    BY Zenon, <2>1 DEF Guarded, InSection
  <2>5. \A x \in All : ~InSection(x)'
    BY <2>1, <2>2, <2>3, <2>4 DEF InSection
  <2> QED BY Zenon, <2>5 DEF Guarded, FlagCovers
<1>9. CASE UNCHANGED mutexVars
  BY Zenon, <1>9, SectionUntouched DEF mutexVars, InSection
<1> QED
  BY Zenon, <1>1, <1>2, <1>22, <1>3, <1>4, <1>5, <1>6, <1>7, <1>8, <1>9
  DEF MutexNext, Visit, Poll

(* The invariant of the mutex holds.                                       *)
LEMMA MutexInductiveHolds == MutexSpec => []MutexInductive
<1>1. MutexInit => MutexInductive
  <2> SUFFICES ASSUME MutexInit PROVE MutexInductive
    BY Zenon
  <2>1. MutexTypeOK
    BY Zenon, MutexSets DEF MutexInit, MutexTypeOK, PollSteps
  <2>2. Known
    BY DEF MutexInit, Known
  <2>3. \A x \in Boot \cup Processors : ~InSection(x)
    BY MutexSets DEF MutexInit, InSection
  <2> QED BY Zenon, <2>1, <2>2, <2>3 DEF MutexInductive, Guarded, FlagCovers
<1>2. MutexInductive /\ [MutexNext]_mutexVars => MutexInductive'
  <2> SUFFICES ASSUME MutexInductive, [MutexNext]_mutexVars PROVE MutexInductive'
    BY Zenon
  <2>1. MutexTypeOK' /\ Known' /\ lockers \subseteq lockers'
    BY Zenon, MutexTypes DEF MutexInductive
  <2>2. Together' => Together
    BY Zenon, <2>1 DEF Together
  <2> QED BY Zenon, <2>1, <2>2, MutexExcludes DEF MutexInductive
<1> QED BY <1>1, <1>2, PTL DEF MutexSpec

(* For every set of threads, boot contexts and cores: while a mutex is     *)
(* used at boot only or by the threads of one core, its spinlock is set    *)
(* whenever it is released, and guards one context at a time.              *)
THEOREM MutexUnlocksWhatIsLocked == MutexSpec => []UnlockAsserts
<1>1. MutexInductive => UnlockAsserts
  <2> SUFFICES ASSUME MutexInductive, Together PROVE SpinlockHeld
    BY Zenon DEF MutexInductive, UnlockAsserts
  <2>1. \A x \in Boot \cup Processors : InSection(x) => m_lock
    BY Zenon DEF MutexInductive, FlagCovers
  <2> QED BY <2>1 DEF SpinlockHeld, InSection
<1> QED BY <1>1, MutexInductiveHolds, PTL
=============================================================================
