--------------------------- MODULE ContextProofs ---------------------------
(***************************************************************************)
(* Proofs about the contexts of threads (ThreadContext): a process goes on *)
(* as it was, in spite of one address for all kernel stacks and one stack  *)
(* of frames for all calls of the core, for any number of processes.       *)
(*                                                                         *)
(* The invariant says for every thread that has started how it goes on:    *)
(* which frame on which stack it will be resumed from (SavedRight), and    *)
(* that the registers there are what its program or its call needs         *)
(* (GoesRight).  An entry of the stack of frames never says whose call it  *)
(* is; all entries are the same address, which each process maps to a page *)
(* of its own.  What must be shown is that a call finds an entry at all    *)
(* (Injects), whatever order the calls end in, and that nobody can start   *)
(* or take the child between the two halves of fork() (ChildRight).        *)
(***************************************************************************)
EXTENDS ThreadContext, TLAPS

(* The registers with which a thread that has started goes on.             *)
Goes(t) == IF t = current THEN cpu ELSE memory[t][registers[t].frame[2]]

(* In a system call: the frame of the call is the thread's own, and says   *)
(* where the program goes on.                                              *)
InKernel(t, r, f, w) ==
    /\ r.esp = <<Window, 1>> /\ r.at \in Calls \cup {"popped", "dead"}
    /\ r.at # "dead" => f # None /\ f.th = t /\ f.exit = None /\ f.at = w.at
    /\ r.at \in {"call", "copied"} => w.at # "entry"
    /\ r.at \in {"loaded", "result", "set", "popped"} /\ w.at = "entry" => w.eax = 0
    /\ r.at = "copied" => f.eax = 0
    /\ r.at = "loaded" => w.at = "entry"
    /\ r.at = "result" => r.eax = w.eax
    /\ r.at \in {"set", "popped"} => f.eax = w.eax
    /\ r.at = "popped" /\ r.exit # None =>
         /\ r.exit.frame = t /\ r.exit.cr3 = t /\ r.exit.at = "entry" /\ r.exit.eax = 0
         /\ w.at = "entry"

(* In its program, where it should be.                                     *)
InProgram(r, w) == r.at = w.at /\ r.eax = w.eax /\ r.exit = None

GoesRight(t, r) ==
    /\ r \in RegisterSets /\ r.th = t
    /\ t = Idle => r.at = "idle" /\ r.esp = <<Idle, 0>>
    /\ t # Idle =>
         IF KernelMode(r) THEN InKernel(t, r, memory[t][1], want[t]) ELSE InProgram(r, want[t])

(* A thread that was switched away: where its frame is.                    *)
SavedRight(t, s, r) ==
    /\ s \in SavedStates
    /\ s.cr3 = t /\ s.frame = <<kernel_stack(t), IF t # Idle /\ KernelMode(r) THEN 2 ELSE 1>>
    /\ s.cs = IF KernelMode(r) THEN "kernel" ELSE "user"

(* A thread that can be started but was not.                               *)
StartPlace(t) == IF t = Idle THEN "idle" ELSE "entry"
StartRight(t) ==
    /\ registers[t] = create_initial_state(t, StartPlace(t))
    /\ t # Idle => want[t] = [at |-> "entry", eax |-> 0]

(* Between the two halves of fork(): the child is ready and nobody's yet.  *)
Forking(p) == has_started[p] /\ Goes(p).at = "copied"

ChildRight(p, c) ==
    /\ c \in Procs /\ c # p /\ c \notin alive /\ ~has_started[c]
    /\ registers[c] = [cs |-> "user", cr3 |-> c, at |-> None, eax |-> 0, frame |-> <<Window, 1>>]
    /\ want[c] = [at |-> want[p].at, eax |-> 0]

(* An exit function on the stack is the one that exec() leaves.            *)
ExitRight(e) == e # None => e.at = "entry" /\ e.eax = 0 /\ e.cr3 = e.frame /\ e.cr3 \in Procs

(* There is an entry on the stack of frames for each process in a call.    *)
Injects(S, n) == \E f \in [S -> 1 .. n] : \A x, y \in S : f[x] = f[y] => x = y

InCall == {p \in Procs : has_started[p] /\ Goes(p).at \in Calls}

(* All of it, as long as no call popped the exit function of another.      *)
Kept ==
    /\ asserted
    /\ current = None => /\ cr3 = Idle /\ cpu = Regs(Idle, "idle", 0, <<Idle, 0>>)
                         /\ \A t \in Everyone : ~has_started[t]
    /\ current # None => cr3 = current /\ has_started[current]
    /\ \A t \in Everyone : has_started[t] => GoesRight(t, Goes(t))
    /\ \A t \in Everyone : has_started[t] /\ t # current => SavedRight(t, registers[t], Goes(t))
    /\ \A t \in Everyone : ~has_started[t] /\ t \in alive \cup {Idle} => StartRight(t)
    /\ \A p \in Procs : Forking(p) => ChildRight(p, Goes(p).eax)
    /\ \A p, q \in Procs : Forking(p) /\ Forking(q) /\ Goes(p).eax = Goes(q).eax => p = q
    /\ \A t \in Procs : registers[t] = None => t \notin alive /\ ~has_started[t]
    /\ \A p \in Procs : has_started[p] => esp0 = Window
    /\ \A i \in 1 .. Len(frame_stack) : frame_stack[i] = <<Window, 1>>
    /\ \A i \in 1 .. Len(exits) : ExitRight(exits[i])
    /\ Injects(InCall, Len(frame_stack))

ContextInv == ContextTypeOK /\ (~crossed => Kept)

----------------------------------------------------------------------------
(* The sets of module ThreadContext.                                       *)
LEMMA ContextSets ==
    /\ Idle \in Everyone /\ Procs \subseteq Everyone /\ InitProcess \in Procs
    /\ \A t \in Everyone : t # Idle => t \in Procs
    /\ Everyone \subseteq Values /\ 0 \in Values /\ None \in Values
    /\ Programs \subseteq Places /\ Calls \subseteq Places
    /\ \A t \in Everyone \cup {Window}, n \in 0 .. 2 : <<t, n>> \in Addresses
    /\ \A t \in Everyone : kernel_stack(t) \in Everyone \cup {Window}
    /\ \A t \in Procs : kernel_stack(t) = Window /\ t # Idle /\ t # None /\ t # Window
    /\ kernel_stack(Idle) = Idle /\ Idle # None /\ Idle # Window
<1>1. /\ Idle \in Everyone /\ Procs \subseteq Everyone /\ InitProcess \in Procs
      /\ \A t \in Everyone : t # Idle => t \in Procs
      /\ Everyone \subseteq Values /\ 0 \in Values /\ None \in Values
  BY Zenon, ContextAssumption DEF Everyone, Values
<1>2. Programs \subseteq Places /\ Calls \subseteq Places
  BY Zenon DEF Places
<1>3. \A t \in Everyone \cup {Window}, n \in 0 .. 2 : <<t, n>> \in Addresses
  BY Zenon DEF Addresses
<1>4. /\ \A t \in Procs : t # Idle /\ t # None /\ t # Window
      /\ Idle # None /\ Idle # Window
  BY Zenon, <1>1, ContextAssumption
<1> QED
  BY Zenon, <1>1, <1>2, <1>3, <1>4 DEF kernel_stack, create_kernel_thread, create_userspace_thread

(* The address of the first frame on the stack of a process.               *)
LEMMA WindowAddress == <<Window, 1>> \in Addresses
<1>1. 1 \in 0 .. 2
  OBVIOUS
<1> QED BY Zenon, <1>1, ContextSets

(* The parts of a set of registers.                                        *)
LEMMA RegisterFields ==
    ASSUME NEW r \in RegisterSets
    PROVE  /\ r.th \in Everyone /\ r.at \in Places /\ r.eax \in Values /\ r.esp \in Addresses
           /\ r.exit \in SavedStates \cup {None}
           /\ r = [th |-> r.th, at |-> r.at, eax |-> r.eax, esp |-> r.esp, exit |-> r.exit]
BY DEF RegisterSets

(* Registers with some of their parts replaced.                            *)
LEMMA OtherRegisters ==
    ASSUME NEW r \in RegisterSets, NEW x
    PROVE  /\ [r EXCEPT !.at = x] =
                [th |-> r.th, at |-> x, eax |-> r.eax, esp |-> r.esp, exit |-> r.exit]
           /\ [r EXCEPT !.eax = x] =
                [th |-> r.th, at |-> r.at, eax |-> x, esp |-> r.esp, exit |-> r.exit]
           /\ [r EXCEPT !.th = x] =
                [th |-> x, at |-> r.at, eax |-> r.eax, esp |-> r.esp, exit |-> r.exit]
<1>1. r = [th |-> r.th, at |-> r.at, eax |-> r.eax, esp |-> r.esp, exit |-> r.exit]
  BY Zenon, RegisterFields
<1>2. [r EXCEPT !.at = x] =
        [th |-> r.th, at |-> x, eax |-> r.eax, esp |-> r.esp, exit |-> r.exit]
  BY SMT, <1>1
<1>3. [r EXCEPT !.eax = x] =
        [th |-> r.th, at |-> r.at, eax |-> x, esp |-> r.esp, exit |-> r.exit]
  BY SMT, <1>1
<1>4. [r EXCEPT !.th = x] =
        [th |-> x, at |-> r.at, eax |-> r.eax, esp |-> r.esp, exit |-> r.exit]
  BY SMT, <1>1
<1> QED BY Zenon, <1>2, <1>3, <1>4

(* The same with two parts replaced.                                       *)
LEMMA OtherPlaceAndValue ==
    ASSUME NEW r \in RegisterSets, NEW x, NEW v
    PROVE  [r EXCEPT !.at = x, !.eax = v] =
             [th |-> r.th, at |-> x, eax |-> v, esp |-> r.esp, exit |-> r.exit]
<1>1. PICK q : q = [r EXCEPT !.at = x]
  BY Zenon
<1>2. q = [th |-> r.th, at |-> x, eax |-> r.eax, esp |-> r.esp, exit |-> r.exit]
  BY Zenon, <1>1, OtherRegisters
<1>3. [q EXCEPT !.eax = v] = [th |-> r.th, at |-> x, eax |-> v, esp |-> r.esp, exit |-> r.exit]
  BY SMT, <1>2
<1>4. [r EXCEPT !.at = x, !.eax = v] = [q EXCEPT !.eax = v]
  BY Zenon, <1>1
<1> QED BY Zenon, <1>3, <1>4

(* The same with two parts replaced.                                       *)
LEMMA OtherPlaceAndExit ==
    ASSUME NEW r \in RegisterSets, NEW x, NEW v
    PROVE  [r EXCEPT !.at = x, !.exit = v] =
             [th |-> r.th, at |-> x, eax |-> r.eax, esp |-> r.esp, exit |-> v]
<1>1. PICK q : q = [r EXCEPT !.at = x]
  BY Zenon
<1>2. q = [th |-> r.th, at |-> x, eax |-> r.eax, esp |-> r.esp, exit |-> r.exit]
  BY Zenon, <1>1, OtherRegisters
<1>3. [q EXCEPT !.exit = v] = [th |-> r.th, at |-> x, eax |-> r.eax, esp |-> r.esp, exit |-> v]
  BY SMT, <1>2
<1>4. [r EXCEPT !.at = x, !.exit = v] = [q EXCEPT !.exit = v]
  BY Zenon, <1>1
<1> QED BY Zenon, <1>3, <1>4

(* New registers.                                                          *)
LEMMA RegsTypes ==
    ASSUME NEW t \in Everyone, NEW at \in Places, NEW eax \in Values, NEW esp \in Addresses
    PROVE  /\ Regs(t, at, eax, esp) \in RegisterSets
           /\ Regs(t, at, eax, esp).th = t /\ Regs(t, at, eax, esp).at = at
           /\ Regs(t, at, eax, esp).eax = eax /\ Regs(t, at, eax, esp).esp = esp
           /\ Regs(t, at, eax, esp).exit = None
BY Zenon DEF RegisterSets, Regs

(* The states that are saved.                                              *)
LEMMA SavedTypes ==
    ASSUME NEW s \in SavedStates
    PROVE  /\ s.cs \in {"user", "kernel"} /\ s.cr3 \in Everyone /\ s.at \in Places \cup {None}
           /\ s.eax \in Values /\ s.frame \in Addresses \cup Everyone \cup {None}
BY Zenon DEF SavedStates

----------------------------------------------------------------------------
(* A one-to-one map to the entries of a stack: of fewer to more, of one    *)
(* more to one entry more, of one less to one entry less; and when there   *)
(* is something to map there is an entry.                                  *)
LEMMA InjectsFewer ==
    ASSUME NEW S, NEW T, T \subseteq S, NEW n \in Nat, NEW m \in Nat, m >= n, Injects(S, n)
    PROVE  Injects(T, m)
<1>1. PICK f \in [S -> 1 .. n] : \A x, y \in S : f[x] = f[y] => x = y
  BY Zenon DEF Injects
<1>2. [x \in T |-> f[x]] \in [T -> 1 .. m]
  BY <1>1
<1> QED BY Zenon, <1>1, <1>2 DEF Injects

(* One more.                                                               *)
LEMMA InjectsMore ==
    ASSUME NEW S, NEW a, NEW n \in Nat, Injects(S, n)
    PROVE  Injects(S \cup {a}, n + 1)
<1>1. PICK f \in [S -> 1 .. n] : \A x, y \in S : f[x] = f[y] => x = y
  BY Zenon DEF Injects
<1>2. PICK g : g = [x \in S \cup {a} |-> IF x \in S THEN f[x] ELSE n + 1]
  BY Zenon
<1>3. g \in [S \cup {a} -> 1 .. n + 1]
  BY <1>1, <1>2
<1>4. \A x, y \in S \cup {a} : g[x] = g[y] => x = y
  BY <1>1, <1>2
<1> QED BY Zenon, <1>3, <1>4 DEF Injects

(* One less: who had the last entry gets that of who is gone.              *)
LEMMA InjectsLess ==
    ASSUME NEW S, NEW a \in S, NEW n \in Nat, Injects(S, n)
    PROVE  Injects(S \ {a}, n - 1)
<1>1. PICK f \in [S -> 1 .. n] : \A x, y \in S : f[x] = f[y] => x = y
  BY Zenon DEF Injects
<1>2. PICK g : g = [x \in S \ {a} |-> IF f[x] = n THEN f[a] ELSE f[x]]
  BY Zenon
<1>3. g \in [S \ {a} -> 1 .. n - 1]
  BY <1>1, <1>2
<1>4. \A x, y \in S \ {a} : g[x] = g[y] => x = y
  BY <1>1, <1>2
<1> QED BY Zenon, <1>3, <1>4 DEF Injects

(* An entry.                                                               *)
LEMMA InjectsSome ==
    ASSUME NEW S, NEW a \in S, NEW n \in Nat, Injects(S, n)
    PROVE  n # 0
<1>1. PICK f \in [S -> 1 .. n] : \A x, y \in S : f[x] = f[y] => x = y
  BY Zenon DEF Injects
<1>2. f[a] \in 1 .. n
  BY Zenon, <1>1
<1> QED BY <1>2

----------------------------------------------------------------------------
(* Who is in a program or a call: the current process, in its own space,   *)
(* on its own stack.                                                       *)
LEMMA ProcessRuns ==
    ASSUME ContextTypeOK, Kept, cpu.at # "idle"
    PROVE  /\ current \in Procs /\ cr3 = current /\ has_started[current] /\ esp0 = Window
           /\ Goes(current) = cpu /\ GoesRight(current, cpu) /\ cpu.th = current
           /\ cpu \in RegisterSets /\ current # Idle /\ current # None /\ current \in Everyone
<1>1. current # None
  <2>1. Regs(Idle, "idle", 0, <<Idle, 0>>).at = "idle"
    BY Zenon DEF Regs
  <2> QED BY Zenon, <2>1 DEF Kept
<1>2. current \in Everyone /\ has_started[current] /\ cr3 = current
  BY Zenon, <1>1 DEF Kept, ContextTypeOK
<1>3. Goes(current) = cpu
  BY Zenon DEF Goes
<1>4. GoesRight(current, cpu)
  BY Zenon, <1>2, <1>3 DEF Kept
<1>5. current # Idle /\ cpu.th = current
  BY Zenon, <1>4 DEF GoesRight
<1>6. current \in Procs
  BY Zenon, <1>2, <1>5, ContextSets
<1>7. esp0 = Window
  BY Zenon, <1>2, <1>6 DEF Kept
<1> QED BY Zenon, <1>1, <1>2, <1>3, <1>4, <1>5, <1>6, <1>7 DEF ContextTypeOK

(* A call finds its own frame through the stack of the core.               *)
LEMMA CallFrame ==
    ASSUME ContextTypeOK, Kept, cpu.at \in Calls
    PROVE  /\ Len(frame_stack) \in Nat \ {0} /\ Top = <<Window, 1>>
           /\ Frame(Top, cr3) = memory[current][1]
           /\ \A f : Put(Top, f) = [memory EXCEPT ![current][1] = f]
           /\ memory[current][1] \in RegisterSets
           /\ InKernel(current, cpu, memory[current][1], want[current])
<1>1. cpu.at # "idle" /\ cpu.at \notin Programs
  BY DEF Calls, Programs
<1>2. /\ current \in Procs /\ cr3 = current /\ has_started[current]
      /\ Goes(current) = cpu /\ GoesRight(current, cpu) /\ current # Idle
  BY Zenon, <1>1, ProcessRuns
<1>3. current \in InCall
  BY Zenon, <1>2 DEF InCall
<1>4. Injects(InCall, Len(frame_stack))
  BY Zenon DEF Kept
<1>5. Len(frame_stack) \in Nat
  BY DEF ContextTypeOK
<1>6. Len(frame_stack) \in Nat \ {0} /\ Len(frame_stack) \in 1 .. Len(frame_stack)
  BY <1>3, <1>4, <1>5, InjectsSome
<1>7. Top = <<Window, 1>>
  BY Zenon, <1>6 DEF Kept, Top
<1>8. /\ Frame(Top, cr3) = memory[current][1]
      /\ \A f : Put(Top, f) = [memory EXCEPT ![current][1] = f]
  BY <1>2, <1>7 DEF Frame, Put, Owner
<1>9. InKernel(current, cpu, memory[current][1], want[current])
  BY Zenon, <1>1, <1>2 DEF GoesRight, KernelMode
<1>10. memory[current][1] # None
  BY <1>9 DEF InKernel, Calls
<1>11. memory[current][1] \in RegisterSets \cup {None}
  BY <1>2, ContextSets DEF ContextTypeOK
<1> QED BY Zenon, <1>6, <1>7, <1>8, <1>9, <1>10, <1>11

----------------------------------------------------------------------------
(* A step of the current process on its own registers, stack and space     *)
(* keeps the invariant, when the process goes on right and the core's      *)
(* stacks grow and shrink with its calls.                                  *)
LEMMA OwnStep ==
    ASSUME ContextTypeOK, Kept, ContextTypeOK', current \in Procs,
           UNCHANGED <<current, cr3, has_started, asserted>>, esp0' = Window,
           \A t \in Everyone : t # current => registers'[t] = registers[t] /\ memory'[t] = memory[t],
           \A p \in Procs : p # current => want'[p] = want[p],
           alive' \subseteq alive, registers'[current] # None,
           GoesRight(current, cpu)', cpu'.at # "copied",
           \A i \in 1 .. Len(frame_stack') : frame_stack'[i] = <<Window, 1>>,
           \A i \in 1 .. Len(exits') : ExitRight(exits'[i]),
           \/ (cpu'.at \in Calls => cpu.at \in Calls) /\ Len(frame_stack') >= Len(frame_stack)
           \/ Len(frame_stack') >= Len(frame_stack) + 1
           \/ cpu.at \in Calls /\ cpu'.at \notin Calls /\ Len(frame_stack') = Len(frame_stack) - 1
    PROVE  Kept'
<1>1. /\ current # None /\ current # Idle /\ current \in Everyone /\ has_started[current]
      /\ cr3 = current /\ Idle \in Everyone /\ Procs \subseteq Everyone
      /\ \A t \in Everyone : t # Idle => t \in Procs
  BY Zenon, ContextSets DEF Kept
<1>2. \A t \in Everyone : t # current =>
        /\ Goes(t)' = Goes(t)
        /\ \A r : GoesRight(t, r) => GoesRight(t, r)'
  <2> SUFFICES ASSUME NEW t \in Everyone, t # current
               PROVE  Goes(t)' = Goes(t) /\ \A r : GoesRight(t, r) => GoesRight(t, r)'
    BY Zenon
  <2>1. registers'[t] = registers[t] /\ memory'[t] = memory[t]
    BY Zenon
  <2>2. t # Idle => want'[t] = want[t]
    BY Zenon, <1>1
  <2>3. Goes(t)' = Goes(t)
    BY Zenon, <2>1 DEF Goes
  <2>4. \A r : GoesRight(t, r) => GoesRight(t, r)'
    BY Zenon, <2>1, <2>2 DEF GoesRight
  <2> QED BY Zenon, <2>3, <2>4
<1>3. Goes(current)' = cpu' /\ Goes(current) = cpu
  BY Zenon DEF Goes
<1>4. \A t \in Everyone : has_started'[t] => GoesRight(t, Goes(t))'
  <2> SUFFICES ASSUME NEW t \in Everyone, has_started'[t] PROVE GoesRight(t, Goes(t))'
    BY Zenon
  <2>1. CASE t = current
    BY Zenon, <2>1, <1>3 DEF GoesRight
  <2>2. CASE t # current
    <3>1. PICK r : r = Goes(t)
      BY Zenon
    <3>2. GoesRight(t, r)
      BY Zenon, <3>1 DEF Kept
    <3>3. GoesRight(t, r)' /\ Goes(t)' = r
      BY Zenon, <3>1, <3>2, <2>2, <1>2
    <3> QED BY Zenon, <3>3 DEF GoesRight
  <2> QED BY Zenon, <2>1, <2>2
<1>5. \A t \in Everyone : has_started'[t] /\ t # current' => SavedRight(t, registers[t], Goes(t))'
  <2> SUFFICES ASSUME NEW t \in Everyone, has_started'[t], t # current'
               PROVE  SavedRight(t, registers[t], Goes(t))'
    BY Zenon
  <2>1. SavedRight(t, registers[t], Goes(t))
    BY Zenon DEF Kept
  <2>2. registers'[t] = registers[t] /\ Goes(t)' = Goes(t)
    BY Zenon, <1>2
  <2> QED BY Zenon, <2>1, <2>2 DEF SavedRight
<1>6. \A t \in Everyone : ~has_started'[t] /\ t \in alive' \cup {Idle} => StartRight(t)'
  <2> SUFFICES ASSUME NEW t \in Everyone, ~has_started'[t], t \in alive' \cup {Idle}
               PROVE  StartRight(t)'
    BY Zenon
  <2>1. t # current /\ StartRight(t)
    BY Zenon, <1>1 DEF Kept
  <2>2. registers'[t] = registers[t] /\ (t # Idle => want'[t] = want[t])
    BY Zenon, <2>1, <1>1
  <2> QED BY Zenon, <2>1, <2>2 DEF StartRight, StartPlace, create_initial_state
<1>7. \A p \in Procs : Forking(p)' => p # current /\ Forking(p) /\ Goes(p)' = Goes(p)
  BY Zenon, <1>1, <1>2, <1>3 DEF Forking
<1>8. \A p \in Procs : Forking(p)' => ChildRight(p, Goes(p).eax)'
  <2> SUFFICES ASSUME NEW p \in Procs, Forking(p)' PROVE ChildRight(p, Goes(p).eax)'
    BY Zenon
  <2>1. p # current /\ Forking(p) /\ Goes(p)' = Goes(p)
    BY Zenon, <1>7
  <2>2. ChildRight(p, Goes(p).eax)
    BY Zenon, <2>1 DEF Kept
  <2>3. PICK c : c = Goes(p).eax
    BY Zenon
  <2>4. c \in Procs /\ c # current /\ c \in Everyone /\ ChildRight(p, c)
    BY Zenon, <2>2, <2>3, <1>1 DEF ChildRight
  <2>5. registers'[c] = registers[c] /\ want'[c] = want[c] /\ want'[p] = want[p]
    BY Zenon, <2>1, <2>4
  <2>6. ChildRight(p, c)'
    BY Zenon, <2>4, <2>5 DEF ChildRight
  <2> QED BY Zenon, <2>1, <2>3, <2>6 DEF ChildRight
<1>9. \A p, q \in Procs : Forking(p)' /\ Forking(q)' /\ Goes(p).eax' = Goes(q).eax' => p = q
  BY Zenon, <1>7 DEF Kept
<1>10. \A t \in Procs : registers'[t] = None => t \notin alive' /\ ~has_started'[t]
  BY Zenon, <1>1 DEF Kept
<1>11. Injects(InCall', Len(frame_stack'))
  <2>1. InCall \subseteq Procs /\ InCall' \subseteq Procs
    BY Zenon DEF InCall
  <2>2. Injects(InCall, Len(frame_stack))
    BY Zenon DEF Kept
  <2>3. Len(frame_stack) \in Nat /\ Len(frame_stack') \in Nat
    BY DEF ContextTypeOK
  <2>4. \A p \in Procs : p # current => (p \in InCall <=> p \in InCall')
    BY Zenon, <1>2, <1>1 DEF InCall
  <2>5. /\ current \in InCall <=> cpu.at \in Calls
        /\ current \in InCall' <=> cpu'.at \in Calls
    BY Zenon, <1>1, <1>3 DEF InCall
  <2>6. CASE (cpu'.at \in Calls => cpu.at \in Calls) /\ Len(frame_stack') >= Len(frame_stack)
    <3>1. InCall' \subseteq InCall
      BY Zenon, <2>1, <2>4, <2>5, <2>6
    <3> QED BY <2>2, <2>3, <2>6, <3>1, InjectsFewer
  <2>7. CASE Len(frame_stack') >= Len(frame_stack) + 1
    <3>1. InCall' \subseteq InCall \cup {current}
      BY Zenon, <2>1, <2>4
    <3>2. Injects(InCall \cup {current}, Len(frame_stack) + 1)
      BY <2>2, <2>3, InjectsMore
    <3>3. Len(frame_stack) + 1 \in Nat
      BY <2>3
    <3> QED BY <2>3, <2>7, <3>1, <3>2, <3>3, InjectsFewer
  <2>8. CASE /\ cpu.at \in Calls /\ cpu'.at \notin Calls
             /\ Len(frame_stack') = Len(frame_stack) - 1
    <3>1. InCall' = InCall \ {current} /\ current \in InCall
      BY Zenon, <2>1, <2>4, <2>5, <2>8
    <3> QED BY <2>2, <2>3, <2>8, <3>1, InjectsLess
  <2> QED BY Zenon, <2>6, <2>7, <2>8
<1>12. /\ asserted' /\ current' # None /\ cr3' = current' /\ has_started'[current']
       /\ \A i \in 1 .. Len(exits') : ExitRight(exits[i])'
  BY Zenon, <1>1 DEF Kept, ExitRight
<1> QED BY Zenon, <1>4, <1>5, <1>6, <1>8, <1>9, <1>10, <1>11, <1>12 DEF Kept

----------------------------------------------------------------------------

(* The call has its value.                                                 *)
LEMMA ReturnsValue ==
    ASSUME ContextTypeOK, cpu.th = current, current \in Procs, NEW v \in Values, Returns(v)
    PROVE  /\ cpu' \in RegisterSets /\ cpu'.th = current /\ cpu'.at = "result" /\ cpu'.eax = v
           /\ cpu'.esp = cpu.esp /\ KernelMode(cpu')
           /\ want' \in [Procs -> [at : Programs, eax : Values]]
           /\ want'[current].at = want[current].at /\ want'[current].eax = v
           /\ \A p \in Procs : p # current => want'[p] = want[p]
<1>1. cpu \in RegisterSets /\ current \in Everyone /\ "result" \in Places
  BY Zenon, ContextSets DEF ContextTypeOK, Places, Calls
<1>2. cpu' = [cpu EXCEPT !.at = "result", !.eax = v]
  BY Zenon DEF Returns
<1>3. [cpu EXCEPT !.at = "result", !.eax = v] =
        [th |-> cpu.th, at |-> "result", eax |-> v, esp |-> cpu.esp, exit |-> cpu.exit]
  BY Zenon, <1>1, OtherPlaceAndValue
<1>4. cpu' = [th |-> current, at |-> "result", eax |-> v, esp |-> cpu.esp, exit |-> cpu.exit]
  BY Zenon, <1>2, <1>3
<1>5. /\ cpu' \in RegisterSets /\ cpu'.th = current /\ cpu'.at = "result" /\ cpu'.eax = v
      /\ cpu'.esp = cpu.esp
  BY Zenon, <1>1, <1>4, RegisterFields DEF RegisterSets
<1>6. /\ want' \in [Procs -> [at : Programs, eax : Values]]
      /\ want'[current].at = want[current].at /\ want'[current].eax = v
      /\ \A p \in Procs : p # current => want'[p] = want[p]
  BY DEF Returns, ContextTypeOK
<1>7. KernelMode(cpu')
  BY Zenon, <1>5 DEF KernelMode, Programs
<1> QED BY Zenon, <1>5, <1>6, <1>7

(* A call that returns a value.                                            *)
LEMMA SyscallKeeps ==
    ASSUME ContextTypeOK, Kept, syscall
    PROVE  ContextTypeOK' /\ Kept'
<1>1. cpu.at = "call" /\ cpu.at \in Calls /\ cpu.at # "idle"
  BY Zenon DEF syscall, Calls
<1>2. /\ current \in Procs /\ cr3 = current /\ esp0 = Window /\ cpu.th = current
      /\ current # Idle /\ current \in Values
  BY Zenon, <1>1, ProcessRuns, ContextSets
<1>3. InKernel(current, cpu, memory[current][1], want[current])
  BY Zenon, <1>1, CallFrame
<1>4. /\ UNCHANGED <<cr3, esp0, current, alive, has_started, registers, memory, frame_stack>>
      /\ UNCHANGED <<exits, asserted, crossed>>
  BY Zenon DEF syscall
<1>5. Returns(current)
  BY Zenon, <1>2 DEF syscall
<1>6. /\ cpu' \in RegisterSets /\ cpu'.th = current /\ cpu'.at = "result" /\ cpu'.eax = current
      /\ cpu'.esp = cpu.esp /\ KernelMode(cpu')
      /\ want' \in [Procs -> [at : Programs, eax : Values]]
      /\ want'[current].at = want[current].at /\ want'[current].eax = current
      /\ \A p \in Procs : p # current => want'[p] = want[p]
  BY Zenon, <1>2, <1>5, ReturnsValue
<1>7. ContextTypeOK'
  BY Zenon, <1>4, <1>6 DEF ContextTypeOK
<1>8. InKernel(current, cpu', memory'[current][1], want'[current])
  BY Zenon, <1>1, <1>3, <1>4, <1>6 DEF InKernel, Calls
<1>9. GoesRight(current, cpu)'
  BY Zenon, <1>2, <1>4, <1>6, <1>8 DEF GoesRight
<1>10. registers'[current] # None
  BY Zenon, <1>1, <1>4, ProcessRuns DEF Kept
<1>11. /\ \A i \in 1 .. Len(frame_stack') : frame_stack'[i] = <<Window, 1>>
       /\ \A i \in 1 .. Len(exits') : ExitRight(exits'[i])
  BY Zenon, <1>4 DEF Kept
<1>12. Len(frame_stack') >= Len(frame_stack)
  BY <1>4 DEF ContextTypeOK
<1>13. cpu'.at # "copied" /\ esp0' = Window
  BY Zenon, <1>2, <1>4, <1>6
<1> QED BY Zenon, <1>1, <1>2, <1>4, <1>6, <1>7, <1>9, <1>10, <1>11, <1>12, <1>13, OwnStep

(* A call that ends the process.                                           *)
LEMMA SyscallExitKeeps ==
    ASSUME ContextTypeOK, Kept, syscall_exit
    PROVE  ContextTypeOK' /\ Kept'
<1>1. cpu.at = "call" /\ cpu.at \in Calls /\ cpu.at # "idle" /\ "dead" \in Places
  BY Zenon DEF syscall_exit, Calls, Places
<1>2. /\ current \in Procs /\ cr3 = current /\ esp0 = Window /\ cpu.th = current
      /\ current # Idle /\ cpu \in RegisterSets /\ current \in Everyone
  BY Zenon, <1>1, ProcessRuns
<1>3. InKernel(current, cpu, memory[current][1], want[current])
  BY Zenon, <1>1, CallFrame
<1>4. /\ UNCHANGED <<cr3, esp0, current, has_started, registers, memory, frame_stack>>
      /\ UNCHANGED <<exits, asserted, crossed, want>> /\ alive' \subseteq alive
  BY Zenon DEF syscall_exit
<1>5. cpu' = [th |-> cpu.th, at |-> "dead", eax |-> cpu.eax, esp |-> cpu.esp, exit |-> cpu.exit]
  BY Zenon, <1>2, OtherRegisters DEF syscall_exit
<1>6. cpu' \in RegisterSets /\ cpu'.th = current /\ cpu'.at = "dead" /\ cpu'.esp = cpu.esp
  BY Zenon, <1>1, <1>2, <1>5, RegisterFields DEF RegisterSets
<1>7. ContextTypeOK'
  BY Zenon, <1>4, <1>6 DEF ContextTypeOK
<1>8. /\ InKernel(current, cpu', memory'[current][1], want'[current])
      /\ KernelMode(cpu')
  BY Zenon, <1>1, <1>3, <1>4, <1>6 DEF InKernel, Calls, KernelMode, Programs
<1>9. GoesRight(current, cpu)'
  BY Zenon, <1>2, <1>4, <1>6, <1>8 DEF GoesRight
<1>10. registers'[current] # None
  BY Zenon, <1>1, <1>4, ProcessRuns DEF Kept
<1>11. /\ \A i \in 1 .. Len(frame_stack') : frame_stack'[i] = <<Window, 1>>
       /\ \A i \in 1 .. Len(exits') : ExitRight(exits'[i])
  BY Zenon, <1>4 DEF Kept
<1>12. Len(frame_stack') >= Len(frame_stack)
  BY <1>4 DEF ContextTypeOK
<1>13. cpu'.at # "copied" /\ esp0' = Window
  BY Zenon, <1>2, <1>4, <1>6
<1> QED BY Zenon, <1>1, <1>2, <1>4, <1>7, <1>9, <1>10, <1>11, <1>12, <1>13, OwnStep

(* A call writes its own frame.                                            *)
LEMMA OwnFrameWritten ==
    ASSUME ContextTypeOK, Kept, cpu.at \in Calls, NEW f \in RegisterSets, memory' = Put(Top, f)
    PROVE  /\ memory' \in [Everyone -> [1 .. 2 -> RegisterSets \cup {None}]]
           /\ memory'[current][1] = f
           /\ \A t \in Everyone : t # current => memory'[t] = memory[t]
<1>1. current \in Everyone
  <2>1. cpu.at # "idle"
    BY Zenon DEF Calls
  <2> QED BY Zenon, <2>1, ProcessRuns
<1>2. memory' = [memory EXCEPT ![current][1] = f]
  BY Zenon, CallFrame
<1> QED BY <1>1, <1>2 DEF ContextTypeOK

(* The value that the call returns goes to its own frame.                  *)
LEMMA SetReturnValueKeeps ==
    ASSUME ContextTypeOK, Kept, set_return_value
    PROVE  ContextTypeOK' /\ Kept'
<1>1. /\ cpu.at = "result" /\ cpu.at \in Calls /\ cpu.at # "idle" /\ "set" \in Places
      /\ "set" \notin Programs
  BY Zenon DEF set_return_value, Calls, Places, Programs
<1>2. /\ current \in Procs /\ cr3 = current /\ esp0 = Window /\ cpu.th = current
      /\ current # Idle /\ cpu \in RegisterSets /\ current \in Everyone
  BY Zenon, <1>1, ProcessRuns
<1>3. PICK f : f = memory[current][1]
  BY Zenon
<1>4. InKernel(current, cpu, f, want[current]) /\ f \in RegisterSets /\ Frame(Top, cr3) = f
  BY Zenon, <1>1, <1>3, CallFrame
<1>5. /\ UNCHANGED <<cr3, esp0, current, alive, has_started, registers, frame_stack>>
      /\ UNCHANGED <<exits, asserted, crossed, want>>
  BY Zenon DEF set_return_value
<1>6. cpu' = [th |-> cpu.th, at |-> "set", eax |-> cpu.eax, esp |-> cpu.esp, exit |-> cpu.exit]
  BY Zenon, <1>2, OtherRegisters DEF set_return_value
<1>7. /\ cpu' \in RegisterSets /\ cpu'.th = current /\ cpu'.at = "set" /\ cpu'.esp = cpu.esp
      /\ cpu.eax \in Values
  BY Zenon, <1>1, <1>2, <1>6, RegisterFields DEF RegisterSets
<1>8. PICK g : g = [th |-> f.th, at |-> f.at, eax |-> cpu.eax, esp |-> f.esp, exit |-> f.exit]
  BY Zenon
<1>9. g \in RegisterSets /\ g.th = f.th /\ g.at = f.at /\ g.eax = cpu.eax /\ g.exit = f.exit
  BY Zenon, <1>4, <1>7, <1>8, RegisterFields DEF RegisterSets
<1>10. memory' = Put(Top, g)
  BY Zenon, <1>4, <1>8, OtherRegisters DEF set_return_value
<1>11. /\ memory' \in [Everyone -> [1 .. 2 -> RegisterSets \cup {None}]]
       /\ memory'[current][1] = g
       /\ \A t \in Everyone : t # current => memory'[t] = memory[t]
  BY Zenon, <1>1, <1>9, <1>10, OwnFrameWritten
<1>12. ContextTypeOK'
  BY Zenon, <1>5, <1>7, <1>11 DEF ContextTypeOK
<1>13. g # None
  BY Zenon, <1>9, ContextAssumption
<1>14. InKernel(current, cpu', g, want[current])
  BY Zenon, <1>1, <1>4, <1>7, <1>9, <1>13 DEF InKernel, Calls
<1>15. GoesRight(current, cpu)'
  BY Zenon, <1>1, <1>2, <1>5, <1>7, <1>11, <1>14 DEF GoesRight, KernelMode
<1>16. registers'[current] # None
  BY Zenon, <1>1, <1>5, ProcessRuns DEF Kept
<1>17. /\ \A i \in 1 .. Len(frame_stack') : frame_stack'[i] = <<Window, 1>>
       /\ \A i \in 1 .. Len(exits') : ExitRight(exits'[i])
  BY Zenon, <1>5 DEF Kept
<1>18. Len(frame_stack') >= Len(frame_stack)
  BY <1>5 DEF ContextTypeOK
<1>19. cpu'.at # "copied" /\ esp0' = Window
  BY Zenon, <1>2, <1>5, <1>7
<1> QED BY Zenon, <1>1, <1>2, <1>5, <1>11, <1>12, <1>15, <1>16, <1>17, <1>18, <1>19, OwnStep

(* exec() gives the thread and the frame of the call the state of the new  *)
(* program.                                                                *)
LEMMA InitializeKeeps ==
    ASSUME ContextTypeOK, Kept, initialize_userspace_thread
    PROVE  ContextTypeOK' /\ Kept'
<1>1. /\ cpu.at = "call" /\ cpu.at \in Calls /\ cpu.at # "idle" /\ "loaded" \in Places
      /\ "loaded" \notin Programs /\ "entry" \in Places /\ "entry" \in Programs
  BY Zenon DEF initialize_userspace_thread, Calls, Places, Programs
<1>2. /\ current \in Procs /\ cr3 = current /\ esp0 = Window /\ cpu.th = current
      /\ current # Idle /\ cpu \in RegisterSets /\ current \in Everyone
  BY Zenon, <1>1, ProcessRuns
<1>3. PICK f : f = memory[current][1]
  BY Zenon
<1>4. InKernel(current, cpu, f, want[current]) /\ f \in RegisterSets /\ Frame(Top, cr3) = f
  BY Zenon, <1>1, <1>3, CallFrame
<1>5. /\ UNCHANGED <<cr3, esp0, current, alive, has_started, frame_stack>>
      /\ UNCHANGED <<exits, asserted, crossed>>
  BY Zenon DEF initialize_userspace_thread
<1>6. cpu' = [th |-> cpu.th, at |-> "loaded", eax |-> cpu.eax, esp |-> cpu.esp, exit |-> cpu.exit]
  BY Zenon, <1>2, OtherRegisters DEF initialize_userspace_thread
<1>7. /\ cpu' \in RegisterSets /\ cpu'.th = current /\ cpu'.at = "loaded" /\ cpu'.esp = cpu.esp
  BY Zenon, <1>1, <1>2, <1>6, RegisterFields DEF RegisterSets
<1>8. PICK g : g = [th |-> f.th, at |-> "entry", eax |-> 0, esp |-> f.esp, exit |-> f.exit]
  BY Zenon
<1>9. g \in RegisterSets /\ g.th = f.th /\ g.at = "entry" /\ g.eax = 0 /\ g.exit = f.exit
  BY Zenon, <1>1, <1>4, <1>8, RegisterFields, ContextSets DEF RegisterSets
<1>10. memory' = Put(Top, g)
  <2>1. [f EXCEPT !.at = "entry", !.eax = 0] = g
    BY Zenon, <1>4, <1>8, OtherPlaceAndValue
  <2> QED BY Zenon, <1>4, <2>1 DEF initialize_userspace_thread, frame_set_initial_state
<1>11. /\ memory' \in [Everyone -> [1 .. 2 -> RegisterSets \cup {None}]]
       /\ memory'[current][1] = g
       /\ \A t \in Everyone : t # current => memory'[t] = memory[t]
  BY Zenon, <1>1, <1>9, <1>10, OwnFrameWritten
<1>12. /\ want' = [want EXCEPT ![current] = [at |-> "entry", eax |-> 0]]
       /\ want \in [Procs -> [at : Programs, eax : Values]]
  BY Zenon, <1>2 DEF initialize_userspace_thread, ContextTypeOK
<1>13. /\ want' \in [Procs -> [at : Programs, eax : Values]]
       /\ want'[current].at = "entry" /\ want'[current].eax = 0
       /\ \A p \in Procs : p # current => want'[p] = want[p]
  <2>1. [at |-> "entry", eax |-> 0] \in [at : Programs, eax : Values]
    BY Zenon, <1>1, ContextSets
  <2> QED BY Zenon, <1>2, <1>12, <2>1
<1>14. registers[current] \in SavedStates /\ registers[current].frame \in Addresses \cup Everyone \cup {None}
  <2>1. registers[current] # None
    BY Zenon, <1>1, ProcessRuns DEF Kept
  <2>2. registers[current] \in SavedStates
    BY Zenon, <1>2, <2>1 DEF ContextTypeOK
  <2> QED BY Zenon, <2>2, SavedTypes
<1>15. PICK s : s = [create_initial_state(current, "entry") EXCEPT !.frame = registers[current].frame]
  BY Zenon
<1>16. s \in SavedStates /\ s # None
  <2>1. s = [cs |-> "user", cr3 |-> current, at |-> "entry", eax |-> 0,
             frame |-> registers[current].frame]
    BY <1>2, <1>15 DEF create_initial_state
  <2>2. s \in SavedStates
    BY Zenon, <1>1, <1>2, <1>14, <2>1, ContextSets DEF SavedStates
  <2> QED BY Zenon, <2>2, ContextAssumption
<1>17. registers' = [registers EXCEPT ![current] = s]
  BY Zenon, <1>2, <1>15 DEF initialize_userspace_thread
<1>18. /\ registers' \in [Everyone -> SavedStates \cup {None}] /\ registers'[current] # None
       /\ \A t \in Everyone : t # current => registers'[t] = registers[t]
  BY Zenon, <1>2, <1>16, <1>17 DEF ContextTypeOK
<1>19. ContextTypeOK'
  BY Zenon, <1>5, <1>7, <1>11, <1>13, <1>18 DEF ContextTypeOK
<1>20. g # None
  BY Zenon, <1>9, ContextAssumption
<1>21. InKernel(current, cpu', g, want'[current])
  BY Zenon, <1>1, <1>4, <1>7, <1>9, <1>13, <1>20 DEF InKernel, Calls
<1>22. GoesRight(current, cpu)'
  BY Zenon, <1>1, <1>2, <1>5, <1>7, <1>11, <1>21 DEF GoesRight, KernelMode
<1>23. /\ \A i \in 1 .. Len(frame_stack') : frame_stack'[i] = <<Window, 1>>
       /\ \A i \in 1 .. Len(exits') : ExitRight(exits'[i])
  BY Zenon, <1>5 DEF Kept
<1>24. Len(frame_stack') >= Len(frame_stack)
  BY <1>5 DEF ContextTypeOK
<1>25. cpu'.at # "copied" /\ esp0' = Window
  BY Zenon, <1>2, <1>5, <1>7
<1> QED
  BY Zenon, <1>1, <1>2, <1>5, <1>11, <1>13, <1>18, <1>19, <1>22, <1>23, <1>24, <1>25, OwnStep

(* The exit functions of the core.                                         *)
LEMMA ExitStack ==
    ASSUME ContextTypeOK, Kept, cpu.at \in Calls
    PROVE  /\ exits # <<>> /\ LastExit \in SavedStates \cup {None} /\ ExitRight(LastExit)
           /\ ButLast(exits) \in Seq(SavedStates \cup {None})
           /\ Len(ButLast(exits)) = Len(exits) - 1
           /\ \A i \in 1 .. Len(ButLast(exits)) : ExitRight(ButLast(exits)[i])
           /\ ButLast(frame_stack) \in Seq(Addresses)
           /\ Len(ButLast(frame_stack)) = Len(frame_stack) - 1
           /\ \A i \in 1 .. Len(ButLast(frame_stack)) : ButLast(frame_stack)[i] = <<Window, 1>>
<1>1. Len(frame_stack) \in Nat \ {0}
  BY Zenon, CallFrame
<1>2. /\ frame_stack \in Seq(Addresses) /\ exits \in Seq(SavedStates \cup {None})
      /\ Len(frame_stack) = Len(exits)
  BY Zenon DEF ContextTypeOK
<1>3. /\ \A i \in 1 .. Len(frame_stack) : frame_stack[i] = <<Window, 1>>
      /\ \A i \in 1 .. Len(exits) : ExitRight(exits[i])
  BY Zenon DEF Kept
<1>4. Len(exits) \in 1 .. Len(exits) /\ exits # <<>>
  BY <1>1, <1>2
<1>5. LastExit \in SavedStates \cup {None} /\ ExitRight(LastExit)
  BY <1>2, <1>3, <1>4 DEF LastExit
<1>6. /\ ButLast(frame_stack) \in Seq(Addresses)
      /\ Len(ButLast(frame_stack)) = Len(frame_stack) - 1
      /\ \A i \in 1 .. Len(ButLast(frame_stack)) :
           i \in 1 .. Len(frame_stack) /\ ButLast(frame_stack)[i] = frame_stack[i]
  BY <1>1, <1>2 DEF ButLast
<1>7. /\ ButLast(exits) \in Seq(SavedStates \cup {None})
      /\ Len(ButLast(exits)) = Len(exits) - 1
      /\ \A i \in 1 .. Len(ButLast(exits)) : i \in 1 .. Len(exits) /\ ButLast(exits)[i] = exits[i]
  BY <1>1, <1>2 DEF ButLast
<1> QED BY Zenon, <1>3, <1>4, <1>5, <1>6, <1>7

(* exec() leaves the exit function that enters the new program.            *)
LEMMA CreateStateKeeps ==
    ASSUME ContextTypeOK, Kept, create_state_for_exec
    PROVE  ContextTypeOK' /\ Kept'
<1>1. /\ cpu.at = "loaded" /\ cpu.at \in Calls /\ cpu.at # "idle" /\ "entry" \in Places
      /\ 0 \in Values
  BY Zenon, ContextSets DEF create_state_for_exec, Calls, Places, Programs
<1>2. /\ current \in Procs /\ cr3 = current /\ esp0 = Window /\ cpu.th = current
      /\ current # Idle /\ current \in Everyone
  BY Zenon, <1>1, ProcessRuns, ContextSets
<1>3. PICK f : f = memory[current][1]
  BY Zenon
<1>4. InKernel(current, cpu, f, want[current]) /\ Frame(Top, cr3) = f
  BY Zenon, <1>1, <1>3, CallFrame
<1>5. want[current].at = "entry" /\ want[current].eax = 0 /\ f.at = "entry"
  BY Zenon, <1>1, <1>4 DEF InKernel
<1>6. /\ UNCHANGED <<cr3, esp0, current, alive, has_started, registers, memory, frame_stack>>
      /\ UNCHANGED <<asserted, crossed>>
  BY Zenon DEF create_state_for_exec
<1>7. Returns(0)
  BY Zenon DEF create_state_for_exec
<1>8. /\ cpu' \in RegisterSets /\ cpu'.th = current /\ cpu'.at = "result" /\ cpu'.eax = 0
      /\ cpu'.esp = cpu.esp /\ KernelMode(cpu')
      /\ want' \in [Procs -> [at : Programs, eax : Values]]
      /\ want'[current].at = want[current].at /\ want'[current].eax = 0
      /\ \A p \in Procs : p # current => want'[p] = want[p]
  BY Zenon, <1>1, <1>2, <1>7, ReturnsValue
<1>9. PICK e : e = [create_initial_state(current, "entry") EXCEPT !.frame = current]
  BY Zenon
<1>10. e \in SavedStates /\ ExitRight(e)
  <2>1. e = [cs |-> "user", cr3 |-> current, at |-> "entry", eax |-> 0, frame |-> current]
    BY <1>2, <1>9 DEF create_initial_state
  <2>2. e \in SavedStates
    BY Zenon, <1>1, <1>2, <2>1 DEF SavedStates
  <2>3. e.at = "entry" /\ e.eax = 0 /\ e.cr3 = current /\ e.frame = current
    BY Zenon, <2>1
  <2> QED BY Zenon, <1>2, <2>2, <2>3 DEF ExitRight
<1>11. exits' = Append(ButLast(exits), e)
  BY Zenon, <1>2, <1>4, <1>5, <1>9 DEF create_state_for_exec
<1>12. /\ exits' \in Seq(SavedStates \cup {None}) /\ Len(exits') = Len(exits)
       /\ \A i \in 1 .. Len(exits') : ExitRight(exits'[i])
  <2>1. PICK b : b = ButLast(exits)
    BY Zenon
  <2>2. /\ b \in Seq(SavedStates \cup {None}) /\ Len(b) = Len(exits) - 1
        /\ \A i \in 1 .. Len(b) : ExitRight(b[i])
    BY Zenon, <1>1, <2>1, ExitStack
  <2>3. Len(exits) \in Nat
    BY DEF ContextTypeOK
  <2>4. /\ Append(b, e) \in Seq(SavedStates \cup {None}) /\ Len(Append(b, e)) = Len(b) + 1
        /\ \A i \in 1 .. Len(Append(b, e)) :
             (i \in 1 .. Len(b) /\ Append(b, e)[i] = b[i]) \/ Append(b, e)[i] = e
    BY <1>10, <2>2
  <2>5. Len(Append(b, e)) = Len(exits)
    BY <2>2, <2>3, <2>4
  <2> QED BY Zenon, <1>10, <1>11, <2>1, <2>2, <2>4, <2>5
<1>13. ContextTypeOK'
  BY Zenon, <1>6, <1>8, <1>12 DEF ContextTypeOK
<1>14. InKernel(current, cpu', f, want'[current])
  BY Zenon, <1>1, <1>4, <1>5, <1>8 DEF InKernel, Calls
<1>15. GoesRight(current, cpu)'
  BY Zenon, <1>2, <1>3, <1>6, <1>8, <1>14 DEF GoesRight
<1>16. registers'[current] # None
  BY Zenon, <1>1, <1>6, ProcessRuns DEF Kept
<1>17. \A i \in 1 .. Len(frame_stack') : frame_stack'[i] = <<Window, 1>>
  BY Zenon, <1>6 DEF Kept
<1>18. Len(frame_stack') >= Len(frame_stack)
  BY <1>6 DEF ContextTypeOK
<1>19. cpu'.at # "copied" /\ esp0' = Window
  BY Zenon, <1>2, <1>6, <1>8
<1> QED BY Zenon, <1>1, <1>2, <1>6, <1>8, <1>12, <1>13, <1>15, <1>16, <1>17, <1>18, <1>19, OwnStep

(* The call leaves, with its own exit function.                            *)
LEMMA LeaveHandlerKeeps ==
    ASSUME ContextTypeOK, Kept, leave_handler
    PROVE  ContextTypeOK' /\ (~crossed' => Kept')
<1>1. /\ cpu.at = "set" /\ cpu.at \in Calls /\ cpu.at # "idle" /\ "popped" \in Places
      /\ "popped" \notin Programs /\ "popped" \notin Calls
  BY Zenon DEF leave_handler, Calls, Places, Programs
<1>2. /\ current \in Procs /\ cr3 = current /\ esp0 = Window /\ cpu.th = current
      /\ current # Idle /\ cpu \in RegisterSets /\ current \in Everyone
  BY Zenon, <1>1, ProcessRuns
<1>3. PICK f : f = memory[current][1]
  BY Zenon
<1>4. InKernel(current, cpu, f, want[current])
  BY Zenon, <1>1, <1>3, CallFrame
<1>5. /\ UNCHANGED <<cr3, esp0, current, alive, has_started, registers, memory, asserted, want>>
      /\ frame_stack' = ButLast(frame_stack) /\ exits' = ButLast(exits)
  BY Zenon DEF leave_handler
<1>6. PICK e : e = LastExit
  BY Zenon
<1>7. /\ e \in SavedStates \cup {None} /\ ExitRight(e)
      /\ exits' \in Seq(SavedStates \cup {None}) /\ Len(exits') = Len(exits) - 1
      /\ \A i \in 1 .. Len(exits') : ExitRight(exits'[i])
      /\ frame_stack' \in Seq(Addresses) /\ Len(frame_stack') = Len(frame_stack) - 1
      /\ \A i \in 1 .. Len(frame_stack') : frame_stack'[i] = <<Window, 1>>
  BY Zenon, <1>1, <1>5, <1>6, ExitStack
<1>8. cpu' = [th |-> cpu.th, at |-> "popped", eax |-> cpu.eax, esp |-> cpu.esp, exit |-> e]
  <2>1. cpu' = [cpu EXCEPT !.at = "popped", !.exit = e]
    BY Zenon, <1>6 DEF leave_handler
  <2>2. [cpu EXCEPT !.at = "popped", !.exit = e] =
          [th |-> cpu.th, at |-> "popped", eax |-> cpu.eax, esp |-> cpu.esp, exit |-> e]
    BY Zenon, <1>2, OtherPlaceAndExit
  <2> QED BY Zenon, <2>1, <2>2
<1>9. /\ cpu' \in RegisterSets /\ cpu'.th = current /\ cpu'.at = "popped" /\ cpu'.esp = cpu.esp
      /\ cpu'.exit = e
  BY Zenon, <1>1, <1>2, <1>7, <1>8, RegisterFields DEF RegisterSets
<1>10. crossed' = IF want[current].at = "entry" THEN e = None \/ e.frame # current ELSE e # None
  BY Zenon, <1>2, <1>6 DEF leave_handler
<1>11. crossed' \in BOOLEAN
  BY Zenon, <1>10
<1>12. ContextTypeOK'
  <2>1. Len(frame_stack') = Len(exits')
    BY Zenon, <1>7 DEF ContextTypeOK
  <2> QED BY Zenon, <1>5, <1>7, <1>9, <1>11, <2>1 DEF ContextTypeOK
<1> SUFFICES ASSUME ~crossed' PROVE Kept'
  BY Zenon, <1>12
<1>13. e # None => /\ e.frame = current /\ e.cr3 = current /\ e.at = "entry" /\ e.eax = 0
                   /\ want[current].at = "entry"
  BY Zenon, <1>7, <1>10 DEF ExitRight
<1>14. InKernel(current, cpu', f, want[current])
  BY Zenon, <1>1, <1>4, <1>9, <1>13 DEF InKernel, Calls
<1>15. GoesRight(current, cpu)'
  BY Zenon, <1>1, <1>2, <1>3, <1>5, <1>9, <1>14 DEF GoesRight, KernelMode
<1>16. registers'[current] # None
  BY Zenon, <1>1, <1>5, ProcessRuns DEF Kept
<1>17. cpu'.at # "copied" /\ cpu'.at \notin Calls /\ esp0' = Window
  BY Zenon, <1>1, <1>2, <1>5, <1>9
<1> QED BY Zenon, <1>1, <1>2, <1>5, <1>7, <1>12, <1>15, <1>16, <1>17, OwnStep

(* A call about to leave: its frame says where the program goes on.        *)
LEMMA PoppedFrame ==
    ASSUME ContextTypeOK, Kept, cpu.at = "popped"
    PROVE  /\ current \in Procs /\ cr3 = current /\ esp0 = Window /\ cpu.th = current
           /\ current # Idle /\ current \in Everyone /\ cpu.at \notin Calls /\ cpu.at # "idle"
           /\ cpu.esp = <<Window, 1>> /\ memory[current][1] \in RegisterSets
           /\ InKernel(current, cpu, memory[current][1], want[current])
           /\ want[current] \in [at : Programs, eax : Values]
<1>1. cpu.at # "idle" /\ cpu.at \notin Programs /\ cpu.at \notin Calls
  BY Zenon DEF Programs, Calls
<1>2. /\ current \in Procs /\ cr3 = current /\ esp0 = Window /\ cpu.th = current
      /\ current # Idle /\ current \in Everyone /\ GoesRight(current, cpu)
  BY Zenon, <1>1, ProcessRuns
<1>3. InKernel(current, cpu, memory[current][1], want[current])
  BY Zenon, <1>1, <1>2 DEF GoesRight, KernelMode
<1>4. cpu.esp = <<Window, 1>> /\ memory[current][1] # None
  BY Zenon, <1>3 DEF InKernel
<1>5. memory[current][1] \in RegisterSets \cup {None} /\ want[current] \in [at : Programs, eax : Values]
  <2>1. 1 \in 1 .. 2
    OBVIOUS
  <2>2. /\ memory \in [Everyone -> [1 .. 2 -> RegisterSets \cup {None}]]
        /\ want \in [Procs -> [at : Programs, eax : Values]]
    BY Zenon DEF ContextTypeOK
  <2>3. memory[current] \in [1 .. 2 -> RegisterSets \cup {None}]
    BY Zenon, <1>2, <2>2
  <2> QED BY Zenon, <1>2, <2>1, <2>2, <2>3
<1> QED BY Zenon, <1>1, <1>2, <1>3, <1>4, <1>5

(* ... and is forgotten when the call is left.                             *)
LEMMA OwnFramePopped ==
    ASSUME ContextTypeOK, Kept, cpu.at = "popped", memory' = Popped(memory, cpu.esp, cr3)
    PROVE  /\ memory' \in [Everyone -> [1 .. 2 -> RegisterSets \cup {None}]]
           /\ \A t \in Everyone : t # current => memory'[t] = memory[t]
<1>1. current \in Everyone /\ cr3 = current /\ cpu.esp = <<Window, 1>>
  BY Zenon, PoppedFrame
<1>2. memory' = [memory EXCEPT ![current][1] = None]
  BY <1>1 DEF Popped, Owner
<1>3. PICK f \in RegisterSets \cup {None} : f = None
  BY Zenon
<1>4. memory' = [memory EXCEPT ![current][1] = f]
  BY Zenon, <1>2, <1>3
<1>5. memory \in [Everyone -> [1 .. 2 -> RegisterSets \cup {None}]]
  BY Zenon DEF ContextTypeOK
<1>6. \A t \in Everyone : t # current => memory'[t] = memory[t]
  BY Zenon, <1>1, <1>4, <1>5
<1>7. PICK K : K = RegisterSets \cup {None}
  BY Zenon
<1>8. memory \in [Everyone -> [1 .. 2 -> K]] /\ f \in K
  BY Zenon, <1>5, <1>7
<1>9. memory' \in [Everyone -> [1 .. 2 -> K]]
  <2>1. PICK g : g = [memory[current] EXCEPT ![1] = f]
    BY Zenon
  <2>2. memory' = [memory EXCEPT ![current] = g]
    BY Zenon, <1>4, <2>1
  <2>3. g \in [1 .. 2 -> K]
    BY Zenon, <1>1, <1>8, <2>1
  <2> QED BY Zenon, <1>1, <1>8, <2>2, <2>3
<1> QED BY Zenon, <1>6, <1>7, <1>9

(* The call returns to the program.                                        *)
LEMMA IretKeeps ==
    ASSUME ContextTypeOK, Kept, iret
    PROVE  ContextTypeOK' /\ Kept'
<1>1. /\ cpu.at = "popped" /\ memory' = Popped(memory, cpu.esp, cr3)
      /\ UNCHANGED <<cr3, esp0, current, alive, has_started, registers, frame_stack>>
      /\ UNCHANGED <<exits, asserted, crossed, want>>
  BY Zenon DEF iret
<1>2. /\ current \in Procs /\ cr3 = current /\ esp0 = Window /\ cpu.th = current
      /\ current # Idle /\ current \in Everyone /\ cpu.at \notin Calls /\ cpu.at # "idle"
      /\ cpu.esp = <<Window, 1>>
      /\ want[current] \in [at : Programs, eax : Values]
  BY Zenon, <1>1, PoppedFrame
<1>3. PICK f : f = memory[current][1]
  BY Zenon
<1>4. InKernel(current, cpu, f, want[current]) /\ f \in RegisterSets
  BY Zenon, <1>1, <1>3, PoppedFrame
<1>5. cpu' = f
  BY <1>2, <1>3 DEF iret, Frame, Owner
<1>6. /\ memory' \in [Everyone -> [1 .. 2 -> RegisterSets \cup {None}]]
      /\ \A t \in Everyone : t # current => memory'[t] = memory[t]
  BY Zenon, <1>1, OwnFramePopped
<1>7. ContextTypeOK'
  BY Zenon, <1>1, <1>4, <1>5, <1>6 DEF ContextTypeOK
<1>8. cpu'.th = current /\ InProgram(cpu', want[current])
  BY Zenon, <1>1, <1>4, <1>5 DEF InKernel, InProgram
<1>9. cpu'.at \in Programs
  BY Zenon, <1>2, <1>8 DEF InProgram
<1>10. GoesRight(current, cpu)'
  BY Zenon, <1>1, <1>2, <1>4, <1>5, <1>8, <1>9 DEF GoesRight, KernelMode
<1>11. registers'[current] # None
  BY Zenon, <1>1, <1>2, ProcessRuns DEF Kept
<1>12. /\ \A i \in 1 .. Len(frame_stack') : frame_stack'[i] = <<Window, 1>>
       /\ \A i \in 1 .. Len(exits') : ExitRight(exits'[i])
  BY Zenon, <1>1 DEF Kept
<1>13. Len(frame_stack') >= Len(frame_stack)
  BY <1>1 DEF ContextTypeOK
<1>14. cpu'.at # "copied" /\ cpu'.at \notin Calls /\ esp0' = Window
  BY Zenon, <1>1, <1>2, <1>9 DEF Programs, Calls
<1> QED BY Zenon, <1>1, <1>2, <1>6, <1>7, <1>10, <1>11, <1>12, <1>13, <1>14, OwnStep

(* The exit function of exec() enters the new program.                     *)
LEMMA EnterAfterExecKeeps ==
    ASSUME ContextTypeOK, Kept, enter_thread_after_exec
    PROVE  ContextTypeOK' /\ Kept'
<1>1. /\ cpu.at = "popped" /\ cpu.exit # None /\ memory' = Popped(memory, cpu.esp, cr3)
      /\ UNCHANGED <<current, alive, has_started, registers, frame_stack>>
      /\ UNCHANGED <<exits, asserted, crossed, want>>
  BY Zenon DEF enter_thread_after_exec
<1>2. /\ current \in Procs /\ cr3 = current /\ esp0 = Window /\ cpu.th = current
      /\ current # Idle /\ current \in Everyone /\ cpu.at \notin Calls /\ cpu.at # "idle"
      /\ want[current] \in [at : Programs, eax : Values]
  BY Zenon, <1>1, PoppedFrame
<1>3. InKernel(current, cpu, memory[current][1], want[current])
  BY Zenon, <1>1, PoppedFrame
<1>4. /\ cpu.exit.frame = current /\ cpu.exit.cr3 = current /\ cpu.exit.at = "entry"
      /\ cpu.exit.eax = 0 /\ want[current].at = "entry" /\ want[current].eax = 0
  BY Zenon, <1>1, <1>3 DEF InKernel
<1>5. /\ esp0' = Window /\ cr3' = current
      /\ cpu' = Regs(current, "entry", 0, <<Window, 0>>)
  BY Zenon, <1>2, <1>4, ContextSets DEF enter_thread_after_exec
<1>6. /\ memory' \in [Everyone -> [1 .. 2 -> RegisterSets \cup {None}]]
      /\ \A t \in Everyone : t # current => memory'[t] = memory[t]
  BY Zenon, <1>1, OwnFramePopped
<1>7. /\ cpu' \in RegisterSets /\ cpu'.th = current /\ cpu'.at = "entry" /\ cpu'.eax = 0
      /\ cpu'.exit = None
  <2>1. "entry" \in Places /\ 0 \in Values /\ 0 \in 0 .. 2 /\ Window \in Everyone \cup {Window}
    BY ContextSets DEF Places, Programs
  <2>2. <<Window, 0>> \in Addresses
    BY Zenon, <2>1, ContextSets
  <2>3. cpu' = [th |-> current, at |-> "entry", eax |-> 0, esp |-> <<Window, 0>>, exit |-> None]
    BY Zenon, <1>5 DEF Regs
  <2> QED BY Zenon, <1>2, <2>1, <2>2, <2>3 DEF RegisterSets
<1>8. ContextTypeOK'
  BY Zenon, <1>1, <1>2, <1>5, <1>6, <1>7 DEF ContextTypeOK
<1>9. cpu'.at \in Programs /\ cpu'.at # "copied" /\ cpu'.at \notin Calls
  BY Zenon, <1>7 DEF Programs, Calls
<1>10. GoesRight(current, cpu)'
  BY Zenon, <1>1, <1>2, <1>4, <1>7, <1>9 DEF GoesRight, KernelMode, InProgram
<1>11. registers'[current] # None
  BY Zenon, <1>1, <1>2, ProcessRuns DEF Kept
<1>12. /\ \A i \in 1 .. Len(frame_stack') : frame_stack'[i] = <<Window, 1>>
       /\ \A i \in 1 .. Len(exits') : ExitRight(exits'[i])
  BY Zenon, <1>1 DEF Kept
<1>13. Len(frame_stack') >= Len(frame_stack)
  BY <1>1 DEF ContextTypeOK
<1>14. cr3' = cr3
  BY Zenon, <1>2, <1>5
<1> QED
  BY Zenon, <1>1, <1>2, <1>5, <1>6, <1>8, <1>9, <1>10, <1>11, <1>12, <1>13, <1>14, OwnStep

(* An interrupt of a program: its frame, and the entries of the core.      *)
LEMMA Entered ==
    ASSUME ContextTypeOK, Kept, NEW f \in RegisterSets, NEW x \in Places, Enter(f, x)
    PROVE  /\ current \in Procs /\ cr3 = current /\ esp0 = Window /\ cpu.th = current
           /\ current # Idle /\ current \in Everyone /\ cpu.at # "idle" /\ cpu \in RegisterSets
           /\ cpu.at \in Programs /\ InProgram(cpu, want[current])
           /\ cpu' \in RegisterSets /\ cpu'.th = current /\ cpu'.at = x /\ cpu'.esp = <<Window, 1>>
           /\ memory' \in [Everyone -> [1 .. 2 -> RegisterSets \cup {None}]]
           /\ memory'[current][1] = f
           /\ \A t \in Everyone : t # current => memory'[t] = memory[t]
           /\ frame_stack' \in Seq(Addresses) /\ exits' \in Seq(SavedStates \cup {None})
           /\ Len(frame_stack') = Len(exits') /\ Len(frame_stack') >= Len(frame_stack) + 1
           /\ \A i \in 1 .. Len(frame_stack') : frame_stack'[i] = <<Window, 1>>
           /\ \A i \in 1 .. Len(exits') : ExitRight(exits'[i])
<1>1. cpu.at \in Programs /\ cpu.at # "idle"
  BY Zenon DEF Enter, KernelMode, Programs
<1>2. /\ current \in Procs /\ cr3 = current /\ esp0 = Window /\ cpu.th = current
      /\ current # Idle /\ current \in Everyone /\ cpu \in RegisterSets /\ GoesRight(current, cpu)
  BY Zenon, <1>1, ProcessRuns
<1>3. InProgram(cpu, want[current])
  BY Zenon, <1>1, <1>2 DEF GoesRight, KernelMode
<1>4. NewFrame = <<Window, 1>>
  BY Zenon, <1>1, <1>2 DEF NewFrame, KernelMode
<1>5. NewFrame \in Addresses
  <2>1. 1 \in 0 .. 2 /\ Window \in Everyone \cup {Window}
    OBVIOUS
  <2> QED BY Zenon, <1>4, <2>1, ContextSets
<1>6. cpu' = Regs(current, x, cpu.eax, NewFrame)
  BY Zenon, <1>2 DEF Enter
<1>7. cpu' \in RegisterSets /\ cpu'.th = current /\ cpu'.at = x /\ cpu'.esp = <<Window, 1>>
  <2>1. cpu.eax \in Values
    BY Zenon, <1>2, RegisterFields
  <2>2. cpu' = [th |-> current, at |-> x, eax |-> cpu.eax, esp |-> NewFrame, exit |-> None]
    BY Zenon, <1>6 DEF Regs
  <2> QED BY Zenon, <1>2, <1>4, <1>5, <2>1, <2>2 DEF RegisterSets
<1>8. memory' = [memory EXCEPT ![current][1] = f]
  BY <1>2, <1>4 DEF Enter, Put, Owner
<1>9. /\ memory' \in [Everyone -> [1 .. 2 -> RegisterSets \cup {None}]]
      /\ memory'[current][1] = f
      /\ \A t \in Everyone : t # current => memory'[t] = memory[t]
  BY <1>2, <1>8 DEF ContextTypeOK
<1>10. PICK n : n = NewFrame
  BY Zenon
<1>11. /\ frame_stack' = Append(frame_stack, n) /\ exits' = Append(exits, None)
       /\ n = <<Window, 1>> /\ n \in Addresses
  BY Zenon, <1>4, <1>5, <1>10 DEF Enter
<1>12. /\ frame_stack \in Seq(Addresses) /\ exits \in Seq(SavedStates \cup {None})
       /\ Len(frame_stack) = Len(exits)
  BY Zenon DEF ContextTypeOK
<1>13. /\ frame_stack' \in Seq(Addresses) /\ Len(frame_stack') = Len(frame_stack) + 1
       /\ \A i \in 1 .. Len(frame_stack') :
            (i \in 1 .. Len(frame_stack) /\ frame_stack'[i] = frame_stack[i]) \/ frame_stack'[i] = n
  BY <1>11, <1>12
<1>14. /\ exits' \in Seq(SavedStates \cup {None}) /\ Len(exits') = Len(exits) + 1
       /\ \A i \in 1 .. Len(exits') :
            (i \in 1 .. Len(exits) /\ exits'[i] = exits[i]) \/ exits'[i] = None
  BY <1>11, <1>12
<1>15. Len(frame_stack') = Len(exits') /\ Len(frame_stack') >= Len(frame_stack) + 1
  BY <1>12, <1>13, <1>14
<1>16. \A i \in 1 .. Len(frame_stack') : frame_stack'[i] = <<Window, 1>>
  BY Zenon, <1>11, <1>13 DEF Kept
<1>17. \A i \in 1 .. Len(exits') : ExitRight(exits'[i])
  <2>1. \A i \in 1 .. Len(exits) : ExitRight(exits[i])
    BY Zenon DEF Kept
  <2>2. ExitRight(None)
    BY Zenon DEF ExitRight
  <2> QED BY Zenon, <1>14, <2>1, <2>2
<1> QED BY Zenon, <1>1, <1>2, <1>3, <1>7, <1>9, <1>13, <1>14, <1>15, <1>16, <1>17

(* A program makes a system call.                                          *)
LEMMA CallKeeps ==
    ASSUME ContextTypeOK, Kept, common_interrupt_handler
    PROVE  ContextTypeOK' /\ Kept'
<1>1. cpu \in RegisterSets /\ "call" \in Places /\ "call" \notin Programs
  BY Zenon DEF ContextTypeOK, Places, Calls, Programs
<1>2. PICK x : x = After(cpu.at)
  BY Zenon
<1>3. x \in Programs /\ x \in Places /\ x # "entry"
  BY Zenon, <1>2 DEF After, Places, Programs
<1>4. PICK f : f = [th |-> cpu.th, at |-> x, eax |-> cpu.eax, esp |-> cpu.esp, exit |-> cpu.exit]
  BY Zenon
<1>5. f \in RegisterSets /\ f.th = cpu.th /\ f.at = x /\ f.exit = cpu.exit
  BY Zenon, <1>1, <1>3, <1>4, RegisterFields DEF RegisterSets
<1>6. Enter(f, "call")
  <2>1. [cpu EXCEPT !.at = x] = f
    BY Zenon, <1>1, <1>4, OtherRegisters
  <2>2. [cpu EXCEPT !.at = After(@)] = [cpu EXCEPT !.at = x]
    BY Zenon, <1>2
  <2> QED BY Zenon, <2>1, <2>2 DEF common_interrupt_handler
<1>7. /\ current \in Procs /\ cr3 = current /\ esp0 = Window /\ cpu.th = current
      /\ current # Idle /\ current \in Everyone /\ cpu.at # "idle"
      /\ cpu.at \in Programs /\ InProgram(cpu, want[current])
      /\ cpu' \in RegisterSets /\ cpu'.th = current /\ cpu'.at = "call" /\ cpu'.esp = <<Window, 1>>
      /\ memory' \in [Everyone -> [1 .. 2 -> RegisterSets \cup {None}]]
      /\ memory'[current][1] = f
      /\ \A t \in Everyone : t # current => memory'[t] = memory[t]
      /\ frame_stack' \in Seq(Addresses) /\ exits' \in Seq(SavedStates \cup {None})
      /\ Len(frame_stack') = Len(exits') /\ Len(frame_stack') >= Len(frame_stack) + 1
      /\ \A i \in 1 .. Len(frame_stack') : frame_stack'[i] = <<Window, 1>>
      /\ \A i \in 1 .. Len(exits') : ExitRight(exits'[i])
  BY Zenon, <1>1, <1>5, <1>6, Entered
<1>8. UNCHANGED <<cr3, esp0, current, alive, has_started, registers, asserted, crossed>>
  BY Zenon DEF common_interrupt_handler
<1>9. /\ want' = [want EXCEPT ![current] = [at |-> x, eax |-> None]]
      /\ want \in [Procs -> [at : Programs, eax : Values]]
  BY Zenon, <1>2, <1>7 DEF common_interrupt_handler, ContextTypeOK
<1>10. /\ want' \in [Procs -> [at : Programs, eax : Values]]
       /\ want'[current].at = x /\ want'[current].eax = None
       /\ \A p \in Procs : p # current => want'[p] = want[p]
  <2>1. [at |-> x, eax |-> None] \in [at : Programs, eax : Values]
    BY Zenon, <1>3, ContextSets
  <2> QED BY Zenon, <1>7, <1>9, <2>1
<1>11. ContextTypeOK'
  BY Zenon, <1>7, <1>8, <1>10 DEF ContextTypeOK
<1>12. f # None /\ f.exit = None
  BY Zenon, <1>5, <1>7, ContextAssumption DEF InProgram
<1>13. InKernel(current, cpu', f, want'[current])
  BY Zenon, <1>3, <1>5, <1>7, <1>10, <1>12 DEF InKernel, Calls
<1>14. GoesRight(current, cpu)'
  BY Zenon, <1>1, <1>7, <1>8, <1>13 DEF GoesRight, KernelMode
<1>15. registers'[current] # None
  BY Zenon, <1>7, <1>8, ProcessRuns DEF Kept
<1>16. cpu'.at # "copied" /\ esp0' = Window
  BY Zenon, <1>7, <1>8
<1> QED BY Zenon, <1>7, <1>8, <1>10, <1>11, <1>14, <1>15, <1>16, OwnStep

(* A program is ended by an exception.                                     *)
LEMMA ExceptionKeeps ==
    ASSUME ContextTypeOK, Kept, handle_userspace_exception
    PROVE  ContextTypeOK' /\ Kept'
<1>1. cpu \in RegisterSets /\ "dead" \in Places /\ "dead" \notin Programs /\ "dead" \notin Calls
  BY Zenon DEF ContextTypeOK, Places, Calls, Programs
<1>2. Enter(cpu, "dead")
  BY Zenon DEF handle_userspace_exception
<1>3. /\ current \in Procs /\ cr3 = current /\ esp0 = Window /\ cpu.th = current
      /\ current # Idle /\ current \in Everyone /\ cpu.at # "idle"
      /\ cpu.at \in Programs /\ InProgram(cpu, want[current])
      /\ cpu' \in RegisterSets /\ cpu'.th = current /\ cpu'.at = "dead" /\ cpu'.esp = <<Window, 1>>
      /\ memory' \in [Everyone -> [1 .. 2 -> RegisterSets \cup {None}]]
      /\ \A t \in Everyone : t # current => memory'[t] = memory[t]
      /\ frame_stack' \in Seq(Addresses) /\ exits' \in Seq(SavedStates \cup {None})
      /\ Len(frame_stack') = Len(exits') /\ Len(frame_stack') >= Len(frame_stack) + 1
      /\ \A i \in 1 .. Len(frame_stack') : frame_stack'[i] = <<Window, 1>>
      /\ \A i \in 1 .. Len(exits') : ExitRight(exits'[i])
  BY Zenon, <1>1, <1>2, Entered
<1>4. /\ UNCHANGED <<cr3, esp0, current, has_started, registers, asserted, crossed, want>>
      /\ alive' \subseteq alive
  BY Zenon DEF handle_userspace_exception
<1>5. ContextTypeOK'
  BY Zenon, <1>3, <1>4 DEF ContextTypeOK
<1>6. InKernel(current, cpu', memory'[current][1], want'[current])
  BY Zenon, <1>3 DEF InKernel
<1>7. GoesRight(current, cpu)'
  BY Zenon, <1>1, <1>3, <1>4, <1>6 DEF GoesRight, KernelMode
<1>8. registers'[current] # None
  BY Zenon, <1>3, <1>4, ProcessRuns DEF Kept
<1>9. cpu'.at # "copied" /\ cpu'.at \notin Calls /\ esp0' = Window
  BY Zenon, <1>1, <1>3, <1>4
<1> QED BY Zenon, <1>3, <1>4, <1>5, <1>7, <1>8, <1>9, OwnStep

----------------------------------------------------------------------------
(* A switch keeps the invariant, when every thread goes on with the        *)
(* registers that it had.                                                  *)
LEMMA SwitchStep ==
    ASSUME ContextTypeOK, Kept, ContextTypeOK',
           NEW next \in Everyone, next \in alive \cup {Idle}, current' = next, cr3' = next, asserted',
           UNCHANGED <<alive, frame_stack, exits, want>>,
           has_started' = [has_started EXCEPT ![next] = TRUE],
           \A t \in Everyone : has_started'[t] => GoesRight(t, Goes(t))',
           \A t \in Everyone : has_started[t] => Goes(t)' = Goes(t),
           ~has_started[next] => Goes(next)'.at = StartPlace(next),
           \A t \in Everyone : has_started[t] /\ t # next => SavedRight(t, registers[t], Goes(t))',
           \A t \in Everyone : ~has_started[t] => registers'[t] = registers[t],
           \A t \in Everyone : registers'[t] = None => registers[t] = None,
           \A p \in Procs : has_started'[p] => esp0' = Window
    PROVE  Kept'
<1>1. /\ next # None /\ Idle \in Everyone /\ Procs \subseteq Everyone
      /\ \A t \in Everyone : t # Idle => t \in Procs
      /\ \A t \in Procs : t # Idle
  BY Zenon, ContextSets
<1>2. /\ has_started'[next] /\ \A t \in Everyone : t # next => has_started'[t] = has_started[t]
      /\ \A t \in Everyone : has_started[t] => has_started'[t]
  BY Zenon DEF ContextTypeOK
<1>3. \A t \in Everyone : has_started'[t] /\ t # current' => SavedRight(t, registers[t], Goes(t))'
  BY Zenon, <1>2
<1>4. \A t \in Everyone : ~has_started'[t] /\ t \in alive' \cup {Idle} => StartRight(t)'
  <2> SUFFICES ASSUME NEW t \in Everyone, ~has_started'[t], t \in alive' \cup {Idle}
               PROVE  StartRight(t)'
    BY Zenon
  <2>1. ~has_started[t] /\ StartRight(t)
    BY Zenon, <1>2 DEF Kept
  <2>2. registers'[t] = registers[t] /\ want' = want
    BY Zenon, <2>1
  <2> QED BY Zenon, <2>1, <2>2 DEF StartRight, StartPlace, create_initial_state
<1>5. StartPlace(next) \notin Calls
  BY Zenon DEF StartPlace, Calls
<1>6. \A p \in Procs : has_started'[p] /\ Goes(p)'.at \in Calls => has_started[p] /\ Goes(p)' = Goes(p)
  BY Zenon, <1>1, <1>2, <1>5
<1>7. \A p \in Procs : Forking(p)' => Forking(p) /\ Goes(p)' = Goes(p)
  <2>1. "copied" \in Calls
    BY Zenon DEF Calls
  <2> QED BY Zenon, <1>6, <2>1 DEF Forking
<1>8. \A p \in Procs : Forking(p)' => ChildRight(p, Goes(p).eax)'
  <2> SUFFICES ASSUME NEW p \in Procs, Forking(p)' PROVE ChildRight(p, Goes(p).eax)'
    BY Zenon
  <2>1. PICK c : c = Goes(p).eax
    BY Zenon
  <2>2. ChildRight(p, c) /\ Goes(p)' = Goes(p)
    BY Zenon, <1>7, <2>1 DEF Kept
  <2>3. c \in Procs /\ c \in Everyone /\ c # next /\ ~has_started[c] /\ ~has_started'[c]
    BY Zenon, <1>1, <1>2, <2>2 DEF ChildRight
  <2>4. registers'[c] = registers[c]
    BY Zenon, <2>3
  <2>5. ChildRight(p, c)'
    BY Zenon, <2>2, <2>3, <2>4 DEF ChildRight
  <2> QED BY Zenon, <2>1, <2>2, <2>5 DEF ChildRight
<1>9. \A p, q \in Procs : Forking(p)' /\ Forking(q)' /\ Goes(p).eax' = Goes(q).eax' => p = q
  BY Zenon, <1>7 DEF Kept
<1>10. \A t \in Procs : registers'[t] = None => t \notin alive' /\ ~has_started'[t]
  BY Zenon, <1>1, <1>2 DEF Kept
<1>11. Injects(InCall', Len(frame_stack'))
  <2>1. InCall' \subseteq InCall
    BY Zenon, <1>6 DEF InCall
  <2>2. /\ frame_stack \in Seq(Addresses) /\ frame_stack' = frame_stack
        /\ Injects(InCall, Len(frame_stack))
    BY Zenon DEF ContextTypeOK, Kept
  <2>3. Len(frame_stack) \in Nat /\ Len(frame_stack') \in Nat /\ Len(frame_stack') >= Len(frame_stack)
    BY <2>2
  <2> QED BY Zenon, <2>1, <2>2, <2>3, InjectsFewer
<1>12. /\ \A i \in 1 .. Len(frame_stack') : frame_stack'[i] = <<Window, 1>>
       /\ \A i \in 1 .. Len(exits') : ExitRight(exits[i])'
  BY Zenon DEF Kept, ExitRight
<1>13. current' # None /\ cr3' = current' /\ has_started'[current']
  BY Zenon, <1>1, <1>2
<1> QED BY Zenon, <1>3, <1>4, <1>8, <1>9, <1>10, <1>11, <1>12, <1>13 DEF Kept

(* The frame of a tick: on the own stack of the current thread, below the  *)
(* frame of its call.                                                      *)
LEMMA TickFrame ==
    ASSUME ContextTypeOK, Kept, current # None, NEW k,
           k = IF current # Idle /\ KernelMode(cpu) THEN 2 ELSE 1
    PROVE  /\ current \in Everyone /\ cr3 = current /\ has_started[current]
           /\ GoesRight(current, cpu) /\ Goes(current) = cpu
           /\ k \in 1 .. 2 /\ NewFrame = <<kernel_stack(current), k>>
           /\ Put(NewFrame, cpu) = [memory EXCEPT ![current][k] = cpu]
           /\ update_thread_context(cpu, NewFrame) \in SavedStates
           /\ SavedRight(current, update_thread_context(cpu, NewFrame), cpu)
           /\ update_thread_context(cpu, NewFrame).frame[2] = k
<1>1. current \in Everyone /\ cr3 = current /\ has_started[current]
  BY Zenon DEF ContextTypeOK, Kept
<1>2. GoesRight(current, cpu) /\ Goes(current) = cpu
  <2>1. Goes(current) = cpu
    BY Zenon DEF Goes
  <2> QED BY Zenon, <1>1, <2>1 DEF Kept
<1>3. k \in 1 .. 2
  OBVIOUS
<1>4. NewFrame = <<kernel_stack(current), k>>
  <2>1. CASE current = Idle
    <3>1. cpu.at = "idle" /\ cpu.esp = <<Idle, 0>>
      BY Zenon, <1>2, <2>1 DEF GoesRight
    <3>2. KernelMode(cpu)
      BY Zenon, <3>1 DEF KernelMode, Programs
    <3>3. NewFrame = <<cpu.esp[1], cpu.esp[2] + 1>>
      BY Zenon, <3>2 DEF NewFrame
    <3> QED BY <2>1, <3>1, <3>3, ContextSets
  <2>2. CASE current # Idle /\ KernelMode(cpu)
    <3>1. cpu.esp = <<Window, 1>>
      BY Zenon, <1>2, <2>2 DEF GoesRight, InKernel
    <3>2. NewFrame = <<cpu.esp[1], cpu.esp[2] + 1>>
      BY Zenon, <2>2 DEF NewFrame
    <3>3. kernel_stack(current) = Window
      BY Zenon, <1>1, <2>2, ContextSets
    <3> QED BY <2>2, <3>1, <3>2, <3>3
  <2>3. CASE current # Idle /\ ~KernelMode(cpu)
    <3>1. current \in Procs /\ kernel_stack(current) = Window
      BY Zenon, <1>1, <2>3, ContextSets
    <3>2. esp0 = Window
      BY Zenon, <1>1, <3>1 DEF Kept
    <3> QED BY Zenon, <2>3, <3>1, <3>2 DEF NewFrame
  <2> QED BY Zenon, <2>1, <2>2, <2>3
<1>5. Put(NewFrame, cpu) = [memory EXCEPT ![current][k] = cpu]
  <2>1. Owner(NewFrame, cr3) = current
    <3>1. NewFrame[1] = kernel_stack(current)
      BY <1>4
    <3> QED BY Zenon, <1>1, <3>1, ContextSets DEF Owner, kernel_stack, create_kernel_thread
  <2>2. NewFrame[2] = k
    BY <1>4
  <2> QED BY Zenon, <2>1, <2>2 DEF Put
<1>6. NewFrame \in Addresses
  <2>1. k \in 0 .. 2
    OBVIOUS
  <2> QED BY Zenon, <1>1, <1>4, <2>1, ContextSets
<1>7. PICK s : s = update_thread_context(cpu, NewFrame)
  BY Zenon
<1>8. s = [cs |-> IF KernelMode(cpu) THEN "kernel" ELSE "user", cr3 |-> current, at |-> None,
           eax |-> None, frame |-> NewFrame]
  BY Zenon, <1>1, <1>7 DEF update_thread_context
<1>9. s \in SavedStates
  BY Zenon, <1>1, <1>6, <1>8, ContextSets DEF SavedStates
<1>10. /\ s.cr3 = current /\ s.frame = NewFrame
       /\ s.cs = IF KernelMode(cpu) THEN "kernel" ELSE "user"
  BY Zenon, <1>8
<1>11. SavedRight(current, s, cpu)
  BY Zenon, <1>4, <1>9, <1>10 DEF SavedRight
<1>12. s.frame[2] = k
  BY <1>4, <1>10
<1> QED BY Zenon, <1>1, <1>2, <1>3, <1>4, <1>5, <1>7, <1>9, <1>11, <1>12

(* What a tick does, by cases.                                             *)
LEMMA TickCases ==
    ASSUME ContextTypeOK, Kept, NEW next \in Everyone, timer_tick(next)
    PROVE  /\ next \in alive \cup {Idle} /\ next # None
           /\ current' = next /\ has_started' = [has_started EXCEPT ![next] = TRUE]
           /\ UNCHANGED <<alive, frame_stack, exits, crossed, want>>
           /\ current # None =>
                registers' = [registers EXCEPT ![current] = update_thread_context(cpu, NewFrame)]
           /\ current = None => registers' = registers
           /\ current = next => UNCHANGED <<cpu, cr3, esp0, asserted, memory>>
           /\ current = None => initial_enter_thread_context(next) /\ memory' = memory
           /\ current \notin {next, None} /\ ~has_started[next] =>
                enter_new_thread_context(next) /\ memory' = Put(NewFrame, cpu)
           /\ current \notin {next, None} /\ has_started[next] =>
                /\ enter_thread_context(next, Frame(registers[next].frame, registers[next].cr3))
                /\ memory' = Popped(Put(NewFrame, cpu), registers[next].frame, registers[next].cr3)
<1>1. next # None
  BY Zenon, ContextSets
<1>2. /\ next \in alive \cup {Idle}
      /\ current' = next /\ has_started' = [has_started EXCEPT ![next] = TRUE]
      /\ UNCHANGED <<alive, frame_stack, exits, crossed, want>>
  BY Zenon DEF timer_tick
<1>3. current # None => has_started[current]
  BY Zenon DEF Kept
<1>4. /\ current # None =>
           registers' = [registers EXCEPT ![current] = update_thread_context(cpu, NewFrame)]
      /\ current = None => registers' = registers
  BY Zenon, <1>3 DEF timer_tick
<1>5. current = next => UNCHANGED <<cpu, cr3, esp0, asserted, memory>>
  BY Zenon, <1>1 DEF timer_tick
<1>6. current = None => initial_enter_thread_context(next) /\ memory' = memory
  BY Zenon, <1>1 DEF timer_tick
<1>7. current \notin {next, None} /\ ~has_started[next] =>
        enter_new_thread_context(next) /\ memory' = Put(NewFrame, cpu)
  BY Zenon, <1>3 DEF timer_tick
<1>8. current \notin {next, None} /\ has_started[next] =>
        /\ enter_thread_context(next, Frame(registers[next].frame, registers[next].cr3))
        /\ memory' = Popped(Put(NewFrame, cpu), registers[next].frame, registers[next].cr3)
  BY Zenon, <1>3 DEF timer_tick
<1> QED BY Zenon, <1>1, <1>2, <1>4, <1>5, <1>6, <1>7, <1>8

(* The registers of a thread that starts.                                  *)
LEMMA StartsRight ==
    ASSUME ContextTypeOK, Kept, NEW next \in Everyone, next \in alive \cup {Idle}, ~has_started[next]
    PROVE  /\ StartRegs(next) \in RegisterSets /\ StartRegs(next).at = StartPlace(next)
           /\ GoesRight(next, StartRegs(next))
           /\ registers[next].cr3 = next
           /\ registers[next].cs = IF next = Idle THEN "kernel" ELSE "user"
<1>1. /\ registers[next] = create_initial_state(next, StartPlace(next))
      /\ next # Idle => want[next] = [at |-> "entry", eax |-> 0]
  BY Zenon DEF Kept, StartRight
<1>2. /\ registers[next].cr3 = next /\ registers[next].at = StartPlace(next)
      /\ registers[next].cs = IF next = Idle THEN "kernel" ELSE "user"
      /\ registers[next].eax = 0
  <2>1. PICK c, x : c = (IF next = Idle THEN "kernel" ELSE "user") /\ x = StartPlace(next)
    BY Zenon
  <2>2. PICK s : s = registers[next]
    BY Zenon
  <2>3. s = [cs |-> c, cr3 |-> next, at |-> x, eax |-> 0, frame |-> None]
    BY Zenon, <1>1, <2>1, <2>2 DEF create_initial_state
  <2>4. s.cr3 = next /\ s.at = x /\ s.cs = c /\ s.eax = 0
    BY Zenon, <2>3
  <2> QED BY Zenon, <2>1, <2>2, <2>4
<1>3. StartPlace(next) \in Places /\ 0 \in Values
  BY Zenon, ContextSets DEF StartPlace, Places, Programs
<1>4. <<kernel_stack(next), 0>> \in Addresses
  <2>1. 0 \in 0 .. 2
    OBVIOUS
  <2> QED BY Zenon, <2>1, ContextSets
<1>5. PICK r : r = StartRegs(next)
  BY Zenon
<1>6. r = [th |-> next, at |-> StartPlace(next), eax |-> 0, esp |-> <<kernel_stack(next), 0>>,
           exit |-> None]
  BY Zenon, <1>2, <1>5 DEF StartRegs, Regs
<1>7. /\ r \in RegisterSets /\ r.th = next /\ r.at = StartPlace(next) /\ r.eax = 0
      /\ r.esp = <<kernel_stack(next), 0>> /\ r.exit = None
  BY Zenon, <1>3, <1>4, <1>6 DEF RegisterSets
<1>8. next = Idle => r.at = "idle" /\ r.esp = <<Idle, 0>>
  BY Zenon, <1>7, ContextSets DEF StartPlace
<1>9. next # Idle => ~KernelMode(r) /\ InProgram(r, want[next])
  <2> SUFFICES ASSUME next # Idle PROVE ~KernelMode(r) /\ InProgram(r, want[next])
    BY Zenon
  <2>1. PICK w : w = want[next]
    BY Zenon
  <2>2. w = [at |-> "entry", eax |-> 0]
    BY Zenon, <1>1, <2>1
  <2>3. w.at = "entry" /\ w.eax = 0
    BY Zenon, <2>2
  <2>4. r.at = "entry"
    BY Zenon, <1>7 DEF StartPlace
  <2> QED BY Zenon, <1>7, <2>1, <2>3, <2>4 DEF KernelMode, Programs, InProgram
<1> QED BY Zenon, <1>2, <1>5, <1>7, <1>8, <1>9 DEF GoesRight

(* The first tick of a core.                                               *)
LEMMA FirstTickKeeps ==
    ASSUME ContextTypeOK, Kept, NEW next \in Everyone, timer_tick(next), current = None
    PROVE  ContextTypeOK' /\ Kept'
<1>1. /\ next \in alive \cup {Idle} /\ next # None
      /\ current' = next /\ has_started' = [has_started EXCEPT ![next] = TRUE]
      /\ UNCHANGED <<alive, frame_stack, exits, crossed, want>>
      /\ registers' = registers /\ initial_enter_thread_context(next) /\ memory' = memory
  BY Zenon, TickCases
<1>2. asserted /\ \A t \in Everyone : ~has_started[t]
  BY Zenon DEF Kept
<1>3. /\ StartRegs(next) \in RegisterSets /\ StartRegs(next).at = StartPlace(next)
      /\ GoesRight(next, StartRegs(next)) /\ registers[next].cr3 = next
  BY Zenon, <1>1, <1>2, StartsRight
<1>4. /\ esp0' = kernel_stack(next) /\ cr3' = next /\ cpu' = StartRegs(next) /\ asserted' = asserted
  BY Zenon, <1>1, <1>3 DEF initial_enter_thread_context
<1>5. has_started' \in [Everyone -> BOOLEAN] /\ \A t \in Everyone : has_started'[t] => t = next
  BY Zenon, <1>1, <1>2 DEF ContextTypeOK
<1>6. ContextTypeOK'
  BY Zenon, <1>1, <1>3, <1>4, <1>5, ContextSets DEF ContextTypeOK
<1>7. Goes(next)' = cpu'
  BY Zenon, <1>1 DEF Goes
<1>8. \A t \in Everyone : has_started'[t] => GoesRight(t, Goes(t))'
  <2>1. GoesRight(next, Goes(next))'
    BY Zenon, <1>1, <1>3, <1>4, <1>7 DEF GoesRight
  <2> QED BY Zenon, <1>5, <2>1
<1>9. \A p \in Procs : has_started'[p] => esp0' = Window
  BY Zenon, <1>4, <1>5, ContextSets
<1>10. Goes(next)'.at = StartPlace(next)
  BY Zenon, <1>3, <1>4, <1>7
<1> QED BY Zenon, <1>1, <1>2, <1>4, <1>6, <1>8, <1>9, <1>10, SwitchStep

(* A tick that goes on with the current thread.                            *)
LEMMA SameThreadKeeps ==
    ASSUME ContextTypeOK, Kept, NEW next \in Everyone, timer_tick(next), current = next
    PROVE  ContextTypeOK' /\ Kept'
<1>1. /\ next \in alive \cup {Idle} /\ current # None
      /\ current' = next /\ has_started' = [has_started EXCEPT ![next] = TRUE]
      /\ UNCHANGED <<alive, frame_stack, exits, crossed, want>>
      /\ UNCHANGED <<cpu, cr3, esp0, asserted, memory>>
      /\ registers' = [registers EXCEPT ![current] = update_thread_context(cpu, NewFrame)]
  BY Zenon, TickCases
<1>2. PICK k : k = IF current # Idle /\ KernelMode(cpu) THEN 2 ELSE 1
  BY Zenon
<1>3. PICK s : s = update_thread_context(cpu, NewFrame)
  BY Zenon
<1>4. cr3 = current /\ has_started[current] /\ s \in SavedStates
  BY Zenon, <1>1, <1>2, <1>3, TickFrame
<1>5. /\ registers' \in [Everyone -> SavedStates \cup {None}] /\ registers'[current] = s
      /\ \A t \in Everyone : t # current => registers'[t] = registers[t]
  BY Zenon, <1>1, <1>3, <1>4 DEF ContextTypeOK
<1>6. has_started' = has_started
  BY Zenon, <1>1, <1>4 DEF ContextTypeOK
<1>7. ContextTypeOK'
  BY Zenon, <1>1, <1>5, <1>6 DEF ContextTypeOK
<1>8. \A t \in Everyone : Goes(t)' = Goes(t)
  BY Zenon, <1>1, <1>5 DEF Goes
<1>9. \A t \in Everyone : has_started'[t] => GoesRight(t, Goes(t))'
  <2> SUFFICES ASSUME NEW t \in Everyone, has_started'[t] PROVE GoesRight(t, Goes(t))'
    BY Zenon
  <2>1. GoesRight(t, Goes(t))
    BY Zenon, <1>6 DEF Kept
  <2> QED BY Zenon, <1>1, <1>8, <2>1 DEF GoesRight
<1>10. \A t \in Everyone : has_started[t] /\ t # next => SavedRight(t, registers[t], Goes(t))'
  <2> SUFFICES ASSUME NEW t \in Everyone, has_started[t], t # next
               PROVE  SavedRight(t, registers[t], Goes(t))'
    BY Zenon
  <2>1. SavedRight(t, registers[t], Goes(t))
    BY Zenon DEF Kept
  <2> QED BY Zenon, <1>5, <1>8, <2>1 DEF SavedRight
<1>11. s # None
  BY Zenon, <1>4, ContextAssumption
<1>12. /\ \A t \in Everyone : ~has_started[t] => registers'[t] = registers[t]
       /\ \A t \in Everyone : registers'[t] = None => registers[t] = None
  BY Zenon, <1>4, <1>5, <1>11
<1>13. asserted' /\ cr3' = next /\ \A p \in Procs : has_started'[p] => esp0' = Window
  BY Zenon, <1>1, <1>4, <1>6 DEF Kept
<1> QED BY Zenon, <1>1, <1>4, <1>7, <1>8, <1>9, <1>10, <1>12, <1>13, SwitchStep

(* A frame that is put into memory.                                        *)
Frames == RegisterSets \cup {None}
Memories == [Everyone -> [1 .. 2 -> Frames]]
PutAt(m, t, n, f) == [m EXCEPT ![t][n] = f]
IsPut(w, m, t, n, f) ==
    /\ w \in Memories /\ w[t][n] = f /\ \A j \in 1 .. 2 : j # n => w[t][j] = m[t][j]
    /\ \A u \in Everyone : u # t => w[u] = m[u]
LEMMA FramePut ==
    ASSUME NEW m \in Memories, NEW t \in Everyone, NEW n \in 1 .. 2,
           NEW f \in Frames
    PROVE  IsPut(PutAt(m, t, n, f), m, t, n, f)
<1> DEFINE w == PutAt(m, t, n, f)
<1>1. PICK K : K = Frames
  BY Zenon
<1>2. m \in [Everyone -> [1 .. 2 -> K]] /\ f \in K
  BY Zenon, <1>1 DEF Memories
<1>3. PICK g : g = [m[t] EXCEPT ![n] = f]
  BY Zenon
<1>4. w = [m EXCEPT ![t] = g]
  BY Zenon, <1>3 DEF PutAt
<1> HIDE DEF w
<1>5. g \in [1 .. 2 -> K] /\ g[n] = f /\ \A j \in 1 .. 2 : j # n => g[j] = m[t][j]
  BY Zenon, <1>2, <1>3
<1>6. /\ w \in [Everyone -> [1 .. 2 -> K]] /\ w[t] = g
      /\ \A u \in Everyone : u # t => w[u] = m[u]
  BY Zenon, <1>2, <1>4, <1>5
<1>7. /\ w \in Memories /\ w[t][n] = f /\ \A j \in 1 .. 2 : j # n => w[t][j] = m[t][j]
      /\ \A u \in Everyone : u # t => w[u] = m[u]
  BY Zenon, <1>1, <1>5, <1>6 DEF Memories
<1>8. IsPut(w, m, t, n, f)
  BY Zenon, <1>7 DEF IsPut
<1> QED BY Zenon, <1>8 DEF w

(* The thread that a tick switches away goes on as it was.                 *)
LEMMA OutgoingKept ==
    ASSUME ContextTypeOK, Kept, NEW c, c = current, current # None, current' # c, want' = want,
           NEW k, k = IF c # Idle /\ KernelMode(cpu) THEN 2 ELSE 1,
           memory'[c][k] = cpu, k # 1 => memory'[c][1] = memory[c][1],
           registers' = [registers EXCEPT ![c] = update_thread_context(cpu, NewFrame)]
    PROVE  /\ registers' \in [Everyone -> SavedStates \cup {None}] /\ registers'[c] # None
           /\ \A t \in Everyone : t # c => registers'[t] = registers[t]
           /\ Goes(c)' = Goes(c) /\ GoesRight(c, Goes(c))' /\ SavedRight(c, registers[c], Goes(c))'
<1>1. PICK s, r : s = update_thread_context(cpu, NewFrame) /\ r = cpu
  BY Zenon
<1>2. /\ c \in Everyone /\ GoesRight(c, r) /\ Goes(c) = r
      /\ s \in SavedStates /\ SavedRight(c, s, r) /\ s.frame[2] = k
  BY Zenon, <1>1, TickFrame
<1>3. /\ registers' \in [Everyone -> SavedStates \cup {None}] /\ registers'[c] = s
      /\ \A t \in Everyone : t # c => registers'[t] = registers[t]
  BY Zenon, <1>1, <1>2 DEF ContextTypeOK
<1>4. s # None
  BY Zenon, <1>2, ContextAssumption
<1>5. Goes(c)' = r
  BY Zenon, <1>1, <1>2, <1>3 DEF Goes
<1>6. GoesRight(c, r)'
  <2>1. c # Idle /\ KernelMode(r) => k # 1
    BY <1>1
  <2> QED BY Zenon, <1>2, <2>1 DEF GoesRight
<1>7. SavedRight(c, s, r)'
  BY Zenon, <1>2 DEF SavedRight
<1>8. GoesRight(c, Goes(c))' /\ SavedRight(c, registers[c], Goes(c))'
  BY Zenon, <1>3, <1>5, <1>6, <1>7 DEF GoesRight, SavedRight
<1> QED BY Zenon, <1>2, <1>3, <1>4, <1>5, <1>8

(* Everyone but the two threads of a switch goes on as before.             *)
LEMMA OthersKept ==
    ASSUME ContextTypeOK, Kept, NEW c, c = current, NEW next, current' = next, want' = want,
           \A t \in Everyone : t # c => registers'[t] = registers[t],
           \A t \in Everyone \ {c, next} : memory'[t] = memory[t]
    PROVE  \A t \in Everyone \ {c, next} : has_started[t] =>
             /\ Goes(t)' = Goes(t) /\ GoesRight(t, Goes(t))' /\ SavedRight(t, registers[t], Goes(t))'
<1> SUFFICES ASSUME NEW t \in Everyone \ {c, next}, has_started[t]
             PROVE  /\ Goes(t)' = Goes(t) /\ GoesRight(t, Goes(t))'
                    /\ SavedRight(t, registers[t], Goes(t))'
  BY Zenon
<1>1. PICK r, s : r = Goes(t) /\ s = registers[t]
  BY Zenon
<1>2. GoesRight(t, r) /\ SavedRight(t, s, r)
  BY Zenon, <1>1 DEF Kept
<1>3. t # c /\ t # current' /\ registers'[t] = registers[t] /\ memory'[t] = memory[t]
  BY Zenon
<1>4. Goes(t)' = r
  BY Zenon, <1>1, <1>3 DEF Goes
<1>5. GoesRight(t, r)' /\ SavedRight(t, s, r)'
  BY Zenon, <1>2, <1>3 DEF GoesRight, SavedRight
<1> QED BY Zenon, <1>1, <1>3, <1>4, <1>5 DEF GoesRight, SavedRight

(* A tick that switches to a thread that never ran.                        *)
LEMMA SwitchToNewKeeps ==
    ASSUME ContextTypeOK, Kept, NEW next \in Everyone, timer_tick(next),
           current \notin {next, None}, ~has_started[next]
    PROVE  ContextTypeOK' /\ Kept'
<1>1. /\ next \in alive \cup {Idle} /\ next # None /\ current # None /\ current # next
      /\ current' = next /\ has_started' = [has_started EXCEPT ![next] = TRUE]
      /\ UNCHANGED <<alive, frame_stack, exits, crossed, want>>
      /\ registers' = [registers EXCEPT ![current] = update_thread_context(cpu, NewFrame)]
      /\ enter_new_thread_context(next) /\ memory' = Put(NewFrame, cpu)
  BY Zenon, TickCases
<1>2. PICK c, k : c = current /\ k = IF c # Idle /\ KernelMode(cpu) THEN 2 ELSE 1
  BY Zenon
<1>3. /\ c \in Everyone /\ cr3 = c /\ has_started[c] /\ k \in 1 .. 2
      /\ memory' = [memory EXCEPT ![c][k] = cpu] /\ cpu \in RegisterSets
  BY Zenon, <1>1, <1>2, TickFrame DEF ContextTypeOK
<1>4. /\ memory' \in [Everyone -> [1 .. 2 -> RegisterSets \cup {None}]]
      /\ memory'[c][k] = cpu /\ \A j \in 1 .. 2 : j # k => memory'[c][j] = memory[c][j]
      /\ \A t \in Everyone : t # c => memory'[t] = memory[t]
  <2>1. memory \in Memories /\ cpu \in Frames
    BY Zenon, <1>3 DEF ContextTypeOK, Memories, Frames
  <2>2. /\ memory' \in Memories
        /\ memory'[c][k] = cpu /\ \A j \in 1 .. 2 : j # k => memory'[c][j] = memory[c][j]
        /\ \A t \in Everyone : t # c => memory'[t] = memory[t]
    <3>1. memory' = PutAt(memory, c, k, cpu)
      BY Zenon, <1>3 DEF PutAt
    <3>2. c \in Everyone /\ k \in 1 .. 2
      BY Zenon, <1>3
    <3>3. IsPut(PutAt(memory, c, k, cpu), memory, c, k, cpu)
      BY Zenon, <2>1, <3>2, FramePut
    <3> QED BY Zenon, <3>1, <3>3 DEF IsPut
  <2> QED BY Zenon, <2>2 DEF Memories, Frames
<1>5. k # 1 => memory'[c][1] = memory[c][1]
  <2>1. 1 \in 1 .. 2
    OBVIOUS
  <2> QED BY Zenon, <1>4, <2>1
<1>6. /\ registers' \in [Everyone -> SavedStates \cup {None}] /\ registers'[c] # None
      /\ \A t \in Everyone : t # c => registers'[t] = registers[t]
      /\ Goes(c)' = Goes(c) /\ GoesRight(c, Goes(c))' /\ SavedRight(c, registers[c], Goes(c))'
  <2>1. /\ c = current /\ current # None /\ current' # c /\ want' = want
        /\ k = IF c # Idle /\ KernelMode(cpu) THEN 2 ELSE 1
        /\ registers' = [registers EXCEPT ![c] = update_thread_context(cpu, NewFrame)]
    BY Zenon, <1>1, <1>2
  <2>2. memory'[c][k] = cpu /\ (k # 1 => memory'[c][1] = memory[c][1])
    BY Zenon, <1>4, <1>5
  <2> QED BY Zenon, <2>1, <2>2, OutgoingKept
<1>7. \A t \in Everyone \ {c, next} : has_started[t] =>
        /\ Goes(t)' = Goes(t) /\ GoesRight(t, Goes(t))' /\ SavedRight(t, registers[t], Goes(t))'
  <2>1. want' = want /\ \A t \in Everyone \ {c, next} : memory'[t] = memory[t]
    BY Zenon, <1>1, <1>4
  <2>2. \A t \in Everyone : t # c => registers'[t] = registers[t]
    BY Zenon, <1>6
  <2>3. c = current /\ current' = next
    BY Zenon, <1>1, <1>2
  <2> QED BY Zenon, <2>1, <2>2, <2>3, OthersKept
<1>8. /\ StartRegs(next) \in RegisterSets /\ StartRegs(next).at = StartPlace(next)
      /\ GoesRight(next, StartRegs(next)) /\ registers[next].cr3 = next
      /\ registers[next].cs = IF next = Idle THEN "kernel" ELSE "user"
  BY Zenon, <1>1, StartsRight
<1>9. /\ esp0' = IF registers[next].cs = "user" THEN kernel_stack(next) ELSE esp0
      /\ cr3' = next /\ cpu' = StartRegs(next) /\ asserted' = asserted
  BY Zenon, <1>1, <1>8 DEF enter_new_thread_context
<1>10. esp0' = IF next = Idle THEN esp0 ELSE Window
  BY Zenon, <1>8, <1>9, ContextSets
<1>11. /\ has_started' \in [Everyone -> BOOLEAN]
       /\ \A t \in Everyone : t # next => has_started'[t] = has_started[t]
  BY Zenon, <1>1 DEF ContextTypeOK
<1>12. ContextTypeOK'
  BY Zenon, <1>1, <1>4, <1>6, <1>8, <1>9, <1>10, <1>11, ContextSets DEF ContextTypeOK
<1>13. Goes(next)' = cpu' /\ GoesRight(next, Goes(next))' /\ Goes(next)'.at = StartPlace(next)
  <2>1. Goes(next)' = cpu'
    BY Zenon, <1>1 DEF Goes
  <2>2. memory'[next] = memory[next]
    BY Zenon, <1>1, <1>2, <1>4
  <2>3. GoesRight(next, Goes(next))'
    BY Zenon, <1>1, <1>8, <1>9, <2>1, <2>2 DEF GoesRight
  <2> QED BY Zenon, <1>8, <1>9, <2>1, <2>3
<1>14. \A t \in Everyone : has_started'[t] => GoesRight(t, Goes(t))'
  BY Zenon, <1>6, <1>7, <1>11, <1>13
<1>15. \A t \in Everyone : has_started[t] => Goes(t)' = Goes(t)
  BY Zenon, <1>6, <1>7
<1>16. \A t \in Everyone : has_started[t] /\ t # next => SavedRight(t, registers[t], Goes(t))'
  BY Zenon, <1>6, <1>7
<1>17. /\ \A t \in Everyone : ~has_started[t] => registers'[t] = registers[t]
       /\ \A t \in Everyone : registers'[t] = None => registers[t] = None
  BY Zenon, <1>3, <1>6
<1>18. \A p \in Procs : has_started'[p] => esp0' = Window
  BY Zenon, <1>10, <1>11, ContextSets DEF Kept
<1>19. asserted'
  BY Zenon, <1>9 DEF Kept
<1> QED BY Zenon, <1>1, <1>9, <1>12, <1>13, <1>14, <1>15, <1>16, <1>17, <1>18, <1>19, SwitchStep

(* A tick that switches back to a thread.                                  *)
LEMMA SwitchBackKeeps ==
    ASSUME ContextTypeOK, Kept, NEW next \in Everyone, timer_tick(next),
           current \notin {next, None}, has_started[next]
    PROVE  ContextTypeOK' /\ Kept'
<1>1. /\ next \in alive \cup {Idle} /\ next # None /\ current # None /\ current # next
      /\ current' = next /\ has_started' = [has_started EXCEPT ![next] = TRUE]
      /\ UNCHANGED <<alive, frame_stack, exits, crossed, want>>
      /\ registers' = [registers EXCEPT ![current] = update_thread_context(cpu, NewFrame)]
      /\ enter_thread_context(next, Frame(registers[next].frame, registers[next].cr3))
      /\ memory' = Popped(Put(NewFrame, cpu), registers[next].frame, registers[next].cr3)
  BY Zenon, TickCases
<1>2. PICK c, k, j, r : /\ c = current /\ k = IF c # Idle /\ KernelMode(cpu) THEN 2 ELSE 1
                        /\ r = Goes(next)
                        /\ j = IF next # Idle /\ KernelMode(r) THEN 2 ELSE 1
  BY Zenon
<1>3. /\ c \in Everyone /\ cr3 = c /\ has_started[c] /\ k \in 1 .. 2 /\ cpu \in RegisterSets
      /\ Put(NewFrame, cpu) = PutAt(memory, c, k, cpu)
  BY Zenon, <1>1, <1>2, TickFrame DEF ContextTypeOK, PutAt
<1>4. GoesRight(next, r) /\ SavedRight(next, registers[next], r)
  BY Zenon, <1>1, <1>2 DEF Kept
<1>5. /\ registers[next].cr3 = next /\ registers[next].frame = <<kernel_stack(next), j>>
      /\ registers[next].cs = IF KernelMode(r) THEN "kernel" ELSE "user"
      /\ r \in RegisterSets /\ r.th = next
  BY Zenon, <1>2, <1>4 DEF SavedRight, GoesRight
<1>6. /\ registers[next].frame[1] = kernel_stack(next) /\ registers[next].frame[2] = j /\ j \in 1 .. 2
      /\ Owner(registers[next].frame, next) = next
  <2>1. registers[next].frame[1] = kernel_stack(next) /\ registers[next].frame[2] = j /\ j \in 1 .. 2
    BY <1>2, <1>5
  <2>2. Owner(registers[next].frame, next) = next
    BY Zenon, <2>1, ContextSets DEF Owner, kernel_stack, create_kernel_thread
  <2> QED BY Zenon, <2>1, <2>2
<1>7. r = memory[next][j]
  BY Zenon, <1>1, <1>2, <1>6 DEF Goes
<1>8. Frame(registers[next].frame, registers[next].cr3) = r
  BY Zenon, <1>5, <1>6, <1>7 DEF Frame
<1>9. /\ esp0' = IF registers[next].cs = "user" THEN kernel_stack(next) ELSE esp0
      /\ cr3' = next /\ cpu' = r /\ asserted'
  BY Zenon, <1>1, <1>5, <1>6, <1>8 DEF enter_thread_context, Kept
<1>10. memory' = PutAt(PutAt(memory, c, k, cpu), next, j, None)
  BY Zenon, <1>1, <1>3, <1>5, <1>6 DEF Popped, PutAt
<1>11. PICK m : m = PutAt(memory, c, k, cpu)
  BY Zenon
<1>12. /\ m \in Memories /\ m[c][k] = cpu
       /\ \A i \in 1 .. 2 : i # k => m[c][i] = memory[c][i]
       /\ \A t \in Everyone : t # c => m[t] = memory[t]
  <2>1. memory \in Memories /\ cpu \in Frames
    BY Zenon, <1>3 DEF ContextTypeOK, Memories, Frames
  <2>2. c \in Everyone /\ k \in 1 .. 2
    BY Zenon, <1>3
  <2>3. IsPut(PutAt(memory, c, k, cpu), memory, c, k, cpu)
    BY Zenon, <2>1, <2>2, FramePut
  <2> QED BY Zenon, <1>11, <2>3 DEF IsPut
<1>13. /\ memory' \in Memories /\ \A i \in 1 .. 2 : i # j => memory'[next][i] = m[next][i]
       /\ \A t \in Everyone : t # next => memory'[t] = m[t]
  <2>1. m \in Memories /\ None \in Frames /\ j \in 1 .. 2
    BY Zenon, <1>6, <1>12 DEF Frames
  <2>2. memory' = PutAt(m, next, j, None)
    BY Zenon, <1>10, <1>11
  <2>3. IsPut(PutAt(m, next, j, None), m, next, j, None)
    BY Zenon, <2>1, FramePut
  <2> QED BY Zenon, <2>2, <2>3 DEF IsPut
<1>14. /\ memory'[c][k] = cpu /\ (k # 1 => memory'[c][1] = memory[c][1])
       /\ (j # 1 => memory'[next][1] = memory[next][1])
       /\ \A t \in Everyone \ {c, next} : memory'[t] = memory[t]
  <2>1. 1 \in 1 .. 2 /\ c # next
    BY <1>1, <1>2
  <2>2. memory'[c] = m[c] /\ m[next] = memory[next]
    BY Zenon, <1>3, <1>12, <1>13, <2>1
  <2>3. (k # 1 => m[c][1] = memory[c][1]) /\ (j # 1 => memory'[next][1] = m[next][1])
    BY Zenon, <1>12, <1>13, <2>1
  <2>4. \A t \in Everyone \ {c, next} : memory'[t] = memory[t]
    BY Zenon, <1>12, <1>13
  <2> QED BY Zenon, <1>12, <2>2, <2>3, <2>4
<1>15. /\ registers' \in [Everyone -> SavedStates \cup {None}] /\ registers'[c] # None
       /\ \A t \in Everyone : t # c => registers'[t] = registers[t]
       /\ Goes(c)' = Goes(c) /\ GoesRight(c, Goes(c))' /\ SavedRight(c, registers[c], Goes(c))'
  <2>1. /\ c = current /\ current # None /\ current' # c /\ want' = want
        /\ k = IF c # Idle /\ KernelMode(cpu) THEN 2 ELSE 1
        /\ registers' = [registers EXCEPT ![c] = update_thread_context(cpu, NewFrame)]
    BY Zenon, <1>1, <1>2
  <2>2. memory'[c][k] = cpu /\ (k # 1 => memory'[c][1] = memory[c][1])
    BY Zenon, <1>14
  <2> QED BY Zenon, <2>1, <2>2, OutgoingKept
<1>16. \A t \in Everyone \ {c, next} : has_started[t] =>
         /\ Goes(t)' = Goes(t) /\ GoesRight(t, Goes(t))' /\ SavedRight(t, registers[t], Goes(t))'
  <2>1. want' = want /\ c = current /\ current' = next
    BY Zenon, <1>1, <1>2
  <2>2. \A t \in Everyone : t # c => registers'[t] = registers[t]
    BY Zenon, <1>15
  <2>3. \A t \in Everyone \ {c, next} : memory'[t] = memory[t]
    BY Zenon, <1>14
  <2> QED BY Zenon, <2>1, <2>2, <2>3, OthersKept
<1>17. has_started' = has_started
  BY Zenon, <1>1 DEF ContextTypeOK
<1>18. \A p \in Procs : has_started'[p] => esp0' = Window
  <2>1. CASE next = Idle
    <3>1. registers[next].cs = "kernel"
      <4>1. r.at = "idle"
        BY Zenon, <1>4, <2>1 DEF GoesRight
      <4> QED BY Zenon, <1>5, <4>1 DEF KernelMode, Programs
    <3>2. esp0' = esp0
      BY Zenon, <1>9, <3>1
    <3> QED BY Zenon, <1>17, <3>2 DEF Kept
  <2>2. CASE next # Idle
    <3>1. next \in Procs /\ kernel_stack(next) = Window
      BY Zenon, <2>2, ContextSets
    <3>2. esp0 = Window
      BY Zenon, <3>1 DEF Kept
    <3> QED BY Zenon, <1>9, <3>1, <3>2
  <2> QED BY Zenon, <2>1, <2>2
<1>19. ContextTypeOK'
  <2>1. esp0' \in Everyone \cup {Window}
    BY Zenon, <1>9, ContextSets DEF ContextTypeOK
  <2>2. memory' \in [Everyone -> [1 .. 2 -> RegisterSets \cup {None}]]
    BY Zenon, <1>13 DEF Memories, Frames
  <2>3. asserted' \in BOOLEAN
    BY Zenon, <1>1 DEF ContextTypeOK, enter_thread_context
  <2> QED BY Zenon, <1>1, <1>5, <1>9, <1>15, <1>17, <2>1, <2>2, <2>3 DEF ContextTypeOK
<1>20. Goes(next)' = r /\ GoesRight(next, Goes(next))'
  <2>1. Goes(next)' = cpu'
    BY Zenon, <1>1 DEF Goes
  <2>2. next # Idle /\ KernelMode(r) => j # 1
    BY <1>2
  <2>3. GoesRight(next, r)'
    BY Zenon, <1>1, <1>4, <1>14, <2>2 DEF GoesRight
  <2> QED BY Zenon, <1>9, <2>1, <2>3 DEF GoesRight
<1>21. \A t \in Everyone : has_started'[t] => GoesRight(t, Goes(t))'
  BY Zenon, <1>15, <1>16, <1>17, <1>20
<1>22. \A t \in Everyone : has_started[t] => Goes(t)' = Goes(t)
  BY Zenon, <1>2, <1>15, <1>16, <1>20
<1>23. \A t \in Everyone : has_started[t] /\ t # next => SavedRight(t, registers[t], Goes(t))'
  BY Zenon, <1>15, <1>16
<1>24. /\ \A t \in Everyone : ~has_started[t] => registers'[t] = registers[t]
       /\ \A t \in Everyone : registers'[t] = None => registers[t] = None
  BY Zenon, <1>3, <1>15
<1> QED BY Zenon, <1>1, <1>9, <1>18, <1>19, <1>21, <1>22, <1>23, <1>24, SwitchStep

(* A tick.                                                                 *)
LEMMA TickKeeps ==
    ASSUME ContextTypeOK, Kept, NEW next \in Everyone, timer_tick(next)
    PROVE  ContextTypeOK' /\ Kept'
<1>1. CASE current = None
  BY Zenon, <1>1, FirstTickKeeps
<1>2. CASE current = next
  BY Zenon, <1>2, SameThreadKeeps
<1>3. CASE current \notin {next, None} /\ ~has_started[next]
  BY Zenon, <1>3, SwitchToNewKeeps
<1>4. CASE current \notin {next, None} /\ has_started[next]
  BY Zenon, <1>4, SwitchBackKeeps
<1> QED BY Zenon, <1>1, <1>2, <1>3, <1>4

----------------------------------------------------------------------------
(* fork() copies the thread and its frame.                                 *)
LEMMA ForkThreadKeeps ==
    ASSUME ContextTypeOK, Kept, NEW child \in Procs, fork_thread(child)
    PROVE  ContextTypeOK' /\ Kept'
<1>1. /\ cpu.at = "call" /\ cpu.at \in Calls /\ cpu.at # "idle" /\ "copied" \in Places
      /\ "copied" \notin Programs /\ "copied" \in Calls
  BY Zenon DEF fork_thread, Calls, Places, Programs
<1>2. /\ current \in Procs /\ cr3 = current /\ esp0 = Window /\ cpu.th = current
      /\ current # Idle /\ cpu \in RegisterSets /\ current \in Everyone /\ has_started[current]
      /\ Goes(current) = cpu /\ current # None
  BY Zenon, <1>1, ProcessRuns
<1>3. /\ child \notin alive /\ registers[child] = None /\ ~has_started[child] /\ child # current
      /\ child \in Everyone /\ child # Idle /\ child \in Values
  BY Zenon, <1>2, ContextSets DEF fork_thread, Kept
<1>4. PICK f : f = memory[current][1]
  BY Zenon
<1>5. /\ InKernel(current, cpu, f, want[current]) /\ f \in RegisterSets
      /\ Frame(Top, cr3) = f /\ Top = <<Window, 1>>
  BY Zenon, <1>1, <1>4, CallFrame
<1>6. UNCHANGED <<cr3, esp0, current, alive, has_started, frame_stack, exits, asserted, crossed>>
  BY Zenon DEF fork_thread
<1>7. /\ cpu' \in RegisterSets /\ cpu'.th = current /\ cpu'.at = "copied" /\ cpu'.eax = child
      /\ cpu'.esp = cpu.esp
  <2>1. cpu' = [cpu EXCEPT !.at = "copied", !.eax = child]
    BY Zenon DEF fork_thread
  <2>2. [cpu EXCEPT !.at = "copied", !.eax = child] =
          [th |-> cpu.th, at |-> "copied", eax |-> child, esp |-> cpu.esp, exit |-> cpu.exit]
    BY Zenon, <1>2, OtherPlaceAndValue
  <2>3. cpu' = [th |-> current, at |-> "copied", eax |-> child, esp |-> cpu.esp, exit |-> cpu.exit]
    BY Zenon, <1>2, <2>1, <2>2
  <2> QED BY Zenon, <1>1, <1>2, <1>3, <2>3, RegisterFields DEF RegisterSets
<1>8. PICK g : g = [th |-> f.th, at |-> f.at, eax |-> 0, esp |-> f.esp, exit |-> f.exit]
  BY Zenon
<1>9. g \in RegisterSets /\ g.th = f.th /\ g.at = f.at /\ g.eax = 0 /\ g.exit = f.exit /\ g # None
  <2>1. g \in RegisterSets /\ g.th = f.th /\ g.at = f.at /\ g.eax = 0 /\ g.exit = f.exit
    BY Zenon, <1>5, <1>8, RegisterFields, ContextSets DEF RegisterSets
  <2> QED BY Zenon, <2>1, ContextAssumption
<1>10. /\ memory' \in [Everyone -> [1 .. 2 -> RegisterSets \cup {None}]]
       /\ memory'[current][1] = g
       /\ \A t \in Everyone : t # current => memory'[t] = memory[t]
  <2>1. memory' = Put(Top, g)
    BY Zenon, <1>5, <1>8, OtherRegisters DEF fork_thread
  <2> QED BY Zenon, <1>1, <1>9, <2>1, OwnFrameWritten
<1>11. want[current] \in [at : Programs, eax : Values]
  BY Zenon, <1>2 DEF ContextTypeOK
<1>12. PICK w : w = [at |-> want[current].at, eax |-> 0]
  BY Zenon
<1>13. w \in [at : Programs, eax : Values]
  BY Zenon, <1>11, <1>12, ContextSets
<1>14. /\ want' \in [Procs -> [at : Programs, eax : Values]] /\ want'[child] = w
       /\ \A p \in Procs : p # child => want'[p] = want[p]
  <2>1. want' = [want EXCEPT ![child] = w] /\ want \in [Procs -> [at : Programs, eax : Values]]
    BY Zenon, <1>2, <1>12 DEF fork_thread, ContextTypeOK
  <2> QED BY Zenon, <1>13, <2>1
<1>15. PICK s : s = [cs |-> "user", cr3 |-> child, at |-> None, eax |-> 0, frame |-> <<Window, 1>>]
  BY Zenon
<1>16. s \in SavedStates /\ s # None
  <2>1. <<Window, 1>> \in Addresses
    BY Zenon, WindowAddress
  <2>2. s \in SavedStates
    BY Zenon, <1>3, <1>15, <2>1, ContextSets DEF SavedStates
  <2> QED BY Zenon, <2>2, ContextAssumption
<1>17. /\ registers' \in [Everyone -> SavedStates \cup {None}] /\ registers'[child] = s
       /\ \A t \in Everyone : t # child => registers'[t] = registers[t]
  <2>1. ~KernelMode(f)
    BY Zenon, <1>1, <1>5, <1>11 DEF InKernel, KernelMode
  <2>2. update_thread_context(f, Top) =
          [cs |-> "user", cr3 |-> current, at |-> None, eax |-> None, frame |-> <<Window, 1>>]
    BY Zenon, <1>2, <1>5, <2>1 DEF update_thread_context
  <2>3. PICK u : u = update_thread_context(f, Top)
    BY Zenon
  <2>4. [u EXCEPT !.eax = 0, !.cr3 = child] = s
    <3>1. PICK v : v = [u EXCEPT !.eax = 0]
      BY Zenon
    <3>2. v = [cs |-> "user", cr3 |-> current, at |-> None, eax |-> 0, frame |-> <<Window, 1>>]
      BY SMT, <2>2, <2>3, <3>1
    <3>3. [v EXCEPT !.cr3 = child] = s
      BY SMT, <1>15, <3>2
    <3>4. [u EXCEPT !.eax = 0, !.cr3 = child] = [v EXCEPT !.cr3 = child]
      BY Zenon, <3>1
    <3> QED BY Zenon, <3>3, <3>4
  <2>5. registers' = [registers EXCEPT ![child] = s]
    BY Zenon, <1>5, <2>3, <2>4 DEF fork_thread
  <2> QED BY Zenon, <1>3, <1>16, <2>5 DEF ContextTypeOK
<1>18. ContextTypeOK'
  BY Zenon, <1>6, <1>7, <1>10, <1>14, <1>17 DEF ContextTypeOK
<1>19. \A t \in Everyone : t # current /\ has_started[t] =>
         /\ t # child /\ Goes(t)' = Goes(t)
         /\ GoesRight(t, Goes(t))' /\ SavedRight(t, registers[t], Goes(t))'
  <2> SUFFICES ASSUME NEW t \in Everyone, t # current, has_started[t]
               PROVE  /\ t # child /\ Goes(t)' = Goes(t)
                      /\ GoesRight(t, Goes(t))' /\ SavedRight(t, registers[t], Goes(t))'
    BY Zenon
  <2>1. PICK r, v : r = Goes(t) /\ v = registers[t]
    BY Zenon
  <2>2. GoesRight(t, r) /\ SavedRight(t, v, r)
    BY Zenon, <2>1 DEF Kept
  <2>3. /\ t # child /\ registers'[t] = registers[t] /\ memory'[t] = memory[t]
        /\ t # Idle => want'[t] = want[t]
    BY Zenon, <1>3, <1>10, <1>14, <1>17, ContextSets
  <2>4. Goes(t)' = r
    BY Zenon, <1>6, <2>1, <2>3 DEF Goes
  <2>5. GoesRight(t, r)' /\ SavedRight(t, v, r)'
    BY Zenon, <2>2, <2>3 DEF GoesRight, SavedRight
  <2> QED BY Zenon, <2>1, <2>3, <2>4, <2>5 DEF GoesRight, SavedRight
<1>20. Goes(current)' = cpu' /\ GoesRight(current, cpu)' /\ want'[current] = want[current]
  <2>1. Goes(current)' = cpu' /\ want'[current] = want[current]
    BY Zenon, <1>2, <1>3, <1>6, <1>14 DEF Goes
  <2>2. InKernel(current, cpu', g, want[current])
    BY Zenon, <1>1, <1>5, <1>7, <1>9 DEF InKernel, Calls
  <2> QED BY Zenon, <1>1, <1>2, <1>6, <1>7, <1>10, <2>1, <2>2 DEF GoesRight, KernelMode
<1>21. \A t \in Everyone : has_started'[t] => GoesRight(t, Goes(t))'
  <2>1. GoesRight(current, Goes(current))'
    BY Zenon, <1>20 DEF GoesRight
  <2> QED BY Zenon, <1>6, <1>19, <2>1
<1>22. \A t \in Everyone : has_started'[t] /\ t # current' => SavedRight(t, registers[t], Goes(t))'
  BY Zenon, <1>6, <1>19
<1>23. \A t \in Everyone : ~has_started'[t] /\ t \in alive' \cup {Idle} => StartRight(t)'
  <2> SUFFICES ASSUME NEW t \in Everyone, ~has_started'[t], t \in alive' \cup {Idle}
               PROVE  StartRight(t)'
    BY Zenon
  <2>1. StartRight(t) /\ t # child
    BY Zenon, <1>3, <1>6 DEF Kept
  <2>2. registers'[t] = registers[t] /\ (t # Idle => want'[t] = want[t])
    BY Zenon, <1>14, <1>17, <2>1, ContextSets
  <2> QED BY Zenon, <2>1, <2>2 DEF StartRight, StartPlace, create_initial_state
<1>24. \A p \in Procs : Forking(p)' /\ p # current =>
         Forking(p) /\ Goes(p)' = Goes(p) /\ Goes(p).eax # child
  <2> SUFFICES ASSUME NEW p \in Procs, Forking(p)', p # current
               PROVE  Forking(p) /\ Goes(p)' = Goes(p) /\ Goes(p).eax # child
    BY Zenon
  <2>1. has_started[p] /\ Goes(p)' = Goes(p)
    BY Zenon, <1>6, <1>19, ContextSets DEF Forking
  <2>2. Forking(p)
    BY Zenon, <2>1 DEF Forking
  <2>3. ChildRight(p, Goes(p).eax)
    BY Zenon, <2>2 DEF Kept
  <2>4. registers[Goes(p).eax] # None
    <3>1. PICK d, v : d = Goes(p).eax /\ v = registers[d]
      BY Zenon
    <3>2. v = [cs |-> "user", cr3 |-> d, at |-> None, eax |-> 0, frame |-> <<Window, 1>>]
          /\ d \in Everyone
      BY Zenon, <2>3, <3>1, ContextSets DEF ChildRight
    <3>3. <<Window, 1>> \in Addresses
      BY Zenon, WindowAddress
    <3>4. v \in SavedStates
      BY Zenon, <3>2, <3>3, ContextSets DEF SavedStates
    <3> QED BY Zenon, <3>1, <3>4, ContextAssumption
  <2> QED BY Zenon, <1>3, <2>1, <2>2, <2>4
<1>25. ChildRight(current, child)'
  BY Zenon, <1>3, <1>6, <1>12, <1>14, <1>15, <1>17, <1>20 DEF ChildRight
<1>26. \A p \in Procs : Forking(p)' => ChildRight(p, Goes(p).eax)'
  <2> SUFFICES ASSUME NEW p \in Procs, Forking(p)' PROVE ChildRight(p, Goes(p).eax)'
    BY Zenon
  <2>1. CASE p = current
    <3>1. Goes(p).eax' = child
      BY Zenon, <1>6, <1>7, <2>1 DEF Goes
    <3> QED BY Zenon, <1>25, <1>6, <2>1, <3>1 DEF ChildRight
  <2>2. CASE p # current
    <3>1. PICK d : d = Goes(p).eax
      BY Zenon
    <3>2. ChildRight(p, d) /\ Goes(p)' = Goes(p) /\ d # child /\ has_started[p]
      BY Zenon, <1>24, <2>2, <3>1 DEF Kept, Forking
    <3>3. d \in Procs /\ d \in Everyone /\ p # child
      BY Zenon, <1>3, <3>2, ContextSets DEF ChildRight
    <3>4. registers'[d] = registers[d] /\ want'[d] = want[d] /\ want'[p] = want[p]
      BY Zenon, <1>14, <1>17, <3>2, <3>3
    <3>5. ChildRight(p, d)'
      BY Zenon, <1>6, <3>2, <3>4 DEF ChildRight
    <3> QED BY Zenon, <3>1, <3>2, <3>5 DEF ChildRight
  <2> QED BY Zenon, <2>1, <2>2
<1>27. \A p, q \in Procs : Forking(p)' /\ Forking(q)' /\ Goes(p).eax' = Goes(q).eax' => p = q
  <2> SUFFICES ASSUME NEW p \in Procs, NEW q \in Procs, Forking(p)', Forking(q)',
                      Goes(p).eax' = Goes(q).eax'
               PROVE  p = q
    BY Zenon
  <2>1. \A t : t = current => Goes(t).eax' = child
    BY Zenon, <1>6, <1>7 DEF Goes
  <2>2. \A x, y \in Procs : Forking(x) /\ Forking(y) /\ Goes(x).eax = Goes(y).eax => x = y
    BY Zenon DEF Kept
  <2>3. p # current => Forking(p) /\ Goes(p).eax' = Goes(p).eax /\ Goes(p).eax # child
    BY Zenon, <1>24
  <2>4. q # current => Forking(q) /\ Goes(q).eax' = Goes(q).eax /\ Goes(q).eax # child
    BY Zenon, <1>24
  <2> QED BY Zenon, <2>1, <2>2, <2>3, <2>4
<1>28. \A t \in Procs : registers'[t] = None => t \notin alive' /\ ~has_started'[t]
  BY Zenon, <1>6, <1>16, <1>17, ContextSets DEF Kept
<1>29. Injects(InCall', Len(frame_stack'))
  <2>1. \A p \in Procs : p \in InCall' <=> p \in InCall
    BY Zenon, <1>1, <1>2, <1>6, <1>7, <1>19, <1>20, ContextSets DEF InCall
  <2>2. InCall' = InCall
    BY Zenon, <2>1 DEF InCall
  <2> QED BY Zenon, <1>6, <2>2 DEF Kept
<1>30. /\ \A i \in 1 .. Len(frame_stack') : frame_stack'[i] = <<Window, 1>>
       /\ \A i \in 1 .. Len(exits') : ExitRight(exits[i])'
       /\ \A p \in Procs : has_started'[p] => esp0' = Window
  BY Zenon, <1>6 DEF Kept, ExitRight
<1>31. asserted' /\ current' # None /\ cr3' = current' /\ has_started'[current']
  BY Zenon, <1>2, <1>6 DEF Kept
<1> QED
  BY Zenon, <1>18, <1>21, <1>22, <1>23, <1>26, <1>27, <1>28, <1>29, <1>30, <1>31 DEF Kept

(* fork() copies the space; the child goes on from the frame of the call.  *)
LEMMA ForkSpaceKeeps ==
    ASSUME ContextTypeOK, Kept, fork_space
    PROVE  ContextTypeOK' /\ Kept'
<1>1. cpu.at = "copied" /\ cpu.at \in Calls /\ cpu.at # "idle"
  BY Zenon DEF fork_space, Calls
<1>2. /\ current \in Procs /\ cr3 = current /\ esp0 = Window /\ cpu.th = current
      /\ current # Idle /\ cpu \in RegisterSets /\ current \in Everyone /\ has_started[current]
      /\ Goes(current) = cpu /\ current # None
  BY Zenon, <1>1, ProcessRuns
<1>3. PICK child, f : child = cpu.eax /\ f = memory[current][1]
  BY Zenon
<1>4. InKernel(current, cpu, f, want[current]) /\ f \in RegisterSets
  BY Zenon, <1>1, <1>3, CallFrame
<1>5. Forking(current)
  BY Zenon, <1>1, <1>2 DEF Forking
<1>6. ChildRight(current, child)
  BY Zenon, <1>2, <1>3, <1>5 DEF Kept
<1>7. /\ child \in Procs /\ child # current /\ child \notin alive /\ ~has_started[child]
      /\ registers[child] = [cs |-> "user", cr3 |-> child, at |-> None, eax |-> 0,
                             frame |-> <<Window, 1>>]
      /\ want[child] = [at |-> want[current].at, eax |-> 0]
      /\ child \in Everyone /\ child # Idle /\ child \in Values /\ kernel_stack(child) = Window
  BY Zenon, <1>6, ContextSets DEF ChildRight
<1>8. /\ UNCHANGED <<cr3, esp0, current, registers, frame_stack, exits, asserted, crossed>>
      /\ alive' = alive \cup {child} /\ Returns(child)
      /\ has_started' = [has_started EXCEPT ![child] = has_started[current]]
  BY Zenon, <1>2, <1>3 DEF fork_space
<1>9. /\ cpu' \in RegisterSets /\ cpu'.th = current /\ cpu'.at = "result" /\ cpu'.eax = child
      /\ cpu'.esp = cpu.esp /\ KernelMode(cpu')
      /\ want' \in [Procs -> [at : Programs, eax : Values]]
      /\ want'[current].at = want[current].at /\ want'[current].eax = child
      /\ \A p \in Procs : p # current => want'[p] = want[p]
  BY Zenon, <1>2, <1>7, <1>8, ReturnsValue
<1>10. /\ has_started' \in [Everyone -> BOOLEAN] /\ has_started'[child]
       /\ \A t \in Everyone : t # child => has_started'[t] = has_started[t]
  <2>1. has_started \in [Everyone -> BOOLEAN]
    BY Zenon DEF ContextTypeOK
  <2> QED BY Zenon, <1>2, <1>7, <1>8, <2>1
<1>11. PICK m, n : m = memory[current] /\ n = [i \in 1 .. 2 |-> IF m[i] = None THEN None
                                                      ELSE [m[i] EXCEPT !.th = child]]
  BY Zenon
<1>12. m \in [1 .. 2 -> Frames] /\ memory \in [Everyone -> [1 .. 2 -> Frames]] /\ m[1] = f
  BY Zenon, <1>2, <1>3, <1>11 DEF ContextTypeOK, Frames
<1>13. \A r \in RegisterSets : [r EXCEPT !.th = child] \in RegisterSets
  <2> SUFFICES ASSUME NEW r \in RegisterSets PROVE [r EXCEPT !.th = child] \in RegisterSets
    BY Zenon
  <2>1. [r EXCEPT !.th = child] =
          [th |-> child, at |-> r.at, eax |-> r.eax, esp |-> r.esp, exit |-> r.exit]
    BY Zenon, OtherRegisters
  <2> QED BY Zenon, <1>7, <2>1, RegisterFields DEF RegisterSets
<1>14. n \in [1 .. 2 -> Frames]
  <2>1. \A i \in 1 .. 2 : n[i] \in Frames
    BY Zenon, <1>11, <1>12, <1>13 DEF Frames
  <2> QED BY Zenon, <1>11, <2>1
<1>15. memory' = [memory EXCEPT ![child] = n]
  <2>1. DOMAIN memory[child] = 1 .. 2
    BY Zenon, <1>7, <1>12
  <2> QED BY Zenon, <1>2, <1>3, <1>11, <2>1 DEF fork_space
<1>16. /\ memory' \in [Everyone -> [1 .. 2 -> Frames]] /\ memory'[child] = n
       /\ \A t \in Everyone : t # child => memory'[t] = memory[t]
  BY Zenon, <1>7, <1>12, <1>14, <1>15
<1>17. ContextTypeOK'
  <2>1. memory' \in [Everyone -> [1 .. 2 -> RegisterSets \cup {None}]] /\ alive' \subseteq Procs
    BY Zenon, <1>7, <1>8, <1>16 DEF Frames, ContextTypeOK
  <2> QED BY Zenon, <1>8, <1>9, <1>10, <2>1 DEF ContextTypeOK
<1>18. PICK g : g = [f EXCEPT !.th = child]
  BY Zenon
<1>19. /\ g \in RegisterSets /\ g.th = child /\ g.at = f.at /\ g.eax = f.eax /\ g.exit = f.exit
  <2>1. g = [th |-> child, at |-> f.at, eax |-> f.eax, esp |-> f.esp, exit |-> f.exit]
    BY Zenon, <1>4, <1>18, OtherRegisters
  <2> QED BY Zenon, <1>4, <1>7, <2>1, RegisterFields DEF RegisterSets
<1>20. n[1] = g
  <2>1. 1 \in 1 .. 2 /\ m[1] # None
    <3>1. f # None
      BY Zenon, <1>4, ContextAssumption
    <3> QED BY <1>12, <3>1
  <2> QED BY Zenon, <1>11, <1>12, <1>18, <2>1
<1>21. Goes(child)' = g
  <2>1. PICK s : s = registers[child]
    BY Zenon
  <2>2. s.frame[2] = 1
    BY <1>7, <2>1
  <2> QED BY Zenon, <1>7, <1>8, <1>16, <1>20, <2>1, <2>2 DEF Goes
<1>22. g.at \in Programs /\ g.at = want[current].at /\ g.eax = 0 /\ g.exit = None
  <2>1. f.at = want[current].at /\ f.eax = 0 /\ f.exit = None
    BY Zenon, <1>1, <1>4 DEF InKernel
  <2>2. want[current].at \in Programs
    <3>1. PICK w : w = want[current]
      BY Zenon
    <3>2. w \in [at : Programs, eax : Values]
      BY Zenon, <1>2, <3>1 DEF ContextTypeOK
    <3> QED BY Zenon, <3>1, <3>2
  <2> QED BY Zenon, <1>19, <2>1, <2>2
<1>23. want'[child].at = want[current].at /\ want'[child].eax = 0
  <2>1. PICK w : w = want'[child]
    BY Zenon
  <2>2. w = [at |-> want[current].at, eax |-> 0]
    BY Zenon, <1>7, <1>9, <2>1
  <2>3. w.at = want[current].at /\ w.eax = 0
    BY Zenon, <2>2
  <2> QED BY Zenon, <2>1, <2>3
<1>24. GoesRight(child, Goes(child))'
  BY Zenon, <1>7, <1>19, <1>21, <1>22, <1>23 DEF GoesRight, KernelMode, InProgram
<1>25. SavedRight(child, registers[child], Goes(child))'
  <2>1. PICK s : s = registers[child]
    BY Zenon
  <2>2. s = [cs |-> "user", cr3 |-> child, at |-> None, eax |-> 0, frame |-> <<Window, 1>>]
    BY Zenon, <1>7, <2>1
  <2>3. s.cs = "user" /\ s.cr3 = child /\ s.frame = <<Window, 1>>
    BY Zenon, <2>2
  <2>4. s \in SavedStates
    BY Zenon, <1>7, <2>2, WindowAddress, ContextSets DEF SavedStates
  <2>5. ~KernelMode(g)
    BY Zenon, <1>22 DEF KernelMode
  <2>6. SavedRight(child, s, g)
    BY Zenon, <1>7, <2>3, <2>4, <2>5 DEF SavedRight
  <2> QED BY Zenon, <1>8, <1>21, <2>1, <2>6 DEF SavedRight
<1>26. Goes(current)' = cpu' /\ GoesRight(current, Goes(current))'
  <2>1. Goes(current)' = cpu'
    BY Zenon, <1>8 DEF Goes
  <2>2. memory'[current] = memory[current]
    BY Zenon, <1>2, <1>7, <1>16
  <2>3. InKernel(current, cpu', f, want'[current])
    BY Zenon, <1>1, <1>4, <1>9 DEF InKernel, Calls
  <2> QED BY Zenon, <1>2, <1>3, <1>8, <1>9, <2>1, <2>2, <2>3 DEF GoesRight
<1>27. \A t \in Everyone \ {child, current} : has_started[t] =>
         /\ Goes(t)' = Goes(t)
         /\ GoesRight(t, Goes(t))' /\ SavedRight(t, registers[t], Goes(t))'
  <2> SUFFICES ASSUME NEW t \in Everyone \ {child, current}, has_started[t]
               PROVE  /\ Goes(t)' = Goes(t)
                      /\ GoesRight(t, Goes(t))' /\ SavedRight(t, registers[t], Goes(t))'
    BY Zenon
  <2>1. PICK r, v : r = Goes(t) /\ v = registers[t]
    BY Zenon
  <2>2. GoesRight(t, r) /\ SavedRight(t, v, r)
    BY Zenon, <2>1 DEF Kept
  <2>3. /\ registers'[t] = registers[t] /\ memory'[t] = memory[t] /\ t # current
        /\ t # Idle => want'[t] = want[t]
    BY Zenon, <1>8, <1>9, <1>16, ContextSets
  <2>4. Goes(t)' = r
    BY Zenon, <1>8, <2>1, <2>3 DEF Goes
  <2>5. GoesRight(t, r)' /\ SavedRight(t, v, r)'
    BY Zenon, <2>2, <2>3 DEF GoesRight, SavedRight
  <2> QED BY Zenon, <2>1, <2>3, <2>4, <2>5 DEF GoesRight, SavedRight
<1>28. \A t \in Everyone : has_started'[t] => GoesRight(t, Goes(t))'
  BY Zenon, <1>8, <1>10, <1>24, <1>26, <1>27
<1>29. \A t \in Everyone : has_started'[t] /\ t # current' => SavedRight(t, registers[t], Goes(t))'
  BY Zenon, <1>8, <1>10, <1>25, <1>27

<1>30. \A t \in Everyone : ~has_started'[t] /\ t \in alive' \cup {Idle} => StartRight(t)'
  <2> SUFFICES ASSUME NEW t \in Everyone, ~has_started'[t], t \in alive' \cup {Idle}
               PROVE  StartRight(t)'
    BY Zenon
  <2>1. t # child /\ ~has_started[t] /\ t # current
    BY Zenon, <1>2, <1>10
  <2>2. StartRight(t)
    BY Zenon, <1>8, <2>1 DEF Kept
  <2>3. registers'[t] = registers[t] /\ (t # Idle => want'[t] = want[t])
    BY Zenon, <1>8, <1>9, <2>1, ContextSets
  <2> QED BY Zenon, <2>2, <2>3 DEF StartRight, StartPlace, create_initial_state
<1>31. \A p \in Procs : Forking(p)' =>
         /\ p # current /\ p # child /\ Forking(p) /\ Goes(p)' = Goes(p) /\ Goes(p).eax # child
  <2> SUFFICES ASSUME NEW p \in Procs, Forking(p)'
               PROVE  /\ p # current /\ p # child /\ Forking(p) /\ Goes(p)' = Goes(p)
                      /\ Goes(p).eax # child
    BY Zenon
  <2>1. has_started'[p] /\ Goes(p)'.at = "copied"
    BY Zenon DEF Forking
  <2>2. p # current
    BY Zenon, <1>8, <1>9, <2>1 DEF Goes
  <2>3. p # child
    BY Zenon, <1>21, <1>22, <2>1 DEF Programs
  <2>4. has_started[p] /\ Goes(p)' = Goes(p)
    BY Zenon, <1>10, <1>27, <2>1, <2>2, <2>3, ContextSets
  <2>5. Forking(p)
    BY Zenon, <2>1, <2>4 DEF Forking
  <2>6. Goes(p).eax # child
    BY Zenon, <1>2, <1>3, <1>5, <2>2, <2>5 DEF Kept
  <2> QED BY Zenon, <2>2, <2>3, <2>4, <2>5, <2>6
<1>32. \A p \in Procs : Forking(p)' => ChildRight(p, Goes(p).eax)'
  <2> SUFFICES ASSUME NEW p \in Procs, Forking(p)' PROVE ChildRight(p, Goes(p).eax)'
    BY Zenon
  <2>1. PICK d : d = Goes(p).eax
    BY Zenon
  <2>2. ChildRight(p, d) /\ Goes(p)' = Goes(p) /\ d # child /\ p # current /\ p # child
    BY Zenon, <1>31, <2>1 DEF Kept
  <2>3. d \in Procs /\ d \in Everyone /\ ~has_started[d] /\ d # current
    BY Zenon, <1>2, <2>2, ContextSets DEF ChildRight
  <2>4. want'[d] = want[d] /\ want'[p] = want[p] /\ ~has_started'[d] /\ (d \in alive' => d \in alive)
    BY Zenon, <1>8, <1>9, <1>10, <2>2, <2>3
  <2>5. ChildRight(p, d)'
    BY Zenon, <1>8, <2>2, <2>4 DEF ChildRight
  <2> QED BY Zenon, <2>1, <2>2, <2>5 DEF ChildRight
<1>33. \A p, q \in Procs : Forking(p)' /\ Forking(q)' /\ Goes(p).eax' = Goes(q).eax' => p = q
  BY Zenon, <1>31 DEF Kept
<1>34. \A t \in Procs : registers'[t] = None => t \notin alive' /\ ~has_started'[t]
  <2>1. registers[child] # None
    <3>1. registers[child] \in SavedStates
      BY Zenon, <1>8, <1>25 DEF SavedRight
    <3> QED BY Zenon, <3>1, ContextAssumption
  <2> QED BY Zenon, <1>8, <1>10, <2>1, ContextSets DEF Kept
<1>35. Injects(InCall', Len(frame_stack'))
  <2>1. \A p \in Procs : p # child /\ p # current => (p \in InCall' <=> p \in InCall)
    BY Zenon, <1>10, <1>27, ContextSets DEF InCall
  <2>2. current \in InCall
    BY Zenon, <1>1, <1>2 DEF InCall
  <2>3. child \notin InCall' /\ child \notin InCall
    BY Zenon, <1>7, <1>21, <1>22 DEF InCall, Programs, Calls
  <2>5. current \in InCall'
    BY Zenon, <1>2, <1>7, <1>8, <1>9, <1>10 DEF InCall, Goes, Calls
  <2>6. \A p \in Procs : p \in InCall' <=> p \in InCall
    BY Zenon, <2>1, <2>2, <2>3, <2>5
  <2>7. InCall' = InCall
    BY Zenon, <2>6 DEF InCall
  <2> QED BY Zenon, <1>8, <2>7 DEF Kept
<1>36. /\ \A i \in 1 .. Len(frame_stack') : frame_stack'[i] = <<Window, 1>>
       /\ \A i \in 1 .. Len(exits') : ExitRight(exits[i])'
       /\ \A p \in Procs : has_started'[p] => esp0' = Window
  BY Zenon, <1>2, <1>8 DEF Kept, ExitRight
<1>37. asserted' /\ current' # None /\ cr3' = current' /\ has_started'[current']
  BY Zenon, <1>2, <1>7, <1>8, <1>10 DEF Kept
<1> QED
  BY Zenon, <1>17, <1>28, <1>29, <1>30, <1>32, <1>33, <1>34, <1>35, <1>36, <1>37 DEF Kept

----------------------------------------------------------------------------
(* The invariant holds while the core waits for its first tick.            *)
LEMMA ContextStarts == ContextInit => ContextInv
<1> SUFFICES ASSUME ContextInit PROVE ContextInv
  BY Zenon
<1>1. /\ cpu = Regs(Idle, "idle", 0, <<Idle, 0>>) /\ cr3 = Idle /\ esp0 = Idle /\ current = None
      /\ alive = {InitProcess} /\ has_started = [t \in Everyone |-> FALSE]
      /\ frame_stack = <<>> /\ exits = <<>> /\ asserted = TRUE /\ crossed = FALSE
      /\ memory = [t \in Everyone |-> <<None, None>>]
      /\ want = [p \in Procs |-> [at |-> "entry", eax |-> 0]]
  BY Zenon DEF ContextInit
<1>2. "idle" \in Places /\ "entry" \in Places /\ "entry" \in Programs
  BY Zenon DEF Places, Programs
<1>3. /\ registers = [t \in Everyone |-> IF t = Idle THEN create_initial_state(t, "idle")
                        ELSE IF t = InitProcess THEN create_initial_state(t, "entry") ELSE None]
  BY Zenon DEF ContextInit
<1>4. \A t \in Everyone, x \in {"idle", "entry"} : create_initial_state(t, x) \in SavedStates
  <2> SUFFICES ASSUME NEW t \in Everyone, NEW x \in {"idle", "entry"}
               PROVE  create_initial_state(t, x) \in SavedStates
    BY Zenon
  <2>1. x \in Places /\ 0 \in Values
    BY Zenon, <1>2, ContextSets
  <2>2. PICK c : c = IF t = Idle THEN "kernel" ELSE "user"
    BY Zenon
  <2>3. PICK s : s = create_initial_state(t, x)
    BY Zenon
  <2>4. s = [cs |-> c, cr3 |-> t, at |-> x, eax |-> 0, frame |-> None]
    BY Zenon, <2>2, <2>3 DEF create_initial_state
  <2>5. c \in {"user", "kernel"}
    BY Zenon, <2>2
  <2>6. s \in SavedStates
    BY Zenon, <2>1, <2>4, <2>5 DEF SavedStates
  <2> QED BY Zenon, <2>3, <2>6
<1>5. registers \in [Everyone -> SavedStates \cup {None}]
  BY Zenon, <1>3, <1>4
<1>6. cpu \in RegisterSets
  <2>1. <<Idle, 0>> \in Addresses
    <3>1. 0 \in 0 .. 2
      OBVIOUS
    <3> QED BY Zenon, <3>1, ContextSets
  <2> QED BY Zenon, <1>1, <1>2, <2>1, ContextSets, RegsTypes
<1>7. memory \in [Everyone -> [1 .. 2 -> RegisterSets \cup {None}]]
  <2>1. <<None, None>> \in [1 .. 2 -> {None}]
    OBVIOUS
  <2>2. <<None, None>> \in [1 .. 2 -> RegisterSets \cup {None}]
    BY Zenon, <2>1
  <2> QED BY Zenon, <1>1, <2>2
<1>8. want \in [Procs -> [at : Programs, eax : Values]]
  BY Zenon, <1>1, <1>2, ContextSets
<1>9. /\ frame_stack \in Seq(Addresses) /\ exits \in Seq(SavedStates \cup {None})
      /\ Len(frame_stack) = Len(exits) /\ Len(frame_stack) = 0
      /\ 1 .. Len(frame_stack) = {} /\ 1 .. Len(exits) = {}
  BY <1>1
<1>10. ContextTypeOK
  BY Zenon, <1>1, <1>5, <1>6, <1>7, <1>8, <1>9, ContextSets DEF ContextTypeOK
<1>11. \A t \in Everyone : ~has_started[t]
  BY Zenon, <1>1
<1>12. \A t \in Everyone : t \in alive \cup {Idle} => StartRight(t)
  <2> SUFFICES ASSUME NEW t \in Everyone, t \in alive \cup {Idle} PROVE StartRight(t)
    BY Zenon
  <2>1. registers[t] = create_initial_state(t, StartPlace(t))
    BY Zenon, <1>1, <1>3, ContextSets DEF StartPlace
  <2>2. t # Idle => want[t] = [at |-> "entry", eax |-> 0]
    BY Zenon, <1>1, ContextSets
  <2> QED BY Zenon, <2>1, <2>2 DEF StartRight
<1>13. \A t \in Procs : registers[t] = None => t \notin alive
  <2>1. registers[InitProcess] \in SavedStates
    BY Zenon, <1>3, <1>4, ContextSets
  <2> QED BY Zenon, <1>1, <2>1, ContextAssumption
<1>14. InCall = {} /\ \A p \in Procs : ~Forking(p)
  BY Zenon, <1>11, ContextSets DEF InCall, Forking
<1>15. Injects(InCall, Len(frame_stack))
  <2>1. [x \in {} |-> 1] \in [{} -> 1 .. Len(frame_stack)]
    BY Zenon
  <2> QED BY Zenon, <1>14, <2>1 DEF Injects
<1>16. Kept
  BY Zenon, <1>1, <1>9, <1>11, <1>12, <1>13, <1>14, <1>15, ContextSets DEF Kept
<1> QED BY Zenon, <1>10, <1>16 DEF ContextInv

(* Every step keeps the invariant.                                         *)
LEMMA ContextSteps == ContextInv /\ [ContextNext]_contextVars => ContextInv'
<1> SUFFICES ASSUME ContextInv, [ContextNext]_contextVars PROVE ContextInv'
  BY Zenon
<1>1. CASE UNCHANGED contextVars
  <2>1. /\ UNCHANGED <<cpu, cr3, esp0, current, alive, has_started, registers>>
        /\ UNCHANGED <<memory, frame_stack, exits, asserted, crossed, want>>
    BY Zenon, <1>1 DEF contextVars
  <2>2. ContextTypeOK'
    BY Zenon, <2>1 DEF ContextInv, ContextTypeOK
  <2>3. \A t : Goes(t)' = Goes(t) /\ (StartRight(t)' <=> StartRight(t)) /\ (Forking(t)' <=> Forking(t))
    BY Zenon, <2>1 DEF Goes, StartRight, Forking
  <2>4. InCall' = InCall
    BY Zenon, <2>1, <2>3 DEF InCall
  <2>5. /\ \A t, r : GoesRight(t, r)' <=> GoesRight(t, r)
        /\ \A p, c : ChildRight(p, c)' <=> ChildRight(p, c)
    BY Zenon, <2>1 DEF GoesRight, ChildRight
  <2>6. ASSUME ~crossed PROVE Kept'
    <3>1. Kept
      BY Zenon, <2>6 DEF ContextInv
    <3> QED BY Zenon, <2>1, <2>3, <2>4, <2>5, <3>1 DEF Kept
  <2> QED BY Zenon, <2>1, <2>2, <2>6 DEF ContextInv
<1>2. CASE ContextNext
  <2>1. ContextTypeOK /\ Kept
    BY Zenon, <1>2 DEF ContextInv, ContextNext
  <2>2. ASSUME NEW next \in Everyone, timer_tick(next) PROVE ContextInv'
    BY Zenon, <2>1, <2>2, TickKeeps DEF ContextInv
  <2>3. CASE common_interrupt_handler
    BY Zenon, <2>1, <2>3, CallKeeps DEF ContextInv
  <2>4. CASE handle_userspace_exception
    BY Zenon, <2>1, <2>4, ExceptionKeeps DEF ContextInv
  <2>5. CASE syscall
    BY Zenon, <2>1, <2>5, SyscallKeeps DEF ContextInv
  <2>6. CASE syscall_exit
    BY Zenon, <2>1, <2>6, SyscallExitKeeps DEF ContextInv
  <2>7. ASSUME NEW child \in Procs, fork_thread(child) PROVE ContextInv'
    BY Zenon, <2>1, <2>7, ForkThreadKeeps DEF ContextInv
  <2>8. CASE fork_space
    BY Zenon, <2>1, <2>8, ForkSpaceKeeps DEF ContextInv
  <2>9. CASE initialize_userspace_thread
    BY Zenon, <2>1, <2>9, InitializeKeeps DEF ContextInv
  <2>10. CASE create_state_for_exec
    BY Zenon, <2>1, <2>10, CreateStateKeeps DEF ContextInv
  <2>11. CASE set_return_value
    BY Zenon, <2>1, <2>11, SetReturnValueKeeps DEF ContextInv
  <2>12. CASE leave_handler
    BY Zenon, <2>1, <2>12, LeaveHandlerKeeps DEF ContextInv
  <2>13. CASE iret
    BY Zenon, <2>1, <2>13, IretKeeps DEF ContextInv
  <2>14. CASE enter_thread_after_exec
    BY Zenon, <2>1, <2>14, EnterAfterExecKeeps DEF ContextInv
  <2> QED
    BY Zenon, <1>2, <2>2, <2>3, <2>4, <2>5, <2>6, <2>7, <2>8, <2>9, <2>10, <2>11, <2>12, <2>13,
       <2>14 DEF ContextNext
<1> QED BY Zenon, <1>1, <1>2

(* The invariant gives what ContextsKept says.                             *)
LEMMA ContextMeans == ContextInv => ContextsKept
<1> SUFFICES ASSUME ContextTypeOK, ~crossed => Kept PROVE ContextsKept
  BY Zenon DEF ContextInv
<1> SUFFICES ASSUME ~crossed, current # None
             PROVE  /\ asserted /\ cpu.th = current /\ cr3 = current
                    /\ KernelMode(cpu) => Owner(cpu.esp, cr3) = current
                    /\ ~KernelMode(cpu) => [at |-> cpu.at, eax |-> cpu.eax] = want[current]
  BY Zenon DEF ContextsKept
<1>1. Kept /\ asserted
  BY Zenon DEF Kept
<1>2. PICK k : k = IF current # Idle /\ KernelMode(cpu) THEN 2 ELSE 1
  BY Zenon
<1>3. current \in Everyone /\ cr3 = current /\ GoesRight(current, cpu)
  BY Zenon, <1>1, <1>2, TickFrame
<1>4. cpu.th = current
  BY Zenon, <1>3 DEF GoesRight
<1>5. CASE current = Idle
  <2>1. cpu.at = "idle" /\ cpu.esp = <<Idle, 0>>
    BY Zenon, <1>3, <1>5 DEF GoesRight
  <2>2. KernelMode(cpu)
    BY Zenon, <2>1 DEF KernelMode, Programs
  <2>3. Owner(cpu.esp, cr3) = current
    BY <1>3, <1>5, <2>1 DEF Owner
  <2> QED BY Zenon, <1>1, <1>3, <1>4, <2>2, <2>3
<1>6. CASE current # Idle
  <2>1. ASSUME KernelMode(cpu) PROVE Owner(cpu.esp, cr3) = current
    <3>1. cpu.esp = <<Window, 1>>
      BY Zenon, <1>3, <1>6, <2>1 DEF GoesRight, InKernel
    <3> QED BY <1>3, <3>1 DEF Owner
  <2>2. ASSUME ~KernelMode(cpu) PROVE [at |-> cpu.at, eax |-> cpu.eax] = want[current]
    <3>1. cpu.at = want[current].at /\ cpu.eax = want[current].eax
      BY Zenon, <1>3, <1>6, <2>2 DEF GoesRight, InProgram
    <3>2. PICK w : w = want[current]
      BY Zenon
    <3>3. w \in [at : Programs, eax : Values]
      BY Zenon, <1>3, <1>6, <3>2, ContextSets DEF ContextTypeOK
    <3>4. w = [at |-> w.at, eax |-> w.eax]
      BY SMT, <3>3
    <3> QED BY Zenon, <3>1, <3>2, <3>4
  <2> QED BY Zenon, <1>1, <1>3, <1>4, <2>1, <2>2
<1> QED BY Zenon, <1>5, <1>6

(* ContextsKept: whatever calls are cut short by ticks, return in another  *)
(* order or never, every thread goes on with its own registers, on its own *)
(* stack and in its own space, until a call pops the exit function that    *)
(* the exec() of another process left.                                     *)
THEOREM ThreadsKeepTheirContexts == ContextSpec => []ContextsKept
BY ContextStarts, ContextSteps, ContextMeans, PTL DEF ContextSpec
=============================================================================
