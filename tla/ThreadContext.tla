--------------------------- MODULE ThreadContext ---------------------------
(***************************************************************************)
(* The contexts of threads on one core: arch/i686/Processor.cpp and        *)
(* interrupts.cpp.  An interrupt saves the registers in a frame on a       *)
(* kernel stack and pushes the address of the frame to m_frame_stack and   *)
(* an exit function to m_exit_function_stack.  Both belong to the core,    *)
(* not to the thread: a tick in a system call leaves the entries of the    *)
(* call there while other threads run, make calls and return from them.    *)
(*                                                                         *)
(* Registers are the record of whose they are, where they are (a place in  *)
(* the program or in common_interrupt_handler), eax, and the frame that    *)
(* the stack pointer is at.  A frame address is a region and a number,     *)
(* counted from the top of the stack.  Interrupts are the tick and the     *)
(* system calls; a system call can be interrupted as soon as its entries   *)
(* are pushed, until the cli before it leaves.  Signals are not modelled.  *)
(***************************************************************************)
EXTENDS Integers, Sequences

CONSTANTS Procs,        \* user threads, one of each process
          InitProcess,
          Idle,         \* the idle thread of the core
          Window,       \* the address of the kernel stack of every process
          None

VARIABLES cpu,          \* the registers of the core
          cr3,          \* whose page directory is loaded
          esp0,         \* m_tss.esp0
          current,      \* m_current_thread
          alive,        \* started threads that are not terminated
          has_started,
          registers,
          memory,       \* frames on the kernel stack of each thread
          frame_stack,  \* m_frame_stack
          exits,        \* m_exit_function_stack
          asserted,     \* the assertion in enter_thread_context() held
          crossed,      \* a call popped the exit function of another
          want          \* how each process should continue in user mode

contextVars == <<cpu, cr3, esp0, current, alive, has_started, registers, memory, frame_stack, exits,
                 asserted, crossed, want>>

Everyone == Procs \cup {Idle}
Programs == {"a", "b", "entry"}     \* places in a program
Calls == {"call", "copied", "loaded", "result", "set"}
Places == Programs \cup Calls \cup {"idle", "popped", "dead"}
Values == Everyone \cup {0, None}
Addresses == (Everyone \cup {Window}) \X (0 .. 2)

(* The state of a thread in its Thread object or for an exit function, and *)
(* the registers of the core or in a frame.                                *)
SavedStates == [cs : {"user", "kernel"}, cr3 : Everyone, at : Places \cup {None}, eax : Values,
                frame : Addresses \cup Everyone \cup {None}]
RegisterSets == [th : Everyone, at : Places, eax : Values, esp : Addresses,
                 exit : SavedStates \cup {None}]

ASSUME ContextAssumption ==
    /\ InitProcess \in Procs /\ Idle \notin Procs
    /\ Window \notin Everyone /\ None \notin Everyone /\ None # Window
    /\ None \notin SavedStates /\ None \notin RegisterSets

KernelMode(r) == r.at \notin Programs
Interruptible == cpu.at \in Programs \cup {"idle", "call", "copied", "loaded", "result", "set", "popped", "dead"}

Regs(t, at, eax, esp) == [th |-> t, at |-> at, eax |-> eax, esp |-> esp, exit |-> None]

-----------------------------------------------------------------------------
(* The region of a kernel stack: one of its own for a kernel thread, and   *)
(* the same address below the kernel in the space of each process.         *)
create_kernel_thread(t) == t

(* A defect: the stack of a process has an address of its own as well.     *)
create_userspace_thread_own(t) == t
create_userspace_thread(t) == Window

kernel_stack(t) == IF t = Idle THEN create_kernel_thread(t) ELSE create_userspace_thread(t)

(* Whose memory an address is in, with the page directory of space.        *)
Owner(address, space) == IF address[1] = Window THEN space ELSE address[1]
Frame(address, space) == memory[Owner(address, space)][address[2]]
Put(address, frame) == [memory EXCEPT ![Owner(address, cr3)][address[2]] = frame]
(* What is below the stack pointer is not read again, and is forgotten.    *)
Popped(m, address, space) == [m EXCEPT ![Owner(address, space)][address[2]] = None]
Top == frame_stack[Len(frame_stack)]
LastExit == exits[Len(exits)]
ButLast(s) == SubSeq(s, 1, Len(s) - 1)

(* The frame of an interrupt: at esp0 from user mode, below the last one   *)
(* in kernel mode.                                                         *)
NewFrame == IF KernelMode(cpu) THEN <<cpu.esp[1], cpu.esp[2] + 1>> ELSE <<esp0, 1>>

(* The registers with which a thread starts. *)
create_initial_state(t, at) == [cs |-> IF t = Idle THEN "kernel" ELSE "user", cr3 |-> t, at |-> at,
                                eax |-> 0, frame |-> None]

(* update_thread_context(): where the frame is, and its segment; the other *)
(* registers are copied, but read from the frame.                          *)
update_thread_context(frame, address) ==
    [cs |-> IF KernelMode(frame) THEN "kernel" ELSE "user", cr3 |-> cr3, at |-> None,
     eax |-> None, frame |-> address]

-----------------------------------------------------------------------------
(* The ways into the next thread, with the memory as the tick left it.     *)
(* The first interrupts the boot code; a thread that never ran gets its    *)
(* registers from a frame made for it; any other continues from the frame  *)
(* that it was interrupted with.                                           *)
StartRegs(t) == Regs(t, registers[t].at, registers[t].eax, <<kernel_stack(t), 0>>)

initial_enter_thread_context(t) ==
    /\ esp0' = kernel_stack(t) /\ cr3' = registers[t].cr3 /\ cpu' = StartRegs(t)
    /\ UNCHANGED asserted

enter_new_thread_context(t) ==
    /\ esp0' = IF registers[t].cs = "user" THEN kernel_stack(t) ELSE esp0
    /\ cr3' = registers[t].cr3 /\ cpu' = StartRegs(t)
    /\ UNCHANGED asserted

enter_thread_context(t, frame) ==
    /\ esp0' = IF registers[t].cs = "user" THEN registers[t].frame[1] ELSE esp0
    /\ cr3' = registers[t].cr3 /\ cpu' = frame
    /\ asserted' = (asserted /\ registers[t].frame[1] = kernel_stack(t))

(* CoreScheduler::tick() in the handler of the timer, whose own entries on *)
(* the two stacks are gone before the exit function runs.                  *)
timer_tick(next) ==
    /\ Interruptible
    /\ next \in alive \cup {Idle}
    /\ LET running == current # None /\ has_started[current]
           saved == IF running THEN Put(NewFrame, cpu) ELSE memory
       IN /\ registers' = IF running
                          THEN [registers EXCEPT ![current] = update_thread_context(cpu, NewFrame)] ELSE registers
          /\ CASE current = next -> UNCHANGED <<cpu, cr3, esp0, asserted, memory>>
               [] current = None -> initial_enter_thread_context(next) /\ memory' = saved
               [] current \notin {next, None} /\ ~has_started[next] ->
                    enter_new_thread_context(next) /\ memory' = saved
               [] current \notin {next, None} /\ has_started[next] ->
                    /\ enter_thread_context(next, Frame(registers[next].frame, registers[next].cr3))
                    /\ memory' = Popped(saved, registers[next].frame, registers[next].cr3)
    /\ current' = next /\ has_started' = [has_started EXCEPT ![next] = TRUE]
    /\ UNCHANGED <<alive, frame_stack, exits, crossed, want>>

-----------------------------------------------------------------------------
(* A system call: the frame, with the place where the program continues,   *)
(* and the entries of the core.                                            *)
After(at) == IF at = "a" THEN "b" ELSE "a"

Enter(frame, at) ==
    /\ ~KernelMode(cpu)
    /\ memory' = Put(NewFrame, frame)
    /\ frame_stack' = Append(frame_stack, NewFrame) /\ exits' = Append(exits, None)
    /\ cpu' = Regs(cpu.th, at, cpu.eax, NewFrame)

common_interrupt_handler ==
    /\ Enter([cpu EXCEPT !.at = After(@)], "call")
    /\ want' = [want EXCEPT ![cpu.th] = [at |-> After(cpu.at), eax |-> None]]
    /\ UNCHANGED <<cr3, esp0, current, alive, has_started, registers, asserted, crossed>>

(* An exception ends the process; it waits in the handler for good. *)
handle_userspace_exception ==
    /\ Enter(cpu, "dead")
    /\ alive' = alive \ {cpu.th}
    /\ UNCHANGED <<cr3, esp0, current, has_started, registers, asserted, crossed, want>>

(* The call returns a value of its own, which the handler has in hand. *)
Returns(eax) ==
    /\ cpu' = [cpu EXCEPT !.at = "result", !.eax = eax]
    /\ want' = [want EXCEPT ![cpu.th].eax = eax]
syscall ==
    /\ cpu.at = "call" /\ Returns(cpu.th)
    /\ UNCHANGED <<cr3, esp0, current, alive, has_started, registers, memory, frame_stack, exits, asserted, crossed>>

syscall_exit ==
    /\ cpu.at = "call"
    /\ cpu' = [cpu EXCEPT !.at = "dead"] /\ alive' = alive \ {cpu.th}
    /\ UNCHANGED <<cr3, esp0, current, has_started, registers, memory, frame_stack, exits, asserted, crossed, want>>

(* fork(): the thread is copied with the context in the frame on top, and  *)
(* zero written there for the child; then the space is, kernel stack and   *)
(* frame included, and the child starts as a thread that was interrupted.  *)
fork_thread(child) ==
    /\ cpu.at = "call" /\ child \notin alive /\ registers[child] = None
    /\ registers' = [registers EXCEPT ![child] =
                        [update_thread_context(Frame(Top, cr3), Top) EXCEPT !.eax = 0, !.cr3 = child]]
    /\ memory' = Put(Top, [Frame(Top, cr3) EXCEPT !.eax = 0])
    /\ cpu' = [cpu EXCEPT !.at = "copied", !.eax = child]
    /\ want' = [want EXCEPT ![child] = [at |-> want[cpu.th].at, eax |-> 0]]
    /\ UNCHANGED <<cr3, esp0, current, alive, has_started, frame_stack, exits, asserted, crossed>>

fork_space ==
    LET child == cpu.eax
        Retagged(frame) == IF frame = None THEN None ELSE [frame EXCEPT !.th = child]
    IN /\ cpu.at = "copied"
       /\ memory' = [memory EXCEPT ![child] = [i \in DOMAIN @ |-> Retagged(memory[cr3][i])]]
       /\ has_started' = [has_started EXCEPT ![child] = has_started[cpu.th]]
       /\ alive' = alive \cup {child} /\ Returns(child)
       /\ UNCHANGED <<cr3, esp0, current, registers, frame_stack, exits, asserted, crossed>>

(* exec(): the thread and the frame on top get the state of a new program; *)
(* then the exit function on top is the one that enters it, with the state *)
(* in the frame, and the call returns zero.                                *)
frame_set_initial_state(frame) == [frame EXCEPT !.at = "entry", !.eax = 0]

initialize_userspace_thread ==
    /\ cpu.at = "call"
    /\ registers' = [registers EXCEPT ![cpu.th] = [create_initial_state(cpu.th, "entry") EXCEPT !.frame = registers[cpu.th].frame]]
    /\ memory' = Put(Top, frame_set_initial_state(Frame(Top, cr3)))
    /\ cpu' = [cpu EXCEPT !.at = "loaded"]
    /\ want' = [want EXCEPT ![cpu.th] = [at |-> "entry", eax |-> 0]]
    /\ UNCHANGED <<cr3, esp0, current, alive, has_started, frame_stack, exits, asserted, crossed>>

create_state_for_exec ==
    /\ cpu.at = "loaded"
    /\ exits' = Append(ButLast(exits), [create_initial_state(cpu.th, Frame(Top, cr3).at) EXCEPT !.frame = cpu.th])
    /\ Returns(0)
    /\ UNCHANGED <<cr3, esp0, current, alive, has_started, registers, memory, frame_stack, asserted, crossed>>

(* The way back: the value goes to the frame on top, both stacks lose      *)
(* their top, and with interrupts off the exit function runs.  Unless it   *)
(* enters a program, the registers are those in the frame of the call.     *)
set_return_value ==
    /\ cpu.at = "result"
    /\ memory' = Put(Top, [Frame(Top, cr3) EXCEPT !.eax = cpu.eax])
    /\ cpu' = [cpu EXCEPT !.at = "set"]
    /\ UNCHANGED <<cr3, esp0, current, alive, has_started, registers, frame_stack, exits, asserted, crossed, want>>

leave_handler ==
    /\ cpu.at = "set"
    /\ frame_stack' = ButLast(frame_stack) /\ exits' = ButLast(exits)
    /\ cpu' = [cpu EXCEPT !.at = "popped", !.exit = LastExit]
    /\ crossed' = IF want[cpu.th].at = "entry" THEN LastExit = None \/ LastExit.frame # cpu.th
                  ELSE LastExit # None
    /\ UNCHANGED <<cr3, esp0, current, alive, has_started, registers, memory, asserted, want>>

iret ==
    /\ cpu.at = "popped" /\ cpu.exit = None
    /\ cpu' = Frame(cpu.esp, cr3) /\ memory' = Popped(memory, cpu.esp, cr3)
    /\ UNCHANGED <<cr3, esp0, current, alive, has_started, registers, frame_stack, exits, asserted, crossed, want>>

enter_thread_after_exec ==
    /\ cpu.at = "popped" /\ cpu.exit # None
    /\ memory' = Popped(memory, cpu.esp, cr3)
    /\ esp0' = kernel_stack(cpu.exit.frame) /\ cr3' = cpu.exit.cr3
    /\ cpu' = Regs(cpu.exit.frame, cpu.exit.at, cpu.exit.eax, <<esp0', 0>>)
    /\ UNCHANGED <<current, alive, has_started, registers, frame_stack, exits, asserted, crossed, want>>

-----------------------------------------------------------------------------
(* The core waits at the end of entry() for its first tick.                *)
ContextInit ==
    /\ cpu = Regs(Idle, "idle", 0, <<Idle, 0>>) /\ cr3 = Idle /\ esp0 = Idle /\ current = None
    /\ alive = {InitProcess} /\ has_started = [t \in Everyone |-> FALSE]
    /\ registers = [t \in Everyone |->
                       IF t = Idle THEN create_initial_state(t, "idle")
                       ELSE IF t = InitProcess THEN create_initial_state(t, "entry") ELSE None]
    /\ memory = [t \in Everyone |-> <<None, None>>]
    /\ frame_stack = <<>> /\ exits = <<>> /\ asserted = TRUE /\ crossed = FALSE
    /\ want = [p \in Procs |-> [at |-> "entry", eax |-> 0]]

ContextNext ==
    /\ ~crossed
    /\ \/ \E next \in Everyone : timer_tick(next)
       \/ common_interrupt_handler \/ handle_userspace_exception \/ syscall \/ syscall_exit
       \/ \E child \in Procs : fork_thread(child)
       \/ fork_space \/ initialize_userspace_thread \/ create_state_for_exec
       \/ set_return_value \/ leave_handler \/ iret \/ enter_thread_after_exec

ContextSpec == ContextInit /\ [][ContextNext]_contextVars
-----------------------------------------------------------------------------
(* Registers, frames and both stacks of the core are what they should be.  *)
ContextTypeOK ==
    /\ cpu \in RegisterSets /\ cr3 \in Everyone /\ esp0 \in Everyone \cup {Window}
    /\ current \in Everyone \cup {None} /\ alive \subseteq Procs
    /\ has_started \in [Everyone -> BOOLEAN]
    /\ registers \in [Everyone -> SavedStates \cup {None}]
    /\ memory \in [Everyone -> [1 .. 2 -> RegisterSets \cup {None}]]
    /\ frame_stack \in Seq(Addresses) /\ exits \in Seq(SavedStates \cup {None})
    /\ Len(frame_stack) = Len(exits)
    /\ asserted \in BOOLEAN /\ crossed \in BOOLEAN
    /\ want \in [Procs -> [at : Programs, eax : Values]]

(* Unless a call popped the exit function that exec() left for its own, the *)
(* core runs the current thread, on its own kernel stack and in its space; *)
(* in user mode with the registers that it left with, or with what its own *)
(* system call returned: whatever calls were cut short by ticks, returned  *)
(* in another order or never returned, and although all frames are found   *)
(* through the stack of the core.                                          *)
ContextsKept ==
    ContextTypeOK /\ (~crossed /\ current # None =>
       /\ asserted /\ cpu.th = current /\ cr3 = current
       /\ KernelMode(cpu) => Owner(cpu.esp, cr3) = current
       /\ ~KernelMode(cpu) => [at |-> cpu.at, eax |-> cpu.eax] = want[current])
=============================================================================
