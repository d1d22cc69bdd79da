------------------------------ MODULE Process ------------------------------
(***************************************************************************)
(* The life of user processes (processes/Process.cpp): fork, exit with the *)
(* adoption of children by the reaper, waitpid, the signal that Ctrl-C     *)
(* sends, and the controlling process of the console.                      *)
(*                                                                         *)
(* A process has the one thread that fork() gives it.  The processes run   *)
(* on several cores and none of this state is locked, so fork(), exit()    *)
(* and waitpid() take a step for every piece of shared state they touch.   *)
(* exit() runs in an executor: the thread of the process itself (syscall   *)
(* or fault), or the keyboard interrupt, executor 0.  A thread that is     *)
(* marked Terminated executes until the scheduler stops it.                *)
(*                                                                         *)
(* push_back() and erase() on m_children take two steps each, the look at  *)
(* the vector and the change: init's vector is changed by every process    *)
(* that exits, and by init.  What an append that replaces the array does   *)
(* to those that use the old one is not modelled, only that it happens.    *)
(***************************************************************************)
EXTENDS Integers, Sequences

CONSTANTS
    MaxPid,   \* bound: processes ever created
    CtrlC,    \* bound: how often Ctrl-C is pressed
    Full,     \* the sizes at which a vector may have no room for one more
    Handlers  \* the dispositions of SIGINT that programs set

ASSUME ProcessAssumption ==
    /\ MaxPid \in Nat \ {0} /\ CtrlC \in Nat /\ Full \subseteq Nat
    /\ Handlers \subseteq {"SIG_DFL", "SIG_IGN", "function"}

Pids == 1 .. MaxPid
Keyboard == 0
Executors == {Keyboard} \cup Pids
NoProcess == 0
InitPid == 1
AnyChild == -1

VARIABLES
    m_state,     \* "None" before the fork, then ProcessState
    m_parent,    \* parent of each process, NoProcess for init
    m_children,  \* the vector of children of each process
    status,      \* exit code and signal of each process
    handler,     \* what SIGINT does in each process
    pending,     \* whether a SIGINT waits for the handler
    controlling, \* m_controlling_process of the console
    terminated,  \* processes whose thread is marked Terminated
    stopped,     \* processes whose thread the scheduler took off its core
    pc,          \* what the thread of each process is doing
    arg,         \* the pid its system call is about
    exec,        \* the exit() that each executor is in
    change,      \* the change of a vector that each executor is in
    reaped,      \* how often waitpid() took each process
    presses,     \* how often Ctrl-C was pressed
    serial       \* history: nobody has met the change of another in a vector

vars == <<m_state, m_parent, m_children, status, handler, pending, controlling,
          terminated, stopped, pc, arg, exec, change, reaped, presses, serial>>

Tree == <<m_state, m_parent, m_children>>
Signals == <<handler, pending, presses>>
Calls == <<pc, arg>>
Stops == <<terminated, stopped>>

NoExit == [at |-> "no", pid |-> NoProcess, todo |-> <<>>]

(* A change of the vector of process of: an append of child (resize() to   *)
(* size at, or behind the last element), or the erasure of element at.     *)
Changes == [op : {"none", "append", "resize", "erase"}, of : Pids \cup {NoProcess}, at : Nat,
            child : Pids \cup {NoProcess}, grows : BOOLEAN]
NoChange == [op |-> "none", of |-> NoProcess, at |-> 0, child |-> NoProcess, grows |-> FALSE]

TypeOK ==
    /\ m_state \in [Pids -> {"None", "Running", "Zombie"}]
    /\ m_parent \in [Pids -> Pids \cup {NoProcess}]
    /\ \A p \in Pids : m_parent[p] = NoProcess => p = InitPid \/ m_state[p] = "None"
    /\ m_children \in [Pids -> Seq(Pids)]
    /\ status \in [Pids -> {"none", "code", "signal"}]
    /\ handler \in [Pids -> {"SIG_DFL", "SIG_IGN", "function"}]
    /\ pending \in [Pids -> BOOLEAN]
    /\ controlling \in Pids \cup {NoProcess}
    /\ terminated \subseteq Pids /\ stopped \subseteq Pids
    /\ pc \in [Pids -> {"new", "user", "link", "start", "console", "wait", "erase", "exit", "yield"}]
    /\ arg \in [Pids -> Pids \cup {NoProcess, AnyChild}]
    /\ exec \in [Executors -> [at : {"no", "adopt", "zombie", "kill", "halt"},
                               pid : Pids \cup {NoProcess}, todo : Seq(Pids)]]
    /\ change \in [Executors -> Changes]
    /\ reaped \in [Pids -> Nat] /\ presses \in 0 .. CtrlC /\ serial \in BOOLEAN

(* entry() created init, which controls the console.                       *)
Init ==
    /\ m_state = [p \in Pids |-> IF p = InitPid THEN "Running" ELSE "None"]
    /\ m_parent = [p \in Pids |-> NoProcess]
    /\ m_children = [p \in Pids |-> <<>>]
    /\ status = [p \in Pids |-> "none"]
    /\ handler = [p \in Pids |-> "SIG_DFL"]
    /\ pending = [p \in Pids |-> FALSE]
    /\ controlling = InitPid
    /\ terminated = {} /\ stopped = {}
    /\ pc = [p \in Pids |-> IF p = InitPid THEN "user" ELSE "new"]
    /\ arg = [p \in Pids |-> NoProcess]
    /\ exec = [x \in Executors |-> NoExit]
    /\ change = [x \in Executors |-> NoChange]
    /\ reaped = [p \in Pids |-> 0]
    /\ presses = 0 /\ serial = TRUE

Runs(p, at) == pc[p] = at /\ p \notin stopped

Goto(p, at) == pc' = [pc EXCEPT ![p] = at] /\ UNCHANGED arg

GotoWith(p, at, q) == pc' = [pc EXCEPT ![p] = at] /\ arg' = [arg EXCEPT ![p] = q]

(* The program of init (userland/init/main.c): fork the shell, wait for    *)
(* any child until there is none, exit.                                    *)
InitForks(p) == p = InitPid => \A q \in Pids : m_parent[q] = NoProcess
InitWaits(p, q) == p = InitPid => q = AnyChild /\ ~InitForks(p)
InitExits(p) == p = InitPid => m_children[p] = <<>> /\ ~InitForks(p)

----------------------------------------------------------------------------
(* kvector: resize() to n elements, new ones q, and erase() of element i.  *)
resize(v, n, q) == [i \in 1 .. n |-> IF i <= Len(v) THEN v[i] ELSE q]
erase(v, i) == [j \in 1 .. Len(v) - 1 |-> IF j < i THEN v[j] ELSE v[j + 1]]

(* Vector v when change c of it is done.                                   *)
After(c, v) ==
    CASE c.op = "append" -> Append(v, c.child)
      [] c.op = "resize" -> resize(v, c.at, c.child)
      [] c.op = "erase"  -> erase(v, c.at)
      [] OTHER           -> v

(* Executor x begins to append q to the vector of p, for which the array   *)
(* may have to be replaced ...                                             *)
PushBegin(x, p, q, how) ==
    \E g \in BOOLEAN :
        /\ g => Len(m_children[p]) \in Full
        /\ change' = [change EXCEPT ![x] = [op |-> how, of |-> p, at |-> Len(m_children[p]) + 1,
                                            child |-> q, grows |-> g]]

(* ... or ends what it has begun.                                          *)
ChangeEnd(x) ==
    /\ m_children' = [m_children EXCEPT ![change[x].of] = After(change[x], @)]
    /\ change' = [change EXCEPT ![x] = NoChange]

(* fork(): the constructor makes the child and begins to link it to the    *)
(* parent ...                                                              *)
fork(p, q) ==
    /\ Runs(p, "user") /\ InitForks(p)
    /\ m_state[q] = "None" /\ \A r \in Pids : r < q => m_state[r] # "None"
    /\ m_state' = [m_state EXCEPT ![q] = "Running"]
    /\ m_parent' = [m_parent EXCEPT ![q] = p]
    /\ PushBegin(p, p, q, "append")
    /\ handler' = [handler EXCEPT ![q] = handler[p]]
    /\ GotoWith(p, "link", q)
    /\ UNCHANGED <<m_children, status, pending, controlling, Stops, exec, reaped, presses>>

(* ... which it then is ...                                                *)
fork_link(p) ==
    /\ Runs(p, "link")
    /\ ChangeEnd(p)
    /\ Goto(p, "start")
    /\ UNCHANGED <<m_state, m_parent, status, Signals, controlling, Stops, exec, reaped>>

(* ... then its thread is started ...                                      *)
fork_start(p) ==
    /\ Runs(p, "start")
    /\ pc' = [pc EXCEPT ![p] = "console", ![arg[p]] = "user"]
    /\ UNCHANGED <<Tree, status, Signals, controlling, Stops, arg, exec, change, reaped>>

(* ... and the child takes over the console if the parent controls it.     *)
fork_console(p) ==
    /\ Runs(p, "console")
    /\ controlling' = IF controlling = p THEN arg[p] ELSE controlling
    /\ GotoWith(p, "user", NoProcess)
    /\ UNCHANGED <<Tree, status, Signals, Stops, exec, change, reaped>>

----------------------------------------------------------------------------
(* exit() of process p in executor x: init stays in it forever; the status *)
(* is stored, the console goes to the parent, and the loop over the        *)
(* children starts.                                                        *)
ExitBegin(x, p, s) ==
    IF p = InitPid
    THEN /\ exec' = [exec EXCEPT ![x] = [at |-> "halt", pid |-> p, todo |-> <<>>]]
         /\ terminated' = terminated \cup {p}
         /\ UNCHANGED <<status, controlling>>
    ELSE /\ exec' = [exec EXCEPT ![x] = [at |-> "adopt", pid |-> p, todo |-> m_children[p]]]
         /\ status' = [status EXCEPT ![p] = s]
         /\ controlling' = m_parent[p]
         /\ UNCHANGED terminated

(* syscall$exit and the fault handlers.                                    *)
exit(p) ==
    /\ Runs(p, "user") /\ InitExits(p)
    /\ ExitBegin(p, p, "code")
    /\ Goto(p, "exit")
    /\ UNCHANGED <<Tree, Signals, stopped, change, reaped>>

(* A defect: the parent instead of the root.                               *)
Reaper_parent(p) == m_parent[p]

(* The root of the parent chain of p.                                      *)
Reaper(p) ==
    LET up[q \in Pids] == IF m_parent[q] = NoProcess THEN q ELSE up[m_parent[q]]
    IN  up[p]

(* A thread executes its exit() until it is stopped, the interrupt always. *)
Exits(x, at) == exec[x].at = at /\ x \notin stopped

(* reaper->adopt(child) for the next child of the loop: it gets the new    *)
(* parent, then push_back() begins ...                                     *)
adopt(x) ==
    /\ Exits(x, "adopt") /\ exec[x].todo # <<>> /\ change[x] = NoChange
    /\ LET q == Head(exec[x].todo)
           r == Reaper(exec[x].pid)
       IN  /\ m_parent' = [m_parent EXCEPT ![q] = r]
           /\ PushBegin(x, r, q, "resize")
    /\ exec' = [exec EXCEPT ![x].todo = Tail(@)]
    /\ UNCHANGED <<m_state, m_children, status, Signals, controlling, Stops, Calls, reaped>>

(* ... and ends, and the console goes to the reaper if it was the child's. *)
adopt_end(x) ==
    /\ Exits(x, "adopt") /\ change[x] # NoChange
    /\ ChangeEnd(x)
    /\ controlling' = IF controlling = change[x].child THEN change[x].of ELSE controlling
    /\ UNCHANGED <<m_state, m_parent, status, Signals, Stops, Calls, exec, reaped>>

(* ... m_children.clear() ...                                              *)
exit_clear(x) ==
    /\ Exits(x, "adopt") /\ exec[x].todo = <<>> /\ change[x] = NoChange
    /\ m_children' = [m_children EXCEPT ![exec[x].pid] = <<>>]
    /\ exec' = [exec EXCEPT ![x].at = "zombie"]
    /\ UNCHANGED <<m_state, m_parent, status, Signals, controlling, Stops, Calls, change, reaped>>

(* ... Zombie ...                                                          *)
exit_zombie(x) ==
    /\ Exits(x, "zombie")
    /\ m_state' = [m_state EXCEPT ![exec[x].pid] = "Zombie"]
    /\ exec' = [exec EXCEPT ![x].at = "kill"]
    /\ UNCHANGED <<m_parent, m_children, status, Signals, controlling, Stops, Calls, change, reaped>>

(* ... and the threads are marked Terminated; a thread then yields.        *)
exit_kill(x) ==
    /\ Exits(x, "kill")
    /\ terminated' = terminated \cup {exec[x].pid}
    /\ exec' = [exec EXCEPT ![x] = NoExit]
    /\ IF x = Keyboard THEN UNCHANGED Calls ELSE Goto(x, "yield")
    /\ UNCHANGED <<Tree, status, Signals, controlling, stopped, change, reaped>>

(* The scheduler takes a terminated thread off its core.                   *)
stop(p) ==
    /\ p \in terminated \ stopped
    /\ stopped' = stopped \cup {p}
    /\ UNCHANGED <<Tree, status, Signals, controlling, terminated, Calls, exec, change, reaped>>
----------------------------------------------------------------------------
(* The vector s has q in it.                                               *)
Lists(s, q) == \E i \in 1 .. Len(s) : s[i] = q

(* waitpid(): a child of that number must exist ...                        *)
waitpid(p, q) ==
    /\ Runs(p, "user") /\ InitWaits(p, q)
    /\ q = AnyChild \/ Lists(m_children[p], q)
    /\ GotoWith(p, "wait", q)
    /\ UNCHANGED <<Tree, status, Signals, controlling, Stops, exec, change, reaped>>

(* A defect: waitpid(-1) matches no child.                                 *)
Waitable_exact(p, q) == m_state[q] = "Zombie" /\ arg[p] = q

(* A child that waitpid() may take.                                        *)
Waitable(p, q) == m_state[q] = "Zombie" /\ arg[p] \in {AnyChild, q}

(* ... then poll the children until one of them is a zombie, which erase() *)
(* begins to remove ...                                                    *)
waitpid_scan(p) ==
    /\ Runs(p, "wait")
    /\ \/ /\ m_children[p] = <<>>                               \* ECHILD
          /\ GotoWith(p, "user", NoProcess)
          /\ UNCHANGED <<change, reaped>>
       \/ \E i \in DOMAIN m_children[p] :
             /\ Waitable(p, m_children[p][i])
             /\ \A j \in 1 .. i - 1 : ~Waitable(p, m_children[p][j])
             /\ change' = [change EXCEPT ![p] = [op |-> "erase", of |-> p, at |-> i,
                               child |-> m_children[p][i], grows |-> FALSE]]
             /\ reaped' = [reaped EXCEPT ![m_children[p][i]] = @ + 1]
             /\ Goto(p, "erase")
    /\ UNCHANGED <<Tree, status, Signals, controlling, Stops, exec>>

(* ... and has removed when waitpid() returns.                             *)
waitpid_erased(p) ==
    /\ Runs(p, "erase")
    /\ ChangeEnd(p)
    /\ GotoWith(p, "user", NoProcess)
    /\ UNCHANGED <<m_state, m_parent, status, Signals, controlling, Stops, exec, reaped>>

----------------------------------------------------------------------------
(* sigaction(SIGINT) in process p.                                         *)
set_signal_handler(p, h) ==
    /\ Runs(p, "user") /\ handler[p] # h
    /\ handler' = [handler EXCEPT ![p] = h]
    /\ UNCHANGED <<Tree, status, pending, presses, controlling, Stops, Calls, exec, change, reaped>>

(* Ctrl-C: the keyboard interrupt sends SIGINT to the controlling process. *)
send_signal ==
    /\ exec[Keyboard].at = "no" /\ presses < CtrlC /\ controlling # NoProcess
    /\ presses' = presses + 1
    /\ CASE handler[controlling] = "SIG_DFL" ->
              ExitBegin(Keyboard, controlling, "signal") /\ UNCHANGED pending
         [] handler[controlling] = "SIG_IGN" ->
              UNCHANGED <<exec, terminated, status, controlling, pending>>
         [] OTHER ->
              /\ pending' = [pending EXCEPT ![controlling] = TRUE]
              /\ UNCHANGED <<exec, terminated, status, controlling>>
    /\ UNCHANGED <<Tree, handler, stopped, Calls, change, reaped>>

(* A tick that switches to the thread takes the signal off the queue and,  *)
(* if a handler is still set, enters it.                                   *)
prepare_next_signal(p) ==
    /\ pending[p] /\ p \notin stopped
    /\ pending' = [pending EXCEPT ![p] = FALSE]
    /\ UNCHANGED <<Tree, status, handler, presses, controlling, Stops, Calls, exec, change, reaped>>

Exit(x) == adopt(x) \/ adopt_end(x) \/ exit_clear(x) \/ exit_zombie(x) \/ exit_kill(x)

(* The steps of a system call after its first.                             *)
Goes(p) == fork_link(p) \/ fork_start(p) \/ fork_console(p) \/ waitpid_erased(p)

Syscall(p) ==
    \/ \E q \in Pids : fork(p, q)
    \/ Goes(p)
    \/ exit(p)
    \/ \E q \in Pids \cup {AnyChild} : waitpid(p, q)
    \/ waitpid_scan(p)

Step ==
    \/ \E p \in Pids : Syscall(p) \/ stop(p)
    \/ \E p \in Pids : prepare_next_signal(p)
    \/ \E p \in Pids, h \in Handlers : set_signal_handler(p, h)
    \/ \E x \in Executors : Exit(x)
    \/ send_signal

(* No two executors append to or erase from one vector at the same time,   *)
(* and waitpid() does not poll one whose array is replaced.                *)
Apart ==
    \A x \in Executors : change[x].op # "none" =>
        /\ \A y \in Executors : change[y].of = change[x].of => y = x
        /\ change[x].grows => pc[change[x].of] # "wait"

Watched(A) == A /\ serial' = (serial /\ Apart')

Next == Watched(Step)

Spec == Init /\ [][Next]_vars

(* A thread runs again and again until it is stopped, so that a system     *)
(* call goes on to its end, and init calls waitpid() for any child in a    *)
(* loop.                                                                   *)
FairSpec ==
    /\ Spec
    /\ \A p \in Pids : WF_vars(Watched(Goes(p))) /\ WF_vars(Watched(waitpid_scan(p)))
    /\ \A x \in Executors : WF_vars(Watched(Exit(x)))
    /\ WF_vars(Watched(waitpid(InitPid, AnyChild)))

----------------------------------------------------------------------------
Unreaped(p) == m_state[p] # "None" /\ reaped[p] = 0

(* The children of p once the change of its vector that is under way is    *)
(* done.                                                                   *)
Listing(p) ==
    IF \E x \in Executors : change[x].of = p
    THEN After(change[CHOOSE x \in Executors : change[x].of = p], m_children[p])
    ELSE m_children[p]

ListedOnce(v, q) == \E i \in DOMAIN v : v[i] = q /\ \A j \in DOMAIN v : v[j] = q => j = i

(* Each process that was not reaped is listed exactly once by its parent,  *)
(* and its parent is still running, so that somebody can wait for it; one  *)
(* that was reaped is listed nowhere, but by a parent that has just handed *)
(* it to init in its own exit().                                           *)
NoOrphan ==
    \A q \in Pids \ {InitPid} :
        IF Unreaped(q)
        THEN ListedOnce(Listing(m_parent[q]), q) /\ m_state[m_parent[q]] = "Running"
        ELSE \A p \in Pids : exec[p].at # "adopt" => ~Lists(Listing(p), q)

(* The loop over m_parent in exit() ends, and ends at init, from every     *)
(* process.                                                                *)
ReaperIsInit ==
    /\ m_parent[InitPid] = NoProcess
    /\ \A p \in Pids : m_state[p] # "None" =>
          \E n \in Pids : \E chain \in [1 .. n -> Pids] :
              /\ chain[1] = p /\ chain[n] = InitPid
              /\ \A i \in 1 .. n - 1 : m_parent[chain[i]] = chain[i + 1]

(* A thread is only ever stopped once its process is a zombie (or init     *)
(* halted): no process silently stops without becoming waitable.           *)
StoppedIsWaitable == \A p \in stopped : p = InitPid \/ m_state[p] = "Zombie"

(* However fork(), exit() and waitpid() of the processes interleave, each  *)
(* process finds init as its reaper, at every moment and killed processes  *)
(* included, and none stops without becoming waitable.  As long as nobody  *)
(* uses a vector of children that another changes (nothing keeps two that  *)
(* exit from it, and init loses a child then), and until Ctrl-C is pressed *)
(* (in the middle of fork() it leaves an orphan), each process that was    *)
(* not reaped has one running parent that lists it once, and one that was  *)
(* reaped is listed no more.                                               *)
NobodyOrphaned ==
    /\ TypeOK /\ ReaperIsInit /\ StoppedIsWaitable
    /\ serial /\ presses = 0 => NoOrphan
=============================================================================
