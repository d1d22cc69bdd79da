----------------------------- MODULE MCProcess -----------------------------
(***************************************************************************)
(* Processes in two situations: all of them, ending by exit() only; and    *)
(* one less, with Ctrl-C pressed at any moment, while the first child of   *)
(* init catches or ignores SIGINT or not, as its children then do.         *)
(***************************************************************************)
EXTENDS Process

VARIABLE situation

allVars == <<vars, situation>>

ProcessInit == Init /\ situation \in {"exit", "ctrl-c"}

WhenExit(A) ==
    situation = "exit" /\ Watched(A) /\ handler' = handler /\ presses' = presses /\ UNCHANGED situation

ExitStep == WhenExit(Step)
KilledStep ==
    /\ situation = "ctrl-c" /\ Next /\ m_state'[MaxPid] = "None" /\ UNCHANGED situation
    /\ \A p \in Pids \ {2} : m_state[p] # "None" => handler'[p] = handler[p]

(* The fairness of Process.                                                *)
ProcessSpec ==
    /\ ProcessInit /\ [][ExitStep \/ KilledStep]_allVars
    /\ \A p \in Pids : WF_allVars(WhenExit(Goes(p))) /\ WF_allVars(WhenExit(waitpid_scan(p)))
    /\ \A x \in Executors : WF_allVars(WhenExit(Exit(x)))
    /\ WF_allVars(WhenExit(waitpid(InitPid, AnyChild)))

----------------------------------------------------------------------------
(* A zombie that init has to wait for is reaped, unless two processes come *)
(* to change one vector of children at the same time.                      *)
ZombiesReaped ==
    \A q \in Pids :
        (situation = "exit" /\ m_state[q] = "Zombie" /\ m_parent[q] = InitPid)
            ~> (situation = "exit" /\ (reaped[q] > 0 \/ ~serial))
=============================================================================
