------------------------------ MODULE MCPaging ------------------------------
(***************************************************************************)
(* Paging in four situations: kernel page tables that one process, or that *)
(* several threads, create while the others synchronize; and the window to *)
(* the page tables, used by one process, or by one on each core.  In the   *)
(* fifth a core switches between processes, which all have their kernel    *)
(* stack at the same address.                                              *)
(***************************************************************************)
EXTENDS PageDirectory, PageWindow, ThreadContext, TLC

CONSTANTS c1, c2, k, a, b, d, f

VARIABLE situation

allVars == <<vars, situation, windowVars, contextVars>>

TwoCores == (k :> c1) @@ (a :> c1) @@ (b :> c2) @@ (f :> c2)
BootThreads == (c1 :> k) @@ (c2 :> b)

Pinned == (a :> c1) @@ (b :> c2) @@ (d :> c1)

PagingInit ==
    /\ Init /\ WindowInit /\ ContextInit
    /\ situation \in {"one mapper", "mappers", "window", "windows", "contexts"}
    /\ situation # "window" => on[c1] = a

OneMapperStep == situation = "one mapper" /\ Next /\ mapped_in' \subseteq {a}
                 /\ UNCHANGED <<situation, windowVars, contextVars>>
MappersStep == situation = "mappers" /\ Next /\ UNCHANGED <<situation, windowVars, contextVars>>
WindowStep == situation = "window" /\ WindowNext /\ mappers' \subseteq {a}
              /\ UNCHANGED <<situation, vars, contextVars>>
WindowsStep == situation = "windows" /\ WindowNext
               /\ on'[c1] = a /\ mapped'[a] \cup mapped'[b] \subseteq {<<1, 1>>}
               /\ UNCHANGED <<situation, vars, contextVars>>
ContextStep == situation = "contexts" /\ ContextNext /\ UNCHANGED <<situation, vars, windowVars>>

(* The fairness of PageDirectory.                                          *)
PagingSpec ==
    /\ PagingInit /\ [][OneMapperStep \/ MappersStep \/ WindowStep \/ WindowsStep \/ ContextStep]_allVars
    /\ \A c \in Cores, t \in Threads :
        WF_allVars(situation = "one mapper" /\ tick(c, t) /\ UNCHANGED <<situation, windowVars, contextVars>>)

----------------------------------------------------------------------------
(* Every process that exists gets every kernel page table.                 *)
TablesReachAll == (situation = "one mapper") => EventuallySynchronized
=============================================================================
