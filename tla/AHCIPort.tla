------------------------------ MODULE AHCIPort ------------------------------
(***************************************************************************)
(* One port of the AHCI controller: AHCIPort::transfer() called by several *)
(* threads, the interrupt handler AHCIController::handle_interrupt() with  *)
(* AHCIPort::handle_interrupt(), and the port of the host adapter, which   *)
(* is modelled from how the driver uses it.                                *)
(*                                                                         *)
(* The register ci is set bit by bit by writing ones and cleared by the    *)
(* adapter, so that "ci = ci | bit" is a read and a write with other steps *)
(* between them.  m_command_slot_lock is the mutex of module Mutex: a      *)
(* thread that finds it set blocks, and any interrupt may end its hlt.     *)
(***************************************************************************)
EXTENDS Integers, FiniteSets

CONSTANTS
    Clients,   \* the threads that transfer
    None,      \* no client
    NumSlots,  \* AHCI::NUM_SLOTS
    Faults     \* whether the device may fail a command

ASSUME AHCIAssumption == NumSlots \in Nat \ {0} /\ Faults \in BOOLEAN /\ None \notin Clients

Slots == 0..NumSlots - 1

VARIABLES
    reg,       \* the registers: ci and is of the port, hba_is of the adapter
    dev,       \* what the adapter does, and in which slot
    issued,    \* m_issued of each command slot
    failed,    \* m_failed of each command slot
    table,     \* the client whose command is in the table of each slot
    m_locked,  \* the flag of m_command_slot_lock
    thread,    \* pc, slot, the value read from ci, and the result of a client
    outcome,   \* what became of the last command of each client (history)
    irq,       \* where the handler is, and its slot
    alone      \* no two transfers have overlapped so far (history)

vars == <<reg, dev, issued, failed, table, m_locked, thread, outcome, irq, alone>>
slotVars == <<issued, failed, table>>

TypeOK ==
    /\ reg \in [ci : SUBSET Slots, is : SUBSET {"DHRS", "ERR"}, hba_is : BOOLEAN]
    /\ dev \in [at : {"idle", "busy", "complete", "signal", "stopped"}, slot : Slots]
    /\ issued \in [Slots -> BOOLEAN] /\ failed \in [Slots -> BOOLEAN]
    /\ table \in [Slots -> Clients \cup {None}]
    /\ m_locked \in BOOLEAN
    /\ thread \in [Clients ->
          [pc : {"out", "blocked", "take", "find", "prepare", "issue", "read",
                 "write", "unlock", "poll", "check"},
           slot : Slots, ci : SUBSET Slots, ret : {"none", "bytes", "zero"}]]
    /\ outcome \in [Clients -> {"none", "good", "bad"}]
    /\ irq \in [at : {"idle", "port", "finish", "fail"}, slot : Slots]
    /\ alone \in BOOLEAN

(* After AHCIPort::initialize() and identify(): the port is started, its   *)
(* status is clear, every slot is free and interrupts are enabled.         *)
Init ==
    /\ reg = [ci |-> {}, is |-> {}, hba_is |-> FALSE]
    /\ dev = [at |-> "idle", slot |-> 0]
    /\ issued = [s \in Slots |-> FALSE] /\ failed = [s \in Slots |-> FALSE]
    /\ table = [s \in Slots |-> None]
    /\ m_locked = FALSE
    /\ thread = [c \in Clients |-> [pc |-> "out", slot |-> 0, ci |-> {}, ret |-> "none"]]
    /\ outcome = [c \in Clients |-> "none"]
    /\ irq = [at |-> "idle", slot |-> 0]
    /\ alone = TRUE

----------------------------------------------------------------------------
At(c, p) == thread[c].pc = p
Goto(c, p) == thread' = [thread EXCEPT ![c].pc = p]
Return(c, r) == thread' = [thread EXCEPT ![c] = [pc |-> "out", slot |-> 0, ci |-> {}, ret |-> r]]

(* transfer(): Mutex::lock() tests the flag, may block, and sets it.       *)
lock(c) ==
    /\ \/ At(c, "out") /\ Goto(c, IF m_locked THEN "blocked" ELSE "take") /\ UNCHANGED m_locked
       \/ At(c, "blocked") /\ Goto(c, "take") /\ UNCHANGED m_locked
       \/ /\ At(c, "take")
          /\ m_locked' = TRUE
          /\ thread' = [thread EXCEPT ![c] = [pc |-> "find", slot |-> 0, ci |-> {}, ret |-> "none"]]
    /\ UNCHANGED <<reg, dev, slotVars, outcome, irq>>

(* find_slot() looks at one slot after the other; with none free,          *)
(* transfer() returns 0 and leaves the lock set.                           *)
find_slot(c) ==
    LET s == thread[c].slot
        free == s \notin reg.ci /\ ~issued[s] IN
    /\ At(c, "find")
    /\ \/ free /\ Goto(c, "prepare")
       \/ ~free /\ s < NumSlots - 1 /\ thread' = [thread EXCEPT ![c].slot = s + 1]
       \/ ~free /\ s = NumSlots - 1 /\ Return(c, "zero")
    /\ UNCHANGED <<reg, dev, slotVars, m_locked, outcome, irq>>

(* prepare_transfer() writes the command into the table of the slot.       *)
prepare_transfer(c) ==
    /\ At(c, "prepare")
    /\ table' = [table EXCEPT ![thread[c].slot] = c]
    /\ outcome' = [outcome EXCEPT ![c] = "none"]
    /\ Goto(c, "issue")
    /\ UNCHANGED <<reg, dev, issued, failed, m_locked, irq>>

(* The thread spins until the device is neither busy nor asks for data,    *)
(* then marks the slot ...                                                 *)
issue(c) ==
    /\ At(c, "issue") /\ dev.at # "busy"
    /\ issued' = [issued EXCEPT ![thread[c].slot] = TRUE]
    /\ failed' = [failed EXCEPT ![thread[c].slot] = FALSE]
    /\ Goto(c, "read")
    /\ UNCHANGED <<reg, dev, table, m_locked, outcome, irq>>

(* ... and ors its bit to ci, the register read and then written.          *)
write_ci(c) ==
    /\ \/ /\ At(c, "read")
          /\ thread' = [thread EXCEPT ![c] = [pc |-> "write", slot |-> @.slot, ci |-> reg.ci, ret |-> "none"]]
          /\ UNCHANGED reg
       \/ /\ At(c, "write")
          /\ thread' = [thread EXCEPT ![c] = [pc |-> "unlock", slot |-> @.slot, ci |-> {}, ret |-> "none"]]
          /\ reg' = [reg EXCEPT !.ci = @ \cup thread[c].ci \cup {thread[c].slot}]
    /\ UNCHANGED <<dev, slotVars, m_locked, outcome, irq>>

(* A defect: the thread does not wait for the command.                     *)
poll_once(c) ==
    \/ /\ At(c, "unlock") /\ m_locked' = FALSE /\ Goto(c, "poll")
       /\ UNCHANGED <<reg, dev, slotVars, outcome, irq>>
    \/ /\ At(c, "poll") /\ Goto(c, "check")
       /\ UNCHANGED <<reg, dev, slotVars, m_locked, outcome, irq>>

(* The lock is released, and the thread spins on its bit of ci ...         *)
poll(c) ==
    \/ /\ At(c, "unlock") /\ m_locked' = FALSE /\ Goto(c, "poll")
       /\ UNCHANGED <<reg, dev, slotVars, outcome, irq>>
    \/ /\ At(c, "poll") /\ thread[c].slot \notin reg.ci /\ Goto(c, "check")
       /\ UNCHANGED <<reg, dev, slotVars, m_locked, outcome, irq>>

(* A defect: the command is tried again when it has not failed.            *)
check_retry(c) ==
    /\ At(c, "check")
    /\ IF failed[thread[c].slot] THEN Return(c, "zero") ELSE Goto(c, "issue")
    /\ UNCHANGED <<reg, dev, slotVars, m_locked, outcome, irq>>

(* ... to return the byte count, or 0 if the slot is marked failed.        *)
check(c) ==
    /\ At(c, "check")
    /\ Return(c, IF failed[thread[c].slot] THEN "zero" ELSE "bytes")
    /\ UNCHANGED <<reg, dev, slotVars, m_locked, outcome, irq>>

transfer(c) == \/ lock(c) \/ find_slot(c) \/ prepare_transfer(c) \/ issue(c)
               \/ write_ci(c) \/ poll(c) \/ check(c)

----------------------------------------------------------------------------
(* AHCIController::handle_interrupt() acknowledges the adapter's status    *)
(* before the port's, so that the bit is latched again ...                 *)
handle_interrupt_entry ==
    /\ irq.at = "idle" /\ reg.hba_is
    /\ reg' = [reg EXCEPT !.hba_is = (reg.is # {})]
    /\ irq' = [irq EXCEPT !.at = "port"]
    /\ UNCHANGED <<dev, slotVars, m_locked, thread, outcome>>

(* ... AHCIPort::handle_interrupt() reads and clears the port's status and *)
(* returns if it was clear ...                                             *)
handle_interrupt_port ==
    /\ irq.at = "port"
    /\ reg' = [reg EXCEPT !.is = {}]
    /\ irq' = [at |-> IF reg.is = {} THEN "idle" ELSE IF "ERR" \in reg.is THEN "fail" ELSE "finish",
               slot |-> 0]
    /\ UNCHANGED <<dev, slotVars, m_locked, thread, outcome>>

NextSlot == irq' = IF irq.slot = NumSlots - 1 THEN [at |-> "idle", slot |-> 0]
                                              ELSE [irq EXCEPT !.slot = @ + 1]

(* ... finishes every issued slot whose bit of ci is clear ...             *)
finish ==
    /\ irq.at = "finish"
    /\ issued' = [issued EXCEPT ![irq.slot] = @ /\ irq.slot \in reg.ci]
    /\ NextSlot
    /\ UNCHANGED <<reg, dev, failed, table, m_locked, thread, outcome>>

(* ... or, after an error, marks every issued slot failed.                 *)
fail ==
    /\ irq.at = "fail"
    /\ failed' = [failed EXCEPT ![irq.slot] = @ \/ issued[irq.slot]]
    /\ NextSlot
    /\ UNCHANGED <<reg, dev, issued, table, m_locked, thread, outcome>>

handle_interrupt == handle_interrupt_entry \/ handle_interrupt_port \/ finish \/ fail

----------------------------------------------------------------------------
(* The adapter starts a command of ci, and is busy with it ...             *)
hba_start ==
    /\ dev.at = "idle"
    /\ \E s \in reg.ci : dev' = [at |-> "busy", slot |-> s]
    /\ UNCHANGED <<reg, slotVars, m_locked, thread, outcome, irq>>

(* ... until the device reports its end; an error stops the port with the  *)
(* command left in ci.                                                     *)
hba_end ==
    /\ dev.at = "busy"
    /\ \E ok \in {TRUE, ~Faults} :
          /\ dev' = [dev EXCEPT !.at = IF ok THEN "complete" ELSE "stopped"]
          /\ reg' = IF ok THEN reg ELSE [ci |-> reg.ci, is |-> reg.is \cup {"ERR"}, hba_is |-> TRUE]
          /\ outcome' = IF table[dev.slot] = None THEN outcome
                        ELSE [outcome EXCEPT ![table[dev.slot]] = IF ok THEN "good" ELSE "bad"]
    /\ UNCHANGED <<slotVars, m_locked, thread, irq>>

(* The adapter clears the bit of ci, and then raises its interrupt.        *)
hba_complete ==
    /\ \/ /\ dev.at = "complete"
          /\ reg' = [reg EXCEPT !.ci = @ \ {dev.slot}]
          /\ dev' = [dev EXCEPT !.at = "signal"]
       \/ /\ dev.at = "signal"
          /\ reg' = [ci |-> reg.ci, is |-> reg.is \cup {"DHRS"}, hba_is |-> TRUE]
          /\ dev' = [at |-> "idle", slot |-> 0]
    /\ UNCHANGED <<slotVars, m_locked, thread, outcome, irq>>

adapter == hba_start \/ hba_end \/ hba_complete

(* At most one client is in transfer().                                    *)
TakingTurns == \A c, d \in Clients : c = d \/ At(c, "out") \/ At(d, "out")
Watched(A) == A /\ alone' = (alone /\ TakingTurns')

Next == Watched((\E c \in Clients : transfer(c)) \/ handle_interrupt \/ adapter)

Spec == Init /\ [][Next]_vars

(* Every core runs on, the interrupt is not masked for ever, and the       *)
(* adapter processes what it is given.                                     *)
FairSpec ==
    /\ Spec /\ WF_vars(Watched(handle_interrupt)) /\ WF_vars(Watched(adapter))
    /\ \A c \in Clients : WF_vars(~At(c, "out") /\ Watched(transfer(c)))

----------------------------------------------------------------------------
(* A command the adapter may still execute belongs to a transfer that is   *)
(* waiting for it: nothing is transferred into or out of a buffer whose    *)
(* caller has gone on.                                                     *)
NoOrphanCommand ==
    \A s \in reg.ci : \E c \in Clients :
        table[s] = c /\ thread[c].slot = s /\ thread[c].pc \in {"unlock", "poll"}

(* transfer() returns the byte count only for a command that the device    *)
(* has carried out.                                                        *)
NoFalseSuccess == \A c \in Clients : thread[c].ret = "bytes" => outcome[c] = "good"

(* A slot that is marked issued and no longer in ci will be freed: its     *)
(* client is about to write ci, or an interrupt is to come, or the handler *)
(* has yet to look at it.  Until the device fails, the slots do not leak,  *)
(* in whatever way the handler, the transfers and the adapter interleave.  *)
NoSlotLeak ==
    dev.at # "stopped" => \A s \in Slots : issued[s] /\ s \notin reg.ci =>
        \/ \E c \in Clients : thread[c].slot = s /\ thread[c].pc \in {"read", "write"}
        \/ dev.at = "signal"
        \/ "DHRS" \in reg.is /\ (reg.hba_is \/ irq.at = "port")
        \/ irq.at = "finish" /\ irq.slot <= s

(* Slots do not leak; and as long as no two transfers overlap, no command  *)
(* is executed that nobody waits for, and none is reported done that was   *)
(* not, also when the device fails.  (Once they overlap, both happen.)     *)
CommandsAwaited == NoSlotLeak /\ (alone => NoOrphanCommand /\ NoFalseSuccess)

(* Every transfer that has been started returns, if the device works.      *)
TransferReturns == \A c \in Clients : ~At(c, "out") ~> At(c, "out") \/ dev.at = "stopped"
=============================================================================
