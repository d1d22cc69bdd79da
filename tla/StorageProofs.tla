---------------------------- MODULE StorageProofs ----------------------------
(***************************************************************************)
(* Command slots of a port do not leak, for every number of threads and of *)
(* slots, until the device fails.  The mutex around the slots is not       *)
(* needed for this: it rests on the order in which the adapter, the two    *)
(* handlers and a transfer touch ci, the status registers and m_issued.    *)
(* While transfers take turns, also no command is left behind and none is  *)
(* taken for done that is not; this needs to know what is in ci at each    *)
(* step of a transfer, and that the adapter works on nothing else.         *)
(*                                                                         *)
(* The cache of disk blocks loses no write to a block that one thread      *)
(* uses, for every number of threads and of blocks and whatever blocks the *)
(* threads share.  It is not inductive: where the last contents of a block *)
(* are depends on how far its thread has come, which Held and Unheld say.  *)
(***************************************************************************)
EXTENDS AHCIPort, FileSystemCache, TLAPS

(* What the proof needs to know of the types, one variable at a time.      *)
PCs == {"out", "blocked", "take", "find", "prepare", "issue", "read", "write", "unlock", "poll", "check"}
Results == {"none", "bytes", "zero"}
ThreadOK == thread \in [Clients -> [pc : PCs, slot : Slots, ci : SUBSET Slots, ret : Results]]
RegOK == reg \in [ci : SUBSET Slots, is : SUBSET {"DHRS", "ERR"}, hba_is : BOOLEAN]
DevOK == dev \in [at : {"idle", "busy", "complete", "signal", "stopped"}, slot : Slots]
IrqOK == irq \in [at : {"idle", "port", "finish", "fail"}, slot : Slots]
IssuedOK == issued \in [Slots -> BOOLEAN]

(* Before the device fails, no error is reported, and none handled.        *)
NoErrorYet == dev.at # "stopped" => "ERR" \notin reg.is /\ irq.at # "fail"

Typed == ThreadOK /\ RegOK /\ DevOK /\ IrqOK /\ IssuedOK /\ NoErrorYet

(* The first slot.                                                         *)
LEMMA FirstSlot == 0 \in Slots
BY AHCIAssumption DEF Slots

(* The slot after one that is not the last.                                *)
LEMMA SlotAfter == \A s \in Slots : s # NumSlots - 1 => s + 1 \in Slots
BY AHCIAssumption DEF Slots

----------------------------------------------------------------------------
(* A step of a transfer keeps the types.                                   *)
LEMMA TypedTransfer ==
    ASSUME Typed, NEW c \in Clients, transfer(c)
    PROVE  Typed'
<1> USE DEF Typed
<1>1. ThreadOK'
  <2> USE DEF ThreadOK, PCs, Results, At, Goto, Return
  <2>1. ASSUME lock(c) PROVE ThreadOK'
    <3>1. CASE Goto(c, IF m_locked THEN "blocked" ELSE "take")
      BY <3>1
    <3>2. CASE Goto(c, "take")
      BY Zenon, <3>2
    <3>3. CASE thread' = [thread EXCEPT ![c] = [pc |-> "find", slot |-> 0, ci |-> {}, ret |-> "none"]]
      BY Zenon, <3>3, FirstSlot
    <3> QED BY Zenon, <2>1, <3>1, <3>2, <3>3 DEF lock
  <2>2. ASSUME find_slot(c) PROVE ThreadOK'
    <3>1. CASE Goto(c, "prepare")
      BY Zenon, <3>1
    <3>2. CASE thread[c].slot < NumSlots - 1 /\ thread' = [thread EXCEPT ![c].slot = thread[c].slot + 1]
      <4>1. thread[c].slot + 1 \in Slots
        BY <3>2, AHCIAssumption DEF Slots
      <4> QED BY Zenon, <3>2, <4>1
    <3>3. CASE Return(c, "zero")
      BY Zenon, <3>3, FirstSlot
    <3> QED BY Zenon, <2>2, <3>1, <3>2, <3>3 DEF find_slot
  <2>3. ASSUME prepare_transfer(c) \/ issue(c) PROVE ThreadOK'
    BY <2>3 DEF prepare_transfer, issue
  <2>4. ASSUME write_ci(c) PROVE ThreadOK'
    <3>1. CASE thread' = [thread EXCEPT ![c] = [pc |-> "write", slot |-> thread[c].slot, ci |-> reg.ci, ret |-> "none"]]
      <4>1. reg.ci \in SUBSET Slots
        BY Zenon DEF RegOK
      <4> QED BY Zenon, <3>1, <4>1
    <3>2. CASE thread' = [thread EXCEPT ![c] = [pc |-> "unlock", slot |-> thread[c].slot, ci |-> {}, ret |-> "none"]]
      BY Zenon, <3>2
    <3> QED BY Zenon, <2>4, <3>1, <3>2 DEF write_ci
  <2>5. ASSUME poll(c) PROVE ThreadOK'
    <3>1. CASE Goto(c, "poll")
      BY Zenon, <3>1
    <3>2. CASE Goto(c, "check")
      BY <3>2
    <3> QED BY Zenon, <2>5, <3>1, <3>2 DEF poll
  <2>6. ASSUME check(c) PROVE ThreadOK'
    BY Zenon, <2>6, FirstSlot DEF check
  <2> QED BY Zenon, <2>1, <2>2, <2>3, <2>4, <2>5, <2>6 DEF transfer
<1>2. RegOK'
  <2>1. ASSUME write_ci(c) PROVE RegOK'
    <3>1. thread[c].ci \subseteq Slots /\ thread[c].slot \in Slots
      BY Zenon DEF ThreadOK
    <3>2. CASE reg' = [reg EXCEPT !.ci = @ \cup thread[c].ci \cup {thread[c].slot}]
      BY Zenon, <3>1, <3>2 DEF RegOK
    <3>3. CASE UNCHANGED reg
      BY Zenon, <3>3 DEF RegOK
    <3> QED BY Zenon, <2>1, <3>2, <3>3 DEF write_ci
  <2>2. ASSUME UNCHANGED reg PROVE RegOK'
    BY Zenon, <2>2 DEF RegOK
  <2> QED BY Zenon, <2>1, <2>2 DEF transfer, lock, find_slot, prepare_transfer, issue, poll, check
<1>3. IssuedOK'
  BY Zenon DEF transfer, lock, find_slot, prepare_transfer, issue, write_ci, poll, check,
     slotVars, IssuedOK
<1>4. UNCHANGED <<dev, irq>>
  BY Zenon DEF transfer, lock, find_slot, prepare_transfer, issue, write_ci, poll, check
<1>5. reg'.is = reg.is
  <2>1. ASSUME write_ci(c) PROVE reg'.is = reg.is
    BY Zenon, <2>1 DEF write_ci, RegOK
  <2> QED BY Zenon, <2>1 DEF transfer, lock, find_slot, prepare_transfer, issue, poll, check
<1> QED BY Zenon, <1>1, <1>2, <1>3, <1>4, <1>5 DEF DevOK, IrqOK, NoErrorYet

(* So does one of the handler, which goes to fail only after an error.     *)
LEMMA TypedHandler ==
    ASSUME Typed, handle_interrupt
    PROVE  Typed'
<1> USE DEF Typed, slotVars
<1>1. ASSUME handle_interrupt_entry PROVE Typed'
  <2>1. RegOK' /\ IrqOK'
    BY Zenon, <1>1 DEF handle_interrupt_entry, RegOK, IrqOK
  <2>2. reg'.is = reg.is /\ irq'.at = "port"
    BY Zenon, <1>1 DEF handle_interrupt_entry, RegOK, IrqOK
  <2> QED BY Zenon, <1>1, <2>1, <2>2
             DEF handle_interrupt_entry, ThreadOK, DevOK, IssuedOK, NoErrorYet
<1>2. ASSUME handle_interrupt_port PROVE Typed'
  <2>1. RegOK'
    BY Zenon, <1>2 DEF handle_interrupt_port, RegOK
  <2>2. reg'.is = {} /\ (irq'.at = "fail" => "ERR" \in reg.is)
    BY Zenon, <1>2 DEF handle_interrupt_port, RegOK
  <2>3. IrqOK'
    BY Zenon, <1>2, FirstSlot DEF handle_interrupt_port, IrqOK
  <2> QED BY Zenon, <1>2, <2>1, <2>2, <2>3
             DEF handle_interrupt_port, ThreadOK, DevOK, IssuedOK, NoErrorYet
<1>3. ASSUME finish PROVE Typed'
  <2>1. irq.slot \in Slots /\ irq.at = "finish"
    BY Zenon, <1>3 DEF finish, IrqOK
  <2>2. IrqOK'
    BY Zenon, <1>3, <2>1, FirstSlot, SlotAfter DEF finish, NextSlot, IrqOK
  <2>3. issued' = [issued EXCEPT ![irq.slot] = issued[irq.slot] /\ irq.slot \in reg.ci]
    BY Zenon, <1>3 DEF finish
  <2>4. IssuedOK'
    BY <2>1, <2>3, Zenon DEF IssuedOK
  <2>5. irq'.at # "fail"
    BY Zenon, <1>3, <2>1 DEF finish, NextSlot, IrqOK
  <2> QED BY Zenon, <1>3, <2>2, <2>4, <2>5 DEF finish, ThreadOK, DevOK, RegOK, NoErrorYet
<1>4. ASSUME fail PROVE Typed'
  <2>1. irq.slot \in Slots /\ irq.at = "fail"
    BY Zenon, <1>4 DEF fail, IrqOK
  <2>2. IrqOK'
    BY Zenon, <1>4, <2>1, FirstSlot, SlotAfter DEF fail, NextSlot, IrqOK
  <2> QED BY Zenon, <1>4, <2>1, <2>2 DEF fail, ThreadOK, DevOK, RegOK, IssuedOK, NoErrorYet
<1> QED BY Zenon, <1>1, <1>2, <1>3, <1>4 DEF handle_interrupt

(* And one of the adapter, which stops with the error it reports.          *)
LEMMA TypedAdapter ==
    ASSUME Typed, adapter
    PROVE  Typed'
<1> USE DEF Typed, slotVars
<1>1. ASSUME hba_start PROVE Typed'
  <2>1. PICK s \in reg.ci : dev' = [at |-> "busy", slot |-> s]
    BY Zenon, <1>1 DEF hba_start
  <2>2. s \in Slots
    BY Zenon DEF RegOK
  <2>3. DevOK'
    BY Zenon, <2>1, <2>2 DEF DevOK
  <2> QED BY Zenon, <1>1, <2>3 DEF hba_start, ThreadOK, RegOK, IrqOK, IssuedOK, NoErrorYet
<1>2. ASSUME hba_end PROVE Typed'
  <2>1. UNCHANGED <<thread, irq, issued>> /\ dev.at = "busy"
    BY Zenon, <1>2 DEF hba_end
  <2>2. CASE dev' = [dev EXCEPT !.at = "complete"] /\ reg' = reg
    BY Zenon, <2>1, <2>2 DEF ThreadOK, RegOK, IrqOK, IssuedOK, DevOK, NoErrorYet
  <2>3. CASE dev' = [dev EXCEPT !.at = "stopped"]
             /\ reg' = [ci |-> reg.ci, is |-> reg.is \cup {"ERR"}, hba_is |-> TRUE]
    <3>1. RegOK'
      BY Zenon, <2>3 DEF RegOK
    <3>2. DevOK' /\ dev'.at = "stopped"
      BY Zenon, <2>3 DEF DevOK
    <3> QED BY Zenon, <2>1, <3>1, <3>2 DEF ThreadOK, IrqOK, IssuedOK, NoErrorYet
  <2> QED BY Zenon, <1>2, <2>2, <2>3 DEF hba_end
<1>3. ASSUME hba_complete PROVE Typed'
  <2>1. CASE reg' = [reg EXCEPT !.ci = @ \ {dev.slot}] /\ dev' = [dev EXCEPT !.at = "signal"]
    BY Zenon, <1>3, <2>1 DEF hba_complete, ThreadOK, RegOK, IrqOK, IssuedOK, DevOK, NoErrorYet
  <2>2. CASE reg' = [ci |-> reg.ci, is |-> reg.is \cup {"DHRS"}, hba_is |-> TRUE] /\ dev' = [at |-> "idle", slot |-> 0]
    <3>1. RegOK'
      BY Zenon, <2>2 DEF RegOK
    <3>2. DevOK'
      BY Zenon, <2>2, FirstSlot DEF DevOK
    <3>3. dev.at # "stopped" /\ ("ERR" \in reg'.is => "ERR" \in reg.is)
      BY Zenon, <1>3, <2>2 DEF hba_complete, RegOK
    <3> QED BY Zenon, <1>3, <3>1, <3>2, <3>3 DEF hba_complete, ThreadOK, IrqOK, IssuedOK, NoErrorYet
  <2> QED BY Zenon, <1>3, <2>1, <2>2 DEF hba_complete
<1> QED BY Zenon, <1>1, <1>2, <1>3 DEF adapter

----------------------------------------------------------------------------
(* A slot of NoSlotLeak: it is in use, or someone is yet to free it.       *)
Pending(s) ==
    \/ \E c \in Clients : thread[c].slot = s /\ thread[c].pc \in {"read", "write"}
    \/ dev.at = "signal"
    \/ "DHRS" \in reg.is /\ (reg.hba_is \/ irq.at = "port")
    \/ irq.at = "finish" /\ irq.slot <= s

(* No step of a transfer leaves a marked slot behind: a thread that leaves *)
(* "read" and "write" has put its bit into ci.                             *)
LEMMA LeakTransfer ==
    ASSUME Typed, NoSlotLeak, NEW c \in Clients, transfer(c)
    PROVE  NoSlotLeak'
<1> SUFFICES ASSUME dev'.at # "stopped", NEW s \in Slots, issued'[s], s \notin reg'.ci
             PROVE  Pending(s)'
  BY Zenon DEF NoSlotLeak, Pending
<1>1. UNCHANGED <<dev, irq>>
  BY Zenon DEF transfer, lock, find_slot, prepare_transfer, issue, write_ci, poll, check
<1>2. reg'.is = reg.is /\ reg'.hba_is = reg.hba_is /\ reg.ci \subseteq reg'.ci
  <2>1. ASSUME write_ci(c) PROVE  reg'.is = reg.is /\ reg'.hba_is = reg.hba_is /\ reg.ci \subseteq reg'.ci
    BY Zenon, <2>1 DEF write_ci, Typed, RegOK
  <2> QED BY Zenon, <2>1 DEF transfer, lock, find_slot, prepare_transfer, issue, poll, check
<1>3. CASE issue(c) /\ thread[c].slot = s
  <2>1. thread'[c].slot = s /\ thread'[c].pc = "read"
    BY Zenon, <1>3 DEF issue, Goto, Typed, ThreadOK
  <2> QED BY Zenon, <2>1 DEF Pending
<1>4. CASE ~(issue(c) /\ thread[c].slot = s)
  <2>1. issued[s]
    BY Zenon, <1>4
       DEF transfer, lock, find_slot, prepare_transfer, issue, write_ci, poll, check, slotVars, Typed, IssuedOK
  <2>2. Pending(s)
    BY Zenon, <1>1, <1>2, <2>1 DEF NoSlotLeak, Pending
  <2>3. ASSUME NEW d \in Clients, thread[d].slot = s, thread[d].pc \in {"read", "write"}
        PROVE  thread'[d].slot = s /\ thread'[d].pc \in {"read", "write"}
    <3>1. CASE d # c
      <4>1. thread'[d] = thread[d]
        BY Zenon, <3>1
           DEF transfer, lock, find_slot, prepare_transfer, issue, write_ci, poll, check, Goto, Return, Typed, ThreadOK
      <4> QED BY Zenon, <2>3, <4>1
    <3>2. CASE d = c
      <4>1. write_ci(c)
        BY Zenon, <2>3, <3>2 DEF transfer, lock, find_slot, prepare_transfer, issue, poll, check, At
      <4>2. ~At(c, "write")
        <5>1. SUFFICES ASSUME At(c, "write") PROVE FALSE
          BY Zenon
        <5>2. reg' = [reg EXCEPT !.ci = @ \cup thread[c].ci \cup {thread[c].slot}]
          BY Zenon, <4>1, <5>1 DEF write_ci, At
        <5>3. s \in reg'.ci
          BY Zenon, <2>3, <3>2, <5>2 DEF Typed, RegOK
        <5> QED BY Zenon, <5>3
      <4>3. thread' = [thread EXCEPT ![c] = [pc |-> "write", slot |-> thread[c].slot, ci |-> reg.ci, ret |-> "none"]]
        BY Zenon, <4>1, <4>2 DEF write_ci
      <4> QED BY Zenon, <2>3, <3>2, <4>3 DEF Typed, ThreadOK
    <3> QED BY Zenon, <3>1, <3>2
  <2> QED BY Zenon, <1>1, <1>2, <2>2, <2>3 DEF Pending
<1> QED BY Zenon, <1>3, <1>4

(* Nor does one of the handler: the controller's status is latched again   *)
(* as long as the port's is set, and the pass over the slots begins at the *)
(* first one after the port's status was read.                             *)
LEMMA LeakHandler ==
    ASSUME Typed, NoSlotLeak, handle_interrupt
    PROVE  NoSlotLeak'
<1> SUFFICES ASSUME dev'.at # "stopped", NEW s \in Slots, issued'[s], s \notin reg'.ci
             PROVE  Pending(s)'
  BY Zenon DEF NoSlotLeak, Pending
<1>1. CASE handle_interrupt_entry
  <2>1. Pending(s)
    BY Zenon, <1>1 DEF handle_interrupt_entry, slotVars, NoSlotLeak, Pending, Typed, RegOK
  <2>2. reg'.is = reg.is /\ irq'.at = "port"
    BY Zenon, <1>1 DEF handle_interrupt_entry, Typed, RegOK, IrqOK
  <2> QED BY Zenon, <1>1, <2>1, <2>2 DEF handle_interrupt_entry, Pending
<1>2. CASE handle_interrupt_port
  <2>1. Pending(s)
    BY Zenon, <1>2 DEF handle_interrupt_port, slotVars, NoSlotLeak, Pending, Typed, RegOK
  <2>2. ASSUME "DHRS" \in reg.is PROVE irq'.at = "finish" /\ irq'.slot = 0
    <3>1. reg.is # {} /\ "ERR" \notin reg.is
      BY Zenon, <1>2, <2>2 DEF handle_interrupt_port, Typed, NoErrorYet
    <3> QED BY Zenon, <1>2, <3>1 DEF handle_interrupt_port
  <2>3. 0 <= s
    BY DEF Slots
  <2> QED BY Zenon, <1>2, <2>1, <2>2, <2>3 DEF handle_interrupt_port, Pending
<1>3. CASE finish
  <2>1. irq.slot \in Slots /\ irq.at = "finish"
    BY Zenon, <1>3 DEF finish, Typed, IrqOK
  <2>2. issued[s] /\ s # irq.slot
    BY Zenon, <1>3, <2>1 DEF finish, Typed, IssuedOK
  <2>3. Pending(s)
    BY Zenon, <1>3, <2>2 DEF finish, NoSlotLeak, Pending
  <2>4. ASSUME irq.slot <= s PROVE irq'.at = "finish" /\ irq'.slot <= s
    <3>1. irq.slot # NumSlots - 1 /\ irq.slot + 1 <= s
      BY <2>1, <2>2, <2>4, AHCIAssumption DEF Slots
    <3> QED BY Zenon, <1>3, <2>1, <3>1 DEF finish, NextSlot, Typed, IrqOK
  <2> QED BY Zenon, <1>3, <2>1, <2>3, <2>4 DEF finish, Pending
<1>4. ~fail
  BY DEF fail, Typed, NoErrorYet
<1> QED BY Zenon, <1>1, <1>2, <1>3, <1>4 DEF handle_interrupt

(* Nor one of the adapter: after a bit of ci is cleared the interrupt is   *)
(* raised before anything else is done.                                    *)
LEMMA LeakAdapter ==
    ASSUME Typed, NoSlotLeak, adapter
    PROVE  NoSlotLeak'
<1> SUFFICES ASSUME dev'.at # "stopped", NEW s \in Slots, issued'[s], s \notin reg'.ci
             PROVE  Pending(s)'
  BY Zenon DEF NoSlotLeak, Pending
<1>1. CASE hba_start
  BY Zenon, <1>1 DEF hba_start, slotVars, NoSlotLeak, Pending
<1>2. CASE hba_end
  <2>1. dev' # [dev EXCEPT !.at = "stopped"]
    BY Zenon DEF Typed, DevOK
  <2>2. reg' = reg /\ dev.at = "busy" /\ UNCHANGED <<issued, thread, irq>>
    BY Zenon, <1>2, <2>1 DEF hba_end, slotVars
  <2> QED BY Zenon, <2>2 DEF NoSlotLeak, Pending
<1>3. CASE hba_complete
  <2>1. CASE dev.at = "complete"
    BY Zenon, <1>3, <2>1 DEF hba_complete, Pending, Typed, DevOK
  <2>2. CASE dev.at = "signal"
    <3>1. "DHRS" \in reg'.is /\ reg'.hba_is
      BY <1>3, <2>2 DEF hba_complete, Typed, RegOK
    <3> QED BY Zenon, <3>1 DEF Pending
  <2> QED BY Zenon, <1>3, <2>1, <2>2 DEF hba_complete
<1> QED BY Zenon, <1>1, <1>2, <1>3 DEF adapter

----------------------------------------------------------------------------
(* While transfers take turns, the only command in ci is the one of the    *)
(* transfer that waits for it: a thread that is about to write ci has read *)
(* it empty, and what the adapter works on is in ci.  A command that has   *)
(* left ci was carried out.                                                *)
OrderlyClient(c) ==
    /\ thread[c].pc \in {"issue", "read", "write", "unlock", "poll"} => table[thread[c].slot] = c
    /\ At(c, "write") => thread[c].ci = {}
    /\ thread[c].pc \notin {"out", "blocked", "take"} => thread[c].ret = "none"
    /\ (\/ thread[c].pc \in {"unlock", "poll"} /\ thread[c].slot \notin reg.ci
        \/ At(c, "check") \/ thread[c].ret = "bytes") => outcome[c] = "good"

OrderlyDevice ==
    /\ dev.at \in {"busy", "complete"} => dev.slot \in reg.ci
    /\ dev.at = "complete" => \A c \in Clients : table[dev.slot] = c => outcome[c] = "good"

Orderly ==
    TakingTurns /\ NoOrphanCommand /\ OrderlyDevice /\ \A c \in Clients : OrderlyClient(c)

(* The types of the tables and of what became of the commands.             *)
HistoryOK ==
    /\ table \in [Slots -> Clients \cup {None}]
    /\ outcome \in [Clients -> {"none", "good", "bad"}]

(* They are kept by every step.                                            *)
LEMMA HistoryNext ==
    ASSUME Typed, HistoryOK, Next
    PROVE  HistoryOK'
<1> USE DEF Typed, HistoryOK, slotVars
<1>1. ASSUME NEW c \in Clients, transfer(c) PROVE HistoryOK'
  <2>1. ASSUME prepare_transfer(c) PROVE HistoryOK'
    BY Zenon, <2>1 DEF prepare_transfer, ThreadOK
  <2> QED BY Zenon, <1>1, <2>1 DEF transfer, lock, find_slot, issue, write_ci, poll, check
<1>2. ASSUME handle_interrupt PROVE HistoryOK'
  BY Zenon, <1>2 DEF handle_interrupt, handle_interrupt_entry, handle_interrupt_port, finish, fail
<1>3. ASSUME adapter PROVE HistoryOK'
  <2>1. ASSUME hba_end PROVE HistoryOK'
    <3>1. PICK ok \in {TRUE, ~Faults} :
            outcome' = IF table[dev.slot] = None THEN outcome
                       ELSE [outcome EXCEPT ![table[dev.slot]] = IF ok THEN "good" ELSE "bad"]
      BY Zenon, <2>1 DEF hba_end
    <3> QED BY Zenon, <2>1, <3>1 DEF hba_end
  <2> QED BY Zenon, <1>3, <2>1 DEF adapter, hba_start, hba_complete
<1> QED BY Zenon, <1>1, <1>2, <1>3 DEF Next, Watched

(* A step of the transfer that has the port for itself.                    *)
LEMMA OrderlyTransfer ==
    ASSUME Typed, HistoryOK, Orderly, NEW c \in Clients, transfer(c), TakingTurns'
    PROVE  Orderly'
<1> DEFINE me == thread[c]
<1>0. me \in [pc : PCs, slot : Slots, ci : SUBSET Slots, ret : Results]
  BY Zenon DEF Typed, ThreadOK
<1>1. UNCHANGED <<dev, irq>>
  BY Zenon DEF transfer, lock, find_slot, prepare_transfer, issue, write_ci, poll, check
<1>2. ASSUME NEW d \in Clients \ {c} PROVE thread'[d] = thread[d] /\ At(d, "out")
  <2>1. thread'[d] = thread[d]
    BY Zenon
       DEF transfer, lock, find_slot, prepare_transfer, issue, write_ci, poll, check, Goto, Return, Typed, ThreadOK
  <2>2. CASE ~At(c, "out")
    BY Zenon, <2>1, <2>2 DEF Orderly, TakingTurns
  <2>3. CASE At(c, "out")
    <3>1. Goto(c, IF m_locked THEN "blocked" ELSE "take")
      BY Zenon, <2>3
         DEF At, transfer, lock, find_slot, prepare_transfer, issue, write_ci, poll, check
    <3>2. thread'[c].pc # "out"
      BY Zenon, <3>1 DEF Goto, Typed, ThreadOK
    <3> QED BY Zenon, <2>1, <3>2 DEF TakingTurns, At
  <2> QED BY Zenon, <2>1, <2>2, <2>3
<1>3. \A s \in reg.ci : me.pc \in {"unlock", "poll"} /\ me.slot = s /\ table[s] = c
  BY Zenon, <1>2 DEF Orderly, NoOrphanCommand, At
<1>4. OrderlyClient(c)
  BY Zenon DEF Orderly
<1>5. ASSUME \A d \in Clients \ {c} : outcome'[d] = outcome[d]
      PROVE  \A d \in Clients \ {c} : OrderlyClient(d)'
  BY <1>2, <1>5 DEF Orderly, OrderlyClient, At
<1>6. ASSUME NEW n, thread' = [thread EXCEPT ![c] = n] PROVE thread'[c] = n
  BY Zenon, <1>6 DEF Typed, ThreadOK
<1>7. ASSUME NEW p, Goto(c, p) PROVE thread'[c].pc = p /\ thread'[c].slot = me.slot
                                     /\ thread'[c].ci = me.ci /\ thread'[c].ret = me.ret
  BY Zenon, <1>7 DEF Goto, Typed, ThreadOK
<1> HIDE DEF me
<1>8. ASSUME OrderlyClient(c)', \A d \in Clients \ {c} : outcome'[d] = outcome[d], OrderlyDevice',
             NoOrphanCommand'
      PROVE  Orderly'
  BY Zenon, <1>5, <1>8 DEF Orderly
<1>9. ASSUME lock(c) PROVE Orderly'
  <2>1. UNCHANGED <<reg, dev, table, outcome>>
    BY Zenon, <1>9 DEF lock, slotVars
  <2>2. me.pc \in {"out", "blocked", "take"} /\ reg.ci = {}
    BY Zenon, <1>3, <1>9 DEF lock, At, me
  <2>3. OrderlyClient(c)'
    <3>1. CASE Goto(c, IF m_locked THEN "blocked" ELSE "take")
      BY <1>4, <1>7, <2>1, <3>1 DEF OrderlyClient, At, me
    <3>2. CASE Goto(c, "take")
      BY <1>4, <1>7, <2>1, <3>2 DEF OrderlyClient, At, me
    <3>3. CASE thread' = [thread EXCEPT ![c] = [pc |-> "find", slot |-> 0, ci |-> {}, ret |-> "none"]]
      <4>1. thread'[c] = [pc |-> "find", slot |-> 0, ci |-> {}, ret |-> "none"]
        BY Zenon, <1>6, <3>3
      <4> QED BY <4>1 DEF OrderlyClient, At
    <3> QED BY Zenon, <1>9, <3>1, <3>2, <3>3 DEF lock
  <2> QED BY Zenon, <1>8, <2>1, <2>2, <2>3 DEF Orderly, OrderlyDevice, NoOrphanCommand
<1>10. ASSUME find_slot(c) PROVE Orderly'
  <2>1. UNCHANGED <<reg, dev, table, outcome>>
    BY Zenon, <1>10 DEF find_slot, slotVars
  <2>2. me.pc = "find" /\ reg.ci = {} /\ me.ret = "none"
    BY Zenon, <1>3, <1>4, <1>10 DEF find_slot, At, me, OrderlyClient
  <2>3. OrderlyClient(c)'
    <3>1. CASE Goto(c, "prepare")
      BY <1>7, <2>2, <3>1 DEF OrderlyClient, At
    <3>2. CASE thread' = [thread EXCEPT ![c].slot = me.slot + 1]
      <4>1. thread'[c].pc = "find" /\ thread'[c].ret = "none"
        BY Zenon, <2>2, <3>2 DEF Typed, ThreadOK, me
      <4> QED BY Zenon, <4>1 DEF OrderlyClient, At
    <3>3. CASE Return(c, "zero")
      <4>1. thread'[c] = [pc |-> "out", slot |-> 0, ci |-> {}, ret |-> "zero"]
        BY Zenon, <1>6, <3>3 DEF Return
      <4> QED BY <4>1 DEF OrderlyClient, At
    <3> QED BY Zenon, <1>10, <3>1, <3>2, <3>3 DEF find_slot, me
  <2> QED BY Zenon, <1>8, <2>1, <2>2, <2>3 DEF Orderly, OrderlyDevice, NoOrphanCommand
<1>11. ASSUME prepare_transfer(c) PROVE Orderly'
  <2>1. /\ UNCHANGED <<reg, dev>> /\ Goto(c, "issue")
        /\ table' = [table EXCEPT ![me.slot] = c] /\ outcome' = [outcome EXCEPT ![c] = "none"]
    BY Zenon, <1>11 DEF prepare_transfer, me
  <2>2. me.pc = "prepare" /\ reg.ci = {} /\ me.ret = "none"
    BY Zenon, <1>3, <1>4, <1>11 DEF prepare_transfer, At, me, OrderlyClient
  <2>3. table'[me.slot] = c /\ \A d \in Clients \ {c} : outcome'[d] = outcome[d]
    BY Zenon, <1>0, <2>1 DEF HistoryOK, me
  <2>4. OrderlyClient(c)'
    BY <1>7, <2>1, <2>2, <2>3 DEF OrderlyClient, At
  <2> QED BY Zenon, <1>8, <2>1, <2>2, <2>3, <2>4 DEF Orderly, OrderlyDevice, NoOrphanCommand
<1>12. ASSUME issue(c) PROVE Orderly'
  <2>1. UNCHANGED <<reg, dev, table, outcome>> /\ Goto(c, "read")
    BY Zenon, <1>12 DEF issue
  <2>2. me.pc = "issue" /\ reg.ci = {} /\ me.ret = "none" /\ table[me.slot] = c
    BY Zenon, <1>3, <1>4, <1>12 DEF issue, At, me, OrderlyClient
  <2>3. OrderlyClient(c)'
    BY <1>7, <2>1, <2>2 DEF OrderlyClient, At
  <2> QED BY Zenon, <1>8, <2>1, <2>2, <2>3 DEF Orderly, OrderlyDevice, NoOrphanCommand
<1>13. ASSUME write_ci(c) PROVE Orderly'
  <2>1. UNCHANGED <<dev, table, outcome>>
    BY Zenon, <1>13 DEF write_ci, slotVars
  <2>2. reg.ci = {} /\ me.pc \in {"read", "write"} /\ table[me.slot] = c
    BY Zenon, <1>3, <1>4, <1>13 DEF write_ci, At, me, OrderlyClient
  <2>3. CASE At(c, "read")
    <3>1. reg' = reg /\ thread'[c] = [pc |-> "write", slot |-> me.slot, ci |-> {}, ret |-> "none"]
      BY Zenon, <1>6, <1>13, <2>2, <2>3 DEF write_ci, At, me
    <3>2. OrderlyClient(c)'
      BY <2>1, <2>2, <3>1 DEF OrderlyClient, At
    <3> QED BY Zenon, <1>8, <2>1, <2>2, <3>1, <3>2 DEF Orderly, OrderlyDevice, NoOrphanCommand
  <2>4. CASE At(c, "write")
    <3>1. reg' = [reg EXCEPT !.ci = @ \cup me.ci \cup {me.slot}]
          /\ thread'[c] = [pc |-> "unlock", slot |-> me.slot, ci |-> {}, ret |-> "none"]
      BY Zenon, <1>6, <1>13, <2>4 DEF write_ci, At, me
    <3>2. reg'.ci = {me.slot}
      BY Zenon, <1>4, <2>2, <2>4, <3>1 DEF OrderlyClient, me, Typed, RegOK
    <3>3. OrderlyClient(c)'
      BY <2>1, <2>2, <3>1, <3>2 DEF OrderlyClient, At
    <3>4. NoOrphanCommand'
      BY <2>1, <2>2, <3>1, <3>2 DEF NoOrphanCommand
    <3>5. OrderlyDevice'
      BY Zenon, <2>1, <2>2 DEF Orderly, OrderlyDevice
    <3> QED BY Zenon, <1>8, <2>1, <3>3, <3>4, <3>5
  <2> QED BY Zenon, <2>3, <2>4, <1>13 DEF write_ci
<1>14. ASSUME poll(c) PROVE Orderly'
  <2>1. UNCHANGED <<reg, dev, table, outcome>>
    BY Zenon, <1>14 DEF poll, slotVars
  <2>2. me.ret = "none" /\ table[me.slot] = c /\ me.pc \in {"unlock", "poll"}
    BY Zenon, <1>4, <1>14 DEF poll, At, me, OrderlyClient
  <2>3. OrderlyDevice'
    BY Zenon, <2>1 DEF Orderly, OrderlyDevice
  <2>4. CASE Goto(c, "poll")
    <3>1. OrderlyClient(c)'
      BY <1>4, <1>7, <2>1, <2>2, <2>4 DEF OrderlyClient, At, me
    <3>2. NoOrphanCommand'
      BY Zenon, <1>3, <1>7, <2>1, <2>4 DEF NoOrphanCommand
    <3> QED BY Zenon, <1>8, <2>1, <2>3, <3>1, <3>2
  <2>5. CASE me.slot \notin reg.ci /\ Goto(c, "check")
    <3>1. reg.ci = {}
      BY Zenon, <1>3, <2>5
    <3>2. OrderlyClient(c)'
      BY <1>4, <1>7, <2>1, <2>2, <2>5 DEF OrderlyClient, At, me
    <3> QED BY Zenon, <1>8, <2>1, <2>3, <3>1, <3>2 DEF NoOrphanCommand
  <2> QED BY Zenon, <1>14, <2>4, <2>5 DEF poll, me
<1>15. ASSUME check(c) PROVE Orderly'
  <2>1. UNCHANGED <<reg, dev, table, outcome>>
    BY Zenon, <1>15 DEF check, slotVars
  <2>2. reg.ci = {} /\ outcome[c] = "good"
    BY Zenon, <1>3, <1>4, <1>15 DEF check, At, me, OrderlyClient
  <2>3. thread'[c].pc = "out"
    BY Zenon, <1>6, <1>15 DEF check, Return
  <2>4. OrderlyClient(c)'
    BY Zenon, <2>1, <2>2, <2>3 DEF OrderlyClient, At
  <2> QED BY Zenon, <1>8, <2>1, <2>2, <2>4 DEF Orderly, OrderlyDevice, NoOrphanCommand
<1> QED BY Zenon, <1>9, <1>10, <1>11, <1>12, <1>13, <1>14, <1>15 DEF transfer

(* The handler touches neither ci nor a command.                           *)
LEMMA OrderlyHandler ==
    ASSUME Typed, Orderly, handle_interrupt
    PROVE  Orderly'
<1>1. UNCHANGED <<dev, table, thread, outcome>>
  BY Zenon
     DEF handle_interrupt, handle_interrupt_entry, handle_interrupt_port, finish, fail, slotVars
<1>2. reg'.ci = reg.ci
  <2>1. ASSUME handle_interrupt_entry \/ handle_interrupt_port PROVE reg'.ci = reg.ci
    BY Zenon, <2>1 DEF handle_interrupt_entry, handle_interrupt_port, Typed, RegOK
  <2> QED BY Zenon, <2>1 DEF handle_interrupt, finish, fail
<1> QED BY <1>1, <1>2 DEF Orderly, OrderlyClient, OrderlyDevice, NoOrphanCommand, TakingTurns, At

(* The adapter takes a command out of ci once the device has carried it    *)
(* out.                                                                    *)
LEMMA OrderlyAdapter ==
    ASSUME Typed, HistoryOK, Orderly, adapter
    PROVE  Orderly'
<1>1. UNCHANGED <<table, thread>> /\ TakingTurns'
  BY Zenon DEF adapter, hba_start, hba_end, hba_complete, slotVars, Orderly, TakingTurns, At
<1>2. ASSUME dev.slot \in reg.ci
      PROVE  \E c \in Clients : table[dev.slot] = c /\ thread[c].slot = dev.slot
                                /\ thread[c].pc \in {"unlock", "poll"} /\ thread[c].ret = "none"
  BY <1>2 DEF Orderly, NoOrphanCommand, OrderlyClient
<1>3. CASE hba_start
  <2>1. PICK s \in reg.ci : dev' = [at |-> "busy", slot |-> s]
    BY Zenon, <1>3 DEF hba_start
  <2>2. UNCHANGED <<reg, outcome>>
    BY Zenon, <1>3 DEF hba_start
  <2>3. OrderlyDevice'
    BY Zenon, <2>1, <2>2 DEF OrderlyDevice
  <2> QED BY Zenon, <1>1, <2>2, <2>3 DEF Orderly, OrderlyClient, NoOrphanCommand, At
<1>4. CASE hba_end
  <2>1. dev.at = "busy" /\ dev.slot \in reg.ci
    BY Zenon, <1>4 DEF hba_end, Orderly, OrderlyDevice
  <2>2. PICK c \in Clients : /\ table[dev.slot] = c /\ thread[c].slot = dev.slot
                             /\ thread[c].pc \in {"unlock", "poll"} /\ thread[c].ret = "none"
    BY Zenon, <1>2, <2>1
  <2>3. PICK ok \in {TRUE, ~Faults} :
          /\ dev' = [dev EXCEPT !.at = IF ok THEN "complete" ELSE "stopped"]
          /\ reg' = IF ok THEN reg ELSE [ci |-> reg.ci, is |-> reg.is \cup {"ERR"}, hba_is |-> TRUE]
          /\ outcome' = [outcome EXCEPT ![c] = IF ok THEN "good" ELSE "bad"]
    BY Zenon, <1>4, <2>2, AHCIAssumption DEF hba_end
  <2>4. reg'.ci = reg.ci /\ dev'.slot = dev.slot
    BY Zenon, <2>3 DEF Typed, RegOK, DevOK
  <2>5. \A d \in Clients \ {c} : outcome'[d] = outcome[d]
    BY Zenon, <2>3 DEF HistoryOK
  <2>6. dev'.at = "complete" => outcome'[c] = "good"
    BY Zenon, <2>3 DEF Typed, DevOK, HistoryOK
  <2>7. OrderlyDevice'
    BY Zenon, <1>1, <2>1, <2>2, <2>4, <2>6 DEF OrderlyDevice
  <2>8. ASSUME NEW d \in Clients PROVE OrderlyClient(d)'
    <3>1. CASE d = c
      BY Zenon, <1>1, <2>1, <2>2, <2>4, <3>1 DEF Orderly, OrderlyClient, At
    <3>2. CASE d # c
      BY Zenon, <1>1, <2>4, <2>5, <3>2 DEF Orderly, OrderlyClient, At
    <3> QED BY Zenon, <3>1, <3>2
  <2>9. NoOrphanCommand'
    BY Zenon, <1>1, <2>4 DEF Orderly, NoOrphanCommand
  <2> QED BY Zenon, <1>1, <2>7, <2>8, <2>9 DEF Orderly
<1>5. CASE hba_complete /\ dev.at = "complete"
  <2>1. dev.slot \in reg.ci
    BY Zenon, <1>5 DEF Orderly, OrderlyDevice
  <2>2. PICK c \in Clients : /\ table[dev.slot] = c /\ thread[c].slot = dev.slot
                             /\ thread[c].pc \in {"unlock", "poll"} /\ thread[c].ret = "none"
    BY Zenon, <1>2, <2>1
  <2>3. outcome[c] = "good" /\ outcome' = outcome
    BY Zenon, <1>5, <2>2 DEF hba_complete, Orderly, OrderlyDevice
  <2>4. reg'.ci = reg.ci \ {dev.slot} /\ dev'.at = "signal"
    BY Zenon, <1>5 DEF hba_complete, Typed, RegOK, DevOK
  <2>5. OrderlyDevice'
    BY Zenon, <2>4 DEF OrderlyDevice
  <2>6. NoOrphanCommand'
    BY Zenon, <1>1, <2>4 DEF Orderly, NoOrphanCommand
  <2>7. ASSUME NEW d \in Clients PROVE OrderlyClient(d)'
    <3>1. CASE d = c
      BY Zenon, <1>1, <2>2, <2>3, <3>1 DEF Orderly, OrderlyClient, At
    <3>2. CASE d # c
      <4>1. thread[d].pc = "out"
        BY Zenon, <2>2, <3>2 DEF Orderly, TakingTurns, At
      <4> QED BY Zenon, <1>1, <2>3, <4>1 DEF Orderly, OrderlyClient, At
    <3> QED BY Zenon, <3>1, <3>2
  <2> QED BY Zenon, <1>1, <2>5, <2>6, <2>7 DEF Orderly
<1>6. CASE hba_complete /\ dev.at = "signal"
  <2>1. outcome' = outcome /\ reg'.ci = reg.ci /\ dev'.at = "idle"
    BY <1>6 DEF hba_complete
  <2> QED BY <1>1, <2>1 DEF Orderly, OrderlyClient, OrderlyDevice, NoOrphanCommand, At
<1> QED BY Zenon, <1>3, <1>4, <1>5, <1>6 DEF adapter, hba_complete

----------------------------------------------------------------------------
Inductive == Typed /\ HistoryOK /\ NoSlotLeak /\ (alone => Orderly)

(* Nothing has been transferred at the start, and every step keeps the     *)
(* invariant.                                                              *)
LEMMA InductiveHolds == Spec => []Inductive
<1>1. Init => Inductive
  <2> SUFFICES ASSUME Init PROVE Inductive
    BY Zenon
  <2>1. ThreadOK /\ RegOK /\ DevOK /\ IrqOK
    BY Zenon, FirstSlot DEF Init, ThreadOK, PCs, Results, RegOK, DevOK, IrqOK
  <2>2. IssuedOK
    BY Zenon DEF Init, IssuedOK
  <2>3. NoSlotLeak /\ NoErrorYet
    BY Zenon DEF Init, NoSlotLeak, NoErrorYet
  <2>4. HistoryOK
    BY Zenon DEF Init, HistoryOK
  <2>5. Orderly
    BY Zenon DEF Init, Orderly, OrderlyClient, OrderlyDevice, NoOrphanCommand, TakingTurns, At
  <2> QED BY Zenon, <2>1, <2>2, <2>3, <2>4, <2>5 DEF Typed, Inductive
<1>2. Inductive /\ [Next]_vars => Inductive'
  <2> SUFFICES ASSUME Inductive, [Next]_vars PROVE Inductive'
    BY Zenon
  <2> USE DEF Inductive
  <2>1. CASE Next
    <3>1. HistoryOK' /\ (alone' => alone /\ TakingTurns')
      BY Zenon, <2>1, HistoryNext DEF Next, Watched
    <3>2. ASSUME NEW c \in Clients, transfer(c) PROVE Inductive'
      BY Zenon, <3>1, <3>2, TypedTransfer, LeakTransfer, OrderlyTransfer
    <3>3. CASE handle_interrupt
      BY Zenon, <3>1, <3>3, TypedHandler, LeakHandler, OrderlyHandler
    <3>4. CASE adapter
      BY Zenon, <3>1, <3>4, TypedAdapter, LeakAdapter, OrderlyAdapter
    <3> QED BY Zenon, <2>1, <3>2, <3>3, <3>4 DEF Next, Watched
  <2>2. CASE UNCHANGED vars
    <3>1. Typed' /\ HistoryOK' /\ NoSlotLeak'
      BY Zenon, <2>2
         DEF vars, Typed, ThreadOK, RegOK, DevOK, IrqOK, IssuedOK, NoErrorYet, HistoryOK, NoSlotLeak
    <3>2. alone' => Orderly'
      BY <2>2 DEF vars, Orderly, OrderlyClient, OrderlyDevice, NoOrphanCommand, TakingTurns, At
    <3> QED BY Zenon, <3>1, <3>2
  <2> QED BY <2>1, <2>2
<1> QED BY <1>1, <1>2, PTL DEF Spec

(* For every number of threads and of command slots, and a device that may *)
(* fail: until it does, a slot that transfer() has marked issued is in ci, *)
(* about to be, or about to be freed by the handler; and until two         *)
(* transfers overlap, each command in ci has a transfer waiting for it,    *)
(* and transfer() returns the byte count only for what was carried out.    *)
THEOREM TransfersAwaitTheirCommands == Spec => []CommandsAwaited
<1>1. Inductive => CommandsAwaited
  BY DEF Inductive, CommandsAwaited, Orderly, OrderlyClient, NoFalseSuccess
<1> QED BY <1>1, InductiveHolds, PTL

----------------------------------------------------------------------------
(* What the proof needs to know of the types.                              *)
CacheTyped ==
    /\ refcount \in [Blocks -> Int]
    /\ region \in [Blocks -> Int] /\ disk \in [Blocks -> Int] /\ written \in [Blocks -> Nat]
    /\ pc \in [Threads -> Steps] /\ DOMAIN block = Threads
    /\ \A t \in Threads : pc[t] # "idle" => block[t] \in Uses[t]

(* A block of its own that a thread has is cached, with the last contents  *)
(* once it is loaded; until then they are on the disk.                     *)
Held(t) ==
    Holding(t) /\ Own(block[t]) =>
        /\ block[t] \in s_fs_cache /\ refcount[block[t]] = 1
        /\ IF pc[t] = "load" THEN region[block[t]] = NoData /\ disk[block[t]] = written[block[t]]
                             ELSE region[block[t]] = written[block[t]]

(* Such a block that its thread does not have is on the disk only.         *)
Has(t, b) == Holding(t) /\ block[t] = b
Unheld(b) ==
    Own(b) /\ (\A t \in Threads : ~Has(t, b)) =>
        b \notin s_fs_cache /\ refcount[b] = 0 /\ disk[b] = written[b]

CacheInductive ==
    /\ CacheTyped
    /\ (\A t \in Threads : Own(block[t])) => ~halted
    /\ \A t \in Threads : Held(t)
    /\ \A b \in Blocks : Unheld(b)

----------------------------------------------------------------------------
(* A step of a thread that changes one of its blocks, and no other, keeps  *)
(* the invariant if it does so for this block.                             *)
LEMMA StepOfOwner ==
    ASSUME CacheAssumption, CacheInductive, CacheTyped',
           NEW t \in Threads, NEW o \in Uses[t],
           Own(o) => ~halted',
           pc[t] # "idle" => block[t] = o, block'[t] = o,
           \A u \in Threads \ {t} : pc'[u] = pc[u] /\ block'[u] = block[u],
           \A b \in Blocks \ {o} :
               /\ refcount'[b] = refcount[b] /\ region'[b] = region[b] /\ disk'[b] = disk[b]
               /\ written'[b] = written[b] /\ (b \in s_fs_cache' <=> b \in s_fs_cache),
           Held(t)', Has(t, o)' \/ Unheld(o)'
    PROVE  CacheInductive'
<1>1. ASSUME NEW u \in Threads PROVE Held(u)'
  <2>1. CASE u = t
    BY Zenon, <2>1
  <2>2. CASE u # t
    <3>1. Holding(u)' /\ Own(block'[u]) =>
              Holding(u) /\ Own(block[u]) /\ block[u] \in Blocks /\ block[u] # o
      BY <2>2 DEF Holding, CacheAssumption, Own, CacheInductive, CacheTyped
    <3>2. Held(u)
      BY Zenon DEF CacheInductive
    <3> QED BY <2>2, <3>1, <3>2 DEF Held
  <2> QED BY Zenon, <2>1, <2>2
<1>2. ASSUME NEW b \in Blocks PROVE Unheld(b)'
  <2>1. CASE b = o
    BY Zenon, <2>1 DEF Unheld
  <2>2. CASE b # o
    <3>1. ~Has(t, b)
      BY Zenon, <2>2 DEF Has, Holding
    <3>2. (\A u \in Threads : ~Has(u, b)') => \A u \in Threads : ~Has(u, b)
      BY Zenon, <3>1 DEF Has, Holding
    <3>3. Unheld(b)
      BY Zenon DEF CacheInductive
    <3> QED BY Zenon, <2>2, <3>2, <3>3 DEF Unheld
  <2> QED BY Zenon, <2>1, <2>2
<1>3. (\A u \in Threads : Own(block'[u])) => ~halted'
  BY Zenon DEF CacheInductive
<1> QED BY Zenon, <1>1, <1>2, <1>3 DEF CacheInductive

(* A thread that does not have its own block finds it gone.                *)
LEMMA OwnerMisses ==
    ASSUME CacheAssumption, CacheInductive,
           NEW t \in Threads, pc[t] # "idle", ~Holding(t), Own(block[t])
    PROVE  /\ block[t] \notin s_fs_cache /\ refcount[block[t]] = 0
           /\ disk[block[t]] = written[block[t]]
<1>1. block[t] \in Blocks /\ block[t] \in Uses[t]
  BY Zenon DEF CacheAssumption, CacheInductive, CacheTyped
<1>2. ASSUME NEW u \in Threads PROVE ~Has(u, block[t])
  BY Zenon, <1>1 DEF Has, Holding, Own, CacheInductive, CacheTyped
<1> QED BY Zenon, <1>1, <1>2 DEF CacheInductive, Unheld

(* lock(), acquire() and find() change no block; a hit is not of an own    *)
(* block.                                                                  *)
LEMMA KeepsWaiting ==
    ASSUME CacheAssumption, CacheInductive, NEW t \in Threads,
           (\E b \in Blocks : acquire(t, b)) \/ find(t) \/ Lock(t, "find", "find_set")
           \/ Lock(t, "miss", "miss_set") \/ Lock(t, "release", "release_set") \/ BeginRelease(t)
    PROVE  CacheInductive'
<1> USE DEF CacheAssumption
<1>1. CASE \E b \in Blocks : acquire(t, b)
  <2> PICK b \in Blocks : acquire(t, b)
    BY Zenon, <1>1
  <2>1. CacheTyped'
    BY Zenon DEF CacheInductive, CacheTyped, acquire, Step, Steps
  <2>2. Held(t)'
    BY Zenon, <2>1 DEF Held, Holding, acquire, Step, CacheInductive, CacheTyped
  <2>3. Unheld(b)'
    <3>1. (\A u \in Threads : ~Has(u, b)') => \A u \in Threads : ~Has(u, b)
      BY Zenon DEF Has, Holding, acquire, Step, CacheInductive, CacheTyped
    <3>2. Unheld(b)
      BY Zenon DEF CacheInductive
    <3> QED BY Zenon, <3>1, <3>2 DEF Unheld, acquire
  <2> QED BY Zenon, <2>1, <2>2, <2>3, StepOfOwner DEF acquire, Step, CacheInductive, CacheTyped
<1>2. CASE find(t)
  <2> DEFINE b == block[t]
  <2>0. b \in Blocks /\ b \in Uses[t] /\ ~Holding(t) /\ pc[t] # "idle"
    BY Zenon, <1>2 DEF CacheInductive, CacheTyped, find, Step, Holding
  <2>1. Own(b) => b \notin s_fs_cache
    BY Zenon, <2>0, OwnerMisses
  <2>2. CacheTyped'
    BY <1>2, <2>0 DEF CacheInductive, CacheTyped, find, Step, Steps
  <2>3. Held(t)'
    BY <1>2, <2>0, <2>1, <2>2, SMTT(30) DEF Held, Holding, find, Step, CacheInductive, CacheTyped
  <2>4. Unheld(b)'
    <3>1. Own(b) /\ (\A u \in Threads : ~Has(u, b)') => \A u \in Threads : ~Has(u, b)
      BY Zenon, <1>2, <2>0, <2>1 DEF Has, Holding, find, Step, CacheInductive, CacheTyped
    <3>2. Unheld(b)
      BY Zenon, <2>0 DEF CacheInductive
    <3> QED BY Zenon, <1>2, <2>0, <2>1, <3>1, <3>2 DEF Unheld, find, CacheInductive, CacheTyped
  <2> QED
    BY SMTT(30), <1>2, <2>0, <2>2, <2>3, <2>4, StepOfOwner
       DEF find, Step, CacheInductive, CacheTyped
<1>3. CASE Lock(t, "find", "find_set") \/ Lock(t, "miss", "miss_set")
           \/ Lock(t, "release", "release_set") \/ BeginRelease(t)
  <2> DEFINE b == block[t]
  <2>0. b \in Blocks /\ b \in Uses[t] /\ pc[t] # "idle" /\ ~halted
    BY Zenon, <1>3 DEF CacheInductive, CacheTyped, Lock, BeginRelease, Step
  <2>1. UNCHANGED <<s_fs_cache, refcount, region, disk, written, block, halted>>
    BY Zenon, <1>3 DEF Lock, BeginRelease
  <2>2. CacheTyped'
    BY Zenon, <1>3, <2>1 DEF CacheInductive, CacheTyped, Lock, BeginRelease, Step, Steps
  <2>3. (Holding(t)' <=> Holding(t)) /\ (pc'[t] = "load" <=> pc[t] = "load")
        /\ \A u \in Threads \ {t} : pc'[u] = pc[u]
    BY <1>3, <2>1, SMTT(30) DEF CacheInductive, CacheTyped, Lock, BeginRelease, Step, Holding
  <2>4. Held(t)'
    BY Zenon, <2>1, <2>3 DEF Held, CacheInductive
  <2>5. Unheld(b)'
    <3>1. (\A u \in Threads : ~Has(u, b)') => \A u \in Threads : ~Has(u, b)
      BY Zenon, <2>1, <2>3 DEF Has, Holding
    <3>2. Unheld(b)
      BY Zenon, <2>0 DEF CacheInductive
    <3> QED BY Zenon, <2>1, <3>1, <3>2 DEF Unheld
  <2> QED BY Zenon, <2>0, <2>1, <2>2, <2>3, <2>4, <2>5, StepOfOwner
<1> QED BY Zenon, <1>1, <1>2, <1>3

(* The steps of a thread that has a block change that block only.          *)
LEMMA KeepsHolding ==
    ASSUME CacheAssumption, CacheInductive, NEW t \in Threads,
           emplace(t) \/ read_blocks(t) \/ write(t) \/ SyncThis(t)
    PROVE  CacheInductive'
<1> USE DEF CacheAssumption
<1> DEFINE b == block[t]
<1>0. b \in Blocks /\ b \in Uses[t] /\ pc[t] # "idle" /\ block' = block /\ Held(t)
  BY Zenon DEF CacheInductive, CacheTyped, emplace, read_blocks, write, SyncThis, Step
<1>1. CacheTyped'
  <2>1. CASE emplace(t)
    BY <1>0, <2>1 DEF CacheInductive, CacheTyped, emplace, Step, Steps, NoData
  <2>2. CASE read_blocks(t)
    BY Zenon, <1>0, <2>2 DEF CacheInductive, CacheTyped, read_blocks, Step, Steps
  <2>3. CASE write(t)
    BY <1>0, <2>3 DEF CacheInductive, CacheTyped, write, Step, Steps
  <2>4. CASE SyncThis(t)
    BY Zenon, <1>0, <2>4 DEF CacheInductive, CacheTyped, SyncThis, sync, Step, Steps
  <2> QED BY Zenon, <2>1, <2>2, <2>3, <2>4
<1>2. Has(t, b)'
  BY Zenon, <1>0, <1>1
     DEF Has, Holding, emplace, read_blocks, write, SyncThis, Step, CacheInductive, CacheTyped
<1>3. Held(t)' /\ (Own(b) => ~halted')
  <2>1. CASE emplace(t)
    <3>1. ~Holding(t)
      BY Zenon, <2>1 DEF emplace, Step, Holding
    <3>2. Own(b) => b \notin s_fs_cache /\ disk[b] = written[b]
      BY Zenon, <1>0, <3>1, OwnerMisses
    <3>3. pc'[t] = "load" /\ refcount'[b] = 1 /\ region'[b] = NoData /\ b \in s_fs_cache'
          /\ UNCHANGED <<disk, written>> /\ (halted' <=> b \in s_fs_cache)
      BY Zenon, <1>0, <2>1 DEF emplace, Step, CacheInductive, CacheTyped
    <3> QED BY Zenon, <1>0, <3>2, <3>3 DEF Held
  <2>2. CASE read_blocks(t)
    <3>1. pc[t] = "load" /\ pc'[t] = "use" /\ region'[b] = disk[b]
          /\ UNCHANGED <<s_fs_cache, refcount, written>> /\ ~halted'
      BY SMTT(30), <1>0, <2>2 DEF read_blocks, Step, CacheInductive, CacheTyped
    <3> QED BY Zenon, <1>0, <3>1 DEF Held, Holding
  <2>3. CASE write(t)
    <3>1. pc[t] = "use" /\ pc'[t] = "use" /\ region'[b] = written'[b]
          /\ UNCHANGED <<s_fs_cache, refcount>> /\ ~halted'
      BY Zenon, <1>0, <2>3 DEF write, Step, CacheInductive, CacheTyped
    <3> QED BY Zenon, <1>0, <3>1 DEF Held, Holding
  <2>4. CASE SyncThis(t)
    <3>1. pc[t] = "use" /\ pc'[t] = "use"
          /\ UNCHANGED <<s_fs_cache, refcount, region, written>> /\ ~halted'
      BY Zenon, <1>0, <2>4 DEF SyncThis, Step, CacheInductive, CacheTyped
    <3> QED BY Zenon, <1>0, <3>1 DEF Held, Holding
  <2> QED BY Zenon, <2>1, <2>2, <2>3, <2>4
<1>4. \A u \in Threads \ {t} : pc'[u] = pc[u]
  BY Zenon DEF emplace, read_blocks, write, SyncThis, Step, CacheInductive, CacheTyped
<1>5. \A c \in Blocks \ {b} :
          /\ refcount'[c] = refcount[c] /\ region'[c] = region[c] /\ disk'[c] = disk[c]
          /\ written'[c] = written[c] /\ (c \in s_fs_cache' <=> c \in s_fs_cache)
  BY SMTT(30) DEF emplace, read_blocks, write, SyncThis, sync, CacheInductive, CacheTyped
<1> QED BY Zenon, <1>0, <1>1, <1>2, <1>3, <1>4, <1>5, StepOfOwner

(* The last reference to an own block is that of its thread, which writes  *)
(* the block back.                                                         *)
LEMMA KeepsReleasing ==
    ASSUME CacheAssumption, CacheInductive, NEW t \in Threads, release(t)
    PROVE  CacheInductive'
<1> USE DEF CacheAssumption
<1> DEFINE b == block[t]
<1>0. b \in Blocks /\ b \in Uses[t] /\ pc[t] = "release_set" /\ block' = block /\ Held(t)
  BY Zenon DEF CacheInductive, CacheTyped, release, Step
<1>1. CacheTyped'
  BY <1>0 DEF CacheInductive, CacheTyped, release, WriteBack, sync, Step, Steps, NoData
<1>2. pc'[t] = "idle" /\ Held(t)'
  BY Zenon, <1>0 DEF release, Step, CacheInductive, CacheTyped, Held, Holding
<1>3. Own(b) => b \in s_fs_cache /\ Last(b) /\ region[b] = written[b]
  BY Zenon, <1>0 DEF Held, Holding, Last
<1>4. Own(b) => b \notin s_fs_cache' /\ refcount'[b] = 0 /\ disk'[b] = written'[b] /\ ~halted'
  <2> HAVE Own(b)
  <2>1. refcount'[b] = 0
    BY <1>0, <1>3 DEF release, Last, CacheInductive, CacheTyped
  <2>2. disk'[b] = written'[b]
    BY Zenon, <1>0, <1>3 DEF release, WriteBack, sync, CacheInductive, CacheTyped
  <2>3. b \notin s_fs_cache' /\ ~halted'
    BY Zenon, <1>3 DEF release
  <2> QED BY Zenon, <2>1, <2>2, <2>3
<1>5. \A u \in Threads \ {t} : pc'[u] = pc[u]
  BY Zenon DEF release, Step, CacheInductive, CacheTyped
<1>6. \A c \in Blocks \ {b} :
          /\ refcount'[c] = refcount[c] /\ region'[c] = region[c] /\ disk'[c] = disk[c]
          /\ written'[c] = written[c] /\ (c \in s_fs_cache' <=> c \in s_fs_cache)
  BY Zenon DEF release, WriteBack, sync, CacheInductive, CacheTyped
<1>7. Unheld(b)'
  BY Zenon, <1>0, <1>4 DEF Unheld
<1> QED BY Zenon, <1>0, <1>1, <1>2, <1>4, <1>5, <1>6, <1>7, StepOfOwner

(* The invariant holds always.                                             *)
LEMMA CacheInductiveHolds == ASSUME CacheAssumption PROVE CacheSpec => []CacheInductive
<1>1. CacheInit => CacheInductive
  <2> SUFFICES ASSUME CacheInit PROVE CacheInductive
    BY Zenon
  <2>1. CacheTyped
    BY DEF CacheInit, CacheTyped, Steps, NoData
  <2>2. \A t \in Threads : Held(t)
    BY Zenon DEF CacheInit, Held, Holding
  <2>3. \A b \in Blocks : Unheld(b)
    BY Zenon DEF CacheInit, Unheld
  <2> QED BY Zenon, <2>1, <2>2, <2>3 DEF CacheInit, CacheInductive
<1>2. CacheInductive /\ [CacheNext]_cacheVars => CacheInductive'
  <2> SUFFICES ASSUME CacheInductive, [CacheNext]_cacheVars PROVE CacheInductive'
    BY Zenon
  <2>1. CASE CacheNext
    BY Zenon, <2>1, KeepsWaiting, KeepsHolding, KeepsReleasing DEF CacheNext
  <2>2. CASE UNCHANGED cacheVars
    BY Zenon, <2>2 DEF cacheVars, CacheInductive, CacheTyped, Held, Unheld, Has, Holding
  <2> QED BY <2>1, <2>2
<1> QED BY <1>1, <1>2, PTL DEF CacheSpec

(* No write to a block that one thread uses is ever lost, and it is cached *)
(* just while its thread has it, for every number of threads and blocks    *)
(* and whatever other blocks they share; and the assertions of the cache   *)
(* fail over shared blocks only (filesystem/FileSystemCache.cpp).          *)
THEOREM OwnBlocksAreKept == ASSUME CacheAssumption PROVE CacheSpec => []CacheSound
<1>1. CacheInductive => CacheSound
  <2> SUFFICES ASSUME CacheInductive PROVE CacheSound
    BY Zenon
  <2>1. ASSUME NEW b \in Blocks, Own(b) PROVE NoLostWrite(b) /\ CachedWhileHeld(b)
    <3>1. CASE \A t \in Threads : ~Has(t, b)
      <4>1. b \notin s_fs_cache /\ refcount[b] = 0 /\ disk[b] = written[b]
        BY Zenon, <2>1, <3>1 DEF CacheInductive, Unheld
      <4> QED BY <3>1, <4>1 DEF NoLostWrite, CachedWhileHeld, Has
    <3>2. ASSUME NEW t \in Threads, Has(t, b) PROVE NoLostWrite(b) /\ CachedWhileHeld(b)
      <4>1. Held(t) /\ written[b] \in Nat
        BY Zenon, <2>1 DEF CacheInductive, CacheTyped
      <4>2. /\ b \in s_fs_cache /\ refcount[b] = 1
            /\ IF pc[t] = "load" THEN region[b] = NoData /\ disk[b] = written[b]
                                 ELSE region[b] = written[b]
        BY Zenon, <2>1, <3>2, <4>1 DEF Has, Held
      <4>3. NoLostWrite(b)
        BY <4>1, <4>2 DEF NoLostWrite, NoData
      <4> QED BY <3>2, <4>2, <4>3 DEF CachedWhileHeld, Has
    <3> QED BY Zenon, <3>1, <3>2
  <2>2. (\A t \in Threads : Own(block[t])) => CacheAsserts
    BY Zenon DEF CacheInductive, CacheAsserts
  <2> QED BY <2>1, <2>2 DEF CacheSound
<1> QED BY <1>1, CacheInductiveHolds, PTL
=============================================================================
