------------------------ MODULE InterruptController ------------------------
(***************************************************************************)
(* How a device's interrupt line reaches its driver:                       *)
(* InterruptManager::parse_madt() builds the active controllers from the   *)
(* firmware's MADT (one IOAPIC per entry, or the legacy PIC when there is  *)
(* none), IRQHandler::enable_irq() registers a driver on the boot core and *)
(* opens its line, common_interrupt_handler() runs the SharedIRQHandler of *)
(* the vector and acknowledges it (interrupts/, arch/i686/interrupts.cpp,  *)
(* time/PIT.cpp).                                                          *)
(*                                                                         *)
(* One core, as the IOAPIC's destination is always core 0 and drivers are  *)
(* enabled on it.  Drivers are enabled one after the other with interrupts *)
(* on; the PIT is stopped and restarted inside a critical section.         *)
(***************************************************************************)
EXTENDS Integers, Sequences, SequencesExt, FiniteSets

CONSTANTS Drivers,     \* the IRQHandler objects, in boot order (a sequence)
          Irq,         \* a driver's original interrupt number
          Pit,         \* the driver that is stopped and restarted
          Madts,       \* the possible MADTs: sequences of entries
          MaxRaises,   \* bound: interrupts a device raises
          None

VARIABLES entries,     \* what is left of the MADT
          controllers, \* m_active_controllers
          overrides, nmis,   \* ioapic_redirections, ioapic_nmis
          aps,         \* set_available_ap_count
          boot,        \* "madt", "redirect", "nmi" or "up"
          m_handlers,  \* by vector: the SharedIRQHandler's list, or None
          driver,      \* enable_irq() progress, m_enabled
          irr,         \* external: vectors (PIC: lines) waiting at the core
          in_service,  \* external: accepted and not acknowledged
          frame,       \* the vector being handled, or None
          todo,        \* the rest of SharedIRQHandler's loop
          device,      \* external: "idle", or its line is high since before
                       \* ("early") or after ("raised") its driver was enabled
          raises,
          table,       \* the chosen MADT, for the wiring of the lines
          halted

vars == <<entries, controllers, overrides, nmis, aps, boot, m_handlers, driver, irr,
          in_service, frame, todo, device, raises, table, halted>>

FIRST_USABLE_INTERRUPT == 32
Devices == ToSet(Drivers)
get_mapped_interrupt_number(irq) == irq + FIRST_USABLE_INTERRUPT
Vector(d) == get_mapped_interrupt_number(Irq[d])

(* An entry of the redirection table. *)
Masked == [mask |-> TRUE, vector |-> 0, level |-> FALSE, low |-> FALSE]

(* PIC::PIC() leaves every line masked; m_interrupt_mask is the hardware's *)
(* mask register, both set together.                                       *)
PIC == [kind |-> "pic", base |-> 0, count |-> 16, redirections |-> <<>>,
        line |-> [n \in 0..15 |-> Masked]]

(* IOAPIC::IOAPIC() and enable(). *)
IOAPIC(base, count) ==
    [kind |-> "ioapic", base |-> base, count |-> count, redirections |-> <<>>,
     line |-> [n \in 0..(count - 1) |-> Masked]]

InRange(c, gsi) == gsi >= c.base /\ gsi < c.base + c.count

(* The first active controller whose range holds the number, or 0. *)
Responsible(n) == SelectInSeq(controllers, LAMBDA c : InRange(c, n))
get_responsible_controller(d) == Responsible(Irq[d])

-----------------------------------------------------------------------------
(* parse_madt(): one entry per step.  Local APICs other than the boot      *)
(* core's are counted, the entries that are only logged are skipped.       *)
parse_madt ==
    /\ boot = "madt" /\ entries # <<>>
    /\ LET e == Head(entries)
       IN /\ controllers' = IF e.type = "ioapic"
                            THEN Append(controllers, IOAPIC(e.base, e.count)) ELSE controllers
          /\ overrides' = IF e.type = "override" THEN Append(overrides, e) ELSE overrides
          /\ nmis' = IF e.type = "nmi" THEN Append(nmis, e) ELSE nmis
          /\ aps' = IF e.type = "lapic" /\ e.apic_id # 0 THEN aps + 1 ELSE aps
    /\ entries' = Tail(entries)
    /\ UNCHANGED <<boot, m_handlers, driver, irr, in_service, frame, todo, device,
                   raises, table, halted>>

(* No MADT, or no IOAPIC in it: the PIC is the only controller, and the    *)
(* count of application processors is not set.                             *)
fall_back ==
    /\ boot = "madt" /\ entries = <<>>
    /\ IF controllers = <<>>
       THEN controllers' = <<PIC>> /\ boot' = "up" /\ aps' = 0
       ELSE boot' = "redirect" /\ UNCHANGED <<controllers, aps>>
    /\ UNCHANGED <<entries, overrides, nmis, m_handlers, driver, irr, in_service, frame,
                   todo, device, raises, table, halted>>

(* add_redirection() and set_nmi() set polarity and trigger mode and write *)
(* the low word, then write the high word, all zero here, to the same low  *)
(* register: the line is left open with vector 0, edge-triggered.          *)
Overwritten == [mask |-> FALSE, vector |-> 0, level |-> FALSE, low |-> FALSE]

add_redirection(c, e) ==
    [c EXCEPT !.redirections = Append(@, e), !.line[e.gsi - c.base] = Overwritten]

set_nmi(c, e) == [c EXCEPT !.line[e.gsi - c.base] = Overwritten]

redirect ==
    /\ boot = "redirect"
    /\ IF overrides = <<>> THEN boot' = "nmi" /\ UNCHANGED <<controllers, overrides>>
       ELSE LET e == Head(overrides)
                i == Responsible(e.gsi)
            IN /\ controllers' = IF i = 0 THEN controllers
                                 ELSE [controllers EXCEPT ![i] = add_redirection(@, e)]
               /\ overrides' = Tail(overrides) /\ boot' = boot
    /\ UNCHANGED <<entries, nmis, aps, m_handlers, driver, irr, in_service, frame, todo,
                   device, raises, table, halted>>

map_nmis ==
    /\ boot = "nmi"
    /\ IF nmis = <<>> THEN boot' = "up" /\ UNCHANGED <<controllers, nmis>>
       ELSE LET e == Head(nmis)
                i == Responsible(e.gsi)
            IN /\ controllers' = IF i = 0 THEN controllers
                                 ELSE [controllers EXCEPT ![i] = set_nmi(@, e)]
               /\ nmis' = Tail(nmis) /\ boot' = boot
    /\ UNCHANGED <<entries, overrides, aps, m_handlers, driver, irr, in_service, frame,
                   todo, device, raises, table, halted>>

-----------------------------------------------------------------------------
(* A defect: the controller ignores the redirections it was given. *)
local_int_num_plain(c, irq) == irq - c.base

(* The line of a controller a handler's interrupt number stands for: the   *)
(* first redirection of that number, else the number itself.               *)
local_int_num(c, irq) ==
    LET i == SelectInSeq(c.redirections, LAMBDA e : e.irq = irq)
    IN IF i = 0 THEN irq - c.base ELSE c.redirections[i].gsi - c.base

(* PIC::enable_interrupt() clears the line's bit and writes that half of   *)
(* the mask; IOAPIC::enable_interrupt() also sets the vector.              *)
enable_interrupt(c, d) ==
    IF c.kind = "pic" THEN [c EXCEPT !.line[Irq[d]].mask = FALSE]
    ELSE LET n == local_int_num(c, Irq[d])
         IN [c EXCEPT !.line[n].mask = FALSE, !.line[n].vector = Vector(d)]

disable_interrupt(c, d) ==
    IF c.kind = "pic" THEN [c EXCEPT !.line[Irq[d]].mask = TRUE]
    ELSE [c EXCEPT !.line[local_int_num(c, Irq[d])].mask = TRUE]

(* register_interrupt_handler(): the first IRQ handler of a vector makes   *)
(* its SharedIRQHandler, the next ones are added to it.                    *)
register_handler(handlers, d) ==
    [handlers EXCEPT ![Vector(d)] = IF @ = None THEN <<d>> ELSE Append(@, d)]

(* unregister_interrupt_handler(): an empty SharedIRQHandler is deleted. *)
unregister_handler(handlers, d) ==
    [handlers EXCEPT ![Vector(d)] = IF Len(@) = 1 THEN None ELSE SelectSeq(@, LAMBDA x : x # d)]

CoreFree == boot = "up" /\ frame = None /\ halted = "no"

(* The thread that boots the system enables the drivers in order. *)
NextDriver == SelectInSeq(Drivers, LAMBDA d : driver[d].pc # "done")

(* enable_irq() in three steps: register, open the line, set m_enabled.    *)
(* The constructor asserted that a controller is responsible.              *)
enable_irq(d) ==
    /\ CoreFree /\ NextDriver # 0 /\ Drivers[NextDriver] = d
    /\ LET i == get_responsible_controller(d)
       IN CASE driver[d].pc = "register" ->
                 /\ IF i = 0 THEN halted' = "no controller" /\ UNCHANGED <<m_handlers, driver>>
                    ELSE /\ m_handlers' = register_handler(m_handlers, d)
                         /\ driver' = [driver EXCEPT ![d].pc = "open"]
                         /\ UNCHANGED halted
                 /\ UNCHANGED controllers
            [] driver[d].pc = "open" ->
                 /\ controllers' = [controllers EXCEPT ![i] = enable_interrupt(@, d)]
                 /\ driver' = [driver EXCEPT ![d].pc = "set"]
                 /\ UNCHANGED <<m_handlers, halted>>
            [] driver[d].pc = "set" ->
                 /\ driver' = [driver EXCEPT ![d] = [pc |-> "done", m_enabled |-> TRUE]]
                 /\ UNCHANGED <<controllers, m_handlers, halted>>
    /\ UNCHANGED <<entries, overrides, nmis, aps, boot, irr, in_service, frame, todo, device,
                   raises, table>>

(* EventManager::schedule_on() stops the PIT and starts it again with      *)
(* interrupts off: disable_irq(), then enable_irq().  An interrupt that    *)
(* is waiting at the core meanwhile finds the handler registered again.    *)
restart(d) ==
    /\ CoreFree /\ d = Pit /\ driver[d].m_enabled
    /\ LET i == get_responsible_controller(d)
       IN controllers' = [controllers EXCEPT ![i] = enable_interrupt(disable_interrupt(@, d), d)]
    /\ m_handlers' = register_handler(unregister_handler(m_handlers, d), d)
    /\ UNCHANGED <<entries, overrides, nmis, aps, boot, driver, irr, in_service, frame, todo,
                   device, raises, table, halted>>

-----------------------------------------------------------------------------
(* External: the line a device's interrupt is wired to, as the MADT says.  *)
Wire(d) ==
    LET i == SelectInSeq(table, LAMBDA e : e.type = "override" /\ e.irq = Irq[d])
    IN IF i = 0 \/ controllers[1].kind = "pic" THEN Irq[d] ELSE table[i].gsi

(* External: a rising edge.  A PIC remembers the edge of a masked line, an *)
(* IOAPIC does not; a local APIC refuses a vector below 16.  An edge needs *)
(* every device on the line to be idle.                                    *)
raise(d) ==
    /\ boot = "up" /\ halted = "no" /\ device[d] = "idle" /\ raises[d] < MaxRaises
    /\ device' = [device EXCEPT ![d] = IF driver[d].m_enabled THEN "raised" ELSE "early"]
    /\ raises' = [raises EXCEPT ![d] = @ + 1]
    /\ LET c == controllers[Responsible(Wire(d))]
           line == c.line[Wire(d) - c.base]
           edge == \A x \in Devices : Wire(x) = Wire(d) => device[x] = "idle"
       IN irr' = CASE ~edge -> irr
                   [] edge /\ c.kind = "pic" -> irr \cup {Vector(d)}
                   [] OTHER -> IF ~line.mask /\ line.vector >= 16 THEN irr \cup {line.vector} ELSE irr
    /\ UNCHANGED <<entries, controllers, overrides, nmis, aps, boot, m_handlers, driver,
                   in_service, frame, todo, table, halted>>

(* External: whether the PIC lets a waiting line through: it and, for the  *)
(* slave's, the cascade line 2 are open, and nothing is in service.        *)
Passes(v) ==
    LET n == v - FIRST_USABLE_INTERRUPT
        line == controllers[1].line
    IN controllers[1].kind = "pic" =>
         ~line[n].mask /\ (n >= 8 => ~line[2].mask) /\ in_service = {}

(* common_interrupt_handler(): the vector's handler, or a panic. *)
common_interrupt_handler(v) ==
    /\ CoreFree /\ v \in irr /\ Passes(v)
    /\ irr' = irr \ {v}
    /\ in_service' = in_service \cup
           IF controllers[1].kind = "pic" /\ v - FIRST_USABLE_INTERRUPT >= 8
           THEN {v, FIRST_USABLE_INTERRUPT + 2} ELSE {v}
    /\ frame' = v
    /\ IF m_handlers[v] = None THEN halted' = "unhandled" /\ todo' = <<>>
       ELSE todo' = m_handlers[v] /\ UNCHANGED halted
    /\ UNCHANGED <<entries, controllers, overrides, nmis, aps, boot, m_handlers, driver, device,
                   raises, table>>

(* SharedIRQHandler::handle_interrupt(): every enabled handler of the list *)
(* serves its device.                                                      *)
handle_interrupt ==
    /\ frame # None /\ halted = "no" /\ todo # <<>>
    /\ device' = [device EXCEPT ![Head(todo)] =
                    IF driver[Head(todo)].m_enabled THEN "idle" ELSE @]
    /\ todo' = Tail(todo)
    /\ UNCHANGED <<entries, controllers, overrides, nmis, aps, boot, m_handlers, driver, irr,
                   in_service, frame, raises, table, halted>>

(* PIC::eoi() acknowledges at the master, and at the slave for its lines;  *)
(* IOAPIC::eoi() at the local APIC.                                        *)
eoi ==
    /\ frame # None /\ halted = "no" /\ todo = <<>>
    /\ in_service' = in_service \
           IF controllers[1].kind = "pic" /\ frame - FIRST_USABLE_INTERRUPT >= 8
           THEN {frame, FIRST_USABLE_INTERRUPT + 2} ELSE {frame}
    /\ frame' = None
    /\ UNCHANGED <<entries, controllers, overrides, nmis, aps, boot, m_handlers, driver, irr,
                   todo, device, raises, table, halted>>

(* InterruptManager::initialize(); an absent MADT is an empty one. *)
Init ==
    /\ table \in Madts /\ entries = table
    /\ controllers = <<>> /\ overrides = <<>> /\ nmis = <<>> /\ aps = 0 /\ boot = "madt"
    /\ m_handlers = [v \in {Vector(d) : d \in Devices} |-> None]
    /\ driver = [d \in Devices |-> [pc |-> "register", m_enabled |-> FALSE]]
    /\ irr = {} /\ in_service = {} /\ frame = None /\ todo = <<>>
    /\ device = [d \in Devices |-> "idle"] /\ raises = [d \in Devices |-> 0]
    /\ halted = "no"

Next == \/ parse_madt \/ fall_back \/ redirect \/ map_nmis
        \/ \E d \in Devices : enable_irq(d) \/ restart(d) \/ raise(d)
        \/ \E v \in irr : common_interrupt_handler(v)
        \/ handle_interrupt \/ eoi

Spec == Init /\ [][Next]_vars
-----------------------------------------------------------------------------
TypeOK ==
    /\ boot \in {"madt", "redirect", "nmi", "up"}
    /\ aps \in Nat /\ halted \in {"no", "unhandled", "no controller"}
    /\ \A d \in Devices : device[d] \in {"idle", "early", "raised"} /\ raises[d] \in 0..MaxRaises
    /\ frame = None \/ frame \in Nat

(* The line's interrupt is on its way: waiting, or in the handler's loop.  *)
OnItsWay(d) == Vector(d) \in irr \/ (frame = Vector(d) /\ \E i \in 1..Len(todo) : todo[i] = d)
Alone(d) == \A x \in Devices \ {d} : Wire(x) # Wire(d)
(* The PIC's slave is reached through line 2, which nothing opens. *)
Reachable(d) == controllers[1].kind = "pic" => Irq[d] < 8

(* Whatever the MADT and whenever devices raise their lines while drivers  *)
(* are enabled one after the other and the PIT is restarted: no interrupt  *)
(* finds a vector without a handler, every interrupt accepted is           *)
(* acknowledged, and the interrupt a device on a line of its own raises    *)
(* once its driver is enabled stays on its way until the driver serves it: *)
(* redirected lines carry the vector the handler is registered for.        *)
InterruptsSound ==
    /\ halted = "no"
    /\ frame = None => in_service = {}
    /\ \A d \in Devices :
         device[d] = "raised" /\ Alone(d) /\ Reachable(d) => OnItsWay(d)
=============================================================================
