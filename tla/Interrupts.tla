----------------------------- MODULE Interrupts -----------------------------
(***************************************************************************)
(* Interrupts of the kernel on x86_64: the order in which kernel_main      *)
(* brings them up (kernel.c, arch.c), the table of handlers (isr.c,        *)
(* isr.S), the two 8259 interrupt controllers as the driver programs them  *)
(* through their ports (pic.c) and the timer's handler (pit.c).            *)
(*                                                                         *)
(* The kernel, every interrupted context above it and the devices run      *)
(* concurrently: between any two steps of a handler a device may raise its *)
(* line, and the processor takes an interrupt wherever the interrupt flag  *)
(* lets it.  The controllers are modelled port by port, because the driver *)
(* gives both data ports the same address (pic.c line 13) and what the     *)
(* controllers end up with depends on the whole sequence of writes.        *)
(***************************************************************************)
EXTENDS Integers, Sequences, FiniteSets, FiniteSetsExt, SequencesExt

CONSTANTS
    Devices,        \* the lines, of 0..15, on which some device interrupts
    Exceptions,     \* the exceptions (0..31) the processor may raise
    FirmwareMasks,  \* interrupt masks the firmware may leave behind
    Withdrawals     \* may a device withdraw a request before it is accepted?

ASSUME ConstantsAssumption ==
    /\ Devices \subseteq 0..15
    /\ Exceptions \subseteq 0..31
    /\ FirmwareMasks \subseteq 0..255
    /\ Withdrawals \in BOOLEAN

PIC_IRQBASE == 32
PIT_IRQ == 32
NMI == 2

PIC1_COMM == 32
PIC2_COMM == 160
PIC1_DATA == 33

\* Mutant: the port is right, and the timer is still unmasked as line 32.
PIC2_DATA_OwnPort == 161
PIC2_DATA == 33        \* PIC1 + 1, not PIC2 + 1

PIC_DISABLE == 255
PIC_EOI == 32
PIC_ICW1 == 17         \* PIC_ICW1_INIT | PIC_ICW1_ICW4
PIC_ICW4_8086 == 1

VARIABLES
    cpu,     \* "apic": what cpuid reports, "intf": the interrupt flag
    pc,      \* where kernel_main is
    frames,  \* the contexts of interrupts, innermost last
    isrs,    \* vectors with a registered handler
    pics,    \* the two controllers
    use_new_pic

vars == <<cpu, pc, frames, isrs, pics, use_new_pic>>

-----------------------------------------------------------------------------
(* The 8259 controller                                                     *)

Bit(v, i) == (v \div (2 ^ i)) % 2

Masked(p) == {l \in 0..7 : Bit(p.imr, l) = 1}

\* Requests the controller passes on: unmasked, and more urgent than
\* whatever it has handed to the processor and not seen acknowledged.
Passes(p, requests) ==
    {l \in requests \ Masked(p) : \A s \in p.inService : l < s}

\* A write to the command port: an initialisation word starts the controller
\* over, an end of interrupt retires the most urgent line in service.
Command(p, v) ==
    IF Bit(v, 4) = 1
    THEN [p EXCEPT !.want = "ICW2", !.imr = 0, !.irr = {}, !.inService = {}]
    ELSE IF v = PIC_EOI /\ p.inService # {}
         THEN [p EXCEPT !.inService = @ \ {Min(@)}]
         ELSE p

\* A write to the data port is the next initialisation word that is due,
\* and the interrupt mask when none is.
Data(p, v) ==
    CASE p.want = "ICW2" -> [p EXCEPT !.base = v - (v % 8), !.want = "ICW3"]
      [] p.want = "ICW3" -> [p EXCEPT !.cascade = v, !.want = "ICW4"]
      [] p.want = "ICW4" -> [p EXCEPT !.mode = v, !.want = "OCW"]
      [] p.want = "OCW"  -> [p EXCEPT !.imr = v]

\* io_outb to one of the controllers' four ports.  The ports of other
\* devices do not reach the controllers.
Out(ps, port, v) ==
    LET c == IF port \in {PIC1_COMM, 33} THEN 1 ELSE 2
    IN  [ps EXCEPT ![c] = IF port \in {PIC1_COMM, PIC2_COMM}
                          THEN Command(@, v) ELSE Data(@, v)]

\* io_inb of a data port reads the interrupt mask.
In(ps, port) == IF port = 33 THEN ps[1].imr ELSE ps[2].imr

Firmware(base, mask) ==
    [want |-> "OCW", base |-> base, cascade |-> 0, mode |-> 1,
     imr |-> mask, irr |-> {}, inService |-> {}]

-----------------------------------------------------------------------------
(* The driver of the controllers                                           *)

\* has_apic answers yes when the bit of cpuid is clear.
has_apic == ~cpu.apic

old_pic_remap(ps, off) ==
    LET icw1 == Out(Out(ps, PIC1_COMM, PIC_ICW1), PIC2_COMM, PIC_ICW1)
        icw2 == Out(Out(icw1, PIC1_DATA, off), PIC2_DATA, off + 8)
        icw3 == Out(Out(icw2, PIC1_DATA, 4), PIC2_DATA, 2)
        icw4 == Out(Out(icw3, PIC1_DATA, PIC_ICW4_8086), PIC2_DATA, PIC_ICW4_8086)
    IN  Out(Out(icw4, PIC1_DATA, In(ps, PIC1_DATA)), PIC2_DATA, In(ps, PIC2_DATA))

Disable(ps) == Out(Out(ps, PIC1_DATA, PIC_DISABLE), PIC2_DATA, PIC_DISABLE)

\* Mutant: the firmware's masks stay.
old_pic_init_NoMask(ps) == old_pic_remap(ps, PIC_IRQBASE)

old_pic_init(ps) == Disable(old_pic_remap(ps, PIC_IRQBASE))

old_pic_unmask(ps, irq) ==
    LET port == IF irq < 8 THEN PIC1_DATA ELSE PIC2_DATA
        mask == In(ps, port)
    IN  Out(ps, port, mask - Bit(mask, irq % 8) * 2 ^ (irq % 8))

\* Mutant: the first line is taken for an exception.
old_pic_ack_NoTimer(ps, irq) ==
    IF irq <= PIC_IRQBASE THEN ps ELSE Out(ps, PIC1_COMM, PIC_EOI)

old_pic_ack(ps, irq) ==
    CASE irq < PIC_IRQBASE      -> ps
      [] irq - PIC_IRQBASE >= 8 -> Out(Out(ps, PIC2_COMM, PIC_EOI), PIC1_COMM, PIC_EOI)
      [] OTHER                  -> Out(ps, PIC1_COMM, PIC_EOI)

-----------------------------------------------------------------------------
(* The processor                                                           *)

\* Mutants: the timer's gate is a trap; every gate clears the flag.
IsInterruptGate_OffByOne(n) == n = NMI \/ n > 32
IsInterruptGate_Always(n) == n \in 0..255

\* isr_init: exceptions go through trap gates, which leave the interrupt
\* flag alone, all others through interrupt gates, which clear it.
IsInterruptGate(n) == n = NMI \/ n >= 32

\* The processor enters the stub of vector n on top of whatever runs.
Enter(n, line) ==
    /\ frames' = Append(frames, [n |-> n, line |-> line, at |-> "entered",
                                 intf |-> cpu.intf])
    /\ cpu' = [cpu EXCEPT !.intf = @ /\ ~IsInterruptGate(n)]

Top == Last(frames)

SetTop(at) == frames' = [frames EXCEPT ![Len(frames)].at = at]

\* A failed assertion stops the context it happens in, and leaves the
\* interrupt flag as it is: _assert_fail halts without disabling interrupts.
Fails == pc' = "halted"

\* The kernel's own code runs only when no interrupt is being served.
At(p) == frames = <<>> /\ pc = p

-----------------------------------------------------------------------------
(* kernel_main                                                             *)

Init ==
    /\ cpu \in [apic : BOOLEAN, intf : {FALSE}]     \* stub.S: cli
    /\ pc = "memory"
    /\ frames = <<>>
    /\ isrs = {}
    /\ \E m1, m2 \in FirmwareMasks :
          pics = <<Firmware(8, m1), Firmware(112, m2)>>
    /\ use_new_pic = FALSE

\* pm_init, vm_init, mm_init, kernel_remap: each may fail an assertion, and
\* an exception this early finds no table of gates and resets the machine.
\* Either way this boot is over before it has a table of gates.
memory ==
    /\ At("memory")
    /\ pc' \in {"isr", "dead"}
    /\ UNCHANGED <<cpu, frames, isrs, pics, use_new_pic>>

isr_init ==
    /\ At("isr")
    /\ isrs' = {}
    /\ pc' = "acpi"
    /\ UNCHANGED <<cpu, frames, pics, use_new_pic>>

\* arch_init up to acpi_init: a missing feature of the processor fails an
\* assertion; the result of acpi_init is ignored.
acpi ==
    /\ At("acpi")
    /\ pc' \in {"pic", "halted"}
    /\ UNCHANGED <<cpu, frames, isrs, pics, use_new_pic>>

pic_init ==
    /\ At("pic")
    /\ use_new_pic' = has_apic
    /\ IF use_new_pic'
       THEN pics' = Disable(pics) /\ Fails       \* TODO("apic ...")
       ELSE pics' = old_pic_init(pics) /\ pc' = "pit"
    /\ UNCHANGED <<cpu, frames, isrs>>

PIT_FREQ == 1193182

\* The divisor pit_set_period_us computes, cut to sixteen bits.
Divisor(us) == (PIT_FREQ \div us) % 65536

\* A vector gets its handler.
isr_register(irq) == isrs \cup {irq}

\* The bytes for the timer go to ports the controllers do not see.
pit_init ==
    /\ At("pit")
    /\ isrs' = isr_register(PIT_IRQ)
    /\ IF Divisor(10 * 1000) > 1 /\ ~use_new_pic
       THEN pics' = old_pic_unmask(pics, PIT_IRQ) /\ pc' = "enable"
       ELSE pics' = pics /\ Fails
    /\ UNCHANGED <<cpu, frames, use_new_pic>>

int_enable ==
    /\ At("enable")
    /\ cpu' = [cpu EXCEPT !.intf = TRUE]
    /\ pc' = "parse"
    /\ UNCHANGED <<frames, isrs, pics, use_new_pic>>

\* kernel_parse_bootinfo, which may fail an assertion in initfs_from_module,
\* and the assertion kernel_main always ends with.
kernel_parse_bootinfo ==
    /\ At("parse")
    /\ Fails
    /\ UNCHANGED <<cpu, frames, isrs, pics, use_new_pic>>

-----------------------------------------------------------------------------
(* isr_stub and isr_common                                                 *)

\* The handler runs, or its absence fails an assertion.
handle ==
    /\ frames # <<>> /\ Top.at = "entered"
    /\ SetTop(IF Top.n \in isrs THEN "handled" ELSE "halted")
    /\ UNCHANGED <<cpu, pc, isrs, pics, use_new_pic>>

pic_ack ==
    /\ frames # <<>> /\ Top.at = "handled"
    /\ IF use_new_pic
       THEN SetTop("halted") /\ UNCHANGED pics
       ELSE SetTop("acked") /\ pics' = old_pic_ack(pics, Top.n)
    /\ UNCHANGED <<cpu, pc, isrs, use_new_pic>>

iretq ==
    /\ frames # <<>> /\ Top.at = "acked"
    /\ cpu' = [cpu EXCEPT !.intf = Top.intf]
    /\ frames' = Front(frames)
    /\ UNCHANGED <<pc, isrs, pics, use_new_pic>>

-----------------------------------------------------------------------------
(* The devices and the processor                                           *)

\* The lines of the first controller that ask for service: its own, and the
\* third while the second controller has something to pass on.
Requests ==
    pics[1].irr \cup (IF Passes(pics[2], pics[2].irr) # {} THEN {2} ELSE {})

Pending == Passes(pics[1], Requests)

\* A device raises its line; the controller remembers it.
Raise(l) ==
    /\ pics' = IF l < 8 THEN [pics EXCEPT ![1].irr = @ \cup {l}]
                        ELSE [pics EXCEPT ![2].irr = @ \cup {l - 8}]
    /\ UNCHANGED <<cpu, pc, frames, isrs, use_new_pic>>

\* The processor accepts the most urgent line that is passed on.
Deliver ==
    /\ cpu.intf /\ Pending # {}
    /\ LET l == Min(Pending)
           l2 == Min(Passes(pics[2], pics[2].irr))
       IN  IF l = 2
           THEN /\ Enter(pics[2].base + l2, l2 + 8)
                /\ pics' = [pics EXCEPT ![1].inService = @ \cup {2},
                                        ![2].irr = @ \ {l2},
                                        ![2].inService = @ \cup {l2}]
           ELSE /\ Enter(pics[1].base + l, l)
                /\ pics' = [pics EXCEPT ![1].irr = @ \ {l},
                                        ![1].inService = @ \cup {l}]
    /\ UNCHANGED <<pc, isrs, use_new_pic>>

\* The request is withdrawn while the processor accepts it: the controller
\* answers with its last vector and puts nothing in service.
Spurious ==
    /\ Withdrawals
    /\ cpu.intf /\ Pending # {}
    /\ Enter(pics[1].base + 7, -1)
    /\ pics' = [pics EXCEPT ![1].irr = @ \ {Min(Pending)}]
    /\ UNCHANGED <<pc, isrs, use_new_pic>>

\* Code that may fault: the ACPI tables and the boot modules are read
\* through mappings the memory manager has just made.  A non-maskable
\* interrupt comes at any time, but not on top of itself.
Exception(n) ==
    /\ pc \notin {"memory", "isr", "dead"}
    /\ IF n = NMI THEN \A i \in DOMAIN frames : frames[i].n # NMI
                  ELSE At("acpi") \/ At("parse")
    /\ Enter(n, -1)
    /\ UNCHANGED <<pc, isrs, pics, use_new_pic>>

Kernel ==
    \/ memory \/ isr_init \/ acpi \/ pic_init \/ pit_init
    \/ int_enable \/ kernel_parse_bootinfo
    \/ handle \/ pic_ack \/ iretq

Next ==
    \/ Kernel
    \/ Deliver
    \/ Spurious
    \/ \E l \in Devices : Raise(l)
    \/ \E n \in Exceptions : Exception(n)

\* The processor executes what it can execute and accepts what it can
\* accept; the timer keeps raising its line.
Fairness ==
    /\ WF_vars(Kernel)
    /\ WF_vars(Deliver)
    /\ \A l \in Devices \cap {0} : WF_vars(Raise(l))

Spec == Init /\ [][Next]_vars /\ Fairness

-----------------------------------------------------------------------------
(* Properties                                                              *)

\* Whatever line a device raises and whenever it does, the kernel never
\* meets an interrupt of a line for which no handler is registered
\* (isr_common, isr.c line 184): the controllers are moved away from the
\* exceptions and masked, and the handler is in place, before the interrupt
\* flag is set.
LinesHaveHandlers ==
    \A i \in DOMAIN frames :
        frames[i].line # -1 => frames[i].n \in isrs

\* The line of the first controller that a frame holds: the second
\* controller's interrupts hold its third line.
HeldLine(f) == IF f.line >= 8 THEN 2 ELSE f.line

\* What the first controller believes to be in service is what the stack of
\* interrupted contexts still has to acknowledge (isr_common calls pic_ack
\* after the handler): no line is left in service when its handler has
\* returned, which would silence it for good, and none is acknowledged by
\* another one's handler or by an exception.
InServiceMatchesStack ==
    pics[1].want = "OCW" =>
        pics[1].inService =
            {HeldLine(frames[i]) : i \in {j \in DOMAIN frames :
                /\ frames[j].line # -1
                /\ frames[j].at # "acked"}}

\* Interrupts of lines do not nest, however late the timer is acknowledged:
\* they enter through interrupt gates (isr.c lines 150-165), and only iretq
\* sets the interrupt flag again.  The kernel stack holds one such frame.
LinesDoNotNest ==
    \A i, j \in DOMAIN frames :
        frames[i].line # -1 /\ frames[j].line # -1 => i = j

\* Once the controllers are programmed, the first one speaks with the
\* kernel's vectors and passes on the timer's line and no other.  Both data
\* ports being one (pic.c line 13), and the timer being unmasked as "line
\* 32" (pit.c line 50), this depends on every write the driver makes.
OnlyTheTimerIsOpen ==
    pc \in {"enable", "parse"} =>
        /\ pics[1].want = "OCW"
        /\ pics[1].base = PIC_IRQBASE
        /\ Masked(pics[1]) = 1..7

\* A non-maskable or a spurious interrupt, for which there is no handler,
\* has stopped the kernel with interrupts off.
StoppedSilently ==
    \E i \in DOMAIN frames :
        frames[i].at = "halted" /\ frames[i].n \in {NMI, PIC_IRQBASE + 7}

\* Once interrupts are enabled the timer's handler runs again and again,
\* also after kernel_main or the handler of a fault has stopped at a failed
\* assertion (_assert_fail halts with interrupts enabled).  The two
\* unhandled interrupts that come through interrupt gates are all that can
\* silence it.
TimerNeverStops ==
    (pc = "parse") ~> []<>(\/ StoppedSilently
                           \/ \E i \in DOMAIN frames :
                                 frames[i].n = PIT_IRQ /\ frames[i].at = "handled")
=============================================================================
