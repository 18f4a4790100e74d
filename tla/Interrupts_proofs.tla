-------------------------- MODULE Interrupts_proofs --------------------------
(***************************************************************************)
(* Proofs about Interrupts, for every set of devices, exceptions and masks *)
(* that the firmware left.                                                 *)
(***************************************************************************)
EXTENDS Interrupts, TLAPS

Pic == [want : {"ICW2", "ICW3", "ICW4", "OCW"}, base : Int, cascade : Int, mode : Int,
        imr : Int, irr : SUBSET (0..7), inService : SUBSET (0..7)]
Frame == [n : Int, line : Int, at : {"entered", "handled", "acked", "halted"},
          intf : BOOLEAN]

TypeInv ==
    /\ cpu \in [apic : BOOLEAN, intf : BOOLEAN]
    /\ pc \in {"memory", "isr", "acpi", "pic", "pit", "enable", "parse", "halted", "dead"}
    /\ frames \in Seq(Frame)
    /\ isrs \in {{}, {PIT_IRQ}}
    /\ pics \in [1..2 -> Pic]
    /\ use_new_pic \in BOOLEAN

\* The timer's line is the only one open, and its handler is in place.
Armed ==
    /\ pics[1].base = PIC_IRQBASE /\ Masked(pics[1]) = 1..7
    /\ isrs = {PIT_IRQ} /\ use_new_pic = FALSE

\* Interrupts are enabled, now or after some iretq, only when all is armed.
EnabledOrDue ==
    cpu.intf \/ \E j \in DOMAIN frames : frames[j].intf \/ frames[j].line # -1
ArmedInv == EnabledOrDue \/ pc \in {"enable", "parse"} => Armed
EarlyInv == pc \in {"memory", "isr", "acpi", "pic", "pit", "enable"} => ~EnabledOrDue
PitInv == pc = "pit" =>
    /\ pics[1].base = PIC_IRQBASE /\ pics[1].imr = PIC_DISABLE /\ use_new_pic = FALSE

\* A line's frame is the timer's, and while it is on the stack nothing can
\* set the interrupt flag but its own iretq.
LineInv == \A j \in DOMAIN frames :
    /\ frames[j].line # -1 <=> frames[j].n = PIT_IRQ
    /\ frames[j].line # -1 =>
         /\ frames[j].line = 0 /\ ~cpu.intf
         /\ \A k \in DOMAIN frames : k > j => ~frames[k].intf
    /\ frames[j].at \in {"handled", "acked"} => frames[j].n = PIT_IRQ

\* The first controller is never left in the middle of its initialisation,
\* and has the timer in service while a frame has it to acknowledge.
Unacked(j) == frames[j].line # -1 /\ frames[j].at # "acked"
ServiceInv ==
    /\ pics[1].want = "OCW"
    /\ pics[1].inService = IF \E j \in DOMAIN frames : Unacked(j) THEN {0} ELSE {}

IInv ==
    /\ TypeInv /\ ArmedInv /\ EarlyInv /\ PitInv /\ LineInv /\ ServiceInv
    /\ LinesDoNotNest

------------------------------------------------------------------------------
(* The controllers under the driver's writes                              *)

\* The bits of the bytes that the driver writes.
LEMMA Bits ==
    /\ Bit(PIC_ICW1, 4) = 1 /\ Bit(PIC_EOI, 4) = 0
    /\ PIT_IRQ % 8 = 0 /\ PIC_DISABLE - Bit(PIC_DISABLE, 0) * 2 ^ 0 = 254
    /\ PIC_IRQBASE - (PIC_IRQBASE % 8) = PIC_IRQBASE
  BY DEF Bit, PIC_ICW1, PIC_EOI, PIT_IRQ, PIC_DISABLE, PIC_IRQBASE

LEMMA TimerMask ==
    ASSUME NEW p, p.imr = 254 PROVE Masked(p) = 1..7
<1>1. /\ Bit(254, 0) = 0 /\ Bit(254, 1) = 1 /\ Bit(254, 2) = 1 /\ Bit(254, 3) = 1
      /\ Bit(254, 4) = 1 /\ Bit(254, 5) = 1 /\ Bit(254, 6) = 1 /\ Bit(254, 7) = 1
  BY DEF Bit
<1>2. \A l \in 0..7 : Bit(254, l) = 1 <=> l \in 1..7
  <2> TAKE l \in 0..7
  <2>1. l \in {0, 1, 2, 3, 4, 5, 6, 7}
    OBVIOUS
  <2> QED BY <1>1, <2>1
<1> QED BY <1>2 DEF Masked

\* The first controller's share of a write: both data ports are its own.
LEMMA Outs ==
    ASSUME NEW ps \in [1..2 -> Pic], NEW v \in Int
    PROVE  /\ Out(ps, PIC1_COMM, v) = [ps EXCEPT ![1] = Command(ps[1], v)]
           /\ Out(ps, PIC2_COMM, v) = [ps EXCEPT ![2] = Command(ps[2], v)]
           /\ Out(ps, PIC1_DATA, v) = [ps EXCEPT ![1] = Data(ps[1], v)]
           /\ Out(ps, PIC2_DATA, v) = [ps EXCEPT ![1] = Data(ps[1], v)]
<1>1. /\ PIC1_COMM \in {PIC1_COMM, 33} /\ PIC2_COMM \notin {PIC1_COMM, 33}
      /\ PIC1_DATA \in {PIC1_COMM, 33} /\ PIC2_DATA \in {PIC1_COMM, 33}
      /\ PIC1_DATA \notin {PIC1_COMM, PIC2_COMM} /\ PIC2_DATA \notin {PIC1_COMM, PIC2_COMM}
      /\ PIC1_COMM \in {PIC1_COMM, PIC2_COMM} /\ PIC2_COMM \in {PIC1_COMM, PIC2_COMM}
  BY DEF PIC1_COMM, PIC2_COMM, PIC1_DATA, PIC2_DATA
<1> QED BY <1>1 DEF Out

\* An initialisation word at a command port.
LEMMA InitCommand ==
    ASSUME NEW p \in Pic
    PROVE  /\ Command(p, PIC_ICW1) \in Pic /\ Command(p, PIC_ICW1).want = "ICW2"
           /\ Command(p, PIC_ICW1).inService = {}
<1>1. Command(p, PIC_ICW1) =
        [p EXCEPT !.want = "ICW2", !.imr = 0, !.irr = {}, !.inService = {}]
  BY Bits DEF Command
<1> DEFINE q == Command(p, PIC_ICW1)
<1>2. /\ DOMAIN q = DOMAIN p /\ q.want = "ICW2" /\ q.base = p.base /\ q.cascade = p.cascade
      /\ q.mode = p.mode /\ q.imr = 0 /\ q.irr = {} /\ q.inService = {}
  BY <1>1 DEF Pic
<1>3. q = [want |-> "ICW2", base |-> p.base, cascade |-> p.cascade, mode |-> p.mode,
           imr |-> 0, irr |-> {}, inService |-> {}]
  BY <1>1 DEF Pic
<1> HIDE DEF q
<1>4. q \in Pic
  BY <1>3 DEF Pic
<1> QED BY <1>2, <1>4 DEF q

LEMMA DataType ==
    ASSUME NEW p \in Pic, NEW v \in Int
    PROVE  /\ Data(p, v) \in Pic
           /\ Data(p, v).irr = p.irr /\ Data(p, v).inService = p.inService
           /\ p.want = "ICW2" => Data(p, v).want = "ICW3" /\ Data(p, v).base = v - (v % 8)
           /\ p.want # "ICW2" => Data(p, v).base = p.base
           /\ p.want = "ICW3" => Data(p, v).want = "ICW4"
           /\ p.want = "ICW4" => Data(p, v).want = "OCW"
           /\ p.want = "OCW" => Data(p, v).want = "OCW" /\ Data(p, v).imr = v
<1>1. v - (v % 8) \in Int
  OBVIOUS
<1>2. p.want \in {"ICW2", "ICW3", "ICW4", "OCW"}
  BY DEF Pic
<1> DEFINE b == v - (v % 8)
<1> HIDE DEF b
<1>3. CASE p.want = "ICW2"
  <2>1. Data(p, v) = [p EXCEPT !.base = b, !.want = "ICW3"]
    BY <1>3 DEF Data, b
  <2> QED BY <1>1, <1>3, <2>1 DEF Pic, b
<1>4. CASE p.want = "ICW3"
  <2>1. Data(p, v) = [p EXCEPT !.cascade = v, !.want = "ICW4"]
    BY <1>4 DEF Data
  <2> QED BY <1>4, <2>1 DEF Pic
<1>5. CASE p.want = "ICW4"
  <2>1. Data(p, v) = [p EXCEPT !.mode = v, !.want = "OCW"]
    BY <1>5 DEF Data
  <2> QED BY <1>5, <2>1 DEF Pic
<1>6. CASE p.want = "OCW"
  <2>1. Data(p, v) = [p EXCEPT !.imr = v]
    BY <1>6 DEF Data
  <2> QED BY <1>6, <2>1 DEF Pic
<1> QED BY <1>2, <1>3, <1>4, <1>5, <1>6

\* A write to either data port.
LEMMA DataWrite ==
    ASSUME NEW ps \in [1..2 -> Pic], NEW v \in Int,
           NEW port, port = PIC1_DATA \/ port = PIC2_DATA
    PROVE  LET qs == Out(ps, port, v)
           IN  /\ qs \in [1..2 -> Pic] /\ qs[1] = Data(ps[1], v)
               /\ qs[1].inService = ps[1].inService
               /\ ps[1].want = "ICW2" => qs[1].want = "ICW3" /\ qs[1].base = v - (v % 8)
               /\ ps[1].want # "ICW2" => qs[1].base = ps[1].base
               /\ ps[1].want = "ICW3" => qs[1].want = "ICW4"
               /\ ps[1].want = "ICW4" => qs[1].want = "OCW"
               /\ ps[1].want = "OCW" => qs[1].want = "OCW" /\ qs[1].imr = v
<1>1. Out(ps, port, v) = [ps EXCEPT ![1] = Data(ps[1], v)]
  BY Outs
<1>2. ps[1] \in Pic
  OBVIOUS
<1> DEFINE d == Data(ps[1], v)
<1>3. d \in Pic
  BY <1>2, DataType
<1>4. Out(ps, port, v) \in [1..2 -> Pic] /\ Out(ps, port, v)[1] = d
  <2> HIDE DEF d
  <2>1. [ps EXCEPT ![1] = d] \in [1..2 -> Pic] /\ [ps EXCEPT ![1] = d][1] = d
    BY <1>3
  <2> QED BY <1>1, <2>1 DEF d
<1>5. /\ d.inService = ps[1].inService
      /\ ps[1].want = "ICW2" => d.want = "ICW3" /\ d.base = v - (v % 8)
      /\ ps[1].want # "ICW2" => d.base = ps[1].base
      /\ ps[1].want = "ICW3" => d.want = "ICW4"
      /\ ps[1].want = "ICW4" => d.want = "OCW"
      /\ ps[1].want = "OCW" => d.want = "OCW" /\ d.imr = v
  BY <1>2, DataType
<1> HIDE DEF d
<1> QED BY <1>4, <1>5 DEF d

LEMMA DisableMasks ==
    ASSUME NEW ps \in [1..2 -> Pic], ps[1].want = "OCW"
    PROVE  /\ Disable(ps) \in [1..2 -> Pic]
           /\ Disable(ps)[1].want = "OCW" /\ Disable(ps)[1].imr = PIC_DISABLE
           /\ Disable(ps)[1].base = ps[1].base
           /\ Disable(ps)[1].inService = ps[1].inService
<1> DEFINE q == Out(ps, PIC1_DATA, PIC_DISABLE)
           r == Out(q, PIC2_DATA, PIC_DISABLE)
<1>0. PIC_DISABLE \in Int
  BY DEF PIC_DISABLE
<1>1. /\ q \in [1..2 -> Pic] /\ q[1].want = "OCW" /\ q[1].base = ps[1].base
      /\ q[1].inService = ps[1].inService
  BY <1>0, DataWrite
<1> HIDE DEF q
<1>2. /\ r \in [1..2 -> Pic] /\ r[1].want = "OCW" /\ r[1].imr = PIC_DISABLE
      /\ r[1].base = q[1].base /\ r[1].inService = q[1].inService
  BY <1>0, <1>1, DataWrite
<1>3. Disable(ps) = r
  BY Zenon DEF Disable, q
<1> HIDE DEF r
<1> QED BY <1>1, <1>2, <1>3

\* The whole of old_pic_init leaves the first controller at the kernel's
\* vectors with every line masked, whatever the firmware did to it: of the
\* words meant for the second controller the first takes the third, and
\* all that come after the fourth are masks.
LEMMA RemapAndMask ==
    ASSUME NEW ps \in [1..2 -> Pic], ps[1].want = "OCW"
    PROVE  LET qs == old_pic_init(ps)
           IN  /\ qs \in [1..2 -> Pic]
               /\ qs[1].want = "OCW" /\ qs[1].imr = PIC_DISABLE
               /\ qs[1].base = PIC_IRQBASE /\ qs[1].inService = {}
<1> DEFINE a1 == Out(ps, PIC1_COMM, PIC_ICW1)
           a2 == Out(a1, PIC2_COMM, PIC_ICW1)
           b1 == Out(a2, PIC1_DATA, PIC_IRQBASE)
           b2 == Out(b1, PIC2_DATA, PIC_IRQBASE + 8)
           c1 == Out(b2, PIC1_DATA, 4)
           c2 == Out(c1, PIC2_DATA, 2)
           d1 == Out(c2, PIC1_DATA, PIC_ICW4_8086)
           d2 == Out(d1, PIC2_DATA, PIC_ICW4_8086)
           e1 == Out(d2, PIC1_DATA, In(ps, PIC1_DATA))
           e2 == Out(e1, PIC2_DATA, In(ps, PIC2_DATA))
<1>0. /\ PIC_ICW1 \in Int /\ PIC_IRQBASE \in Int /\ PIC_IRQBASE + 8 \in Int
      /\ PIC_ICW4_8086 \in Int /\ In(ps, PIC1_DATA) \in Int /\ In(ps, PIC2_DATA) \in Int
  BY DEF PIC_ICW1, PIC_IRQBASE, PIC_ICW4_8086, In, PIC1_DATA, PIC2_DATA, Pic
<1>x. old_pic_init(ps) = Disable(e2)
  BY Zenon DEF old_pic_init, old_pic_remap
<1> HIDE DEF a1, a2, b1, b2, c1, c2, d1, d2, e1, e2
<1>1. a1 \in [1..2 -> Pic] /\ a1[1].want = "ICW2" /\ a1[1].inService = {}
  <2> DEFINE d == Command(ps[1], PIC_ICW1)
  <2>1. d \in Pic /\ d.want = "ICW2" /\ d.inService = {}
    BY InitCommand
  <2>2. a1 = [ps EXCEPT ![1] = d]
    BY <1>0, Outs DEF a1
  <2> HIDE DEF d
  <2> QED BY <2>1, <2>2
<1>2. a2 \in [1..2 -> Pic] /\ a2[1] = a1[1]
  <2> DEFINE d == Command(a1[2], PIC_ICW1)
  <2>1. d \in Pic
    BY <1>1, InitCommand
  <2>2. a2 = [a1 EXCEPT ![2] = d]
    BY <1>0, <1>1, Outs DEF a2
  <2> HIDE DEF d
  <2> QED BY <1>1, <2>1, <2>2
<1>3. /\ b1 \in [1..2 -> Pic] /\ b1[1].want = "ICW3" /\ b1[1].inService = {}
      /\ b1[1].base = PIC_IRQBASE
  BY <1>0, <1>1, <1>2, Bits, DataWrite DEF b1
<1>4. /\ b2 \in [1..2 -> Pic] /\ b2[1].want = "ICW4" /\ b2[1].inService = {}
      /\ b2[1].base = PIC_IRQBASE
  <2> DEFINE v == PIC_IRQBASE + 8
  <2>1. v \in Int
    BY <1>0
  <2> HIDE DEF v
  <2>2. LET r == Out(b1, PIC2_DATA, v)
        IN  /\ r \in [1..2 -> Pic] /\ r[1].want = "ICW4" /\ r[1].inService = {}
            /\ r[1].base = PIC_IRQBASE
    BY <1>3, <2>1, DataWrite
  <2> QED BY <2>2 DEF b2, v
<1>5. /\ c1 \in [1..2 -> Pic] /\ c1[1].want = "OCW" /\ c1[1].inService = {}
      /\ c1[1].base = PIC_IRQBASE
  BY <1>0, <1>4, DataWrite DEF c1
<1>6. /\ c2 \in [1..2 -> Pic] /\ c2[1].want = "OCW" /\ c2[1].inService = {}
      /\ c2[1].base = PIC_IRQBASE
  BY <1>0, <1>5, DataWrite DEF c2
<1>7. /\ d1 \in [1..2 -> Pic] /\ d1[1].want = "OCW" /\ d1[1].inService = {}
      /\ d1[1].base = PIC_IRQBASE
  BY <1>0, <1>6, DataWrite DEF d1
<1>8. /\ d2 \in [1..2 -> Pic] /\ d2[1].want = "OCW" /\ d2[1].inService = {}
      /\ d2[1].base = PIC_IRQBASE
  BY <1>0, <1>7, DataWrite DEF d2
<1>9. /\ e1 \in [1..2 -> Pic] /\ e1[1].want = "OCW" /\ e1[1].inService = {}
      /\ e1[1].base = PIC_IRQBASE
  BY <1>0, <1>8, DataWrite DEF e1
<1>10. /\ e2 \in [1..2 -> Pic] /\ e2[1].want = "OCW" /\ e2[1].inService = {}
       /\ e2[1].base = PIC_IRQBASE
  BY <1>0, <1>9, DataWrite DEF e2
<1> QED BY <1>x, <1>10, DisableMasks

\* pit_init opens line 32 % 8 through the data port that both lines share.
LEMMA UnmaskTimer ==
    ASSUME NEW ps \in [1..2 -> Pic], ps[1].want = "OCW", ps[1].imr = PIC_DISABLE
    PROVE  LET qs == old_pic_unmask(ps, PIT_IRQ)
           IN  /\ qs \in [1..2 -> Pic] /\ qs[1].want = "OCW"
               /\ qs[1].base = ps[1].base /\ qs[1].inService = ps[1].inService
               /\ Masked(qs[1]) = 1..7
<1>1. In(ps, PIC2_DATA) = PIC_DISABLE /\ ~(PIT_IRQ < 8)
  BY DEF In, PIC2_DATA, PIT_IRQ
<1>2. old_pic_unmask(ps, PIT_IRQ) = Out(ps, PIC2_DATA, 254)
  <2>1. old_pic_unmask(ps, PIT_IRQ) =
          Out(ps, PIC2_DATA, PIC_DISABLE - Bit(PIC_DISABLE, PIT_IRQ % 8) * 2 ^ (PIT_IRQ % 8))
    BY <1>1, Zenon DEF old_pic_unmask
  <2>2. PIC_DISABLE - Bit(PIC_DISABLE, PIT_IRQ % 8) * 2 ^ (PIT_IRQ % 8) = 254
    BY Bits
  <2> QED BY <2>1, <2>2
<1> DEFINE qs == Out(ps, PIC2_DATA, 254)
<1>3. /\ qs \in [1..2 -> Pic] /\ qs[1].want = "OCW" /\ qs[1].imr = 254
      /\ qs[1].base = ps[1].base /\ qs[1].inService = ps[1].inService
  BY DataWrite
<1>4. Masked(qs[1]) = 1..7
  BY <1>3, TimerMask
<1> QED BY <1>2, <1>3, <1>4

\* The timer's acknowledgement takes the timer out of service.
LEMMA AckTimer ==
    ASSUME NEW ps \in [1..2 -> Pic], ps[1].inService = {0}
    PROVE  LET qs == old_pic_ack(ps, PIT_IRQ)
           IN  qs = [ps EXCEPT ![1] = [ps[1] EXCEPT !.inService = {}]]
<1>1. old_pic_ack(ps, PIT_IRQ) = Out(ps, PIC1_COMM, PIC_EOI)
  BY DEF old_pic_ack, PIT_IRQ, PIC_IRQBASE
<1>2. Min({0}) = 0
  BY DEF Min
<1>3. {0} \ {Min({0})} = {} /\ {0} # {}
  BY <1>2
<1>4. Command(ps[1], PIC_EOI) = [ps[1] EXCEPT !.inService = @ \ {Min(@)}]
  BY <1>3, Bits DEF Command
<1>5. Command(ps[1], PIC_EOI) = [ps[1] EXCEPT !.inService = {}]
  BY <1>3, <1>4 DEF Pic
<1> QED BY <1>1, <1>5, Outs DEF PIC_EOI

\* When all is armed the only line that can come through is the timer's.
LEMMA OnlyTheTimerPends ==
    ASSUME TypeInv, Armed, Pending # {}
    PROVE  Pending = {0} /\ Min(Pending) = 0 /\ pics[1].inService \subseteq 1..7
<1>1. Requests \subseteq 0..7
  BY DEF Requests, TypeInv, Pic
<1>2. Pending \subseteq Requests \ (1..7)
  BY DEF Pending, Passes, Armed
<1>3. Pending = {0}
  <2>1. \A l \in Pending : l = 0
    BY <1>1, <1>2
  <2> QED BY <2>1
<1>4. \A s \in pics[1].inService : 0 < s
  BY <1>3 DEF Pending, Passes
<1>5. pics[1].inService \subseteq 1..7
  BY <1>4 DEF TypeInv, Pic
<1>6. Min({0}) = 0
  BY DEF Min
<1> QED BY <1>3, <1>5, <1>6

------------------------------------------------------------------------------
(* The stack of contexts                                                   *)

LEMMA Push ==
    ASSUME frames \in Seq(Frame), NEW f \in Frame, frames' = Append(frames, f)
    PROVE  /\ frames' \in Seq(Frame)
           /\ DOMAIN frames = 1..Len(frames) /\ Len(frames) \in Nat
           /\ DOMAIN frames' = 1..(Len(frames) + 1)
           /\ frames'[Len(frames) + 1] = f
           /\ \A j \in DOMAIN frames : frames'[j] = frames[j]
  OBVIOUS

LEMMA SetAt ==
    ASSUME frames \in Seq(Frame), frames # <<>>,
           NEW at \in {"entered", "handled", "acked", "halted"}, SetTop(at)
    PROVE  /\ frames' \in Seq(Frame)
           /\ Len(frames) \in DOMAIN frames /\ Top = frames[Len(frames)]
           /\ DOMAIN frames' = DOMAIN frames
           /\ frames'[Len(frames)].at = at
           /\ \A j \in DOMAIN frames :
                /\ frames'[j].n = frames[j].n /\ frames'[j].line = frames[j].line
                /\ frames'[j].intf = frames[j].intf
                /\ j # Len(frames) => frames'[j].at = frames[j].at
<1>1. DOMAIN frames = 1..Len(frames) /\ Len(frames) \in Nat \ {0}
  OBVIOUS
<1>2. Len(frames) \in DOMAIN frames /\ Top = frames[Len(frames)]
  BY <1>1 DEF Top, Last
<1> DEFINE f == [frames[Len(frames)] EXCEPT !.at = at]
<1>3. frames' = [frames EXCEPT ![Len(frames)] = f]
  BY DEF SetTop
<1>4. frames[Len(frames)] \in Frame
  BY <1>1
<1>5. /\ f \in Frame /\ f.at = at /\ f.n = frames[Len(frames)].n
      /\ f.line = frames[Len(frames)].line /\ f.intf = frames[Len(frames)].intf
  BY <1>4 DEF Frame
<1> HIDE DEF f
<1>6. DOMAIN frames' = DOMAIN frames /\ frames' \in Seq(Frame)
  BY <1>1, <1>3, <1>5
<1> QED BY <1>1, <1>2, <1>3, <1>5, <1>6

LEMMA Pop ==
    ASSUME frames \in Seq(Frame), frames # <<>>, frames' = Front(frames)
    PROVE  /\ frames' \in Seq(Frame)
           /\ Len(frames) \in DOMAIN frames /\ Top = frames[Len(frames)]
           /\ DOMAIN frames = 1..Len(frames) /\ Len(frames) \in Nat
           /\ DOMAIN frames' = 1..(Len(frames) - 1)
           /\ \A j \in DOMAIN frames' : frames'[j] = frames[j]
<1>1. DOMAIN frames = 1..Len(frames) /\ Len(frames) \in Nat \ {0}
  OBVIOUS
<1>2. Len(frames) \in DOMAIN frames /\ Top = frames[Len(frames)]
  BY <1>1 DEF Top, Last
<1>3. frames' = SubSeq(frames, 1, Len(frames) - 1)
  BY DEF Front
<1> QED BY <1>1, <1>2, <1>3

------------------------------------------------------------------------------
(* The steps of kernel_main, while no interrupt is being served            *)

LEMMA InitHolds == Init => IInv
<1> SUFFICES ASSUME Init PROVE IInv
  OBVIOUS
<1>1. frames = <<>> /\ DOMAIN frames = {} /\ frames \in Seq(Frame)
  BY DEF Init
<1>2. PICK m1, m2 \in FirmwareMasks : pics = <<Firmware(8, m1), Firmware(112, m2)>>
  BY DEF Init
<1>3. m1 \in Int /\ m2 \in Int
  BY ConstantsAssumption
<1>4. Firmware(8, m1) \in Pic /\ Firmware(112, m2) \in Pic
  BY <1>3 DEF Firmware, Pic
<1>5. pics \in [1..2 -> Pic] /\ pics[1] = Firmware(8, m1)
  BY <1>2, <1>4
<1>6. pics[1].want = "OCW" /\ pics[1].inService = {}
  BY <1>5 DEF Firmware
<1>7. TypeInv
  BY <1>1, <1>5 DEF Init, TypeInv
<1> QED BY <1>1, <1>6, <1>7
        DEF Init, IInv, ArmedInv, EarlyInv, PitInv, LineInv, ServiceInv, LinesDoNotNest,
            EnabledOrDue

\* With an empty stack the parts of the invariant about frames hold.
LEMMA NoFrames ==
    ASSUME frames = <<>>
    PROVE  /\ LineInv /\ LinesDoNotNest
           /\ EnabledOrDue <=> cpu.intf
           /\ ServiceInv <=> pics[1].want = "OCW" /\ pics[1].inService = {}
<1>1. DOMAIN frames = {}
  OBVIOUS
<1> QED BY <1>1 DEF LineInv, LinesDoNotNest, EnabledOrDue, ServiceInv

LEMMA Quiet ==
    ASSUME IInv, \/ memory \/ acpi \/ isr_init \/ kernel_parse_bootinfo
    PROVE  IInv'
<1>1. /\ frames = <<>> /\ frames' = <<>> /\ cpu' = cpu /\ pics' = pics
      /\ use_new_pic' = use_new_pic
  BY DEF memory, acpi, isr_init, kernel_parse_bootinfo, At
<1>2. /\ LineInv' /\ LinesDoNotNest'
      /\ EnabledOrDue <=> cpu.intf
      /\ EnabledOrDue' <=> cpu'.intf
      /\ pics[1].want = "OCW" /\ pics[1].inService = {}
  BY <1>1, NoFrames DEF IInv, LineInv, LinesDoNotNest, EnabledOrDue
<1>3. ServiceInv'
  BY <1>1, <1>2 DEF ServiceInv
<1>4. TypeInv' /\ PitInv'
  BY <1>1 DEF IInv, TypeInv, PitInv, memory, acpi, isr_init, kernel_parse_bootinfo, At, Fails
<1>5. CASE kernel_parse_bootinfo
  <2>1. pc = "parse" /\ pc' = "halted" /\ isrs' = isrs
    BY <1>5 DEF kernel_parse_bootinfo, At, Fails
  <2> QED BY <1>1, <1>2, <1>3, <1>4, <2>1 DEF IInv, ArmedInv, EarlyInv, Armed, Masked
<1>6. CASE memory \/ acpi \/ isr_init
  <2>1. /\ pc \in {"memory", "isr", "acpi"} /\ pc' \notin {"enable", "parse"}
    BY <1>6 DEF memory, acpi, isr_init, At
  <2>2. ~EnabledOrDue /\ ~EnabledOrDue'
    BY <1>1, <1>2, <2>1 DEF IInv, EarlyInv
  <2> QED BY <1>1, <1>2, <1>3, <1>4, <2>1, <2>2 DEF IInv, ArmedInv, EarlyInv
<1> QED BY <1>5, <1>6

LEMMA PicSteps == IInv /\ pic_init => IInv'
<1> SUFFICES ASSUME IInv, pic_init PROVE IInv'
  OBVIOUS
<1>1. /\ frames = <<>> /\ pc = "pic" /\ frames' = <<>> /\ cpu' = cpu /\ isrs' = isrs
  BY DEF pic_init, At
<1>2. pics \in [1..2 -> Pic] /\ pics[1].want = "OCW" /\ pics[1].inService = {} /\ cpu.intf = FALSE
  BY <1>1, NoFrames DEF IInv, EarlyInv, TypeInv
<1>3. LineInv' /\ LinesDoNotNest' /\ ~EnabledOrDue'
  BY <1>1, <1>2 DEF LineInv, LinesDoNotNest, EnabledOrDue
<1>4. use_new_pic' \in BOOLEAN
  BY DEF pic_init, has_apic
<1>5. /\ pics' \in [1..2 -> Pic] /\ pics'[1].want = "OCW" /\ pics'[1].inService = {}
      /\ pics'[1].imr = PIC_DISABLE
      /\ \/ pc' = "halted"
         \/ pc' = "pit" /\ use_new_pic' = FALSE /\ pics'[1].base = PIC_IRQBASE
  <2>1. CASE use_new_pic'
    BY <1>2, <2>1, DisableMasks DEF pic_init, Fails
  <2>2. CASE ~use_new_pic'
    BY <1>2, <1>4, <2>2, RemapAndMask DEF pic_init
  <2> QED BY <2>1, <2>2
<1> QED BY <1>1, <1>2, <1>3, <1>4, <1>5
        DEF IInv, TypeInv, ArmedInv, EarlyInv, PitInv, ServiceInv

LEMMA PitSteps == IInv /\ pit_init => IInv'
<1> SUFFICES ASSUME IInv, pit_init PROVE IInv'
  OBVIOUS
<1>1. /\ frames = <<>> /\ pc = "pit" /\ frames' = <<>> /\ cpu' = cpu
      /\ use_new_pic' = use_new_pic
  BY DEF pit_init, At
<1>2. /\ pics \in [1..2 -> Pic] /\ pics[1].want = "OCW" /\ pics[1].inService = {}
      /\ cpu.intf = FALSE /\ pics[1].imr = PIC_DISABLE /\ pics[1].base = PIC_IRQBASE
      /\ use_new_pic = FALSE
  BY <1>1, NoFrames DEF IInv, EarlyInv, TypeInv, PitInv
<1>3. LineInv' /\ LinesDoNotNest' /\ ~EnabledOrDue'
  BY <1>1, <1>2 DEF LineInv, LinesDoNotNest, EnabledOrDue
<1>4. isrs' = {PIT_IRQ}
  BY DEF pit_init, isr_register, IInv, TypeInv
<1>5. /\ pics' \in [1..2 -> Pic] /\ pics'[1].want = "OCW" /\ pics'[1].inService = {}
      /\ pics'[1].base = PIC_IRQBASE
      /\ \/ pc' = "halted"
         \/ pc' = "enable" /\ Masked(pics'[1]) = 1..7
  BY <1>2, UnmaskTimer DEF pit_init, Fails
<1>6. pc' = "enable" => Armed'
  BY <1>1, <1>2, <1>4, <1>5 DEF Armed, Masked
<1> QED BY <1>1, <1>2, <1>3, <1>4, <1>5, <1>6
        DEF IInv, TypeInv, ArmedInv, EarlyInv, PitInv, ServiceInv

LEMMA EnableSteps == IInv /\ int_enable => IInv'
<1> SUFFICES ASSUME IInv, int_enable PROVE IInv'
  OBVIOUS
<1>1. /\ frames = <<>> /\ pc = "enable" /\ frames' = <<>> /\ pc' = "parse"
      /\ isrs' = isrs /\ pics' = pics /\ use_new_pic' = use_new_pic
  BY DEF int_enable, At
<1>2. Armed /\ Armed'
  BY <1>1 DEF IInv, ArmedInv, Armed, Masked
<1>3. LineInv' /\ LinesDoNotNest'
  BY <1>1 DEF LineInv, LinesDoNotNest
<1>4. ServiceInv'
  BY <1>1 DEF IInv, ServiceInv
<1>5. TypeInv'
  BY <1>1 DEF IInv, TypeInv, int_enable
<1> QED BY <1>1, <1>2, <1>3, <1>4, <1>5 DEF IInv, ArmedInv, EarlyInv, PitInv

------------------------------------------------------------------------------
(* The steps of isr_common                                                 *)

\* What handle and pic_ack have in common: only the innermost frame moves on.
LEMMA TopMoves ==
    ASSUME IInv, frames # <<>>, cpu' = cpu, pc' = pc, isrs' = isrs,
           use_new_pic' = use_new_pic,
           NEW at \in {"handled", "acked", "halted"}, SetTop(at),
           pics' \in [1..2 -> Pic], pics'[1].base = pics[1].base,
           pics'[1].imr = pics[1].imr,
           at \in {"handled", "acked"} => Top.n = PIT_IRQ
    PROVE  /\ TypeInv' /\ ArmedInv' /\ EarlyInv' /\ PitInv' /\ LineInv' /\ LinesDoNotNest'
           /\ Len(frames) \in DOMAIN frames /\ DOMAIN frames' = DOMAIN frames
           /\ Top = frames[Len(frames)] /\ frames'[Len(frames)].at = at
           /\ \A j \in DOMAIN frames :
                /\ frames'[j].line = frames[j].line
                /\ j # Len(frames) => frames'[j].at = frames[j].at
<1>1. /\ frames' \in Seq(Frame)
      /\ Len(frames) \in DOMAIN frames /\ Top = frames[Len(frames)]
      /\ DOMAIN frames' = DOMAIN frames
      /\ frames'[Len(frames)].at = at
      /\ \A j \in DOMAIN frames :
           /\ frames'[j].n = frames[j].n /\ frames'[j].line = frames[j].line
           /\ frames'[j].intf = frames[j].intf
           /\ j # Len(frames) => frames'[j].at = frames[j].at
  BY SetAt DEF IInv, TypeInv
<1>2. TypeInv' /\ LinesDoNotNest'
  BY <1>1 DEF IInv, TypeInv, LinesDoNotNest
<1>3. EnabledOrDue' <=> EnabledOrDue
  BY <1>1 DEF EnabledOrDue
<1>4. Armed' <=> Armed
  BY DEF Armed, Masked
<1>5. ArmedInv' /\ EarlyInv' /\ PitInv'
  BY <1>3, <1>4 DEF IInv, ArmedInv, EarlyInv, PitInv
<1>6. LineInv'
  BY <1>1 DEF IInv, LineInv
<1> QED BY <1>1, <1>2, <1>5, <1>6

LEMMA HandleSteps == IInv /\ handle => IInv'
<1> SUFFICES ASSUME IInv, handle PROVE IInv'
  OBVIOUS
<1>1. /\ frames # <<>> /\ Top.at = "entered" /\ cpu' = cpu /\ pc' = pc /\ isrs' = isrs
      /\ pics' = pics /\ use_new_pic' = use_new_pic
  BY DEF handle
<1> DEFINE at == IF Top.n \in isrs THEN "handled" ELSE "halted"
<1>2. SetTop(at) /\ at \in {"handled", "acked", "halted"}
  BY DEF handle
<1>3. at \in {"handled", "acked"} => Top.n = PIT_IRQ
  BY DEF IInv, TypeInv
<1> HIDE DEF at
<1>4. pics' \in [1..2 -> Pic]
  BY <1>1 DEF IInv, TypeInv
<1>5. /\ TypeInv' /\ ArmedInv' /\ EarlyInv' /\ PitInv' /\ LineInv' /\ LinesDoNotNest'
      /\ Len(frames) \in DOMAIN frames /\ DOMAIN frames' = DOMAIN frames
      /\ Top = frames[Len(frames)] /\ frames'[Len(frames)].at = at
      /\ \A j \in DOMAIN frames :
           /\ frames'[j].line = frames[j].line
           /\ j # Len(frames) => frames'[j].at = frames[j].at
  BY <1>1, <1>2, <1>3, <1>4, TopMoves
<1>6. at # "acked"
  BY DEF at
<1>7. ServiceInv'
  BY <1>1, <1>5, <1>6 DEF IInv, ServiceInv, Unacked
<1> QED BY <1>5, <1>7 DEF IInv

LEMMA AckSteps == IInv /\ pic_ack => IInv'
<1> SUFFICES ASSUME IInv, pic_ack PROVE IInv'
  OBVIOUS
<1>1. /\ frames # <<>> /\ Top.at = "handled" /\ cpu' = cpu /\ pc' = pc /\ isrs' = isrs
      /\ use_new_pic' = use_new_pic
  BY DEF pic_ack
<1>2. Len(frames) \in DOMAIN frames /\ Top = frames[Len(frames)]
  BY <1>1 DEF IInv, TypeInv, Top, Last
<1>3. Top.n = PIT_IRQ /\ Top.line # -1
  BY <1>1, <1>2 DEF IInv, LineInv
<1>4. use_new_pic = FALSE
  BY <1>2, <1>3 DEF IInv, ArmedInv, EnabledOrDue, Armed
<1>5. SetTop("acked") /\ pics' = old_pic_ack(pics, PIT_IRQ)
  BY <1>3, <1>4 DEF pic_ack
<1>6. pics \in [1..2 -> Pic] /\ pics[1].inService = {0} /\ pics[1].want = "OCW"
  BY <1>1, <1>2, <1>3 DEF IInv, TypeInv, ServiceInv, Unacked
<1>7. pics' = [pics EXCEPT ![1] = [pics[1] EXCEPT !.inService = {}]]
  BY <1>5, <1>6, AckTimer
<1>8. /\ pics' \in [1..2 -> Pic] /\ pics'[1].base = pics[1].base
      /\ pics'[1].imr = pics[1].imr /\ pics'[1].want = "OCW" /\ pics'[1].inService = {}
  <2> DEFINE q == [pics[1] EXCEPT !.inService = {}]
  <2>1. /\ q \in Pic /\ q.base = pics[1].base /\ q.imr = pics[1].imr /\ q.want = "OCW"
        /\ q.inService = {}
    BY <1>6 DEF Pic
  <2> HIDE DEF q
  <2>2. pics' = [pics EXCEPT ![1] = q]
    BY <1>7 DEF q
  <2> QED BY <1>6, <2>1, <2>2
<1>9. /\ TypeInv' /\ ArmedInv' /\ EarlyInv' /\ PitInv' /\ LineInv' /\ LinesDoNotNest'
      /\ DOMAIN frames' = DOMAIN frames /\ frames'[Len(frames)].at = "acked"
      /\ \A j \in DOMAIN frames : frames'[j].line = frames[j].line
  BY <1>1, <1>3, <1>5, <1>8, TopMoves
<1>10. \A j \in DOMAIN frames' : ~Unacked(j)'
  BY <1>2, <1>3, <1>9 DEF IInv, LinesDoNotNest, Unacked
<1>11. ServiceInv'
  BY <1>8, <1>10 DEF ServiceInv
<1> QED BY <1>9, <1>11 DEF IInv

LEMMA IretSteps == IInv /\ iretq => IInv'
<1> SUFFICES ASSUME IInv, iretq PROVE IInv'
  OBVIOUS
<1>1. /\ frames # <<>> /\ Top.at = "acked" /\ pc' = pc /\ isrs' = isrs /\ pics' = pics
      /\ use_new_pic' = use_new_pic /\ cpu' = [cpu EXCEPT !.intf = Top.intf]
      /\ frames' = Front(frames)
  BY DEF iretq
<1>2. /\ frames' \in Seq(Frame)
      /\ Len(frames) \in DOMAIN frames /\ Top = frames[Len(frames)]
      /\ DOMAIN frames = 1..Len(frames) /\ Len(frames) \in Nat
      /\ DOMAIN frames' = 1..(Len(frames) - 1)
      /\ \A j \in DOMAIN frames' : frames'[j] = frames[j]
  BY <1>1, Pop DEF IInv, TypeInv
<1>3. Top.intf \in BOOLEAN /\ cpu' \in [apic : BOOLEAN, intf : BOOLEAN] /\ cpu'.intf = Top.intf
  <2>1. frames[Len(frames)] \in Frame
    BY <1>2 DEF IInv, TypeInv
  <2>2. Top.intf \in BOOLEAN
    BY <1>2, <2>1 DEF Frame
  <2> QED BY <1>1, <2>2 DEF IInv, TypeInv
<1>4. Top.line # -1
  BY <1>1, <1>2 DEF IInv, LineInv
<1>5. \A j \in DOMAIN frames' : j \in DOMAIN frames /\ frames'[j].line = -1
  BY <1>2, <1>4 DEF IInv, LinesDoNotNest
<1>6. TypeInv'
  BY <1>1, <1>2, <1>3 DEF IInv, TypeInv
<1>7. EnabledOrDue' => EnabledOrDue
  BY <1>2, <1>3, <1>5 DEF EnabledOrDue
<1>8. Armed' <=> Armed
  BY <1>1 DEF Armed, Masked
<1>9. ArmedInv' /\ EarlyInv' /\ PitInv'
  BY <1>1, <1>7, <1>8 DEF IInv, ArmedInv, EarlyInv, PitInv
<1>10. LineInv' /\ LinesDoNotNest'
  BY <1>2, <1>5 DEF IInv, LineInv, LinesDoNotNest
<1>11. ServiceInv'
  <2>1. \A j \in DOMAIN frames : ~Unacked(j)
    BY <1>1, <1>2, <1>4 DEF IInv, LinesDoNotNest, Unacked
  <2>2. \A j \in DOMAIN frames' : ~Unacked(j)'
    BY <1>5 DEF Unacked
  <2> QED BY <1>1, <2>1, <2>2 DEF IInv, ServiceInv
<1> QED BY <1>6, <1>9, <1>10, <1>11 DEF IInv

------------------------------------------------------------------------------
(* The steps of the devices and the processor                              *)

\* A change of the requests that the controllers remember.
LEMMA RequestsChange ==
    ASSUME TypeInv, NEW q \in SUBSET (0..7), NEW c \in 1..2,
           pics' = [pics EXCEPT ![c] = [pics[c] EXCEPT !.irr = q]]
    PROVE  /\ pics' \in [1..2 -> Pic]
           /\ pics'[1].want = pics[1].want /\ pics'[1].base = pics[1].base
           /\ pics'[1].imr = pics[1].imr /\ pics'[1].inService = pics[1].inService
<1> DEFINE d == [pics[c] EXCEPT !.irr = q]
<1>1. pics \in [1..2 -> Pic] /\ pics[c] \in Pic
  BY DEF TypeInv
<1>2. /\ d \in Pic /\ d.want = pics[c].want /\ d.base = pics[c].base
      /\ d.imr = pics[c].imr /\ d.inService = pics[c].inService
  BY <1>1 DEF Pic
<1> HIDE DEF d
<1>3. pics' = [pics EXCEPT ![c] = d]
  BY DEF d
<1> QED BY <1>1, <1>2, <1>3

LEMMA RaiseSteps ==
    ASSUME NEW l \in Devices PROVE IInv /\ Raise(l) => IInv'
<1> SUFFICES ASSUME IInv, Raise(l) PROVE IInv'
  OBVIOUS
<1>1. /\ cpu' = cpu /\ pc' = pc /\ frames' = frames /\ isrs' = isrs
      /\ use_new_pic' = use_new_pic
  BY DEF Raise
<1>2. pics[1] \in Pic /\ pics[2] \in Pic
  BY DEF IInv, TypeInv
<1>3. /\ pics' \in [1..2 -> Pic]
      /\ pics'[1].want = pics[1].want /\ pics'[1].base = pics[1].base
      /\ pics'[1].imr = pics[1].imr /\ pics'[1].inService = pics[1].inService
  <2>0. l \in 0..15
    BY ConstantsAssumption
  <2>1. CASE l < 8
    <3> DEFINE q == pics[1].irr \cup {l}
    <3>1. q \in SUBSET (0..7)
      BY <1>2, <2>0, <2>1 DEF Pic
    <3>2. pics' = [pics EXCEPT ![1] = [pics[1] EXCEPT !.irr = q]]
      BY <1>2, <2>1 DEF Raise, Pic, IInv, TypeInv
    <3> HIDE DEF q
    <3>3. TypeInv /\ 1 \in 1..2
      BY DEF IInv
    <3> QED BY <3>1, <3>2, <3>3, RequestsChange, Zenon
  <2>2. CASE ~(l < 8)
    <3> DEFINE q == pics[2].irr \cup {l - 8}
    <3>1. q \in SUBSET (0..7)
      BY <1>2, <2>0, <2>2 DEF Pic
    <3>2. pics' = [pics EXCEPT ![2] = [pics[2] EXCEPT !.irr = q]]
      BY <1>2, <2>2 DEF Raise, Pic, IInv, TypeInv
    <3> HIDE DEF q
    <3>3. TypeInv /\ 2 \in 1..2
      BY DEF IInv
    <3> QED BY <3>1, <3>2, <3>3, RequestsChange, Zenon
  <2> QED BY <2>1, <2>2
<1>4. TypeInv'
  BY <1>1, <1>3 DEF IInv, TypeInv
<1>5. LineInv' /\ LinesDoNotNest' /\ ServiceInv'
  BY <1>1, <1>3 DEF IInv, LineInv, LinesDoNotNest, ServiceInv, Unacked
<1>6. (EnabledOrDue' <=> EnabledOrDue) /\ (Armed' <=> Armed)
  BY <1>1, <1>3 DEF EnabledOrDue, Armed, Masked
<1> QED BY <1>1, <1>3, <1>4, <1>5, <1>6 DEF IInv, ArmedInv, EarlyInv, PitInv

\* A context that holds no line is pushed: a spurious interrupt, or an
\* exception.
LEMMA EnterWithoutLine ==
    ASSUME IInv, NEW n \in Int, n # PIT_IRQ, Enter(n, -1),
           pc' = pc, isrs' = isrs, use_new_pic' = use_new_pic,
           pics' \in [1..2 -> Pic],
           pics'[1].want = pics[1].want, pics'[1].base = pics[1].base,
           pics'[1].imr = pics[1].imr, pics'[1].inService = pics[1].inService
    PROVE  IInv'
<1> DEFINE f == [n |-> n, line |-> -1, at |-> "entered", intf |-> cpu.intf]
<1>0. cpu.intf \in BOOLEAN /\ cpu'.intf \in BOOLEAN /\ (cpu'.intf => cpu.intf)
      /\ cpu' \in [apic : BOOLEAN, intf : BOOLEAN]
  BY DEF Enter, IInv, TypeInv
<1>1. f \in Frame /\ f.n = n /\ f.line = -1 /\ f.at = "entered" /\ f.intf = cpu.intf
  BY <1>0 DEF Frame
<1>2. frames' = Append(frames, f)
  BY DEF Enter
<1> HIDE DEF f
<1> DEFINE top == Len(frames) + 1
<1>3. /\ frames' \in Seq(Frame)
      /\ DOMAIN frames = 1..Len(frames) /\ Len(frames) \in Nat
      /\ DOMAIN frames' = 1..top
      /\ frames'[top] = f
      /\ \A j \in DOMAIN frames : frames'[j] = frames[j]
  BY <1>1, <1>2, Push DEF IInv, TypeInv
<1>4. \A j \in DOMAIN frames' : j = top \/ (j \in DOMAIN frames /\ j < top)
  BY <1>3
<1>5. TypeInv'
  BY <1>0, <1>3 DEF IInv, TypeInv
<1>6. EnabledOrDue' => EnabledOrDue
  BY <1>0, <1>1, <1>3, <1>4 DEF EnabledOrDue
<1>7. Armed' <=> Armed
  BY DEF Armed, Masked
<1>8. ArmedInv' /\ EarlyInv' /\ PitInv'
  BY <1>6, <1>7 DEF IInv, ArmedInv, EarlyInv, PitInv
<1>9. LinesDoNotNest'
  BY <1>1, <1>3, <1>4 DEF IInv, LinesDoNotNest
<1>10. LineInv'
  <2> SUFFICES ASSUME NEW j \in DOMAIN frames'
               PROVE  /\ frames'[j].line # -1 <=> frames'[j].n = PIT_IRQ
                      /\ frames'[j].line # -1 =>
                           /\ frames'[j].line = 0 /\ ~cpu'.intf
                           /\ \A k \in DOMAIN frames' : k > j => ~frames'[k].intf
                      /\ frames'[j].at \in {"handled", "acked"} => frames'[j].n = PIT_IRQ
    BY DEF LineInv
  <2>1. CASE j = top
    BY <1>1, <1>3, <2>1
  <2>2. CASE j \in DOMAIN frames
    <3>1. /\ frames[j].line # -1 <=> frames[j].n = PIT_IRQ
          /\ frames[j].line # -1 =>
               /\ frames[j].line = 0 /\ ~cpu.intf
               /\ \A k \in DOMAIN frames : k > j => ~frames[k].intf
          /\ frames[j].at \in {"handled", "acked"} => frames[j].n = PIT_IRQ
      BY <2>2 DEF IInv, LineInv
    <3> QED BY <1>0, <1>1, <1>3, <1>4, <2>2, <3>1
  <2> QED BY <1>4, <2>1, <2>2
<1>11. ServiceInv'
  <2>1. (\E j \in DOMAIN frames' : Unacked(j)') <=> (\E j \in DOMAIN frames : Unacked(j))
    BY <1>1, <1>3, <1>4 DEF Unacked
  <2> QED BY <2>1 DEF IInv, ServiceInv
<1> QED BY <1>5, <1>8, <1>9, <1>10, <1>11 DEF IInv

LEMMA ExceptionSteps ==
    ASSUME NEW n \in Exceptions PROVE IInv /\ Exception(n) => IInv'
<1> SUFFICES ASSUME IInv, Exception(n) PROVE IInv'
  OBVIOUS
<1>1. n \in Int /\ n # PIT_IRQ
  BY ConstantsAssumption DEF PIT_IRQ
<1>2. /\ Enter(n, -1) /\ pc' = pc /\ isrs' = isrs /\ use_new_pic' = use_new_pic
      /\ pics' = pics /\ pics' \in [1..2 -> Pic]
  BY DEF Exception, IInv, TypeInv
<1> QED BY <1>1, <1>2, EnterWithoutLine

LEMMA SpuriousSteps == IInv /\ Spurious => IInv'
<1> SUFFICES ASSUME IInv, Spurious PROVE IInv'
  OBVIOUS
<1>1. /\ Enter(pics[1].base + 7, -1) /\ cpu.intf /\ Pending # {}
      /\ pc' = pc /\ isrs' = isrs /\ use_new_pic' = use_new_pic
  BY DEF Spurious
<1>2. Armed
  BY <1>1 DEF IInv, ArmedInv, EnabledOrDue
<1>3. pics[1].base + 7 = 39
  BY <1>2 DEF Armed, PIC_IRQBASE
<1>4. pics[1] \in Pic
  BY DEF IInv, TypeInv
<1> DEFINE q == pics[1].irr \ {Min(Pending)}
<1>5. q \in SUBSET (0..7)
  BY <1>4 DEF Pic
<1>6. pics' = [pics EXCEPT ![1] = [pics[1] EXCEPT !.irr = q]]
  BY <1>4 DEF Spurious, Pic, IInv, TypeInv
<1> HIDE DEF q
<1>7. /\ pics' \in [1..2 -> Pic]
      /\ pics'[1].want = pics[1].want /\ pics'[1].base = pics[1].base
      /\ pics'[1].imr = pics[1].imr /\ pics'[1].inService = pics[1].inService
  <2>1. TypeInv /\ 1 \in 1..2
    BY DEF IInv
  <2> QED BY <1>5, <1>6, <2>1, RequestsChange, Zenon
<1>8. Enter(39, -1)
  BY <1>1, <1>3
<1>9. 39 \in Int /\ 39 # PIT_IRQ
  BY DEF PIT_IRQ
<1> QED BY <1>1, <1>7, <1>8, <1>9, EnterWithoutLine

\* The processor accepts a line.  It is the timer's; no other frame holds a
\* line, since the interrupt flag was set.
LEMMA DeliverSteps == IInv /\ Deliver => IInv'
<1> SUFFICES ASSUME IInv, Deliver PROVE IInv'
  OBVIOUS
<1>1. /\ cpu.intf /\ Pending # {} /\ pc' = pc /\ isrs' = isrs
      /\ use_new_pic' = use_new_pic
  BY DEF Deliver
<1>2. Armed /\ TypeInv
  BY <1>1 DEF IInv, ArmedInv, EnabledOrDue
<1>3. Min(Pending) = 0
  BY <1>1, <1>2, OnlyTheTimerPends
<1>4. /\ Enter(pics[1].base + 0, 0)
      /\ pics' = [pics EXCEPT ![1].irr = @ \ {0}, ![1].inService = @ \cup {0}]
  BY <1>3 DEF Deliver
<1>5. pics[1].base + 0 = PIT_IRQ /\ PIT_IRQ \in Int
  BY <1>2 DEF Armed, PIC_IRQBASE, PIT_IRQ
<1>6. Enter(PIT_IRQ, 0) /\ IsInterruptGate(PIT_IRQ)
  BY <1>4, <1>5 DEF IsInterruptGate, PIT_IRQ
<1>7. \A j \in DOMAIN frames : frames[j].line = -1
  BY <1>1 DEF IInv, LineInv
<1>8. pics[1] \in Pic /\ pics[1].inService = {} /\ pics[1].want = "OCW"
  BY <1>7 DEF IInv, TypeInv, ServiceInv, Unacked
<1>9. /\ pics' \in [1..2 -> Pic] /\ pics'[1].want = "OCW" /\ pics'[1].base = pics[1].base
      /\ pics'[1].imr = pics[1].imr /\ pics'[1].inService = {0}
  <2> DEFINE q == pics[1].irr \ {0}
             r == pics[1].inService \cup {0}
             d == [pics[1] EXCEPT !.irr = q, !.inService = r]
  <2>1. q \in SUBSET (0..7) /\ r = {0} /\ r \in SUBSET (0..7)
    BY <1>8 DEF Pic
  <2>2. pics' = [pics EXCEPT ![1] = d]
    BY <1>2, <1>4, <1>8 DEF TypeInv, Pic
  <2> HIDE DEF q, r
  <2>3. /\ d \in Pic /\ d.want = "OCW" /\ d.base = pics[1].base
        /\ d.imr = pics[1].imr /\ d.inService = {0}
    BY <1>8, <2>1 DEF Pic
  <2> HIDE DEF d
  <2> QED BY <1>2, <2>2, <2>3 DEF TypeInv
<1>10. cpu' \in [apic : BOOLEAN, intf : BOOLEAN] /\ cpu'.intf = FALSE
  BY <1>2, <1>6 DEF Enter, TypeInv
<1> DEFINE f == [n |-> PIT_IRQ, line |-> 0, at |-> "entered", intf |-> cpu.intf]
           top == Len(frames) + 1
<1>11. f \in Frame /\ f.n = PIT_IRQ /\ f.line = 0 /\ f.at = "entered"
  BY <1>2, <1>5 DEF Frame, TypeInv
<1>12. frames' = Append(frames, f)
  BY <1>6 DEF Enter
<1> HIDE DEF f
<1>13. /\ frames' \in Seq(Frame)
       /\ DOMAIN frames = 1..Len(frames) /\ Len(frames) \in Nat
       /\ DOMAIN frames' = 1..top
       /\ frames'[top] = f
       /\ \A j \in DOMAIN frames : frames'[j] = frames[j]
  BY <1>2, <1>11, <1>12, Push DEF TypeInv
<1>14. \A j \in DOMAIN frames' : j = top \/ (j \in DOMAIN frames /\ j < top)
  BY <1>13
<1>15. top \in DOMAIN frames'
  BY <1>13
<1>16. Armed'
  BY <1>1, <1>2, <1>9 DEF Armed, Masked
<1>17. TypeInv'
  BY <1>1, <1>2, <1>9, <1>10, <1>13 DEF TypeInv
<1>18. pc \notin {"memory", "isr", "acpi", "pic", "pit", "enable"}
  BY <1>1 DEF IInv, EarlyInv, EnabledOrDue
<1>19. LinesDoNotNest'
  BY <1>7, <1>13, <1>14 DEF LinesDoNotNest
<1>20. LineInv'
  <2> SUFFICES ASSUME NEW j \in DOMAIN frames'
               PROVE  /\ frames'[j].line # -1 <=> frames'[j].n = PIT_IRQ
                      /\ frames'[j].line # -1 =>
                           /\ frames'[j].line = 0 /\ ~cpu'.intf
                           /\ \A k \in DOMAIN frames' : k > j => ~frames'[k].intf
                      /\ frames'[j].at \in {"handled", "acked"} => frames'[j].n = PIT_IRQ
    BY DEF LineInv
  <2>1. CASE j = top
    BY <1>10, <1>11, <1>13, <1>14, <2>1
  <2>2. CASE j \in DOMAIN frames
    BY <1>7, <1>13, <2>2 DEF IInv, LineInv
  <2> QED BY <1>14, <2>1, <2>2
<1>21. ServiceInv'
  BY <1>9, <1>11, <1>13, <1>15 DEF ServiceInv, Unacked
<1> QED BY <1>1, <1>16, <1>17, <1>18, <1>19, <1>20, <1>21
        DEF IInv, ArmedInv, EarlyInv, PitInv

------------------------------------------------------------------------------
LEMMA Inductive == Spec => []IInv
<1>1. IInv /\ [Next]_vars => IInv'
  <2> SUFFICES ASSUME IInv, [Next]_vars PROVE IInv'
    OBVIOUS
  <2>1. CASE Kernel
    BY <2>1, Quiet, PicSteps, PitSteps, EnableSteps, HandleSteps, AckSteps, IretSteps
       DEF Kernel
  <2>2. CASE Deliver \/ Spurious
    BY <2>2, DeliverSteps, SpuriousSteps
  <2>3. CASE \E l \in Devices : Raise(l)
    BY <2>3, RaiseSteps
  <2>4. CASE \E n \in Exceptions : Exception(n)
    BY <2>4, ExceptionSteps
  <2>5. CASE UNCHANGED vars
    BY <2>5 DEF vars, IInv, TypeInv, ArmedInv, Armed, Masked, EarlyInv, PitInv, LineInv,
                ServiceInv, LinesDoNotNest, EnabledOrDue, Unacked
  <2> QED BY <2>1, <2>2, <2>3, <2>4, <2>5 DEF Next
<1> QED BY <1>1, InitHolds, PTL DEF Spec

\* Whatever devices interrupt, whenever they do and whatever masks the
\* firmware left: no line without a handler reaches isr_common.
THEOREM LinesHaveHandlersTheorem == Spec => []LinesHaveHandlers
<1>1. IInv => LinesHaveHandlers
  BY DEF IInv, LineInv, ArmedInv, EnabledOrDue, Armed, LinesHaveHandlers
<1> QED BY <1>1, Inductive, PTL

\* The first controller has in service exactly what the stack has still to
\* acknowledge.
THEOREM InServiceTheorem == Spec => []InServiceMatchesStack
<1>1. IInv => InServiceMatchesStack
  <2> SUFFICES ASSUME IInv PROVE InServiceMatchesStack
    OBVIOUS
  <2> DEFINE due == {j \in DOMAIN frames : frames[j].line # -1 /\ frames[j].at # "acked"}
  <2>1. \A j \in due : HeldLine(frames[j]) = 0
    BY DEF IInv, LineInv, HeldLine
  <2>2. pics[1].inService = IF due # {} THEN {0} ELSE {}
    BY DEF IInv, ServiceInv, Unacked
  <2>3. {HeldLine(frames[j]) : j \in due} = IF due # {} THEN {0} ELSE {}
    <3> HIDE DEF due
    <3> QED BY <2>1
  <2> QED BY <2>2, <2>3 DEF InServiceMatchesStack
<1> QED BY <1>1, Inductive, PTL

\* Interrupts of lines do not nest.
THEOREM LinesDoNotNestTheorem == Spec => []LinesDoNotNest
<1>1. IInv => LinesDoNotNest
  BY DEF IInv
<1> QED BY <1>1, Inductive, PTL

\* From pit_init on, whatever the firmware left in the controllers, the
\* timer's line is open and no other.
THEOREM OnlyTheTimerTheorem == Spec => []OnlyTheTimerIsOpen
<1>1. IInv => OnlyTheTimerIsOpen
  BY DEF IInv, ArmedInv, Armed, ServiceInv, OnlyTheTimerIsOpen
<1> QED BY <1>1, Inductive, PTL
==============================================================================
