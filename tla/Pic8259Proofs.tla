--------------------------- MODULE Pic8259Proofs ---------------------------
(***************************************************************************)
(* Facts about the operators of Pic8259 that the proofs about the kernels  *)
(* rest on.                                                                *)
(***************************************************************************)
EXTENDS Pic8259, TLAPS

(* A write to a command port yields a chip. *)
LEMMA CommandType ==
  ASSUME NEW c \in Chip, NEW v \in Bytes
  PROVE  /\ WriteCommand(c, v) \in Chip
         /\ WriteCommand(c, v).irr \subseteq c.irr
         /\ WriteCommand(c, v).isr \subseteq c.isr
BY DEF WriteCommand, Chip

(* A write to a data port yields a chip. *)
LEMMA DataType ==
  ASSUME NEW c \in Chip, NEW v \in Bytes
  PROVE  /\ WriteData(c, v) \in Chip
         /\ WriteData(c, v).irr = c.irr
         /\ WriteData(c, v).isr = c.isr
<1>1. BitsOf(v) \subseteq Lines
  BY DEF BitsOf
<1> QED
  BY <1>1 DEF WriteData, Chip

(* A write to a port of the pair never latches a request and never puts a  *)
(* line in service.                                                        *)
LEMMA OutbType ==
  ASSUME NEW p \in Pair, NEW port \in Ports, NEW v \in Bytes
  PROVE  /\ Outb(p, port, v) \in Pair
         /\ Outb(p, port, v).m.irr \subseteq p.m.irr
         /\ Outb(p, port, v).s.irr \subseteq p.s.irr
         /\ Outb(p, port, v).m.isr \subseteq p.m.isr
         /\ Outb(p, port, v).s.isr \subseteq p.s.isr
<1>0. p.m \in Chip /\ p.s \in Chip
  BY DEF Pair
<1>1. CASE port = PIC1_COMMAND
  <2>1. Outb(p, port, v) = [p EXCEPT !.m = WriteCommand(p.m, v)]
    BY <1>1 DEF Outb, PIC1_COMMAND, PIC1_DATA, PIC2_COMMAND, PIC2_DATA
  <2> QED
    BY <1>0, <2>1, CommandType DEF Pair
<1>2. CASE port = PIC1_DATA
  <2>1. Outb(p, port, v) = [p EXCEPT !.m = WriteData(p.m, v)]
    BY <1>2 DEF Outb, PIC1_COMMAND, PIC1_DATA, PIC2_COMMAND, PIC2_DATA
  <2> QED
    BY <1>0, <2>1, DataType DEF Pair
<1>3. CASE port = PIC2_COMMAND
  <2>1. Outb(p, port, v) = [p EXCEPT !.s = WriteCommand(p.s, v)]
    BY <1>3 DEF Outb, PIC1_COMMAND, PIC1_DATA, PIC2_COMMAND, PIC2_DATA
  <2> QED
    BY <1>0, <2>1, CommandType DEF Pair
<1>4. CASE port = PIC2_DATA
  <2>1. Outb(p, port, v) = [p EXCEPT !.s = WriteData(p.s, v)]
    BY <1>4 DEF Outb, PIC1_COMMAND, PIC1_DATA, PIC2_COMMAND, PIC2_DATA
  <2> QED
    BY <1>0, <2>1, DataType DEF Pair
<1> QED
  BY <1>1, <1>2, <1>3, <1>4 DEF Ports

(* A write to a command port reaches the chip of that port only. *)
LEMMA CommandPorts ==
  ASSUME NEW p, NEW v
  PROVE  /\ Outb(p, PIC1_COMMAND, v) = [p EXCEPT !.m = WriteCommand(p.m, v)]
         /\ Outb(p, PIC2_COMMAND, v) = [p EXCEPT !.s = WriteCommand(p.s, v)]
BY DEF Outb, PIC1_COMMAND, PIC1_DATA, PIC2_COMMAND, PIC2_DATA

(* Raising a line latches that request and nothing else. *)
LEMMA RaiseType ==
  ASSUME NEW p \in Pair, NEW irq \in IRQs
  PROVE  /\ Raise(p, irq) \in Pair
         /\ Raise(p, irq).m.isr = p.m.isr /\ Raise(p, irq).s.isr = p.s.isr
         /\ \A i \in IRQs : Latched(Raise(p, irq), i) => i = irq \/ Latched(p, i)
<1>0. p.m \in Chip /\ p.s \in Chip
  BY DEF Pair
<1>1. CASE irq < 8
  <2>1. Raise(p, irq) = [p EXCEPT !.m = [p.m EXCEPT !.irr = p.m.irr \cup {irq}]]
    BY <1>1 DEF Raise, Pair, Chip
  <2>2. irq \in Lines
    BY <1>1 DEF IRQs, Lines
  <2> QED
    BY <1>0, <1>1, <2>1, <2>2 DEF Pair, Chip, Latched
<1>2. CASE ~(irq < 8)
  <2>1. Raise(p, irq) = [p EXCEPT !.s = [p.s EXCEPT !.irr = p.s.irr \cup {irq - 8}]]
    BY <1>2 DEF Raise, Pair, Chip
  <2>2. irq - 8 \in Lines
    BY <1>2 DEF IRQs, Lines
  <2>3. \A i \in IRQs : i - 8 = irq - 8 => i = irq
    BY DEF IRQs
  <2> QED
    BY <1>0, <1>2, <2>1, <2>2, <2>3 DEF Pair, Chip, Latched
<1> QED
  BY <1>1, <1>2

(* Raising a line latches its request and keeps the others. *)
LEMMA RaiseLatches ==
  ASSUME NEW p \in Pair, NEW irq \in IRQs
  PROVE  /\ Latched(Raise(p, irq), irq)
         /\ \A i \in IRQs : Latched(p, i) => Latched(Raise(p, irq), i)
<1>0. p.m \in Chip /\ p.s \in Chip
  BY DEF Pair
<1>1. CASE irq < 8
  <2>1. Raise(p, irq) = [p EXCEPT !.m = [p.m EXCEPT !.irr = p.m.irr \cup {irq}]]
    BY <1>1 DEF Raise, Pair, Chip
  <2> QED
    BY <1>0, <1>1, <2>1 DEF Pair, Chip, Latched
<1>2. CASE ~(irq < 8)
  <2>1. Raise(p, irq) = [p EXCEPT !.s = [p.s EXCEPT !.irr = p.s.irr \cup {irq - 8}]]
    BY <1>2 DEF Raise, Pair, Chip
  <2> QED
    BY <1>0, <1>2, <2>1 DEF Pair, Chip, Latched
<1> QED
  BY <1>1, <1>2

(* What the pair delivers is the request of some line that is latched. *)
LEMMA DeliverableLatched ==
  ASSUME NEW p \in Pair, NEW irq \in Deliverable(p)
  PROVE  irq \in IRQs /\ irq # CASCADE /\ Latched(p, irq)
<1>0. p.m.irr \subseteq Lines /\ p.s.irr \subseteq Lines
  BY DEF Pair, Chip
<1>1. SlaveTop(p) \subseteq p.s.irr
  BY DEF SlaveTop, Top, Candidates
<1>2. MasterTop(p) \subseteq p.m.irr \cup {CASCADE}
  BY DEF MasterTop, Top, Candidates
<1>3. CASE irq \in MasterTop(p) \ {CASCADE}
  BY <1>0, <1>2, <1>3 DEF Latched, Lines, IRQs
<1>4. CASE irq \in {i + 8 : i \in SlaveTop(p)}
  <2>1. PICK i \in SlaveTop(p) : irq = i + 8
    BY <1>4
  <2> QED
    BY <1>0, <1>1, <2>1 DEF Latched, Lines, IRQs, CASCADE
<1> QED
  BY <1>3, <1>4 DEF Deliverable

(* An end of interrupt empties the service register of a chip that serves  *)
(* one line, and leaves the rest of the chip alone.                        *)
LEMMA EoiOfOne ==
  ASSUME NEW c \in Chip, NEW i \in Lines, c.isr = {i}
  PROVE  /\ WriteCommand(c, PIC_EOI) \in Chip
         /\ WriteCommand(c, PIC_EOI).isr = {}
         /\ WriteCommand(c, PIC_EOI).irr = c.irr
<1>1. Top({i}) = {i}
  BY DEF Top, Lines
<1>2. WriteCommand(c, PIC_EOI) = [c EXCEPT !.isr = c.isr \ Top(c.isr)]
  BY DEF WriteCommand, PIC_EOI
<1> QED
  BY <1>1, <1>2 DEF Chip

(* Taking an interrupt when nothing is in service. *)
LEMMA AcknowledgeIdle ==
  ASSUME NEW p \in Pair, Idle(p), NEW irq \in IRQs, irq # CASCADE
  PROVE  /\ Acknowledge(p, irq) \in Pair
         /\ irq < 8 => /\ Acknowledge(p, irq).m.isr = {irq}
                       /\ Acknowledge(p, irq).s.isr = {}
                       /\ Acknowledge(p, irq).m.irr = p.m.irr \ {irq}
                       /\ Acknowledge(p, irq).s.irr = p.s.irr
         /\ irq >= 8 => /\ Acknowledge(p, irq).m.isr = {CASCADE}
                        /\ Acknowledge(p, irq).s.isr = {irq - 8}
                        /\ Acknowledge(p, irq).m.irr = p.m.irr
                        /\ Acknowledge(p, irq).s.irr = p.s.irr \ {irq - 8}
<1>0. p.m \in Chip /\ p.s \in Chip /\ p.m.isr = {} /\ p.s.isr = {}
  BY DEF Pair, Idle
<1>1. CASE irq < 8
  <2>1. Acknowledge(p, irq) =
          [p EXCEPT !.m = [p.m EXCEPT !.irr = p.m.irr \ {irq}, !.isr = {irq}]]
    BY <1>0, <1>1 DEF Acknowledge, Pair, Chip
  <2>2. irq \in Lines /\ ~(irq >= 8)
    BY <1>1 DEF IRQs, Lines
  <2> DEFINE c == [p.m EXCEPT !.irr = p.m.irr \ {irq}, !.isr = {irq}]
  <2>3. c \in Chip /\ c.isr = {irq} /\ c.irr = p.m.irr \ {irq}
    BY <1>0, <2>2 DEF Chip
  <2>4. Acknowledge(p, irq) = [p EXCEPT !.m = c]
    BY <2>1
  <2> HIDE DEF c
  <2> QED
    BY <1>0, <2>2, <2>3, <2>4 DEF Pair
<1>2. CASE ~(irq < 8)
  <2>1. Acknowledge(p, irq) =
          [p EXCEPT !.s = [p.s EXCEPT !.irr = p.s.irr \ {irq - 8}, !.isr = {irq - 8}],
                    !.m = [p.m EXCEPT !.isr = {CASCADE}]]
    BY <1>0, <1>2 DEF Acknowledge, Pair, Chip
  <2>2. irq - 8 \in Lines /\ CASCADE \in Lines
    BY <1>2 DEF IRQs, Lines, CASCADE
  <2> DEFINE c == [p.s EXCEPT !.irr = p.s.irr \ {irq - 8}, !.isr = {irq - 8}]
             d == [p.m EXCEPT !.isr = {CASCADE}]
  <2>3. c \in Chip /\ c.isr = {irq - 8} /\ c.irr = p.s.irr \ {irq - 8}
    BY <1>0, <2>2 DEF Chip
  <2>4. d \in Chip /\ d.isr = {CASCADE} /\ d.irr = p.m.irr
    BY <1>0, <2>2 DEF Chip
  <2>5. Acknowledge(p, irq) = [p EXCEPT !.s = c, !.m = d]
    BY <2>1
  <2> HIDE DEF c, d
  <2> QED
    BY <1>0, <1>2, <2>3, <2>4, <2>5 DEF Pair
<1> QED
  BY <1>1, <1>2
-----------------------------------------------------------------------------
(* The mask registers. *)

(* The bits of a mask. *)
LEMMA PowersOfTwo ==
  /\ 2^0 = 1 /\ 2^1 = 2 /\ 2^2 = 4 /\ 2^3 = 8
  /\ 2^4 = 16 /\ 2^5 = 32 /\ 2^6 = 64 /\ 2^7 = 128
OBVIOUS

(* The bits of a byte, one by one. *)
LEMMA EightBits ==
  ASSUME NEW v \in Bytes
  PROVE  /\ BitsOf(v) \subseteq Lines
         /\ 0 \in BitsOf(v) <=> v % 2 = 1
         /\ 1 \in BitsOf(v) <=> (v \div 2) % 2 = 1
         /\ 2 \in BitsOf(v) <=> (v \div 4) % 2 = 1
         /\ 3 \in BitsOf(v) <=> (v \div 8) % 2 = 1
         /\ 4 \in BitsOf(v) <=> (v \div 16) % 2 = 1
         /\ 5 \in BitsOf(v) <=> (v \div 32) % 2 = 1
         /\ 6 \in BitsOf(v) <=> (v \div 64) % 2 = 1
         /\ 7 \in BitsOf(v) <=> (v \div 128) % 2 = 1
BY PowersOfTwo DEF BitsOf, Lines, Bytes

(* Two sets of lines with the same eight members are equal. *)
LEMMA SameLines ==
  ASSUME NEW S \in SUBSET Lines, NEW T \in SUBSET Lines,
         0 \in S <=> 0 \in T, 1 \in S <=> 1 \in T, 2 \in S <=> 2 \in T, 3 \in S <=> 3 \in T,
         4 \in S <=> 4 \in T, 5 \in S <=> 5 \in T, 6 \in S <=> 6 \in T, 7 \in S <=> 7 \in T
  PROVE  S = T
<1>1. ASSUME NEW i \in Lines PROVE i \in S <=> i \in T
  <2>1. i = 0 \/ i = 1 \/ i = 2 \/ i = 3 \/ i = 4 \/ i = 5 \/ i = 6 \/ i = 7
    BY DEF Lines
  <2> QED
    BY <2>1
<1> QED
  BY <1>1

(* Every set of lines is the mask of some byte, so that a data port that   *)
(* is read always has an answer.                                           *)
LEMMA MaskIsByte ==
  ASSUME NEW S \in SUBSET Lines
  PROVE  \E v \in Bytes : BitsOf(v) = S
<1> DEFINE bit(i) == IF i \in S THEN 1 ELSE 0
           v == bit(0) + 2 * bit(1) + 4 * bit(2) + 8 * bit(3)
                  + 16 * bit(4) + 32 * bit(5) + 64 * bit(6) + 128 * bit(7)
<1>1. \A i \in Lines : bit(i) \in {0, 1} /\ (bit(i) = 1 <=> i \in S)
  OBVIOUS
<1>2. 0 \in Lines /\ 1 \in Lines /\ 2 \in Lines /\ 3 \in Lines
      /\ 4 \in Lines /\ 5 \in Lines /\ 6 \in Lines /\ 7 \in Lines
  BY DEF Lines
<1>3. \A b0, b1, b2, b3, b4, b5, b6, b7 \in {0, 1} :
        LET w == b0 + 2 * b1 + 4 * b2 + 8 * b3 + 16 * b4 + 32 * b5 + 64 * b6 + 128 * b7
        IN  /\ w \in Bytes
            /\ w % 2 = b0 /\ (w \div 2) % 2 = b1 /\ (w \div 4) % 2 = b2 /\ (w \div 8) % 2 = b3
            /\ (w \div 16) % 2 = b4 /\ (w \div 32) % 2 = b5
            /\ (w \div 64) % 2 = b6 /\ (w \div 128) % 2 = b7
  BY DEF Bytes
<1> HIDE DEF bit
<1>4. /\ v \in Bytes
      /\ v % 2 = bit(0) /\ (v \div 2) % 2 = bit(1) /\ (v \div 4) % 2 = bit(2)
      /\ (v \div 8) % 2 = bit(3) /\ (v \div 16) % 2 = bit(4) /\ (v \div 32) % 2 = bit(5)
      /\ (v \div 64) % 2 = bit(6) /\ (v \div 128) % 2 = bit(7)
  BY <1>1, <1>2, <1>3
<1> HIDE DEF v
<1>5. BitsOf(v) = S
  BY <1>1, <1>2, <1>4, EightBits, SameLines
<1> QED
  BY <1>4, <1>5

(* What the pair delivers is not masked; a line of the slave also needs    *)
(* the cascade.                                                            *)
LEMMA DeliverableOpen ==
  ASSUME NEW p \in Pair, NEW irq \in Deliverable(p)
  PROVE  /\ irq < 8 => irq \in Lines \ p.m.imr
         /\ irq >= 8 => irq - 8 \in Lines \ p.s.imr /\ CASCADE \notin p.m.imr
<1>0. p.m.irr \subseteq Lines /\ p.s.irr \subseteq Lines
  BY DEF Pair, Chip
<1>1. SlaveTop(p) \subseteq Lines \ p.s.imr
  BY <1>0 DEF SlaveTop, Top, Candidates
<1>2. MasterTop(p) \subseteq Lines \ p.m.imr
  <2>1. CASCADE \in Lines
    BY DEF CASCADE, Lines
  <2> QED
    BY <1>0, <2>1 DEF MasterTop, Top, Candidates
<1>3. CASE irq \in MasterTop(p) \ {CASCADE}
  BY <1>2, <1>3 DEF Lines
<1>4. CASE CASCADE \in MasterTop(p) /\ irq \in {i + 8 : i \in SlaveTop(p)}
  <2>1. PICK i \in SlaveTop(p) : irq = i + 8
    BY <1>4
  <2>2. i \in Lines /\ irq - 8 = i /\ ~(irq < 8)
    BY <1>1, <2>1 DEF Lines
  <2> QED
    BY <1>1, <1>2, <1>4, <2>1, <2>2
<1> QED
  BY <1>3, <1>4 DEF Deliverable

-----------------------------------------------------------------------------
(* How a pair is programmed: what only writes to its ports change. *)
Setup(p) == << p.m.imr, p.m.base, p.m.icw, p.s.imr, p.s.base, p.s.icw >>

(* A request leaves the programming of the pair alone ... *)
LEMMA RaiseSetup ==
  ASSUME NEW p \in Pair, NEW irq \in IRQs
  PROVE  Setup(Raise(p, irq)) = Setup(p)
<1>0. p.m \in Chip /\ p.s \in Chip
  BY DEF Pair
<1>1. CASE irq < 8
  <2>1. Raise(p, irq) = [p EXCEPT !.m = [p.m EXCEPT !.irr = p.m.irr \cup {irq}]]
    BY <1>1 DEF Raise, Pair, Chip
  <2> QED
    BY <1>0, <2>1 DEF Pair, Chip, Setup
<1>2. CASE ~(irq < 8)
  <2>1. Raise(p, irq) = [p EXCEPT !.s = [p.s EXCEPT !.irr = p.s.irr \cup {irq - 8}]]
    BY <1>2 DEF Raise, Pair, Chip
  <2> QED
    BY <1>0, <2>1 DEF Pair, Chip, Setup
<1> QED
  BY <1>1, <1>2

(* Taking an interrupt keeps the pair a pair, whatever is in service. *)
LEMMA AcknowledgeType ==
  ASSUME NEW p \in Pair, NEW irq \in IRQs
  PROVE  Acknowledge(p, irq) \in Pair
<1>0. p.m \in Chip /\ p.s \in Chip
  BY DEF Pair
<1>1. CASE irq < 8
  <2> DEFINE c == [p.m EXCEPT !.irr = p.m.irr \ {irq}, !.isr = p.m.isr \cup {irq}]
  <2>1. irq \in Lines
    BY <1>1 DEF IRQs, Lines
  <2>2. c \in Chip
    BY <1>0, <2>1 DEF Chip
  <2>3. Acknowledge(p, irq) = [p EXCEPT !.m = c]
    BY <1>0, <1>1 DEF Acknowledge, Pair, Chip
  <2> HIDE DEF c
  <2> QED
    BY <1>0, <2>2, <2>3 DEF Pair
<1>2. CASE ~(irq < 8)
  <2> DEFINE c == [p.s EXCEPT !.irr = p.s.irr \ {irq - 8}, !.isr = p.s.isr \cup {irq - 8}]
             d == [p.m EXCEPT !.isr = p.m.isr \cup {CASCADE}]
  <2>1. irq - 8 \in Lines /\ CASCADE \in Lines
    BY <1>2 DEF IRQs, Lines, CASCADE
  <2>2. c \in Chip /\ d \in Chip
    BY <1>0, <2>1 DEF Chip
  <2>3. Acknowledge(p, irq) = [p EXCEPT !.s = c, !.m = d]
    BY <1>0, <1>2 DEF Acknowledge, Pair, Chip
  <2> HIDE DEF c, d
  <2> QED
    BY <1>0, <2>2, <2>3 DEF Pair
<1> QED
  BY <1>1, <1>2

(* ... and so does an acknowledgement ... *)
LEMMA AcknowledgeSetup ==
  ASSUME NEW p \in Pair, NEW irq
  PROVE  Setup(Acknowledge(p, irq)) = Setup(p)
<1>0. p.m \in Chip /\ p.s \in Chip
  BY DEF Pair
<1>1. CASE irq < 8
  <2>1. Acknowledge(p, irq) =
          [p EXCEPT !.m = [p.m EXCEPT !.irr = p.m.irr \ {irq}, !.isr = p.m.isr \cup {irq}]]
    BY <1>0, <1>1 DEF Acknowledge, Pair, Chip
  <2> QED
    BY <1>0, <2>1 DEF Pair, Chip, Setup
<1>2. CASE ~(irq < 8)
  <2> DEFINE c == [p.s EXCEPT !.irr = p.s.irr \ {irq - 8}, !.isr = p.s.isr \cup {irq - 8}]
             d == [p.m EXCEPT !.isr = p.m.isr \cup {CASCADE}]
  <2>1. Acknowledge(p, irq) = [p EXCEPT !.s = c, !.m = d]
    BY <1>0, <1>2 DEF Acknowledge, Pair, Chip
  <2>2. /\ c.imr = p.s.imr /\ c.base = p.s.base /\ c.icw = p.s.icw
        /\ d.imr = p.m.imr /\ d.base = p.m.base /\ d.icw = p.m.icw
    BY <1>0 DEF Chip
  <2> HIDE DEF c, d
  <2> QED
    BY <2>1, <2>2 DEF Pair, Setup
<1> QED
  BY <1>1, <1>2

(* An end of interrupt leaves the setup, the latches and what the other    *)
(* chip has in service.                                                    *)
LEMMA EoiChip ==
  ASSUME NEW c \in Chip
  PROVE  /\ WriteCommand(c, PIC_EOI) = [c EXCEPT !.isr = c.isr \ Top(c.isr)]
         /\ WriteCommand(c, PIC_EOI) \in Chip
         /\ WriteCommand(c, PIC_EOI).irr = c.irr
         /\ WriteCommand(c, PIC_EOI).isr = c.isr \ Top(c.isr)
         /\ WriteCommand(c, PIC_EOI).imr = c.imr
         /\ WriteCommand(c, PIC_EOI).base = c.base
         /\ WriteCommand(c, PIC_EOI).icw = c.icw
<1>1. WriteCommand(c, PIC_EOI) = [c EXCEPT !.isr = c.isr \ Top(c.isr)]
  BY DEF WriteCommand, PIC_EOI
<1> QED
  BY <1>1 DEF Chip, Top

(* ... and an end of interrupt. *)
LEMMA EoiSetup ==
  ASSUME NEW p \in Pair
  PROVE  /\ Setup(Outb(p, PIC1_COMMAND, PIC_EOI)) = Setup(p)
         /\ Setup(Outb(p, PIC2_COMMAND, PIC_EOI)) = Setup(p)
<1>0. p.m \in Chip /\ p.s \in Chip
  BY DEF Pair
<1> QED
  BY <1>0, EoiChip, CommandPorts DEF Pair, Setup

-----------------------------------------------------------------------------
(* Priorities. *)

(* The line of the master on which an interrupt reaches it. *)
MasterLine(irq) == IF irq < 8 THEN irq ELSE CASCADE

(* What the pair delivers comes before everything the master has in        *)
(* service ...                                                             *)
LEMMA DeliverableFirst ==
  ASSUME NEW p \in Pair, NEW irq \in Deliverable(p)
  PROVE  MasterLine(irq) \in Lines /\ \A j \in p.m.isr : MasterLine(irq) < j
<1>0. p.m.irr \subseteq Lines /\ p.s.irr \subseteq Lines /\ CASCADE \in Lines
  BY DEF Pair, Chip, CASCADE, Lines
<1>1. \A l \in MasterTop(p) : l \in Lines /\ \A j \in p.m.isr : l < j
  BY <1>0 DEF MasterTop, Top, Candidates
<1>2. CASE irq \in MasterTop(p) \ {CASCADE}
  <2>1. irq < 8
    BY <1>1, <1>2 DEF Lines
  <2> QED
    BY <1>1, <1>2, <2>1 DEF MasterLine
<1>3. CASE CASCADE \in MasterTop(p) /\ irq \in {i + 8 : i \in SlaveTop(p)}
  <2>1. SlaveTop(p) \subseteq Lines
    BY <1>0 DEF SlaveTop, Top, Candidates
  <2>2. ~(irq < 8)
    BY <1>3, <2>1 DEF Lines
  <2> QED
    BY <1>1, <1>3, <2>2 DEF MasterLine
<1> QED
  BY <1>2, <1>3 DEF Deliverable

(* ... is then in service there as well ... *)
LEMMA AcknowledgeMaster ==
  ASSUME NEW p \in Pair, NEW irq \in IRQs
  PROVE  /\ Acknowledge(p, irq).m.isr = p.m.isr \cup {MasterLine(irq)}
         /\ Acknowledge(p, irq).m.irr = IF irq < 8 THEN p.m.irr \ {irq} ELSE p.m.irr
<1>0. p.m \in Chip /\ p.s \in Chip
  BY DEF Pair
<1>1. CASE irq < 8
  <2> DEFINE c == [p.m EXCEPT !.irr = p.m.irr \ {irq}, !.isr = p.m.isr \cup {irq}]
  <2>1. c.isr = p.m.isr \cup {irq} /\ c.irr = p.m.irr \ {irq}
    BY <1>0 DEF Chip
  <2>2. Acknowledge(p, irq) = [p EXCEPT !.m = c]
    BY <1>0, <1>1 DEF Acknowledge, Pair, Chip
  <2> HIDE DEF c
  <2>3. Acknowledge(p, irq).m = c
    BY <2>2 DEF Pair
  <2> QED
    BY <1>1, <2>1, <2>3 DEF MasterLine
<1>2. CASE ~(irq < 8)
  <2> DEFINE c == [p.s EXCEPT !.irr = p.s.irr \ {irq - 8}, !.isr = p.s.isr \cup {irq - 8}]
             d == [p.m EXCEPT !.isr = p.m.isr \cup {CASCADE}]
  <2>1. d.isr = p.m.isr \cup {CASCADE} /\ d.irr = p.m.irr
    BY <1>0 DEF Chip
  <2>2. Acknowledge(p, irq) = [p EXCEPT !.s = c, !.m = d]
    BY <1>0, <1>2 DEF Acknowledge, Pair, Chip
  <2> HIDE DEF c, d
  <2>3. Acknowledge(p, irq).m = d
    BY <2>2 DEF Pair
  <2> QED
    BY <1>2, <2>1, <2>3 DEF MasterLine
<1> QED
  BY <1>1, <1>2

(* ... and is what an end of interrupt, which names no line, ends there:   *)
(* the master serves what it served before.                                *)
LEMMA EoiEndsLatest ==
  ASSUME NEW p \in Pair, NEW irq \in Deliverable(p),
         NEW r \in Pair, r.m = Acknowledge(p, irq).m
  PROVE  /\ Outb(r, PIC1_COMMAND, PIC_EOI).m.isr = p.m.isr
         /\ Outb(r, PIC1_COMMAND, PIC_EOI).m.irr = r.m.irr
<1> DEFINE l == MasterLine(irq)
           q == Outb(r, PIC1_COMMAND, PIC_EOI)
<1>0. p.m.isr \subseteq Lines /\ r.m \in Chip
  BY DEF Pair, Chip
<1>1. l \in Lines /\ \A j \in p.m.isr : l < j
  BY DeliverableFirst
<1>2. r.m.isr = p.m.isr \cup {l}
  BY DeliverableLatched, AcknowledgeMaster
<1>3. q.m = WriteCommand(r.m, PIC_EOI)
  BY CommandPorts DEF Pair
<1> HIDE DEF l, q
<1>4. Top(p.m.isr \cup {l}) = {l} /\ l \notin p.m.isr
  BY <1>0, <1>1 DEF Top, Lines
<1>5. q.m.isr = p.m.isr /\ q.m.irr = r.m.irr
  <2>1. q.m.isr = r.m.isr \ Top(r.m.isr) /\ q.m.irr = r.m.irr
    BY <1>0, <1>3, EoiChip
  <2>2. r.m.isr \ Top(r.m.isr) = p.m.isr
    BY <1>2, <1>4
  <2> QED
    BY <2>1, <2>2
<1> QED
  BY <1>5 DEF q

-----------------------------------------------------------------------------
(* The initialization the kernels have in common: ICW1 to ICW4, with the   *)
(* vectors from 32 on for the master and from 40 on for the slave.         *)
InitWrites ==
  << <<PIC1_COMMAND, PIC_INIT>>, <<PIC2_COMMAND, PIC_INIT>>,
     <<PIC1_DATA, 32>>, <<PIC2_DATA, 40>>, <<PIC1_DATA, 4>>, <<PIC2_DATA, 2>>,
     <<PIC1_DATA, 1>>, <<PIC2_DATA, 1>> >>

(* What a chip has been told when k of its four words have been written. *)
Told(chip, base, k) ==
  /\ k = 1 => chip.icw = 2
  /\ k = 2 => chip.icw = 3
  /\ k = 3 => chip.icw = 4
  /\ k = 4 => chip.icw = 0
  /\ k >= 2 => chip.base = base

(* The pair after k of the writes, which go to the two chips in turn. *)
Progress(p, k) == Told(p.m, 32, (k + 1) \div 2) /\ Told(p.s, 40, k \div 2)

(* The second to fourth word of a chip, and the masks after them. *)
LEMMA DataChip ==
  ASSUME NEW c \in Chip, NEW v \in Bytes
  PROVE  /\ c.icw = 2 => WriteData(c, v).icw = 3 /\ WriteData(c, v).base = v
         /\ c.icw = 3 => WriteData(c, v).icw = 4 /\ WriteData(c, v).base = c.base
         /\ c.icw = 4 => WriteData(c, v).icw = 0 /\ WriteData(c, v).base = c.base
         /\ c.icw = 0 => /\ WriteData(c, v).icw = 0 /\ WriteData(c, v).base = c.base
                         /\ WriteData(c, v).imr = BitsOf(v)
<1>1. CASE c.icw = 2
  <2>1. WriteData(c, v) = [c EXCEPT !.base = v, !.icw = 3]
    BY <1>1 DEF WriteData
  <2> QED
    BY <1>1, <2>1 DEF Chip
<1>2. CASE c.icw = 3
  BY <1>2 DEF WriteData, Chip
<1>3. CASE c.icw = 4
  BY <1>3 DEF WriteData, Chip
<1>4. CASE c.icw = 0
  BY <1>4 DEF WriteData, Chip
<1> QED
  BY <1>1, <1>2, <1>3, <1>4 DEF Chip

(* A write to a data port reaches the chip of that port only. *)
LEMMA DataPorts ==
  ASSUME NEW p, NEW v
  PROVE  /\ Outb(p, PIC1_DATA, v) = [p EXCEPT !.m = WriteData(p.m, v)]
         /\ Outb(p, PIC2_DATA, v) = [p EXCEPT !.s = WriteData(p.s, v)]
BY DEF Outb, PIC1_COMMAND, PIC1_DATA, PIC2_COMMAND, PIC2_DATA

(* One more word. *)
LEMMA ToldMore ==
  ASSUME NEW c \in Chip, NEW base \in Bytes, NEW k \in 0..3, Told(c, base, k),
         NEW v \in Bytes, k = 1 => v = base
  PROVE  /\ k = 0 => Told(WriteCommand(c, PIC_INIT), base, k + 1)
         /\ k # 0 => Told(WriteData(c, v), base, k + 1)
<1>1. CASE k = 0
  BY <1>1 DEF Told, WriteCommand, PIC_INIT, Chip
<1>2. CASE k # 0
  BY <1>2, DataChip DEF Told
<1> QED
  BY <1>1, <1>2

(* The next write of the initialization takes the pair one word further. *)
LEMMA ProgressWrite ==
  ASSUME NEW p \in Pair, NEW k \in 0..7, Progress(p, k),
         NEW q, q = Outb(p, InitWrites[k + 1][1], InitWrites[k + 1][2])
  PROVE  Progress(q, k + 1)
<1>0. p.m \in Chip /\ p.s \in Chip
  BY DEF Pair
<1>1. /\ 32 \in Bytes /\ 40 \in Bytes /\ 4 \in Bytes /\ 2 \in Bytes /\ 1 \in Bytes
  BY DEF Bytes
<1>2. CASE k = 0
  BY <1>0, <1>1, <1>2, ToldMore, CommandPorts DEF Progress, InitWrites, Pair
<1>3. CASE k = 1
  BY <1>0, <1>1, <1>3, ToldMore, CommandPorts DEF Progress, InitWrites, Pair
<1>4. CASE k \in {2, 4, 6}
  <2>1. /\ (k + 1) \div 2 = k \div 2 /\ (k + 2) \div 2 = k \div 2 + 1
        /\ k \div 2 \in 1..3 /\ k + 1 + 1 = k + 2
    BY <1>4
  <2>2. PICK v \in Bytes : /\ InitWrites[k + 1] = <<PIC1_DATA, v>>
                           /\ k \div 2 = 1 => v = 32
    BY <1>1, <1>4 DEF InitWrites
  <2>3. q = [p EXCEPT !.m = WriteData(p.m, v)]
    BY <2>2, DataPorts
  <2>4. Told(WriteData(p.m, v), 32, k \div 2 + 1)
    BY <1>0, <1>1, <2>1, <2>2, ToldMore DEF Progress
  <2> QED
    BY <2>1, <2>3, <2>4 DEF Progress, Pair
<1>5. CASE k \in {3, 5, 7}
  <2>1. /\ (k + 2) \div 2 = (k + 1) \div 2 /\ (k + 1) \div 2 = k \div 2 + 1
        /\ k \div 2 \in 1..3 /\ k + 1 + 1 = k + 2
    BY <1>5
  <2>2. PICK v \in Bytes : /\ InitWrites[k + 1] = <<PIC2_DATA, v>>
                           /\ k \div 2 = 1 => v = 40
    BY <1>1, <1>5 DEF InitWrites
  <2>3. q = [p EXCEPT !.s = WriteData(p.s, v)]
    BY <2>2, DataPorts
  <2>4. Told(WriteData(p.s, v), 40, k \div 2 + 1)
    BY <1>0, <1>1, <2>1, <2>2, ToldMore DEF Progress
  <2> QED
    BY <2>1, <2>3, <2>4 DEF Progress, Pair
<1> QED
  BY <1>2, <1>3, <1>4, <1>5

(* A pair that is set up the same way has been told the same. *)
LEMMA ProgressSetup ==
  ASSUME NEW p, NEW q, Setup(q) = Setup(p), NEW k, Progress(p, k)
  PROVE  Progress(q, k)
BY DEF Setup, Progress, Told

(* Once a pair is initialized, a data write sets a mask and nothing else. *)
LEMMA MaskWrite ==
  ASSUME NEW p \in Pair, Progress(p, 8), NEW v \in Bytes,
         NEW port \in {PIC1_DATA, PIC2_DATA}, NEW q, q = Outb(p, port, v)
  PROVE  /\ Progress(q, 8)
         /\ q.m.imr = IF port = PIC1_DATA THEN BitsOf(v) ELSE p.m.imr
         /\ q.s.imr = IF port = PIC2_DATA THEN BitsOf(v) ELSE p.s.imr
<1>0. p.m \in Chip /\ p.s \in Chip /\ p.m.icw = 0 /\ p.s.icw = 0
  BY DEF Pair, Progress, Told
<1>1. CASE port = PIC1_DATA
  <2>1. q = [p EXCEPT !.m = WriteData(p.m, v)]
    BY <1>1, DataPorts
  <2> QED
    BY <1>0, <1>1, <2>1, DataChip DEF Pair, Progress, Told, PIC1_DATA, PIC2_DATA
<1>2. CASE port = PIC2_DATA
  <2>1. q = [p EXCEPT !.s = WriteData(p.s, v)]
    BY <1>2, DataPorts
  <2> QED
    BY <1>0, <1>2, <2>1, DataChip DEF Pair, Progress, Told, PIC1_DATA, PIC2_DATA
<1> QED
  BY <1>1, <1>2
=============================================================================
