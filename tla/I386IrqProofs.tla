--------------------------- MODULE I386IrqProofs ---------------------------
(***************************************************************************)
(* What the interrupts of the i386 kernel promise, whatever masks the boot *)
(* loader left, whatever faults happen and whatever lines are raised while *)
(* kernel_main programs the pair.                                          *)
(*                                                                         *)
(* ServiceDrained rests on OnlyKeyboardDelivered (an end at the master is  *)
(* enough because no line of the slave gets through), which rests on how   *)
(* far the pair has been programmed at each point of kernel_main           *)
(* (PairProgrammed) and on the gates set by then (GatesSet).               *)
(***************************************************************************)
EXTENDS I386Irq, Pic8259Proofs

(* Only the two sequences of writes count their steps. *)
StepsCounted ==
  /\ pc \notin {"pic_remap", "mask", "panic"} => step = 1
  /\ pc = "mask" => step \in 1..3

(* After pic_remap the pair is initialized, and from the end of            *)
(* interrupts_initialize on everything but line 1 is masked.               *)
PairProgrammed ==
  /\ pc = "pic_remap" => Progress(pic, IF step < 9 THEN step - 1 ELSE 8)
  /\ pc \in {"irq_install", "mask", "keyboard", "sti", "int33", "halt"} => Progress(pic, 8)
  /\ pc = "mask" /\ step = 3 => pic.s.imr = Lines
  /\ pc \in {"keyboard", "sti", "int33", "halt"} =>
       pic.m.imr = Lines \ {1} /\ pic.s.imr = Lines

GatesSet ==
  /\ pc \in {"mask", "keyboard", "sti", "int33", "halt"} => 32..47 \subseteq gates

IInv == TypeOK /\ ServiceDrained /\ StepsCounted /\ PairProgrammed /\ GatesSet

-----------------------------------------------------------------------------
(* A data port that is read gives the mask of its chip. *)
LEMMA InbMask ==
  ASSUME NEW c, c.imr \in SUBSET Lines
  PROVE  Inb(c) \in Bytes /\ BitsOf(Inb(c)) = c.imr
BY MaskIsByte DEF Inb

(* The masks that interrupts_initialize writes. *)
LEMMA MaskBits == BitsOf(255) = Lines /\ BitsOf(253) = Lines \ {1}
<1>1. 255 \in Bytes /\ 253 \in Bytes /\ Lines \in SUBSET Lines /\ Lines \ {1} \in SUBSET Lines
  BY DEF Bytes
<1>2. 0 \in Lines /\ 1 \in Lines /\ 2 \in Lines /\ 3 \in Lines
      /\ 4 \in Lines /\ 5 \in Lines /\ 6 \in Lines /\ 7 \in Lines
  BY DEF Lines
<1>3. BitsOf(255) = Lines
  BY <1>1, <1>2, EightBits, SameLines
<1>4. BitsOf(253) = Lines \ {1}
  <2>1. /\ 0 \in BitsOf(253) /\ 1 \notin BitsOf(253) /\ 2 \in BitsOf(253)
        /\ 3 \in BitsOf(253) /\ 4 \in BitsOf(253) /\ 5 \in BitsOf(253)
        /\ 6 \in BitsOf(253) /\ 7 \in BitsOf(253) /\ BitsOf(253) \in SUBSET Lines
    BY <1>1, EightBits
  <2> DEFINE T == Lines \ {1}
  <2>2. /\ 0 \in T /\ 1 \notin T /\ 2 \in T /\ 3 \in T /\ 4 \in T /\ 5 \in T
        /\ 6 \in T /\ 7 \in T /\ T \in SUBSET Lines
    BY <1>2
  <2> HIDE DEF T
  <2>3. BitsOf(253) = T
    BY <2>1, <2>2, SameLines
  <2> QED
    BY <2>3 DEF T
<1> QED
  BY <1>3, <1>4

(* The ten writes of pic_remap begin with the initialization. *)
LEMMA RemapWritesType ==
  ASSUME NEW i \in 1..10, saved \in Bytes \X Bytes
  PROVE  /\ RemapWrites[i][1] \in Ports
         /\ RemapWrites[i][2] \in Bytes
         /\ Len(RemapWrites) = 10
         /\ i < 9 => RemapWrites[i] = InitWrites[i]
         /\ i >= 9 => RemapWrites[i][1] \in {PIC1_DATA, PIC2_DATA}
<1>1. {PIC_INIT, 32, 40, 4, 2, 1} \subseteq Bytes /\ saved[1] \in Bytes /\ saved[2] \in Bytes
  BY DEF Bytes, PIC_INIT
<1>2. Len(RemapWrites) = 10
  BY DEF RemapWrites
<1>3. /\ RemapWrites[i][1] \in Ports
      /\ RemapWrites[i][2] \in {PIC_INIT, 32, 40, 4, 2, 1, saved[1], saved[2]}
  BY DEF RemapWrites, Ports
<1>4. i < 9 => RemapWrites[i] = InitWrites[i]
  BY DEF RemapWrites, InitWrites
<1>5. i >= 9 => RemapWrites[i][1] \in {PIC1_DATA, PIC2_DATA}
  BY DEF RemapWrites
<1> QED
  BY <1>1, <1>2, <1>3, <1>4, <1>5

(* An interrupt that the flag lets through is line 1, on a vector with a   *)
(* gate.                                                                   *)
LEMMA IInvOnlyKeyboard == IInv => OnlyKeyboardDelivered
<1> SUFFICES ASSUME IInv, InterruptsOn
             PROVE  Deliverable(pic) \subseteq {1} /\ pic.m.base + 1 \in gates
  BY DEF OnlyKeyboardDelivered
<1>1. /\ pic \in Pair /\ pic.m.imr = Lines \ {1} /\ Progress(pic, 8)
      /\ 32..47 \subseteq gates
  BY DEF IInv, TypeOK, PairProgrammed, GatesSet, InterruptsOn
<1>2. pic.m.base = 32
  BY <1>1 DEF Progress, Told
<1>3. ASSUME NEW irq \in Deliverable(pic) PROVE irq = 1
  <2>1. irq \in IRQs /\ CASCADE \in Lines \ {1}
    BY <1>1, DeliverableLatched DEF CASCADE, Lines
  <2>2. irq < 8 \/ irq >= 8
    BY <2>1 DEF IRQs
  <2> QED
    BY <1>1, <2>1, <2>2, DeliverableOpen
<1> QED
  BY <1>1, <1>2, <1>3

(* irq_handler ends an interrupt of line 1, and one that never began. *)
LEMMA HandlerEndsService ==
  ASSUME NEW p \in Pair, p.s.isr = {}, p.m.isr = {} \/ \E i \in Lines : p.m.isr = {i},
         NEW q, q = irq_handler(p)
  PROVE  q \in Pair /\ Idle(q) /\ Setup(q) = Setup(p)
<1>1. q = [p EXCEPT !.m = WriteCommand(p.m, PIC_EOI)] /\ p.m \in Chip
  BY CommandPorts DEF irq_handler, Pair
<1>2. Setup(q) = Setup(p)
  BY EoiSetup DEF irq_handler
<1>3. WriteCommand(p.m, PIC_EOI) \in Chip /\ WriteCommand(p.m, PIC_EOI).isr = {}
  <2>1. CASE p.m.isr = {}
    BY <1>1, <2>1, EoiChip
  <2>2. CASE \E i \in Lines : p.m.isr = {i}
    BY <1>1, <2>2, EoiOfOne
  <2> QED
    BY <2>1, <2>2
<1> QED
  BY <1>1, <1>2, <1>3 DEF Pair, Idle

(* A step that leaves kernel_main where it is, and the setup of the pair   *)
(* as it was, leaves the program part of the invariant alone.              *)
LEMMA SetupKept ==
  ASSUME IInv, UNCHANGED <<pc, step, gates>>, Setup(pic') = Setup(pic)
  PROVE  StepsCounted' /\ PairProgrammed' /\ GatesSet'
<1>1. StepsCounted' /\ GatesSet'
  BY DEF IInv, StepsCounted, GatesSet
<1>2. \A k : Progress(pic, k) => Progress(pic', k)
  BY ProgressSetup
<1>3. pic'.m.imr = pic.m.imr /\ pic'.s.imr = pic.s.imr
  BY DEF Setup
<1>4. PairProgrammed'
  BY <1>2, <1>3 DEF IInv, PairProgrammed
<1> QED
  BY <1>1, <1>4

-----------------------------------------------------------------------------
(* The invariant holds at the start. *)
LEMMA InitIInv == Init => IInv
<1> SUFFICES ASSUME Init PROVE IInv
  OBVIOUS
<1>1. pic \in Pair
  BY I386Assumption DEF Init, Pair, Chip, Lines, Bytes
<1>2. kbd \in BOOLEAN /\ full \in BOOLEAN
  BY I386Assumption, Zenon DEF Init
<1>3. TypeOK
  BY <1>1, <1>2, SMT DEF Init, TypeOK, Bytes
<1>4. ServiceDrained
  BY DEF Init, ServiceDrained, Idle
<1> QED
  BY <1>3, <1>4 DEF Init, IInv, StepsCounted, PairProgrammed, GatesSet

(* The steps of kernel_main that do not write to the pair. *)
LEMMA QuietKeepsIInv ==
  ASSUME IInv, idt_install \/ isr_install \/ SaveMasks \/ irq_install \/ interrupts_enable
  PROVE  IInv'
<1>0. TypeOK /\ ServiceDrained /\ StepsCounted /\ PairProgrammed /\ GatesSet
  BY DEF IInv
<1>1. /\ UNCHANGED <<step, kbd, pic, handlers, full>>
      /\ pc' \in {"isr_install", "save", "pic_remap", "mask", "int33"}
      /\ gates' \subseteq 0..47
  <2>1. gates \subseteq 0..47 /\ 0..31 \subseteq 0..47 /\ 32..47 \subseteq 0..47
    BY <1>0 DEF TypeOK
  <2> QED
    BY <2>1 DEF idt_install, isr_install, SaveMasks, irq_install, interrupts_enable
<1>2. saved' \in Bytes \X Bytes
  <2>1. CASE SaveMasks
    <3>1. pic.m.imr \in SUBSET Lines /\ pic.s.imr \in SUBSET Lines
      BY <1>0 DEF TypeOK, Pair, Chip
    <3> QED
      BY <2>1, <3>1, InbMask DEF SaveMasks
  <2>2. CASE ~SaveMasks
    BY <1>0, <2>2 DEF TypeOK, idt_install, isr_install, irq_install, interrupts_enable
  <2> QED
    BY <2>1, <2>2
<1>3. TypeOK'
  BY <1>0, <1>1, <1>2 DEF TypeOK
<1>4. ServiceDrained'
  BY <1>0, <1>1 DEF ServiceDrained, Idle
<1>5. StepsCounted'
  BY <1>0, <1>1
     DEF StepsCounted, idt_install, isr_install, SaveMasks, irq_install, interrupts_enable
<1>6. PairProgrammed'
  <2>1. CASE SaveMasks
    <3>1. step = 1 /\ pc' = "pic_remap" /\ Progress(pic', 0)
      BY <1>0, <2>1 DEF SaveMasks, StepsCounted, Progress, Told
    <3> QED
      BY <1>1, <3>1 DEF PairProgrammed
  <2>2. CASE irq_install
    BY <1>0, <1>1, <2>2 DEF irq_install, PairProgrammed, StepsCounted
  <2>3. CASE interrupts_enable
    BY <1>0, <1>1, <2>3 DEF interrupts_enable, PairProgrammed
  <2>4. CASE idt_install \/ isr_install
    BY <2>4 DEF idt_install, isr_install, PairProgrammed
  <2> QED
    BY <2>1, <2>2, <2>3, <2>4
<1>7. GatesSet'
  BY <1>0, <1>1 DEF GatesSet, idt_install, isr_install, SaveMasks, irq_install, interrupts_enable
<1> QED
  BY <1>3, <1>4, <1>5, <1>6, <1>7 DEF IInv

(* A write of pic_remap. *)
LEMMA RemapKeepsIInv == ASSUME IInv, pic_remap PROVE IInv'
<1>0. TypeOK /\ ServiceDrained /\ PairProgrammed
  BY DEF IInv
<1>1. step \in 1..10 /\ pic \in Pair /\ saved \in Bytes \X Bytes /\ pc = "pic_remap"
  BY <1>0 DEF TypeOK, pic_remap
<1>2. /\ pic' \in Pair
      /\ pic'.m.isr \subseteq pic.m.isr /\ pic'.s.isr \subseteq pic.s.isr
  BY <1>1, RemapWritesType, OutbType DEF pic_remap
<1>3. /\ step < 10 => step' = step + 1 /\ pc' = "pic_remap"
      /\ step = 10 => step' = 1 /\ pc' = "irq_install"
  <2>1. Len(RemapWrites) = 10
    BY <1>1, RemapWritesType
  <2> QED
    BY <1>1, <2>1 DEF pic_remap
<1>4. TypeOK'
  BY <1>0, <1>1, <1>2, <1>3 DEF TypeOK, pic_remap
<1>5. ServiceDrained'
  BY <1>0, <1>2 DEF ServiceDrained, Idle
<1>6. StepsCounted' /\ GatesSet'
  BY <1>1, <1>3 DEF StepsCounted, GatesSet
<1>7. PairProgrammed'
  <2>1. CASE step < 9
    <3>1. step - 1 \in 0..7 /\ Progress(pic, step - 1) /\ step - 1 + 1 = step
      BY <1>0, <1>1, <2>1 DEF PairProgrammed
    <3>2. pic' = Outb(pic, InitWrites[step - 1 + 1][1], InitWrites[step - 1 + 1][2])
      BY <1>1, <2>1, <3>1, RemapWritesType DEF pic_remap
    <3>3. Progress(pic', step)
      BY <1>1, <3>1, <3>2, ProgressWrite
    <3> QED
      BY <1>1, <1>3, <2>1, <3>3 DEF PairProgrammed
  <2>2. CASE step >= 9
    <3>1. Progress(pic, 8)
      BY <1>0, <1>1, <2>2 DEF PairProgrammed
    <3>2. Progress(pic', 8)
      BY <1>1, <2>2, <3>1, RemapWritesType, MaskWrite DEF pic_remap
    <3> QED
      BY <1>1, <1>3, <2>2, <3>2 DEF PairProgrammed
  <2> QED
    BY <1>1, <2>1, <2>2
<1> QED
  BY <1>4, <1>5, <1>6, <1>7 DEF IInv

(* A write of the masks. *)
LEMMA MaskKeepsIInv == ASSUME IInv, interrupts_initialize PROVE IInv'
<1>0. TypeOK /\ ServiceDrained /\ StepsCounted /\ PairProgrammed /\ GatesSet
  BY DEF IInv
<1>1. step \in 1..3 /\ pic \in Pair /\ pc = "mask" /\ Progress(pic, 8)
  BY <1>0 DEF TypeOK, StepsCounted, PairProgrammed, interrupts_initialize
<1>2. /\ MaskWrites[step][1] = IF step = 2 THEN PIC2_DATA ELSE PIC1_DATA
      /\ MaskWrites[step][2] = IF step = 3 THEN 253 ELSE 255
      /\ Len(MaskWrites) = 3
  BY <1>1 DEF MaskWrites
<1>3. /\ MaskWrites[step][1] \in {PIC1_DATA, PIC2_DATA} /\ MaskWrites[step][1] \in Ports
      /\ MaskWrites[step][2] \in Bytes /\ PIC1_DATA # PIC2_DATA
  BY <1>2 DEF Ports, Bytes, PIC1_DATA, PIC2_DATA
<1>4. /\ pic' \in Pair
      /\ pic'.m.isr \subseteq pic.m.isr /\ pic'.s.isr \subseteq pic.s.isr
  BY <1>1, <1>3, OutbType DEF interrupts_initialize
<1>5. /\ Progress(pic', 8)
      /\ step = 2 => pic'.s.imr = Lines
      /\ step = 3 => pic'.m.imr = Lines \ {1} /\ pic'.s.imr = pic.s.imr
  BY <1>1, <1>2, <1>3, MaskWrite, MaskBits DEF interrupts_initialize
<1>6. /\ step < 3 => step' = step + 1 /\ pc' = "mask"
      /\ step = 3 => step' = 1 /\ pc' \in {"keyboard", "sti"}
  BY <1>1, <1>2 DEF interrupts_initialize
<1>7. TypeOK'
  BY <1>0, <1>1, <1>4, <1>6 DEF TypeOK, interrupts_initialize
<1>8. ServiceDrained'
  BY <1>0, <1>4 DEF ServiceDrained, Idle
<1>9. StepsCounted' /\ GatesSet'
  BY <1>0, <1>1, <1>6 DEF StepsCounted, GatesSet, interrupts_initialize
<1>10. PairProgrammed'
  BY <1>0, <1>1, <1>5, <1>6 DEF PairProgrammed
<1> QED
  BY <1>7, <1>8, <1>9, <1>10 DEF IInv

(* keyboard_initialize opens line 1, which is open already. *)
LEMMA KeyboardKeepsIInv == ASSUME IInv, keyboard_initialize PROVE IInv'
<1>0. TypeOK /\ ServiceDrained /\ StepsCounted /\ PairProgrammed /\ GatesSet
  BY DEF IInv
<1>1. /\ pic \in Pair /\ pc = "keyboard" /\ Progress(pic, 8) /\ step = 1
      /\ pic.m.imr = Lines \ {1} /\ pic.s.imr = Lines
  BY <1>0 DEF TypeOK, StepsCounted, PairProgrammed, keyboard_initialize
<1>2. pic.m \in Chip
  BY <1>1 DEF Pair
<1> DEFINE v == Inb([pic.m EXCEPT !.imr = pic.m.imr \ {1}])
<1>3. v \in Bytes /\ BitsOf(v) = Lines \ {1}
  <2>1. [pic.m EXCEPT !.imr = pic.m.imr \ {1}].imr = Lines \ {1}
    BY <1>1, <1>2 DEF Chip
  <2> QED
    BY <2>1, InbMask
<1>4. pic' = [pic EXCEPT !.m = WriteData(pic.m, v)]
  BY DEF keyboard_initialize, irq_register_handler, pic_clear_mask
<1> HIDE DEF v
<1>5. pic' = Outb(pic, PIC1_DATA, v)
  BY <1>4, DataPorts
<1>6. /\ pic' \in Pair
      /\ pic'.m.isr \subseteq pic.m.isr /\ pic'.s.isr \subseteq pic.s.isr
  BY <1>1, <1>3, <1>5, OutbType DEF Ports
<1>7. /\ Progress(pic', 8) /\ pic'.m.imr = Lines \ {1} /\ pic'.s.imr = Lines
  BY <1>1, <1>3, <1>5, MaskWrite DEF PIC1_DATA, PIC2_DATA
<1>8. handlers' \subseteq 0..47
  BY <1>0 DEF TypeOK, keyboard_initialize, irq_register_handler
<1>9. TypeOK'
  BY <1>0, <1>6, <1>8 DEF TypeOK, keyboard_initialize
<1>10. ServiceDrained'
  BY <1>0, <1>6 DEF ServiceDrained, Idle
<1>11. StepsCounted' /\ GatesSet' /\ PairProgrammed'
  BY <1>0, <1>1, <1>7 DEF StepsCounted, GatesSet, PairProgrammed, keyboard_initialize
<1> QED
  BY <1>9, <1>10, <1>11 DEF IInv

(* int 33, with nothing in service. *)
LEMMA Int33KeepsIInv == ASSUME IInv, Int33 PROVE IInv'
<1>0. TypeOK /\ ServiceDrained /\ StepsCounted /\ PairProgrammed /\ GatesSet
  BY DEF IInv
<1>1. pic \in Pair /\ pc = "int33" /\ pc' = "halt" /\ pic.m.isr = {} /\ pic.s.isr = {}
  BY <1>0 DEF TypeOK, ServiceDrained, Idle, Int33
<1>2. pic' \in Pair /\ Idle(pic') /\ Setup(pic') = Setup(pic)
  BY <1>1, HandlerEndsService DEF Int33
<1>3. Progress(pic', 8) /\ pic'.m.imr = pic.m.imr /\ pic'.s.imr = pic.s.imr
  BY <1>0, <1>1, <1>2, ProgressSetup DEF PairProgrammed, Setup
<1>4. TypeOK' /\ ServiceDrained'
  BY <1>0, <1>1, <1>2 DEF TypeOK, ServiceDrained, Int33
<1>5. StepsCounted' /\ GatesSet' /\ PairProgrammed'
  BY <1>0, <1>1, <1>3 DEF StepsCounted, GatesSet, PairProgrammed, Int33
<1> QED
  BY <1>4, <1>5 DEF IInv

(* An interrupt, from the acknowledgement to its end. *)
LEMMA IrqKeepsIInv == ASSUME IInv, irq_common_stub PROVE IInv'
<1>0. TypeOK /\ ServiceDrained
  BY DEF IInv
<1>1. PICK irq \in Deliverable(pic) : pic' = irq_handler(Acknowledge(pic, irq))
  BY DEF irq_common_stub
<1>2. irq = 1 /\ irq \in IRQs /\ irq # CASCADE /\ irq < 8 /\ 1 \in Lines
  BY IInvOnlyKeyboard DEF OnlyKeyboardDelivered, irq_common_stub, IRQs, CASCADE, Lines
<1>3. pic \in Pair /\ Idle(pic)
  BY <1>0 DEF TypeOK, ServiceDrained
<1> DEFINE a == Acknowledge(pic, irq)
<1>4. /\ a \in Pair /\ a.m.isr = {1} /\ a.s.isr = {} /\ Setup(a) = Setup(pic)
  BY <1>2, <1>3, AcknowledgeIdle, AcknowledgeSetup
<1> HIDE DEF a
<1>5. pic' \in Pair /\ Idle(pic') /\ Setup(pic') = Setup(pic)
  BY <1>1, <1>2, <1>4, HandlerEndsService DEF a
<1>6. UNCHANGED <<pc, step, kbd, saved, gates, handlers, full>>
  BY DEF irq_common_stub
<1>7. StepsCounted' /\ PairProgrammed' /\ GatesSet'
  BY <1>5, <1>6, SetupKept
<1>8. TypeOK' /\ ServiceDrained'
  BY <1>0, <1>5, <1>6 DEF TypeOK, ServiceDrained
<1> QED
  BY <1>7, <1>8 DEF IInv

(* After a panic nothing is promised but that nothing is in service. *)
LEMMA FaultKeepsIInv == ASSUME IInv, isr_common_stub PROVE IInv'
<1>1. /\ UNCHANGED <<step, kbd, saved, pic, gates, handlers, full>>
      /\ pc' = pc \/ pc' = "panic"
  BY DEF isr_common_stub, isr_handler
<1>2. TypeOK' /\ ServiceDrained'
  BY <1>1 DEF IInv, TypeOK, ServiceDrained, Idle
<1>3. StepsCounted' /\ PairProgrammed' /\ GatesSet'
  <2>1. CASE pc' = pc
    BY <1>1, <2>1 DEF IInv, StepsCounted, PairProgrammed, GatesSet
  <2>2. CASE pc' = "panic"
    BY <2>2 DEF StepsCounted, PairProgrammed, GatesSet
  <2> QED
    BY <1>1, <2>1, <2>2
<1> QED
  BY <1>2, <1>3 DEF IInv

(* A device raises its line. *)
LEMMA DeviceKeepsIInv ==
  ASSUME IInv, KeyEvent \/ \E irq \in DeviceLines : LineUp(irq)
  PROVE  IInv'
<1>0. TypeOK /\ ServiceDrained
  BY DEF IInv
<1>1. PICK irq \in IRQs : pic' = Raise(pic, irq)
  BY I386Assumption DEF KeyEvent, LineUp, IRQs
<1>2. pic' \in Pair /\ Idle(pic') /\ Setup(pic') = Setup(pic)
  BY <1>0, <1>1, RaiseType, RaiseSetup DEF TypeOK, ServiceDrained, Idle
<1>3. UNCHANGED <<pc, step, kbd, saved, gates, handlers>>
  BY DEF KeyEvent, LineUp
<1>4. full' \in BOOLEAN
  BY <1>0, Zenon DEF TypeOK, KeyEvent, LineUp
<1>5. TypeOK' /\ ServiceDrained'
  BY <1>0, <1>2, <1>3, <1>4 DEF TypeOK, ServiceDrained
<1> QED
  BY <1>2, <1>3, <1>5, SetupKept DEF IInv

(* Every step keeps it. *)
LEMMA NextIInv == IInv /\ [Next]_vars => IInv'
<1> SUFFICES ASSUME IInv, [Next]_vars PROVE IInv'
  OBVIOUS
<1>1. CASE UNCHANGED vars
  BY <1>1 DEF IInv, TypeOK, ServiceDrained, Idle, StepsCounted, PairProgrammed, GatesSet, vars
<1>2. CASE Next
  BY <1>2, QuietKeepsIInv, RemapKeepsIInv, MaskKeepsIInv, KeyboardKeepsIInv, Int33KeepsIInv,
     IrqKeepsIInv, FaultKeepsIInv, DeviceKeepsIInv DEF Next, MainStep
<1> QED
  BY <1>1, <1>2

(* So it always holds. *)
LEMMA AlwaysIInv == Spec => []IInv
BY InitIInv, NextIInv, PTL DEF Spec

(* The variables of the interrupt code keep their types, for every set of  *)
(* masks the boot loader may leave: pic_remap always finds a byte to save. *)
THEOREM TypeCorrect == Spec => []TypeOK
<1>1. IInv => TypeOK
  BY DEF IInv
<1> QED
  BY <1>1, AlwaysIInv, PTL

(* For every mask the boot loader leaves and every set of lines, only line *)
(* 1 ever reaches the processor, and its vector has a gate.                *)
THEOREM NothingButTheKeyboard == Spec => []OnlyKeyboardDelivered
BY AlwaysIInv, IInvOnlyKeyboard, PTL

(* The end of interrupt that irq_handler sends to the master only, and the *)
(* one of int 33, leave nothing in service on either chip.                 *)
THEOREM ServiceEnds == Spec => []ServiceDrained
<1>1. IInv => ServiceDrained
  BY DEF IInv
<1> QED
  BY <1>1, AlwaysIInv, PTL
=============================================================================
